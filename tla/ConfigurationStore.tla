-------------------------- MODULE ConfigurationStore --------------------------
(***************************************************************************)
(* Stores/ConfigurationStore/ConfigurationStore.cs: a map of tenants built *)
(* from the sections of a configuration, and built anew whenever the       *)
(* configuration (external) tells that it has changed.                     *)
(*                                                                         *)
(* A build reads the configuration value by value while a provider may put *)
(* another content in its place, so one build may see parts of several     *)
(* contents.  A provider first replaces its content and then raises the    *)
(* change.  ChangeToken.OnChange takes the next token before it calls      *)
(* UpdateTenantMap and registers for it afterwards, at once if it fired    *)
(* meanwhile and also if UpdateTenantMap threw; so builds never overlap.   *)
(*                                                                         *)
(* Requests read the reference _tenantMap once; they change nothing.       *)
(***************************************************************************)
EXTENDS TenantInfo, Integers

CONSTANTS
  Sections,       \* the children of "Tenants", in the order GetChildren lists them
  Defaults,       \* the section "Defaults"
  Configs,        \* the contents the configuration may have
  Comparer,       \* StringComparer.OrdinalIgnoreCase, as in InMemoryStore
  EarlyChanges    \* whether the content may change while the store is constructed

Values == [id : Ids \cup {Null}, key : Keys \cup {Null}]
Fields == {"id", "key"}

ASSUME ConfigurationAssumption ==
  /\ Sections \subseteq Int /\ Defaults \notin Sections
  /\ Null \notin Ids /\ Null \notin Keys /\ Null \notin Values
  /\ Comparer \in [Keys -> Keys]
  /\ Configs \subseteq [Sections \cup {Defaults} -> Values]
  /\ EarlyChanges \in BOOLEAN

VARIABLES
  config,     \* the content of the configuration, at first perhaps none
  unraised,   \* the content was replaced and the change is not raised yet
  fired,      \* the token the store is to wait for has fired
  tenantMap,  \* _tenantMap
  stage,      \* what the store does: none (yet), construct, register, rest, reload
  load        \* the UpdateTenantMap in flight

storeVars == <<fired, tenantMap, stage, load>>
vars == <<config, unraised, fired, tenantMap, stage, load>>

Slots == {Comparer[k] : k \in Keys}

\* A tenant about which nothing is configured; a section without values does not exist.
Blank == [id |-> Null, key |-> Null]
Children(cfg) == {i \in Sections : cfg[i] # Blank}

\* The section of the store exists if there is anything in it.
Absent == [i \in Sections \cup {Defaults} |-> Blank]
Contents == Configs \cup {Absent}
Exists(cfg) == \E i \in Sections \cup {Defaults} : cfg[i] # Blank

NoTenants == [s \in Slots |-> Null]

\* UpdateTenantMap at work on the first of the sections in todo: the tenant as
\* far as it is bound, from the defaults and then from its section.
Load(todo, map) ==
  [todo |-> todo, map |-> map, from |-> "defaults", unread |-> Fields, tenant |-> Blank]

NoLoad == Load({}, NoTenants)

Loading  == stage \in {"construct", "reload"}
IsFirst(i) == i \in load.todo /\ \A j \in load.todo : i <= j

(* The configuration: a provider takes a new content, and then raises the   *)
(* change.  Reload() raises one as well when nothing has changed.           *)
Change ==
  /\ EarlyChanges \/ stage \in {"none", "rest", "reload"}
  /\ config' \in Configs \ {config}
  /\ unraised' = TRUE
  /\ UNCHANGED storeVars

Raise ==
  /\ unraised' = FALSE
  /\ fired' = (stage \in {"rest", "reload"})
  /\ UNCHANGED <<config, tenantMap, stage, load>>

(* UpdateTenantMap *)
StartLoad == load' = Load(Children(config), NoTenants)

\* The constructor, called when a request asks for the store; it throws if the
\* section does not exist, and there is no store then.
Construct ==
  /\ stage = "none" /\ Exists(config)
  /\ stage' = "construct"
  /\ StartLoad
  /\ UNCHANGED <<config, unraised, fired, tenantMap>>

\* Get of the defaults and Bind of the section, one value of one of them.
ReadValue(i, f) ==
  LET value == config[IF load.from = "defaults" THEN Defaults ELSE i][f]
      over  == load.from = "defaults" /\ load.unread = {f}
  IN /\ Loading /\ IsFirst(i)
     /\ f \in load.unread
     /\ load' = [load EXCEPT
          !.tenant = IF value = Null THEN @ ELSE [@ EXCEPT ![f] = value],
          !.from   = IF over THEN "section" ELSE @,
          !.unread = IF over THEN Fields ELSE @ \ {f}]
     /\ UNCHANGED <<config, unraised, fired, tenantMap, stage>>

\* The tenant of section i, defaults and all, when the content is cfg.
Bound(cfg, i) ==
  [f \in Fields |-> IF cfg[i][f] = Null THEN cfg[Defaults][f] ELSE cfg[i][f]]

IsBound(i) == Loading /\ IsFirst(i) /\ load.from = "section" /\ load.unread = {}

\* Plausible mistakes: the indexer instead of TryAdd; trying until it succeeds.
AddTenantOverwrites(i) ==
  /\ IsBound(i) /\ load.tenant.key # Null
  /\ load' = Load(load.todo \ {i}, [load.map EXCEPT ![Comparer[load.tenant.key]] = load.tenant])
  /\ UNCHANGED <<config, unraised, fired, tenantMap, stage>>

AddTenantRetries(i) ==
  /\ IsBound(i) /\ load.tenant.key # Null
  /\ load' = IF load.map[Comparer[load.tenant.key]] = Null
               THEN Load(load.todo \ {i}, [load.map EXCEPT ![Comparer[load.tenant.key]] = load.tenant])
               ELSE Load(load.todo, load.map)
  /\ UNCHANGED <<config, unraised, fired, tenantMap, stage>>

\* TryAdd keeps the tenant that came first under an identifier.
AddTenant(i) ==
  /\ IsBound(i) /\ load.tenant.key # Null
  /\ load' = Load(load.todo \ {i},
       [load.map EXCEPT ![Comparer[load.tenant.key]] = IF @ = Null THEN load.tenant ELSE @])
  /\ UNCHANGED <<config, unraised, fired, tenantMap, stage>>

\* A plausible mistake: a build that throws takes the old map with it.
ThrowDropsMap(i) ==
  /\ IsBound(i) /\ load.tenant.key = Null
  /\ load' = NoLoad
  /\ stage' = IF stage = "construct" THEN "none" ELSE "rest"
  /\ tenantMap' = Null
  /\ UNCHANGED <<config, unraised, fired>>

\* TryAdd throws on a tenant without identifier.  The map stays; if it was the
\* constructor that called there is no store, and the next request tries again.
Throw(i) ==
  /\ IsBound(i) /\ load.tenant.key = Null
  /\ load' = NoLoad
  /\ stage' = IF stage = "construct" THEN "none" ELSE "rest"
  /\ UNCHANGED <<config, unraised, fired, tenantMap>>

\* A plausible mistake: taking the next token only after the map is built.
EndLoadTakesToken ==
  /\ Loading /\ load.todo = {}
  /\ tenantMap' = load.map
  /\ load' = NoLoad
  /\ stage' = IF stage = "construct" THEN "register" ELSE "rest"
  /\ fired' = FALSE
  /\ UNCHANGED <<config, unraised>>

EndLoad ==
  /\ Loading /\ load.todo = {}
  /\ tenantMap' = load.map
  /\ load' = NoLoad
  /\ stage' = IF stage = "construct" THEN "register" ELSE "rest"
  /\ UNCHANGED <<config, unraised, fired>>

(* ChangeToken.OnChange: the constructor takes the token of the moment; a   *)
(* token that fires makes the store take the next one and build a new map.  *)
Register ==
  /\ stage = "register"
  /\ stage' = "rest"
  /\ fired' = FALSE
  /\ UNCHANGED <<config, unraised, tenantMap, load>>

\* A plausible mistake: emptying the map that requests read.
ReloadEmptiesMap ==
  /\ stage = "rest" /\ fired
  /\ stage' = "reload"
  /\ fired' = FALSE
  /\ StartLoad
  /\ tenantMap' = NoTenants
  /\ UNCHANGED <<config, unraised>>

Reload ==
  /\ stage = "rest" /\ fired
  /\ stage' = "reload"
  /\ fired' = FALSE
  /\ StartLoad
  /\ UNCHANGED <<config, unraised, tenantMap>>

Init ==
  /\ config \in Contents
  /\ unraised = FALSE
  /\ fired = FALSE
  /\ tenantMap = Null
  /\ stage = "none"
  /\ load = NoLoad

StoreStep ==
  \/ \E i \in Sections :
       (\E f \in Fields : ReadValue(i, f)) \/ AddTenant(i) \/ Throw(i)
  \/ Construct \/ EndLoad \/ Register \/ Reload

Next == Change \/ Raise \/ StoreStep

Spec == Init /\ [][Next]_vars

\* A provider that has replaced its content raises the change, and the callbacks
\* run; requests keep asking for the store until there is one.  Nothing makes the
\* content change, and nothing stops it from changing.
FairSpec == Spec /\ WF_vars(unraised /\ Raise) /\ WF_vars(StoreStep)
-----------------------------------------------------------------------------
Maps == [Slots -> Values \cup {Null}]

Loads ==
  [todo : SUBSET Sections, map : Maps, from : {"defaults", "section"},
   unread : SUBSET Fields, tenant : Values]

TypeOK ==
  /\ config \in Contents
  /\ unraised \in BOOLEAN /\ fired \in BOOLEAN
  /\ tenantMap \in Maps \/ (tenantMap = Null /\ stage \in {"none", "construct"})
  /\ stage \in {"none", "construct", "register", "rest", "reload"}
  /\ load \in Loads

Served == stage \in {"rest", "reload"}

\* map holds the tenants of the sections S of the content cfg, under every
\* identifier the tenant whose section comes first.
HoldsTenants(map, cfg, S) ==
  \A s \in Slots :
    \/ map[s] = Null /\ \A i \in S : Comparer[Bound(cfg, i).key] # s
    \/ \E i \in S :
         /\ map[s] = Bound(cfg, i) /\ Comparer[Bound(cfg, i).key] = s
         /\ \A j \in S : j < i => Comparer[Bound(cfg, j).key] # s

Valid(cfg) == \A i \in Children(cfg) : Bound(cfg, i).key # Null

Holds(cfg) == HoldsTenants(tenantMap, cfg, Children(cfg))

\* docs/Stores.md: "if the app is configured to reload its configuration if the
\* source changes [...] the MultiTenant store will reflect the change".  Whenever
\* nothing is under way, the store holds what the configuration says, whatever
\* mixture of contents it built maps from before and whatever builds threw.
RestsOnTheConfiguration ==
  stage = "rest" /\ ~fired /\ ~unraised /\ Valid(config) => Holds(config)

\* Section i says the same in every content, and no section before it ever
\* takes its identifier.
Steady(i) ==
  \A c, d \in Configs :
    /\ c[i] = d[i] /\ c[i].id # Null /\ c[i].key # Null
    /\ \A j \in Sections : j < i =>
         /\ c[j].key # Null => Comparer[c[j].key] # Comparer[c[i].key]
         /\ c[Defaults].key # Null => Comparer[c[Defaults].key] # Comparer[c[i].key]

\* Requests for a tenant that stays configured find it all the time: while a map
\* is built, when a build mixes contents, and when one throws.
SteadyTenantsAreServed ==
  Served => \A i \in Sections : Steady(i) => tenantMap[Comparer[config[i].key]] = config[i]

\* Once the configuration stays as it is and every tenant in it has an
\* identifier, the store comes to hold it and keeps holding it.
ChangesAreReflected ==
  \A cfg \in Configs :
    Valid(cfg) /\ Exists(cfg) => (<>[](config = cfg) => <>[](Served /\ Holds(cfg)))
=============================================================================
