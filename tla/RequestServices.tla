---------------------------- MODULE RequestServices ----------------------------
(***************************************************************************)
(* What the services of a request hold for which tenant, while the current *)
(* tenant changes and options are configured anew.                         *)
(*                                                                         *)
(* HttpContext.RequestServices is a scope of services, which OverrideTenant*)
(* Info may replace by a new one for all code of the request, although the *)
(* accessor's tenant changes for the method and its callees only.  A scope *)
(* has one MultiTenantDbContext, bound to the tenant that is current when  *)
(* it is first asked for, and one IOptionsSnapshot with a private cache.   *)
(* IOptions is the same with one private cache for all scopes.  The caches *)
(* are keyed by the id of the tenant; MultiTenantOptionsCache has them in  *)
(* detail, and so the cache of IOptionsMonitor, another singleton.         *)
(***************************************************************************)
EXTENDS Naturals, Sequences

CONSTANTS
  Requests,
  Tenants,    \* TenantInfo objects: id and whatever else makes them differ
  MaxFlows,   \* bound on the nesting of async methods
  MaxConfig,  \* bound on how often the options are configured anew
  NotMade,      \* a service nobody has asked for, options nobody has
  NoTenantInfo  \* C# null where a TenantInfo object is expected

\* What the caches are keyed by, "" for no tenant.
OptionsIds == {t.id : t \in Tenants} \cup {""}

ServicesParameters ==
  /\ NoTenantInfo \notin Tenants /\ NotMade \notin Tenants \cup {NoTenantInfo}
  /\ MaxFlows \in Nat \ {0} /\ MaxConfig \in Nat

ASSUME ServicesAssumption == ServicesParameters

VARIABLES
  items, flows, setIn,  \* as in CurrentTenant
  config,     \* what options are configured from
  scope,      \* RequestServices of each request
  singleton,  \* the private cache of IOptions
  fresh       \* history: was the scope made when the tenant was set last?

Current == INSTANCE CurrentTenant WITH Keys <- Tenants, Null <- NoTenantInfo

contextVars == <<items, flows, setIn>>
servicesVars == <<items, flows, setIn, config, scope, singleton, fresh>>

\* What the accessor says in the method that runs.
Tenant(r) == flows[r][Current!Depth(r)]
IdOf(t) == IF t = NoTenantInfo THEN "" ELSE t.id

NoOptions == [id \in OptionsIds |-> NotMade]

NewScope == [snapshot |-> NoOptions, dbContext |-> NotMade, began |-> config]
-----------------------------------------------------------------------------
(* MultiTenantOptionsManager.Get and Reset for the current tenant, on its   *)
(* cache: the factory configures the options for the accessor's tenant.     *)

\* A plausible mistake: options from before the tenant was asked for.
MadeTooEarly(t) == [tenant |-> NotMade, config |-> config]

Made(t) == [tenant |-> t, config |-> config]

Get(cache, t) == IF cache[IdOf(t)] = NotMade THEN [cache EXCEPT ![IdOf(t)] = Made(t)] ELSE cache

Reset(cache, t) == [cache EXCEPT ![IdOf(t)] = NotMade]

\* A plausible mistake: snapshots registered as the singleton that IOptions is.
SendWithSnapshot(r) ==
  /\ Current!NewContext(r)
  /\ scope' = [scope EXCEPT ![r] = [NewScope EXCEPT !.snapshot = scope[r].snapshot]]
  /\ fresh' = [fresh EXCEPT ![r] = FALSE]
  /\ UNCHANGED <<config, singleton>>

\* The next request: its services are a scope of their own, singletons remain.
Send(r) ==
  /\ Current!NewContext(r)
  /\ scope' = [scope EXCEPT ![r] = NewScope]
  /\ fresh' = [fresh EXCEPT ![r] = FALSE]
  /\ UNCHANGED <<config, singleton>>

\* The middleware, wherever in the pipeline it is, and what it resolves.
Invoke(r, t) ==
  /\ Current!SetContext(r, t)
  /\ fresh' = [fresh EXCEPT ![r] = FALSE]
  /\ UNCHANGED <<config, scope, singleton>>

\* A plausible mistake: the snapshot moves on to the new scope.
OverrideKeepsSnapshot(r, t, resetServiceProviderScope) ==
  /\ scope' = [scope EXCEPT ![r] =
       IF resetServiceProviderScope THEN [NewScope EXCEPT !.snapshot = scope[r].snapshot] ELSE @]
  /\ Current!SetContext(r, t)
  /\ fresh' = [fresh EXCEPT ![r] = resetServiceProviderScope]
  /\ UNCHANGED <<config, singleton>>

OverrideTenantInfo(r, t, resetServiceProviderScope) ==
  /\ scope' = [scope EXCEPT ![r] = IF resetServiceProviderScope THEN NewScope ELSE @]
  /\ Current!SetContext(r, t)
  /\ fresh' = [fresh EXCEPT ![r] = resetServiceProviderScope]
  /\ UNCHANGED <<config, singleton>>

Nest(r) ==
  /\ Current!CallAsync(r) \/ Current!ReturnAsync(r)
  /\ UNCHANGED <<config, scope, singleton, fresh>>

\* The constructor takes the accessor's tenant; the scope keeps the object.
GetDbContext(r) ==
  /\ scope[r].dbContext = NotMade
  /\ scope' = [scope EXCEPT ![r].dbContext = Tenant(r)]
  /\ UNCHANGED <<contextVars, config, singleton, fresh>>

UseSnapshot(r) ==
  /\ \/ scope' = [scope EXCEPT ![r].snapshot = Get(@, Tenant(r))]
     \/ scope' = [scope EXCEPT ![r].snapshot = Reset(@, Tenant(r))]
  /\ UNCHANGED <<contextVars, config, singleton, fresh>>

UseOptions(r) ==
  /\ \/ singleton' = Get(singleton, Tenant(r))
     \/ singleton' = Reset(singleton, Tenant(r))
  /\ UNCHANGED <<contextVars, config, scope, fresh>>

\* A configuration reloads, or services that configure options change.
Configure ==
  /\ config < MaxConfig
  /\ config' = config + 1
  /\ UNCHANGED <<contextVars, scope, singleton, fresh>>

ServicesInit ==
  /\ items = [r \in Requests |-> NoTenantInfo]
  /\ flows = [r \in Requests |-> <<NoTenantInfo>>]
  /\ setIn = [r \in Requests |-> 0]
  /\ config = 0
  /\ scope = [r \in Requests |-> NewScope]
  /\ singleton = NoOptions
  /\ fresh = [r \in Requests |-> FALSE]

ServicesNext ==
  \/ \E r \in Requests :
       \/ Send(r) \/ Nest(r)
       \/ \E t \in Tenants \cup {NoTenantInfo} : Invoke(r, t)
       \/ \E t \in Tenants, reset \in BOOLEAN : OverrideTenantInfo(r, t, reset)
       \/ GetDbContext(r) \/ UseSnapshot(r) \/ UseOptions(r)
  \/ Configure

ServicesSpec == ServicesInit /\ [][ServicesNext]_servicesVars
-----------------------------------------------------------------------------
Options == [tenant : Tenants \cup {NoTenantInfo}, config : 0..MaxConfig]
Caches  == [OptionsIds -> Options \cup {NotMade}]

ServicesTypeOK ==
  /\ Current!ContextTypeOK
  /\ config \in 0..MaxConfig
  /\ scope \in [Requests -> [snapshot : Caches, dbContext : Tenants \cup {NoTenantInfo, NotMade},
                             began : 0..MaxConfig]]
  /\ singleton \in Caches
  /\ fresh \in [Requests -> BOOLEAN]

\* docs/ConfigurationAndUsage.md: with the scope reset, "scoped services already
\* resolved will be resolved again under the current tenant".  In the method that
\* set the tenant so, and in all that it calls, the request's services hold
\* nothing but what was made for that TenantInfo object: neither what a method
\* before it left nor another object with the same id.
ScopedServicesFollowResets ==
  \A r \in Requests : fresh[r] /\ setIn[r] # 0 =>
    /\ Tenant(r) = items[r]
    /\ scope[r].dbContext \in {NotMade, items[r]}
    /\ \A id \in OptionsIds :
         scope[r].snapshot[id] # NotMade => scope[r].snapshot[id].tenant = items[r]

\* docs/Options.md: IOptionsSnapshot instances "are generated once per HTTP
\* request".  What a snapshot has was configured since the scope began, and for
\* the tenant it is under, whatever other requests, overrides and callers do.
SnapshotsAreOfTheScope ==
  \A r \in Requests, id \in OptionsIds :
    LET options == scope[r].snapshot[id]
    IN options # NotMade => options.config >= scope[r].began /\ IdOf(options.tenant) = id

\* docs/Options.md: "IOptions<TOptions> instances are always regenerated when
\* injected".  Were they, what a request meets in IOptions for its tenant would be
\* configured since the request's scope began.  No run has it: there is one
\* IOptions for all scopes (ServiceCollectionExtensions.cs:267), and the README
\* tells how TLC shows it to keep options from before.
OptionsAreRegenerated ==
  \A r \in Requests :
    LET options == singleton[IdOf(Tenant(r))]
    IN options # NotMade => options.config >= scope[r].began
=============================================================================
