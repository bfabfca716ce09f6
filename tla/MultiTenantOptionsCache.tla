----------------------- MODULE MultiTenantOptionsCache -----------------------
(***************************************************************************)
(* Options/MultiTenantOptionsCache.cs: a dictionary from tenant ids to one *)
(* OptionsCache each, which is a dictionary from option names to Lazy      *)
(* objects (external).  Every method reads the current tenant, gets or     *)
(* adds the tenant's cache, and then calls that cache; other callers run   *)
(* between the two.                                                        *)
(*                                                                         *)
(* A Lazy runs its factory once, in the flow of whoever asks for the value *)
(* first, and keeps what came of it, an instance or an exception.  It      *)
(* stands for its instance here.  One that nothing refers to is garbage    *)
(* and may be allocated again.                                             *)
(***************************************************************************)
EXTENDS Integers

CONSTANTS
  Clients,    \* the flows that call the cache
  TenantIds,
  NoTenant,   \* "", the id that stands for no current tenant
  OptionNames,
  Lazies,
  ClearArgs,  \* what Clear(tenantId) is called with
  Null

CacheIds == TenantIds \cup {NoTenant}

ASSUME OptionsAssumption ==
  Null \notin Lazies /\ Null \notin CacheIds /\ ClearArgs \subseteq CacheIds \cup {Null}

VARIABLES
  caches,   \* _map: the tenants that have a cache
  entry,    \* per cache and name, the Lazy in it or Null
  lazy,     \* the state of each Lazy and the tenant its instance was made for
  call,     \* per client, the method in flight or the last one that ended
  removed,  \* history: the Lazy objects that were taken out of a cache
  noted     \* history: for a get, what was removed before it began; for a
            \* clear, what was in the caches it is to clear

vars == <<caches, entry, lazy, call, removed, noted>>

Call(method, step, id, name, todo) ==
  [method |-> method, step |-> step, id |-> id, name |-> name, lazy |-> Null, todo |-> todo]
NoCall == Call("none", "returned", Null, Null, {})

Idle(c) == call[c].step = "returned"
At(c, method, step) == call[c].method = method /\ call[c].step = step
Clearing(c) == call[c].method \in {"clear", "clearAll"} /\ call[c].step = "inner"

Cached == {entry[id][name] : id \in CacheIds, name \in OptionNames} \ {Null}
Garbage == Lazies \ (Cached \cup {call[c].lazy : c \in Clients})

CachedIn(ids) == {entry[id][name] : id \in ids, name \in OptionNames} \ {Null}

Become(c, new) == call' = [call EXCEPT ![c] = new]
Return(c) == Become(c, [call[c] EXCEPT !.step = "returned"])

\* A call that ends, by an exception perhaps, and of which nothing is remembered.
Finish(c) == Become(c, NoCall) /\ noted' = [noted EXCEPT ![c] = {}]

Init ==
  /\ caches = {}
  /\ entry = [id \in CacheIds |-> [name \in OptionNames |-> Null]]
  /\ lazy = [l \in Lazies |-> [status |-> "new", for |-> Null]]
  /\ call = [c \in Clients |-> NoCall]
  /\ removed = {}
  /\ noted = [c \in Clients |-> {}]
-----------------------------------------------------------------------------
(* The first half of GetOrAdd, TryAdd and TryRemove: the tenant's cache.    *)
Begin(c, method, id, name) ==
  /\ Idle(c)
  /\ caches' = caches \cup {id}
  /\ Become(c, Call(method, "inner", id, name, {}))
  /\ noted' = [noted EXCEPT ![c] = IF method = "get" THEN removed ELSE {}]
  /\ UNCHANGED <<entry, lazy, removed>>

\* A Lazy put into the entry client c works on; its memory may have been another's.
Insert(c, l, state) ==
  /\ entry[call[c].id][call[c].name] = Null
  /\ l \in Garbage
  /\ entry' = [entry EXCEPT ![call[c].id][call[c].name] = l]
  /\ lazy' = [lazy EXCEPT ![l] = state]
  /\ removed' = removed \ {l}
  /\ noted' = [d \in Clients |-> noted[d] \ {l}]

\* Plausible mistakes: falling back on the options of no tenant; the indexer
\* instead of GetOrAdd.
GetInnerFallsBack(c) ==
  /\ At(c, "get", "inner")
  /\ \/ \E id \in {call[c].id, NoTenant} :
          /\ entry[id][call[c].name] # Null
          /\ Become(c, [call[c] EXCEPT !.step = "value", !.lazy = entry[id][call[c].name]])
          /\ UNCHANGED <<entry, lazy, removed, noted>>
     \/ \E l \in Lazies :
          /\ Insert(c, l, [status |-> "new", for |-> Null])
          /\ Become(c, [call[c] EXCEPT !.step = "value", !.lazy = l])
  /\ UNCHANGED caches

GetInnerOverwrites(c) ==
  /\ At(c, "get", "inner")
  /\ \E l \in Garbage :
       /\ entry' = [entry EXCEPT ![call[c].id][call[c].name] = l]
       /\ lazy' = [lazy EXCEPT ![l] = [status |-> "new", for |-> Null]]
       /\ removed' = removed \ {l}
       /\ noted' = [d \in Clients |-> noted[d] \ {l}]
       /\ Become(c, [call[c] EXCEPT !.step = "value", !.lazy = l])
  /\ UNCHANGED caches

\* OptionsCache.GetOrAdd: the Lazy that is there, or a new one.
GetInner(c) ==
  /\ At(c, "get", "inner")
  /\ \/ /\ entry[call[c].id][call[c].name] # Null
        /\ Become(c, [call[c] EXCEPT !.step = "value", !.lazy = entry[call[c].id][call[c].name]])
        /\ UNCHANGED <<entry, lazy, removed, noted>>
     \/ \E l \in Lazies :
          /\ Insert(c, l, [status |-> "new", for |-> Null])
          /\ Become(c, [call[c] EXCEPT !.step = "value", !.lazy = l])
  /\ UNCHANGED caches

\* A plausible mistake: a get that tries again until it is given an instance.
AskForValueRetries(c) ==
  LET l == call[c].lazy
  IN /\ At(c, "get", "value")
     /\ \/ /\ lazy[l].status = "new"
           /\ lazy' = [lazy EXCEPT ![l].status = "running"]
           /\ Become(c, [call[c] EXCEPT !.step = "create"])
        \/ lazy[l].status = "made" /\ Return(c) /\ UNCHANGED lazy
        \/ /\ lazy[l].status = "failed"
           /\ Become(c, [call[c] EXCEPT !.step = "inner", !.lazy = Null])
           /\ UNCHANGED lazy
     /\ UNCHANGED <<caches, entry, removed, noted>>

\* A plausible mistake: a Lazy that lets everybody who asks too early run the
\* factory (LazyThreadSafetyMode.PublicationOnly).
AskForValueRunsAgain(c) ==
  LET l == call[c].lazy
  IN /\ At(c, "get", "value")
     /\ \/ /\ lazy[l].status \in {"new", "running"}
           /\ lazy' = [lazy EXCEPT ![l].status = "running"]
           /\ Become(c, [call[c] EXCEPT !.step = "create"])
           /\ UNCHANGED noted
        \/ lazy[l].status = "made" /\ Return(c) /\ UNCHANGED <<lazy, noted>>
        \/ lazy[l].status = "failed" /\ Finish(c) /\ UNCHANGED lazy
     /\ UNCHANGED <<caches, entry, removed>>

\* Lazy.Value: the first to ask runs the factory; while it runs the others wait.
AskForValue(c) ==
  LET l == call[c].lazy
  IN /\ At(c, "get", "value")
     /\ \/ /\ lazy[l].status = "new"
           /\ lazy' = [lazy EXCEPT ![l].status = "running"]
           /\ Become(c, [call[c] EXCEPT !.step = "create"])
           /\ UNCHANGED noted
        \/ lazy[l].status = "made" /\ Return(c) /\ UNCHANGED <<lazy, noted>>
        \/ lazy[l].status = "failed" /\ Finish(c) /\ UNCHANGED lazy
     /\ UNCHANGED <<caches, entry, removed>>

\* The factory configures the options for the current tenant of the flow it
\* runs in; a configuration, a post-configuration or a validation may throw.
Create(c) ==
  LET l == call[c].lazy
  IN /\ At(c, "get", "create")
     /\ \/ /\ lazy' = [lazy EXCEPT ![l] = [status |-> "made", for |-> call[c].id]]
           /\ Return(c)
           /\ UNCHANGED noted
        \/ lazy' = [lazy EXCEPT ![l].status = "failed"] /\ Finish(c)
     /\ UNCHANGED <<caches, entry, removed>>

\* OptionsCache.TryAdd, with options the caller made for its current tenant.
TryAddInner(c) ==
  /\ At(c, "tryAdd", "inner")
  /\ \/ /\ entry[call[c].id][call[c].name] # Null
        /\ UNCHANGED <<entry, lazy, removed, noted>>
     \/ \E l \in Lazies : Insert(c, l, [status |-> "made", for |-> call[c].id])
  /\ Become(c, NoCall)
  /\ UNCHANGED caches

\* A plausible mistake: removing from a cache that is not the one in the map.
TryRemoveElsewhere(c) ==
  LET l == entry[call[c].id][call[c].name]
  IN /\ At(c, "tryRemove", "inner")
     /\ removed' = removed \cup ({l} \ {Null})
     /\ Finish(c)
     /\ UNCHANGED <<caches, entry, lazy>>

TryRemoveInner(c) ==
  LET l == entry[call[c].id][call[c].name]
  IN /\ At(c, "tryRemove", "inner")
     /\ entry' = [entry EXCEPT ![call[c].id][call[c].name] = Null]
     /\ removed' = removed \cup ({l} \ {Null})
     /\ Finish(c)
     /\ UNCHANGED <<caches, lazy>>

(* Clear(), Clear(tenantId) and, over all caches there are when it begins,  *)
(* ClearAll().  The outer dictionary throws on a null id.                   *)
BeginClear(c, method, id, ids, step) ==
  /\ Idle(c)
  /\ Become(c, Call(method, step, id, Null, ids))
  /\ noted' = [noted EXCEPT ![c] = IF method = "clearAll" THEN Cached ELSE CachedIn(ids)]
  /\ UNCHANGED <<entry, lazy, removed>>

\* A plausible mistake: null taken for an id like any other.
ClearUnchecked(c, id) ==
  /\ BeginClear(c, "clear", id, {id} \ {Null}, IF id = Null THEN "returned" ELSE "inner")
  /\ caches' = caches \cup {id}

Clear(c, id) ==
  \/ id # Null /\ BeginClear(c, "clear", id, {id}, "inner") /\ caches' = caches \cup {id}
  \/ id = Null /\ BeginClear(c, "clear", id, {}, "returned") /\ UNCHANGED caches

\* A plausible mistake: ClearAll that leaves out the options of no tenant.
ClearAllTenants(c) ==
  /\ \/ caches \cap TenantIds # {} /\ BeginClear(c, "clearAll", Null, caches \cap TenantIds, "inner")
     \/ caches \cap TenantIds = {} /\ BeginClear(c, "clearAll", Null, {}, "returned")
  /\ UNCHANGED caches

ClearAll(c) ==
  /\ \/ caches # {} /\ BeginClear(c, "clearAll", Null, caches, "inner")
     \/ caches = {} /\ BeginClear(c, "clearAll", Null, {}, "returned")
  /\ UNCHANGED caches

ClearOne(c) ==
  /\ Clearing(c)
  /\ \E id \in call[c].todo :
       /\ entry' = [entry EXCEPT ![id] = [name \in OptionNames |-> Null]]
       /\ removed' = removed \cup CachedIn({id})
       /\ IF call[c].todo = {id} THEN Finish(c)
            ELSE UNCHANGED noted /\ Become(c, [call[c] EXCEPT !.todo = call[c].todo \ {id}])
  /\ UNCHANGED <<caches, lazy>>

Step(c) ==
  \/ \E method \in {"get", "tryAdd", "tryRemove"}, id \in CacheIds, name \in OptionNames :
       Begin(c, method, id, name)
  \/ GetInner(c) \/ AskForValue(c) \/ Create(c)
  \/ TryAddInner(c) \/ TryRemoveInner(c)
  \/ \E id \in ClearArgs : Clear(c, id)
  \/ ClearAll(c) \/ ClearOne(c)

Next == \E c \in Clients : Step(c)

Spec == Init /\ [][Next]_vars

\* A get that was begun goes on: its flow is scheduled and factories return or
\* throw.  Nothing forces anybody to begin another call, or to end one that
\* clears.
FairSpec ==
  Spec /\ \A c \in Clients : WF_vars(GetInner(c) \/ AskForValue(c) \/ Create(c))
-----------------------------------------------------------------------------
LazyStates ==
  [status : {"new", "running", "made", "failed"}, for : CacheIds \cup {Null}]

CallStates ==
  [method : {"none", "get", "tryAdd", "tryRemove", "clear", "clearAll"},
   step : {"inner", "value", "create", "returned"},
   id : CacheIds \cup {Null}, name : OptionNames \cup {Null},
   lazy : Lazies \cup {Null}, todo : SUBSET CacheIds]

TypeOK ==
  /\ caches \subseteq CacheIds
  /\ entry \in [CacheIds -> [OptionNames -> Lazies \cup {Null}]]
  /\ lazy \in [Lazies -> LazyStates]
  /\ call \in [Clients -> CallStates]
  /\ removed \subseteq Lazies
  /\ noted \in [Clients -> SUBSET Lazies]

GotInstance(c) == At(c, "get", "returned")

\* docs/Options.md: "the options values used within app logic will automatically
\* reflect the per-tenant values as configured for the current tenant".  Whoever
\* put the Lazy into the cache and whoever ran its factory, a get returns an
\* instance that was made for its own tenant.
TenantIsolation ==
  \A c \in Clients : GotInstance(c) => lazy[call[c].lazy].for = call[c].id

\* All who get the options of one tenant share one instance: what a get returned
\* is what is cached, until somebody removes it.
SharedInstance ==
  \A c \in Clients : GotInstance(c) /\ call[c].lazy \notin removed =>
    entry[call[c].id][call[c].name] = call[c].lazy

\* docs/Options.md: "cached options may need to be cleared so that the options
\* can be regenerated".  A get never returns an instance that had been removed
\* before the get began, even when other gets were under way during the removal.
FreshAfterRemoval ==
  \A c \in Clients :
    call[c].method = "get" /\ call[c].lazy # Null => call[c].lazy \notin noted[c]

\* "ClearAll() clears all cached options (including regular non per-tenant
\* options)", Clear those of one tenant: nothing that was cached when it began
\* is cached when it returns, though it clears the caches one by one and others
\* fill them meanwhile.
ClearIsComplete ==
  [][\A c \in Clients :
       Clearing(c) /\ call'[c].step = "returned" => noted[c] \cap Cached' = {}]_vars

\* Client c runs the factory of l.
Runs(c, l) == At(c, "get", "create") /\ call[c].lazy = l

\* docs/Options.md: "caching occurs when a TOptions instance is retrieved [...] for
\* the first time".  The factory of an entry is run by one get, which is still in
\* flight, whatever is removed, cleared and allocated anew meanwhile: no two make
\* options for one entry, and who waits for a value waits for somebody else.
OneRunner ==
  /\ \A l \in Lazies : lazy[l].status = "running" => \E c \in Clients : Runs(c, l)
  /\ \A c \in Clients, l \in Lazies : Runs(c, l) => lazy[l].status = "running"
  /\ \A c, d \in Clients, l \in Lazies : Runs(c, l) /\ Runs(d, l) => c = d

\* A get ends, with an instance or an exception, also when it waits for the
\* factory another one runs.
EveryGetEnds ==
  \A c \in Clients :
    call[c].method = "get" /\ ~Idle(c) ~> Idle(c)
=============================================================================
