---------------------------- MODULE TenantResolver ----------------------------
(***************************************************************************)
(* TenantResolver.ResolveAsync (TenantResolver.cs): each request asks the  *)
(* strategies, highest priority first, for an identifier and looks each    *)
(* identifier up in the stores, in the order of their registration, until  *)
(* one of them knows it.                                                   *)
(*                                                                         *)
(* Every await lets the world move: tenants are added to and removed from  *)
(* the stores, a store goes down (it throws, and MultiTenantStoreWrapper   *)
(* turns that into "not found") or comes back, and the options monitor     *)
(* reloads IgnoredIdentifiers.  The resolver keeps no state of its own, so *)
(* a request is its local variables; a strategy's answer is a function of  *)
(* the request's context.                                                  *)
(***************************************************************************)
EXTENDS Integers, Sequences

CONSTANTS
  Requests,
  NumStrategies,  \* strategies are numbered in the order of registration
  Priority,       \* IMultiTenantStrategy.Priority of each strategy
  NumStores,      \* stores are numbered in the order of registration
  Keys,           \* identifiers, as spelled
  Fold,           \* StringComparer.OrdinalIgnoreCase: representative of a spelling
  Tenants,
  Contexts,       \* what each strategy makes of a request
  Null,
  Throws          \* the strategy throws

Strategies == 1..NumStrategies
Stores     == 1..NumStores

ASSUME ResolverAssumption ==
  /\ NumStrategies \in Nat /\ NumStores \in Nat
  /\ Priority \in [Strategies -> Int]
  /\ Fold \in [Keys -> Keys]
  /\ Null \notin Keys /\ Throws \notin Keys /\ Null # Throws /\ Null \notin Tenants
  /\ Contexts \subseteq [Strategies -> Keys \cup {Null, Throws}]

VARIABLES
  stores,   \* what each store would return for each identifier
  down,     \* the stores that throw at present
  ignored,  \* IgnoredIdentifiers, folded
  req,      \* the local variables of each ResolveAsync call
  steady,   \* history: strategies and stores that have agreed on a tenant ever since the request began
  allowed,  \* history: strategies whose identifier was not ignored at some time since then
  held      \* history: the tenants stores had for strategies' identifiers at some time since then

world   == <<stores, down, ignored>>
history == <<steady, allowed, held>>
vars    == <<stores, down, ignored, req, steady, allowed, held>>

\* Strategies = strategies.OrderByDescending(s => s.Priority), a stable sort.
Before(s, t) == Priority[s] > Priority[t] \/ (Priority[s] = Priority[t] /\ s < t)

\* The pair <<strategy, store>> p is tried before q.
TriedBefore(p, q) == Before(p[1], q[1]) \/ (p[1] = q[1] /\ p[2] < q[2])

IsIgnored(key) == Fold[key] \in ignored

\* MultiTenantStoreWrapper.TryGetByKeyAsync: null when the store throws.
Lookup(store, key) == IF store \in down THEN Null ELSE stores[store][key]

Usable(context, s) == context[s] \in Keys /\ ~IsIgnored(context[s])

UsableStrategies(context) == {s \in Strategies : Usable(context, s)}

\* What each store has for each strategy's identifier.
Holdings(context) ==
  {h \in Strategies \X Stores \X Tenants :
     context[h[1]] \in Keys /\ Lookup(h[2], context[h[1]]) = h[3]}

\* The strategies and stores that would resolve the context if nothing changed.
HitPairs(context) ==
  {p \in Strategies \X Stores :
     Usable(context, p[1]) /\ Lookup(p[2], context[p[1]]) # Null}

NoResult == [tenant |-> Null, strategy |-> Null, store |-> Null]
NoRequest ==
  [step |-> "idle", context |-> Null, todo |-> {}, strategy |-> Null, store |-> 0,
   identifier |-> Null, found |-> Null, result |-> NoResult]

InFlight(r) == req[r].step \in {"strategy", "store", "resolved", "notResolved"}
Ended(r)    == req[r].step \in {"done", "failed", "eventFailed"}

Init ==
  /\ stores \in [Stores -> [Keys -> Tenants \cup {Null}]]
  /\ down = {}
  /\ ignored = {}
  /\ req = [r \in Requests |-> NoRequest]
  /\ steady = [r \in Requests |-> {}]
  /\ allowed = [r \in Requests |-> {}]
  /\ held = [r \in Requests |-> {}]
-----------------------------------------------------------------------------
Become(r, new) == req' = [req EXCEPT ![r] = new]

Begin(r, context) ==
  /\ req[r].step = "idle"
  /\ Become(r, [NoRequest EXCEPT !.step = "strategy", !.context = context, !.todo = Strategies])
  /\ steady' = [steady EXCEPT ![r] = HitPairs(context)]
  /\ allowed' = [allowed EXCEPT ![r] = UsableStrategies(context)]
  /\ held' = [held EXCEPT ![r] = Holdings(context)]
  /\ UNCHANGED world

\* Plausible mistakes: leaving the outer loop when no store knew the identifier;
\* starting over with the first strategy.
AfterStoreGivesUp(q, store) ==
  IF store < NumStores THEN [q EXCEPT !.step = "store", !.store = store + 1]
                       ELSE [q EXCEPT !.step = "notResolved"]
AfterStoreRetries(q, store) ==
  IF store < NumStores THEN [q EXCEPT !.step = "store", !.store = store + 1]
                       ELSE [q EXCEPT !.step = "strategy", !.todo = Strategies]

\* The next turn of the loop over the stores after `store`, or of the outer loop.
AfterStore(q, store) ==
  IF store < NumStores THEN [q EXCEPT !.step = "store", !.store = store + 1]
                       ELSE [q EXCEPT !.step = "strategy"]

\* One strategy: its exception leaves ResolveAsync, an ignored identifier is no
\* identifier, and without one the next strategy is tried.
TryStrategy(r, s) ==
  LET q == [req[r] EXCEPT !.todo = req[r].todo \ {s}]
  IN /\ req[r].step = "strategy"
     /\ s \in req[r].todo
     /\ \A t \in req[r].todo \ {s} : Before(s, t)
     /\ \/ /\ q.context[s] = Throws
           /\ Become(r, [q EXCEPT !.step = "failed"])
        \/ /\ q.context[s] # Throws
           /\ ~Usable(q.context, s)
           /\ Become(r, [q EXCEPT !.identifier = Null])
        \/ /\ Usable(q.context, s)
           /\ Become(r, AfterStore([q EXCEPT !.identifier = q.context[s], !.strategy = s], 0))
     /\ UNCHANGED <<world, history>>

TryStore(r) ==
  LET q == req[r]
      tenant == Lookup(q.store, q.identifier)
  IN /\ q.step = "store"
     /\ IF tenant = Null
          THEN Become(r, AfterStore(q, q.store))
          ELSE Become(r, [q EXCEPT !.step = "resolved", !.found = tenant])
     /\ UNCHANGED <<world, history>>

\* A plausible mistake: an answer that does not name its strategy.
RaiseResolvedHalf(r) ==
  LET q == req[r]
  IN /\ q.step = "resolved"
     /\ \/ Become(r, [q EXCEPT !.step = "done",
                        !.result = [tenant |-> q.found, strategy |-> Null, store |-> q.store]])
        \/ Become(r, [q EXCEPT !.step = "eventFailed"])
     /\ UNCHANGED <<world, history>>

\* OnTenantResolved may throw; the context is filled in only when it returns.
RaiseResolved(r) ==
  LET q == req[r]
  IN /\ q.step = "resolved"
     /\ \/ Become(r, [q EXCEPT !.step = "done",
                        !.result = [tenant |-> q.found, strategy |-> q.strategy, store |-> q.store]])
        \/ Become(r, [q EXCEPT !.step = "eventFailed"])
     /\ UNCHANGED <<world, history>>

NoStrategyLeft(r) ==
  /\ req[r].step = "strategy"
  /\ req[r].todo = {}
  /\ Become(r, [req[r] EXCEPT !.step = "notResolved"])
  /\ UNCHANGED <<world, history>>

\* OnTenantNotResolved may throw too; otherwise the empty context is returned.
RaiseNotResolved(r) ==
  /\ req[r].step = "notResolved"
  /\ \E outcome \in {"done", "eventFailed"} : Become(r, [req[r] EXCEPT !.step = outcome])
  /\ UNCHANGED <<world, history>>

\* The histories follow the requests in flight through a change of the world.
Witness ==
  /\ steady' = [r \in Requests |->
       IF InFlight(r) THEN steady[r] \cap HitPairs(req[r].context)' ELSE steady[r]]
  /\ allowed' = [r \in Requests |->
       IF InFlight(r) THEN allowed[r] \cup UsableStrategies(req[r].context)' ELSE allowed[r]]
  /\ held' = [r \in Requests |->
       IF InFlight(r) THEN held[r] \cup Holdings(req[r].context)' ELSE held[r]]

ChangeStore(store, key, tenant) ==
  /\ stores[store][key] # tenant
  /\ stores' = [stores EXCEPT ![store][key] = tenant]
  /\ UNCHANGED <<down, ignored, req>>
  /\ Witness

StoreFailsOrRecovers(store) ==
  /\ down' = IF store \in down THEN down \ {store} ELSE down \cup {store}
  /\ UNCHANGED <<stores, ignored, req>>
  /\ Witness

ReloadOptions(keys) ==
  /\ ignored' = {Fold[k] : k \in keys}
  /\ UNCHANGED <<stores, down, req>>
  /\ Witness

RequestStep(r) ==
  \/ \E s \in Strategies : TryStrategy(r, s)
  \/ TryStore(r) \/ RaiseResolved(r) \/ NoStrategyLeft(r) \/ RaiseNotResolved(r)

WorldStep ==
  \/ \E store \in Stores, key \in Keys, tenant \in Tenants \cup {Null} :
       ChangeStore(store, key, tenant)
  \/ \E store \in Stores : StoreFailsOrRecovers(store)
  \/ \E keys \in SUBSET Keys : ReloadOptions(keys)

Next ==
  \/ \E r \in Requests : RequestStep(r) \/ \E context \in Contexts : Begin(r, context)
  \/ WorldStep

Spec == Init /\ [][Next]_vars

\* A started request is run on: the thread pool schedules its continuation, and
\* strategies, stores and event handlers return or throw.  Nothing forces the
\* world to rest.
FairSpec == Spec /\ \A r \in Requests : WF_vars(RequestStep(r))
-----------------------------------------------------------------------------
RequestType ==
  [step : {"idle", "strategy", "store", "resolved", "notResolved", "done", "failed", "eventFailed"},
   context : Contexts \cup {Null}, todo : SUBSET Strategies,
   strategy : Strategies \cup {Null}, store : Stores \cup {0},
   identifier : Keys \cup {Null}, found : Tenants \cup {Null},
   result : {NoResult} \cup [tenant : Tenants, strategy : Strategies, store : Stores]]

TypeOK ==
  /\ stores \in [Stores -> [Keys -> Tenants \cup {Null}]]
  /\ down \subseteq Stores
  /\ ignored \subseteq Keys
  /\ req \in [Requests -> RequestType]
  /\ steady \in [Requests -> SUBSET (Strategies \X Stores)]
  /\ allowed \in [Requests -> SUBSET Strategies]
  /\ held \in [Requests -> SUBSET (Strategies \X Stores \X Tenants)]

\* The answer of a request is accounted for by what the stores and the options
\* were while it ran, whatever they did meanwhile.  A resolved tenant is one the
\* named store held at some time under the identifier of the named strategy,
\* which at some time was not ignored; and nothing of higher precedence was there all the
\* time.  An unresolved request had nothing it could have found all the time.
\* Only a strategy makes ResolveAsync fail, and only one that is reached.
NothingSteadyBefore(r, p) == \A q \in steady[r] : ~TriedBefore(q, p)
NoThrowBefore(r, s) == \A t \in Strategies : Before(t, s) => req[r].context[t] # Throws

AnswerAccountedFor ==
  \A r \in Requests :
    LET res == req[r].result
    IN /\ req[r].step = "done" /\ res # NoResult =>
            /\ res.strategy \in allowed[r]
            /\ <<res.strategy, res.store, res.tenant>> \in held[r]
            /\ NothingSteadyBefore(r, <<res.strategy, res.store>>)
            /\ NoThrowBefore(r, res.strategy)
       /\ req[r].step = "done" /\ res = NoResult =>
            /\ steady[r] = {}
            /\ \A s \in Strategies : req[r].context[s] # Throws
       /\ req[r].step = "failed" =>
            \E s \in Strategies :
              /\ req[r].context[s] = Throws
              /\ NoThrowBefore(r, s)
              /\ \A q \in steady[r] : ~Before(q[1], s)

\* Every request that begins ends, with or without a tenant.
EveryRequestEnds == \A r \in Requests : InFlight(r) ~> Ended(r)
=============================================================================
