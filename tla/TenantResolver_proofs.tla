------------------------ MODULE TenantResolver_proofs ------------------------
(* The answers of the resolver, for any strategies, priorities, stores,      *)
(* identifiers, tenants and requests.                                        *)
EXTENDS TenantResolver, WellFoundedInduction, TLAPS

\* Strategy s can not be what resolves the request any more: it did not throw,
\* and each store has lacked its identifier at some time.
Cleared(q, st, s) == q.context[s] # Throws /\ \A j \in Stores : <<s, j>> \notin st

\* The strategies still to be tried come after those that were.
TodoLast(q) == \A s \in Strategies \ q.todo, t \in q.todo : Before(s, t)

\* Between two strategies, all that were tried are cleared.
Looping(q, st) == \A s \in Strategies \ q.todo : Cleared(q, st, s)

\* Among the stores, the current strategy is the last tried; those before it
\* are cleared, and so are the stores before store j.
AtStrategy(q, st, al, j) ==
  /\ q.strategy \in Strategies \ q.todo
  /\ q.identifier = q.context[q.strategy] /\ q.identifier \in Keys
  /\ q.strategy \in al
  /\ \A s \in (Strategies \ q.todo) \ {q.strategy} : Before(s, q.strategy) /\ Cleared(q, st, s)
  /\ \A i \in Stores : i < j => <<q.strategy, i>> \notin st

Working(q, st, al, he) ==
  /\ q.context \in Contexts
  /\ q.result = NoResult
  /\ TodoLast(q)
  /\ q.step \in {"strategy", "notResolved"} => Looping(q, st)
  /\ q.step = "notResolved" => q.todo = {}
  /\ q.step \in {"store", "resolved"} => q.store \in Stores /\ AtStrategy(q, st, al, q.store)
  /\ q.step = "resolved" =>
       q.found \in Tenants /\ <<q.strategy, q.store, q.found>> \in he

\* The histories include what is true now.
Synced(r) ==
  /\ steady[r] \subseteq HitPairs(req[r].context)
  /\ UsableStrategies(req[r].context) \subseteq allowed[r]
  /\ Holdings(req[r].context) \subseteq held[r]

InFlightInv == \A r \in Requests : InFlight(r) =>
  Working(req[r], steady[r], allowed[r], held[r]) /\ Synced(r)

ResolverInv == TypeOK /\ InFlightInv /\ AnswerAccountedFor
-----------------------------------------------------------------------------
\* The order of the strategies is strict and total.
LEMMA BeforeOrder ==
  /\ \A s, t \in Strategies : Before(s, t) => ~Before(t, s) /\ s # t
  /\ \A s, t \in Strategies : s # t => Before(s, t) \/ Before(t, s)
  <1>1. \A s \in Strategies : s \in Int /\ Priority[s] \in Int
    BY ResolverAssumption DEF Strategies
  <1> QED
    BY <1>1 DEF Before

LEMMA ResolverInit == Init => ResolverInv
  <1> SUFFICES ASSUME Init PROVE ResolverInv
    OBVIOUS
  <1>1. TypeOK
    BY DEF Init, TypeOK, RequestType, NoRequest
  <1>2. InFlightInv /\ AnswerAccountedFor
    BY DEF Init, InFlightInv, InFlight, AnswerAccountedFor, NoRequest
  <1> QED
    BY <1>1, <1>2 DEF ResolverInv

\* A turn of the loop over the stores that ends with store j keeps the request sound.
LEMMA AfterStoreWorks ==
  ASSUME NEW q \in RequestType, NEW st, NEW al, NEW he, NEW j \in Stores \cup {0},
         q.context \in Contexts, q.result = NoResult, TodoLast(q),
         AtStrategy(q, st, al, j + 1)
  PROVE  /\ AfterStore(q, j) \in RequestType
         /\ AfterStore(q, j).step \in {"strategy", "store"}
         /\ AfterStore(q, j).context = q.context
         /\ Working(AfterStore(q, j), st, al, he)
  <1>1. j \in Nat /\ NumStores \in Nat
    BY ResolverAssumption DEF Stores
  <1>2. CASE j < NumStores
    <2> DEFINE n == [q EXCEPT !.step = "store", !.store = j + 1]
    <2>1. AfterStore(q, j) = n /\ j + 1 \in Stores
      BY <1>1, <1>2 DEF AfterStore, Stores
    <2>2. n \in RequestType /\ n.step = "store" /\ n.store = j + 1
          /\ n.context = q.context /\ n.result = q.result /\ n.todo = q.todo
          /\ n.strategy = q.strategy /\ n.identifier = q.identifier
      BY <2>1 DEF RequestType
    <2>3. TodoLast(n) /\ AtStrategy(n, st, al, j + 1)
      BY <2>2 DEF TodoLast, AtStrategy, Cleared
    <2> HIDE DEF n
    <2>4. Working(n, st, al, he)
      BY <2>1, <2>2, <2>3 DEF Working
    <2> QED
      BY <2>1, <2>2, <2>4
  <1>3. CASE ~(j < NumStores)
    <2> DEFINE n == [q EXCEPT !.step = "strategy"]
    <2>1. AfterStore(q, j) = n
      BY <1>3 DEF AfterStore
    <2>2. n \in RequestType /\ n.step = "strategy"
          /\ n.context = q.context /\ n.result = q.result /\ n.todo = q.todo
      BY DEF RequestType
    <2>3. \A i \in Stores : i < j + 1
      BY <1>1, <1>3 DEF Stores
    <2> HIDE DEF n
    <2>4. TodoLast(n)
      BY <2>2 DEF TodoLast
    <2>6. Looping(n, st)
      <3> SUFFICES ASSUME NEW s \in Strategies \ q.todo
                   PROVE  Cleared(q, st, s)
        BY <2>2 DEF Looping, Cleared
      <3>1. CASE s = q.strategy
        BY <2>3, <3>1, ResolverAssumption DEF AtStrategy, Cleared
      <3>2. CASE s # q.strategy
        BY <3>2 DEF AtStrategy
      <3> QED
        BY <3>1, <3>2
    <2>5. Working(n, st, al, he)
      BY <2>2, <2>4, <2>6 DEF Working
    <2> QED
      BY <2>1, <2>2, <2>5
  <1> QED
    BY <1>2, <1>3

\* A step of request r that leaves world and histories alone keeps the
\* invariant when the new request is in flight and sound, or ended accountably.
Accountable(q, st, al, he) ==
  /\ q.step = "done" /\ q.result # NoResult =>
       /\ q.result.strategy \in al
       /\ <<q.result.strategy, q.result.store, q.result.tenant>> \in he
       /\ \A p \in st : ~TriedBefore(p, <<q.result.strategy, q.result.store>>)
       /\ \A t \in Strategies : Before(t, q.result.strategy) => q.context[t] # Throws
  /\ q.step = "done" /\ q.result = NoResult =>
       st = {} /\ \A s \in Strategies : q.context[s] # Throws
  /\ q.step = "failed" =>
       \E s \in Strategies :
         /\ q.context[s] = Throws
         /\ \A t \in Strategies : Before(t, s) => q.context[t] # Throws
         /\ \A p \in st : ~Before(p[1], s)

LEMMA AccountableSame ==
  AnswerAccountedFor <=> \A r \in Requests : Accountable(req[r], steady[r], allowed[r], held[r])
  BY DEF AnswerAccountedFor, Accountable, NothingSteadyBefore, NoThrowBefore

LEMMA RequestMoves ==
  ASSUME ResolverInv, NEW r \in Requests, NEW q \in RequestType,
         Become(r, q), UNCHANGED <<world, history>>,
         InFlight(r), q.context = req[r].context,
         \/ /\ q.step \in {"strategy", "store", "resolved", "notResolved"}
            /\ Working(q, steady[r], allowed[r], held[r])
         \/ /\ q.step \in {"done", "failed", "eventFailed"}
            /\ Accountable(q, steady[r], allowed[r], held[r])
  PROVE  ResolverInv'
  <1>1. /\ req' = [req EXCEPT ![r] = q] /\ req \in [Requests -> RequestType]
        /\ UNCHANGED <<stores, down, ignored, steady, allowed, held>>
    BY DEF Become, world, history, ResolverInv, TypeOK
  <1>2. req'[r] = q /\ \A d \in Requests : d # r => req'[d] = req[d]
    BY <1>1
  <1>3. TypeOK'
    BY <1>1 DEF ResolverInv, TypeOK
  <1>4. ASSUME NEW d \in Requests, InFlight(d)'
        PROVE  Working(req'[d], steady[d], allowed[d], held[d]) /\ Synced(d)'
    <2>1. InFlight(d) /\ req'[d].context = req[d].context
      BY <1>2, <1>4 DEF InFlight
    <2>2. Synced(d)
      BY <2>1 DEF ResolverInv, InFlightInv
    <2>3. Synced(d)'
      BY <1>1, <2>1, <2>2 DEF Synced, HitPairs, UsableStrategies, Holdings, Usable,
                              IsIgnored, Lookup
    <2>4. Working(req'[d], steady[d], allowed[d], held[d])
      BY <1>2, <1>4, <2>1 DEF ResolverInv, InFlightInv, InFlight
    <2> QED
      BY <2>3, <2>4
  <1>5. InFlightInv'
    BY <1>1, <1>4 DEF InFlightInv
  <1>6. ASSUME NEW d \in Requests
        PROVE  Accountable(req'[d], steady[d], allowed[d], held[d])
    <2>1. CASE d # r
      BY <1>2, <2>1, AccountableSame DEF ResolverInv
    <2>2. CASE d = r
      BY <1>2, <2>2 DEF Accountable
    <2> QED
      BY <2>1, <2>2
  <1>7. AnswerAccountedFor'
    BY <1>1, <1>6 DEF AnswerAccountedFor, Accountable, NothingSteadyBefore, NoThrowBefore
  <1> QED
    BY <1>3, <1>5, <1>7 DEF ResolverInv

-----------------------------------------------------------------------------
LEMMA BeginInv ==
  ASSUME ResolverInv, NEW r \in Requests, NEW context \in Contexts, Begin(r, context)
  PROVE  ResolverInv'
  <1> DEFINE q == [NoRequest EXCEPT !.step = "strategy", !.context = context, !.todo = Strategies]
  <1>1. /\ q \in RequestType
        /\ q.step = "strategy" /\ q.context = context /\ q.todo = Strategies /\ q.result = NoResult
    BY DEF NoRequest, RequestType
  <1> HIDE DEF q
  <1>2. /\ req' = [req EXCEPT ![r] = q]
        /\ steady' = [steady EXCEPT ![r] = HitPairs(context)]
        /\ allowed' = [allowed EXCEPT ![r] = UsableStrategies(context)]
        /\ held' = [held EXCEPT ![r] = Holdings(context)]
        /\ UNCHANGED <<stores, down, ignored>>
        /\ req[r].step = "idle"
    BY DEF Begin, Become, world, q
  <1>3. HitPairs(context) \subseteq Strategies \X Stores
        /\ UsableStrategies(context) \subseteq Strategies
        /\ Holdings(context) \subseteq Strategies \X Stores \X Tenants
    BY DEF HitPairs, UsableStrategies, Holdings
  <1>4. TypeOK'
    BY <1>1, <1>2, <1>3 DEF ResolverInv, TypeOK
  <1>5. req'[r] = q /\ steady'[r] = HitPairs(context)
        /\ allowed'[r] = UsableStrategies(context) /\ held'[r] = Holdings(context)
    BY <1>2 DEF ResolverInv, TypeOK
  <1>6. ASSUME NEW d \in Requests, d # r
        PROVE  req'[d] = req[d] /\ steady'[d] = steady[d] /\ allowed'[d] = allowed[d] /\ held'[d] = held[d]
    BY <1>2, <1>6 DEF ResolverInv, TypeOK
  <1>7. ASSUME NEW d \in Requests, InFlight(d)'
        PROVE  Working(req'[d], steady'[d], allowed'[d], held'[d]) /\ Synced(d)'
    <2>1. CASE d = r
      <3>1. Working(q, steady'[r], allowed'[r], held'[r])
        BY <1>1 DEF Working, TodoLast, Looping
      <3>2. Synced(r)'
        BY <1>1, <1>2, <1>5 DEF Synced, HitPairs, UsableStrategies, Holdings, Usable, IsIgnored, Lookup
      <3> QED
        BY <1>5, <2>1, <3>1, <3>2
    <2>2. CASE d # r
      <3>1. InFlight(d)
        BY <1>6, <1>7, <2>2 DEF InFlight
      <3>2. Working(req[d], steady[d], allowed[d], held[d]) /\ Synced(d)
        BY <3>1 DEF ResolverInv, InFlightInv
      <3>3. Synced(d)'
        BY <1>2, <1>6, <2>2, <3>2 DEF Synced, HitPairs, UsableStrategies, Holdings, Usable, IsIgnored, Lookup
      <3> QED
        BY <1>6, <2>2, <3>2, <3>3
    <2> QED
      BY <2>1, <2>2
  <1>8. ASSUME NEW d \in Requests
        PROVE  Accountable(req'[d], steady'[d], allowed'[d], held'[d])
    <2>1. CASE d = r
      BY <1>1, <1>5, <2>1 DEF Accountable
    <2>2. CASE d # r
      BY <1>6, <2>2, AccountableSame DEF ResolverInv
    <2> QED
      BY <2>1, <2>2
  <1>9. AnswerAccountedFor'
    BY <1>8 DEF AnswerAccountedFor, Accountable, NothingSteadyBefore, NoThrowBefore
  <1> QED
    BY <1>4, <1>7, <1>9 DEF ResolverInv, InFlightInv

\* What the invariant says of one request in flight.
LEMMA RequestFacts ==
  ASSUME ResolverInv, NEW r \in Requests, InFlight(r)
  PROVE  /\ req[r] \in RequestType
         /\ Working(req[r], steady[r], allowed[r], held[r])
         /\ Synced(r)
         /\ req[r].todo \subseteq Strategies
         /\ steady[r] \subseteq Strategies \X Stores
  BY DEF ResolverInv, TypeOK, InFlightInv, RequestType

LEMMA TryStrategyInv ==
  ASSUME ResolverInv, NEW r \in Requests, NEW s \in Strategies, TryStrategy(r, s)
  PROVE  ResolverInv'
  <1> DEFINE q0 == req[r]
             q == [q0 EXCEPT !.todo = q0.todo \ {s}]
             st == steady[r]
  <1>1. /\ InFlight(r) /\ q0.step = "strategy" /\ s \in q0.todo
        /\ \A t \in q0.todo \ {s} : Before(s, t)
        /\ UNCHANGED <<world, history>>
    BY DEF TryStrategy, InFlight
  <1>2. q0 \in RequestType /\ Working(q0, st, allowed[r], held[r]) /\ Synced(r)
        /\ q0.todo \subseteq Strategies /\ st \subseteq Strategies \X Stores
    BY <1>1, RequestFacts
  <1>3. /\ q \in RequestType /\ q.step = "strategy" /\ q.context = q0.context
        /\ q.todo = q0.todo \ {s} /\ q.result = NoResult /\ q.context \in Contexts
    BY <1>1, <1>2 DEF RequestType, Working
  <1>4. /\ \A t \in Strategies \ q0.todo : Cleared(q0, st, t) /\ Before(t, s)
        /\ TodoLast(q)
    BY <1>1, <1>2, <1>3 DEF Working, Looping, TodoLast
  <1>5. \A t \in Strategies : Before(t, s) => t \notin q0.todo
    BY <1>1, BeforeOrder
  <1> HIDE DEF q
  <1>6. CASE q.context[s] = Throws /\ Become(r, [q EXCEPT !.step = "failed"])
    <2> DEFINE n == [q EXCEPT !.step = "failed"]
    <2>1. n \in RequestType /\ n.step = "failed" /\ n.context = q0.context
      BY <1>3 DEF RequestType
    <2> HIDE DEF n
    <2>2. \A t \in Strategies : Before(t, s) => n.context[t] # Throws
      BY <1>4, <1>5, <2>1 DEF Cleared
    <2>3. \A p \in st : ~Before(p[1], s)
      <3> SUFFICES ASSUME NEW p \in st, Before(p[1], s) PROVE FALSE
        OBVIOUS
      <3>1. p = <<p[1], p[2]>> /\ p[1] \in Strategies /\ p[2] \in Stores
        BY <1>2
      <3> QED
        BY <1>4, <1>5, <3>1 DEF Cleared
    <2>4. Accountable(n, st, allowed[r], held[r])
      BY <1>3, <1>6, <2>1, <2>2, <2>3 DEF Accountable
    <2> QED
      BY <1>1, <1>6, <2>1, <2>4, RequestMoves DEF n
  <1>7. CASE /\ q.context[s] # Throws
             /\ ~Usable(q.context, s)
             /\ Become(r, [q EXCEPT !.identifier = Null])
    <2> DEFINE n == [q EXCEPT !.identifier = Null]
    <2>1. n \in RequestType /\ n.step = "strategy" /\ n.context = q0.context
          /\ n.todo = q.todo /\ n.result = NoResult
      BY <1>3 DEF RequestType
    <2> HIDE DEF n
    <2>2. Cleared(q0, st, s)
      BY <1>2, <1>3, <1>7 DEF Cleared, Synced, HitPairs
    <2>3. Looping(n, st) /\ TodoLast(n)
      BY <1>3, <1>4, <2>1, <2>2 DEF Looping, Cleared, TodoLast
    <2>4. Working(n, st, allowed[r], held[r])
      BY <1>3, <2>1, <2>3 DEF Working
    <2> QED
      BY <1>1, <1>7, <2>1, <2>4, RequestMoves DEF n
  <1>8. CASE /\ Usable(q.context, s)
             /\ Become(r, AfterStore([q EXCEPT !.identifier = q.context[s], !.strategy = s], 0))
    <2> DEFINE n == [q EXCEPT !.identifier = q.context[s], !.strategy = s]
    <2>1. q.context[s] \in Keys /\ s \in allowed[r]
      BY <1>2, <1>3, <1>8 DEF Usable, Synced, UsableStrategies
    <2>2. n \in RequestType /\ n.step = "strategy" /\ n.context = q.context
          /\ n.todo = q.todo /\ n.result = NoResult
          /\ n.identifier = q.context[s] /\ n.strategy = s
      BY <1>3, <2>1 DEF RequestType
    <2> HIDE DEF n
    <2>3. TodoLast(n)
      BY <1>4, <2>2 DEF TodoLast
    <2>4. \A i \in Stores : ~(i < 0 + 1)
      BY ResolverAssumption DEF Stores
    <2>5. AtStrategy(n, st, allowed[r], 0 + 1)
      BY <1>3, <1>4, <2>1, <2>2, <2>4 DEF AtStrategy, Cleared
    <2>6. /\ AfterStore(n, 0) \in RequestType
          /\ AfterStore(n, 0).step \in {"strategy", "store"}
          /\ AfterStore(n, 0).context = n.context
          /\ Working(AfterStore(n, 0), st, allowed[r], held[r])
      BY <1>3, <2>2, <2>3, <2>5, AfterStoreWorks
    <2>7. Become(r, AfterStore(n, 0))
      BY <1>8 DEF n
    <2> QED
      BY <1>1, <1>3, <2>2, <2>6, <2>7, RequestMoves
  <1> QED
    BY <1>6, <1>7, <1>8 DEF TryStrategy, q

LEMMA TryStoreInv ==
  ASSUME ResolverInv, NEW r \in Requests, TryStore(r)
  PROVE  ResolverInv'
  <1> DEFINE q == req[r]
             st == steady[r]
             tenant == Lookup(q.store, q.identifier)
  <1>1. InFlight(r) /\ q.step = "store" /\ UNCHANGED <<world, history>>
    BY DEF TryStore, InFlight
  <1>2. q \in RequestType /\ Working(q, st, allowed[r], held[r]) /\ Synced(r)
        /\ q.todo \subseteq Strategies
    BY <1>1, RequestFacts
  <1>3. /\ q.context \in Contexts /\ q.result = NoResult /\ TodoLast(q)
        /\ q.store \in Stores /\ AtStrategy(q, st, allowed[r], q.store)
    BY <1>1, <1>2 DEF Working
  <1>4. /\ q.strategy \in Strategies /\ q.identifier = q.context[q.strategy]
        /\ q.identifier \in Keys
    BY <1>3 DEF AtStrategy
  <1>5. CASE tenant = Null
    <2>1. <<q.strategy, q.store>> \notin st
      BY <1>2, <1>4, <1>5 DEF Synced, HitPairs
    <2>2. \A i \in Stores : i < q.store + 1 => i < q.store \/ i = q.store
      BY <1>3, ResolverAssumption DEF Stores
    <2>3. AtStrategy(q, st, allowed[r], q.store + 1)
      BY <1>3, <2>1, <2>2 DEF AtStrategy
    <2>4. /\ AfterStore(q, q.store) \in RequestType
          /\ AfterStore(q, q.store).step \in {"strategy", "store"}
          /\ AfterStore(q, q.store).context = q.context
          /\ Working(AfterStore(q, q.store), st, allowed[r], held[r])
      BY <1>2, <1>3, <2>3, AfterStoreWorks
    <2>5. Become(r, AfterStore(q, q.store))
      BY <1>5 DEF TryStore
    <2> QED
      BY <1>1, <2>4, <2>5, RequestMoves
  <1>6. CASE tenant # Null
    <2> DEFINE n == [q EXCEPT !.step = "resolved", !.found = tenant]
    <2>1. tenant \in Tenants
      BY <1>3, <1>4, <1>6 DEF Lookup, ResolverInv, TypeOK
    <2>2. <<q.strategy, q.store, tenant>> \in held[r]
      BY <1>2, <1>3, <1>4, <2>1 DEF Synced, Holdings
    <2>3. Become(r, n)
      BY <1>6 DEF TryStore
    <2>4. n \in RequestType /\ n.step = "resolved" /\ n.context = q.context /\ n.found = tenant
          /\ n.todo = q.todo /\ n.result = q.result /\ n.strategy = q.strategy
          /\ n.identifier = q.identifier /\ n.store = q.store
      BY <1>2, <2>1 DEF RequestType
    <2> HIDE DEF n, tenant
    <2>5. TodoLast(n) /\ AtStrategy(n, st, allowed[r], n.store)
      BY <1>3, <2>4 DEF TodoLast, AtStrategy, Cleared
    <2>6. Working(n, st, allowed[r], held[r])
      BY <1>3, <2>1, <2>2, <2>4, <2>5 DEF Working
    <2> QED
      BY <1>1, <2>3, <2>4, <2>6, RequestMoves
  <1> QED
    BY <1>5, <1>6

LEMMA RaiseResolvedInv ==
  ASSUME ResolverInv, NEW r \in Requests, RaiseResolved(r)
  PROVE  ResolverInv'
  <1> DEFINE q == req[r]
             st == steady[r]
             res == [tenant |-> q.found, strategy |-> q.strategy, store |-> q.store]
             n == [q EXCEPT !.step = "done", !.result = res]
             e == [q EXCEPT !.step = "eventFailed"]
  <1>1. /\ InFlight(r) /\ q.step = "resolved" /\ UNCHANGED <<world, history>>
        /\ Become(r, n) \/ Become(r, e)
    BY DEF RaiseResolved, InFlight
  <1>2. q \in RequestType /\ Working(q, st, allowed[r], held[r])
        /\ q.todo \subseteq Strategies /\ st \subseteq Strategies \X Stores
    BY <1>1, RequestFacts
  <1>3. /\ TodoLast(q) /\ q.store \in Stores /\ AtStrategy(q, st, allowed[r], q.store)
        /\ q.found \in Tenants /\ <<q.strategy, q.store, q.found>> \in held[r]
    BY <1>1, <1>2 DEF Working
  <1>4. q.strategy \in Strategies \ q.todo /\ q.strategy \in allowed[r]
    BY <1>3 DEF AtStrategy
  <1>5. ASSUME NEW t \in Strategies, Before(t, q.strategy)
        PROVE  Cleared(q, st, t)
    <2>1. t \notin q.todo /\ t # q.strategy
      BY <1>2, <1>3, <1>4, <1>5, BeforeOrder DEF TodoLast
    <2> QED
      BY <1>3, <2>1 DEF AtStrategy
  <1>6. ASSUME NEW p \in st, TriedBefore(p, <<q.strategy, q.store>>)
        PROVE  FALSE
    <2>1. p = <<p[1], p[2]>> /\ p[1] \in Strategies /\ p[2] \in Stores
      BY <1>2
    <2>2. CASE Before(p[1], q.strategy)
      BY <1>5, <2>1, <2>2 DEF Cleared
    <2>3. CASE p[1] = q.strategy /\ p[2] < q.store
      BY <1>3, <2>1, <2>3 DEF AtStrategy
    <2> QED
      BY <1>6, <2>2, <2>3 DEF TriedBefore
  <1>7. res \in [tenant : Tenants, strategy : Strategies, store : Stores]
    BY <1>3, <1>4
  <1>8. n \in RequestType /\ n.step = "done" /\ n.context = q.context /\ n.result = res
    BY <1>2, <1>7 DEF RequestType
  <1>9. e \in RequestType /\ e.step = "eventFailed" /\ e.context = q.context
    BY <1>2 DEF RequestType
  <1>10. /\ res.strategy = q.strategy /\ res.store = q.store /\ res.tenant = q.found
         /\ res # NoResult
    BY <1>3, ResolverAssumption DEF NoResult
  <1>11. \A t \in Strategies : Before(t, q.strategy) => q.context[t] # Throws
    BY <1>5 DEF Cleared
  <1> HIDE DEF n, e, res
  <1>12. Accountable(n, st, allowed[r], held[r])
    BY <1>3, <1>4, <1>6, <1>8, <1>10, <1>11 DEF Accountable
  <1>13. Accountable(e, st, allowed[r], held[r])
    BY <1>9 DEF Accountable
  <1> QED
    BY <1>1, <1>8, <1>9, <1>12, <1>13, RequestMoves

LEMMA NoStrategyLeftInv ==
  ASSUME ResolverInv, NEW r \in Requests, NoStrategyLeft(r)
  PROVE  ResolverInv'
  <1> DEFINE q == req[r]
             n == [q EXCEPT !.step = "notResolved"]
  <1>1. /\ InFlight(r) /\ q.step = "strategy" /\ q.todo = {} /\ Become(r, n)
        /\ UNCHANGED <<world, history>>
    BY DEF NoStrategyLeft, InFlight
  <1>2. q \in RequestType /\ Working(q, steady[r], allowed[r], held[r])
    BY <1>1, RequestFacts
  <1>3. n \in RequestType /\ n.step = "notResolved" /\ n.context = q.context
        /\ n.todo = q.todo /\ n.result = q.result
    BY <1>2 DEF RequestType
  <1> HIDE DEF n
  <1>4. Working(n, steady[r], allowed[r], held[r])
    BY <1>1, <1>2, <1>3 DEF Working, TodoLast, Looping, Cleared
  <1> QED
    BY <1>1, <1>3, <1>4, RequestMoves

LEMMA RaiseNotResolvedInv ==
  ASSUME ResolverInv, NEW r \in Requests, RaiseNotResolved(r)
  PROVE  ResolverInv'
  <1> DEFINE q == req[r]
             st == steady[r]
  <1>1. /\ InFlight(r) /\ q.step = "notResolved" /\ UNCHANGED <<world, history>>
    BY DEF RaiseNotResolved, InFlight
  <1>2. PICK outcome \in {"done", "eventFailed"} : Become(r, [q EXCEPT !.step = outcome])
    BY DEF RaiseNotResolved
  <1> DEFINE n == [q EXCEPT !.step = outcome]
  <1>3. q \in RequestType /\ Working(q, st, allowed[r], held[r])
        /\ st \subseteq Strategies \X Stores
    BY <1>1, RequestFacts
  <1>4. n \in RequestType /\ n.step = outcome /\ n.context = q.context /\ n.result = q.result
    BY <1>3 DEF RequestType
  <1>5. q.todo = {} /\ q.result = NoResult /\ \A s \in Strategies : Cleared(q, st, s)
    BY <1>1, <1>3 DEF Working, Looping
  <1>6. st = {}
    BY <1>3, <1>5 DEF Cleared
  <1> HIDE DEF n
  <1>7. Accountable(n, st, allowed[r], held[r])
    BY <1>4, <1>5, <1>6 DEF Accountable, Cleared
  <1>8. Become(r, n)
    BY <1>2 DEF n
  <1> QED
    BY <1>1, <1>4, <1>7, <1>8, RequestMoves

\* The world may do what it likes, as long as the histories witness it.
LEMMA WorldInv ==
  ASSUME ResolverInv, req' = req, Witness,
         stores' \in [Stores -> [Keys -> Tenants \cup {Null}]],
         down' \subseteq Stores, ignored' \subseteq Keys
  PROVE  ResolverInv'
  <1>1. ASSUME NEW r \in Requests
        PROVE  /\ InFlight(r)' <=> InFlight(r)
               /\ steady'[r] \subseteq steady[r]
               /\ allowed[r] \subseteq allowed'[r] /\ held[r] \subseteq held'[r]
               /\ InFlight(r) => Synced(r)'
    BY DEF Witness, InFlight, Synced
  <1>2. TypeOK'
    <2>1. ASSUME NEW r \in Requests
          PROVE  /\ HitPairs(req[r].context)' \subseteq Strategies \X Stores
                 /\ UsableStrategies(req[r].context)' \subseteq Strategies
                 /\ Holdings(req[r].context)' \subseteq Strategies \X Stores \X Tenants
      BY DEF HitPairs, UsableStrategies, Holdings
    <2> QED
      BY <2>1 DEF ResolverInv, TypeOK, Witness
  <1>3. InFlightInv'
    <2> SUFFICES ASSUME NEW r \in Requests, InFlight(r)
                 PROVE  Working(req[r], steady'[r], allowed'[r], held'[r])
      BY <1>1 DEF InFlightInv
    <2>1. Working(req[r], steady[r], allowed[r], held[r])
      BY DEF ResolverInv, InFlightInv
    <2> QED
      BY <1>1, <2>1 DEF Working, Looping, AtStrategy, Cleared
  <1>4. ASSUME NEW r \in Requests
        PROVE  Accountable(req[r], steady'[r], allowed'[r], held'[r])
    <2>1. Accountable(req[r], steady[r], allowed[r], held[r])
      BY AccountableSame DEF ResolverInv
    <2>2. steady'[r] \subseteq steady[r] /\ allowed[r] \subseteq allowed'[r]
          /\ held[r] \subseteq held'[r]
      BY <1>1
    <2> QED
      BY <2>1, <2>2 DEF Accountable
  <1>5. AnswerAccountedFor'
    BY <1>4 DEF AnswerAccountedFor, Accountable, NothingSteadyBefore, NoThrowBefore
  <1> QED
    BY <1>2, <1>3, <1>5 DEF ResolverInv

LEMMA WorldStepInv == ResolverInv /\ WorldStep => ResolverInv'
  <1> SUFFICES ASSUME ResolverInv, WorldStep PROVE ResolverInv'
    OBVIOUS
  <1>1. /\ stores \in [Stores -> [Keys -> Tenants \cup {Null}]]
        /\ down \subseteq Stores /\ ignored \subseteq Keys
    BY DEF ResolverInv, TypeOK
  <1>2. ASSUME NEW store \in Stores, NEW key \in Keys, NEW tenant \in Tenants \cup {Null},
               ChangeStore(store, key, tenant)
        PROVE  ResolverInv'
    <2>1. stores' \in [Stores -> [Keys -> Tenants \cup {Null}]]
      BY <1>1, <1>2 DEF ChangeStore
    <2> QED
      BY <1>1, <1>2, <2>1, WorldInv DEF ChangeStore
  <1>3. ASSUME NEW store \in Stores, StoreFailsOrRecovers(store)
        PROVE  ResolverInv'
    <2>1. down' \subseteq Stores
      BY <1>1, <1>3 DEF StoreFailsOrRecovers
    <2> QED
      BY <1>1, <1>3, <2>1, WorldInv DEF StoreFailsOrRecovers
  <1>4. ASSUME NEW keys \in SUBSET Keys, ReloadOptions(keys)
        PROVE  ResolverInv'
    <2>1. ignored' \subseteq Keys
      BY <1>4, ResolverAssumption DEF ReloadOptions
    <2> QED
      BY <1>1, <1>4, <2>1, WorldInv DEF ReloadOptions
  <1> QED
    BY <1>2, <1>3, <1>4 DEF WorldStep

LEMMA ResolverStep == ResolverInv /\ [Next]_vars => ResolverInv'
  <1> SUFFICES ASSUME ResolverInv, [Next]_vars PROVE ResolverInv'
    OBVIOUS
  <1>1. ASSUME NEW r \in Requests, RequestStep(r)
        PROVE  ResolverInv'
    BY <1>1, TryStrategyInv, TryStoreInv, RaiseResolvedInv, NoStrategyLeftInv,
       RaiseNotResolvedInv DEF RequestStep
  <1>2. ASSUME NEW r \in Requests, NEW context \in Contexts, Begin(r, context)
        PROVE  ResolverInv'
    BY <1>2, BeginInv
  <1>3. CASE WorldStep
    BY <1>3, WorldStepInv
  <1>4. CASE UNCHANGED vars
    BY <1>4 DEF vars, ResolverInv, TypeOK, InFlightInv, AnswerAccountedFor, InFlight, Synced,
                HitPairs, UsableStrategies, Holdings, Usable, IsIgnored, Lookup,
                NothingSteadyBefore, NoThrowBefore
  <1> QED
    BY <1>1, <1>2, <1>3, <1>4 DEF Next

LEMMA ResolverInvariant == Spec => []ResolverInv
  BY ResolverInit, ResolverStep, PTL DEF Spec

\* The state has the declared types.
THEOREM ResolverTypeCorrect == Spec => []TypeOK
  BY ResolverInvariant, PTL DEF ResolverInv

\* Whatever the stores, their failures and the options do while a request is
\* resolved, its answer is accounted for by some of what they were meanwhile,
\* in the order of the priorities.
THEOREM EveryAnswerAccountedFor == Spec => []AnswerAccountedFor
  BY ResolverInvariant, PTL DEF ResolverInv
-----------------------------------------------------------------------------
(* What ResolveAsync can be relied on for besides: a request always has a next  *)
(* step, and takes a bounded number of them.  What is left of EveryRequestEnds  *)
(* is that it is scheduled.                                                     *)

\* Of any strategies one comes first.
First(S, s) == s \in S /\ \A t \in S \ {s} : Before(s, t)

\* The guards of the steps of RequestStep.
HasStep(r) ==
  \/ req[r].step = "strategy" /\ (req[r].todo = {} \/ \E s \in Strategies : First(req[r].todo, s))
  \/ req[r].step \in {"store", "resolved", "notResolved"}

NeverStuck == \A r \in Requests : InFlight(r) => HasStep(r)

\* How far a request has come with the strategies it has still to try: the
\* stores of the last one, the loop, the event, the end.
Reached(q) ==
  CASE q.step = "store"                        -> q.store
    [] q.step = "strategy"                     -> NumStores + 1
    [] q.step \in {"resolved", "notResolved"}  -> NumStores + 2
    [] q.step \in {"done", "failed", "eventFailed"} -> NumStores + 3

Further(q, new) ==
  /\ new.todo \subseteq q.todo
  /\ new.todo = q.todo => Reached(q) < Reached(new)

MovesForward ==
  \A r \in Requests :
    /\ InFlight(r) => req'[r] = req[r] \/ Further(req[r], req'[r])
    /\ Ended(r) => req'[r] = req[r]

LEMMA FirstExists == \A S \in SUBSET Strategies : S # {} => \E s \in Strategies : First(S, s)
  <1> DEFINE Bad == {n \in Nat : \E S \in SUBSET Strategies :
                       /\ S # {} /\ \A s \in S : s <= n
                       /\ ~\E s \in Strategies : First(S, s)}
  <1>1. Bad = {}
    <2> SUFFICES ASSUME Bad # {} PROVE FALSE
      OBVIOUS
    <2>1. PICK n \in Bad : \A m \in Bad : ~(<<m, n>> \in OpToRel(<, Nat))
      <3> HIDE DEF Bad
      <3>1. Bad \subseteq Nat
        BY DEF Bad
      <3> QED
        BY <3>1, NatLessThanWellFounded, WFMin
    <2>2. n \in Nat /\ \A m \in Bad : ~(m < n)
      BY <2>1 DEF OpToRel
    <2>3. PICK S \in SUBSET Strategies :
            /\ S # {} /\ \A s \in S : s <= n
            /\ ~\E s \in Strategies : First(S, s)
      OBVIOUS
    <2>4. NumStrategies \in Nat /\ \A s \in S : s \in 1..NumStrategies
      BY ResolverAssumption DEF Strategies
    <2>5. n # 0 /\ n - 1 \in Nat /\ n - 1 < n
      BY <2>2, <2>3, <2>4
    <2>6. ~(n - 1 \in Bad)
      BY <2>2, <2>5
    <2>7. ASSUME NEW T \in SUBSET S, T # {}, \A s \in T : s <= n - 1
          PROVE  \E s \in Strategies : First(T, s)
      BY <2>5, <2>6, <2>7
    <2>8. CASE n \notin S
      BY <2>2, <2>3, <2>4, <2>7, <2>8
    <2>9. CASE n \in S
      <3>1. \A s \in S \ {n} : s <= n - 1
        BY <2>2, <2>3, <2>4
      <3>2. CASE S \ {n} = {}
        BY <2>3, <2>9, <3>2 DEF First
      <3>3. CASE S \ {n} # {}
        <4>1. PICK s \in Strategies : First(S \ {n}, s)
          BY <2>7, <3>1, <3>3
        <4>2. n \in Strategies /\ s # n /\ s \in S
          BY <2>9, <4>1 DEF First
        <4>3. \A x \in Strategies : Priority[x] \in Int /\ x \in Int
          BY ResolverAssumption DEF Strategies
        <4>4. CASE Before(s, n)
          BY <2>3, <4>1, <4>2, <4>4 DEF First
        <4>5. CASE Before(n, s)
          <5>1. \A t \in S \ {n} : Before(n, t)
            BY <4>1, <4>2, <4>3, <4>5 DEF First, Before
          <5> QED
            BY <2>3, <2>9, <5>1 DEF First
        <4> QED
          BY <4>2, <4>4, <4>5, BeforeOrder
      <3> QED
        BY <3>2, <3>3
    <2> QED
      BY <2>8, <2>9
  <1> SUFFICES ASSUME NEW S \in SUBSET Strategies, S # {} PROVE \E s \in Strategies : First(S, s)
    OBVIOUS
  <1>2. NumStrategies \in Nat /\ \A s \in S : s <= NumStrategies
    BY ResolverAssumption DEF Strategies
  <1> QED
    BY <1>1, <1>2

LEMMA ReachedIs ==
  ASSUME NEW q
  PROVE  /\ q.step = "store" => Reached(q) = q.store
         /\ q.step = "strategy" => Reached(q) = NumStores + 1
         /\ q.step \in {"resolved", "notResolved"} => Reached(q) = NumStores + 2
         /\ q.step \in {"done", "failed", "eventFailed"} => Reached(q) = NumStores + 3
  <1>1. CASE q.step = "store"
    BY <1>1 DEF Reached
  <1>2. CASE q.step = "strategy"
    BY <1>2 DEF Reached
  <1>3. CASE q.step \in {"resolved", "notResolved"}
    BY <1>3 DEF Reached
  <1>4. CASE q.step \in {"done", "failed", "eventFailed"}
    BY <1>4 DEF Reached
  <1> QED
    BY <1>1, <1>2, <1>3, <1>4

LEMMA StepsForward ==
  ASSUME ResolverInv, NEW r \in Requests, RequestStep(r)
  PROVE  /\ InFlight(r) /\ Further(req[r], req'[r])
         /\ \A x \in Requests \ {r} : req'[x] = req[x]
  <1> DEFINE q == req[r]
             Goal == /\ InFlight(r) /\ Further(q, req'[r])
                     /\ \A x \in Requests \ {r} : req'[x] = req[x]
  <1>1. /\ req \in [Requests -> RequestType] /\ q \in RequestType
        /\ q.step = "store" => q.store \in 1..NumStores
        /\ NumStores \in Nat
    BY ResolverAssumption DEF ResolverInv, TypeOK, InFlightInv, InFlight, Working, Stores
  <1>2. ASSUME NEW new, Become(r, new),
               q.step \in {"strategy", "store", "resolved", "notResolved"}, Further(q, new)
        PROVE  Goal
    BY <1>1, <1>2 DEF Become, InFlight
  <1>3. ASSUME NEW s \in Strategies, TryStrategy(r, s)
        PROVE  Goal
    <2> DEFINE less == [q EXCEPT !.todo = q.todo \ {s}]
               asked == AfterStore([less EXCEPT !.identifier = q.context[s], !.strategy = s], 0)
    <2>1. q.step = "strategy" /\ s \in q.todo
      BY <1>3 DEF TryStrategy
    <2>2. PICK new \in {[less EXCEPT !.step = "failed"], [less EXCEPT !.identifier = Null], asked} :
            Become(r, new)
      BY <1>3 DEF TryStrategy
    <2>3. less.todo = q.todo \ {s} /\ asked.todo = less.todo
      BY <1>1 DEF RequestType, AfterStore
    <2>4. new.todo = q.todo \ {s}
      BY <1>1, <2>2, <2>3 DEF RequestType
    <2>5. Further(q, new)
      BY <2>1, <2>4 DEF Further
    <2> QED
      BY <1>2, <2>1, <2>2, <2>5
  <1>4. CASE TryStore(r)
    <2>1. q.step = "store" /\ q.store \in 1..NumStores
      BY <1>1, <1>4 DEF TryStore
    <2>2. PICK new \in {AfterStore(q, q.store)}
              \cup {[q EXCEPT !.step = "resolved", !.found = Lookup(q.store, q.identifier)]} :
            Become(r, new)
      BY <1>4 DEF TryStore
    <2>3. CASE new = AfterStore(q, q.store)
      <3>1. new.todo = q.todo /\ Reached(q) = q.store
        BY <1>1, <2>1, <2>3, ReachedIs DEF AfterStore, RequestType
      <3>2. CASE q.store < NumStores
        <4>1. new.step = "store" /\ new.store = q.store + 1
          BY <1>1, <2>3, <3>2 DEF AfterStore, RequestType
        <4> QED
          BY <1>1, <1>2, <2>1, <2>2, <3>1, <4>1, ReachedIs DEF Further
      <3>3. CASE ~(q.store < NumStores)
        <4>1. new.step = "strategy"
          BY <1>1, <2>3, <3>3 DEF AfterStore, RequestType
        <4> QED
          BY <1>1, <1>2, <2>1, <2>2, <3>1, <4>1, ReachedIs DEF Further
      <3> QED
        BY <3>2, <3>3
    <2>4. CASE new = [q EXCEPT !.step = "resolved", !.found = Lookup(q.store, q.identifier)]
      <3>1. new.todo = q.todo /\ new.step = "resolved"
        BY <1>1, <2>4 DEF RequestType
      <3> QED
        BY <1>1, <1>2, <2>1, <2>2, <3>1, ReachedIs DEF Further
    <2> QED
      BY <2>2, <2>3, <2>4
  <1>5. ASSUME NEW new, Become(r, new), new.todo = q.todo,
               \/ q.step \in {"resolved", "notResolved"} /\ new.step \in {"done", "eventFailed"}
               \/ q.step = "strategy" /\ new.step = "notResolved"
        PROVE  Goal
    BY <1>1, <1>2, <1>5, ReachedIs DEF Further
  <1>6. CASE RaiseResolved(r)
    <2>1. PICK new \in {[q EXCEPT !.step = "done",
                           !.result = [tenant |-> q.found, strategy |-> q.strategy, store |-> q.store]],
                        [q EXCEPT !.step = "eventFailed"]} : Become(r, new)
      BY <1>6 DEF RaiseResolved
    <2>2. q.step = "resolved" /\ new.todo = q.todo /\ new.step \in {"done", "eventFailed"}
      BY <1>1, <1>6, <2>1 DEF RaiseResolved, RequestType
    <2> QED
      BY <1>5, <2>1, <2>2
  <1>7. CASE NoStrategyLeft(r)
    <2> DEFINE new == [q EXCEPT !.step = "notResolved"]
    <2>1. q.step = "strategy" /\ new.todo = q.todo /\ new.step = "notResolved" /\ Become(r, new)
      BY <1>1, <1>7 DEF NoStrategyLeft, RequestType
    <2> HIDE DEF new
    <2> QED
      BY <1>5, <2>1
  <1>8. CASE RaiseNotResolved(r)
    <2>1. PICK outcome \in {"done", "eventFailed"} : Become(r, [q EXCEPT !.step = outcome])
      BY <1>8 DEF RaiseNotResolved
    <2> DEFINE new == [q EXCEPT !.step = outcome]
    <2>2. q.step = "notResolved" /\ new.todo = q.todo /\ new.step = outcome
      BY <1>1, <1>8 DEF RaiseNotResolved, RequestType
    <2> HIDE DEF new
    <2>3. Become(r, new)
      BY <2>1 DEF new
    <2> QED
      BY <1>5, <2>2, <2>3
  <1> QED
    BY <1>3, <1>4, <1>6, <1>7, <1>8 DEF RequestStep

LEMMA StepMovesForward == ResolverInv /\ [Next]_vars => MovesForward
  <1> SUFFICES ASSUME ResolverInv, [Next]_vars PROVE MovesForward
    OBVIOUS
  <1>1. req \in [Requests -> RequestType]
    BY DEF ResolverInv, TypeOK
  <1>2. ASSUME NEW r \in Requests, RequestStep(r)
        PROVE  MovesForward
    BY <1>1, <1>2, StepsForward DEF MovesForward, InFlight, Ended
  <1>3. ASSUME NEW r \in Requests, NEW context \in Contexts, Begin(r, context)
        PROVE  MovesForward
    BY <1>1, <1>3 DEF Begin, Become, MovesForward, InFlight, Ended
  <1>4. CASE WorldStep \/ UNCHANGED vars
    BY <1>4 DEF WorldStep, ChangeStore, StoreFailsOrRecovers, ReloadOptions, vars, MovesForward
  <1> QED
    BY <1>2, <1>3, <1>4 DEF Next

\* The loops of a request go on until it ends: of the strategies that are left
\* one has the highest precedence, and no step waits for another request or for
\* the world.
THEOREM RequestsAreNeverStuck == Spec => []NeverStuck
  <1>1. ResolverInv => NeverStuck
    BY FirstExists DEF ResolverInv, TypeOK, RequestType, NeverStuck, HasStep, InFlight
  <1> QED
    BY <1>1, ResolverInvariant, PTL

\* Each step a request takes leaves it fewer strategies, or the same and fewer
\* stores and events, whatever the stores and the options do meanwhile: it never
\* asks a strategy or a store twice, and what has ended stays as it is.
THEOREM RequestsMoveForward == Spec => [][MovesForward]_vars
  BY ResolverInvariant, StepMovesForward, PTL DEF Spec
=============================================================================
