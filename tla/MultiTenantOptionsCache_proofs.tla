------------------- MODULE MultiTenantOptionsCache_proofs -------------------
(* Isolation, sharing and freshness of cached options, for any number of     *)
(* flows, tenants, option names and Lazy objects, and what the services of   *)
(* requests have of them, for any TenantInfo objects.                        *)
EXTENDS MultiTenantOptionsCache, RequestServices, TLAPS

\* What the fields of a call say at each of its steps.
Shape(q) ==
  /\ q.method \in {"get", "tryAdd", "tryRemove"} => q.id \in CacheIds /\ q.name \in OptionNames
  /\ q.lazy # Null => q.method = "get" /\ q.step # "inner"
  /\ q.method = "get" /\ q.step # "inner" => q.lazy # Null

CallShapes == \A c \in Clients : Shape(call[c])

\* A Lazy is in at most one entry, and then it was not removed.
OneEntry ==
  /\ \A i, j \in CacheIds, n, m \in OptionNames :
       entry[i][n] # Null /\ entry[i][n] = entry[j][m] => i = j /\ n = m
  /\ \A i \in CacheIds, n \in OptionNames : entry[i][n] # Null => entry[i][n] \notin removed

\* Whoever holds a Lazy holds it for the tenant and the name it was cached for.
HeldForOne ==
  /\ \A c \in Clients : call[c].lazy # Null /\ call[c].lazy \notin removed =>
       entry[call[c].id][call[c].name] = call[c].lazy
  /\ \A c, d \in Clients : call[c].lazy # Null /\ call[c].lazy = call[d].lazy =>
       call[c].id = call[d].id
  /\ \A c \in Clients, i \in CacheIds, n \in OptionNames :
       call[c].lazy # Null /\ call[c].lazy = entry[i][n] => call[c].id = i

\* An instance was made for the tenant it is cached and held for.
MadeForOne ==
  /\ \A i \in CacheIds, n \in OptionNames :
       entry[i][n] # Null /\ lazy[entry[i][n]].status = "made" => lazy[entry[i][n]].for = i
  /\ \A c \in Clients :
       call[c].lazy # Null /\ (lazy[call[c].lazy].status = "made" \/ call[c].step = "returned") =>
         lazy[call[c].lazy].for = call[c].id

\* What was removed before a get began is still removed, and not what it holds.
NotedRemoved ==
  \A c \in Clients :
    /\ call[c].method = "get" => noted[c] \subseteq removed
    /\ call[c].lazy # Null => call[c].lazy \notin noted[c]

OptionsInv == TypeOK /\ CallShapes /\ OneEntry /\ HeldForOne /\ MadeForOne /\ NotedRemoved
-----------------------------------------------------------------------------
LEMMA OptionsInit == Init => OptionsInv
  BY OptionsAssumption
  DEF Init, OptionsInv, TypeOK, LazyStates, CallStates, NoCall, Call, CallShapes, Shape, OneEntry,
      HeldForOne, MadeForOne, NotedRemoved

LEMMA NoCallShape ==
  /\ NoCall \in CallStates /\ Shape(NoCall)
  /\ NoCall.method # "get" /\ NoCall.lazy = Null /\ NoCall.step = "returned"
  BY DEF NoCall, Call, CallStates, Shape

LEMMA BeginInv ==
  ASSUME OptionsInv, NEW c \in Clients, NEW method \in {"get", "tryAdd", "tryRemove"},
         NEW id \in CacheIds, NEW name \in OptionNames, Begin(c, method, id, name)
  PROVE  OptionsInv'
  <1>1. PICK q : q = Call(method, "inner", id, name, {})
    OBVIOUS
  <1>2. /\ call' = [call EXCEPT ![c] = q] /\ noted' = [noted EXCEPT ![c] = IF method = "get" THEN removed ELSE {}]
        /\ caches' = caches \cup {id} /\ entry' = entry /\ lazy' = lazy /\ removed' = removed
    BY <1>1 DEF Begin, Become
  <1>3. q \in CallStates /\ Shape(q) /\ q.lazy = Null /\ q.method = method
    BY <1>1 DEF Call, CallStates, Shape
  <1>4. TypeOK'
    BY <1>2, <1>3 DEF OptionsInv, TypeOK
  <1>5. /\ \A d \in Clients \ {c} : call'[d] = call[d] /\ noted'[d] = noted[d]
        /\ call'[c] = q /\ (method = "get" => noted'[c] = removed)
    BY <1>2 DEF OptionsInv, TypeOK
  <1>6. CallShapes'
    BY <1>3, <1>5 DEF OptionsInv, CallShapes
  <1>7. OneEntry' /\ HeldForOne' /\ MadeForOne' /\ NotedRemoved'
    BY <1>2, <1>3, <1>5 DEF OptionsInv, OneEntry, HeldForOne, MadeForOne, NotedRemoved
  <1> QED
    BY <1>4, <1>6, <1>7 DEF OptionsInv

\* What inserting a fresh Lazy does to what is said of entries and holders.
\* Client c holds it afterwards, or nobody does.
LEMMA InsertInv ==
  ASSUME OptionsInv, NEW c \in Clients, NEW l \in Lazies, NEW state \in LazyStates,
         call[c].method \in {"get", "tryAdd"}, call[c].step = "inner",
         Insert(c, l, state), caches' = caches,
         state.status = "made" => state.for = call[c].id,
         NEW q \in CallStates, call' = [call EXCEPT ![c] = q], Shape(q),
         q.lazy # Null => q.id = call[c].id /\ q.name = call[c].name,
         q.method = "get" => call[c].method = "get",
         q.lazy \in {l, Null}, q.lazy = l => q.step # "returned"
  PROVE  OptionsInv'
  <1> DEFINE i == call[c].id
             n == call[c].name
  <1>1. i \in CacheIds /\ n \in OptionNames /\ l # Null /\ entry[i][n] = Null
    BY OptionsAssumption DEF OptionsInv, CallShapes, Shape, Insert
  <1>2. /\ \A j \in CacheIds, m \in OptionNames : entry[j][m] # l
        /\ \A d \in Clients : call[d].lazy # l
    BY <1>1 DEF Insert, Garbage, Cached
  <1>3. /\ entry' = [entry EXCEPT ![i][n] = l] /\ lazy' = [lazy EXCEPT ![l] = state]
        /\ removed' = removed \ {l} /\ noted' = [d \in Clients |-> noted[d] \ {l}]
    BY DEF Insert
  <1>4. TypeOK'
    BY <1>1, <1>3 DEF OptionsInv, TypeOK
  <1>5. /\ \A d \in Clients \ {c} : call'[d] = call[d]
        /\ call'[c] = q
        /\ \A d \in Clients : noted'[d] = noted[d] \ {l}
        /\ lazy'[l] = state /\ \A k \in Lazies \ {l} : lazy'[k] = lazy[k]
        /\ \A j \in CacheIds, m \in OptionNames :
             entry'[j][m] = IF j = i /\ m = n THEN l ELSE entry[j][m]
    BY <1>1, <1>3 DEF OptionsInv, TypeOK
  <1>6. CallShapes'
    BY <1>5 DEF OptionsInv, CallShapes
  <1>7. OneEntry'
    BY <1>1, <1>2, <1>3, <1>5 DEF OptionsInv, OneEntry
  <1>8. HeldForOne'
    BY <1>1, <1>2, <1>3, <1>5 DEF OptionsInv, HeldForOne, TypeOK, CallStates, CallShapes, Shape
  <1>9. MadeForOne'
    BY <1>1, <1>2, <1>3, <1>5 DEF OptionsInv, MadeForOne, TypeOK, CallStates
  <1>10. NotedRemoved'
    BY <1>1, <1>2, <1>3, <1>5 DEF OptionsInv, NotedRemoved
  <1> QED
    BY <1>4, <1>6, <1>7, <1>8, <1>9, <1>10 DEF OptionsInv

LEMMA GetInnerInv ==
  ASSUME OptionsInv, NEW c \in Clients, GetInner(c)
  PROVE  OptionsInv'
  <1> DEFINE i == call[c].id
             n == call[c].name
  <1>1. /\ call[c].method = "get" /\ call[c].step = "inner" /\ caches' = caches
        /\ call[c] \in CallStates /\ i \in CacheIds /\ n \in OptionNames
        /\ call[c].lazy = Null
    BY DEF OptionsInv, TypeOK, CallShapes, Shape, GetInner, At
  <1>2. CASE /\ entry[i][n] # Null
             /\ Become(c, [call[c] EXCEPT !.step = "value", !.lazy = entry[i][n]])
             /\ UNCHANGED <<entry, lazy, removed, noted>>
    <2>1. PICK q : q = [call[c] EXCEPT !.step = "value", !.lazy = entry[i][n]]
      OBVIOUS
    <2>2. entry[i][n] \in Lazies
      BY <1>1, <1>2 DEF OptionsInv, TypeOK
    <2>3. /\ q \in CallStates /\ q.step = "value" /\ q.lazy = entry[i][n]
          /\ q.method = "get" /\ q.id = i /\ q.name = n
      BY <1>1, <2>1, <2>2 DEF CallStates
    <2>4. Shape(q)
      BY <1>1, <1>2, <2>3 DEF Shape
    <2>5. /\ call' = [call EXCEPT ![c] = q]
          /\ \A d \in Clients \ {c} : call'[d] = call[d]
          /\ call'[c] = q
      BY <1>2, <2>1 DEF Become, OptionsInv, TypeOK
    <2>6. TypeOK' /\ CallShapes' /\ OneEntry'
      BY <1>1, <1>2, <2>3, <2>4, <2>5 DEF OptionsInv, TypeOK, CallShapes, OneEntry
    <2>7. HeldForOne'
      BY <1>1, <1>2, <2>3, <2>4, <2>5 DEF OptionsInv, OneEntry, HeldForOne
    <2>8. MadeForOne' /\ NotedRemoved'
      BY <1>1, <1>2, <2>3, <2>4, <2>5 DEF OptionsInv, OneEntry, MadeForOne, NotedRemoved
    <2> QED
      BY <2>6, <2>7, <2>8 DEF OptionsInv
  <1>3. ASSUME NEW l \in Lazies, Insert(c, l, [status |-> "new", for |-> Null]),
               Become(c, [call[c] EXCEPT !.step = "value", !.lazy = l])
        PROVE  OptionsInv'
    <2>1. PICK q : q = [call[c] EXCEPT !.step = "value", !.lazy = l]
      OBVIOUS
    <2>2. /\ q \in CallStates /\ q.step = "value" /\ q.lazy = l
          /\ q.method = "get" /\ q.id = i /\ q.name = n
      BY <1>1, <2>1 DEF CallStates
    <2>6. Shape(q)
      BY <1>1, <2>2, OptionsAssumption DEF Shape
    <2>3. call' = [call EXCEPT ![c] = q]
      BY <1>3, <2>1 DEF Become
    <2>4. PICK state : state = [status |-> "new", for |-> Null]
      OBVIOUS
    <2>5. state \in LazyStates /\ state.status # "made" /\ Insert(c, l, state)
      BY <1>3, <2>4 DEF LazyStates
    <2> QED
      BY <1>1, <2>2, <2>3, <2>5, <2>6, InsertInv
  <1> QED
    BY <1>2, <1>3 DEF GetInner

\* A step of client c that only moves its call on, to step, and sets the state
\* of the Lazy it holds.
LEMMA ValueInv ==
  ASSUME OptionsInv, NEW c \in Clients, call[c].method = "get",
         call[c].step \in {"value", "create"},
         NEW step \in {"create", "returned"}, NEW state \in LazyStates,
         call' = [call EXCEPT ![c] = [call[c] EXCEPT !.step = step]],
         lazy' = [lazy EXCEPT ![call[c].lazy] = state],
         UNCHANGED <<caches, entry, removed, noted>>,
         state.status = "made" \/ step = "returned" =>
           state.status = "made" /\ state.for = call[c].id,
         state.for \in {call[c].id, lazy[call[c].lazy].for}
  PROVE  OptionsInv'
  <1>1. PICK q : q = [call[c] EXCEPT !.step = step]
    OBVIOUS
  <1>2. call[c] \in CallStates /\ Shape(call[c]) /\ call[c].lazy # Null /\ call[c].lazy \in Lazies
    BY DEF OptionsInv, TypeOK, CallShapes, Shape, CallStates
  <1>3. /\ q \in CallStates /\ q.step = step /\ q.lazy = call[c].lazy
        /\ q.method = "get" /\ q.id = call[c].id /\ q.name = call[c].name /\ Shape(q)
    BY <1>1, <1>2 DEF CallStates, Shape
  <1>4. call' = [call EXCEPT ![c] = q]
    BY <1>1
  <1>5. /\ \A d \in Clients \ {c} : call'[d] = call[d]
        /\ call'[c] = q
        /\ lazy'[call[c].lazy] = state
        /\ \A k \in Lazies \ {call[c].lazy} : lazy'[k] = lazy[k]
    BY <1>2, <1>4 DEF OptionsInv, TypeOK
  <1>9. TypeOK'
    BY <1>2, <1>3, <1>4 DEF OptionsInv, TypeOK
  <1>6. CallShapes' /\ OneEntry'
    BY <1>3, <1>5 DEF OptionsInv, CallShapes, OneEntry
  <1>7. HeldForOne' /\ NotedRemoved'
    BY <1>3, <1>5 DEF OptionsInv, HeldForOne, NotedRemoved
  <1>8. MadeForOne'
    <2>1. ASSUME NEW i \in CacheIds, NEW n \in OptionNames, entry[i][n] # Null,
                 lazy'[entry[i][n]].status = "made"
          PROVE  lazy'[entry[i][n]].for = i
      <3>1. entry[i][n] \in Lazies
        BY <2>1 DEF OptionsInv, TypeOK
      <3>2. CASE entry[i][n] = call[c].lazy
        BY <1>2, <1>5, <2>1, <3>2 DEF OptionsInv, HeldForOne
      <3>3. CASE entry[i][n] # call[c].lazy
        BY <1>5, <2>1, <3>1, <3>3 DEF OptionsInv, MadeForOne
      <3> QED
        BY <3>2, <3>3
    <2>2. ASSUME NEW d \in Clients, call'[d].lazy # Null,
                 lazy'[call'[d].lazy].status = "made" \/ call'[d].step = "returned"
          PROVE  lazy'[call'[d].lazy].for = call'[d].id
      <3>1. call'[d].lazy = call[d].lazy /\ call'[d].id = call[d].id /\ call[d].lazy \in Lazies
        BY <1>3, <1>5, <2>2 DEF OptionsInv, TypeOK, CallStates
      <3>2. CASE call[d].lazy = call[c].lazy
        <4>1. call[d].id = call[c].id
          BY <1>2, <3>2 DEF OptionsInv, HeldForOne
        <4>2. CASE d = c
          BY <1>3, <1>5, <2>2, <3>1, <4>2
        <4>3. CASE d # c /\ lazy'[call'[d].lazy].status = "made"
          BY <1>5, <3>1, <3>2, <4>1, <4>3
        <4>4. CASE d # c /\ call'[d].step = "returned"
          <5>1. lazy[call[c].lazy].for = call[c].id
            BY <1>2, <1>5, <3>2, <4>1, <4>4 DEF OptionsInv, MadeForOne
          <5> QED
            BY <1>5, <3>1, <3>2, <4>1, <5>1
        <4> QED
          BY <2>2, <4>2, <4>3, <4>4
      <3>3. CASE call[d].lazy # call[c].lazy
        BY <1>5, <2>2, <3>1, <3>3 DEF OptionsInv, MadeForOne
      <3> QED
        BY <3>2, <3>3
    <2> QED
      BY <2>1, <2>2 DEF MadeForOne
  <1> QED
    BY <1>6, <1>7, <1>8, <1>9 DEF OptionsInv

\* A step that takes client c out of its get if it is in one, empties some entries
\* or none and may mark some Lazy objects as failed.
LEMMA RemovalInv ==
  ASSUME OptionsInv, NEW c \in Clients, NEW q \in CallStates, Shape(q), q.method # "get",
         call' = [call EXCEPT ![c] = q], caches' \subseteq CacheIds,
         lazy' \in [Lazies -> LazyStates],
         \A k \in Lazies : \/ lazy'[k] = lazy[k]
                           \/ lazy'[k].status # "made" /\ lazy'[k].for = lazy[k].for,
         noted' \in [Clients -> SUBSET Lazies],
         \A d \in Clients \ {c} : noted'[d] = noted[d],
         entry' \in [CacheIds -> [OptionNames -> Lazies \cup {Null}]],
         removed' \subseteq Lazies, removed \subseteq removed',
         \A i \in CacheIds, n \in OptionNames :
           /\ entry'[i][n] = entry[i][n] \/ (entry'[i][n] = Null /\ entry[i][n] \in removed')
              \/ (entry'[i][n] = Null /\ entry[i][n] = Null)
           /\ entry'[i][n] # Null => entry'[i][n] \notin removed'
  PROVE  OptionsInv'
  <1>1. q.lazy = Null
    BY DEF Shape
  <1>2. /\ \A d \in Clients \ {c} : call'[d] = call[d]
        /\ call'[c] = q
    BY DEF OptionsInv, TypeOK
  <1>3. TypeOK' /\ CallShapes'
    BY <1>2 DEF OptionsInv, TypeOK, CallShapes
  <1>4. OneEntry'
    BY DEF OptionsInv, OneEntry
  <1>5. HeldForOne'
    <2>1. ASSUME NEW d \in Clients, call'[d].lazy # Null, call'[d].lazy \notin removed'
          PROVE  entry'[call'[d].id][call'[d].name] = call'[d].lazy
      BY <1>1, <1>2, <2>1 DEF OptionsInv, HeldForOne, CallShapes, Shape
    <2> QED
      BY <1>1, <1>2, <2>1 DEF OptionsInv, HeldForOne
  <1>6. MadeForOne'
    <2>1. \A i \in CacheIds, n \in OptionNames : entry[i][n] # Null => entry[i][n] \in Lazies
      BY DEF OptionsInv, TypeOK
    <2>2. \A d \in Clients : call[d].lazy # Null => call[d].lazy \in Lazies
      BY DEF OptionsInv, TypeOK, CallStates
    <2> QED
      BY <1>1, <1>2, <2>1, <2>2 DEF OptionsInv, MadeForOne
  <1>7. NotedRemoved'
    BY <1>1, <1>2 DEF OptionsInv, NotedRemoved
  <1> QED
    BY <1>3, <1>4, <1>5, <1>6, <1>7 DEF OptionsInv

\* A call of client c that ends and leaves the entries alone.
LEMMA FinishInv ==
  ASSUME OptionsInv, NEW c \in Clients, Finish(c), UNCHANGED <<caches, entry, removed>>,
         lazy' \in [Lazies -> LazyStates],
         \A k \in Lazies : \/ lazy'[k] = lazy[k]
                           \/ lazy'[k].status # "made" /\ lazy'[k].for = lazy[k].for
  PROVE  OptionsInv'
  <1>1. call' = [call EXCEPT ![c] = NoCall]
    BY DEF Finish, Become
  <1>2. /\ noted' \in [Clients -> SUBSET Lazies]
        /\ \A d \in Clients \ {c} : noted'[d] = noted[d]
    BY DEF Finish, OptionsInv, TypeOK
  <1>3. \A i \in CacheIds, n \in OptionNames : entry[i][n] # Null => entry[i][n] \notin removed
    BY DEF OptionsInv, OneEntry
  <1> QED
    BY <1>1, <1>2, <1>3, NoCallShape, RemovalInv DEF OptionsInv, TypeOK

LEMMA AskForValueInv ==
  ASSUME OptionsInv, NEW c \in Clients, AskForValue(c)
  PROVE  OptionsInv'
  <1> DEFINE l == call[c].lazy
  <1>1. /\ call[c].method = "get" /\ call[c].step = "value"
        /\ UNCHANGED <<caches, entry, removed>>
    BY DEF AskForValue, At
  <1>2. l # Null /\ l \in Lazies /\ lazy[l] \in LazyStates
    BY <1>1 DEF OptionsInv, TypeOK, CallShapes, Shape, CallStates
  <1>3. CASE /\ lazy[l].status = "new"
             /\ lazy' = [lazy EXCEPT ![l].status = "running"]
             /\ Become(c, [call[c] EXCEPT !.step = "create"])
             /\ UNCHANGED noted
    <2>1. PICK state : state = [lazy[l] EXCEPT !.status = "running"]
      OBVIOUS
    <2>2. state \in LazyStates /\ state.status = "running" /\ state.for = lazy[l].for
      BY <1>2, <2>1 DEF LazyStates
    <2>3. lazy' = [lazy EXCEPT ![l] = state]
      BY <1>2, <1>3, <2>1 DEF OptionsInv, TypeOK
    <2> QED
      BY <1>1, <1>3, <2>2, <2>3, ValueInv DEF Become
  <1>4. CASE lazy[l].status = "made" /\ Return(c) /\ UNCHANGED <<lazy, noted>>
    <2>1. lazy[l].for = call[c].id
      BY <1>2, <1>4 DEF OptionsInv, MadeForOne
    <2>2. lazy' = [lazy EXCEPT ![l] = lazy[l]]
      BY <1>2, <1>4 DEF OptionsInv, TypeOK
    <2> QED
      BY <1>1, <1>2, <1>4, <2>1, <2>2, ValueInv DEF Become, Return
  <1>5. CASE lazy[l].status = "failed" /\ Finish(c) /\ UNCHANGED lazy
    BY <1>1, <1>5, FinishInv DEF OptionsInv, TypeOK
  <1> QED
    BY <1>3, <1>4, <1>5 DEF AskForValue

LEMMA CreateInv ==
  ASSUME OptionsInv, NEW c \in Clients, Create(c)
  PROVE  OptionsInv'
  <1> DEFINE l == call[c].lazy
  <1>1. /\ call[c].method = "get" /\ call[c].step = "create"
        /\ UNCHANGED <<caches, entry, removed>>
    BY DEF Create, At
  <1>2. l # Null /\ l \in Lazies /\ lazy[l] \in LazyStates /\ call[c].id \in CacheIds
    BY <1>1 DEF OptionsInv, TypeOK, CallShapes, Shape, CallStates
  <1>3. CASE /\ lazy' = [lazy EXCEPT ![l] = [status |-> "made", for |-> call[c].id]]
             /\ Return(c)
             /\ UNCHANGED noted
    <2>1. PICK state : state = [status |-> "made", for |-> call[c].id]
      OBVIOUS
    <2>2. state \in LazyStates /\ state.status = "made" /\ state.for = call[c].id
      BY <1>2, <2>1 DEF LazyStates
    <2>3. lazy' = [lazy EXCEPT ![l] = state]
      BY <1>3, <2>1
    <2> QED
      BY <1>1, <1>3, <2>2, <2>3, ValueInv DEF Become, Return
  <1>4. CASE lazy' = [lazy EXCEPT ![l].status = "failed"] /\ Finish(c)
    <2>1. PICK state : state = [lazy[l] EXCEPT !.status = "failed"]
      OBVIOUS
    <2>2. state \in LazyStates /\ state.status = "failed" /\ state.for = lazy[l].for
      BY <1>2, <2>1 DEF LazyStates
    <2>3. lazy' = [lazy EXCEPT ![l] = state]
      BY <1>2, <1>4, <2>1 DEF OptionsInv, TypeOK
    <2>4. /\ lazy' \in [Lazies -> LazyStates]
          /\ \A k \in Lazies :
               \/ lazy'[k] = lazy[k]
               \/ lazy'[k].status # "made" /\ lazy'[k].for = lazy[k].for
      BY <1>2, <2>2, <2>3 DEF OptionsInv, TypeOK
    <2> QED
      BY <1>1, <1>4, <2>4, FinishInv DEF OptionsInv, TypeOK
  <1> QED
    BY <1>3, <1>4 DEF Create

LEMMA TryAddInnerInv ==
  ASSUME OptionsInv, NEW c \in Clients, TryAddInner(c)
  PROVE  OptionsInv'
  <1>1. /\ call[c].method = "tryAdd" /\ call[c].step = "inner" /\ caches' = caches
        /\ call[c] \in CallStates /\ Shape(call[c]) /\ call[c].lazy = Null
        /\ call[c].id \in CacheIds
    BY DEF OptionsInv, TypeOK, CallShapes, Shape, TryAddInner, At
  <1>2. call' = [call EXCEPT ![c] = NoCall]
    BY DEF TryAddInner, Become
  <1>5. CASE UNCHANGED <<entry, lazy, removed, noted>>
    BY <1>1, <1>2, <1>5, NoCallShape, RemovalInv DEF OptionsInv, TypeOK, OneEntry
  <1>6. ASSUME NEW l \in Lazies, Insert(c, l, [status |-> "made", for |-> call[c].id])
        PROVE  OptionsInv'
    <2>1. PICK state : state = [status |-> "made", for |-> call[c].id]
      OBVIOUS
    <2>2. state \in LazyStates /\ state.for = call[c].id /\ Insert(c, l, state)
      BY <1>1, <1>6, <2>1 DEF LazyStates
    <2> QED
      BY <1>1, <1>2, <2>2, NoCallShape, InsertInv, OptionsAssumption
  <1> QED
    BY <1>5, <1>6 DEF TryAddInner

LEMMA TryRemoveInnerInv ==
  ASSUME OptionsInv, NEW c \in Clients, TryRemoveInner(c)
  PROVE  OptionsInv'
  <1> DEFINE id == call[c].id
             name == call[c].name
  <1>1. /\ call[c].method = "tryRemove" /\ call[c].step = "inner"
        /\ UNCHANGED <<caches, lazy>>
        /\ entry' = [entry EXCEPT ![id][name] = Null]
        /\ removed' = removed \cup ({entry[id][name]} \ {Null})
    BY DEF TryRemoveInner, At
  <1>2. /\ call[c] \in CallStates /\ Shape(call[c]) /\ call[c].lazy = Null
        /\ id \in CacheIds /\ name \in OptionNames
    BY <1>1 DEF OptionsInv, TypeOK, CallShapes, Shape
  <1>5. /\ call' = [call EXCEPT ![c] = NoCall]
        /\ noted' \in [Clients -> SUBSET Lazies]
        /\ \A d \in Clients \ {c} : noted'[d] = noted[d]
    BY DEF TryRemoveInner, Finish, Become, OptionsInv, TypeOK
  <1>6. /\ entry' \in [CacheIds -> [OptionNames -> Lazies \cup {Null}]]
        /\ removed' \subseteq Lazies
        /\ \A i \in CacheIds, n \in OptionNames :
             entry'[i][n] = IF i = id /\ n = name THEN Null ELSE entry[i][n]
    BY <1>1, <1>2 DEF OptionsInv, TypeOK
  <1>7. \A i \in CacheIds, n \in OptionNames :
          /\ entry'[i][n] = entry[i][n] \/ (entry'[i][n] = Null /\ entry[i][n] \in removed')
             \/ (entry'[i][n] = Null /\ entry[i][n] = Null)
          /\ entry'[i][n] # Null => entry'[i][n] \notin removed'
    BY <1>1, <1>2, <1>6 DEF OptionsInv, OneEntry
  <1> QED
    BY <1>1, <1>5, <1>6, <1>7, NoCallShape, RemovalInv DEF OptionsInv, TypeOK

LEMMA BeginClearInv ==
  ASSUME OptionsInv, NEW c \in Clients, NEW method \in {"clear", "clearAll"},
         NEW id \in CacheIds \cup {Null}, NEW ids \in SUBSET CacheIds,
         NEW step \in {"inner", "returned"},
         BeginClear(c, method, id, ids, step), caches' \subseteq CacheIds
  PROVE  OptionsInv'
  <1>1. PICK q : q = Call(method, step, id, Null, ids)
    OBVIOUS
  <1>2. q \in CallStates /\ Shape(q) /\ q.method # "get"
    BY <1>1 DEF Call, CallStates, Shape
  <1>3. call' = [call EXCEPT ![c] = q] /\ UNCHANGED <<entry, lazy, removed>>
    BY <1>1 DEF BeginClear, Become
  <1>4. Cached \subseteq Lazies /\ CachedIn(ids) \subseteq Lazies
    BY DEF OptionsInv, TypeOK, Cached, CachedIn
  <1>5. /\ noted' \in [Clients -> SUBSET Lazies]
        /\ \A d \in Clients \ {c} : noted'[d] = noted[d]
    BY <1>4 DEF BeginClear, OptionsInv, TypeOK
  <1> QED
    BY <1>2, <1>3, <1>5, RemovalInv DEF OptionsInv, TypeOK, OneEntry

LEMMA ClearOneInv ==
  ASSUME OptionsInv, NEW c \in Clients, ClearOne(c)
  PROVE  OptionsInv'
  <1>1. /\ call[c].method \in {"clear", "clearAll"} /\ call[c] \in CallStates
        /\ Shape(call[c]) /\ call[c].lazy = Null /\ UNCHANGED <<caches, lazy>>
    BY DEF ClearOne, Clearing, OptionsInv, TypeOK, CallShapes, Shape
  <1>2. PICK id \in call[c].todo :
          /\ entry' = [entry EXCEPT ![id] = [name \in OptionNames |-> Null]]
          /\ removed' = removed \cup CachedIn({id})
          /\ IF call[c].todo = {id} THEN Finish(c)
               ELSE UNCHANGED noted /\ Become(c, [call[c] EXCEPT !.todo = call[c].todo \ {id}])
    BY DEF ClearOne
  <1>3. id \in CacheIds
    BY <1>1 DEF CallStates
  <1>4. PICK q : q = IF call[c].todo = {id} THEN NoCall
                    ELSE [call[c] EXCEPT !.todo = call[c].todo \ {id}]
    OBVIOUS
  <1>5. q \in CallStates /\ q.method # "get" /\ Shape(q)
    <2>1. CASE call[c].todo = {id}
      BY <1>4, <2>1, NoCallShape
    <2>2. CASE call[c].todo # {id}
      <3>1. /\ q \in CallStates /\ q.method = call[c].method /\ q.lazy = Null
        BY <1>1, <1>4, <2>2 DEF CallStates
      <3> QED
        BY <1>1, <3>1 DEF Shape
    <2> QED
      BY <2>1, <2>2
  <1>6. /\ call' = [call EXCEPT ![c] = q]
        /\ noted' \in [Clients -> SUBSET Lazies]
        /\ \A d \in Clients \ {c} : noted'[d] = noted[d]
    BY <1>2, <1>4 DEF Become, Finish, OptionsInv, TypeOK
  <1>7. /\ entry' \in [CacheIds -> [OptionNames -> Lazies \cup {Null}]]
        /\ \A i \in CacheIds, n \in OptionNames :
             entry'[i][n] = IF i = id THEN Null ELSE entry[i][n]
    BY <1>2, <1>3 DEF OptionsInv, TypeOK
  <1>8. \A l : l \in CachedIn({id}) <=> l # Null /\ \E name \in OptionNames : l = entry[id][name]
    BY DEF CachedIn
  <1>9. removed' \subseteq Lazies /\ removed \subseteq removed'
    <2>1. ASSUME NEW l \in CachedIn({id}) PROVE l \in Lazies
      <3>1. PICK name \in OptionNames : l = entry[id][name] /\ l # Null
        BY <1>8
      <3> QED
        BY <1>3, <3>1 DEF OptionsInv, TypeOK
    <2> QED
      BY <1>2, <2>1 DEF OptionsInv, TypeOK
  <1>10. \A i \in CacheIds, n \in OptionNames :
          /\ entry'[i][n] = entry[i][n] \/ (entry'[i][n] = Null /\ entry[i][n] \in removed')
             \/ (entry'[i][n] = Null /\ entry[i][n] = Null)
          /\ entry'[i][n] # Null => entry'[i][n] \notin removed'
    <2> SUFFICES ASSUME NEW i \in CacheIds, NEW n \in OptionNames, entry[i][n] # Null
                 PROVE  IF i = id THEN entry[i][n] \in removed' ELSE entry[i][n] \notin removed'
      BY <1>7
    <2>1. CASE i = id
      BY <1>2, <1>8, <2>1
    <2>2. CASE i # id
      <3>1. OneEntry
        BY DEF OptionsInv
      <3>2. entry[i][n] \notin removed
        BY <3>1 DEF OneEntry
      <3>3. ASSUME NEW name \in OptionNames, entry[i][n] = entry[id][name] PROVE FALSE
        BY <1>3, <2>2, <3>1, <3>3 DEF OneEntry
      <3>4. entry[i][n] \notin CachedIn({id})
        BY <1>8, <3>3
      <3> QED
        BY <1>2, <2>2, <3>2, <3>4
    <2> QED
      BY <2>1, <2>2
  <1> QED
    BY <1>1, <1>5, <1>6, <1>7, <1>9, <1>10, RemovalInv DEF OptionsInv, TypeOK

LEMMA OptionsStep == OptionsInv /\ [Next]_vars => OptionsInv'
  <1> SUFFICES ASSUME OptionsInv, [Next]_vars PROVE OptionsInv'
    OBVIOUS
  <1>1. ASSUME NEW c \in Clients, NEW method \in {"get", "tryAdd", "tryRemove"},
               NEW id \in CacheIds, NEW name \in OptionNames, Begin(c, method, id, name)
        PROVE  OptionsInv'
    BY <1>1, BeginInv
  <1>2. ASSUME NEW c \in Clients,
               \/ GetInner(c) \/ AskForValue(c) \/ Create(c)
               \/ TryAddInner(c) \/ TryRemoveInner(c) \/ ClearOne(c)
        PROVE  OptionsInv'
    BY <1>2, GetInnerInv, AskForValueInv, CreateInv, TryAddInnerInv, TryRemoveInnerInv, ClearOneInv
  <1>3. ASSUME NEW c \in Clients, NEW id \in ClearArgs, Clear(c, id)
        PROVE  OptionsInv'
    BY <1>3, BeginClearInv, OptionsAssumption DEF Clear, OptionsInv, TypeOK
  <1>4. ASSUME NEW c \in Clients, ClearAll(c)
        PROVE  OptionsInv'
    BY <1>4, BeginClearInv DEF ClearAll, OptionsInv, TypeOK
  <1>5. CASE UNCHANGED vars
    BY <1>5 DEF vars, OptionsInv, TypeOK, CallShapes, OneEntry, HeldForOne, MadeForOne, NotedRemoved
  <1> QED
    BY <1>1, <1>2, <1>3, <1>4, <1>5 DEF Next, Step

LEMMA OptionsInvariant == Spec => []OptionsInv
  BY OptionsInit, OptionsStep, PTL DEF Spec
-----------------------------------------------------------------------------
\* Type correctness of the options cache.
THEOREM OptionsTypeCorrect == Spec => []TypeOK
  <1>1. OptionsInv => TypeOK
    BY DEF OptionsInv
  <1> QED
    BY <1>1, OptionsInvariant, PTL

\* Whoever runs the factory, options a flow gets were made for its own tenant.
THEOREM OptionsAreIsolated == Spec => []TenantIsolation
  <1>1. OptionsInv => TenantIsolation
    BY DEF OptionsInv, CallShapes, Shape, MadeForOne, TenantIsolation, GotInstance, At
  <1> QED
    BY <1>1, OptionsInvariant, PTL

\* The options a flow got are the cached ones until somebody removes them.
THEOREM OptionsAreShared == Spec => []SharedInstance
  <1>1. OptionsInv => SharedInstance
    BY DEF OptionsInv, CallShapes, Shape, HeldForOne, SharedInstance, GotInstance, At
  <1> QED
    BY <1>1, OptionsInvariant, PTL

\* Options removed before a get began are never what it returns.
THEOREM OptionsAreFresh == Spec => []FreshAfterRemoval
  <1>1. OptionsInv => FreshAfterRemoval
    BY DEF OptionsInv, NotedRemoved, FreshAfterRemoval
  <1> QED
    BY <1>1, OptionsInvariant, PTL
-----------------------------------------------------------------------------
\* What is cached is in a cache of the map, which loses none; who is about to
\* insert works on one of them.
CachesKnown ==
  /\ \A i \in CacheIds, n \in OptionNames : entry[i][n] # Null => i \in caches
  /\ \A c \in Clients :
       call[c].method \in {"get", "tryAdd"} /\ call[c].step = "inner" => call[c].id \in caches

\* Of what was cached when a clear began only what it has not come to is left.
LeftToClear ==
  \A c \in Clients, i \in CacheIds, n \in OptionNames :
    Clearing(c) /\ entry[i][n] # Null /\ entry[i][n] \in noted[c] => i \in call[c].todo

ClearInv == CachesKnown /\ LeftToClear

LEMMA ClearInit == Init => ClearInv
  BY DEF Init, ClearInv, CachesKnown, LeftToClear, Clearing, NoCall, Call

\* A step of a flow that neither begins nor goes on with a clear.
LEMMA NoClearStep ==
  ASSUME OptionsInv, ClearInv, NEW c \in Clients, NEW q, call' = [call EXCEPT ![c] = q],
         caches \subseteq caches',
         ~(q.method \in {"clear", "clearAll"} /\ q.step = "inner"),
         q.method \in {"get", "tryAdd"} /\ q.step = "inner" => q.id \in caches',
         \A d \in Clients \ {c} : noted'[d] \subseteq noted[d],
         \A i \in CacheIds, n \in OptionNames :
           \/ entry'[i][n] = entry[i][n]
           \/ entry'[i][n] = Null
           \/ i \in caches' /\ \A d \in Clients \ {c} : entry'[i][n] \notin noted'[d]
  PROVE  ClearInv'
  <1>1. call'[c] = q /\ \A d \in Clients \ {c} : call'[d] = call[d]
    BY DEF OptionsInv, TypeOK
  <1>2. CachesKnown'
    BY <1>1 DEF ClearInv, CachesKnown
  <1>3. LeftToClear'
    <2> SUFFICES ASSUME NEW d \in Clients, NEW i \in CacheIds, NEW n \in OptionNames,
                        call'[d].method \in {"clear", "clearAll"}, call'[d].step = "inner",
                        entry'[i][n] # Null, entry'[i][n] \in noted'[d]
                 PROVE  i \in call'[d].todo
      BY DEF LeftToClear, Clearing
    <2>1. d \in Clients \ {c}
      BY <1>1
    <2>2. entry'[i][n] = entry[i][n] /\ entry[i][n] \in noted[d]
      BY <2>1
    <2> QED
      BY <1>1, <2>1, <2>2 DEF ClearInv, LeftToClear, Clearing
  <1> QED
    BY <1>2, <1>3 DEF ClearInv

\* A Lazy that is inserted is nothing a clear has noted.
LEMMA InsertNoClear ==
  ASSUME OptionsInv, ClearInv, NEW c \in Clients, NEW l \in Lazies, NEW state \in LazyStates,
         call[c].method \in {"get", "tryAdd"}, call[c].step = "inner",
         Insert(c, l, state), caches' = caches, NEW q \in CallStates, call' = [call EXCEPT ![c] = q],
         q.step # "inner"
  PROVE  ClearInv'
  <1>1. /\ call[c].id \in CacheIds /\ call[c].name \in OptionNames
        /\ call[c].id \in caches
    BY DEF OptionsInv, CallShapes, Shape, ClearInv, CachesKnown
  <1>2. \A d \in Clients : noted'[d] = noted[d] \ {l}
    BY DEF Insert
  <1>3. \A i \in CacheIds, n \in OptionNames :
          entry'[i][n] = IF i = call[c].id /\ n = call[c].name THEN l ELSE entry[i][n]
    BY <1>1 DEF Insert, OptionsInv, TypeOK
  <1>4. \A i \in CacheIds, n \in OptionNames :
          \/ entry'[i][n] = entry[i][n]
          \/ entry'[i][n] = Null
          \/ i \in caches' /\ \A d \in Clients \ {c} : entry'[i][n] \notin noted'[d]
    BY <1>1, <1>2, <1>3
  <1>5. caches \subseteq caches' /\ \A d \in Clients \ {c} : noted'[d] \subseteq noted[d]
    BY <1>2
  <1> QED
    BY <1>4, <1>5, NoClearStep

LEMMA BeginClearNotes ==
  ASSUME OptionsInv, ClearInv, NEW c \in Clients, NEW method \in {"clear", "clearAll"},
         NEW id, NEW ids \in SUBSET CacheIds, NEW step,
         BeginClear(c, method, id, ids, step), caches \subseteq caches',
         method = "clearAll" /\ step = "inner" => ids = caches
  PROVE  ClearInv'
  <1>1. PICK q : q = Call(method, step, id, Null, ids)
    OBVIOUS
  <1>2. /\ call' = [call EXCEPT ![c] = q] /\ entry' = entry
        /\ noted' = [noted EXCEPT ![c] = IF method = "clearAll" THEN Cached ELSE CachedIn(ids)]
        /\ q.method = method /\ q.step = step /\ q.todo = ids
    BY <1>1 DEF BeginClear, Become, Call
  <1>3. /\ call'[c] = q /\ noted'[c] = IF method = "clearAll" THEN Cached ELSE CachedIn(ids)
        /\ \A d \in Clients \ {c} : call'[d] = call[d] /\ noted'[d] = noted[d]
    BY <1>2 DEF OptionsInv, TypeOK
  <1>4. CachesKnown'
    BY <1>2, <1>3 DEF ClearInv, CachesKnown
  <1>5. ASSUME NEW i \in CacheIds, NEW n \in OptionNames, step = "inner",
               entry[i][n] # Null, entry[i][n] \in noted'[c]
        PROVE  i \in ids
    <2>1. CASE method = "clearAll"
      BY <1>5, <2>1 DEF ClearInv, CachesKnown
    <2>2. CASE method = "clear"
      <3>1. PICK j \in ids, m \in OptionNames : entry[i][n] = entry[j][m]
        BY <1>3, <1>5, <2>2 DEF CachedIn
      <3> QED
        BY <1>5, <3>1 DEF OptionsInv, OneEntry
    <2> QED
      BY <2>1, <2>2
  <1>6. LeftToClear'
    BY <1>2, <1>3, <1>5 DEF ClearInv, LeftToClear, Clearing
  <1> QED
    BY <1>4, <1>6 DEF ClearInv

\* What one step of a clear leaves in the caches.
LEMMA ClearOneEffect ==
  ASSUME OptionsInv, NEW c \in Clients, ClearOne(c)
  PROVE  \E id \in call[c].todo :
           /\ \A i \in CacheIds, n \in OptionNames :
                entry'[i][n] = IF i = id THEN Null ELSE entry[i][n]
           /\ \/ call[c].todo = {id} /\ call' = [call EXCEPT ![c] = NoCall]
                 /\ noted' = [noted EXCEPT ![c] = {}]
              \/ /\ call[c].todo # {id} /\ noted' = noted
                 /\ call' = [call EXCEPT ![c] = [call[c] EXCEPT !.todo = call[c].todo \ {id}]]
  <1>1. PICK id \in call[c].todo :
          /\ entry' = [entry EXCEPT ![id] = [name \in OptionNames |-> Null]]
          /\ IF call[c].todo = {id} THEN Finish(c)
               ELSE UNCHANGED noted /\ Become(c, [call[c] EXCEPT !.todo = call[c].todo \ {id}])
    BY DEF ClearOne
  <1>2. call[c] \in CallStates
    BY DEF OptionsInv, TypeOK
  <1>3. id \in CacheIds
    BY <1>2 DEF CallStates
  <1>4. \A i \in CacheIds, n \in OptionNames : entry'[i][n] = IF i = id THEN Null ELSE entry[i][n]
    BY <1>1, <1>3 DEF OptionsInv, TypeOK
  <1> QED
    BY <1>1, <1>4 DEF Finish, Become

LEMMA ClearOneLeaves ==
  ASSUME OptionsInv, ClearInv, NEW c \in Clients, ClearOne(c)
  PROVE  ClearInv'
  <1>1. call[c] \in CallStates /\ call[c].method \in {"clear", "clearAll"} /\ call[c].step = "inner"
        /\ caches' = caches
    BY DEF OptionsInv, TypeOK, ClearOne, Clearing
  <1>2. PICK id \in call[c].todo :
           /\ \A i \in CacheIds, n \in OptionNames :
                entry'[i][n] = IF i = id THEN Null ELSE entry[i][n]
           /\ \/ call[c].todo = {id} /\ call' = [call EXCEPT ![c] = NoCall]
                 /\ noted' = [noted EXCEPT ![c] = {}]
              \/ /\ call[c].todo # {id} /\ noted' = noted
                 /\ call' = [call EXCEPT ![c] = [call[c] EXCEPT !.todo = call[c].todo \ {id}]]
    BY ClearOneEffect
  <1>3. CASE call[c].todo = {id}
    <2>1. \A d \in Clients \ {c} : noted'[d] = noted[d]
      BY <1>2, <1>3 DEF OptionsInv, TypeOK
    <2> QED
      BY <1>1, <1>2, <1>3, <2>1, NoClearStep, NoCallShape
  <1>4. CASE call[c].todo # {id}
    <2>1. /\ call'[c].method = call[c].method /\ call'[c].step = "inner"
          /\ call'[c].todo = call[c].todo \ {id} /\ noted' = noted
          /\ \A d \in Clients \ {c} : call'[d] = call[d]
      BY <1>1, <1>2, <1>4 DEF OptionsInv, TypeOK, CallStates
    <2>2. CachesKnown'
      BY <1>1, <1>2, <2>1 DEF ClearInv, CachesKnown
    <2>3. LeftToClear'
      BY <1>1, <1>2, <2>1 DEF ClearInv, LeftToClear, Clearing
    <2> QED
      BY <2>2, <2>3 DEF ClearInv
  <1> QED
    BY <1>3, <1>4

LEMMA ClearStep == OptionsInv /\ ClearInv /\ [Next]_vars => ClearInv'
  <1> SUFFICES ASSUME OptionsInv, ClearInv, [Next]_vars PROVE ClearInv'
    OBVIOUS
  <1>1. ASSUME NEW c \in Clients, NEW method \in {"get", "tryAdd", "tryRemove"},
               NEW id \in CacheIds, NEW name \in OptionNames, Begin(c, method, id, name)
        PROVE  ClearInv'
    <2>1. PICK q : q = Call(method, "inner", id, name, {})
      OBVIOUS
    <2>2. q.method = method /\ q.id = id
      BY <2>1 DEF Call
    <2>3. /\ call' = [call EXCEPT ![c] = q] /\ caches' = caches \cup {id} /\ entry' = entry
          /\ \A d \in Clients \ {c} : noted'[d] = noted[d]
      BY <1>1, <2>1 DEF Begin, Become, OptionsInv, TypeOK
    <2> QED
      BY <2>2, <2>3, NoClearStep
  <1>2. ASSUME NEW c \in Clients, GetInner(c) PROVE ClearInv'
    <2>1. /\ call[c].method = "get" /\ call[c].step = "inner" /\ caches' = caches
          /\ call[c] \in CallStates
      BY <1>2 DEF GetInner, At, OptionsInv, TypeOK
    <2>2. CASE UNCHANGED <<entry, noted>>
                 /\ call' = [call EXCEPT ![c] = [call[c] EXCEPT !.step = "value",
                                                                !.lazy = entry[call[c].id][call[c].name]]]
      <3>1. PICK q : q = [call[c] EXCEPT !.step = "value", !.lazy = entry[call[c].id][call[c].name]]
        OBVIOUS
      <3>2. q.step = "value" /\ q.method = "get" /\ call' = [call EXCEPT ![c] = q]
        BY <2>1, <2>2, <3>1 DEF CallStates
      <3> QED
        BY <2>1, <2>2, <3>2, NoClearStep
    <2>3. ASSUME NEW l \in Lazies, Insert(c, l, [status |-> "new", for |-> Null]),
                 call' = [call EXCEPT ![c] = [call[c] EXCEPT !.step = "value", !.lazy = l]]
          PROVE  ClearInv'
      <3>1. PICK q : q = [call[c] EXCEPT !.step = "value", !.lazy = l]
        OBVIOUS
      <3>2. q \in CallStates /\ q.step # "inner" /\ call' = [call EXCEPT ![c] = q]
        BY <2>1, <2>3, <3>1 DEF CallStates
      <3>3. PICK state : state = [status |-> "new", for |-> Null]
        OBVIOUS
      <3>4. Insert(c, l, state) /\ state \in LazyStates /\ call[c].method \in {"get", "tryAdd"}
        BY <2>1, <2>3, <3>3 DEF LazyStates
      <3> QED
        BY <2>1, <3>2, <3>4, InsertNoClear
    <2> QED
      BY <1>2, <2>2, <2>3 DEF GetInner, Become
  <1>3. ASSUME NEW c \in Clients, AskForValue(c) \/ Create(c) PROVE ClearInv'
    <2>1. /\ call[c].method = "get" /\ UNCHANGED <<caches, entry>> /\ call[c] \in CallStates
      BY <1>3 DEF AskForValue, Create, At, OptionsInv, TypeOK
    <2>2. PICK step \in {"create", "returned"} :
            call' = [call EXCEPT ![c] = NoCall] \/ call' = [call EXCEPT ![c] = [call[c] EXCEPT !.step = step]]
      BY <1>3 DEF AskForValue, Create, Return, Finish, Become
    <2>3. \A d \in Clients \ {c} : noted'[d] = noted[d]
      BY <1>3 DEF AskForValue, Create, Finish, OptionsInv, TypeOK
    <2>4. PICK q : q = [call[c] EXCEPT !.step = step]
      OBVIOUS
    <2>5. q.method = "get" /\ q.step # "inner"
      BY <2>1, <2>2, <2>4 DEF CallStates
    <2> QED
      BY <2>1, <2>2, <2>3, <2>4, <2>5, NoCallShape, NoClearStep
  <1>4. ASSUME NEW c \in Clients, TryAddInner(c) PROVE ClearInv'
    <2>1. /\ call[c].method = "tryAdd" /\ call[c].step = "inner" /\ caches' = caches
          /\ call' = [call EXCEPT ![c] = NoCall]
      BY <1>4 DEF TryAddInner, At, Become
    <2>2. CASE UNCHANGED <<entry, noted>>
      BY <2>1, <2>2, NoCallShape, NoClearStep
    <2>3. ASSUME NEW l \in Lazies, Insert(c, l, [status |-> "made", for |-> call[c].id])
          PROVE  ClearInv'
      <3>1. PICK state : state = [status |-> "made", for |-> call[c].id]
        OBVIOUS
      <3>2. PICK q : q = NoCall
        OBVIOUS
      <3>3. q \in CallStates /\ q.step # "inner" /\ call' = [call EXCEPT ![c] = q]
        BY <2>1, <3>2, NoCallShape
      <3>4. Insert(c, l, state) /\ state \in LazyStates /\ call[c].method \in {"get", "tryAdd"}
        BY <1>4, <2>1, <2>3, <3>1 DEF LazyStates, OptionsInv, CallShapes, Shape
      <3> QED
        BY <2>1, <3>3, <3>4, InsertNoClear
    <2> QED
      BY <1>4, <2>2, <2>3 DEF TryAddInner
  <1>5. ASSUME NEW c \in Clients, TryRemoveInner(c) PROVE ClearInv'
    <2>1. /\ call[c].id \in CacheIds /\ call[c].name \in OptionNames /\ UNCHANGED caches
          /\ call' = [call EXCEPT ![c] = NoCall] /\ noted' = [noted EXCEPT ![c] = {}]
          /\ entry' = [entry EXCEPT ![call[c].id][call[c].name] = Null]
      BY <1>5 DEF TryRemoveInner, At, Finish, Become, OptionsInv, CallShapes, Shape
    <2>2. /\ \A d \in Clients \ {c} : noted'[d] = noted[d]
          /\ \A i \in CacheIds, n \in OptionNames : entry'[i][n] \in {entry[i][n], Null}
      BY <2>1 DEF OptionsInv, TypeOK
    <2>3. PICK q : q = NoCall
      OBVIOUS
    <2>4. \A i \in CacheIds, n \in OptionNames :
            \/ entry'[i][n] = entry[i][n]
            \/ entry'[i][n] = Null
            \/ i \in caches' /\ \A d \in Clients \ {c} : entry'[i][n] \notin noted'[d]
      BY <2>2
    <2>5. caches \subseteq caches' /\ \A d \in Clients \ {c} : noted'[d] \subseteq noted[d]
      BY <2>1, <2>2
    <2> QED
      BY <2>1, <2>3, <2>4, <2>5, NoCallShape, NoClearStep
  <1>6. ASSUME NEW c \in Clients, NEW id \in ClearArgs, Clear(c, id) PROVE ClearInv'
    BY <1>6, BeginClearNotes, OptionsAssumption DEF Clear
  <1>7. ASSUME NEW c \in Clients, ClearAll(c) PROVE ClearInv'
    BY <1>7, BeginClearNotes DEF ClearAll, OptionsInv, TypeOK
  <1>8. ASSUME NEW c \in Clients, ClearOne(c) PROVE ClearInv'
    BY <1>8, ClearOneLeaves
  <1>9. CASE UNCHANGED vars
    BY <1>9 DEF vars, ClearInv, CachesKnown, LeftToClear, Clearing
  <1> QED
    BY <1>1, <1>2, <1>3, <1>4, <1>5, <1>6, <1>7, <1>8, <1>9 DEF Next, Step

LEMMA ClearInvariant == Spec => []ClearInv
  BY ClearInit, ClearStep, OptionsInvariant, PTL DEF Spec

\* ClearIsComplete: what is inserted while a clear runs is nothing it noted, and
\* what it noted it comes to, because the map it enumerated has all that is cached.
THEOREM ClearsAreComplete == Spec => ClearIsComplete
  <1> DEFINE Complete ==
        \A c \in Clients : Clearing(c) /\ call'[c].step = "returned" => noted[c] \cap Cached' = {}
  <1>1. OptionsInv /\ ClearInv /\ [Next]_vars => [Complete]_vars
    <2> SUFFICES ASSUME OptionsInv, ClearInv, Next, NEW c \in Clients, Clearing(c),
                        call'[c].step = "returned"
                 PROVE  noted[c] \cap Cached' = {}
      OBVIOUS
    <2>1. PICK d \in Clients : Step(d)
      BY DEF Next
    <2>2. d = c
      BY <2>1 DEF Clearing, Step, Begin, GetInner, AskForValue, Create, TryAddInner, TryRemoveInner,
         Clear, ClearAll, BeginClear, ClearOne, Become, Return, Finish, OptionsInv, TypeOK
    <2>3. ClearOne(c)
      BY <2>1, <2>2 DEF Clearing, Step, Begin, GetInner, AskForValue, Create, TryAddInner,
         TryRemoveInner, Clear, ClearAll, BeginClear, At, Idle
    <2>4. PICK id \in call[c].todo :
             /\ \A i \in CacheIds, n \in OptionNames :
                  entry'[i][n] = IF i = id THEN Null ELSE entry[i][n]
             /\ \/ call[c].todo = {id} /\ call' = [call EXCEPT ![c] = NoCall]
                   /\ noted' = [noted EXCEPT ![c] = {}]
                \/ /\ call[c].todo # {id} /\ noted' = noted
                   /\ call' = [call EXCEPT ![c] = [call[c] EXCEPT !.todo = call[c].todo \ {id}]]
      BY <2>3, ClearOneEffect
    <2>5. call[c].todo = {id}
      <3>1. call[c] \in CallStates /\ call[c].step = "inner"
        BY DEF Clearing, OptionsInv, TypeOK
      <3> QED
        BY <2>4, <3>1 DEF CallStates, OptionsInv, TypeOK
    <2>6. ASSUME NEW l \in noted[c], l \in Cached' PROVE FALSE
      <3>1. PICK i \in CacheIds, n \in OptionNames : l = entry'[i][n] /\ l # Null
        BY <2>6 DEF Cached
      <3>2. i # id /\ entry[i][n] = l
        BY <2>4, <3>1
      <3>3. i \in call[c].todo
        BY <2>6, <3>1, <3>2 DEF ClearInv, LeftToClear
      <3> QED
        BY <2>5, <3>2, <3>3
    <2> QED
      BY <2>6
  <1> QED
    BY <1>1, OptionsInvariant, ClearInvariant, PTL DEF Spec, ClearIsComplete
-----------------------------------------------------------------------------
LEMMA OneRunnerInit == Init => OneRunner
  BY DEF Init, OneRunner, Runs, At, NoCall, Call

\* A step of a flow that runs no factory before or after it; a Lazy that changes
\* was and is not running.
LEMMA NobodyRunsStep ==
  ASSUME OptionsInv, OneRunner, NEW c \in Clients, NEW q, call' = [call EXCEPT ![c] = q],
         ~At(c, "get", "create"), ~(q.method = "get" /\ q.step = "create"),
         \A l \in Lazies : \/ lazy'[l] = lazy[l]
                           \/ /\ lazy'[l].status # "running"
                              /\ \A d \in Clients : ~Runs(d, l)
  PROVE  OneRunner'
  <1>1. call'[c] = q /\ \A d \in Clients \ {c} : call'[d] = call[d]
    BY DEF OptionsInv, TypeOK
  <1>2. \A d \in Clients, l \in Lazies : Runs(d, l)' <=> Runs(d, l)
    BY <1>1 DEF Runs, At
  <1> QED
    BY <1>2 DEF OneRunner

\* What is inserted is garbage, which nobody runs.
LEMMA InsertedNotRun ==
  ASSUME OptionsInv, NEW c \in Clients, NEW l \in Lazies, NEW state, Insert(c, l, state),
         state.status # "running"
  PROVE  \A m \in Lazies : \/ lazy'[m] = lazy[m]
                           \/ /\ lazy'[m].status # "running"
                              /\ \A d \in Clients : ~Runs(d, m)
  BY DEF Insert, Garbage, Runs, OptionsInv, TypeOK

LEMMA OneRunnerStep == OptionsInv /\ OneRunner /\ [Next]_vars => OneRunner'
  <1> SUFFICES ASSUME OptionsInv, OneRunner, [Next]_vars PROVE OneRunner'
    OBVIOUS
  <1>1. ASSUME NEW c \in Clients, NEW method \in {"get", "tryAdd", "tryRemove"},
               NEW id \in CacheIds, NEW name \in OptionNames, Begin(c, method, id, name)
        PROVE  OneRunner'
    BY <1>1, NobodyRunsStep DEF Begin, Become, Idle, At, Call
  <1>2. ASSUME NEW c \in Clients, GetInner(c)
        PROVE  OneRunner'
    <2>1. call[c] \in CallStates /\ call[c].method = "get" /\ call[c].step = "inner"
      BY <1>2, Zenon DEF GetInner, At, OptionsInv, TypeOK
    <2>2. PICK l : call' = [call EXCEPT ![c] = [call[c] EXCEPT !.step = "value", !.lazy = l]]
      BY <1>2, Zenon DEF GetInner, Become
    <2>3. [call[c] EXCEPT !.step = "value", !.lazy = l].step = "value"
      BY <2>1 DEF CallStates
    <2>4. \/ lazy' = lazy
          \/ \E m \in Lazies : Insert(c, m, [status |-> "new", for |-> Null])
      BY <1>2, Zenon DEF GetInner
    <2>5. \A m \in Lazies : \/ lazy'[m] = lazy[m]
                            \/ /\ lazy'[m].status # "running"
                               /\ \A d \in Clients : ~Runs(d, m)
      BY <2>4, InsertedNotRun
    <2> HIDE DEF OneRunner
    <2> QED
      BY <2>1, <2>2, <2>3, <2>5, NobodyRunsStep DEF At
  <1>3. ASSUME NEW c \in Clients, AskForValue(c)
        PROVE  OneRunner'
    <2> DEFINE l == call[c].lazy
    <2>1. /\ call[c] \in CallStates /\ call[c].method = "get" /\ call[c].step = "value"
          /\ l \in Lazies /\ lazy \in [Lazies -> LazyStates]
      BY <1>3 DEF AskForValue, At, OptionsInv, TypeOK, CallShapes, Shape, CallStates
    <2>2. CASE lazy[l].status = "new"
      <3>1. /\ lazy' = [lazy EXCEPT ![l].status = "running"]
            /\ call' = [call EXCEPT ![c] = [call[c] EXCEPT !.step = "create"]]
        BY <1>3, <2>2 DEF AskForValue, Become
      <3>2. /\ \A d \in Clients \ {c} : call'[d] = call[d]
            /\ call'[c].method = "get" /\ call'[c].step = "create" /\ call'[c].lazy = l
        BY <2>1, <3>1 DEF OptionsInv, TypeOK, CallStates
      <3>3. lazy'[l].status = "running" /\ \A m \in Lazies \ {l} : lazy'[m] = lazy[m]
        BY <2>1, <3>1 DEF LazyStates
      <3>4. /\ Runs(c, l)' /\ \A m \in Lazies \ {l} : ~Runs(c, m) /\ ~Runs(c, m)'
            /\ \A d \in Clients \ {c}, m \in Lazies : Runs(d, m)' <=> Runs(d, m)
        BY <2>1, <3>2 DEF Runs, At
      <3>5. \A d \in Clients : ~Runs(d, l)
        BY <2>1, <2>2 DEF OneRunner
      <3>6. \A d \in Clients, m \in Lazies : Runs(d, m)' <=> (d = c /\ m = l) \/ Runs(d, m)
        BY <2>1, <3>2, <3>4 DEF Runs, At
      <3>7. \A m \in Lazies : lazy'[m].status = "running" => \E d \in Clients : Runs(d, m)'
        BY <2>1, <3>3, <3>6 DEF OneRunner
      <3>8. \A d \in Clients, m \in Lazies : Runs(d, m)' => lazy'[m].status = "running"
        BY <3>3, <3>6 DEF OneRunner
      <3>9. \A d, e \in Clients, m \in Lazies : Runs(d, m)' /\ Runs(e, m)' => d = e
        BY <3>4, <3>5, <3>6 DEF OneRunner
      <3> QED
        BY <3>7, <3>8, <3>9 DEF OneRunner
    <2>3. CASE lazy[l].status # "new"
      <3>1. lazy' = lazy
        BY <1>3, <2>3 DEF AskForValue
      <3>2. PICK q \in {NoCall, [call[c] EXCEPT !.step = "returned"]} :
              call' = [call EXCEPT ![c] = q]
        BY <1>3, <2>3 DEF AskForValue, Return, Finish, Become
      <3>3. q.step = "returned"
        BY <2>1, NoCallShape DEF CallStates
      <3> QED
        BY <2>1, <3>1, <3>2, <3>3, NobodyRunsStep DEF At
    <2> QED
      BY <2>2, <2>3
  <1>4. ASSUME NEW c \in Clients, Create(c)
        PROVE  OneRunner'
    <2> DEFINE l == call[c].lazy
    <2>1. /\ call[c] \in CallStates /\ call[c].method = "get" /\ call[c].step = "create"
          /\ l \in Lazies /\ lazy \in [Lazies -> LazyStates]
      BY <1>4 DEF Create, At, OptionsInv, TypeOK, CallShapes, Shape, CallStates
    <2>2. PICK q \in {NoCall, [call[c] EXCEPT !.step = "returned"]} :
            call' = [call EXCEPT ![c] = q]
      BY <1>4 DEF Create, Return, Finish, Become
    <2>3. q.step = "returned"
      BY <2>1, NoCallShape DEF CallStates
    <2>4. /\ lazy'[l].status # "running" /\ \A m \in Lazies \ {l} : lazy'[m] = lazy[m]
          /\ call'[c].step = "returned" /\ \A d \in Clients \ {c} : call'[d] = call[d]
      <3>1. \/ lazy' = [lazy EXCEPT ![l] = [status |-> "made", for |-> call[c].id]]
            \/ lazy' = [lazy EXCEPT ![l].status = "failed"]
        BY <1>4 DEF Create
      <3>2. lazy'[l].status # "running" /\ \A m \in Lazies \ {l} : lazy'[m] = lazy[m]
        BY <2>1, <3>1 DEF LazyStates
      <3> QED
        BY <2>2, <2>3, <3>2 DEF OptionsInv, TypeOK
    <2>5. /\ Runs(c, l) /\ \A m \in Lazies : ~Runs(c, m)'
          /\ \A m \in Lazies \ {l} : ~Runs(c, m)
          /\ \A d \in Clients \ {c}, m \in Lazies : Runs(d, m)' <=> Runs(d, m)
      BY <2>1, <2>4 DEF Runs, At
    <2>6. \A d \in Clients \ {c} : ~Runs(d, l)
      BY <2>1, <2>5 DEF OneRunner
    <2> QED
      BY <2>1, <2>4, <2>5, <2>6 DEF OneRunner
  <1>5. ASSUME NEW c \in Clients, TryAddInner(c)
        PROVE  OneRunner'
    <2>1. ~At(c, "get", "create") /\ call' = [call EXCEPT ![c] = NoCall]
      BY <1>5 DEF TryAddInner, At, Become
    <2>2. \/ lazy' = lazy
          \/ \E m \in Lazies : Insert(c, m, [status |-> "made", for |-> call[c].id])
      BY <1>5 DEF TryAddInner
    <2>3. \A m \in Lazies : \/ lazy'[m] = lazy[m]
                            \/ /\ lazy'[m].status # "running"
                               /\ \A d \in Clients : ~Runs(d, m)
      BY <2>2, InsertedNotRun
    <2> HIDE DEF OneRunner
    <2> QED
      BY <2>1, <2>3, NoCallShape, NobodyRunsStep
  <1>6. ASSUME NEW c \in Clients, TryRemoveInner(c) \/ ClearOne(c)
        PROVE  OneRunner'
    <2>1. /\ ~At(c, "get", "create") /\ lazy' = lazy
          /\ call[c] \in CallStates /\ call[c].step = "inner"
      BY <1>6 DEF TryRemoveInner, ClearOne, Clearing, At, OptionsInv, TypeOK
    <2>2. PICK q :
            /\ q = NoCall \/ \E ids : q = [call[c] EXCEPT !.todo = ids]
            /\ call' = [call EXCEPT ![c] = q]
      BY <1>6 DEF TryRemoveInner, ClearOne, Finish, Become
    <2>3. q.step \in {"returned", "inner"} /\ ~(q.method = "get" /\ q.step = "create")
      BY <2>1, <2>2, NoCallShape DEF CallStates
    <2> QED
      BY <2>1, <2>2, <2>3, NobodyRunsStep
  <1>7. ASSUME NEW c \in Clients, ClearAll(c) \/ \E id \in ClearArgs : Clear(c, id)
        PROVE  OneRunner'
    BY <1>7, NobodyRunsStep DEF Clear, ClearAll, BeginClear, Become, Idle, At, Call
  <1>8. CASE UNCHANGED vars
    BY <1>8 DEF vars, OneRunner, Runs, At
  <1> QED
    BY <1>1, <1>2, <1>3, <1>4, <1>5, <1>6, <1>7, <1>8 DEF Next, Step

\* OneRunner: a factory is run by one flow, whatever is removed, cleared and allocated anew
\* meanwhile, and while it runs there is a flow that runs it.  What is left of
\* EveryGetEnds is that this flow is scheduled and the factory ends.
THEOREM FactoriesHaveOneRunner == Spec => []OneRunner
  BY OneRunnerInit, OneRunnerStep, OptionsInvariant, PTL DEF Spec
-----------------------------------------------------------------------------
(* The services of requests.                                                *)

\* One request's Items, accessor and the depth of who set them; keys: what they
\* may be.
InStep(keys, item, flow, depth) ==
  /\ item \in keys
  /\ flow \in Seq(keys)
  /\ Len(flow) \in 1..MaxFlows
  /\ depth \in 0..Len(flow)
  /\ depth # 0 => \A i \in depth..Len(flow) : flow[i] = item

\* Each operation of CurrentTenant on values of one request.
LEMMA InStepNew ==
  ASSUME MaxFlows \in Nat \ {0}, NEW keys, NEW item \in keys PROVE InStep(keys, item, <<item>>, 0)
  BY DEF InStep

LEMMA InStepSet ==
  ASSUME MaxFlows \in Nat \ {0}, NEW keys, NEW item, NEW flow, NEW depth,
         InStep(keys, item, flow, depth), NEW key \in keys
  PROVE  InStep(keys, key, [flow EXCEPT ![Len(flow)] = key], Len(flow))
  BY DEF InStep

LEMMA InStepCall ==
  ASSUME MaxFlows \in Nat \ {0}, NEW keys, NEW item, NEW flow, NEW depth,
         InStep(keys, item, flow, depth), Len(flow) < MaxFlows
  PROVE  InStep(keys, item, Append(flow, flow[Len(flow)]), depth)
  <1> DEFINE called == Append(flow, flow[Len(flow)])
  <1>1. flow \in Seq(keys) /\ Len(flow) \in 1..MaxFlows /\ depth \in 0..Len(flow)
    BY DEF InStep
  <1>2. flow[Len(flow)] \in keys
    BY <1>1
  <1>3. called \in Seq(keys) /\ Len(called) = Len(flow) + 1
    BY <1>1, <1>2
  <1>4. \A i \in 1..Len(flow) : called[i] = flow[i]
    BY <1>1, <1>2
  <1>5. called[Len(flow) + 1] = flow[Len(flow)]
    BY <1>1, <1>2
  <1>6. ASSUME depth # 0, NEW i \in depth..Len(called) PROVE called[i] = item
    <2>1. CASE i = Len(flow) + 1
      BY <1>1, <1>5, <1>6, <2>1 DEF InStep
    <2>2. CASE i # Len(flow) + 1
      BY <1>1, <1>3, <1>4, <1>6, <2>2 DEF InStep
    <2> QED
      BY <2>1, <2>2
  <1> HIDE DEF called
  <1>7. InStep(keys, item, called, depth)
    BY <1>1, <1>3, <1>6 DEF InStep
  <1> QED
    BY <1>7 DEF called

LEMMA InStepReturn ==
  ASSUME MaxFlows \in Nat \ {0}, NEW keys, NEW item, NEW flow, NEW depth,
         InStep(keys, item, flow, depth), Len(flow) > 1
  PROVE  InStep(keys, item, SubSeq(flow, 1, Len(flow) - 1),
                IF depth = Len(flow) THEN 0 ELSE depth)
  <1> DEFINE rest == SubSeq(flow, 1, Len(flow) - 1)
  <1>1. flow \in Seq(keys) /\ Len(flow) \in 1..MaxFlows /\ depth \in 0..Len(flow)
    BY DEF InStep
  <1>2. rest \in Seq(keys) /\ Len(rest) = Len(flow) - 1
    BY <1>1
  <1>3. \A i \in 1..Len(flow) - 1 : rest[i] = flow[i]
    BY <1>1
  <1> HIDE DEF rest
  <1>4. InStep(keys, item, rest, IF depth = Len(flow) THEN 0 ELSE depth)
    BY <1>1, <1>2, <1>3 DEF InStep
  <1> QED
    BY <1>4 DEF rest

\* Scopes of services.
Scopes ==
  [snapshot : Caches, dbContext : Tenants \cup {NoTenantInfo, NotMade}, began : 0..MaxConfig]

\* What the services of a request hold: options under the tenants they are for,
\* no older than the scope; and in a fresh scope, nothing of another tenant.
Served(s, item, depth, isFresh, now) ==
  /\ s \in Scopes
  /\ s.began <= now
  /\ \A id \in OptionsIds :
       s.snapshot[id] # NotMade =>
         s.snapshot[id].config >= s.began /\ IdOf(s.snapshot[id].tenant) = id
  /\ isFresh /\ depth # 0 =>
       /\ s.dbContext \in {NotMade, item}
       /\ \A id \in OptionsIds : s.snapshot[id] # NotMade => s.snapshot[id].tenant = item

\* CurrentTenant with TenantInfo objects.
ServicesContextInv ==
  /\ items = [r \in Requests |-> items[r]]
  /\ flows = [r \in Requests |-> flows[r]]
  /\ setIn = [r \in Requests |-> setIn[r]]
  /\ \A r \in Requests : InStep(Tenants \cup {NoTenantInfo}, items[r], flows[r], setIn[r])

\* The inductive invariant.
ServicesInv ==
  /\ ServicesContextInv
  /\ config \in 0..MaxConfig
  /\ singleton \in Caches
  /\ fresh \in [Requests -> BOOLEAN]
  /\ scope = [r \in Requests |-> scope[r]]
  /\ \A r \in Requests : Served(scope[r], items[r], setIn[r], fresh[r], config)

\* The accessor's tenant is one, in the scope of who set it last the one of Items.
LEMMA AccessorTenant ==
  ASSUME ServicesParameters, ServicesInv, NEW r \in Requests
  PROVE  /\ Tenant(r) \in Tenants \cup {NoTenantInfo} /\ IdOf(Tenant(r)) \in OptionsIds
         /\ setIn[r] # 0 => Tenant(r) = items[r]
  <1>1. InStep(Tenants \cup {NoTenantInfo}, items[r], flows[r], setIn[r])
    BY DEF ServicesInv, ServicesContextInv
  <1>2. PICK n : n = Len(flows[r])
    OBVIOUS
  <1>3. flows[r][n] \in Tenants \cup {NoTenantInfo} /\ (setIn[r] # 0 => flows[r][n] = items[r])
    BY <1>1, <1>2 DEF InStep, ServicesParameters
  <1>4. Tenant(r) = flows[r][n]
    BY <1>2 DEF Tenant, Current!Depth
  <1>5. \A t \in Tenants \cup {NoTenantInfo} : IdOf(t) \in OptionsIds
    BY DEF IdOf, OptionsIds
  <1> QED
    BY <1>3, <1>4, <1>5

\* Get and Reset on a cache, one entry of which may change.
LEMMA PrivateCacheSteps ==
  ASSUME config \in 0..MaxConfig, NEW cache \in Caches, NEW t \in Tenants \cup {NoTenantInfo},
         IdOf(t) \in OptionsIds, NEW after, after \in {Get(cache, t), Reset(cache, t)}
  PROVE  /\ after \in Caches
         /\ \A id \in OptionsIds :
              \/ after[id] \in {cache[id], NotMade}
              \/ /\ after[id] = Made(t)
                 /\ id = IdOf(t) /\ cache[id] = NotMade
         /\ \A id \in OptionsIds : id # IdOf(t) => after[id] = cache[id]
  <1>1. Made(t) \in Options
    BY DEF Made, Options
  <1> QED
    BY <1>1 DEF Get, Reset, Caches

\* A scope that was just made.
LEMMA NewScopeServed ==
  ASSUME ServicesParameters, config \in 0..MaxConfig, NEW item, NEW depth, NEW isFresh
  PROVE  Served(NewScope, item, depth, isFresh, config)
  <1>1. NewScope \in Scopes /\ NewScope.began = config /\ NewScope.dbContext = NotMade
    BY DEF NewScope, NoOptions, Scopes, Caches
  <1>2. NewScope.snapshot = NoOptions
    BY DEF NewScope
  <1>3. \A id \in OptionsIds : NewScope.snapshot[id] = NotMade
    BY <1>2 DEF NoOptions
  <1>4. NewScope.began <= config
    BY <1>1 DEF ServicesParameters
  <1> QED
    BY <1>1, <1>3, <1>4 DEF Served

\* A scope whose request forgot that it is fresh.
LEMMA StaleServed ==
  ASSUME NEW s, NEW item, NEW depth, NEW isFresh, NEW now,
         Served(s, item, depth, isFresh, now), NEW other, NEW deeper
  PROVE  Served(s, other, deeper, FALSE, now)
  BY DEF Served

\* The operations that touch the tenant of one request only.
LEMMA ServicesContextSteps ==
  ASSUME ServicesParameters, ServicesContextInv, NEW r \in Requests
  PROVE  /\ Current!NewContext(r) => ServicesContextInv'
         /\ \A t \in Tenants \cup {NoTenantInfo} : Current!SetContext(r, t) => ServicesContextInv'
         /\ Current!CallAsync(r) => ServicesContextInv'
         /\ Current!ReturnAsync(r) => ServicesContextInv'
  <1>0. MaxFlows \in Nat \ {0} /\ NoTenantInfo \in Tenants \cup {NoTenantInfo}
    BY DEF ServicesParameters
  <1>1. ASSUME Current!NewContext(r) PROVE ServicesContextInv'
    <2>1. InStep(Tenants \cup {NoTenantInfo}, NoTenantInfo, <<NoTenantInfo>>, 0)
      BY <1>0, InStepNew
    <2> QED
      BY <1>1, <2>1 DEF ServicesContextInv, Current!NewContext
  <1>2. ASSUME NEW t \in Tenants \cup {NoTenantInfo}, Current!SetContext(r, t) PROVE ServicesContextInv'
    <2>1. InStep(Tenants \cup {NoTenantInfo}, t, [flows[r] EXCEPT ![Len(flows[r])] = t], Len(flows[r]))
      BY <1>0, InStepSet DEF ServicesContextInv
    <2> QED
      BY <1>2, <2>1 DEF ServicesContextInv, Current!SetContext, Current!Depth
  <1>3. ASSUME Current!CallAsync(r) PROVE ServicesContextInv'
    <2>1. InStep(Tenants \cup {NoTenantInfo}, items[r], Append(flows[r], flows[r][Len(flows[r])]), setIn[r])
      BY <1>0, <1>3, InStepCall DEF ServicesContextInv, Current!CallAsync, Current!Depth
    <2> QED
      BY <1>3, <2>1 DEF ServicesContextInv, Current!CallAsync, Current!Depth
  <1>4. ASSUME Current!ReturnAsync(r) PROVE ServicesContextInv'
    <2>1. InStep(Tenants \cup {NoTenantInfo}, items[r], SubSeq(flows[r], 1, Len(flows[r]) - 1),
                 IF setIn[r] = Len(flows[r]) THEN 0 ELSE setIn[r])
      BY <1>0, <1>4, InStepReturn DEF ServicesContextInv, Current!ReturnAsync, Current!Depth
    <2> QED
      BY <1>4, <2>1 DEF ServicesContextInv, Current!ReturnAsync, Current!Depth
  <1> QED
    BY <1>1, <1>2, <1>3, <1>4

\* A step that leaves the tenants of requests alone.
LEMMA SameServicesContext ==
  ServicesContextInv /\ UNCHANGED contextVars => ServicesContextInv'
  BY DEF ServicesContextInv, contextVars

\* A step of one request r after which its scope is s.
LEMMA ServedStep ==
  ASSUME ServicesInv, ServicesContextInv', config' = config, singleton' = singleton,
         NEW r \in Requests, NEW s, NEW isFresh \in BOOLEAN,
         scope' = [scope EXCEPT ![r] = s], fresh' = [fresh EXCEPT ![r] = isFresh],
         \A q \in Requests : q # r => items'[q] = items[q] /\ setIn'[q] = setIn[q],
         Served(s, items'[r], setIn'[r], isFresh, config)
  PROVE  ServicesInv'
  <1>1. /\ scope' = [q \in Requests |-> scope'[q]] /\ scope'[r] = s
        /\ \A q \in Requests : q # r => scope'[q] = scope[q]
    BY DEF ServicesInv
  <1>2. /\ fresh' \in [Requests -> BOOLEAN] /\ fresh'[r] = isFresh
        /\ \A q \in Requests : q # r => fresh'[q] = fresh[q]
    BY DEF ServicesInv
  <1>3. ASSUME NEW q \in Requests
        PROVE  Served(scope'[q], items'[q], setIn'[q], fresh'[q], config)
    <2>1. CASE q = r
      BY <1>1, <1>2, <2>1
    <2>2. CASE q # r
      <3>1. Served(scope[q], items[q], setIn[q], fresh[q], config)
        BY DEF ServicesInv
      <3> QED
        BY <1>1, <1>2, <2>2, <3>1
    <2> QED
      BY <2>1, <2>2
  <1> QED
    BY <1>1, <1>2, <1>3 DEF ServicesInv, Caches, Options

\* The operations of CurrentTenant change the data of one request.
LEMMA OtherRequests ==
  ASSUME ServicesContextInv, NEW r \in Requests, NEW t,
         Current!NewContext(r) \/ Current!SetContext(r, t)
           \/ Current!CallAsync(r) \/ Current!ReturnAsync(r)
  PROVE  \A q \in Requests : q # r => items'[q] = items[q] /\ setIn'[q] = setIn[q]
  BY DEF ServicesContextInv, Current!NewContext, Current!SetContext, Current!CallAsync,
         Current!ReturnAsync

\* The next request.
LEMMA ServicesSendStep ==
  ASSUME ServicesParameters, ServicesInv, NEW r \in Requests, Send(r) PROVE ServicesInv'
  <1>1. PICK s : s = NewScope
    OBVIOUS
  <1>2. /\ scope' = [scope EXCEPT ![r] = s] /\ fresh' = [fresh EXCEPT ![r] = FALSE]
        /\ config' = config /\ singleton' = singleton
    BY <1>1 DEF Send
  <1>3. ServicesContextInv /\ config \in 0..MaxConfig /\ Current!NewContext(r)
    BY DEF Send, ServicesInv
  <1>4. Served(s, items'[r], setIn'[r], FALSE, config)
    BY <1>1, <1>3, NewScopeServed
  <1>5. ServicesContextInv'
    BY <1>3, ServicesContextSteps
  <1>6. \A q \in Requests : q # r => items'[q] = items[q] /\ setIn'[q] = setIn[q]
    BY <1>3, OtherRequests
  <1> QED
    BY <1>2, <1>4, <1>5, <1>6, ServedStep

\* The middleware ends freshness: it sets the tenant and keeps the scope.
LEMMA ServicesInvokeStep ==
  ASSUME ServicesParameters, ServicesInv, NEW r \in Requests, NEW t \in Tenants \cup {NoTenantInfo},
         Invoke(r, t)
  PROVE  ServicesInv'
  <1>1. PICK s : s = scope[r]
    OBVIOUS
  <1>2. /\ scope' = [scope EXCEPT ![r] = s] /\ fresh' = [fresh EXCEPT ![r] = FALSE]
        /\ config' = config /\ singleton' = singleton
    BY <1>1 DEF Invoke, ServicesInv
  <1>3. ServicesContextInv /\ Current!SetContext(r, t)
    BY DEF Invoke, ServicesInv
  <1>4. Served(s, items'[r], setIn'[r], FALSE, config)
    BY <1>1, StaleServed DEF ServicesInv
  <1>5. ServicesContextInv'
    BY <1>3, ServicesContextSteps
  <1>6. \A q \in Requests : q # r => items'[q] = items[q] /\ setIn'[q] = setIn[q]
    BY <1>3, OtherRequests
  <1> QED
    BY <1>2, <1>4, <1>5, <1>6, ServedStep

\* OverrideTenantInfo, with or without a new scope.
LEMMA ServicesOverrideStep ==
  ASSUME ServicesParameters, ServicesInv, NEW r \in Requests, NEW t \in Tenants,
         NEW reset \in BOOLEAN, OverrideTenantInfo(r, t, reset)
  PROVE  ServicesInv'
  <1>1. PICK s : s = IF reset THEN NewScope ELSE scope[r]
    OBVIOUS
  <1>2. /\ scope' = [scope EXCEPT ![r] = s] /\ fresh' = [fresh EXCEPT ![r] = reset]
        /\ config' = config /\ singleton' = singleton
    BY <1>1 DEF OverrideTenantInfo, ServicesInv
  <1>3. ServicesContextInv /\ config \in 0..MaxConfig /\ Current!SetContext(r, t)
    BY DEF OverrideTenantInfo, ServicesInv
  <1>4. Served(s, items'[r], setIn'[r], reset, config)
    <2>1. CASE reset
      BY <1>1, <1>3, <2>1, NewScopeServed
    <2>2. CASE ~reset
      <3>1. Served(s, items'[r], setIn'[r], FALSE, config)
        BY <1>1, <2>2, StaleServed DEF ServicesInv
      <3>2. reset = FALSE
        BY <2>2
      <3> QED
        BY <3>1, <3>2
    <2> QED
      BY <2>1, <2>2
  <1>5. ServicesContextInv'
    BY <1>3, ServicesContextSteps
  <1>6. \A q \in Requests : q # r => items'[q] = items[q] /\ setIn'[q] = setIn[q]
    BY <1>3, OtherRequests
  <1> QED
    BY <1>2, <1>4, <1>5, <1>6, ServedStep

\* Async calls and returns: who set the tenant is the same, or has returned.
LEMMA ServicesNestStep ==
  ASSUME ServicesParameters, ServicesInv, NEW r \in Requests, Nest(r) PROVE ServicesInv'
  <1>1. ServicesContextInv /\ (Current!CallAsync(r) \/ Current!ReturnAsync(r))
    BY DEF Nest, ServicesInv
  <1>2. ServicesContextInv'
    BY <1>1, ServicesContextSteps
  <1>3. items' = items /\ \A q \in Requests : setIn'[q] \in {setIn[q], 0}
    BY <1>1 DEF Current!CallAsync, Current!ReturnAsync, ServicesContextInv
  <1>4. scope' = scope /\ fresh' = fresh /\ config' = config /\ singleton' = singleton
    BY DEF Nest
  <1>5. ASSUME NEW q \in Requests
        PROVE  Served(scope'[q], items'[q], setIn'[q], fresh'[q], config')
    <2>1. Served(scope[q], items[q], setIn[q], fresh[q], config)
      BY DEF ServicesInv
    <2>2. setIn'[q] # 0 => setIn'[q] = setIn[q]
      BY <1>3
    <2> QED
      BY <1>3, <1>4, <2>1, <2>2 DEF Served
  <1> QED
    BY <1>2, <1>4, <1>5 DEF ServicesInv, Caches, Options

\* The DbContext of the scope.
LEMMA ServicesGetDbContextStep ==
  ASSUME ServicesParameters, ServicesInv, NEW r \in Requests, GetDbContext(r)
  PROVE  ServicesInv'
  <1>1. PICK t : t = Tenant(r)
    OBVIOUS
  <1>2. t \in Tenants \cup {NoTenantInfo} /\ (setIn[r] # 0 => t = items[r])
    BY <1>1, AccessorTenant
  <1>3. PICK s : s = [scope[r] EXCEPT !.dbContext = t]
    OBVIOUS
  <1>4. Served(scope[r], items[r], setIn[r], fresh[r], config) /\ fresh[r] \in BOOLEAN
    BY DEF ServicesInv
  <1>5. s \in Scopes /\ s.dbContext = t /\ s.began = scope[r].began /\ s.snapshot = scope[r].snapshot
    BY <1>2, <1>3, <1>4 DEF Served, Scopes
  <1>6. Served(s, items[r], setIn[r], fresh[r], config)
    BY <1>2, <1>4, <1>5 DEF Served
  <1>7. /\ scope' = [scope EXCEPT ![r] = s] /\ fresh' = [fresh EXCEPT ![r] = fresh[r]]
        /\ config' = config /\ singleton' = singleton /\ UNCHANGED contextVars
    BY <1>1, <1>3 DEF GetDbContext, ServicesInv
  <1>8. ServicesContextInv'
    BY <1>7, SameServicesContext DEF ServicesInv
  <1>9. items' = items /\ setIn' = setIn
    BY <1>7 DEF contextVars
  <1> QED
    BY <1>4, <1>6, <1>7, <1>8, <1>9, ServedStep

\* The snapshot of the scope.
LEMMA ServicesUseSnapshotStep ==
  ASSUME ServicesParameters, ServicesInv, NEW r \in Requests, UseSnapshot(r)
  PROVE  ServicesInv'
  <1>1. PICK t : t = Tenant(r)
    OBVIOUS
  <1>2. t \in Tenants \cup {NoTenantInfo} /\ IdOf(t) \in OptionsIds /\ (setIn[r] # 0 => t = items[r])
    BY <1>1, AccessorTenant
  <1>3. Served(scope[r], items[r], setIn[r], fresh[r], config) /\ fresh[r] \in BOOLEAN
        /\ config \in 0..MaxConfig
    BY DEF ServicesInv
  <1>4. PICK cache \in Caches : cache = scope[r].snapshot
    BY <1>3 DEF Served, Scopes
  <1>5. PICK after \in {Get(cache, t), Reset(cache, t)} :
          scope' = [scope EXCEPT ![r].snapshot = after]
    BY <1>1, <1>4 DEF UseSnapshot, ServicesInv
  <1>6. /\ after \in Caches
        /\ \A id \in OptionsIds :
             after[id] \in {cache[id], NotMade} \/ (after[id] = Made(t) /\ id = IdOf(t))
    BY <1>2, <1>3, PrivateCacheSteps
  <1>7. PICK s : s = [scope[r] EXCEPT !.snapshot = after]
    OBVIOUS
  <1>8. /\ s \in Scopes /\ s.snapshot = after /\ s.began = scope[r].began
        /\ s.dbContext = scope[r].dbContext
    BY <1>3, <1>6, <1>7 DEF Served, Scopes
  <1>9. Made(t).tenant = t /\ Made(t).config = config
    BY DEF Made
  <1>10. Served(s, items[r], setIn[r], fresh[r], config)
    BY <1>2, <1>3, <1>4, <1>6, <1>8, <1>9 DEF Served
  <1>11. /\ scope' = [scope EXCEPT ![r] = s] /\ fresh' = [fresh EXCEPT ![r] = fresh[r]]
         /\ config' = config /\ singleton' = singleton /\ UNCHANGED contextVars
    BY <1>5, <1>7 DEF UseSnapshot, ServicesInv
  <1>12. ServicesContextInv'
    BY <1>11, SameServicesContext DEF ServicesInv
  <1>13. items' = items /\ setIn' = setIn
    BY <1>11 DEF contextVars
  <1> QED
    BY <1>3, <1>10, <1>11, <1>12, <1>13, ServedStep

\* IOptions: no scope changes.
LEMMA ServicesUseOptionsStep ==
  ASSUME ServicesParameters, ServicesInv, NEW r \in Requests, UseOptions(r)
  PROVE  ServicesInv'
  <1>1. PICK t : t = Tenant(r)
    OBVIOUS
  <1>2. t \in Tenants \cup {NoTenantInfo} /\ IdOf(t) \in OptionsIds
    BY <1>1, AccessorTenant
  <1>3. singleton' \in {Get(singleton, t), Reset(singleton, t)}
    BY <1>1 DEF UseOptions
  <1>4. singleton' \in Caches
    BY <1>2, <1>3, PrivateCacheSteps DEF ServicesInv
  <1>5. /\ scope' = scope /\ fresh' = fresh /\ config' = config /\ UNCHANGED contextVars
        /\ items' = items /\ setIn' = setIn
    BY DEF UseOptions, contextVars
  <1>6. ServicesContextInv'
    BY <1>5, SameServicesContext DEF ServicesInv
  <1>7. singleton' \in Caches'
    BY <1>4 DEF Caches, Options
  <1> QED
    BY <1>5, <1>6, <1>7 DEF ServicesInv

\* A new configuration is younger than every scope.
LEMMA ServicesConfigureStep ==
  ASSUME ServicesParameters, ServicesInv, Configure PROVE ServicesInv'
  <1>1. /\ config' \in 0..MaxConfig /\ config' = config + 1 /\ config \in Nat
        /\ MaxConfig \in Nat
    BY DEF Configure, ServicesInv, ServicesParameters
  <1>2. /\ scope' = scope /\ fresh' = fresh /\ singleton' = singleton /\ UNCHANGED contextVars
        /\ items' = items /\ setIn' = setIn
    BY DEF Configure, contextVars
  <1>3. ServicesContextInv'
    BY <1>2, SameServicesContext DEF ServicesInv
  <1>4. ASSUME NEW q \in Requests
        PROVE  Served(scope[q], items[q], setIn[q], fresh[q], config')
    <2>1. Served(scope[q], items[q], setIn[q], fresh[q], config)
      BY DEF ServicesInv
    <2>2. scope[q].began <= config'
      <3>1. scope[q].began \in 0..MaxConfig /\ scope[q].began <= config
        BY <2>1 DEF Served, Scopes
      <3> QED
        BY <1>1, <3>1
    <2> QED
      BY <2>1, <2>2 DEF Served
  <1> QED
    BY <1>1, <1>2, <1>3, <1>4 DEF ServicesInv, Caches, Options

\* Scopes begin empty.
LEMMA ServicesInitInv == ServicesParameters /\ ServicesInit => ServicesInv
  <1> SUFFICES ASSUME ServicesParameters, ServicesInit PROVE ServicesInv
    OBVIOUS
  <1>1. InStep(Tenants \cup {NoTenantInfo}, NoTenantInfo, <<NoTenantInfo>>, 0)
    BY InStepNew DEF ServicesParameters
  <1>2. ServicesContextInv
    BY <1>1 DEF ServicesInit, ServicesContextInv
  <1>3. config \in 0..MaxConfig
    BY DEF ServicesInit, ServicesParameters
  <1>4. PICK s : s = NewScope
    OBVIOUS
  <1>5. Served(s, NoTenantInfo, 0, FALSE, config)
    BY <1>3, <1>4, NewScopeServed
  <1>6. singleton \in Caches
    BY DEF ServicesInit, NoOptions, Caches
  <1>7. scope = [r \in Requests |-> s]
    BY <1>4 DEF ServicesInit
  <1> QED
    BY <1>2, <1>3, <1>5, <1>6, <1>7 DEF ServicesInit, ServicesInv

\* Every step keeps the invariant.
LEMMA ServicesStep ==
  ServicesParameters /\ ServicesInv /\ [ServicesNext]_servicesVars => ServicesInv'
  <1>1. ASSUME ServicesParameters, ServicesInv, UNCHANGED servicesVars PROVE ServicesInv'
    <2>1. /\ scope' = scope /\ fresh' = fresh /\ config' = config /\ singleton' = singleton
          /\ items' = items /\ setIn' = setIn /\ flows' = flows
      BY <1>1 DEF servicesVars
    <2> QED
      BY <1>1, <2>1 DEF ServicesInv, ServicesContextInv, Caches, Options
  <1> QED
    BY <1>1, ServicesSendStep, ServicesNestStep, ServicesInvokeStep, ServicesOverrideStep,
       ServicesGetDbContextStep, ServicesUseSnapshotStep, ServicesUseOptionsStep,
       ServicesConfigureStep
    DEF ServicesNext

\* Type correctness of the services of requests, for any bound on the nesting of
\* methods and on how often options are configured anew.
THEOREM ServicesTypesAreRight ==
  ASSUME ServicesParameters PROVE ServicesSpec => []ServicesTypeOK
  <1>1. ServicesInv => ServicesTypeOK
    <2> SUFFICES ASSUME ServicesInv PROVE ServicesTypeOK
      OBVIOUS
    <2>1. ASSUME NEW r \in Requests
          PROVE  /\ items[r] \in Tenants \cup {NoTenantInfo}
                 /\ flows[r] \in Seq(Tenants \cup {NoTenantInfo})
                 /\ Len(flows[r]) \in 1..MaxFlows /\ setIn[r] \in 0..MaxFlows
                 /\ scope[r] \in Scopes
      <3>1. /\ InStep(Tenants \cup {NoTenantInfo}, items[r], flows[r], setIn[r])
            /\ scope[r] \in Scopes
        BY DEF ServicesInv, ServicesContextInv, Served
      <3>2. \A n \in 1..MaxFlows : \A i \in 0..n : i \in 0..MaxFlows
        BY DEF ServicesParameters
      <3> QED
        BY <3>1, <3>2 DEF InStep
    <2>2. Current!ContextTypeOK
      BY <2>1 DEF ServicesInv, ServicesContextInv, Current!ContextTypeOK, Current!KeyOrNull,
                  Current!Depth
    <2>3. scope \in [Requests -> Scopes]
      BY <2>1 DEF ServicesInv
    <2> QED
      BY <2>2, <2>3 DEF ServicesInv, ServicesTypeOK, Scopes
  <1> QED
    BY <1>1, ServicesInitInv, ServicesStep, PTL DEF ServicesSpec

\* ScopedServicesFollowResets: where the tenant was set together with a new scope,
\* the services hold nothing that was made for another object.
THEOREM ServicesFollowResets ==
  ASSUME ServicesParameters PROVE ServicesSpec => []ScopedServicesFollowResets
  <1>1. ServicesInv => ScopedServicesFollowResets
    BY AccessorTenant DEF ServicesInv, Served, ScopedServicesFollowResets
  <1> QED
    BY <1>1, ServicesInitInv, ServicesStep, PTL DEF ServicesSpec

\* SnapshotsAreOfTheScope: no snapshot outlives its scope or mixes tenants up.
THEOREM SnapshotsBelongToScopes ==
  ASSUME ServicesParameters PROVE ServicesSpec => []SnapshotsAreOfTheScope
  <1>1. ServicesInv => SnapshotsAreOfTheScope
    BY DEF ServicesInv, Served, SnapshotsAreOfTheScope
  <1> QED
    BY <1>1, ServicesInitInv, ServicesStep, PTL DEF ServicesSpec
=============================================================================
