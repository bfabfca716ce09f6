------------ MODULE MultiTenantAuthenticationSchemeProvider_proofs ------------
(***************************************************************************)
(* Theorems about MultiTenantAuthenticationSchemeProvider for any threads, *)
(* schemes and options.                                                    *)
(***************************************************************************)
EXTENDS MultiTenantAuthenticationSchemeProvider, SequenceTheorems, TLAPS

DictionaryTyped ==
  /\ schemes \in [Names -> Schemes \cup {Null}]
  /\ op \in [Threads -> Calls]
  /\ raced \in [Threads -> BOOLEAN]

\* Nobody has a provider that is under construction.
Construction ==
  /\ built \in 0..Len(Own)
  /\ built # Len(Own) => lock = Null /\ \A t \in Threads : op[t].step \in Ended

\* Who writes the dictionary holds the lock, and has found the name free.
WritersHoldLock ==
  \A t \in Threads : op[t].step \in {"store", "erase"} => lock = t

StoresWhatIsFree ==
  \A t \in Threads : op[t].step = "store" => schemes[op[t].name] = Null

\* A get that no write has overlapped still finds what ContainsKey found.
UnracedGetsKnow ==
  \A t \in Threads :
    op[t].step \in {"contains", "index"} /\ ~raced[t] =>
      /\ ~Writing
      /\ op[t].step = "index" => schemes[op[t].name] # Null

ProviderInv == DictionaryTyped /\ WritersHoldLock /\ StoresWhatIsFree /\ UnracedGetsKnow

LEMMA ProviderInit == Init => ProviderInv
  BY SchemesAssumption DEF Init, ProviderInv, DictionaryTyped, WritersHoldLock, StoresWhatIsFree,
     UnracedGetsKnow, Call, Calls, Ended, Names, Range

\* The name a default comes to is one of the schemes' or none.
LEMMA DefaultNameType ==
  ASSUME NEW options \in OptionsInUse, NEW purpose \in Purposes
  PROVE  DefaultName(options, purpose) \in Names \cup {Null}
  BY SchemesAssumption DEF DefaultName, Else, Purposes

\* The calls a thread can come to.
LEMMA CallTypes ==
  /\ \A step \in Ended, s \in Schemes \cup {Null} : Call(step, Null, s) \in Calls
  /\ \A step \in {"contains", "index", "remove", "erase"}, n \in Names : Call(step, n, Null) \in Calls
  /\ \A step \in {"add", "store"}, s \in Schemes : Call(step, s.name, s) \in Calls
  <1>1. \A step \in Ended, s \in Schemes \cup {Null} : Call(step, Null, s) \in Calls
    BY DEF Call, Calls
  <1>2. \A step \in {"contains", "index", "remove", "erase"}, n \in Names : Call(step, n, Null) \in Calls
    BY DEF Call, Calls
  <1>3. \A step \in {"add", "store"}, s \in Schemes : Call(step, s.name, s) \in Calls
    BY DEF Calls
  <1> QED
    BY <1>1, <1>2, <1>3

\* What the type of a call says of it.
LEMMA CallNames ==
  ASSUME NEW c \in Calls
  PROVE  /\ c.step \in {"contains", "index", "remove", "erase", "add", "store"} => c.name \in Names
         /\ c.step \in {"add", "store"} => c.scheme \in Schemes /\ c.name = c.scheme.name
  <1>1. CASE c \in [step : Ended, name : {Null}, scheme : Schemes \cup {Null}]
    BY <1>1 DEF Ended
  <1>2. CASE c \in [step : {"contains", "index", "remove", "erase"}, name : Names, scheme : {Null}]
    BY <1>2
  <1>3. CASE c \in {Call(step, s.name, s) : step \in {"add", "store"}, s \in Schemes}
    <2>1. PICK step \in {"add", "store"}, s \in Schemes : c = Call(step, s.name, s)
      BY <1>3
    <2>2. c.name = s.name /\ c.scheme = s
      BY <2>1 DEF Call
    <2> QED
      BY <2>2 DEF Names
  <1> QED
    BY <1>1, <1>2, <1>3 DEF Calls

\* Steps that leave the dictionary and the lock alone.
LEMMA QuietStep ==
  ASSUME ProviderInv, NEW t \in Threads, NEW c \in Calls,
         op' = [op EXCEPT ![t] = c], UNCHANGED <<schemes, lock, raced>>,
         op[t].step \notin {"store", "erase"}, c.step \notin {"store", "erase", "contains"},
         c.step = "index" => op[t].step = "contains" /\ (~raced[t] => schemes[c.name] # Null)
  PROVE  ProviderInv'
  <1>1. DictionaryTyped' /\ op'[t] = c
    BY DEF ProviderInv, DictionaryTyped
  <1>2. WritersHoldLock' /\ StoresWhatIsFree'
    BY <1>1 DEF ProviderInv, DictionaryTyped, WritersHoldLock, StoresWhatIsFree
  <1>3. Writing' => Writing
    BY <1>1 DEF ProviderInv, DictionaryTyped, Writing
  <1>4. ASSUME NEW u \in Threads, op'[u].step \in {"contains", "index"}, ~raced'[u]
        PROVE  ~Writing' /\ (op'[u].step = "index" => schemes'[op'[u].name] # Null)
    <2>1. CASE u = t
      BY <1>1, <1>3, <1>4, <2>1 DEF ProviderInv, UnracedGetsKnow
    <2>2. CASE u # t
      <3>1. op'[u] = op[u]
        BY <2>2 DEF ProviderInv, DictionaryTyped
      <3> QED
        BY <1>3, <1>4, <3>1 DEF ProviderInv, UnracedGetsKnow
    <2> QED
      BY <2>1, <2>2
  <1> QED
    BY <1>1, <1>2, <1>4 DEF ProviderInv, UnracedGetsKnow

\* Steps that begin a write.
LEMMA BeginsWrite ==
  ASSUME ProviderInv, NEW t \in Threads, NEW c \in Calls, lock = Null, lock' = t,
         op' = [op EXCEPT ![t] = c], schemes' = schemes, BeginWrite,
         c.step \in {"store", "erase"}, c.step = "store" => schemes[c.name] = Null
  PROVE  ProviderInv'
  <1>1. DictionaryTyped' /\ op'[t] = c
    BY DEF ProviderInv, DictionaryTyped, BeginWrite
  <1>2. \A u \in Threads : op[u].step \notin {"store", "erase"}
    BY SchemesAssumption DEF ProviderInv, WritersHoldLock
  <1>3. \A u \in Threads : u # t => op'[u] = op[u]
    BY DEF ProviderInv, DictionaryTyped
  <1>4. WritersHoldLock' /\ StoresWhatIsFree'
    BY <1>1, <1>2, <1>3 DEF WritersHoldLock, StoresWhatIsFree
  <1>5. \A u \in Threads : op'[u].step \in {"contains", "index"} => raced'[u]
    BY <1>1, <1>3 DEF BeginWrite
  <1> QED
    BY <1>1, <1>4, <1>5 DEF ProviderInv, UnracedGetsKnow

\* Steps that end a write.
LEMMA EndsWrite ==
  ASSUME ProviderInv, NEW t \in Threads, NEW c \in Calls, op[t].step \in {"store", "erase"},
         op' = [op EXCEPT ![t] = c], raced' = raced, c.step = "returned",
         schemes' \in [Names -> Schemes \cup {Null}]
  PROVE  ProviderInv'
  <1>1. DictionaryTyped' /\ op'[t] = c
    BY DEF ProviderInv, DictionaryTyped
  <1>2. \A u \in Threads : u # t => op'[u] = op[u]
    BY DEF ProviderInv, DictionaryTyped
  <1>3. \A u \in Threads : op'[u].step \notin {"store", "erase"}
    BY <1>1, <1>2 DEF ProviderInv, WritersHoldLock
  <1>4. Writing
    BY DEF Writing
  <1>5. \A u \in Threads : op'[u].step \in {"contains", "index"} => raced'[u]
    BY <1>1, <1>2, <1>4 DEF ProviderInv, UnracedGetsKnow
  <1> QED
    BY <1>1, <1>3, <1>5 DEF ProviderInv, WritersHoldLock, StoresWhatIsFree, UnracedGetsKnow

LEMMA ConstructionInvariant == Spec => []Construction
  <1>1. Init => Construction
    BY DEF Init, Construction, Call, Ended
  <1>2. Construction /\ [Next]_vars => Construction'
    BY DEF Construction, Next, Construct, vars
  <1> QED
    BY <1>1, <1>2, PTL DEF Spec

LEMMA ProviderStep == ProviderInv /\ Construction /\ [Next]_vars => ProviderInv'
  <1> SUFFICES ASSUME ProviderInv, Construction, [Next]_vars PROVE ProviderInv'
    OBVIOUS
  <1>1. ASSUME NEW t \in Threads, NEW name \in Names, GetScheme(t, name) PROVE ProviderInv'
    <2>1. CASE \E s \in Inner : s.name = name
      <3>1. PICK s \in Schemes \cup {Null} : op' = [op EXCEPT ![t] = Call("returned", Null, s)]
        BY <1>1, <2>1, SchemesAssumption DEF GetScheme, Answer, Goto
      <3>2. /\ schemes' = schemes /\ lock' = lock
            /\ raced' = [raced EXCEPT ![t] = Writing] /\ op[t].step \in Ended
        BY <1>1 DEF GetScheme, Ready
      <3>3. op'[t].step = "returned" /\ op'[t] \in Calls /\ \A u \in Threads : u # t => op'[u] = op[u]
        BY <3>1, CallTypes DEF Call, Ended, ProviderInv, DictionaryTyped
      <3>4. Writing' <=> Writing
        BY <3>2, <3>3 DEF Writing, Ended
      <3>5. Writing \in BOOLEAN
        BY DEF Writing
      <3>6. DictionaryTyped'
        BY <3>1, <3>2, <3>3, <3>5 DEF ProviderInv, DictionaryTyped
      <3>7. UnracedGetsKnow'
        BY <3>2, <3>3, <3>4 DEF ProviderInv, DictionaryTyped, UnracedGetsKnow
      <3> QED
        BY <3>2, <3>3, <3>6, <3>7 DEF ProviderInv, WritersHoldLock, StoresWhatIsFree
    <2>2. CASE \A s \in Inner : s.name # name
      <3>1. /\ op' = [op EXCEPT ![t] = Call("contains", name, Null)]
            /\ schemes' = schemes /\ lock' = lock
            /\ raced' = [raced EXCEPT ![t] = Writing] /\ op[t].step \in Ended
        BY <1>1, <2>2 DEF GetScheme, Ready, Goto
      <3>2. op'[t].step = "contains" /\ op'[t] \in Calls /\ \A u \in Threads : u # t => op'[u] = op[u]
        BY <3>1, CallTypes DEF Call, ProviderInv, DictionaryTyped
      <3>3. Writing' <=> Writing
        BY <3>1, <3>2 DEF Writing, Ended
      <3>4. Writing \in BOOLEAN
        BY DEF Writing
      <3>5. DictionaryTyped'
        BY <3>1, <3>2, <3>4 DEF ProviderInv, DictionaryTyped
      <3>6. UnracedGetsKnow'
        BY <3>1, <3>2, <3>3 DEF ProviderInv, DictionaryTyped, UnracedGetsKnow
      <3> QED
        BY <3>1, <3>2, <3>5, <3>6 DEF ProviderInv, WritersHoldLock, StoresWhatIsFree
    <2> QED
      BY <2>1, <2>2
  <1>2. ASSUME NEW t \in Threads, NEW name \in Names, RemoveScheme(t, name) PROVE ProviderInv'
    <2>1. PICK c \in {Call("returned", Null, Null), Call("threw", Null, Null), Call("remove", name, Null)} :
            op' = [op EXCEPT ![t] = c]
      BY <1>2 DEF RemoveScheme, Leave, Goto
    <2>2. c \in Calls /\ c.step \in {"returned", "threw", "remove"}
      BY <2>1, CallTypes DEF Call, Ended
    <2> QED
      BY <1>2, <2>1, <2>2, QuietStep DEF RemoveScheme, Ready, Unchanged, Ended
  <1>3. ASSUME NEW t \in Threads, NEW options \in OptionsInUse, NEW purpose \in Purposes,
               GetDefaultScheme(t, options, purpose)
        PROVE  ProviderInv'
    <2>1. CASE DefaultName(options, purpose) # Null
      <3>1. DefaultName(options, purpose) \in Names
        BY <2>1, DefaultNameType
      <3> QED
        BY <1>1, <1>3, <2>1, <3>1 DEF GetDefaultScheme
    <2>2. CASE DefaultName(options, purpose) = Null
      <3>1. Call("returned", Null, Null) \in Calls /\ Call("returned", Null, Null).step = "returned"
        BY CallTypes DEF Call, Ended
      <3> QED
        BY <1>3, <2>2, <3>1, QuietStep DEF GetDefaultScheme, Ready, Answer, Goto, Unchanged, Ended
    <2> QED
      BY <2>1, <2>2
  <1>4. ASSUME NEW t \in Threads, NEW s \in Schemes, AddScheme(t, s) PROVE ProviderInv'
    <2>1. PICK c \in {Call("threw", Null, Null), Call("add", s.name, s)} : op' = [op EXCEPT ![t] = c]
      BY <1>4 DEF AddScheme, Leave, Goto
    <2>2. c \in Calls /\ c.step \in {"threw", "add"}
      BY <2>1, CallTypes DEF Call, Ended
    <2> QED
      BY <1>4, <2>1, <2>2, QuietStep DEF AddScheme, Ready, Unchanged, Ended
  <1>5. ASSUME NEW t \in Threads, ContainsKey(t) PROVE ProviderInv'
    <2>1. op[t] \in Calls /\ op[t].step = "contains" /\ op[t].name \in Names
      BY <1>5, CallNames DEF ContainsKey, At, ProviderInv, DictionaryTyped
    <2>2. PICK found \in MayFind(op[t].name) :
            op' = [op EXCEPT ![t] = IF found = Null THEN Call("returned", Null, Null)
                                                    ELSE Call("index", op[t].name, Null)]
      BY <1>5 DEF ContainsKey, Answer, Goto
    <2>3. CASE found = Null
      <3>1. Call("returned", Null, Null) \in Calls /\ Call("returned", Null, Null).step = "returned"
        BY CallTypes DEF Call, Ended
      <3> QED
        BY <1>5, <2>1, <2>2, <2>3, <3>1, QuietStep DEF ContainsKey, Unchanged
    <2>4. CASE found # Null
      <3>1. PICK c \in Calls : c = Call("index", op[t].name, Null)
        BY <2>1, CallTypes
      <3>2. c.step = "index" /\ c.name = op[t].name
        BY <3>1 DEF Call
      <3>3. schemes[c.name] # Null
        BY <2>2, <2>4, <3>2 DEF MayFind
      <3> QED
        BY <1>5, <2>1, <2>2, <2>4, <3>1, <3>2, <3>3, QuietStep DEF ContainsKey, Unchanged
    <2> QED
      BY <2>3, <2>4
  <1>6. ASSUME NEW t \in Threads, Indexer(t) \/ NoticeWrite(t) PROVE ProviderInv'
    <2>1. op[t].step \in {"contains", "index"} /\ UNCHANGED <<schemes, lock, raced>>
      BY <1>6 DEF Indexer, NoticeWrite, At, Unchanged
    <2>2. \A n \in Names : MayFind(n) \subseteq Schemes \cup {Null}
      BY DEF MayFind, ProviderInv, DictionaryTyped
    <2>3. op[t].name \in Names
      BY <2>1, CallNames DEF ProviderInv, DictionaryTyped
    <2>4. PICK step \in Ended, s \in Schemes \cup {Null} : op' = [op EXCEPT ![t] = Call(step, Null, s)]
      BY <1>6, <2>2, <2>3 DEF Indexer, NoticeWrite, Leave, Answer, Goto, Ended
    <2>5. Call(step, Null, s) \in Calls /\ Call(step, Null, s).step \in Ended
      BY <2>4, CallTypes DEF Call
    <2> QED
      BY <2>1, <2>4, <2>5, QuietStep DEF Ended
  <1>7. ASSUME NEW t \in Threads, LockAndAdd(t) PROVE ProviderInv'
    <2>1. op[t] \in Calls /\ op[t].step = "add" /\ op[t].scheme \in Schemes
          /\ op[t].name = op[t].scheme.name
      BY <1>7, CallNames DEF LockAndAdd, At, ProviderInv, DictionaryTyped
    <2>2. CASE schemes[op[t].name] # Null
      <3>1. Call("threw", Null, Null) \in Calls /\ Call("threw", Null, Null).step = "threw"
        BY CallTypes DEF Call, Ended
      <3> QED
        BY <1>7, <2>1, <2>2, <3>1, QuietStep DEF LockAndAdd, Leave, Goto, Unchanged
    <2>3. CASE schemes[op[t].name] = Null
      <3>1. PICK c \in Calls : c = Call("store", op[t].name, op[t].scheme)
        BY <2>1, CallTypes
      <3>2. c.step = "store" /\ c.name = op[t].name
        BY <3>1 DEF Call
      <3> QED
        BY <1>7, <2>3, <3>1, <3>2, BeginsWrite DEF LockAndAdd, Goto
    <2> QED
      BY <2>2, <2>3
  <1>8. ASSUME NEW t \in Threads, Store(t) PROVE ProviderInv'
    <2>1. op[t] \in Calls /\ op[t].step = "store" /\ op[t].scheme \in Schemes
      BY <1>8, CallNames DEF Store, At, ProviderInv, DictionaryTyped
    <2>2. Call("returned", Null, Null) \in Calls /\ Call("returned", Null, Null).step = "returned"
      BY CallTypes DEF Call, Ended
    <2>3. schemes' \in [Names -> Schemes \cup {Null}]
      BY <1>8, <2>1 DEF Store, ProviderInv, DictionaryTyped
    <2> QED
      BY <1>8, <2>1, <2>2, <2>3, EndsWrite DEF Store, Leave, Goto
  <1>9. ASSUME NEW t \in Threads, LockAndRemove(t) PROVE ProviderInv'
    <2>1. op[t] \in Calls /\ op[t].step = "remove" /\ op[t].name \in Names
      BY <1>9, CallNames DEF LockAndRemove, At, ProviderInv, DictionaryTyped
    <2>2. CASE schemes[op[t].name] = Null
      <3>1. Call("returned", Null, Null) \in Calls /\ Call("returned", Null, Null).step = "returned"
        BY CallTypes DEF Call, Ended
      <3> QED
        BY <1>9, <2>1, <2>2, <3>1, QuietStep DEF LockAndRemove, Leave, Goto, Unchanged
    <2>3. CASE schemes[op[t].name] # Null
      <3>1. PICK c \in Calls : c = Call("erase", op[t].name, Null)
        BY <2>1, CallTypes
      <3>2. c.step = "erase"
        BY <3>1 DEF Call
      <3> QED
        BY <1>9, <2>3, <3>1, <3>2, BeginsWrite DEF LockAndRemove, Goto
    <2> QED
      BY <2>2, <2>3
  <1>10. ASSUME NEW t \in Threads, Erase(t) PROVE ProviderInv'
    <2>1. Call("returned", Null, Null) \in Calls /\ Call("returned", Null, Null).step = "returned"
      BY CallTypes DEF Call, Ended
    <2>2. schemes' \in [Names -> Schemes \cup {Null}]
      BY <1>10 DEF Erase, ProviderInv, DictionaryTyped
    <2> QED
      BY <1>10, <2>1, <2>2, EndsWrite DEF Erase, At, Leave, Goto
  <1>11. CASE Construct
    <2>1. Own[built + 1] \in Schemes /\ \A t \in Threads : op[t].step \in Ended
      BY <1>11, SchemesAssumption DEF Construct, Construction
    <2>2. DictionaryTyped'
      BY <1>11, <2>1 DEF Construct, ProviderInv, DictionaryTyped
    <2> QED
      BY <1>11, <2>1, <2>2 DEF Construct, Ended, ProviderInv, WritersHoldLock, StoresWhatIsFree,
         UnracedGetsKnow
  <1>12. CASE UNCHANGED vars
    BY <1>12 DEF vars, Writing, ProviderInv, DictionaryTyped, WritersHoldLock, StoresWhatIsFree,
       UnracedGetsKnow
  <1> QED
    BY <1>1, <1>2, <1>3, <1>4, <1>5, <1>6, <1>7, <1>8, <1>9, <1>10, <1>11, <1>12 DEF Next, Step

LEMMA ProviderInvariant == Spec => []ProviderInv
  BY ProviderInit, ProviderStep, ConstructionInvariant, PTL DEF Spec
-----------------------------------------------------------------------------
\* The schemes whose write is under way: in the list already or no more in it,
\* while the dictionary does not have them yet or still.
Storing(s) == \E t \in Threads : op[t].step = "store" /\ op[t].scheme = s
Erasing(s) == \E t \in Threads : op[t].step = "erase" /\ op[t].name = s.name

\* HandlersMatch whoever holds the lock.
ListFollows ==
  \A s \in Schemes :
    s \in Range(handlers) <=> s.handles /\ (Storing(s) \/ (schemes[s.name] = s /\ ~Erasing(s)))

SchemesNamed == \A n \in Names : schemes[n] # Null => schemes[n].name = n

HandlersInv ==
  /\ handlers \in Seq(Schemes)
  /\ lock \in Threads \cup {Null}
  /\ SchemesNamed
  /\ IsInjective(handlers)
  /\ ListFollows

\* Adding what is not in a list keeps each element once.
LEMMA AppendedOnce ==
  ASSUME NEW S, NEW h \in Seq(S), NEW x \in S, x \notin Range(h), IsInjective(h)
  PROVE  Append(h, x) \in Seq(S) /\ IsInjective(Append(h, x)) /\ Range(Append(h, x)) = Range(h) \cup {x}
  <1>1. /\ DOMAIN h = 1..Len(h) /\ DOMAIN Append(h, x) = 1..(Len(h) + 1)
        /\ \A i \in 1..Len(h) : Append(h, x)[i] = h[i]
        /\ Append(h, x)[Len(h) + 1] = x /\ Len(h) \in Nat
    OBVIOUS
  <1>2. Range(Append(h, x)) = Range(h) \cup {x}
    <2>1. \A i \in 1..(Len(h) + 1) : i = Len(h) + 1 \/ i \in 1..Len(h)
      BY <1>1
    <2> QED
      BY <1>1, <2>1 DEF Range
  <1>3. \A i \in DOMAIN h : h[i] # x
    BY DEF Range
  <1> QED
    BY <1>1, <1>2, <1>3 DEF IsInjective

\* List.Remove takes the one occurrence out.
LEMMA RemovedOnce ==
  ASSUME NEW S, NEW h \in Seq(S), NEW x, IsInjective(h)
  PROVE  /\ RemoveFirst(h, x) \in Seq(S) /\ IsInjective(RemoveFirst(h, x))
         /\ Range(RemoveFirst(h, x)) = Range(h) \ {x}
  <1>0. DOMAIN h = 1..Len(h) /\ Len(h) \in Nat /\ \A i \in 1..Len(h) : h[i] \in S
    OBVIOUS
  <1>1. CASE \A i \in 1..Len(h) : h[i] # x
    <2>1. RemoveFirst(h, x) = h /\ x \notin Range(h)
      BY <1>0, <1>1 DEF RemoveFirst, Range
    <2> QED
      BY <2>1
  <1>2. ASSUME NEW k \in 1..Len(h), h[k] = x
        PROVE  /\ RemoveFirst(h, x) \in Seq(S) /\ IsInjective(RemoveFirst(h, x))
               /\ Range(RemoveFirst(h, x)) = Range(h) \ {x}
    <2> DEFINE before == SubSeq(h, 1, k - 1)
               after == SubSeq(h, k + 1, Len(h))
               rest == [i \in 1..(Len(h) - 1) |-> IF i < k THEN h[i] ELSE h[i + 1]]
    <2>1. {i \in 1..Len(h) : h[i] = x} = {k}
      BY <1>0, <1>2 DEF IsInjective
    <2>2. Min({k}) = k
      BY DEF Min
    <2>3. SelectInSeq(h, LAMBDA v : v = x) = k
      BY <2>1, <2>2 DEF SelectInSeq
    <2>4. RemoveFirst(h, x) = before \o after
      BY <1>2, <2>3 DEF RemoveFirst, RemoveAt
    <2>5. before \in Seq(S) /\ Len(before) = k - 1 /\ \A i \in 1..(k - 1) : before[i] = h[i]
      BY <1>0, SubSeqProperties
    <2>6. after \in Seq(S) /\ Len(after) = Len(h) - k /\ \A i \in 1..(Len(h) - k) : after[i] = h[k + i]
      <3>1. k + 1 \in 1..(Len(h) + 1) /\ Len(h) \in (k + 1) - 1..Len(h)
        BY <1>0
      <3>2. /\ after \in Seq(S)
            /\ Len(after) = IF k + 1 <= Len(h) THEN Len(h) - (k + 1) + 1 ELSE 0
            /\ \A i \in 1..Len(h) - (k + 1) + 1 : after[i] = h[(k + 1) + i - 1]
        BY ONLY <3>1, SubSeqProperties
      <3> HIDE DEF after
      <3>3. Len(h) - (k + 1) + 1 = Len(h) - k /\ \A i \in 1..(Len(h) - k) : (k + 1) + i - 1 = k + i
        BY <1>0
      <3>4. \A n \in Nat : k \in 1..n /\ ~(k + 1 <= n) => n - k = 0
        BY ONLY k \in Nat
      <3> QED
        BY <1>0, <3>2, <3>3, <3>4
    <2>7. /\ before \o after \in Seq(S) /\ Len(before \o after) = Len(h) - 1
          /\ \A i \in 1..(Len(h) - 1) : (before \o after)[i] = rest[i]
      <3> HIDE DEF before, after
      <3>1. /\ before \o after \in Seq(S) /\ Len(before \o after) = Len(before) + Len(after)
            /\ \A i \in 1..(Len(before) + Len(after)) :
                 (before \o after)[i] = IF i <= Len(before) THEN before[i] ELSE after[i - Len(before)]
        BY <2>5, <2>6, ConcatProperties
      <3>2. Len(before) + Len(after) = Len(h) - 1
        BY <1>0, <2>5, <2>6
      <3>3. ASSUME NEW i \in 1..(Len(h) - 1) PROVE (before \o after)[i] = rest[i]
        <4>1. CASE i < k
          BY <1>0, <2>5, <2>6, <3>1, <3>2, <4>1
        <4>2. CASE ~(i < k)
          <5>1. /\ i - (k - 1) \in 1..(Len(h) - k) /\ k + (i - (k - 1)) = i + 1
                /\ i \in 1..(Len(before) + Len(after)) /\ ~(i <= Len(before))
            BY <1>0, <2>5, <3>2, <4>2
          <5>2. (before \o after)[i] = after[i - (k - 1)]
            BY <2>5, <3>1, <5>1
          <5>3. after[i - (k - 1)] = h[i + 1]
            BY <2>6, <5>1
          <5> QED
            BY <4>2, <5>2, <5>3
        <4> QED
          BY <4>1, <4>2
      <3> QED
        BY <3>1, <3>2, <3>3
    <2> DEFINE r == before \o after
    <2>8. r \in Seq(S) /\ DOMAIN r = 1..(Len(h) - 1) /\ \A i \in DOMAIN r : r[i] = rest[i]
      <3> HIDE DEF before, after, rest
      <3> QED
        BY <1>0, <2>7, LenProperties
    <2> HIDE DEF r
    <2>9. IsInjective(r)
      <3>1. \A i \in 1..(Len(h) - 1) : IF i < k THEN i \in 1..Len(h) /\ i # k ELSE i + 1 \in 1..Len(h) /\ i + 1 # k
        BY <1>0
      <3> QED
        BY <1>0, <2>8, <3>1 DEF IsInjective
    <2>10. Range(r) = Range(h) \ {x}
      <3>1. ASSUME NEW i \in DOMAIN r PROVE r[i] \in Range(h) \ {x}
        <4>1. \E j \in 1..Len(h) : j # k /\ r[i] = h[j]
          BY <1>0, <2>8, <3>1
        <4> QED
          BY <1>0, <1>2, <4>1 DEF IsInjective, Range
      <3>2. ASSUME NEW j \in 1..Len(h), h[j] # x PROVE \E i \in DOMAIN r : r[i] = h[j]
        <4>1. CASE j < k
          BY <1>0, <2>8, <4>1
        <4>2. CASE j > k
          <5>1. j - 1 \in DOMAIN r /\ ~(j - 1 < k) /\ (j - 1) + 1 = j
            BY <1>0, <2>8, <4>2
          <5> QED
            BY <2>8, <5>1
        <4> QED
          BY <1>2, <3>2, <4>1, <4>2
      <3> QED
        BY <1>0, <3>1, <3>2 DEF Range
    <2> QED
      BY <2>4, <2>8, <2>9, <2>10 DEF r
  <1> QED
    BY <1>1, <1>2

LEMMA HandlersInit == Init => HandlersInv
  <1> SUFFICES ASSUME Init PROVE HandlersInv
    OBVIOUS
  <1>1. handlers \in Seq(Schemes) /\ IsInjective(handlers) /\ Range(handlers) = {}
    BY DEF Init, IsInjective, Range
  <1>2. \A s \in Schemes : ~Storing(s) /\ schemes[s.name] # s
    BY SchemesAssumption DEF Init, Storing, Call, Names
  <1> QED
    BY <1>1, <1>2 DEF Init, HandlersInv, SchemesNamed, ListFollows

\* Steps of a thread that neither takes nor gives back the lock.
LEMMA QuietList ==
  ASSUME ProviderInv, HandlersInv, NEW t \in Threads, NEW c, op' = [op EXCEPT ![t] = c],
         UNCHANGED <<schemes, handlers, lock>>,
         op[t].step \notin {"store", "erase"}, c.step \notin {"store", "erase"}
  PROVE  HandlersInv'
  <1>1. op'[t] = c /\ \A u \in Threads : u # t => op'[u] = op[u]
    BY DEF ProviderInv, DictionaryTyped
  <1>2. \A s \in Schemes : (Storing(s)' <=> Storing(s)) /\ (Erasing(s)' <=> Erasing(s))
    BY <1>1 DEF Storing, Erasing
  <1> QED
    BY <1>2 DEF HandlersInv, SchemesNamed, ListFollows

\* Nobody writes while the lock is free, and nobody but its holder otherwise.
LEMMA FreeList ==
  ASSUME ProviderInv, HandlersInv, lock = Null, NEW s \in Schemes
  PROVE  /\ ~Storing(s) /\ ~Erasing(s)
         /\ s \in Range(handlers) <=> s.handles /\ schemes[s.name] = s
  <1>1. ~Storing(s) /\ ~Erasing(s)
    BY SchemesAssumption DEF ProviderInv, WritersHoldLock, Storing, Erasing
  <1> QED
    BY <1>1 DEF HandlersInv, ListFollows

LEMMA LockAndAddList ==
  ASSUME ProviderInv, HandlersInv, NEW t \in Threads, LockAndAdd(t), schemes[op[t].name] = Null
  PROVE  HandlersInv'
  <1>1. PICK x \in Schemes : op[t].scheme = x /\ op[t].name = x.name
    BY CallNames DEF LockAndAdd, At, ProviderInv, DictionaryTyped
  <1>2. /\ op' = [op EXCEPT ![t] = Call("store", x.name, x)] /\ lock = Null /\ lock' = t
        /\ handlers' = IF x.handles THEN Append(handlers, x) ELSE handlers
        /\ schemes' = schemes
    BY <1>1 DEF LockAndAdd, Goto, Leave
  <1>3. /\ op'[t].step = "store" /\ op'[t].scheme = x
        /\ \A u \in Threads : u # t => op'[u] = op[u]
    BY <1>2 DEF Call, ProviderInv, DictionaryTyped
  <1>4. \A s \in Schemes : ~Storing(s) /\ ~Erasing(s)
    BY <1>2, FreeList
  <1>5. \A s \in Schemes : (Storing(s)' <=> s = x) /\ ~Erasing(s)'
    BY <1>3, <1>4 DEF Storing, Erasing
  <1>6. x \notin Range(handlers)
    BY <1>1, <1>2, FreeList, SchemesAssumption
  <1>7. /\ handlers' \in Seq(Schemes) /\ IsInjective(handlers')
        /\ Range(handlers') = IF x.handles THEN Range(handlers) \cup {x} ELSE Range(handlers)
    <2>1. handlers \in Seq(Schemes) /\ IsInjective(handlers)
      BY DEF HandlersInv
    <2>2. /\ Append(handlers, x) \in Seq(Schemes) /\ IsInjective(Append(handlers, x))
          /\ Range(Append(handlers, x)) = Range(handlers) \cup {x}
      BY <1>6, <2>1, AppendedOnce
    <2> QED
      BY <1>2, <2>1, <2>2
  <1>8. ASSUME NEW s \in Schemes
        PROVE  s \in Range(handlers') <=> s.handles /\ (s = x \/ schemes'[s.name] = s)
    BY <1>2, <1>7, <1>8, FreeList
  <1>9. ListFollows'
    BY <1>5, <1>8 DEF ListFollows
  <1> QED
    BY <1>2, <1>7, <1>9 DEF HandlersInv, SchemesNamed

LEMMA LockAndRemoveList ==
  ASSUME ProviderInv, HandlersInv, NEW t \in Threads, LockAndRemove(t), schemes[op[t].name] # Null
  PROVE  HandlersInv'
  <1>1. PICK n \in Names : op[t].name = n
    BY CallNames DEF LockAndRemove, At, ProviderInv, DictionaryTyped
  <1>2. PICK x \in Schemes : schemes[n] = x /\ x.name = n
    BY <1>1 DEF ProviderInv, DictionaryTyped, HandlersInv, SchemesNamed
  <1>3. /\ op' = [op EXCEPT ![t] = Call("erase", n, Null)] /\ lock = Null /\ lock' = t
        /\ handlers' = RemoveFirst(handlers, x) /\ schemes' = schemes
    BY <1>1, <1>2 DEF LockAndRemove, Goto, Leave
  <1>4. /\ op'[t].step = "erase" /\ op'[t].name = n
        /\ \A u \in Threads : u # t => op'[u] = op[u]
    BY <1>3 DEF Call, ProviderInv, DictionaryTyped
  <1>5. \A s \in Schemes : ~Storing(s) /\ ~Erasing(s)
    BY <1>3, FreeList
  <1>6. \A s \in Schemes : ~Storing(s)' /\ (Erasing(s)' <=> s.name = n)
    BY <1>4, <1>5 DEF Storing, Erasing
  <1>7. /\ handlers' \in Seq(Schemes) /\ IsInjective(handlers')
        /\ Range(handlers') = Range(handlers) \ {x}
    BY <1>3, RemovedOnce DEF HandlersInv
  <1>8. ASSUME NEW s \in Schemes
        PROVE  s \in Range(handlers') <=> s.handles /\ schemes'[s.name] = s /\ s.name # n
    BY <1>2, <1>3, <1>7, <1>8, FreeList
  <1>9. ListFollows'
    BY <1>6, <1>8 DEF ListFollows
  <1> QED
    BY <1>3, <1>7, <1>9 DEF HandlersInv, SchemesNamed

LEMMA StoreList ==
  ASSUME ProviderInv, HandlersInv, NEW t \in Threads, Store(t)
  PROVE  HandlersInv'
  <1>1. PICK x \in Schemes : op[t].scheme = x /\ op[t].name = x.name
    BY CallNames DEF Store, At, ProviderInv, DictionaryTyped
  <1>2. /\ op' = [op EXCEPT ![t] = Call("returned", Null, Null)] /\ lock' = Null
        /\ schemes' = [schemes EXCEPT ![x.name] = x] /\ handlers' = handlers
        /\ op[t].step = "store" /\ schemes[x.name] = Null
    BY <1>1 DEF Store, At, Leave, Goto, ProviderInv, StoresWhatIsFree
  <1>3. /\ op'[t].step = "returned"
        /\ \A u \in Threads : u # t => op'[u] = op[u] /\ op[u].step \notin {"store", "erase"}
    BY <1>2 DEF Call, ProviderInv, DictionaryTyped, WritersHoldLock
  <1>4. \A s \in Schemes : (Storing(s) <=> s = x) /\ ~Erasing(s) /\ ~Storing(s)' /\ ~Erasing(s)'
    BY <1>1, <1>2, <1>3 DEF Storing, Erasing
  <1>5. /\ schemes'[x.name] = x /\ \A n \in Names : n # x.name => schemes'[n] = schemes[n]
        /\ \A s \in Schemes : s.name \in Names
    BY <1>2 DEF ProviderInv, DictionaryTyped, Names
  <1>6. SchemesNamed'
    BY <1>5 DEF HandlersInv, SchemesNamed
  <1>7. ASSUME NEW s \in Schemes
        PROVE  s \in Range(handlers') <=> s.handles /\ schemes'[s.name] = s
    <2>1. s \in Range(handlers) <=> s.handles /\ (s = x \/ schemes[s.name] = s)
      BY <1>4 DEF HandlersInv, ListFollows
    <2> QED
      BY <1>2, <1>5, <2>1, SchemesAssumption
  <1>8. ListFollows'
    BY <1>4, <1>7 DEF ListFollows
  <1> QED
    BY <1>2, <1>6, <1>8 DEF HandlersInv

LEMMA EraseList ==
  ASSUME ProviderInv, HandlersInv, NEW t \in Threads, Erase(t)
  PROVE  HandlersInv'
  <1>1. PICK n \in Names : op[t].name = n
    BY CallNames DEF Erase, At, ProviderInv, DictionaryTyped
  <1>2. /\ op' = [op EXCEPT ![t] = Call("returned", Null, Null)] /\ lock' = Null
        /\ schemes' = [schemes EXCEPT ![n] = Null] /\ handlers' = handlers
        /\ op[t].step = "erase"
    BY <1>1 DEF Erase, At, Leave, Goto
  <1>3. /\ op'[t].step = "returned"
        /\ \A u \in Threads : u # t => op'[u] = op[u] /\ op[u].step \notin {"store", "erase"}
    BY <1>2 DEF Call, ProviderInv, DictionaryTyped, WritersHoldLock
  <1>4. \A s \in Schemes : ~Storing(s) /\ (Erasing(s) <=> s.name = n) /\ ~Storing(s)' /\ ~Erasing(s)'
    BY <1>1, <1>2, <1>3 DEF Storing, Erasing
  <1>5. /\ schemes'[n] = Null /\ \A m \in Names : m # n => schemes'[m] = schemes[m]
        /\ \A s \in Schemes : s.name \in Names
    BY <1>2 DEF ProviderInv, DictionaryTyped, Names
  <1>6. SchemesNamed'
    BY <1>5 DEF HandlersInv, SchemesNamed
  <1>7. ASSUME NEW s \in Schemes
        PROVE  s \in Range(handlers') <=> s.handles /\ schemes'[s.name] = s
    <2>1. s \in Range(handlers) <=> s.handles /\ schemes[s.name] = s /\ s.name # n
      BY <1>4 DEF HandlersInv, ListFollows
    <2> QED
      BY <1>2, <1>5, <2>1, SchemesAssumption
  <1>8. ListFollows'
    BY <1>4, <1>7 DEF ListFollows
  <1> QED
    BY <1>2, <1>6, <1>8 DEF HandlersInv

LEMMA ConstructList ==
  ASSUME ProviderInv, Construction, HandlersInv, Construct
  PROVE  HandlersInv'
  <1>1. PICK x \in Schemes : Own[built + 1] = x
    BY SchemesAssumption DEF Construct, Construction
  <1>2. /\ op' = op /\ lock = Null /\ lock' = Null /\ schemes[x.name] = Null
        /\ handlers' = IF x.handles THEN Append(handlers, x) ELSE handlers
        /\ schemes' = [schemes EXCEPT ![x.name] = x]
    BY <1>1 DEF Construct, Construction
  <1>3. \A s \in Schemes : ~Storing(s)' /\ ~Erasing(s)'
    BY <1>2, FreeList DEF Storing, Erasing
  <1>4. /\ schemes'[x.name] = x /\ \A n \in Names : n # x.name => schemes'[n] = schemes[n]
        /\ \A s \in Schemes : s.name \in Names
    BY <1>2 DEF ProviderInv, DictionaryTyped, Names
  <1>5. x \notin Range(handlers)
    BY <1>2, FreeList, SchemesAssumption
  <1>6. /\ handlers' \in Seq(Schemes) /\ IsInjective(handlers')
        /\ Range(handlers') = IF x.handles THEN Range(handlers) \cup {x} ELSE Range(handlers)
    <2>1. handlers \in Seq(Schemes) /\ IsInjective(handlers)
      BY DEF HandlersInv
    <2>2. /\ Append(handlers, x) \in Seq(Schemes) /\ IsInjective(Append(handlers, x))
          /\ Range(Append(handlers, x)) = Range(handlers) \cup {x}
      BY <1>5, <2>1, AppendedOnce
    <2> QED
      BY <1>2, <2>1, <2>2
  <1>7. ASSUME NEW s \in Schemes
        PROVE  s \in Range(handlers') <=> s.handles /\ schemes'[s.name] = s
    <2>1. s \in Range(handlers) <=> s.handles /\ schemes[s.name] = s
      BY <1>2, FreeList
    <2> QED
      BY <1>2, <1>4, <1>6, <2>1, SchemesAssumption
  <1>8. SchemesNamed'
    BY <1>4 DEF HandlersInv, SchemesNamed
  <1>9. ListFollows'
    BY <1>3, <1>7 DEF ListFollows
  <1> QED
    BY <1>2, <1>6, <1>8, <1>9 DEF HandlersInv

LEMMA HandlersStep == ProviderInv /\ Construction /\ HandlersInv /\ [Next]_vars => HandlersInv'
  <1> SUFFICES ASSUME ProviderInv, Construction, HandlersInv, [Next]_vars PROVE HandlersInv'
    OBVIOUS
  <1>1. CASE Construct
    BY <1>1, ConstructList
  <1>2. ASSUME NEW t \in Threads, Store(t) \/ Erase(t) PROVE HandlersInv'
    BY <1>2, StoreList, EraseList
  <1>3. ASSUME NEW t \in Threads, LockAndAdd(t) PROVE HandlersInv'
    <2>1. CASE schemes[op[t].name] = Null
      BY <1>3, <2>1, LockAndAddList
    <2>2. CASE schemes[op[t].name] # Null
      BY <1>3, <2>2, QuietList DEF LockAndAdd, At, Leave, Goto, Unchanged, Call
    <2> QED
      BY <2>1, <2>2
  <1>4. ASSUME NEW t \in Threads, LockAndRemove(t) PROVE HandlersInv'
    <2>1. CASE schemes[op[t].name] = Null
      BY <1>4, <2>1, QuietList DEF LockAndRemove, At, Leave, Goto, Unchanged, Call
    <2>2. CASE schemes[op[t].name] # Null
      BY <1>4, <2>2, LockAndRemoveList
    <2> QED
      BY <2>1, <2>2
  <1>5. ASSUME NEW t \in Threads, ContainsKey(t) \/ Indexer(t) \/ NoticeWrite(t) PROVE HandlersInv'
    <2>1. /\ op[t].step \in {"contains", "index"} /\ UNCHANGED <<schemes, handlers, lock>>
          /\ \E c : op' = [op EXCEPT ![t] = c] /\ c.step \in Ended \cup {"index"}
      <3>1. CASE ContainsKey(t)
        <4>1. PICK found \in MayFind(op[t].name) :
                op' = [op EXCEPT ![t] = IF found = Null THEN Call("returned", Null, Null)
                                                        ELSE Call("index", op[t].name, Null)]
          BY <3>1 DEF ContainsKey, Answer, Goto
        <4> DEFINE c == IF found = Null THEN Call("returned", Null, Null)
                                        ELSE Call("index", op[t].name, Null)
        <4>2. c.step \in Ended \cup {"index"}
          BY DEF Call, Ended
        <4> HIDE DEF c
        <4>3. op' = [op EXCEPT ![t] = c]
          BY <4>1 DEF c
        <4> QED
          BY <3>1, <4>2, <4>3 DEF ContainsKey, At, Unchanged
      <3>2. CASE Indexer(t)
        <4>1. \E step \in Ended : \E s : op' = [op EXCEPT ![t] = Call(step, Null, s)]
          BY <3>2 DEF Indexer, Answer, Leave, Goto, Ended
        <4> QED
          BY <3>2, <4>1 DEF Indexer, At, Unchanged, Call
      <3>3. CASE NoticeWrite(t)
        <4>1. Call("keyNotFound", Null, Null).step \in Ended
          BY DEF Call, Ended
        <4> QED
          BY <3>3, <4>1 DEF NoticeWrite, Leave, Goto, Unchanged
      <3> QED
        BY <1>5, <3>1, <3>2, <3>3
    <2> QED
      BY <2>1, QuietList DEF Ended
  <1>6. ASSUME NEW t \in Threads,
               \/ \E name \in Names : GetScheme(t, name) \/ RemoveScheme(t, name)
               \/ \E options \in OptionsInUse, purpose \in Purposes : GetDefaultScheme(t, options, purpose)
               \/ \E s \in Schemes : AddScheme(t, s)
        PROVE  HandlersInv'
    <2>1. /\ op[t].step \in Ended /\ UNCHANGED <<schemes, handlers, lock>>
          /\ \E c : op' = [op EXCEPT ![t] = c] /\ c.step \in Ended \cup {"contains", "add", "remove"}
      BY <1>6 DEF GetScheme, RemoveScheme, GetDefaultScheme, AddScheme, Ready, Unchanged, Leave, Answer,
         Goto, Call, Ended
    <2> QED
      BY <2>1, QuietList DEF Ended
  <1>7. CASE UNCHANGED vars
    BY <1>7 DEF vars, HandlersInv, SchemesNamed, ListFollows, Storing, Erasing
  <1> QED
    BY <1>1, <1>2, <1>3, <1>4, <1>5, <1>6, <1>7 DEF Next, Step

LEMMA HandlersInvariant == Spec => []HandlersInv
  BY HandlersInit, HandlersStep, ProviderInvariant, ConstructionInvariant, PTL DEF Spec

\* TypeOK: what the constructor and the threads leave in the dictionary, the list,
\* the lock and the calls under way.
THEOREM TypesAreRight == Spec => []TypeOK
  <1>1. ProviderInv /\ Construction /\ HandlersInv => TypeOK
    BY DEF ProviderInv, DictionaryTyped, Construction, HandlersInv, SchemesNamed, TypeOK
  <1> QED
    BY <1>1, ProviderInvariant, ConstructionInvariant, HandlersInvariant, PTL

\* HandlersMatch: while a write is under way the list is ahead of the dictionary by
\* the scheme of the thread that holds the lock, and by nothing once it is free.
THEOREM TheListFollowsTheDictionary == Spec => []HandlersMatch
  <1>1. ProviderInv /\ HandlersInv => HandlersMatch
    BY FreeList DEF HandlersInv, HandlersMatch, IsInjective
  <1> QED
    BY <1>1, ProviderInvariant, HandlersInvariant, PTL
-----------------------------------------------------------------------------
\* NeverReplaced: Store overwrites only what StoresWhatIsFree says is free.
THEOREM SchemesAreNeverReplaced == Spec => NeverReplaced
  <1> DEFINE Kept == \A n \in Names : schemes[n] # Null => schemes'[n] \in {schemes[n], Null}
  <1>1. ProviderInv /\ [Next]_vars => [Kept]_vars
    <2> SUFFICES ASSUME ProviderInv, Next, NEW n \in Names, schemes[n] # Null
                 PROVE  schemes'[n] \in {schemes[n], Null}
      OBVIOUS
    <2>1. ASSUME NEW t \in Threads, Store(t) PROVE schemes'[n] \in {schemes[n], Null}
      <3>1. op[t].name # n
        BY <2>1 DEF Store, At, ProviderInv, StoresWhatIsFree
      <3> QED
        BY <2>1, <3>1 DEF Store, ProviderInv, DictionaryTyped
    <2>2. ASSUME NEW t \in Threads, Erase(t) PROVE schemes'[n] \in {schemes[n], Null}
      BY <2>2 DEF Erase, ProviderInv, DictionaryTyped
    <2>3. CASE UNCHANGED schemes
      BY <2>3
    <2>4. CASE Construct
      BY <2>4 DEF Construct, ProviderInv, DictionaryTyped
    <2> QED
      BY <2>1, <2>2, <2>3, <2>4 DEF Next, Step, GetScheme, GetDefaultScheme, RemoveScheme, AddScheme, ContainsKey,
         Indexer, NoticeWrite, LockAndAdd, LockAndRemove, Unchanged
  <1> QED
    BY <1>1, ProviderInvariant, PTL DEF Spec, NeverReplaced

\* UnracedGetsAreExact: ContainsKey and the indexer see no write, and what the
\* former found the latter still finds.
THEOREM GetsAreExactUnlessRaced == Spec => UnracedGetsAreExact
  <1> DEFINE Exact ==
        \A t \in Threads :
          /\ op[t].step \in {"contains", "index"}
          /\ op'[t].step \in Ended
          /\ ~raced[t]
          => op'[t].step = "returned" /\ op'[t].scheme = schemes[op[t].name]
  <1>1. ProviderInv /\ [Next]_vars => [Exact]_vars
    <2> SUFFICES ASSUME ProviderInv, Next, NEW t \in Threads, op[t].step \in {"contains", "index"},
                        op'[t].step \in Ended, ~raced[t]
                 PROVE  op'[t].step = "returned" /\ op'[t].scheme = schemes[op[t].name]
      OBVIOUS
    <2>1. ~Writing /\ (op[t].step = "index" => schemes[op[t].name] # Null)
      BY DEF ProviderInv, UnracedGetsKnow
    <2>2. MayFind(op[t].name) = {schemes[op[t].name]}
      BY <2>1 DEF MayFind
    <2>3. CASE ContainsKey(t)
      BY <2>2, <2>3 DEF ContainsKey, Answer, Goto, Call, Ended, ProviderInv, DictionaryTyped
    <2>4. CASE Indexer(t)
      BY <2>1, <2>2, <2>4 DEF Indexer, At, Answer, Leave, Goto, Call, ProviderInv, DictionaryTyped
    <2>5. CASE NoticeWrite(t)
      BY <2>1, <2>5 DEF NoticeWrite
    <2>6. ASSUME NEW u \in Threads, u # t, Step(u)
          PROVE  FALSE
      <3>1. op'[t] = op[t]
        BY <2>6 DEF Step, GetScheme, GetDefaultScheme, RemoveScheme, AddScheme, ContainsKey, Indexer,
           NoticeWrite, LockAndAdd, LockAndRemove, Store, Erase, Leave, Answer, Goto, Unchanged,
           ProviderInv, DictionaryTyped
      <3> QED
        BY <3>1 DEF Ended
    <2>7. ASSUME \/ \E name \in Names : GetScheme(t, name) \/ RemoveScheme(t, name)
                 \/ \E options \in OptionsInUse, purpose \in Purposes : GetDefaultScheme(t, options, purpose)
                 \/ \E s \in Schemes : AddScheme(t, s)
                 \/ LockAndAdd(t) \/ Store(t) \/ LockAndRemove(t) \/ Erase(t)
          PROVE  FALSE
      BY <2>7 DEF GetScheme, GetDefaultScheme, RemoveScheme, AddScheme, LockAndAdd, LockAndRemove,
         Store, Erase, Ready, At, Ended
    <2> QED
      <3>1. CASE Construct
        BY <3>1 DEF Construct, Ended
      <3> QED
        BY <2>3, <2>4, <2>5, <2>6, <2>7, <3>1 DEF Next, Step
  <1> QED
    BY <1>1, ProviderInvariant, PTL DEF Spec, UnracedGetsAreExact
=============================================================================
