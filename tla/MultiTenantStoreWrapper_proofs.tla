------------------- MODULE MultiTenantStoreWrapper_proofs -------------------
(* What holds of the in-memory store and of the wrapper around it, for any   *)
(* threads, tenants, identifiers and comparer: nothing is assumed of who     *)
(* administers which tenant.                                                 *)
EXTENDS MultiTenantStoreWrapper, TLAPS

\* A comparer sends every identifier to a slot.
LEMMA ComparerSlot == \A k \in Keys : Comparer[k] \in Slots
  BY DEF Slots

\* The object TryGetAsync finds is stored and has the id that was asked for.
LEMMA FindsStored ==
  ASSUME NEW id, NEW t, t # Null, Finds(id, t)
  PROVE  t.id = id /\ \E s \in Slots : t = tenantMap[s]
  BY DEF Finds, SlotsWithId

\* An update in flight read an object of the tenant it updates, with an identifier.
ReadSameTenant ==
  \A c \in Clients : ~Idle(c) =>
    /\ update[c].existing.id = update[c].tenant.id
    /\ update[c].existing.key \in Keys

StoreInv == TypeOK /\ ReadSameTenant

\* The values of the state of a single client.
LEMMA UpdateInFlight ==
  ASSUME TypeOK, NEW c \in Clients, ~Idle(c)
  PROVE  /\ update[c] \in [tenant : Tenants, existing : Tenants]
         /\ update[c].tenant \in Tenants
         /\ update[c].existing \in Tenants
  BY DEF TypeOK, Idle

LEMMA StoreInit == InitStore => StoreInv
  <1> SUFFICES ASSUME InitStore PROVE StoreInv
    OBVIOUS
  <1>1. TypeOK
    BY DEF InitStore, TypeOK
  <1>2. \A c \in Clients : Idle(c)
    BY DEF InitStore, Idle
  <1> QED
    BY <1>1, <1>2 DEF StoreInv, ReadSameTenant

\* Each operation keeps the invariant; the wrapper's calls rely on it as well.
LEMMA TryAddInv ==
  ASSUME StoreInv, NEW c \in Clients, NEW t \in Tenants, TryAdd(c, t)
  PROVE  StoreInv'
  <1>1. t.key \in Keys
    BY TenantsAssumption DEF TryAdd
  <1>2. TypeOK'
    BY <1>1, ComparerSlot DEF StoreInv, TypeOK, TryAdd
  <1> QED
    BY <1>2 DEF StoreInv, ReadSameTenant, TryAdd, Idle

LEMMA TryRemoveInv ==
  ASSUME StoreInv, NEW c \in Clients, NEW k \in Keys, TryRemove(c, k)
  PROVE  StoreInv'
  <1>1. TypeOK'
    BY ComparerSlot DEF StoreInv, TypeOK, TryRemove
  <1> QED
    BY <1>1 DEF StoreInv, ReadSameTenant, TryRemove, Idle

LEMMA TryUpdateReadInv ==
  ASSUME StoreInv, NEW c \in Clients, NEW t \in Tenants, TryUpdateRead(c, t)
  PROVE  StoreInv'
  <1>1. PICK existing \in Tenants :
          /\ Finds(t.id, existing)
          /\ existing.key # Null
          /\ update' = [update EXCEPT ![c] = [tenant |-> t, existing |-> existing]]
    BY DEF TryUpdateRead
  <1>2. existing.id = t.id /\ existing.key \in Keys
    BY <1>1, FindsStored, TenantsAssumption
  <1>3. TypeOK'
    BY <1>1 DEF StoreInv, TypeOK, TryUpdateRead
  <1>4. ReadSameTenant'
    BY <1>1, <1>2 DEF StoreInv, TypeOK, ReadSameTenant, Idle
  <1> QED
    BY <1>3, <1>4 DEF StoreInv

LEMMA TryUpdateSwapInv ==
  ASSUME StoreInv, NEW c \in Clients, TryUpdateSwap(c)
  PROVE  StoreInv'
  <1>1. update[c].tenant \in Tenants /\ update[c].existing.key \in Keys
    BY UpdateInFlight DEF StoreInv, ReadSameTenant, TryUpdateSwap
  <1>2. TypeOK'
    BY <1>1, ComparerSlot DEF StoreInv, TypeOK, TryUpdateSwap
  <1>3. ReadSameTenant'
    BY DEF StoreInv, TypeOK, ReadSameTenant, TryUpdateSwap, Idle
  <1> QED
    BY <1>2, <1>3 DEF StoreInv

LEMMA StoreStep == StoreInv /\ [Next]_storeVars => StoreInv'
  <1> SUFFICES ASSUME StoreInv, [Next]_storeVars PROVE StoreInv'
    OBVIOUS
  <1>1. ASSUME NEW c \in Clients, NEW t \in Tenants, TryAdd(c, t) \/ TryUpdateRead(c, t)
        PROVE  StoreInv'
    BY <1>1, TryAddInv, TryUpdateReadInv
  <1>2. ASSUME NEW c \in Clients, NEW k \in Keys, TryRemove(c, k)
        PROVE  StoreInv'
    BY <1>2, TryRemoveInv
  <1>3. ASSUME NEW c \in Clients, TryUpdateSwap(c)
        PROVE  StoreInv'
    BY <1>3, TryUpdateSwapInv
  <1>4. CASE UNCHANGED storeVars
    BY <1>4 DEF storeVars, StoreInv, TypeOK, ReadSameTenant, Idle
  <1> QED
    BY <1>1, <1>2, <1>3, <1>4 DEF Next

LEMMA StoreInvariant == Spec => []StoreInv
  BY StoreInit, StoreStep, PTL DEF Spec, Init

\* The dictionary holds tenant objects or nothing, and an update in flight
\* remembers two of them.
THEOREM TypeCorrect == Spec => []TypeOK
  BY StoreInvariant, PTL DEF StoreInv

\* What one swap may do to the entry s: nothing, or replace an object by
\* another with the same id.
LEMMA SwapEffect ==
  ASSUME StoreInv, NEW c \in Clients, TryUpdateSwap(c), NEW s \in Slots
  PROVE  \/ tenantMap'[s] = tenantMap[s]
         \/ /\ tenantMap[s] # Null
            /\ tenantMap'[s].id = tenantMap[s].id
  <1>1. /\ update[c].existing \in Tenants
        /\ update[c].existing.id = update[c].tenant.id
    BY UpdateInFlight DEF StoreInv, ReadSameTenant, TryUpdateSwap
  <1>2. update[c].existing # Null
    BY <1>1, TenantsAssumption
  <1> QED
    BY <1>1, <1>2 DEF StoreInv, TypeOK, TryUpdateSwap

\* An entry is only ever overwritten by another version of the same tenant.
THEOREM EntriesKeepTheirTenant == Spec => EntryKeepsItsTenant
  <1> DEFINE Kept == \A s \in Slots :
                       tenantMap[s] # Null /\ tenantMap'[s] # Null
                         => tenantMap'[s].id = tenantMap[s].id
  <1>1. StoreInv /\ [Next]_storeVars => [Kept]_storeVars
    <2> SUFFICES ASSUME StoreInv, Next, NEW s \in Slots,
                        tenantMap[s] # Null, tenantMap'[s] # Null
                 PROVE  tenantMap'[s].id = tenantMap[s].id
      OBVIOUS
    <2>1. ASSUME NEW c \in Clients, NEW t \in Tenants, TryAdd(c, t)
          PROVE  tenantMap'[s] = tenantMap[s]
      BY <2>1 DEF StoreInv, TypeOK, TryAdd
    <2>2. ASSUME NEW c \in Clients, NEW t \in Tenants, TryUpdateRead(c, t)
          PROVE  tenantMap'[s] = tenantMap[s]
      BY <2>2 DEF TryUpdateRead
    <2>3. ASSUME NEW c \in Clients, NEW k \in Keys, TryRemove(c, k)
          PROVE  tenantMap'[s] = tenantMap[s]
      BY <2>3 DEF StoreInv, TypeOK, TryRemove
    <2>4. ASSUME NEW c \in Clients, TryUpdateSwap(c)
          PROVE  tenantMap'[s].id = tenantMap[s].id
      BY <2>4, SwapEffect
    <2> QED
      BY <2>1, <2>2, <2>3, <2>4 DEF Next
  <1> QED
    BY <1>1, StoreInvariant, PTL DEF Spec, EntryKeepsItsTenant

\* An update in flight never brings a removed tenant back.
THEOREM UpdatesNeverResurrect == Spec => UpdateNeverResurrects
  <1> DEFINE NotBack == \A c \in Clients :
                          ~Idle(c) /\ update'[c] = NoUpdate
                            => \A s \in Slots : tenantMap[s] = Null => tenantMap'[s] = Null
  <1>1. StoreInv /\ [Next]_storeVars => [NotBack]_storeVars
    <2> SUFFICES ASSUME StoreInv, Next, NEW c \in Clients, ~Idle(c), update'[c] = NoUpdate,
                        NEW s \in Slots, tenantMap[s] = Null
                 PROVE  tenantMap'[s] = Null
      OBVIOUS
    <2>1. ASSUME NEW d \in Clients, NEW t \in Tenants, TryAdd(d, t)
          PROVE  FALSE
      BY <2>1 DEF TryAdd, Idle
    <2>2. ASSUME NEW d \in Clients, NEW t \in Tenants, TryUpdateRead(d, t)
          PROVE  FALSE
      BY <2>2 DEF TryUpdateRead, StoreInv, TypeOK, Idle
    <2>3. ASSUME NEW d \in Clients, NEW k \in Keys, TryRemove(d, k)
          PROVE  FALSE
      BY <2>3 DEF TryRemove, Idle
    <2>4. ASSUME NEW d \in Clients, TryUpdateSwap(d)
          PROVE  tenantMap'[s] = Null
      BY <2>4, SwapEffect
    <2> QED
      BY <2>1, <2>2, <2>3, <2>4 DEF Next
  <1> QED
    BY <1>1, StoreInvariant, PTL DEF Spec, UpdateNeverResurrects
-----------------------------------------------------------------------------
(* The wrapper around the store. *)

CallsTyped ==
  /\ call \in [Clients -> {NoCall} \cup [step : Steps, tenant : Tenants]]
  /\ misled \in [Clients -> BOOLEAN]

\* An add in flight is of a tenant with an id and an identifier, and no entry
\* holds its id unless the call is misled.
PendingAdds ==
  \A c \in Clients : call[c].step \in {"checkKey", "add"} =>
    /\ call[c].tenant \in Tenants
    /\ Addable(call[c].tenant)
    /\ ~misled[c] => \A s \in Slots :
                       tenantMap[s] # Null => tenantMap[s].id # call[c].tenant.id

WrapperInv == StoreInv /\ CallsTyped /\ PendingAdds

LEMMA CallTenant ==
  ASSUME CallsTyped, NEW c \in Clients, call[c].step # "none"
  PROVE  call[c].tenant \in Tenants /\ call[c].step \in Steps
  BY DEF CallsTyped, NoCall

\* An id that is not found, and not held twice, is held by no entry.
LEMMA NotFoundNowhere ==
  ASSUME TypeOK, NEW id, GetsNull(id), ~Doubled(id)
  PROVE  \A s \in Slots : tenantMap[s] # Null => tenantMap[s].id # id
  <1> SUFFICES ASSUME NEW s \in Slots, tenantMap[s] # Null, tenantMap[s].id = id
               PROVE  FALSE
    OBVIOUS
  <1>1. SlotsWithId(id) = {s}
    BY DEF SlotsWithId, Doubled
  <1>2. tenantMap[s] \in Tenants
    BY DEF TypeOK
  <1> QED
    BY <1>1, <1>2 DEF GetsNull, Finds

LEMMA WrapperInit == WInit => WrapperInv
  <1> SUFFICES ASSUME WInit PROVE WrapperInv
    OBVIOUS
  <1>1. StoreInv
    BY StoreInit DEF WInit
  <1>2. CallsTyped /\ PendingAdds
    BY DEF WInit, CallsTyped, PendingAdds, NoCall
  <1> QED
    BY <1>1, <1>2 DEF WrapperInv

LEMMA StoreUnchanged ==
  ASSUME StoreInv, UNCHANGED storeVars
  PROVE  StoreInv'
  BY DEF StoreInv, TypeOK, ReadSameTenant, Idle, storeVars

\* Steps that only move a client's frame on.
LEMMA AddCheckIdInv ==
  ASSUME WrapperInv, NEW c \in Clients, NEW t \in Tenants, AddCheckId(c, t)
  PROVE  WrapperInv'
  <1>1. UNCHANGED storeVars
    BY DEF AddCheckId
  <1>2. StoreInv'
    BY <1>1, StoreUnchanged DEF WrapperInv
  <1>3. Doubled(t.id) \in BOOLEAN
    BY DEF Doubled
  <1>4. CallsTyped'
    BY <1>3 DEF WrapperInv, CallsTyped, AddCheckId, GoTo, Steps
  <1>5. ~Doubled(t.id) => \A s \in Slots : tenantMap[s] # Null => tenantMap[s].id # t.id
    BY NotFoundNowhere DEF WrapperInv, StoreInv, AddCheckId
  <1>6. PendingAdds'
    BY <1>1, <1>3, <1>5 DEF WrapperInv, PendingAdds, CallsTyped, AddCheckId, GoTo, storeVars, Addable
  <1> QED
    BY <1>2, <1>4, <1>6 DEF WrapperInv

LEMMA ReturnInv ==
  ASSUME WrapperInv, NEW c \in Clients, UNCHANGED tenantMap, Return(c)
  PROVE  CallsTyped' /\ PendingAdds'
  <1>1. CallsTyped'
    BY DEF WrapperInv, CallsTyped, Return
  <1>2. ASSUME NEW d \in Clients, call'[d].step \in {"checkKey", "add"}
        PROVE  d # c /\ call'[d] = call[d] /\ misled'[d] = misled[d]
    BY <1>2 DEF WrapperInv, CallsTyped, Return, NoCall
  <1>3. PendingAdds'
    BY <1>2 DEF WrapperInv, PendingAdds, Addable
  <1> QED
    BY <1>1, <1>3

LEMMA AddCheckKeyInv ==
  ASSUME WrapperInv, NEW c \in Clients, AddCheckKey(c)
  PROVE  WrapperInv'
  <1>1. UNCHANGED storeVars
    BY DEF AddCheckKey
  <1>2. StoreInv'
    BY <1>1, StoreUnchanged DEF WrapperInv
  <1>3. CASE Return(c)
    BY <1>1, <1>2, <1>3, ReturnInv DEF WrapperInv, storeVars
  <1>4. CASE GoTo(c, "add", call[c].tenant) /\ UNCHANGED misled
    <2>1. call[c].tenant \in Tenants /\ call[c].step = "checkKey"
      BY CallTenant DEF WrapperInv, AddCheckKey, AtStep
    <2>2. CallsTyped'
      BY <1>4, <2>1 DEF WrapperInv, CallsTyped, GoTo, Steps
    <2>3. \A d \in Clients : call'[d].tenant = call[d].tenant
      BY <1>4 DEF WrapperInv, CallsTyped, GoTo
    <2>4. \A d \in Clients : d # c => call'[d].step = call[d].step
      BY <1>4 DEF WrapperInv, CallsTyped, GoTo
    <2>5. PendingAdds'
      BY <1>1, <1>4, <2>1, <2>3, <2>4 DEF WrapperInv, PendingAdds, storeVars, Addable
    <2> QED
      BY <1>2, <2>2, <2>5 DEF WrapperInv
  <1> QED
    BY <1>3, <1>4 DEF AddCheckKey

LEMMA UpdateCheckIdInv ==
  ASSUME WrapperInv, NEW c \in Clients, NEW t \in Tenants, UpdateCheckId(c, t)
  PROVE  WrapperInv'
  <1>1. UNCHANGED storeVars
    BY DEF UpdateCheckId
  <1>2. StoreInv'
    BY <1>1, StoreUnchanged DEF WrapperInv
  <1>3. CallsTyped'
    BY DEF WrapperInv, CallsTyped, UpdateCheckId, GoTo, Steps
  <1>4. PendingAdds'
    BY <1>1 DEF WrapperInv, PendingAdds, CallsTyped, UpdateCheckId, GoTo, storeVars, Addable
  <1> QED
    BY <1>2, <1>3, <1>4 DEF WrapperInv

\* What an add that succeeds does to the dictionary.
LEMMA AddEffect ==
  ASSUME WrapperInv, NEW c \in Clients, Add(c), TryAdd(c, call[c].tenant)
  PROVE  LET t == call[c].tenant
         IN /\ t \in Tenants /\ t.key \in Keys /\ t # Null
            /\ Comparer[t.key] \in Slots
            /\ tenantMap \in [Slots -> Tenants \cup {Null}]
            /\ tenantMap[Comparer[t.key]] = Null
            /\ tenantMap' = [tenantMap EXCEPT ![Comparer[t.key]] = t]
            /\ ~misled[c] => \A s \in Slots : tenantMap[s] # Null => tenantMap[s].id # t.id
  <1>1. call[c].tenant \in Tenants /\ call[c].tenant.key \in Keys
    BY TenantsAssumption DEF WrapperInv, PendingAdds, Add, AtStep, Addable
  <1>2. ~misled[c] => \A s \in Slots : tenantMap[s] # Null => tenantMap[s].id # call[c].tenant.id
    BY DEF WrapperInv, PendingAdds, Add, AtStep
  <1> QED
    BY <1>1, <1>2, ComparerSlot, TenantsAssumption DEF TryAdd, WrapperInv, StoreInv, TypeOK

\* The add itself: every other add of the id is misled from now on.
LEMMA AddInv ==
  ASSUME WrapperInv, NEW c \in Clients, Add(c)
  PROVE  WrapperInv'
  <1> DEFINE t == call[c].tenant
  <1>1. CASE UNCHANGED storeVars /\ Return(c)
    <2>1. StoreInv'
      BY <1>1, StoreUnchanged DEF WrapperInv
    <2>2. CallsTyped' /\ PendingAdds'
      BY <1>1, ReturnInv DEF storeVars
    <2> QED
      BY <2>1, <2>2 DEF WrapperInv
  <1>2. CASE /\ TryAdd(c, t)
             /\ call' = [call EXCEPT ![c] = NoCall]
             /\ misled' = [d \in Clients |-> d # c /\ (misled[d] \/ Adding(d, t.id))]
    <2>1. /\ t \in Tenants /\ Comparer[t.key] \in Slots
          /\ tenantMap \in [Slots -> Tenants \cup {Null}]
          /\ tenantMap' = [tenantMap EXCEPT ![Comparer[t.key]] = t]
      BY <1>2, AddEffect
    <2>2. StoreInv'
      BY <1>2, <2>1, TryAddInv DEF WrapperInv
    <2>3. CallsTyped'
      BY <1>2 DEF WrapperInv, CallsTyped, Adding
    <2>4. ASSUME NEW d \in Clients, call'[d].step \in {"checkKey", "add"}
          PROVE  d # c /\ call'[d] = call[d]
      BY <1>2, <2>4 DEF WrapperInv, CallsTyped, NoCall
    <2>5. ASSUME NEW d \in Clients, call'[d].step \in {"checkKey", "add"}, ~misled'[d],
                 NEW s \in Slots, tenantMap'[s] # Null
          PROVE  tenantMap'[s].id # call'[d].tenant.id
      <3>1. d # c /\ call'[d] = call[d]
        BY <2>4, <2>5
      <3>2. ~misled[d] /\ call[d].tenant.id # t.id
        BY <1>2, <2>5, <3>1 DEF Adding
      <3>3. tenantMap[s] # Null => tenantMap[s].id # call[d].tenant.id
        BY <2>5, <3>1, <3>2 DEF WrapperInv, PendingAdds
      <3> QED
        BY <2>1, <2>5, <3>1, <3>2, <3>3
    <2>6. PendingAdds'
      BY <2>4, <2>5 DEF WrapperInv, PendingAdds, Addable
    <2> QED
      BY <2>2, <2>3, <2>6 DEF WrapperInv
  <1> QED
    BY <1>1, <1>2 DEF Add

LEMMA UpdateReadInv ==
  ASSUME WrapperInv, NEW c \in Clients, UpdateRead(c)
  PROVE  WrapperInv'
  <1>1. call[c].tenant \in Tenants
    BY CallTenant DEF WrapperInv, UpdateRead, AtStep
  <1>2. tenantMap' = tenantMap
    BY DEF UpdateRead, TryUpdateRead, storeVars
  <1>3. StoreInv'
    <2>1. CASE TryUpdateRead(c, call[c].tenant)
      BY <1>1, <2>1, TryUpdateReadInv DEF WrapperInv
    <2>2. CASE UNCHANGED storeVars
      BY <2>2, StoreUnchanged DEF WrapperInv
    <2> QED
      BY <2>1, <2>2 DEF UpdateRead
  <1>4. CallsTyped' /\ PendingAdds'
    <2>1. CASE Return(c)
      BY <1>2, <2>1, ReturnInv
    <2>2. CASE UNCHANGED <<call, misled>>
      BY <1>2, <2>2 DEF WrapperInv, CallsTyped, PendingAdds, Addable
    <2> QED
      BY <2>1, <2>2 DEF UpdateRead
  <1> QED
    BY <1>3, <1>4 DEF WrapperInv

LEMMA UpdateSwapInv ==
  ASSUME WrapperInv, NEW c \in Clients, UpdateSwap(c)
  PROVE  WrapperInv'
  <1>1. StoreInv'
    BY TryUpdateSwapInv DEF WrapperInv, UpdateSwap
  <1>2. CallsTyped'
    BY DEF WrapperInv, CallsTyped, UpdateSwap, Return
  <1>3. \A s \in Slots : \/ tenantMap'[s] = tenantMap[s]
                         \/ tenantMap[s] # Null /\ tenantMap'[s].id = tenantMap[s].id
    BY SwapEffect DEF WrapperInv, UpdateSwap
  <1>4. ASSUME NEW d \in Clients, call'[d].step \in {"checkKey", "add"}
        PROVE  call'[d] = call[d] /\ misled'[d] = misled[d]
    BY <1>4 DEF WrapperInv, CallsTyped, UpdateSwap, Return, NoCall
  <1>5. PendingAdds'
    BY <1>3, <1>4 DEF WrapperInv, PendingAdds, Addable
  <1> QED
    BY <1>1, <1>2, <1>5 DEF WrapperInv

LEMMA RemoveInv ==
  ASSUME WrapperInv, NEW c \in Clients, NEW k \in Keys, Remove(c, k)
  PROVE  WrapperInv'
  <1>1. StoreInv'
    BY TryRemoveInv DEF WrapperInv, Remove
  <1>2. \A s \in Slots : tenantMap'[s] = tenantMap[s] \/ tenantMap'[s] = Null
    BY DEF WrapperInv, StoreInv, TypeOK, Remove, TryRemove
  <1>3. CallsTyped' /\ PendingAdds'
    BY <1>2 DEF WrapperInv, CallsTyped, PendingAdds, Remove, Addable
  <1> QED
    BY <1>1, <1>3 DEF WrapperInv

LEMMA WrapperStep == WrapperInv /\ [WNext]_vars => WrapperInv'
  <1> SUFFICES ASSUME WrapperInv, [WNext]_vars PROVE WrapperInv'
    OBVIOUS
  <1>1. ASSUME NEW c \in Clients, NEW t \in Tenants, AddCheckId(c, t) \/ UpdateCheckId(c, t)
        PROVE  WrapperInv'
    BY <1>1, AddCheckIdInv, UpdateCheckIdInv
  <1>2. ASSUME NEW c \in Clients, AddCheckKey(c) \/ Add(c)
        PROVE  WrapperInv'
    BY <1>2, AddCheckKeyInv, AddInv
  <1>3. ASSUME NEW c \in Clients, UpdateRead(c) \/ UpdateSwap(c)
        PROVE  WrapperInv'
    BY <1>3, UpdateReadInv, UpdateSwapInv
  <1>4. ASSUME NEW c \in Clients, NEW k \in Keys, Remove(c, k)
        PROVE  WrapperInv'
    BY <1>4, RemoveInv
  <1>5. CASE UNCHANGED vars
    <2>1. StoreInv'
      BY <1>5, StoreUnchanged DEF vars, storeVars, WrapperInv
    <2>2. CallsTyped' /\ PendingAdds'
      BY <1>5 DEF vars, WrapperInv, CallsTyped, PendingAdds, Addable
    <2> QED
      BY <2>1, <2>2 DEF WrapperInv
  <1> QED
    BY <1>1, <1>2, <1>3, <1>4, <1>5 DEF WNext

LEMMA WrapperInvariant == WSpec => []WrapperInv
  BY WrapperInit, WrapperStep, PTL DEF WSpec

\* Every client is in a method with one of the tenant objects or in none, and
\* the store is well typed.
THEOREM WrapperTypeCorrect == WSpec => []WTypeOK
  <1>1. WrapperInv => WTypeOK
    BY DEF WrapperInv, StoreInv, CallsTyped, WTypeOK
  <1> QED
    BY <1>1, WrapperInvariant, PTL

\* An add that is not misled keeps the ids unique.
LEMMA SureAddKeepsIds ==
  ASSUME WrapperInv, UniqueIds, NEW c \in Clients, Add(c), ~misled[c]
  PROVE  UniqueIds'
  <1>1. CASE UNCHANGED storeVars
    BY <1>1 DEF storeVars, UniqueIds
  <1>2. CASE TryAdd(c, call[c].tenant)
    <2> DEFINE t == call[c].tenant
    <2>1. /\ Comparer[t.key] \in Slots
          /\ tenantMap \in [Slots -> Tenants \cup {Null}]
          /\ tenantMap' = [tenantMap EXCEPT ![Comparer[t.key]] = t]
          /\ \A s \in Slots : tenantMap[s] # Null => tenantMap[s].id # t.id
      BY <1>2, AddEffect
    <2> QED
      BY <2>1 DEF UniqueIds
  <1> QED
    BY <1>1, <1>2 DEF Add

\* Whoever administers which tenant: the store comes to hold an id twice only by
\* an add whose lookup another add of the id overtook, or that had thrown.
THEOREM IdsStayUniqueButForMisledAdds == WSpec => OnlyMisledAddsShareIds
  <1> DEFINE Caused == UniqueIds /\ ~UniqueIds' => \E c \in Clients : Add(c) /\ misled[c]
  <1>1. WrapperInv /\ [WNext]_vars => [Caused]_vars
    <2> SUFFICES ASSUME WrapperInv, WNext, UniqueIds, ~UniqueIds'
                 PROVE  \E c \in Clients : Add(c) /\ misled[c]
      OBVIOUS
    <2>1. ASSUME UNCHANGED tenantMap
          PROVE  FALSE
      BY <2>1 DEF UniqueIds
    <2>2. ASSUME NEW c \in Clients, UpdateSwap(c)
          PROVE  FALSE
      <3>1. \A s \in Slots : \/ tenantMap'[s] = tenantMap[s]
                             \/ tenantMap[s] # Null /\ tenantMap'[s].id = tenantMap[s].id
        BY <2>2, SwapEffect DEF WrapperInv, UpdateSwap
      <3> QED
        BY <3>1 DEF UniqueIds
    <2>3. ASSUME NEW c \in Clients, NEW k \in Keys, Remove(c, k)
          PROVE  FALSE
      <3>1. \A s \in Slots : tenantMap'[s] = tenantMap[s] \/ tenantMap'[s] = Null
        BY <2>3 DEF WrapperInv, StoreInv, TypeOK, Remove, TryRemove
      <3> QED
        BY <3>1 DEF UniqueIds
    <2>4. ASSUME NEW c \in Clients, Add(c)
          PROVE  misled[c]
      BY <2>4, SureAddKeepsIds
    <2> QED
      BY <2>1, <2>2, <2>3, <2>4
         DEF WNext, AddCheckId, UpdateCheckId, AddCheckKey, UpdateRead, TryUpdateRead, storeVars
  <1> QED
    BY <1>1, WrapperInvariant, PTL DEF WSpec, OnlyMisledAddsShareIds

-----------------------------------------------------------------------------
(* The wrapped store beside TenantRegistry.                                  *)

\* A state the registry may be in.
RegistryState == WrapperInv /\ UniqueIds /\ AtOwnKey

\* An object that is added, without its id being stored twice, is registered.
LEMMA AddRegisters ==
  ASSUME RegistryState, NEW c \in Clients, Add(c), ~misled[c] \/ UniqueIds'
  PROVE  Registry!Next \/ UNCHANGED Stored
  <1> DEFINE t == call[c].tenant
  <1>1. CASE UNCHANGED storeVars
    BY <1>1 DEF storeVars, Stored
  <1>2. CASE TryAdd(c, t)
    <2> DEFINE slot == Comparer[t.key]
    <2>1. /\ t \in Tenants /\ t.key \in Keys /\ t # Null
          /\ slot \in Slots
          /\ tenantMap \in [Slots -> Tenants \cup {Null}]
          /\ tenantMap[slot] = Null
          /\ tenantMap' = [tenantMap EXCEPT ![slot] = t]
      BY <1>2, AddEffect DEF RegistryState
    <2>2. \A s \in Slots : tenantMap'[s] = IF s = slot THEN t ELSE tenantMap[s]
      BY <2>1
    <2>3. Stored' = Stored \cup {t}
      BY <2>1, <2>2 DEF Stored
    <2>4. UniqueIds'
      BY SureAddKeepsIds DEF RegistryState
    <2>5. ASSUME NEW u \in Stored
          PROVE  ~Registry!SameId(t, u) /\ ~Registry!SameKey(t, u)
      <3>1. PICK s \in Slots : u = tenantMap[s] /\ tenantMap[s] # Null /\ s # slot
        BY <2>1 DEF Stored
      <3>2. tenantMap'[slot] = t /\ tenantMap'[s] = u /\ u # Null
        BY <2>1, <2>2, <3>1
      <3>3. t.id # u.id
        BY <2>1, <2>4, <3>1, <3>2 DEF UniqueIds
      <3>4. Comparer[u.key] = s
        BY <3>1 DEF RegistryState, AtOwnKey
      <3> QED
        BY <3>1, <3>3, <3>4 DEF Registry!SameId, Registry!SameKey
    <2>6. Registry!Register(t)
      BY <2>3, <2>5 DEF Registry!Register
    <2>7. t \in Identified
      BY <2>1, TenantsAssumption DEF Identified
    <2> QED
      BY <2>6, <2>7 DEF Registry!Next
  <1> QED
    BY <1>1, <1>2 DEF Add

\* A swap that succeeds replaces a version of a tenant by another one, unless it
\* takes the identifier away from another tenant.
LEMMA SwapIsReplace ==
  ASSUME RegistryState, NEW c \in Clients, UpdateSwap(c), ~TakesKey(c)
  PROVE  Registry!Next \/ UNCHANGED Stored
  <1> DEFINE old == update[c].existing
             new == update[c].tenant
             slot == Comparer[old.key]
  <1>1. /\ old \in Tenants /\ new \in Tenants /\ old.id = new.id
        /\ old.key \in Keys /\ slot \in Slots
        /\ old # Null /\ new # Null
    BY UpdateInFlight, ComparerSlot, TenantsAssumption
       DEF RegistryState, WrapperInv, StoreInv, ReadSameTenant, UpdateSwap, TryUpdateSwap
  <1>2. tenantMap \in [Slots -> Tenants \cup {Null}]
    BY DEF RegistryState, WrapperInv, StoreInv, TypeOK
  <1>3. CASE tenantMap' = tenantMap
    BY <1>3 DEF Stored
  <1>4. CASE tenantMap[slot] = old /\ tenantMap' = [tenantMap EXCEPT ![slot] = new]
    <2>1. \A s \in Slots : tenantMap'[s] = IF s = slot THEN new ELSE tenantMap[s]
      BY <1>1, <1>2, <1>4
    <2>2. \A s \in Slots : tenantMap[s] = old => s = slot
      BY <1>1, <1>4 DEF RegistryState, UniqueIds
    <2>3. Stored' = (Stored \ {old}) \cup {new}
      BY <1>1, <1>4, <2>1, <2>2 DEF Stored
    <2>4. ASSUME NEW u \in Stored \ {old}
          PROVE  ~Registry!SameKey(new, u)
      <3>1. PICK s \in Slots : u = tenantMap[s] /\ tenantMap[s] # Null /\ s # slot
        BY <1>4 DEF Stored
      <3>2. u.id # new.id
        BY <1>1, <1>4, <3>1 DEF RegistryState, UniqueIds
      <3>3. u.key # Null
        BY <3>1, TenantsAssumption DEF RegistryState, AtOwnKey
      <3> QED
        BY <2>4, <3>2, <3>3 DEF TakesKey, Registry!SameKey
    <2>5. old \in Stored
      BY <1>1, <1>4 DEF Stored
    <2>6. Registry!Replace(old, new)
      BY <1>1, <2>3, <2>4, <2>5 DEF Registry!Replace, Registry!SameId
    <2>7. old \in Identified /\ new \in Identified
      BY <1>1, TenantsAssumption DEF Identified, TakesKey
    <2> QED
      BY <2>6, <2>7 DEF Registry!Next
  <1> QED
    BY <1>3, <1>4 DEF UpdateSwap, TryUpdateSwap

\* A removed object is unregistered.
LEMMA RemoveUnregisters ==
  ASSUME RegistryState, NEW c \in Clients, NEW k \in Keys, Remove(c, k)
  PROVE  Registry!Next \/ UNCHANGED Stored
  <1> DEFINE slot == Comparer[k]
             t == tenantMap[slot]
  <1>1. /\ slot \in Slots /\ t # Null
        /\ tenantMap \in [Slots -> Tenants \cup {Null}]
        /\ tenantMap' = [tenantMap EXCEPT ![slot] = Null]
    BY ComparerSlot
       DEF Remove, TryRemove, TryGetByKey, RegistryState, WrapperInv, StoreInv, TypeOK
  <1>2. t \in Stored /\ t \in Identified
    BY <1>1, TenantsAssumption DEF Stored, Identified, RegistryState, AtOwnKey
  <1>3. \A s \in Slots : tenantMap'[s] = IF s = slot THEN Null ELSE tenantMap[s]
    BY <1>1
  <1>4. \A s \in Slots : tenantMap[s] = t => s = slot
    BY <1>1 DEF RegistryState, UniqueIds
  <1>5. Stored' = Stored \ {t}
    BY <1>1, <1>3, <1>4 DEF Stored
  <1>6. Registry!Unregister(t)
    BY <1>2, <1>5 DEF Registry!Unregister
  <1> QED
    BY <1>2, <1>6 DEF Registry!Next

\* Whoever administers or renames tenants: from a state the registry may be in,
\* the wrapped store moves as the registry does, or by one of the two steps the
\* code leaves open.
THEOREM WrappedStoreStepsAreRegistrySteps == WSpec => RegistrySteps
  <1> DEFINE Allowed ==
        UniqueIds /\ AtOwnKey =>
          \/ \E c \in Clients : Add(c) /\ misled[c] /\ ~UniqueIds'
          \/ \E c \in Clients : UpdateSwap(c) /\ TakesKey(c)
          \/ Registry!Next
          \/ UNCHANGED Stored
  <1>1. WrapperInv /\ [WNext]_vars => [Allowed]_vars
    <2> SUFFICES ASSUME RegistryState, WNext
                 PROVE  \/ \E c \in Clients : Add(c) /\ misled[c] /\ ~UniqueIds'
                        \/ \E c \in Clients : UpdateSwap(c) /\ TakesKey(c)
                        \/ Registry!Next
                        \/ UNCHANGED Stored
      BY DEF RegistryState
    <2>1. ASSUME NEW c \in Clients, Add(c)
          PROVE  (misled[c] /\ ~UniqueIds') \/ Registry!Next \/ UNCHANGED Stored
      BY <2>1, AddRegisters
    <2>2. ASSUME NEW c \in Clients, UpdateSwap(c)
          PROVE  TakesKey(c) \/ Registry!Next \/ UNCHANGED Stored
      BY <2>2, SwapIsReplace
    <2>3. ASSUME NEW c \in Clients, NEW k \in Keys, Remove(c, k)
          PROVE  Registry!Next \/ UNCHANGED Stored
      BY <2>3, RemoveUnregisters
    <2>4. CASE UNCHANGED tenantMap
      BY <2>4 DEF Stored
    <2> QED
      BY <2>1, <2>2, <2>3, <2>4
         DEF WNext, AddCheckId, UpdateCheckId, AddCheckKey, UpdateRead, TryUpdateRead, storeVars
  <1> QED
    BY <1>1, WrapperInvariant, PTL DEF WSpec, RegistrySteps
=============================================================================
