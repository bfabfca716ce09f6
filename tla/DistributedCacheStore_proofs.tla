-------------------- MODULE DistributedCacheStore_proofs --------------------
(* Dual entries stay in sync for any number of clients, tenants and ticks,   *)
(* when tenants are administered separately and calls are short against the  *)
(* expiration.                                                               *)
EXTENDS DistributedCacheStore, TLAPS

Present(name) == value[name] # Null

\* Entries are under the names of their values, and the clock of an entry runs
\* exactly while it exists.
OwnNames ==
  /\ \A id \in Ids : Present(IdName(id)) => value[IdName(id)].id = id
  /\ \A key \in Keys : Present(KeyName(key)) => value[KeyName(key)].key = key
  /\ \A name \in Names : left[name] = 0 <=> ~Present(name)

WriteSteps == {"setKey", "removeRefresh", "removeId", "removeKey"}

\* What a client in the middle of a call knows.  Nobody else writes its tenant,
\* and no tick passes.
Know(c) ==
  LET t == call[c].tenant
  IN /\ call[c].step \in WriteSteps => \E u \in Administers[c] : u.id = t.id
     /\ call[c].step = "setKey" =>
          value[IdName(t.id)] = t /\ left[IdName(t.id)] = Lifetime
     /\ call[c].step = "removeKey" => value[IdName(t.id)] = Null
     /\ call[c].step = "refreshKey" =>
          (Present(IdName(t.id)) => left[IdName(t.id)] = Lifetime)
     /\ call[c].step \in {"refreshId", "removeRefresh"} =>
          (Present(KeyName(t.key)) => left[KeyName(t.key)] = Lifetime)

CallsKnow == \A c \in Clients : Know(c)

Busy(id) == \E c \in Clients : ~Idle(c) /\ call[c].tenant.id = id

Twins(t) ==
  /\ ~Writing(t.id) => value[IdName(t.id)] = value[KeyName(t.key)]
  /\ Busy(t.id) \/ left[IdName(t.id)] = left[KeyName(t.key)]

TwinsEqual == \A t \in Tenants : t.id \notin torn => Twins(t)

CacheInv == TypeOK /\ OwnNames /\ CallsKnow /\ TwinsEqual
-----------------------------------------------------------------------------
LEMMA NamesDistinct ==
  /\ \A id \in Ids : IdName(id) \in Names
  /\ \A key \in Keys : KeyName(key) \in Names
  /\ \A id \in Ids, key \in Keys : IdName(id) # KeyName(key)
  /\ \A i, j \in Ids : IdName(i) = IdName(j) => i = j
  /\ \A k, l \in Keys : KeyName(k) = KeyName(l) => k = l
  BY DEF Names, IdName, KeyName

LEMMA TenantFields ==
  /\ \A t \in Tenants : t # Null /\ t.id \in Ids /\ t.key \in Keys
  /\ Lifetime \in Nat /\ Lifetime # 0
  BY CacheAssumption

LEMMA CallFacts ==
  ASSUME TypeOK, NEW c \in Clients, ~Idle(c)
  PROVE  call[c].tenant \in Tenants /\ call[c].step \in Steps
  BY DEF TypeOK, Idle

LEMMA CacheInit == Init => CacheInv
  <1> SUFFICES ASSUME Init PROVE CacheInv
    OBVIOUS
  <1>1. TypeOK
    BY TenantFields DEF Init, TypeOK
  <1>2. OwnNames
    BY NamesDistinct DEF Init, OwnNames, Present
  <1>3. CallsKnow
    BY DEF Init, CallsKnow, Know, NoCall, WriteSteps
  <1>4. TwinsEqual
    BY NamesDistinct, TenantFields DEF Init, TwinsEqual, Twins
  <1> QED
    BY <1>1, <1>2, <1>3, <1>4 DEF CacheInv

LEMMA TickInv ==
  ASSUME SeparateTenants, Expiry # "anyTime", CacheInv, Tick
  PROVE  CacheInv'
  <1>1. (\A c \in Clients : Idle(c)) /\ call' = call /\ torn' = torn
    BY DEF Tick
  <1>2. \A name \in Names :
          /\ left'[name] = (IF left[name] = 0 THEN 0 ELSE left[name] - 1)
          /\ value'[name] = (IF left'[name] = 0 THEN Null ELSE value[name])
    BY DEF Tick
  <1>3. TypeOK'
    <2>1. ASSUME NEW name \in Names
          PROVE  left'[name] \in 0..Lifetime /\ value'[name] \in Tenants \cup {Null}
      <3>1. left[name] \in 0..Lifetime /\ value[name] \in Tenants \cup {Null}
        BY DEF CacheInv, TypeOK
      <3>2. Lifetime \in Nat
        BY TenantFields
      <3>3. left'[name] \in 0..Lifetime
        <4>1. CASE left[name] = 0
          BY <1>2, <3>2, <4>1
        <4>2. CASE left[name] # 0
          BY <1>2, <3>1, <3>2, <4>2
        <4> QED
          BY <4>1, <4>2
      <3>4. value'[name] \in Tenants \cup {Null}
        BY <1>2, <3>1
      <3> QED
        BY <3>3, <3>4
    <2>2. left' \in [Names -> 0..Lifetime] /\ value' \in [Names -> Tenants \cup {Null}]
      BY <2>1 DEF Tick
    <2> QED
      BY <1>1, <2>2 DEF CacheInv, TypeOK
  <1>4. \A name \in Names :
          /\ left'[name] = 0 <=> value'[name] = Null
          /\ value'[name] # Null => value'[name] = value[name]
    BY <1>2 DEF CacheInv, OwnNames, Present
  <1>5. OwnNames'
    BY <1>4, NamesDistinct DEF CacheInv, OwnNames, Present
  <1>8. \A c \in Clients : call[c].step = "none" /\ call'[c].step = "none"
    <2> SUFFICES ASSUME NEW c \in Clients
                 PROVE  call[c].step = "none"
      BY <1>1
    <2>1. Idle(c)
      BY <1>1
    <2> QED
      BY <2>1 DEF Idle, NoCall
  <1>6. CallsKnow'
    BY <1>8 DEF CallsKnow, Know, WriteSteps
  <1>7. TwinsEqual'
    <2> SUFFICES ASSUME NEW t \in Tenants, t.id \notin torn
                 PROVE  /\ value'[IdName(t.id)] = value'[KeyName(t.key)]
                        /\ left'[IdName(t.id)] = left'[KeyName(t.key)]
      BY <1>1 DEF TwinsEqual, Twins
    <2>1. ~Writing(t.id) /\ ~Busy(t.id)
      BY <1>8, <1>1 DEF Writing, Busy
    <2>2. /\ value[IdName(t.id)] = value[KeyName(t.key)]
          /\ left[IdName(t.id)] = left[KeyName(t.key)]
      BY <2>1 DEF CacheInv, TwinsEqual, Twins
    <2> QED
      BY <1>2, <2>2, NamesDistinct, TenantFields
  <1> QED
    BY <1>3, <1>5, <1>6, <1>7 DEF CacheInv

-----------------------------------------------------------------------------
(* A step of client c that works on the tenants of id and one entry, name.   *)

\* Nobody but c writes the tenants c administers.
LEMMA OneWriter ==
  ASSUME SeparateTenants, CacheInv, NEW c \in Clients, NEW d \in Clients, c # d,
         NEW u \in Administers[c], call[d].step \in WriteSteps
  PROVE  call[d].tenant.id # u.id
  BY CacheAssumption DEF SeparateTenants, CacheInv, CallsKnow, Know

Effect(c, id, name) ==
  /\ \A d \in Clients \ {c} : call'[d] = call[d]
  /\ Idle(c) \/ call[c].tenant.id = id
  /\ Idle(c)' \/ call'[c].tenant.id = id
  /\ \A n \in Names \ {name} : value'[n] = value[n] /\ left'[n] = left[n]
  /\ value'[name] = Null => left'[name] = 0
  /\ value'[name] # Null => left'[name] = Lifetime

\* The other clients still know what they knew.
LEMMA OthersKnow ==
  ASSUME SeparateTenants, CacheInv, NEW c \in Clients, NEW id, NEW name \in Names,
         Effect(c, id, name),
         \/ value'[name] = value[name]
         \/ \E key \in Keys : name = KeyName(key)
         \/ \E u \in Administers[c] : name = IdName(u.id),
         NEW d \in Clients, d # c
  PROVE  Know(d)'
  <1>1. call'[d] = call[d] /\ Know(d)
    BY DEF Effect, CacheInv, CallsKnow
  <1>2. CASE Idle(d)
    BY <1>1, <1>2 DEF Know, Idle, NoCall, WriteSteps
  <1>3. CASE ~Idle(d)
    <2> DEFINE t == call[d].tenant
    <2>1. t \in Tenants /\ IdName(t.id) \in Names /\ KeyName(t.key) \in Names
          /\ t.id \in Ids /\ t.key \in Keys /\ t # Null
      BY <1>3, CallFacts, TenantFields, NamesDistinct DEF CacheInv
    <2>2. call[d].step \in WriteSteps => value'[IdName(t.id)] = value[IdName(t.id)]
      <3> SUFFICES ASSUME call[d].step \in WriteSteps, name = IdName(t.id)
                   PROVE  value'[name] = value[name]
        BY <2>1 DEF Effect
      <3>1. ASSUME NEW u \in Administers[c], name = IdName(u.id)
            PROVE  FALSE
        BY <2>1, <3>1, OneWriter, NamesDistinct, TenantFields, CacheAssumption
      <3> QED
        BY <2>1, <3>1, NamesDistinct
    <2>3. /\ Present(IdName(t.id))' /\ (Present(IdName(t.id)) => left[IdName(t.id)] = Lifetime)
               => left'[IdName(t.id)] = Lifetime
          /\ Present(KeyName(t.key))' /\ (Present(KeyName(t.key)) => left[KeyName(t.key)] = Lifetime)
               => left'[KeyName(t.key)] = Lifetime
      BY <2>1 DEF Effect, Present
    <2> QED
      BY <1>1, <2>1, <2>2, <2>3 DEF Know, WriteSteps, Present
  <1> QED
    BY <1>2, <1>3

\* The other tenants' twins are as they were.
LEMMA OtherTwins ==
  ASSUME SeparateTenants, CacheInv, NEW c \in Clients, NEW t \in Tenants, NEW name \in Names,
         Effect(c, t.id, name), name \in {IdName(t.id), KeyName(t.key)},
         NEW u \in Tenants, u.id # t.id, u.id \notin torn
  PROVE  Twins(u)'
  <1>1. u.key # t.key
    BY DEF SeparateTenants
  <1>2. /\ value'[IdName(u.id)] = value[IdName(u.id)] /\ left'[IdName(u.id)] = left[IdName(u.id)]
        /\ value'[KeyName(u.key)] = value[KeyName(u.key)] /\ left'[KeyName(u.key)] = left[KeyName(u.key)]
    BY <1>1, NamesDistinct, TenantFields DEF Effect
  <1>3. Writing(u.id)' <=> Writing(u.id)
    BY DEF Effect, Writing, Idle, NoCall
  <1>4. Busy(u.id) => Busy(u.id)'
    BY DEF Effect, Busy, Idle
  <1> QED
    BY <1>2, <1>3, <1>4 DEF CacheInv, TwinsEqual, Twins

\* What is left to show of such a step: c's own knowledge and the twins of id.
LEMMA ClientStep ==
  ASSUME SeparateTenants, CacheInv, TypeOK', NEW c \in Clients, NEW t \in Tenants,
         NEW name \in {IdName(t.id), KeyName(t.key)},
         Effect(c, t.id, name),
         value'[name] # Null => value'[name].id = t.id,
         \/ value'[name] = value[name]
         \/ name = KeyName(t.key)
         \/ \E u \in Administers[c] : name = IdName(u.id),
         torn' \cup {t.id} = torn \cup {t.id},
         Know(c)',
         t.id \notin torn' => Twins(t)'
  PROVE  CacheInv'
  <1>1. name \in Names /\ t.id \in Ids /\ t.key \in Keys
    BY TenantFields, NamesDistinct
  <1>2. OwnNames'
    <2>1. ASSUME NEW n \in Names
          PROVE  left'[n] = 0 <=> value'[n] = Null
      BY TenantFields DEF Effect, CacheInv, OwnNames, Present
    <2>2. ASSUME NEW i \in Ids, value'[IdName(i)] # Null
          PROVE  value'[IdName(i)].id = i
      BY <1>1, <2>2, NamesDistinct DEF Effect, CacheInv, OwnNames, Present
    <2>3. ASSUME NEW k \in Keys, value'[KeyName(k)] # Null
          PROVE  value'[KeyName(k)].key = k
      <3>1. CASE name = KeyName(k)
        <4>1. value'[name] \in Tenants /\ value'[name].id = t.id /\ k = t.key
          BY <1>1, <2>3, <3>1, NamesDistinct DEF TypeOK
        <4> QED
          BY <3>1, <4>1 DEF SeparateTenants
      <3>2. CASE name # KeyName(k)
        BY <2>3, <3>2, NamesDistinct DEF Effect, CacheInv, OwnNames, Present
      <3> QED
        BY <3>1, <3>2
    <2> QED
      BY <2>1, <2>2, <2>3 DEF OwnNames, Present
  <1>3. CallsKnow'
    BY <1>1, OthersKnow DEF CallsKnow
  <1>4. TwinsEqual'
    <2> SUFFICES ASSUME NEW u \in Tenants, u.id \notin torn' PROVE Twins(u)'
      BY DEF TwinsEqual
    <2>1. CASE u.id # t.id
      BY <1>1, <2>1, OtherTwins
    <2>2. CASE u.id = t.id
      <3>1. u.key = t.key
        BY <2>2 DEF SeparateTenants
      <3> QED
        BY <2>2, <3>1 DEF Twins
    <2> QED
      BY <2>1, <2>2
  <1> QED
    BY <1>2, <1>3, <1>4 DEF CacheInv

-----------------------------------------------------------------------------
(* One lemma per action.                                                     *)

LEMMA TouchEffect ==
  ASSUME CacheInv, NEW name \in Names, Touch(name)
  PROVE  /\ value' = value
         /\ \A n \in Names \ {name} : left'[n] = left[n]
         /\ value[name] = Null => left'[name] = 0
         /\ value[name] # Null => left'[name] = Lifetime
         /\ left' \in [Names -> 0..Lifetime]
  <1>1. left \in [Names -> 0..Lifetime] /\ Lifetime \in 0..Lifetime /\ 0 \in 0..Lifetime
    BY TenantFields DEF CacheInv, TypeOK
  <1> QED
    BY <1>1 DEF Touch

LEMMA SetIdInv ==
  ASSUME SeparateTenants, CacheInv, NEW c \in Clients, NEW t \in Tenants, SetId(c, t)
  PROVE  CacheInv'
  <1> DEFINE name == IdName(t.id)
  <1>1. name \in Names /\ Lifetime \in 0..Lifetime /\ t # Null
    BY TenantFields, NamesDistinct
  <1>2. /\ value' = [value EXCEPT ![name] = t] /\ left' = [left EXCEPT ![name] = Lifetime]
        /\ call' = [call EXCEPT ![c] = [step |-> "setKey", tenant |-> t]]
        /\ torn' = torn /\ t \in Administers[c] /\ Idle(c)
    BY DEF SetId, Set, GoTo
  <1>3. TypeOK'
    BY <1>1, <1>2 DEF CacheInv, TypeOK, Steps
  <1>4. value'[name] = t /\ left'[name] = Lifetime
        /\ call'[c].step = "setKey" /\ call'[c].tenant = t
    BY <1>1, <1>2 DEF CacheInv, TypeOK
  <1>5. Effect(c, t.id, name)
    BY <1>1, <1>2, <1>4 DEF Effect, CacheInv, TypeOK
  <1>6. Know(c)'
    BY <1>2, <1>4 DEF Know, WriteSteps
  <1>7. Twins(t)'
    <2>1. Writing(t.id)' /\ Busy(t.id)'
      BY <1>4 DEF Writing, Busy, Idle, NoCall
    <2> QED
      BY <2>1 DEF Twins
  <1> QED
    BY <1>2, <1>3, <1>4, <1>5, <1>6, <1>7, ClientStep

LEMMA SetKeyInv ==
  ASSUME SeparateTenants, CacheInv, NEW c \in Clients, SetKey(c),
         NEW t \in Tenants, t = call[c].tenant
  PROVE  CacheInv'
  <1> DEFINE name == KeyName(t.key)
  <1>1. ~Idle(c) /\ call[c].step = "setKey"
    BY DEF SetKey, At, Idle, NoCall
  <1>2. /\ t \in Tenants /\ name \in Names /\ Lifetime \in 0..Lifetime /\ t # Null
        /\ IdName(t.id) \in Names /\ IdName(t.id) # name /\ t.id \in Ids
    BY <1>1, CallFacts, TenantFields, NamesDistinct DEF CacheInv
  <1>3. /\ value' = [value EXCEPT ![name] = t] /\ left' = [left EXCEPT ![name] = Lifetime]
        /\ call' = [call EXCEPT ![c] = NoCall]
        /\ torn' = torn \ {t.id}
    BY DEF SetKey, Set, Return
  <1>4. TypeOK'
    BY <1>2, <1>3 DEF CacheInv, TypeOK
  <1>5. /\ value'[name] = t /\ left'[name] = Lifetime /\ call'[c] = NoCall
        /\ value'[IdName(t.id)] = t /\ left'[IdName(t.id)] = Lifetime
    BY <1>1, <1>2, <1>3 DEF CacheInv, TypeOK, CallsKnow, Know
  <1>6. Effect(c, t.id, name)
    BY <1>2, <1>3, <1>5 DEF Effect, CacheInv, TypeOK, Idle
  <1>7. Know(c)'
    BY <1>5 DEF Know, WriteSteps, NoCall
  <1>8. Twins(t)'
    BY <1>5 DEF Twins
  <1> QED
    BY <1>2, <1>3, <1>4, <1>5, <1>6, <1>7, <1>8, ClientStep

LEMMA GetByIdInv ==
  ASSUME SeparateTenants, CacheInv, NEW c \in Clients, NEW id \in Ids, GetById(c, id),
         NEW t \in Tenants, t = value[IdName(id)]
  PROVE  CacheInv'
  <1> DEFINE name == IdName(id)
  <1>1. /\ Idle(c) /\ t # Null /\ Touch(name) /\ torn' = torn
        /\ call' = [call EXCEPT ![c] = [step |-> "refreshKey", tenant |-> t]]
    BY DEF GetById, GoTo
  <1>2. name \in Names /\ t \in Tenants /\ t.id = id
    BY <1>1, NamesDistinct DEF CacheInv, TypeOK, OwnNames, Present
  <1>3. /\ value' = value /\ \A n \in Names \ {name} : left'[n] = left[n]
        /\ left'[name] = Lifetime /\ left' \in [Names -> 0..Lifetime]
    BY <1>1, <1>2, TouchEffect
  <1>4. TypeOK'
    BY <1>1, <1>2, <1>3 DEF CacheInv, TypeOK, Steps
  <1>5. call'[c].step = "refreshKey" /\ call'[c].tenant = t
    BY <1>1 DEF CacheInv, TypeOK
  <1>6. Effect(c, t.id, name)
    BY <1>1, <1>2, <1>3, <1>5 DEF Effect, CacheInv, TypeOK
  <1>7. Know(c)'
    BY <1>2, <1>3, <1>5 DEF Know, WriteSteps, Present
  <1>8. t.id \notin torn => Twins(t)'
    <2>1. Writing(t.id)' <=> Writing(t.id)
      BY <1>1, <1>5, <1>6 DEF Writing, Effect, Idle, NoCall
    <2>2. Busy(t.id)'
      BY <1>5 DEF Busy, Idle, NoCall
    <2> QED
      BY <1>2, <1>3, <2>1, <2>2 DEF CacheInv, TwinsEqual, Twins
  <1> QED
    BY <1>1, <1>2, <1>3, <1>4, <1>6, <1>7, <1>8, ClientStep

LEMMA GetByKeyInv ==
  ASSUME SeparateTenants, CacheInv, NEW c \in Clients, NEW key \in Keys,
         NEW next \in {"refreshId", "removeRefresh"}, GetByKey(c, key, next),
         next = "removeRefresh" => \E u \in Administers[c] : u.key = key,
         NEW t \in Tenants, t = value[KeyName(key)]
  PROVE  CacheInv'
  <1> DEFINE name == KeyName(key)
  <1>1. /\ Idle(c) /\ t # Null /\ Touch(name) /\ torn' = torn
        /\ call' = [call EXCEPT ![c] = [step |-> next, tenant |-> t]]
    BY DEF GetByKey, GoTo
  <1>2. name \in Names /\ t \in Tenants /\ t.key = key
    BY <1>1, NamesDistinct DEF CacheInv, TypeOK, OwnNames, Present
  <1>3. /\ value' = value /\ \A n \in Names \ {name} : left'[n] = left[n]
        /\ left'[name] = Lifetime /\ left' \in [Names -> 0..Lifetime]
    BY <1>1, <1>2, TouchEffect
  <1>4. TypeOK'
    BY <1>1, <1>2, <1>3 DEF CacheInv, TypeOK, Steps
  <1>5. call'[c].step = next /\ call'[c].tenant = t
    BY <1>1 DEF CacheInv, TypeOK
  <1>6. Effect(c, t.id, name)
    BY <1>1, <1>2, <1>3, <1>5 DEF Effect, CacheInv, TypeOK
  <1>7. next = "removeRefresh" => \E u \in Administers[c] : u.id = t.id
    BY <1>2, CacheAssumption DEF SeparateTenants
  <1>8. Know(c)'
    BY <1>2, <1>3, <1>5, <1>7 DEF Know, WriteSteps, Present
  <1>9. t.id \notin torn => Twins(t)'
    <2>1. Writing(t.id)' <=> Writing(t.id)
      BY <1>1, <1>5, <1>6 DEF Writing, Effect, Idle, NoCall
    <2>2. Busy(t.id)'
      BY <1>5 DEF Busy, Idle, NoCall
    <2> QED
      BY <1>2, <1>3, <2>1, <2>2 DEF CacheInv, TwinsEqual, Twins
  <1> QED
    BY <1>1, <1>2, <1>3, <1>4, <1>6, <1>8, <1>9, ClientStep

\* The last refresh of a lookup: unless somebody else is at it, both entries
\* are there and fresh, or both are gone.
LEMMA LookupEnds ==
  ASSUME CacheInv, NEW c \in Clients, NEW t \in Tenants,
         ~Idle(c), call[c].tenant.id = t.id, call[c].step \in {"refreshKey", "refreshId"},
         t.id \notin torn, ~Busy(t.id)',
         \A d \in Clients \ {c} : call'[d] = call[d]
  PROVE  value[IdName(t.id)] = value[KeyName(t.key)]
  <1>1. ~Writing(t.id)
    BY DEF Writing, Busy, Idle, NoCall
  <1> QED
    BY <1>1 DEF CacheInv, TwinsEqual, Twins

LEMMA RefreshKeyInv ==
  ASSUME SeparateTenants, CacheInv, NEW c \in Clients, RefreshKey(c),
         NEW t \in Tenants, t = call[c].tenant
  PROVE  CacheInv'
  <1> DEFINE name == KeyName(t.key)
  <1>1. /\ ~Idle(c) /\ call[c].step = "refreshKey" /\ Touch(name) /\ torn' = torn
        /\ call' = [call EXCEPT ![c] = NoCall]
    BY DEF RefreshKey, At, Idle, NoCall, Return
  <1>2. /\ t \in Tenants /\ name \in Names /\ IdName(t.id) \in Names /\ IdName(t.id) # name
        /\ t.key \in Keys
    BY <1>1, CallFacts, TenantFields, NamesDistinct DEF CacheInv
  <1>3. /\ value' = value /\ \A n \in Names \ {name} : left'[n] = left[n]
        /\ value[name] = Null => left'[name] = 0
        /\ value[name] # Null => left'[name] = Lifetime
        /\ left' \in [Names -> 0..Lifetime]
    BY <1>1, <1>2, TouchEffect
  <1>4. TypeOK'
    BY <1>1, <1>3 DEF CacheInv, TypeOK
  <1>5. call'[c] = NoCall
    BY <1>1 DEF CacheInv, TypeOK
  <1>6. Effect(c, t.id, name)
    BY <1>1, <1>3, <1>5 DEF Effect, CacheInv, TypeOK, Idle
  <1>7. Know(c)'
    BY <1>5 DEF Know, WriteSteps, NoCall
  <1>8. value[name] # Null => value[name].id = t.id
    BY <1>2 DEF CacheInv, OwnNames, Present, TypeOK, SeparateTenants
  <1>9. t.id \notin torn => Twins(t)'
    <2> SUFFICES ASSUME t.id \notin torn PROVE Twins(t)'
      OBVIOUS
    <2>1. Writing(t.id)' <=> Writing(t.id)
      BY <1>1, <1>5, <1>6 DEF Writing, Effect, NoCall
    <2>2. ~Busy(t.id)' => left'[IdName(t.id)] = left'[name]
      <3> SUFFICES ASSUME ~Busy(t.id)' PROVE left'[IdName(t.id)] = left'[name]
        OBVIOUS
      <3>1. value[IdName(t.id)] = value[name]
        BY <1>1, <1>2, <1>6, LookupEnds DEF Effect
      <3>2. value[IdName(t.id)] # Null => left[IdName(t.id)] = Lifetime
        BY <1>1 DEF CacheInv, CallsKnow, Know, Present
      <3>3. value[IdName(t.id)] = Null => left[IdName(t.id)] = 0
        BY <1>2 DEF CacheInv, OwnNames, Present
      <3> QED
        BY <1>2, <1>3, <3>1, <3>2, <3>3
    <2> QED
      BY <1>2, <1>3, <2>1, <2>2 DEF CacheInv, TwinsEqual, Twins
  <1> QED
    BY <1>1, <1>2, <1>3, <1>4, <1>6, <1>7, <1>8, <1>9, ClientStep

LEMMA RefreshIdInv ==
  ASSUME SeparateTenants, CacheInv, NEW c \in Clients, RefreshId(c),
         NEW t \in Tenants, t = call[c].tenant
  PROVE  CacheInv'
  <1> DEFINE name == IdName(t.id)
  <1>1. /\ ~Idle(c) /\ call[c].step \in {"refreshId", "removeRefresh"} /\ Touch(name)
        /\ torn' = torn
        /\ call' = [call EXCEPT ![c] = IF call[c].step = "refreshId" THEN NoCall
                                        ELSE [step |-> "removeId", tenant |-> t]]
    BY DEF RefreshId, At, Idle, NoCall, Return, GoTo
  <1>2. /\ t \in Tenants /\ name \in Names /\ KeyName(t.key) \in Names /\ KeyName(t.key) # name
        /\ t.id \in Ids
    BY <1>1, CallFacts, TenantFields, NamesDistinct DEF CacheInv
  <1>3. /\ value' = value /\ \A n \in Names \ {name} : left'[n] = left[n]
        /\ value[name] = Null => left'[name] = 0
        /\ value[name] # Null => left'[name] = Lifetime
        /\ left' \in [Names -> 0..Lifetime]
    BY <1>1, <1>2, TouchEffect
  <1>4. TypeOK'
    BY <1>1, <1>2, <1>3 DEF CacheInv, TypeOK, Steps
  <1>5. \/ call[c].step = "refreshId" /\ call'[c] = NoCall
        \/ call[c].step = "removeRefresh" /\ call'[c] = [step |-> "removeId", tenant |-> t]
    BY <1>1 DEF CacheInv, TypeOK
  <1>6. Effect(c, t.id, name)
    BY <1>1, <1>3, <1>5 DEF Effect, CacheInv, TypeOK, Idle
  <1>7. Know(c)'
    BY <1>5 DEF CacheInv, CallsKnow, Know, WriteSteps, NoCall
  <1>8. value[name] # Null => value[name].id = t.id
    BY <1>2 DEF CacheInv, OwnNames, Present
  <1>9. t.id \notin torn => Twins(t)'
    <2> SUFFICES ASSUME t.id \notin torn PROVE Twins(t)'
      OBVIOUS
    <2>1. Writing(t.id)' <=> Writing(t.id)
      BY <1>1, <1>5, <1>6 DEF Writing, Effect, NoCall
    <2>2. ~Busy(t.id)' => left'[name] = left'[KeyName(t.key)]
      <3> SUFFICES ASSUME ~Busy(t.id)' PROVE left'[name] = left'[KeyName(t.key)]
        OBVIOUS
      <3>1. call[c].step = "refreshId"
        BY <1>5 DEF Busy, Idle, NoCall
      <3>2. value[name] = value[KeyName(t.key)]
        BY <1>1, <1>2, <1>6, <3>1, LookupEnds DEF Effect
      <3>3. value[KeyName(t.key)] # Null => left[KeyName(t.key)] = Lifetime
        BY <3>1 DEF CacheInv, CallsKnow, Know, Present
      <3>4. value[KeyName(t.key)] = Null => left[KeyName(t.key)] = 0
        BY <1>2 DEF CacheInv, OwnNames, Present
      <3> QED
        BY <1>2, <1>3, <3>2, <3>3, <3>4
    <2> QED
      BY <1>2, <1>3, <2>1, <2>2 DEF CacheInv, TwinsEqual, Twins
  <1> QED
    BY <1>1, <1>2, <1>3, <1>4, <1>6, <1>7, <1>8, <1>9, ClientStep

LEMMA RemoveIdInv ==
  ASSUME SeparateTenants, CacheInv, NEW c \in Clients, RemoveId(c),
         NEW t \in Tenants, t = call[c].tenant
  PROVE  CacheInv'
  <1> DEFINE name == IdName(t.id)
  <1>1. /\ ~Idle(c) /\ call[c].step = "removeId" /\ torn' = torn
        /\ value' = [value EXCEPT ![name] = Null] /\ left' = [left EXCEPT ![name] = 0]
        /\ call' = [call EXCEPT ![c] = [step |-> "removeKey", tenant |-> t]]
    BY DEF RemoveId, Delete, At, Idle, NoCall, GoTo
  <1>2. t \in Tenants /\ name \in Names /\ t.id \in Ids /\ 0 \in 0..Lifetime
    BY <1>1, CallFacts, TenantFields, NamesDistinct DEF CacheInv
  <1>3. TypeOK'
    BY <1>1, <1>2 DEF CacheInv, TypeOK, Steps
  <1>4. /\ value'[name] = Null /\ left'[name] = 0
        /\ call'[c].step = "removeKey" /\ call'[c].tenant = t
    BY <1>1, <1>2 DEF CacheInv, TypeOK
  <1>5. Effect(c, t.id, name)
    BY <1>1, <1>4 DEF Effect, CacheInv, TypeOK
  <1>6. \E u \in Administers[c] : u.id = t.id
    BY <1>1 DEF CacheInv, CallsKnow, Know, WriteSteps
  <1>7. Know(c)'
    BY <1>4, <1>6 DEF Know, WriteSteps
  <1>8. Twins(t)'
    <2>1. Writing(t.id)' /\ Busy(t.id)'
      BY <1>4 DEF Writing, Busy, Idle, NoCall
    <2> QED
      BY <2>1 DEF Twins
  <1> QED
    BY <1>1, <1>2, <1>3, <1>4, <1>5, <1>6, <1>7, <1>8, ClientStep

LEMMA RemoveKeyInv ==
  ASSUME SeparateTenants, CacheInv, NEW c \in Clients, RemoveKey(c),
         NEW t \in Tenants, t = call[c].tenant
  PROVE  CacheInv'
  <1> DEFINE name == KeyName(t.key)
  <1>1. /\ ~Idle(c) /\ call[c].step = "removeKey" /\ torn' = torn \ {t.id}
        /\ value' = [value EXCEPT ![name] = Null] /\ left' = [left EXCEPT ![name] = 0]
        /\ call' = [call EXCEPT ![c] = NoCall]
    BY DEF RemoveKey, Delete, At, Idle, NoCall, Return
  <1>2. /\ t \in Tenants /\ name \in Names /\ IdName(t.id) \in Names /\ t.id \in Ids
        /\ 0 \in 0..Lifetime /\ IdName(t.id) # name
    BY <1>1, CallFacts, TenantFields, NamesDistinct DEF CacheInv
  <1>3. TypeOK'
    BY <1>1, <1>2 DEF CacheInv, TypeOK
  <1>4. /\ value'[name] = Null /\ left'[name] = 0 /\ call'[c] = NoCall
        /\ value'[IdName(t.id)] = Null /\ left'[IdName(t.id)] = 0
    BY <1>1, <1>2 DEF CacheInv, TypeOK, CallsKnow, Know, OwnNames, Present
  <1>5. Effect(c, t.id, name)
    BY <1>1, <1>4 DEF Effect, CacheInv, TypeOK, Idle
  <1>6. Know(c)'
    BY <1>4 DEF Know, WriteSteps, NoCall
  <1>7. Twins(t)'
    BY <1>4 DEF Twins
  <1> QED
    BY <1>1, <1>2, <1>3, <1>4, <1>5, <1>6, <1>7, ClientStep

\* An abandoned call changes no entry; the tenant it leaves behind is torn.
LEMMA AbandonInv ==
  ASSUME SeparateTenants, CacheInv, NEW c \in Clients, Abandon(c)
  PROVE  CacheInv'
  <1> DEFINE t == call[c].tenant
  <1>1. /\ ~Idle(c) /\ torn' = torn \cup {t.id} /\ value' = value /\ left' = left
        /\ call' = [call EXCEPT ![c] = NoCall]
    BY DEF Abandon, Return, entries
  <1>2. t \in Tenants /\ t.id \in Ids
    BY <1>1, CallFacts, TenantFields DEF CacheInv
  <1>3. call'[c] = NoCall /\ \A d \in Clients \ {c} : call'[d] = call[d]
    BY <1>1 DEF CacheInv, TypeOK
  <1>4. TypeOK' /\ OwnNames'
    BY <1>1, <1>2 DEF CacheInv, TypeOK, OwnNames, Present
  <1>5. CallsKnow'
    <2>1. Know(c)'
      BY <1>3 DEF Know, WriteSteps, NoCall
    <2>2. ASSUME NEW d \in Clients \ {c} PROVE Know(d)'
      BY <1>1, <1>3 DEF CacheInv, CallsKnow, Know, Present
    <2> QED
      BY <2>1, <2>2 DEF CallsKnow
  <1>6. TwinsEqual'
    <2> SUFFICES ASSUME NEW u \in Tenants, u.id \notin torn' PROVE Twins(u)'
      BY DEF TwinsEqual
    <2>1. u.id # t.id /\ Twins(u)
      BY <1>1 DEF CacheInv, TwinsEqual
    <2>2. (Writing(u.id)' <=> Writing(u.id)) /\ (Busy(u.id) => Busy(u.id)')
      BY <1>3, <2>1 DEF Writing, Busy, Idle, NoCall
    <2> QED
      BY <1>1, <2>1, <2>2 DEF Twins
  <1> QED
    BY <1>4, <1>5, <1>6 DEF CacheInv

LEMMA CacheStep ==
  ASSUME SeparateTenants, Expiry # "anyTime"
  PROVE  CacheInv /\ [Next]_vars => CacheInv'
  <1> SUFFICES ASSUME CacheInv, [Next]_vars PROVE CacheInv'
    OBVIOUS
  <1>1. CASE Tick
    BY <1>1, TickInv
  <1>2. ASSUME NEW c \in Clients, NEW t \in Tenants, SetId(c, t)
        PROVE  CacheInv'
    BY <1>2, SetIdInv
  <1>3. ASSUME NEW c \in Clients, NEW id \in Ids, GetById(c, id)
        PROVE  CacheInv'
    <2>1. value[IdName(id)] \in Tenants
      BY <1>3, NamesDistinct DEF CacheInv, TypeOK, GetById
    <2> QED
      BY <1>3, <2>1, GetByIdInv
  <1>4. ASSUME NEW c \in Clients, NEW key \in Keys, TryGetByKey(c, key) \/ TryRemove(c, key)
        PROVE  CacheInv'
    <2>1. value[KeyName(key)] \in Tenants
      BY <1>4, NamesDistinct DEF CacheInv, TypeOK, TryGetByKey, TryRemove, GetByKey
    <2> QED
      BY <1>4, <2>1, GetByKeyInv DEF TryGetByKey, TryRemove
  <1>5. ASSUME NEW c \in Clients,
               SetKey(c) \/ RefreshKey(c) \/ RefreshId(c) \/ RemoveId(c) \/ RemoveKey(c)
        PROVE  CacheInv'
    <2>1. ~Idle(c)
      BY <1>5 DEF SetKey, RefreshKey, RefreshId, RemoveId, RemoveKey, At, Idle, NoCall
    <2>2. call[c].tenant \in Tenants
      BY <2>1, CallFacts DEF CacheInv
    <2> QED
      BY <1>5, <2>2, SetKeyInv, RefreshKeyInv, RefreshIdInv, RemoveIdInv, RemoveKeyInv
  <1>6. ASSUME NEW c \in Clients, Abandon(c)
        PROVE  CacheInv'
    BY <1>6, AbandonInv
  <1>7. CASE UNCHANGED vars
    BY <1>7 DEF vars, CacheInv, TypeOK, OwnNames, CallsKnow, Know, TwinsEqual, Twins, Writing,
                Busy, Idle, Present
  <1> QED
    BY <1>1, <1>2, <1>3, <1>4, <1>5, <1>6, <1>7 DEF Next, Step

LEMMA CacheInvariant ==
  ASSUME SeparateTenants, Expiry # "anyTime"
  PROVE  Spec => []CacheInv
  <1>1. CacheInv /\ [Next]_vars => CacheInv'
    BY CacheStep
  <1> QED
    BY <1>1, CacheInit, PTL DEF Spec

\* The two entries of a tenant agree whenever no call is writing them and no
\* abandoned call is left to be made good.
THEOREM DualEntriesStaySynced ==
  ASSUME SeparateTenants, Expiry # "anyTime"
  PROVE  Spec => []TwinsInSync
  <1>1. CacheInv => TwinsInSync
    BY DEF CacheInv, TwinsEqual, Twins, TwinsInSync
  <1> QED
    BY <1>1, CacheInvariant, PTL

\* Lookups by one name keep the entry under the other name alive as long.
THEOREM DualEntriesExpireTogether ==
  ASSUME SeparateTenants, Expiry # "anyTime"
  PROVE  Spec => []TwinsExpireTogether
  <1>1. CacheInv => TwinsExpireTogether
    BY DEF CacheInv, TwinsEqual, Twins, TwinsExpireTogether, Busy
  <1> QED
    BY <1>1, CacheInvariant, PTL

\* The cache holds tenants or nothing, and every call in flight has a tenant.
THEOREM CacheTypeCorrect ==
  ASSUME SeparateTenants, Expiry # "anyTime"
  PROVE  Spec => []TypeOK
  <1>1. CacheInv => TypeOK
    BY DEF CacheInv
  <1> QED
    BY <1>1, CacheInvariant, PTL

\* RemovalIsComplete: until the second entry is removed nobody brings the first
\* one back, since nobody else writes the tenant and lookups only refresh.
THEOREM RemovalsAreComplete ==
  ASSUME SeparateTenants, Expiry # "anyTime"
  PROVE  Spec => RemovalIsComplete
  <1> DEFINE Complete ==
        \A c \in Clients :
          LET t == call[c].tenant
          IN At(c, "removeKey") /\ Idle(c)' /\ t.id \notin torn' =>
               value'[IdName(t.id)] = Null /\ value'[KeyName(t.key)] = Null
  <1>1. CacheInv /\ [Next]_vars => [Complete]_vars
    <2> SUFFICES ASSUME CacheInv, Next, NEW c \in Clients, NEW t, t = call[c].tenant,
                        At(c, "removeKey"), Idle(c)', t.id \notin torn'
                 PROVE  value'[IdName(t.id)] = Null /\ value'[KeyName(t.key)] = Null
      BY DEF At
    <2>1. t \in Tenants /\ t.id \in Ids /\ t.key \in Keys
      BY CallFacts, TenantFields DEF CacheInv, At, Idle, NoCall
    <2>2. value[IdName(t.id)] = Null
      BY DEF CacheInv, CallsKnow, Know, At
    <2>3. CASE RemoveKey(c)
      BY <2>1, <2>2, <2>3, NamesDistinct DEF RemoveKey, Delete, CacheInv, TypeOK
    <2>4. CASE Abandon(c)
      BY <2>4 DEF Abandon
    <2>5. ASSUME Step(c), ~RemoveKey(c), ~Abandon(c) PROVE FALSE
      BY <2>5 DEF Step, SetId, GetById, TryGetByKey, TryRemove, GetByKey, SetKey, RefreshKey,
         RefreshId, RemoveId, At, Idle, NoCall
    <2>6. ASSUME NEW d \in Clients, d # c, Step(d) PROVE FALSE
      <3>1. call'[c] = call[c]
        BY <2>6 DEF Step, SetId, GetById, TryGetByKey, TryRemove, GetByKey, SetKey, RefreshKey,
           RefreshId, RemoveId, RemoveKey, Abandon, GoTo, Return, CacheInv, TypeOK
      <3> QED
        BY <3>1 DEF At, Idle, NoCall
    <2>7. CASE Tick
      BY <2>7 DEF Tick, At, Idle, NoCall
    <2> QED
      BY <2>3, <2>4, <2>5, <2>6, <2>7 DEF Next
  <1> QED
    BY <1>1, CacheInvariant, PTL DEF Spec, RemovalIsComplete
=============================================================================
