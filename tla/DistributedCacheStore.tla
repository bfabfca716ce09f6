------------------------ MODULE DistributedCacheStore ------------------------
(***************************************************************************)
(* Stores/DistributedCacheStore/DistributedCacheStore.cs: every tenant is  *)
(* kept twice in an IDistributedCache, as "id__<Id>" and as                *)
(* "identifier__<Key>", by several awaits per call and no lock or          *)
(* transaction around them.                                                *)
(*                                                                         *)
(* The cache (external) does one operation at a time: Set, Get, Refresh    *)
(* and Remove of one entry.  With a sliding expiration an entry disappears *)
(* after Lifetime ticks in which it was neither set, got nor refreshed.  A *)
(* member of Tenants stands for a serialized tenant, so = is equality of   *)
(* values.  A call is abandoned where the cache throws or the process dies.*)
(***************************************************************************)
EXTENDS TenantInfo, Integers

CONSTANTS
  Clients,      \* processes and threads that use the cache
  Tenants,      \* tenant values, records with fields id and key
  Lifetime,     \* ticks of the sliding expiration
  Expiry,       \* "never"; "betweenCalls", a call being short against a tick; "anyTime"
  CallsFail,    \* whether a call may be abandoned half way
  Administers   \* the tenants each client adds, updates and removes

ASSUME CacheAssumption ==
  /\ Null \notin Tenants
  /\ Lifetime \in Nat \ {0}
  /\ \A t \in Tenants : t.id \in Ids /\ t.key \in Keys
  /\ Expiry \in {"never", "betweenCalls", "anyTime"}
  /\ CallsFail \in BOOLEAN
  /\ Administers \in [Clients -> SUBSET Tenants]

IdName(id)   == <<"id", id>>
KeyName(key) == <<"identifier", key>>
Names == {IdName(id) : id \in Ids} \cup {KeyName(key) : key \in Keys}

VARIABLES
  value,   \* the cache: entry name |-> tenant or Null
  left,    \* ticks until the entry expires; 0 when there is none
  call,    \* per client, the method in flight and the tenant it works on
  torn     \* history: ids of the calls that were abandoned and not made good since

entries == <<value, left>>
vars    == <<value, left, call, torn>>

NoCall == [step |-> "none", tenant |-> Null]
Steps  == {"setKey", "refreshKey", "refreshId", "removeRefresh", "removeId", "removeKey"}

GoTo(c, step, t) == call' = [call EXCEPT ![c] = [step |-> step, tenant |-> t]]
Return(c)        == call' = [call EXCEPT ![c] = NoCall]
Idle(c)          == call[c] = NoCall
At(c, step)      == call[c].step = step

(* IDistributedCache *)
Set(name, t) ==
  /\ value' = [value EXCEPT ![name] = t]
  /\ left' = [left EXCEPT ![name] = Lifetime]

\* Get and Refresh: both restart the expiration of an entry that is there.
Touch(name) ==
  /\ left' = [left EXCEPT ![name] = IF value[name] = Null THEN 0 ELSE Lifetime]
  /\ UNCHANGED value

Delete(name) ==
  /\ value' = [value EXCEPT ![name] = Null]
  /\ left' = [left EXCEPT ![name] = 0]

Tick ==
  /\ Expiry = "anyTime" \/ (Expiry = "betweenCalls" /\ \A c \in Clients : Idle(c))
  /\ \E name \in Names : value[name] # Null
  /\ left' = [name \in Names |-> IF left[name] = 0 THEN 0 ELSE left[name] - 1]
  /\ value' = [name \in Names |-> IF left'[name] = 0 THEN Null ELSE value[name]]
  /\ UNCHANGED <<call, torn>>

Init ==
  /\ value = [name \in Names |-> Null]
  /\ left = [name \in Names |-> 0]
  /\ call = [c \in Clients |-> NoCall]
  /\ torn = {}
-----------------------------------------------------------------------------
(* TryAddAsync; TryUpdateAsync is the same call. *)
SetId(c, t) ==
  /\ Idle(c)
  /\ t \in Administers[c]
  /\ Set(IdName(t.id), t)
  /\ GoTo(c, "setKey", t)
  /\ UNCHANGED torn

SetKey(c) ==
  /\ At(c, "setKey")
  /\ Set(KeyName(call[c].tenant.key), call[c].tenant)
  /\ Return(c)
  /\ torn' = torn \ {call[c].tenant.id}

(* TryGetAsync: get by id, then refresh the twin the value names. *)
GetById(c, id) ==
  /\ Idle(c)
  /\ value[IdName(id)] # Null
  /\ Touch(IdName(id))
  /\ GoTo(c, "refreshKey", value[IdName(id)])
  /\ UNCHANGED torn

\* A plausible mistake: refreshing the entry that was just got.
RefreshSame(c) ==
  /\ At(c, "refreshKey")
  /\ Touch(IdName(call[c].tenant.id))
  /\ Return(c)
  /\ UNCHANGED torn

RefreshKey(c) ==
  /\ At(c, "refreshKey")
  /\ Touch(KeyName(call[c].tenant.key))
  /\ Return(c)
  /\ UNCHANGED torn

(* TryGetByKeyAsync, which TryRemoveAsync begins with. *)
GetByKey(c, key, next) ==
  /\ Idle(c)
  /\ value[KeyName(key)] # Null
  /\ Touch(KeyName(key))
  /\ GoTo(c, next, value[KeyName(key)])
  /\ UNCHANGED torn

RefreshId(c) ==
  /\ At(c, "refreshId") \/ At(c, "removeRefresh")
  /\ Touch(IdName(call[c].tenant.id))
  /\ IF At(c, "refreshId") THEN Return(c) ELSE GoTo(c, "removeId", call[c].tenant)
  /\ UNCHANGED torn

TryGetByKey(c, key) == GetByKey(c, key, "refreshId")

TryRemove(c, key) ==
  /\ \E t \in Administers[c] : t.key = key
  /\ GetByKey(c, key, "removeRefresh")

\* A plausible mistake: taking the identifier for the id.
RemoveIdByKey(c) ==
  /\ At(c, "removeId")
  /\ Delete(KeyName(call[c].tenant.key))
  /\ GoTo(c, "removeKey", call[c].tenant)
  /\ UNCHANGED torn

RemoveId(c) ==
  /\ At(c, "removeId")
  /\ Delete(IdName(call[c].tenant.id))
  /\ GoTo(c, "removeKey", call[c].tenant)
  /\ UNCHANGED torn

\* A plausible mistake: a frame that is not left.
RemoveKeyNoReturn(c) ==
  /\ At(c, "removeKey")
  /\ Delete(KeyName(call[c].tenant.key))
  /\ call' = [call EXCEPT ![c].tenant = Null]
  /\ torn' = torn \ {call[c].tenant.id}

RemoveKey(c) ==
  /\ At(c, "removeKey")
  /\ Delete(KeyName(call[c].tenant.key))
  /\ Return(c)
  /\ torn' = torn \ {call[c].tenant.id}

Abandon(c) ==
  /\ CallsFail
  /\ ~Idle(c)
  /\ Return(c)
  /\ torn' = torn \cup {call[c].tenant.id}
  /\ UNCHANGED entries

Step(c) ==
  \/ \E t \in Tenants : SetId(c, t)
  \/ \E id \in Ids : GetById(c, id)
  \/ \E key \in Keys : TryGetByKey(c, key) \/ TryRemove(c, key)
  \/ SetKey(c) \/ RefreshKey(c) \/ RefreshId(c) \/ RemoveId(c) \/ RemoveKey(c)
  \/ Abandon(c)

Next == Tick \/ \E c \in Clients : Step(c)

Spec == Init /\ [][Next]_vars
-----------------------------------------------------------------------------
\* Clients administer different tenants, and a tenant keeps one identifier that
\* no other tenant has.  Anybody may look tenants up.
SeparateTenants ==
  /\ \A t, u \in Tenants : t.id = u.id <=> t.key = u.key
  /\ \A c, d \in Clients : c # d =>
       \A t \in Administers[c], u \in Administers[d] : t.id # u.id

TypeOK ==
  /\ value \in [Names -> Tenants \cup {Null}]
  /\ left \in [Names -> 0..Lifetime]
  /\ call \in [Clients -> {NoCall} \cup [step : Steps, tenant : Tenants]]
  /\ torn \subseteq Ids

\* A client is between the first and the last write of a tenant's two entries.
Writing(id) ==
  \E c \in Clients :
    call[c].step \in {"setKey", "removeKey"} /\ call[c].tenant.id = id

\* docs/Stores.md: "TryAddAsync, TryUpdateAsync, and TryRemoveAsync will keep
\* these dual cache entries synced".  What is found by its id is found by its
\* identifier and the other way round, except while a call is writing it; a
\* call that was cut short is made good by the next one that is completed.
TwinsInSync ==
  \A t \in Tenants : ~Writing(t.id) /\ t.id \notin torn =>
    (value[IdName(t.id)] = t <=> value[KeyName(t.key)] = t)

\* The comments in TryGetAsync and TryGetByKeyAsync: refresh the other entry "to
\* keep things synced".  Whichever entry a tenant is looked up by, both expire
\* at the same tick.
TwinsExpireTogether ==
  (\A c \in Clients : Idle(c)) =>
    \A t \in Tenants : t.id \notin torn => left[IdName(t.id)] = left[KeyName(t.key)]

\* When a removal ends, whatever was looked up meanwhile, the tenant is gone
\* under both names.
RemovalIsComplete ==
  [][\A c \in Clients :
       LET t == call[c].tenant
       IN At(c, "removeKey") /\ Idle(c)' /\ t.id \notin torn' =>
            value'[IdName(t.id)] = Null /\ value'[KeyName(t.key)] = Null]_vars
=============================================================================
