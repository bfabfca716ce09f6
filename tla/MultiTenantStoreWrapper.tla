----------------------- MODULE MultiTenantStoreWrapper -----------------------
(***************************************************************************)
(* Stores/MultiTenantStoreWrapper.cs around an InMemoryStore, and what     *)
(* administering tenants through it guarantees: any client adds, updates   *)
(* and removes any tenant at any time.                                     *)
(*                                                                         *)
(* TryAddAsync looks the id up, then the identifier, then adds; TryUpdate- *)
(* Async looks the id up, then lets the store update.  Between any two of  *)
(* these calls other clients run.  The wrapper turns an exception of the   *)
(* store into "not found" or "false", so an id that two stored objects     *)
(* share (TryGetAsync throws) looks free to it.                            *)
(***************************************************************************)
EXTENDS InMemoryStore

VARIABLES
  call,    \* per client, the wrapper method in flight
  misled   \* per client, history that only the properties read: the id that
           \* TryAddAsync found free was not, or has been added by another
           \* call since

vars == <<tenantMap, update, call, misled>>

NoCall == [step |-> "none", tenant |-> Null]
Steps  == {"checkKey", "add", "update"}

\* ThrowIfNull on the argument's Id and Key, before anything else is done.
Addable(t)   == t.id # Null /\ t.key # Null
Updatable(t) == t.id # Null

\* The wrapper's TryGetAsync: null as well when the store threw.
GetsNull(id) == \A t \in Tenants : ~Finds(id, t)

AtStep(c, step) == call[c].step = step /\ Idle(c)

GoTo(c, step, t) == call' = [call EXCEPT ![c] = [step |-> step, tenant |-> t]]

\* A plausible mistake: a finished call that leaves its argument behind.
ReturnHalfReset(c) ==
  /\ call' = [call EXCEPT ![c].step = "none"]
  /\ misled' = [misled EXCEPT ![c] = FALSE]

Return(c) ==
  /\ call' = [call EXCEPT ![c] = NoCall]
  /\ misled' = [misled EXCEPT ![c] = FALSE]

\* More than one entry holds the id: TryGetAsync throws.
Doubled(id) == \E s1, s2 \in SlotsWithId(id) : s1 # s2

\* Client d is between TryAddAsync's lookup of the id and its add.
Adding(d, id) == call[d].step \in {"checkKey", "add"} /\ call[d].tenant.id = id

\* A plausible mistake: adding without looking the id up.
AddCheckNothing(c, t) ==
  /\ AtStep(c, "none")
  /\ Addable(t)
  /\ GoTo(c, "checkKey", t)
  /\ misled' = [misled EXCEPT ![c] = Doubled(t.id)]
  /\ UNCHANGED storeVars

AddCheckId(c, t) ==
  /\ AtStep(c, "none")
  /\ Addable(t)
  /\ GetsNull(t.id)
  /\ GoTo(c, "checkKey", t)
  /\ misled' = [misled EXCEPT ![c] = Doubled(t.id)]
  /\ UNCHANGED storeVars

AddCheckKey(c) ==
  /\ AtStep(c, "checkKey")
  /\ \/ /\ TryGetByKey(call[c].tenant.key) = Null
        /\ GoTo(c, "add", call[c].tenant)
        /\ UNCHANGED misled
     \/ /\ TryGetByKey(call[c].tenant.key) # Null
        /\ Return(c)
  /\ UNCHANGED storeVars

\* The store's own TryAddAsync adds, or returns false when the identifier was
\* taken meanwhile.
Add(c) ==
  LET t == call[c].tenant
  IN /\ AtStep(c, "add")
     /\ \/ /\ TryAdd(c, t)
           /\ call' = [call EXCEPT ![c] = NoCall]
           /\ misled' = [d \in Clients |-> d # c /\ (misled[d] \/ Adding(d, t.id))]
        \/ /\ TryGetByKey(t.key) # Null
           /\ Return(c)
           /\ UNCHANGED storeVars

UpdateCheckId(c, t) ==
  /\ AtStep(c, "none")
  /\ Updatable(t)
  /\ ~GetsNull(t.id)
  /\ GoTo(c, "update", t)
  /\ UNCHANGED <<storeVars, misled>>

\* The store's TryUpdateAsync finds the object to replace, or returns false
\* (none, or one without an identifier) or throws (two of them).
UpdateRead(c) ==
  LET t == call[c].tenant
  IN /\ AtStep(c, "update")
     /\ \/ TryUpdateRead(c, t) /\ UNCHANGED <<call, misled>>
        \/ /\ \A u \in Tenants : Finds(t.id, u) => u.key = Null
           /\ Return(c)
           /\ UNCHANGED storeVars

UpdateSwap(c) == TryUpdateSwap(c) /\ Return(c)

Remove(c, k) == AtStep(c, "none") /\ TryRemove(c, k) /\ UNCHANGED <<call, misled>>

WInit ==
  /\ InitStore
  /\ call = [c \in Clients |-> NoCall]
  /\ misled = [c \in Clients |-> FALSE]

WNext ==
  \E c \in Clients :
    \/ \E t \in Tenants : AddCheckId(c, t) \/ UpdateCheckId(c, t)
    \/ AddCheckKey(c) \/ Add(c)
    \/ UpdateRead(c) \/ UpdateSwap(c)
    \/ \E k \in Keys : Remove(c, k)

WSpec == WInit /\ [][WNext]_vars
-----------------------------------------------------------------------------
WTypeOK ==
  /\ TypeOK
  /\ call \in [Clients -> {NoCall} \cup [step : Steps, tenant : Tenants]]
  /\ misled \in [Clients -> BOOLEAN]

\* No two entries of the store hold the same id.  (Each entry counts: one object
\* under two identifiers makes TryGetAsync throw just as two objects do.)
UniqueIds ==
  \A s1, s2 \in Slots :
    tenantMap[s1] # Null /\ tenantMap[s2] # Null /\ tenantMap[s1].id = tenantMap[s2].id
      => s1 = s2

\* ITenantInfo.cs: Id is "a unique id for the tenant".  Neither the options nor
\* the dictionary enforce it, only the wrapper's lookup.  While the ids are
\* unique, nothing takes that away but an add whose lookup was overtaken by
\* another add of the id, or had thrown over entries that shared it: no update,
\* rename or removal, however late, and no other add.
OnlyMisledAddsShareIds ==
  [][UniqueIds /\ ~UniqueIds' => \E c \in Clients : Add(c) /\ misled[c]]_vars

-----------------------------------------------------------------------------
(* The wrapped store beside TenantRegistry.                                *)

\* Tenants with an identifier.
Identified == {t \in Tenants : t.key # Null}

Registry == INSTANCE TenantRegistry WITH Tenants <- Identified, registered <- Stored

\* Every entry is under the identifier of its tenant.
AtOwnKey ==
  \A s \in Slots : tenantMap[s] # Null =>
    tenantMap[s].key \in Keys /\ Comparer[tenantMap[s].key] = s

\* The update in flight gives its tenant no identifier, or that of another tenant.
TakesKey(c) ==
  LET t == update[c].tenant
  IN \/ t.key = Null
     \/ \E u \in Stored : u.id # t.id /\ u.key # Null /\ Comparer[u.key] = Comparer[t.key]

\* From a state the registry may be in, every step is a registration, a
\* replacement, a removal, or invisible, with two exceptions that the code
\* leaves open: a misled add that stores an id twice, and an update that takes
\* another tenant's identifier, which TryUpdateAsync does not look up.
RegistrySteps ==
  [][UniqueIds /\ AtOwnKey =>
       \/ \E c \in Clients : Add(c) /\ misled[c] /\ ~UniqueIds'
       \/ \E c \in Clients : UpdateSwap(c) /\ TakesKey(c)
       \/ Registry!Next
       \/ UNCHANGED Stored]_vars
=============================================================================
