---------------------------- MODULE InMemoryStore ----------------------------
(***************************************************************************)
(* Stores/InMemoryStore/InMemoryStore.cs: a ConcurrentDictionary from      *)
(* identifiers to tenant objects, called from any number of threads.       *)
(*                                                                         *)
(* The dictionary compares identifiers with Comparer: two spellings are    *)
(* one key exactly when Comparer maps them to one representative (the      *)
(* identity when IsCaseSensitive).  A member of Tenants stands for one C#  *)
(* object, so = is the reference equality ConcurrentDictionary.TryUpdate   *)
(* uses.  Each dictionary operation is atomic; TryUpdateAsync is the only  *)
(* method that makes two of them.  A call that returns false or throws     *)
(* without touching the dictionary is not an action.                       *)
(***************************************************************************)
EXTENDS TenantInfo, Integers, FiniteSets

CONSTANTS
  Clients,    \* threads that call the store
  Tenants,    \* the tenant objects, records with fields id and key
  Comparer    \* the dictionary's string comparer

ASSUME TenantsAssumption ==
  /\ Null \notin Ids /\ Null \notin Keys /\ Null \notin Tenants
  /\ \A t \in Tenants : t.id \in Ids \cup {Null} /\ t.key \in Keys \cup {Null}
  /\ Comparer \in [Keys -> Keys]

VARIABLES
  tenantMap,  \* _tenantMap: representative of an identifier |-> object or Null
  update      \* per client, the TryUpdateAsync in flight

storeVars == <<tenantMap, update>>

Slots == {Comparer[k] : k \in Keys}

NoUpdate == [tenant |-> Null, existing |-> Null]

SlotsWithId(id) == {s \in Slots : tenantMap[s] # Null /\ tenantMap[s].id = id}

\* TryGetAsync(id): Values.SingleOrDefault(ti => ti.Id == id) finds t.  It
\* finds nothing when no object has the id, and throws when two have it.
Finds(id, t) == \E s \in Slots : SlotsWithId(id) = {s} /\ t = tenantMap[s]

\* TryGetByKeyAsync(key)
TryGetByKey(key) == tenantMap[Comparer[key]]

\* The objects the dictionary holds.  (GetAllAsync enumerates the dictionary
\* without a snapshot: its answer mixes what was there at different moments, and
\* nothing here reads it.)
Stored == {tenantMap[s] : s \in Slots} \ {Null}

\* What the constructor accepts: objects with an id and an identifier, each
\* under its own identifier.  It looks for duplicate identifiers only.
LoadedFromOptions(m) ==
  \A s \in Slots : m[s] # Null => /\ m[s].id # Null
                                  /\ m[s].key # Null
                                  /\ Comparer[m[s].key] = s

InitStore ==
  /\ tenantMap \in {m \in [Slots -> Tenants \cup {Null}] : LoadedFromOptions(m)}
  /\ update = [c \in Clients |-> NoUpdate]

Idle(c) == update[c] = NoUpdate

\* A plausible mistake: the indexer instead of ConcurrentDictionary.TryAdd.
TryAddByIndexer(c, t) ==
  /\ Idle(c)
  /\ t.key # Null
  /\ tenantMap' = [tenantMap EXCEPT ![Comparer[t.key]] = t]
  /\ UNCHANGED update

TryAdd(c, t) ==
  /\ Idle(c)
  /\ t.key # Null
  /\ tenantMap[Comparer[t.key]] = Null
  /\ tenantMap' = [tenantMap EXCEPT ![Comparer[t.key]] = t]
  /\ UNCHANGED update

TryRemove(c, key) ==
  /\ Idle(c)
  /\ TryGetByKey(key) # Null
  /\ tenantMap' = [tenantMap EXCEPT ![Comparer[key]] = Null]
  /\ UNCHANGED update

\* TryUpdateAsync, first half: find the object that has the id now.
TryUpdateRead(c, t) ==
  /\ Idle(c)
  /\ t.id # Null
  /\ \E existing \in Tenants :
       /\ Finds(t.id, existing)
       /\ existing.key # Null
       /\ update' = [update EXCEPT ![c] = [tenant |-> t, existing |-> existing]]
  /\ UNCHANGED tenantMap

\* A plausible mistake in the second half of TryUpdateAsync: writing through the
\* indexer, without the comparison.
TryUpdateSwapByIndexer(c) ==
  /\ ~Idle(c)
  /\ tenantMap' = [tenantMap EXCEPT ![Comparer[update[c].existing.key]] = update[c].tenant]
  /\ update' = [update EXCEPT ![c] = NoUpdate]

\* TryUpdateAsync, second half: _tenantMap.TryUpdate(existing.Key, new, existing).
TryUpdateSwap(c) ==
  LET new      == update[c].tenant
      existing == update[c].existing
      slot     == Comparer[existing.key]
  IN /\ ~Idle(c)
     /\ IF tenantMap[slot] = existing
          THEN tenantMap' = [tenantMap EXCEPT ![slot] = new]
          ELSE UNCHANGED tenantMap
     /\ update' = [update EXCEPT ![c] = NoUpdate]

Init == InitStore

Next ==
  \E c \in Clients :
    \/ \E t \in Tenants : TryAdd(c, t) \/ TryUpdateRead(c, t)
    \/ \E k \in Keys : TryRemove(c, k)
    \/ TryUpdateSwap(c)

Spec == Init /\ [][Next]_storeVars
-----------------------------------------------------------------------------
TypeOK ==
  /\ tenantMap \in [Slots -> Tenants \cup {Null}]
  /\ update \in [Clients -> {NoUpdate} \cup [tenant : Tenants, existing : Tenants]]

\* An entry that is overwritten is overwritten by another version of the same
\* tenant: between the two halves of an update the entry may have been removed
\* and another tenant added under the identifier, and the update must not
\* replace that one.
EntryKeepsItsTenant ==
  [][\A s \in Slots :
       tenantMap[s] # Null /\ tenantMap'[s] # Null
         => tenantMap'[s].id = tenantMap[s].id]_storeVars

\* An update never brings a removed tenant back: no step of a client that is
\* in the middle of an update, whatever it read, fills an empty entry.
UpdateNeverResurrects ==
  [][\A c \in Clients :
       ~Idle(c) /\ update'[c] = NoUpdate
         => \A s \in Slots : tenantMap[s] = Null => tenantMap'[s] = Null]_storeVars
=============================================================================
