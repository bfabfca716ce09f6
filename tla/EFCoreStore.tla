------------------------------ MODULE EFCoreStore ------------------------------
(***************************************************************************)
(* Stores/EFCoreStore/EFCoreStore.cs: the tenants are rows of a database,  *)
(* reached through a DbContext per scope.                                  *)
(*                                                                         *)
(* External: the database, with the primary key and the unique index of    *)
(* EFCoreStoreDbContext, and the change tracker of a DbContext.  A context *)
(* tracks one object per id.  SaveChangesAsync sends every pending entry in*)
(* one transaction; when the database refuses it or cannot be reached, it  *)
(* throws, the rows stay as they are, and so does the change tracker.      *)
(*                                                                         *)
(* A context serves one call at a time.  A call that returns false, null or*)
(* throws without touching rows or tracker is not an action, and neither   *)
(* are the queries of the Get methods, which track nothing.                *)
(***************************************************************************)
EXTENDS TenantInfo

CONSTANTS
  Contexts,
  Tenants     \* the tenant objects, records with fields id and key

\* The entries of change trackers; own: the object is the caller's and was not
\* made by a query.
Entries == [tenant : Tenants, state : {"Added", "Modified", "Deleted", "Unchanged"}, own : BOOLEAN]

StoreParameters ==
  /\ Null \notin Ids /\ Null \notin Tenants /\ Null \notin Entries
  /\ \A t \in Tenants : t.id \in Ids /\ t.key \in Keys

ASSUME StoreAssumption == StoreParameters

VARIABLES
  rows,      \* the table: id |-> tenant or Null
  tracked,   \* per context and id, the entry of its change tracker or Null
  removing   \* per context, the id of the entity a TryRemoveAsync has found

efVars == <<rows, tracked, removing>>

Entry(t, state, own) == [tenant |-> t, state |-> state, own |-> own]

Untracked == [id \in Ids |-> Null]

IsPending(tr, id) == tr[id] # Null /\ tr[id].state # "Unchanged"
HasPending(c) == \E id \in Ids : IsPending(tracked[c], id)

Idle(c) == removing[c] = Null

(* SaveChangesAsync                                                         *)
\* The rows after the pending entries of tr were sent.
Sent(tr) ==
  [id \in Ids |->
     IF ~IsPending(tr, id) THEN rows[id]
     ELSE IF tr[id].state = "Deleted" THEN Null ELSE tr[id].tenant]

UniqueKeys(table) ==
  \A i, j \in Ids : i # j /\ table[i] # Null /\ table[j] # Null => table[i].key # table[j].key

\* A plausible mistake: an index on the identifier that is not unique.
AcceptsAnyKey(tr) ==
  \A id \in Ids : IsPending(tr, id) => (rows[id] = Null <=> tr[id].state = "Added")

\* No row is inserted twice, none is updated or deleted that is not there.
Accepts(tr) ==
  /\ \A id \in Ids : IsPending(tr, id) => (rows[id] = Null <=> tr[id].state = "Added")
  /\ UniqueKeys(Sent(tr))

\* The change tracker once its entries are saved.
Saved(tr) ==
  [id \in Ids |->
     IF ~IsPending(tr, id) THEN tr[id]
     ELSE IF tr[id].state = "Deleted" THEN Null
     ELSE Entry(tr[id].tenant, "Unchanged", tr[id].own)]

\* Context c saves tr, and the call goes on to leave the tracker as after.
SaveChanges(c, tr, after) ==
  \/ /\ Accepts(tr)
     /\ rows' = Sent(tr)
     /\ tracked' = [tracked EXCEPT ![c] = after]
  \/ /\ tracked' = [tracked EXCEPT ![c] = tr]
     /\ UNCHANGED rows

\* Add and Update throw when the context tracks another object with the id.
MayTrack(c, t) ==
  tracked[c][t.id] # Null => tracked[c][t.id].own /\ tracked[c][t.id].tenant = t

Detach(tr, id) == [tr EXCEPT ![id] = Null]

\* A plausible mistake: the added entity stays tracked.
TryAddNoDetach(c, t) ==
  LET tr == [tracked[c] EXCEPT ![t.id] = Entry(t, "Added", TRUE)]
  IN /\ Idle(c) /\ MayTrack(c, t)
     /\ SaveChanges(c, tr, Saved(tr))
     /\ UNCHANGED removing

TryAdd(c, t) ==
  LET tr == [tracked[c] EXCEPT ![t.id] = Entry(t, "Added", TRUE)]
  IN /\ Idle(c) /\ MayTrack(c, t)
     /\ SaveChanges(c, tr, Detach(Saved(tr), t.id))
     /\ UNCHANGED removing

TryUpdate(c, t) ==
  LET tr == [tracked[c] EXCEPT ![t.id] = Entry(t, "Modified", TRUE)]
  IN /\ Idle(c) /\ MayTrack(c, t)
     /\ SaveChanges(c, tr, Detach(Saved(tr), t.id))
     /\ UNCHANGED removing

\* A plausible mistake: the query of TryRemoveAsync made with AsNoTracking.
TryRemoveQueryNoTracking(c, id, key) ==
  /\ Idle(c)
  /\ rows[id] # Null /\ rows[id].key = key
  /\ removing' = [removing EXCEPT ![c] = id]
  /\ UNCHANGED <<rows, tracked>>

\* TryRemoveAsync, the query: an entity the context tracks already is returned
\* as it is tracked.
TryRemoveQuery(c, id, key) ==
  /\ Idle(c)
  /\ rows[id] # Null /\ rows[id].key = key
  /\ removing' = [removing EXCEPT ![c] = id]
  /\ tracked' = [tracked EXCEPT ![c][id] =
       IF @ = Null THEN Entry(rows[id], "Unchanged", FALSE) ELSE @]
  /\ UNCHANGED rows

\* TryRemoveAsync, Remove and the save: an entity that was never saved is only
\* taken out of the tracker.
TryRemoveSave(c) ==
  LET id == removing[c]
      tr == [tracked[c] EXCEPT ![id] =
               IF @.state = "Added" THEN Null ELSE [@ EXCEPT !.state = "Deleted"]]
  IN /\ ~Idle(c)
     /\ SaveChanges(c, tr, Saved(tr))
     /\ removing' = [removing EXCEPT ![c] = Null]

\* The scope ends, also under a call, and the next one has a context of its own.
NewScope(c) ==
  /\ tracked' = [tracked EXCEPT ![c] = Untracked]
  /\ removing' = [removing EXCEPT ![c] = Null]
  /\ UNCHANGED rows

EFInit ==
  /\ rows \in {r \in [Ids -> Tenants \cup {Null}] :
       UniqueKeys(r) /\ \A id \in Ids : r[id] # Null => r[id].id = id}
  /\ tracked = [c \in Contexts |-> Untracked]
  /\ removing = [c \in Contexts |-> Null]

BeginCall(c) ==
  \/ \E t \in Tenants : TryAdd(c, t) \/ TryUpdate(c, t)
  \/ \E id \in Ids, key \in Keys : TryRemoveQuery(c, id, key)

EFNext == \E c \in Contexts : BeginCall(c) \/ TryRemoveSave(c) \/ NewScope(c)

EFSpec == EFInit /\ [][EFNext]_efVars

\* A context that has failed to save is not used for another call.
CarefulNext ==
  \E c \in Contexts :
    \/ ~HasPending(c) /\ BeginCall(c)
    \/ TryRemoveSave(c)
    \/ NewScope(c)

CarefulSpec == EFInit /\ [][CarefulNext]_efVars
-----------------------------------------------------------------------------
EFTypeOK ==
  /\ rows \in [Ids -> Tenants \cup {Null}]
  /\ \A id \in Ids : rows[id] # Null => rows[id].id = id
  /\ tracked \in [Contexts -> [Ids -> Entries \cup {Null}]]
  /\ removing \in [Contexts -> Ids \cup {Null}]
  /\ \A c \in Contexts : ~Idle(c) => tracked[c][removing[c]] # Null

\* Between calls a context that saved all it was given tracks nothing.  So no
\* call of it is refused, or works on an old version of a tenant, because of an
\* object an earlier one left behind.
CleanBetweenCalls ==
  \A c \in Contexts : Idle(c) /\ ~HasPending(c) => tracked[c] = Untracked

Registry == INSTANCE TenantRegistry
  WITH registered <- {rows[id] : id \in Ids} \ {Null}, Comparer <- [k \in Keys |-> k]

\* IMultiTenantStore.cs: "True if successfully added", "updated", "removed".  Used
\* by contexts that are given up when a save fails, the store implements the
\* registry: a call that failed never takes effect along with a later one, and
\* however contexts interleave, ids and identifiers stay unique.
RegistrySpec == Registry!Spec
=============================================================================
