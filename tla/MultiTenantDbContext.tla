-------------------------- MODULE MultiTenantDbContext --------------------------
(***************************************************************************)
(* MultiTenantDbContext.cs, MultiTenantIdentityDbContext.cs and            *)
(* MultiTenantDbContextExtensions.cs: contexts of several tenants over one *)
(* table.  The table and the change trackers are Entity Framework's        *)
(* (external); a tracked entity is known by its state and the value of its *)
(* TenantId.  An UPDATE or a DELETE goes by the primary key alone, whatever*)
(* tenant the row is of, so it is EnforceMultiTenant that keeps a context  *)
(* to its tenant.                                                          *)
(*                                                                         *)
(* EnforceMultiTenant reads nothing but the context's own tracker, so it   *)
(* makes one step with the transaction that follows it.                    *)
(***************************************************************************)
EXTENDS Naturals

CONSTANTS
  Contexts,
  LateBound,    \* contexts that ask the accessor each time (Identity), not once
  TenantIds,
  Keys,         \* primary keys; the database never gives one out twice
  Modes,        \* the modes that contexts are set to
  ManualIds,    \* what applications write into the TenantId of tracked entities
  Null

Mode(mismatch, notSet) == [mismatch |-> mismatch, notSet |-> notSet]
DefaultMode == Mode("Throw", "Throw")

ASSUME DbContextAssumption ==
  /\ Null \notin TenantIds
  /\ LateBound \subseteq Contexts
  /\ DefaultMode \in Modes
  /\ Modes \subseteq [mismatch : {"Throw", "Ignore", "Overwrite"}, notSet : {"Throw", "Overwrite"}]
  /\ ManualIds \subseteq TenantIds \cup {Null}

VARIABLES
  tenant,  \* per context, the id of its TenantInfo or Null
  mode,    \* per context, TenantMismatchMode and TenantNotSetMode
  tracked, \* per context and key, the entry of the change tracker
  row,     \* per key, whether there is a row, and whose
  author   \* history: per key, the tenant under which the row was written last

vars == <<tenant, mode, tracked, row, author>>

\* marked: the change tracker will write the TenantId of a modified entity.
Entry(state, tenantId, marked) ==
  [state |-> state, tenantId |-> tenantId, marked |-> marked]
Detached == Entry("Detached", Null, FALSE)

Row(status, owner) == [status |-> status, owner |-> owner]

Init ==
  /\ tenant \in [Contexts -> TenantIds \cup {Null}]
  /\ mode = [c \in Contexts |-> DefaultMode]
  /\ tracked = [c \in Contexts |-> [k \in Keys |-> Detached]]
  /\ row = [k \in Keys |-> Row("unused", Null)]
  /\ author = [k \in Keys |-> Null]
-----------------------------------------------------------------------------
(* EnforceMultiTenant, as a function of a tracker, a tenant and a mode.     *)
Changed(entries) == {k \in Keys : entries[k].state \in {"Added", "Modified", "Deleted"}}
InState(entries, state) == {k \in Keys : entries[k].state = state}
Mismatched(entries, state, id) ==
  {k \in InState(entries, state) : entries[k].tenantId \notin {Null, id}}
NotSet(entries, state) == {k \in InState(entries, state) : entries[k].tenantId = Null}

Overwrite(entries, keys, id) ==
  [k \in Keys |-> IF k \in keys THEN Entry(entries[k].state, id, TRUE) ELSE entries[k]]

OverwriteMismatched(entries, state, id, m) ==
  IF m.mismatch = "Overwrite" THEN Overwrite(entries, Mismatched(entries, state, id), id)
                              ELSE entries

MismatchThrows(entries, state, id, m) ==
  m.mismatch = "Throw" /\ Mismatched(entries, state, id) # {}

\* A plausible mistake: what is not set is overwritten in all modes, as it is
\* for added entities.
NotSetThrowsIfDeleted(entries, state, m) ==
  m.notSet = "Throw" /\ state = "Deleted" /\ NotSet(entries, state) # {}

NotSetThrows(entries, state, m) == m.notSet = "Throw" /\ NotSet(entries, state) # {}

Outcome(passed, entries) == [passed |-> passed, entries |-> entries]

\* The order of the code: added, modified, deleted; mismatches before what is
\* not set.  An exception leaves what was overwritten before it.
AddedDone(entries, id, m) ==
  LET overwritten == OverwriteMismatched(entries, "Added", id, m)
  IN Overwrite(overwritten, NotSet(overwritten, "Added"), id)

\* Plausible mistakes: no check that there is a tenant; none of what is deleted.
EnforceAnyTenant(entries, id, m) ==
  LET added == AddedDone(entries, id, m)
  IN IF MismatchThrows(entries, "Added", id, m) THEN Outcome(FALSE, entries)
     ELSE Outcome(/\ ~MismatchThrows(added, "Modified", id, m)
                  /\ ~NotSetThrows(added, "Modified", m)
                  /\ ~MismatchThrows(added, "Deleted", id, m)
                  /\ ~NotSetThrows(added, "Deleted", m), added)

EnforceUnlessDeleted(entries, id, m) ==
  LET added == AddedDone(entries, id, m)
  IN IF \/ Changed(entries) # {} /\ id = Null
        \/ MismatchThrows(entries, "Added", id, m) THEN Outcome(FALSE, entries)
     ELSE Outcome(/\ ~MismatchThrows(added, "Modified", id, m)
                  /\ ~NotSetThrows(added, "Modified", m), added)

EnforceMultiTenant(entries, id, m) ==
  LET added == AddedDone(entries, id, m)
      matched == OverwriteMismatched(added, "Modified", id, m)
      modified == Overwrite(matched, NotSet(matched, "Modified"), id)
  IN IF \/ Changed(entries) # {} /\ id = Null
        \/ MismatchThrows(entries, "Added", id, m)        THEN Outcome(FALSE, entries)
     ELSE IF MismatchThrows(added, "Modified", id, m)     THEN Outcome(FALSE, added)
     ELSE IF NotSetThrows(matched, "Modified", m)         THEN Outcome(FALSE, matched)
     ELSE Outcome(/\ ~MismatchThrows(modified, "Deleted", id, m)
                  /\ ~NotSetThrows(modified, "Deleted", m), modified)
-----------------------------------------------------------------------------
(* SaveChanges: enforcement, then the transaction, which may fail.          *)
Acceptable(entries) ==
  \A k \in Keys :
    /\ entries[k].state = "Added" => row[k].status = "unused"
    /\ entries[k].state \in {"Modified", "Deleted"} => row[k].status = "stored"

Written(entries, k) ==
  CASE entries[k].state = "Added"    -> Row("stored", entries[k].tenantId)
    [] entries[k].state = "Modified" ->
         Row("stored", IF entries[k].marked THEN entries[k].tenantId ELSE row[k].owner)
    [] entries[k].state = "Deleted"  -> Row("deleted", row[k].owner)
    [] OTHER                         -> row[k]

Accepted(entry) ==
  IF entry.state \in {"Added", "Modified"} THEN Entry("Unchanged", entry.tenantId, FALSE)
  ELSE IF entry.state = "Deleted" THEN Detached
  ELSE entry

SaveFails(c) ==
  /\ tracked' = [tracked EXCEPT ![c] = EnforceMultiTenant(tracked[c], tenant[c], mode[c]).entries]
  /\ UNCHANGED <<tenant, mode, row, author>>

SaveSucceeds(c, acceptAllChanges) ==
  LET outcome == EnforceMultiTenant(tracked[c], tenant[c], mode[c])
      entries == outcome.entries
  IN /\ outcome.passed
     /\ Acceptable(entries)
     /\ row' = [k \in Keys |-> Written(entries, k)]
     /\ author' = [k \in Keys |-> IF k \in Changed(entries) THEN tenant[c] ELSE author[k]]
     /\ tracked' = [tracked EXCEPT ![c] =
          IF acceptAllChanges THEN [k \in Keys |-> Accepted(entries[k])] ELSE entries]
     /\ UNCHANGED <<tenant, mode>>
-----------------------------------------------------------------------------
(* What applications do with a context between saves.                       *)
Track(c, k, entry) ==
  /\ tracked' = [tracked EXCEPT ![c][k] = entry]
  /\ UNCHANGED <<tenant, mode, row, author>>

\* A query tracks what it returns, unless it is tracked already.  The filter of
\* IsMultiTenant compares with the tenant the context has at that moment.
Query(c, k, ignoreQueryFilters) ==
  /\ row[k].status = "stored"
  /\ tracked[c][k] = Detached
  /\ ignoreQueryFilters \/ row[k].owner = tenant[c]
  /\ Track(c, k, Entry("Unchanged", row[k].owner, FALSE))

Add(c, k, id) ==
  /\ row[k].status = "unused"
  /\ tracked[c][k] = Detached
  /\ Track(c, k, Entry("Added", id, FALSE))

\* Attach, Update or Remove of an entity another context once loaded.  It still
\* has its TenantId if that is a property of the class; if it is a shadow
\* property, as IsMultiTenant makes it, it has none.
Attach(c, k, state, id) ==
  /\ row[k].status # "unused"
  /\ tracked[c][k] = Detached
  /\ Track(c, k, Entry(state, id, state = "Modified"))

Modify(c, k) ==
  /\ tracked[c][k].state = "Unchanged"
  /\ Track(c, k, Entry("Modified", tracked[c][k].tenantId, FALSE))

SetTenantId(c, k, id) ==
  LET entry == tracked[c][k]
  IN /\ entry.state \in {"Unchanged", "Modified"}
     /\ entry.tenantId # id
     /\ Track(c, k, Entry("Modified", id, TRUE))

Remove(c, k) ==
  LET entry == tracked[c][k]
  IN \/ entry.state = "Added" /\ Track(c, k, Detached)
     \/ entry.state \in {"Unchanged", "Modified"} /\ Track(c, k, Entry("Deleted", entry.tenantId, FALSE))

Detach(c, k) == tracked[c][k] # Detached /\ Track(c, k, Detached)

SetModes(c, m) ==
  /\ mode' = [mode EXCEPT ![c] = m]
  /\ UNCHANGED <<tenant, tracked, row, author>>

\* MultiTenantIdentityDbContext.TenantInfo follows the accessor.
SwitchTenant(c, id) ==
  /\ c \in LateBound
  /\ tenant' = [tenant EXCEPT ![c] = id]
  /\ UNCHANGED <<mode, tracked, row, author>>

Next ==
  \E c \in Contexts :
    \/ SaveFails(c)
    \/ \E acceptAllChanges \in BOOLEAN : SaveSucceeds(c, acceptAllChanges)
    \/ \E m \in Modes : SetModes(c, m)
    \/ \E id \in TenantIds \cup {Null} : SwitchTenant(c, id)
    \/ \E k \in Keys :
         \/ \E ignoreQueryFilters \in BOOLEAN : Query(c, k, ignoreQueryFilters)
         \/ \E id \in TenantIds \cup {Null} : Add(c, k, id)
         \/ \E state \in {"Unchanged", "Modified", "Deleted"}, id \in {Null, row[k].owner} :
              Attach(c, k, state, id)
         \/ Modify(c, k) \/ Remove(c, k) \/ Detach(c, k)
         \/ \E id \in ManualIds : SetTenantId(c, k, id)

Spec == Init /\ [][Next]_vars
-----------------------------------------------------------------------------
EntryStates ==
  [state : {"Detached", "Unchanged", "Added", "Modified", "Deleted"},
   tenantId : TenantIds \cup {Null}, marked : BOOLEAN]

TypeOK ==
  /\ tenant \in [Contexts -> TenantIds \cup {Null}]
  /\ mode \in [Contexts -> Modes]
  /\ tracked \in [Contexts -> [Keys -> EntryStates]]
  /\ row \in [Keys -> {Row("unused", Null)} \cup [status : {"stored", "deleted"}, owner : TenantIds]]
  /\ author \in [Keys -> TenantIds \cup {Null}]

(* The setting in which contexts keep to their tenants: default modes, and   *)
(* nobody but the library writes an id into a TenantId.                      *)
OrdinaryUse == Modes = {DefaultMode} /\ ManualIds \subseteq {Null}

\* docs/EFCore.md: a context "will only set and query records for the current
\* tenant"; updated and deleted entities "are checked to make sure they are
\* associated with the TenantInfo".  Whatever was tracked when and under which
\* tenant, and whatever an earlier save left half done, a row is only written or
\* deleted under the tenant that it belongs to.
LastWriterOwns == \A k \in Keys : row[k].status # "unused" => author[k] = row[k].owner

\* A row never passes from one tenant to another.
RowKeepsTenant ==
  [][\A k \in Keys : row[k].status # "unused" => row'[k].owner = row[k].owner]_vars
=============================================================================
