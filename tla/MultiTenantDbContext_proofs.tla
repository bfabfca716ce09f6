----------------------- MODULE MultiTenantDbContext_proofs -----------------------
(***************************************************************************)
(* Theorems about MultiTenantDbContext for any contexts, tenants and keys. *)
(* Under OrdinaryUse what a tracker says of a row's tenant is right or     *)
(* nothing at all, so what EnforceMultiTenant lets pass is the tenant's.   *)
(***************************************************************************)
EXTENDS MultiTenantDbContext, TLAPS

TrackedAgrees ==
  \A c \in Contexts, k \in Keys :
    tracked[c][k].state \in {"Unchanged", "Modified", "Deleted"} =>
      row[k].status # "unused" /\ tracked[c][k].tenantId \in {Null, row[k].owner}

DbInv == TypeOK /\ LastWriterOwns /\ TrackedAgrees

Tracker == [Keys -> EntryStates]

-----------------------------------------------------------------------------
(* What enforcement does to a tracker under the default modes.              *)
LEMMA AddedDoneByDefault ==
  ASSUME NEW entries \in Tracker, NEW id \in TenantIds \cup {Null}
  PROVE  LET done == AddedDone(entries, id, DefaultMode)
         IN /\ done \in Tracker
            /\ \A k \in Keys :
                 /\ entries[k].state # "Added" => done[k] = entries[k]
                 /\ entries[k].state = "Added" =>
                      /\ done[k].state = "Added"
                      /\ entries[k].tenantId = Null => done[k].tenantId = id
                      /\ entries[k].tenantId # Null => done[k] = entries[k]
  <1>1. AddedDone(entries, id, DefaultMode) = Overwrite(entries, NotSet(entries, "Added"), id)
    BY DEF AddedDone, OverwriteMismatched, DefaultMode, Mode
  <1>2. \A k \in Keys : k \in NotSet(entries, "Added") <=>
          entries[k].state = "Added" /\ entries[k].tenantId = Null
    BY DEF NotSet, InState
  <1>3. PICK done : done = AddedDone(entries, id, DefaultMode)
    OBVIOUS
  <1>4. /\ done \in Tracker
        /\ \A k \in Keys : done[k] =
             IF k \in NotSet(entries, "Added") THEN Entry(entries[k].state, id, TRUE) ELSE entries[k]
    BY <1>1, <1>3 DEF Overwrite, Tracker, EntryStates, Entry
  <1>5. ASSUME NEW k \in Keys
        PROVE  /\ entries[k].state # "Added" => done[k] = entries[k]
               /\ entries[k].state = "Added" =>
                    /\ done[k].state = "Added"
                    /\ entries[k].tenantId = Null => done[k].tenantId = id
                    /\ entries[k].tenantId # Null => done[k] = entries[k]
    <2>1. CASE k \in NotSet(entries, "Added")
      <3>1. done[k] = Entry(entries[k].state, id, TRUE) /\ entries[k].state = "Added" /\ entries[k].tenantId = Null
        BY <1>2, <1>4, <2>1
      <3> QED
        BY <3>1 DEF Entry
    <2>2. CASE k \notin NotSet(entries, "Added")
      BY <1>2, <1>4, <2>2
    <2> QED
      BY <2>1, <2>2
  <1> QED
    BY <1>3, <1>4, <1>5

\* With the default modes nothing but the added entities is ever overwritten.
LEMMA EnforceByDefault ==
  ASSUME NEW entries \in Tracker, NEW id \in TenantIds \cup {Null}
  PROVE  LET outcome == EnforceMultiTenant(entries, id, DefaultMode)
             added == AddedDone(entries, id, DefaultMode)
         IN /\ outcome.entries \in {entries, added}
            /\ outcome.passed =>
                 /\ outcome.entries = added
                 /\ Changed(entries) # {} => id # Null
                 /\ Mismatched(entries, "Added", id) = {}
                 /\ \A state \in {"Modified", "Deleted"} :
                      Mismatched(added, state, id) = {} /\ NotSet(added, state) = {}
  <1> DEFINE added == AddedDone(entries, id, DefaultMode)
             modified == Overwrite(added, NotSet(added, "Modified"), id)
  <1>1. /\ OverwriteMismatched(added, "Modified", id, DefaultMode) = added
        /\ \A e, state : MismatchThrows(e, state, id, DefaultMode) <=> Mismatched(e, state, id) # {}
        /\ \A e, state : NotSetThrows(e, state, DefaultMode) <=> NotSet(e, state) # {}
    BY DEF OverwriteMismatched, MismatchThrows, NotSetThrows, DefaultMode, Mode
  <1>2. added \in Tracker
    BY AddedDoneByDefault DEF added
  <1>3. ASSUME NotSet(added, "Modified") = {} PROVE modified = added
    <2>0. PICK e : e = added
      OBVIOUS
    <2>1. /\ modified \in Tracker
          /\ \A k \in Keys : modified[k] = added[k]
      <3>1. e \in Tracker /\ modified = Overwrite(e, {}, id)
        BY <1>2, <1>3, <2>0
      <3> QED
        BY <2>0, <3>1 DEF Overwrite, Tracker
    <2> QED
      BY <1>2, <2>1 DEF Tracker
  <1> HIDE DEF added, modified
  <1>4. EnforceMultiTenant(entries, id, DefaultMode) =
          IF \/ Changed(entries) # {} /\ id = Null
             \/ Mismatched(entries, "Added", id) # {}  THEN Outcome(FALSE, entries)
          ELSE IF Mismatched(added, "Modified", id) # {} THEN Outcome(FALSE, added)
          ELSE IF NotSet(added, "Modified") # {}         THEN Outcome(FALSE, added)
          ELSE Outcome(/\ ~(Mismatched(modified, "Deleted", id) # {})
                       /\ ~(NotSet(modified, "Deleted") # {}), modified)
    BY <1>1 DEF EnforceMultiTenant, added, modified
  <1> QED
    BY <1>3, <1>4 DEF Outcome, added

\* What passes is of the context's tenant, or will be.
LEMMA WhatPasses ==
  ASSUME NEW entries \in Tracker, NEW id \in TenantIds \cup {Null},
         EnforceMultiTenant(entries, id, DefaultMode).passed
  PROVE  LET after == EnforceMultiTenant(entries, id, DefaultMode).entries
         IN /\ after \in Tracker
            /\ \A k \in Keys :
                 /\ after[k].state = entries[k].state
                 /\ entries[k].state # "Added" => after[k] = entries[k]
                 /\ k \in Changed(after) => after[k].tenantId = id /\ id \in TenantIds
  <1>1. PICK after : after = EnforceMultiTenant(entries, id, DefaultMode).entries
    OBVIOUS
  <1>2. /\ after = AddedDone(entries, id, DefaultMode)
        /\ Changed(entries) # {} => id # Null
        /\ Mismatched(entries, "Added", id) = {}
        /\ \A state \in {"Modified", "Deleted"} :
             Mismatched(after, state, id) = {} /\ NotSet(after, state) = {}
    BY <1>1, EnforceByDefault
  <1>3. /\ after \in Tracker
        /\ \A k \in Keys :
             /\ entries[k].state # "Added" => after[k] = entries[k]
             /\ entries[k].state = "Added" =>
                  /\ after[k].state = "Added"
                  /\ entries[k].tenantId = Null => after[k].tenantId = id
                  /\ entries[k].tenantId # Null => after[k] = entries[k]
    BY <1>2, AddedDoneByDefault
  <1>4. ASSUME NEW k \in Keys, k \in Changed(after)
        PROVE  after[k].tenantId = id /\ id \in TenantIds
    <2>1. after[k].state \in {"Added", "Modified", "Deleted"} /\ after[k].state = entries[k].state
      BY <1>3, <1>4 DEF Changed
    <2>2. id \in TenantIds
      BY <1>2, <2>1 DEF Changed
    <2>3. CASE after[k].state = "Added"
      <3>1. entries[k].tenantId \in {Null, id}
        BY <1>2, <2>1, <2>3 DEF Mismatched, InState
      <3> QED
        BY <1>3, <2>1, <2>2, <2>3, <3>1
    <2>4. CASE after[k].state \in {"Modified", "Deleted"}
      BY <1>2, <2>4 DEF Mismatched, NotSet, InState
    <2> QED
      BY <2>1, <2>2, <2>3, <2>4
  <1> QED
    BY <1>1, <1>3, <1>4

\* What an exception leaves: added entities may have got their tenant.
LEMMA WhatIsLeft ==
  ASSUME NEW entries \in Tracker, NEW id \in TenantIds \cup {Null}
  PROVE  LET after == EnforceMultiTenant(entries, id, DefaultMode).entries
         IN /\ after \in Tracker
            /\ \A k \in Keys :
                 /\ after[k].state = entries[k].state
                 /\ entries[k].state # "Added" => after[k] = entries[k]
  BY EnforceByDefault, AddedDoneByDefault

-----------------------------------------------------------------------------
LEMMA DbInit == Init => DbInv
  BY DbContextAssumption DEF Init, DbInv, TypeOK, LastWriterOwns, TrackedAgrees, Row, Entry, Detached, EntryStates

\* A step that sets one entry of one tracker.
LEMMA TrackInv ==
  ASSUME DbInv, NEW c \in Contexts, NEW k \in Keys, NEW entry \in EntryStates, Track(c, k, entry),
         entry.state \in {"Unchanged", "Modified", "Deleted"} =>
           row[k].status # "unused" /\ entry.tenantId \in {Null, row[k].owner}
  PROVE  DbInv' /\ UNCHANGED row
  <1>1. tracked' = [tracked EXCEPT ![c][k] = entry] /\ UNCHANGED <<tenant, mode, row, author>>
    BY DEF Track
  <1>2. /\ tracked' \in [Contexts -> [Keys -> EntryStates]]
        /\ \A d \in Contexts, l \in Keys :
             tracked'[d][l] = IF d = c /\ l = k THEN entry ELSE tracked[d][l]
    BY <1>1 DEF DbInv, TypeOK
  <1>3. TrackedAgrees'
    BY <1>1, <1>2 DEF DbInv, TrackedAgrees
  <1> QED
    BY <1>1, <1>2, <1>3 DEF DbInv, TypeOK, LastWriterOwns

LEMMA SaveFailsInv ==
  ASSUME OrdinaryUse, DbInv, NEW c \in Contexts, SaveFails(c)
  PROVE  DbInv' /\ UNCHANGED row
  <1>1. mode[c] = DefaultMode /\ tracked[c] \in Tracker /\ tenant[c] \in TenantIds \cup {Null}
    BY DEF OrdinaryUse, DbInv, TypeOK, Tracker
  <1>2. PICK after : after = EnforceMultiTenant(tracked[c], tenant[c], mode[c]).entries
    OBVIOUS
  <1>3. /\ after \in Tracker
        /\ \A k \in Keys : /\ after[k].state = tracked[c][k].state
                           /\ tracked[c][k].state # "Added" => after[k] = tracked[c][k]
    BY <1>1, <1>2, WhatIsLeft
  <1>4. tracked' = [tracked EXCEPT ![c] = after] /\ UNCHANGED <<tenant, mode, row, author>>
    BY <1>2 DEF SaveFails
  <1>5. /\ tracked' \in [Contexts -> [Keys -> EntryStates]]
        /\ \A d \in Contexts : tracked'[d] = IF d = c THEN after ELSE tracked[d]
    BY <1>3, <1>4 DEF DbInv, TypeOK, Tracker
  <1>6. TrackedAgrees'
    BY <1>3, <1>4, <1>5 DEF DbInv, TrackedAgrees
  <1> QED
    BY <1>4, <1>5, <1>6 DEF DbInv, TypeOK, LastWriterOwns

LEMMA SaveSucceedsInv ==
  ASSUME OrdinaryUse, DbInv, NEW c \in Contexts, NEW acceptAllChanges \in BOOLEAN,
         SaveSucceeds(c, acceptAllChanges)
  PROVE  /\ DbInv'
         /\ \A k \in Keys : row[k].status # "unused" => row'[k].owner = row[k].owner
  <1>1. mode[c] = DefaultMode /\ tracked[c] \in Tracker /\ tenant[c] \in TenantIds \cup {Null}
    BY DEF OrdinaryUse, DbInv, TypeOK, Tracker
  <1>2. PICK after : after = EnforceMultiTenant(tracked[c], tenant[c], mode[c]).entries
    OBVIOUS
  <1>3. PICK id : id = tenant[c]
    OBVIOUS
  <1>4. /\ after \in Tracker
        /\ \A k \in Keys :
             /\ after[k].state = tracked[c][k].state
             /\ tracked[c][k].state # "Added" => after[k] = tracked[c][k]
             /\ k \in Changed(after) => after[k].tenantId = id /\ id \in TenantIds
    BY <1>1, <1>2, <1>3, WhatPasses DEF SaveSucceeds
  <1>5. /\ Acceptable(after)
        /\ row' = [k \in Keys |-> Written(after, k)]
        /\ author' = [k \in Keys |-> IF k \in Changed(after) THEN id ELSE author[k]]
        /\ UNCHANGED <<tenant, mode>>
    BY <1>2, <1>3 DEF SaveSucceeds
  <1>6. PICK kept : /\ tracked' = [tracked EXCEPT ![c] = kept]
                    /\ kept = after \/ kept = [k \in Keys |-> Accepted(after[k])]
    BY <1>2 DEF SaveSucceeds
  <1>7. ASSUME NEW k \in Keys
        PROVE  /\ k \in Changed(after) <=> after[k].state \in {"Added", "Modified", "Deleted"}
               /\ row[k] \in {Row("unused", Null)} \cup [status : {"stored", "deleted"}, owner : TenantIds]
               /\ row[k].status # "unused" => author[k] = row[k].owner
               /\ after[k].state \in {"Modified", "Deleted"} =>
                    row[k].status = "stored" /\ row[k].owner = id /\ id \in TenantIds
               /\ after[k].state = "Added" => row[k].status = "unused" /\ id \in TenantIds
               /\ after[k].state \in {"Added", "Modified", "Deleted"} => after[k].tenantId = id
    <2>1. k \in Changed(after) <=> after[k].state \in {"Added", "Modified", "Deleted"}
      BY DEF Changed
    <2>2. row[k] \in {Row("unused", Null)} \cup [status : {"stored", "deleted"}, owner : TenantIds]
      BY DEF DbInv, TypeOK
    <2>3. row[k].status # "unused" => author[k] = row[k].owner
      BY DEF DbInv, LastWriterOwns
    <2>4. after[k].state \in {"Added", "Modified", "Deleted"} => after[k].tenantId = id /\ id \in TenantIds
      BY <1>4, <2>1
    <2>5. after[k].state = "Added" => row[k].status = "unused"
      BY <1>5 DEF Acceptable
    <2>6. ASSUME after[k].state \in {"Modified", "Deleted"}
          PROVE  row[k].status = "stored" /\ row[k].owner = id
      <3>1. row[k].status = "stored"
        BY <1>5, <2>6 DEF Acceptable
      <3>2. after[k] = tracked[c][k]
        BY <1>4, <2>6
      <3>3. tracked[c][k].tenantId \in {Null, row[k].owner}
        BY <2>6, <3>2 DEF DbInv, TrackedAgrees
      <3> QED
        BY <2>4, <2>6, <3>1, <3>2, <3>3, DbContextAssumption
    <2> QED
      BY <2>1, <2>2, <2>3, <2>4, <2>5, <2>6
  <1>8. ASSUME NEW k \in Keys
        PROVE  /\ after[k].state \notin {"Added", "Modified", "Deleted"} => row'[k] = row[k]
               /\ after[k].state \in {"Added", "Modified"} => row'[k] = Row("stored", id)
               /\ after[k].state = "Deleted" => row'[k] = Row("deleted", id)
    BY <1>5, <1>7 DEF Written
  <1>9. /\ row' \in [Keys -> {Row("unused", Null)} \cup [status : {"stored", "deleted"}, owner : TenantIds]]
        /\ author' \in [Keys -> TenantIds \cup {Null}]
    <2>1. ASSUME NEW k \in Keys
          PROVE  row'[k] \in {Row("unused", Null)} \cup [status : {"stored", "deleted"}, owner : TenantIds]
      BY <1>7, <1>8 DEF Row
    <2>2. row' \in [Keys -> {Row("unused", Null)} \cup [status : {"stored", "deleted"}, owner : TenantIds]]
      BY <1>5, <2>1
    <2>3. author' \in [Keys -> TenantIds \cup {Null}]
      BY <1>1, <1>3, <1>5 DEF DbInv, TypeOK
    <2> QED
      BY <2>2, <2>3
  <1>10. LastWriterOwns'
    <2> SUFFICES ASSUME NEW k \in Keys, row'[k].status # "unused" PROVE author'[k] = row'[k].owner
      BY DEF LastWriterOwns
    <2> QED
      BY <1>5, <1>7, <1>8 DEF Row
  <1>11. \A k \in Keys : row[k].status # "unused" =>
           row'[k].owner = row[k].owner /\ row'[k].status # "unused"
    BY <1>7, <1>8 DEF Row
  <1>12. /\ kept \in Tracker
         /\ \A k \in Keys : kept[k].state \in {"Unchanged", "Modified", "Deleted"} =>
              row'[k].status # "unused" /\ kept[k].tenantId \in {Null, row'[k].owner}
    <2>1. ASSUME NEW k \in Keys, after[k].state \in {"Unchanged", "Modified", "Deleted"}
          PROVE  row'[k].status # "unused" /\ after[k].tenantId \in {Null, row'[k].owner}
      <3>1. after[k] = tracked[c][k]
        BY <1>4, <2>1
      <3>2. row[k].status # "unused" /\ after[k].tenantId \in {Null, row[k].owner}
        BY <2>1, <3>1 DEF DbInv, TrackedAgrees
      <3> QED
        BY <1>11, <3>2
    <2>2. CASE kept = after
      BY <1>4, <2>1, <2>2
    <2>3. CASE kept = [k \in Keys |-> Accepted(after[k])]
      <3>1. ASSUME NEW k \in Keys
            PROVE  /\ kept[k] \in EntryStates
                   /\ kept[k].state \in {"Unchanged", "Modified", "Deleted"} =>
                        row'[k].status # "unused" /\ kept[k].tenantId \in {Null, row'[k].owner}
        <4>1. kept[k] = Accepted(after[k]) /\ after[k] \in EntryStates
          BY <1>4, <2>3 DEF Tracker
        <4>2. CASE after[k].state = "Added"
          BY <1>7, <1>8, <4>1, <4>2 DEF Accepted, Entry, EntryStates, Row
        <4>3. CASE after[k].state = "Modified"
          BY <2>1, <4>1, <4>3 DEF Accepted, Entry, EntryStates
        <4>4. CASE after[k].state = "Deleted"
          BY <4>1, <4>4 DEF Accepted, Detached, Entry, EntryStates
        <4>5. CASE after[k].state \in {"Unchanged", "Detached"}
          BY <2>1, <4>1, <4>5 DEF Accepted
        <4> QED
          BY <4>1, <4>2, <4>3, <4>4, <4>5 DEF EntryStates
      <3> QED
        BY <2>3, <3>1 DEF Tracker
    <2> QED
      BY <1>6, <2>2, <2>3
  <1>13. /\ tracked' \in [Contexts -> [Keys -> EntryStates]]
         /\ \A d \in Contexts : tracked'[d] = IF d = c THEN kept ELSE tracked[d]
    BY <1>6, <1>12 DEF DbInv, TypeOK, Tracker
  <1>14. TrackedAgrees'
    <2> SUFFICES ASSUME NEW d \in Contexts, NEW k \in Keys,
                        tracked'[d][k].state \in {"Unchanged", "Modified", "Deleted"}
                 PROVE  row'[k].status # "unused" /\ tracked'[d][k].tenantId \in {Null, row'[k].owner}
      BY DEF TrackedAgrees
    <2>1. CASE d = c
      BY <1>12, <1>13, <2>1
    <2>2. CASE d # c
      BY <1>11, <1>13, <2>2 DEF DbInv, TrackedAgrees
    <2> QED
      BY <2>1, <2>2
  <1> QED
    BY <1>5, <1>9, <1>10, <1>11, <1>13, <1>14 DEF DbInv, TypeOK

(* Every step of an application, and of a save.                             *)
LEMMA DbStep ==
  ASSUME OrdinaryUse, DbInv, [Next]_vars
  PROVE  /\ DbInv'
         /\ \A k \in Keys : row[k].status # "unused" => row'[k].owner = row[k].owner
  <1>1. ASSUME NEW c \in Contexts, SaveFails(c)
        PROVE  DbInv' /\ UNCHANGED row
    BY <1>1, SaveFailsInv
  <1>2. ASSUME NEW c \in Contexts, NEW acceptAllChanges \in BOOLEAN, SaveSucceeds(c, acceptAllChanges)
        PROVE  /\ DbInv'
               /\ \A k \in Keys : row[k].status # "unused" => row'[k].owner = row[k].owner
    BY <1>2, SaveSucceedsInv
  <1>3. ASSUME NEW c \in Contexts, NEW m \in Modes, SetModes(c, m)
        PROVE  DbInv' /\ UNCHANGED row
    BY <1>3 DEF SetModes, DbInv, TypeOK, LastWriterOwns, TrackedAgrees
  <1>4. ASSUME NEW c \in Contexts, NEW id \in TenantIds \cup {Null}, SwitchTenant(c, id)
        PROVE  DbInv' /\ UNCHANGED row
    BY <1>4 DEF SwitchTenant, DbInv, TypeOK, LastWriterOwns, TrackedAgrees
  <1>5. ASSUME NEW c \in Contexts, NEW k \in Keys, NEW ignoreQueryFilters \in BOOLEAN,
               Query(c, k, ignoreQueryFilters)
        PROVE  DbInv' /\ UNCHANGED row
    <2>1. PICK entry : entry = Entry("Unchanged", row[k].owner, FALSE)
      OBVIOUS
    <2>2. row[k].status = "stored" /\ Track(c, k, entry)
      BY <1>5, <2>1 DEF Query
    <2>3. row[k].owner \in TenantIds
      BY <2>2 DEF DbInv, TypeOK, Row
    <2>4. entry \in EntryStates /\ entry.tenantId = row[k].owner
      BY <2>1, <2>3 DEF Entry, EntryStates
    <2> QED
      BY <2>2, <2>4, TrackInv
  <1>6. ASSUME NEW c \in Contexts, NEW k \in Keys, NEW id \in TenantIds \cup {Null}, Add(c, k, id)
        PROVE  DbInv' /\ UNCHANGED row
    <2>1. PICK entry : entry = Entry("Added", id, FALSE)
      OBVIOUS
    <2>2. Track(c, k, entry)
      BY <1>6, <2>1 DEF Add
    <2>3. entry \in EntryStates /\ entry.state = "Added"
      BY <2>1 DEF Entry, EntryStates
    <2> QED
      BY <2>2, <2>3, TrackInv
  <1>7. ASSUME NEW c \in Contexts, NEW k \in Keys, NEW state \in {"Unchanged", "Modified", "Deleted"},
               NEW id \in {Null, row[k].owner}, Attach(c, k, state, id)
        PROVE  DbInv' /\ UNCHANGED row
    <2>1. PICK entry : entry = Entry(state, id, state = "Modified")
      OBVIOUS
    <2>2. row[k].status # "unused" /\ Track(c, k, entry)
      BY <1>7, <2>1 DEF Attach
    <2>3. id \in TenantIds \cup {Null}
      BY DEF DbInv, TypeOK, Row
    <2>4. entry \in EntryStates /\ entry.tenantId = id
      BY <2>1, <2>3 DEF Entry, EntryStates
    <2> QED
      BY <2>2, <2>4, TrackInv
  <1>8. ASSUME NEW c \in Contexts, NEW k \in Keys, Modify(c, k)
        PROVE  DbInv' /\ UNCHANGED row
    <2>1. PICK entry : entry = Entry("Modified", tracked[c][k].tenantId, FALSE)
      OBVIOUS
    <2>2. tracked[c][k].state = "Unchanged" /\ Track(c, k, entry)
      BY <1>8, <2>1 DEF Modify
    <2>3. row[k].status # "unused" /\ tracked[c][k].tenantId \in {Null, row[k].owner}
      BY <2>2 DEF DbInv, TrackedAgrees
    <2>4. tracked[c][k] \in EntryStates
      BY DEF DbInv, TypeOK
    <2>5. entry \in EntryStates /\ entry.tenantId = tracked[c][k].tenantId
      BY <2>1, <2>4 DEF Entry, EntryStates
    <2> QED
      BY <2>2, <2>3, <2>5, TrackInv
  <1>9. ASSUME NEW c \in Contexts, NEW k \in Keys, Remove(c, k)
        PROVE  DbInv' /\ UNCHANGED row
    <2>1. tracked[c][k] \in EntryStates
      BY DEF DbInv, TypeOK
    <2>2. CASE Track(c, k, Detached)
      <3>1. Detached \in EntryStates /\ Detached.state = "Detached"
        BY DEF Detached, Entry, EntryStates
      <3> QED
        BY <2>2, <3>1, TrackInv
    <2>3. CASE /\ tracked[c][k].state \in {"Unchanged", "Modified"}
               /\ Track(c, k, Entry("Deleted", tracked[c][k].tenantId, FALSE))
      <3>1. PICK entry : entry = Entry("Deleted", tracked[c][k].tenantId, FALSE)
        OBVIOUS
      <3>2. entry \in EntryStates /\ entry.tenantId = tracked[c][k].tenantId
        BY <2>1, <3>1 DEF Entry, EntryStates
      <3>3. row[k].status # "unused" /\ tracked[c][k].tenantId \in {Null, row[k].owner}
        BY <2>3 DEF DbInv, TrackedAgrees
      <3> QED
        BY <2>3, <3>1, <3>2, <3>3, TrackInv
    <2> QED
      BY <1>9, <2>2, <2>3 DEF Remove
  <1>10. ASSUME NEW c \in Contexts, NEW k \in Keys, Detach(c, k)
         PROVE  DbInv' /\ UNCHANGED row
    <2>1. Detached \in EntryStates /\ Detached.state = "Detached"
      BY DEF Detached, Entry, EntryStates
    <2> QED
      BY <1>10, <2>1, TrackInv DEF Detach
  <1>11. ASSUME NEW c \in Contexts, NEW k \in Keys, NEW id \in ManualIds, SetTenantId(c, k, id)
         PROVE  DbInv' /\ UNCHANGED row
    <2>1. PICK entry : entry = Entry("Modified", id, TRUE)
      OBVIOUS
    <2>2. tracked[c][k].state \in {"Unchanged", "Modified"} /\ Track(c, k, entry)
      BY <1>11, <2>1 DEF SetTenantId
    <2>3. id = Null
      BY DEF OrdinaryUse
    <2>4. entry \in EntryStates /\ entry.tenantId = Null
      BY <2>1, <2>3 DEF Entry, EntryStates
    <2>5. row[k].status # "unused"
      BY <2>2 DEF DbInv, TrackedAgrees
    <2> QED
      BY <2>2, <2>4, <2>5, TrackInv
  <1>12. CASE UNCHANGED vars
    BY <1>12 DEF vars, DbInv, TypeOK, LastWriterOwns, TrackedAgrees
  <1> QED
    BY <1>1, <1>2, <1>3, <1>4, <1>5, <1>6, <1>7, <1>8, <1>9, <1>10, <1>11, <1>12 DEF Next

\* Type correctness, for any contexts used in the ordinary way.
THEOREM DbContextTypeCorrect ==
  ASSUME OrdinaryUse
  PROVE  Spec => []TypeOK
  <1>1. Init => DbInv
    BY DbInit
  <1>2. DbInv /\ [Next]_vars => DbInv'
    BY DbStep
  <1>3. DbInv => TypeOK
    BY DEF DbInv
  <1> QED
    BY <1>1, <1>2, <1>3, PTL DEF Spec

\* docs/EFCore.md: a context "will only set ... records for the current tenant".
\* With the default modes a row is only ever written under its own tenant.
THEOREM RowsAreWrittenByTheirTenants ==
  ASSUME OrdinaryUse
  PROVE  Spec => []LastWriterOwns
  <1>1. Init => DbInv
    BY DbInit
  <1>2. DbInv /\ [Next]_vars => DbInv'
    BY DbStep
  <1>3. DbInv => LastWriterOwns
    BY DEF DbInv
  <1> QED
    BY <1>1, <1>2, <1>3, PTL DEF Spec

\* And no row passes to another tenant, as EnforceMultiTenant overwrites nothing
\* but the TenantId of added entities.
THEOREM RowsKeepTheirTenants ==
  ASSUME OrdinaryUse
  PROVE  Spec => RowKeepsTenant
  <1>1. Init => DbInv
    BY DbInit
  <1>2. DbInv /\ [Next]_vars => DbInv'
    BY DbStep
  <1>3. DbInv /\ [Next]_vars =>
          [\A k \in Keys : row[k].status # "unused" => row'[k].owner = row[k].owner]_vars
    BY DbStep
  <1> QED
    BY <1>1, <1>2, <1>3, PTL DEF Spec, RowKeepsTenant
=============================================================================
