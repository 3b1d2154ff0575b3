--------------------------- MODULE MaintenanceProofs ---------------------------
(***************************************************************************)
(* Proofs about Maintenance, for every set of files, workers and blobs and *)
(* every bound: the type invariant, what explains a version without a      *)
(* blob, which of row and blob goes first, and what the retention pass may *)
(* remove, for any number of purges of single versions at once.            *)
(***************************************************************************)
EXTENDS Maintenance, BackupStoreProofs

-----------------------------------------------------------------------------
(* The invariant *)

\* The walk of a run and its retention pass exclude one another, and workers
\* only work while the walk is on.
WalkInv ==
    /\ retain.at = "off" => retain = NoRetain
    /\ retain.at # "off" => ~walk.on
    /\ ~walk.on => walk.left = {} /\ walk.queue = {} /\ \A w \in Workers : pc[w] = Idle
    /\ walk.stopped => faults # 0
    /\ retain.now <= today

\* The blob of a version that was complete when it was recorded.
Arrived(b) == stored[b] \in {"complete", "deleted"}

\* The blobs that some removal has on its list.
Listed(b) ==
    \/ b \in retain.blobs \cup retain.failed \cup prefix.listed
    \/ \E p \in Purgers : single[p].at # "off" /\ single[p].blob = b

Busy(w) ==
    /\ pc[w] = "uploading" => stored[held[w]] = "partial"
    /\ pc[w] = "uploaded" => stored[held[w]] = "complete" /\ ~Listed(held[w])
    /\ pc[w] = "evicting" => Arrived(held[w])

\* NoDangling is gone, but what is recorded was complete, and what a worker is
\* still going to record is on nobody's list.
BlobInv ==
    /\ OneBlobPerVersion
    /\ HeldIsPrivate
    /\ \A r \in versions : Arrived(r.blob)
    /\ \A b \in Blobs : Listed(b) => Arrived(b)
    /\ \A w \in Workers : Busy(w)
    /\ prefix.blobs \subseteq prefix.listed
    /\ \A p \in Purgers : single[p].at # "off" => single[p].blob \in Blobs

\* What is on a list belongs to a row that the removal is going to remove.
NameInv ==
    \A r \in versions :
        /\ r.blob \in retain.blobs => entry[r.file].id \in retain.ids
        /\ r.blob \in prefix.listed => r.file \in prefix.scope
        /\ \A p \in Purgers :
              single[p].at # "off" /\ r.blob = single[p].blob => r \in Named(p)

\* A marker older than the last sight of the file is only there while the pass
\* that is going to clear it has not come to it.
MarkInv ==
    /\ \A f \in Files :
          /\ lastSeen[f] <= today
          /\ retain.at # "off" => lastSeen[f] <= retain.now
          /\ entry[f].deleted # 0 => entry[f].id # 0
    /\ 0 \notin retain.ids
    /\ faults = 0 =>
          \A f \in Files :
             /\ entry[f].deleted # 0 /\ entry[f].deleted < lastSeen[f] =>
                   f \in walk.seen /\ (walk.on \/ (retain.at = "marking" /\ f \in retain.left))
             /\ entry[f].id \in retain.ids => lastSeen[f] + Retention <= today

\* What a removal of rows is going to remove, it has dealt with on the server.
DoneInv ==
    /\ retain.at = "deleting" =>
          \A r \in versions : entry[r.file].id \in retain.ids =>
             r.blob \in retain.blobs \cup retain.failed \/ stored[r.blob] = "deleted"
    /\ \A b \in prefix.listed :
          b \in prefix.blobs \cup prefix.failed \/ stored[b] = "deleted"
    /\ \A p \in Purgers : single[p].at = "deleted" => stored[single[p].blob] = "deleted"

\* The number that a purge of a version has looked up is not given again to
\* a file with the same id, as long as no other purge overtakes it.
ExactInv ==
    \A p \in Purgers \ raced : single[p].at # "off" =>
        /\ single[p].id \in 1 .. nextID - 1
        /\ \A r \in Named(p) : r.blob = single[p].blob
        /\ \A f \in Files : entry[f].id = single[p].id =>
              \E r \in versions : r.file = f /\ single[p].num <= r.num

-----------------------------------------------------------------------------
(* Type correctness *)

LEMMA MaintInits == MaintInit => MaintTypeOK /\ WalkInv
<1>. SUFFICES ASSUME MaintInit PROVE MaintTypeOK /\ WalkInv
  OBVIOUS
<1>1. TypeOK
  BY TypeInit DEF MaintInit
<1>2. versions = {} /\ \A w \in Workers : pc[w] = Idle
  BY DEF MaintInit, Init
<1>3. MaintTypeOK
  BY <1>1, <1>2, MaintenanceAssumption
  DEF MaintInit, MaintTypeOK, VersionsOf, Row0, NoEntry, NoWalk, NoRetain, NoPrefix,
      NoSingle
<1>4. WalkInv
  BY <1>2 DEF MaintInit, WalkInv, NoWalk, NoRetain
<1>. QED BY <1>3, <1>4

\* Rows are removed, blobs are deleted, and the rest of the store stays.
LEMMA RemovalType ==
    ASSUME TypeOK, UNCHANGED <<source, clock, payload, locals>>, versions' \subseteq versions,
           \/ UNCHANGED stored
           \/ \E b \in Blobs : stored' = [stored EXCEPT ![b] = "deleted"],
           faults' = faults \/ Fault
    PROVE  TypeOK'
<1>1. versions' \in SUBSET Row /\ IsFiniteSet(versions')
  BY FS_Subset DEF TypeOK
<1>2. faults' \in Nat
  BY DEF TypeOK, Fault
<1>3. stored' \in [Blobs -> {"none", "partial", "complete", "deleted"}]
  BY DEF TypeOK
<1>. QED BY <1>1, <1>2, <1>3 DEF TypeOK, locals

LEMMA StoreUnchangedType ==
    ASSUME TypeOK, UNCHANGED <<source, versions, clock, remote, locals>>,
           faults' = faults \/ Fault
    PROVE  TypeOK'
BY RemovalType DEF remote

LEMMA BaseTypeStep ==
    ASSUME MaintTypeOK, [MaintNext]_mvars
    PROVE  TypeOK'
<1>0. TypeOK
  BY DEF MaintTypeOK
<1>1. ASSUME Next PROVE TypeOK'
  BY <1>0, <1>1, TypeStep
<1>2. ASSUME UNCHANGED vars PROVE TypeOK'
  BY <1>0, <1>2, TypeStep
<1>3. ASSUME World PROVE TypeOK'
  <2>1. ASSUME NEW f \in Files, EditPresent(f) PROVE TypeOK'
    BY <1>1, <2>1 DEF EditPresent, Next
  <2>. QED BY <1>2, <1>3, <2>1 DEF World, NextDay, Vanish, Reappear
<1>4. ASSUME Walk PROVE TypeOK'
  <2>1. ASSUME Stop PROVE TypeOK'
    BY <1>0, <2>1, StoreUnchangedType DEF Stop
  <2>2. ASSUME NEW f \in Files, Miss(f) PROVE TypeOK'
    BY <1>0, <2>2, StoreUnchangedType DEF Miss
  <2>. QED BY <1>2, <1>4, <2>1, <2>2 DEF Walk, StartRun, EndWalk, Visit, TakeNothing
<1>5. ASSUME NEW w \in Workers, Backup(w) PROVE TypeOK'
  <2>1. ASSUME NEW f \in Files, Take(w, f) PROVE TypeOK'
    BY <1>1, <2>1 DEF Take, Next
  <2>2. ASSUME Work(w) PROVE TypeOK'
    BY <1>1, <2>2 DEF Work, Next, Progress
  <2>3. ASSUME Read(w) PROVE TypeOK'
    BY <1>1, <2>3 DEF Read, Next, Progress
  <2>4. ASSUME Vanished(w) PROVE TypeOK'
    <3>1. versions' \in SUBSET Row /\ IsFiniteSet(versions')
      BY <1>0, <2>4 DEF Vanished, TypeOK
    <3>2. stored' \in [Blobs -> {"none", "partial", "complete", "deleted"}]
      BY <1>0, <2>4 DEF Vanished, TypeOK, remote
    <3>. QED BY <1>0, <2>4, <3>1, <3>2, FinishedType DEF Vanished, remote
  <2>5. ASSUME Record(w) PROVE TypeOK'
    BY <1>1, <2>5 DEF Record, Next, Progress
  <2>. QED BY <1>5, <2>1, <2>2, <2>3, <2>4, <2>5 DEF Backup
<1>6. ASSUME NEW b \in Blobs, Deleted(b), UNCHANGED <<source, versions, clock, payload, locals>>
      PROVE  TypeOK'
  BY <1>0, <1>6, RemovalType DEF Deleted
<1>7. ASSUME Retire PROVE TypeOK'
  <2>1. ASSUME NEW b \in Blobs, RetainDelete(b) PROVE TypeOK'
    BY <1>0, <1>6, <2>1, StoreUnchangedType DEF RetainDelete, NotDeleted, remote
  <2>2. ASSUME RetainRemove PROVE TypeOK'
    BY <1>0, <2>2, RemovalType DEF RetainRemove, remote
  <2>3. ASSUME RetainNothing PROVE TypeOK'
    BY <1>0, <2>3, StoreUnchangedType DEF RetainNothing
  <2>4. ASSUME NEW f \in Files, Judge(f) PROVE TypeOK'
    BY <1>0, <2>4, StoreUnchangedType DEF Judge
  <2>. QED
    BY <1>2, <1>7, <2>1, <2>2, <2>3, <2>4 DEF Retire, RetainList, RetainStopped
<1>8. ASSUME Purge PROVE TypeOK'
  <2>1. ASSUME NEW b \in Blobs, PurgeBlob(b) PROVE TypeOK'
    BY <1>0, <1>6, <2>1, StoreUnchangedType DEF PurgeBlob, NotDeleted, remote
  <2>2. ASSUME PurgeRemove PROVE TypeOK'
    BY <1>0, <2>2, RemovalType DEF PurgeRemove, remote
  <2>3. ASSUME PurgeDropped PROVE TypeOK'
    BY <1>0, <2>3, StoreUnchangedType DEF PurgeDropped
  <2>. QED BY <1>2, <1>8, <2>1, <2>2, <2>3 DEF Purge, PurgeList
<1>9. ASSUME NEW p \in Purgers, PurgeVersion(p) PROVE TypeOK'
  <2>1. ASSUME DeleteVersionBlob(p) PROVE TypeOK'
    <3>1. ASSUME Deleted(single[p].blob) PROVE TypeOK'
      <4>1. CASE single[p].blob \in Blobs
        BY <1>6, <2>1, <3>1, <4>1 DEF DeleteVersionBlob
      <4>2. CASE single[p].blob \notin Blobs
        <5>1. stored' = stored
          BY <1>0, <3>1, <4>2 DEF Deleted, TypeOK
        <5>. QED
          BY <1>0, <2>1, <3>1, <5>1, StoreUnchangedType DEF DeleteVersionBlob, Deleted, remote
      <4>. QED BY <4>1, <4>2
    <3>. QED
      BY <1>0, <2>1, <3>1, StoreUnchangedType DEF DeleteVersionBlob, NotDeleted, remote
  <2>2. ASSUME RemoveVersion(p) PROVE TypeOK'
    BY <1>0, <2>2, RemovalType DEF RemoveVersion, remote
  <2>. QED BY <1>2, <1>9, <2>1, <2>2 DEF PurgeVersion, FindVersion
<1>10. ASSUME Die PROVE TypeOK'
  BY <1>0, <1>10 DEF Die, TypeOK, Fault, Steps, Idle, Holding, Task, NoTask, remote
<1>. QED
  BY <1>2, <1>3, <1>4, <1>5, <1>7, <1>8, <1>9, <1>10 DEF MaintNext, mvars

\* What the type invariant says of the files table.
EntryOK ==
    /\ entry \in [Files -> Row0] /\ nextID \in Nat \ {0}
    /\ \A f \in Files : entry[f].id # 0 <=> VersionsOf(versions, f) # {}
    /\ \A f \in Files : entry[f].id < nextID /\ entry[f].deleted <= today
    /\ \A f, g \in Files : entry[f].id = entry[g].id /\ entry[f].id # 0 => f = g

\* A row that is still, or again, the row of the version s.
Same(r, s) == r.file = s.file /\ r.num = s.num /\ r.blob = s.blob

\* What Record does to the table: the file's new row takes the worker's blob and
\* a number above all others, and at most one row of the file makes room for it.
RecordEffect(w, row, ev) ==
    /\ versions' = (versions \ ev) \cup {row}
    /\ row.file = task[w].file /\ row.blob = held[w] /\ row.num \in Nat
    /\ \A r \in versions : r.file = row.file => r.num < row.num
    /\ \/ ev = {} /\ Finish(w)
       \/ \E old \in versions :
             /\ ev = {old} /\ old.file = task[w].file
             /\ held' = [held EXCEPT ![w] = old.blob]
             /\ pc' = [pc EXCEPT ![w] = "evicting"]

LEMMA RecordShape ==
    ASSUME TypeOK, NEW w \in Workers, Record(w)
    PROVE  \E row, ev : RecordEffect(w, row, ev)
<1>1. PICK n \in NextNums(versions, task[w].file), t \in Stamps(task[w].file) :
         \E out \in Upserted(versions, NewRow(w, n, t)) : Committed(w, t, out)
  BY DEF Record, Upsert
<1>2. PICK out \in Upserted(versions, NewRow(w, n, t)) : Committed(w, t, out)
  BY <1>1
<1>. DEFINE row == NewRow(w, n, t)
<1>3. row.file = task[w].file /\ row.blob = held[w] /\ row.num = n
  BY DEF NewRow
<1>4. out \in Upserted(versions, row)
  BY <1>2
<1>. HIDE DEF row
<1>5. versions \in SUBSET Row
  BY DEF TypeOK
<1>6. n \in Nat
  BY <1>5, NextNumsType
<1>7. \A r \in versions : r.file = row.file => r.num < row.num
  BY <1>3, <1>5, NextNumAbove DEF VersionsOf
<1>8. /\ out.rows = (versions \ out.evicted) \cup {row}
      /\ \/ out.evicted = {}
         \/ \E old \in versions : out.evicted = {old} /\ old.file = row.file
  <2>1. CASE HasRoom(versions, row.file)
    BY <1>4, <2>1 DEF Upserted
  <2>2. CASE ~HasRoom(versions, row.file)
    <3>1. PICK old \in Oldest(versions, row.file) :
             out = [rows |-> (versions \ {old}) \cup {row}, evicted |-> {old}]
      BY <1>4, <2>2 DEF Upserted
    <3>2. old \in versions /\ old.file = row.file
      BY DEF Oldest, VersionsOf
    <3>. QED BY <3>1, <3>2
  <2>. QED BY <2>1, <2>2
<1>9. versions' = (versions \ out.evicted) \cup {row}
  BY <1>2, <1>8 DEF Committed
<1>10. ASSUME out.evicted = {} PROVE Finish(w)
  BY <1>2, <1>10 DEF Committed
<1>11. ASSUME NEW old \in versions, out.evicted = {old}, old.file = row.file
       PROVE  /\ held' = [held EXCEPT ![w] = old.blob]
              /\ pc' = [pc EXCEPT ![w] = "evicting"]
  BY <1>2, <1>11 DEF Committed
<1>12. RecordEffect(w, row, out.evicted)
  BY <1>3, <1>6, <1>7, <1>8, <1>9, <1>10, <1>11 DEF RecordEffect
<1>. QED BY <1>12

LEMMA RefreshShape ==
    ASSUME NEW w \in Workers, RefreshMtime(w)
    PROVE  \/ versions' = versions
           \/ \E x, new :
                 /\ x \in versions /\ versions' = (versions \ {x}) \cup {new}
                 /\ Same(new, x)
<1>1. CASE versions' \in MtimeRefreshed(versions, task[w].file, task[w].mtime)
  <2>1. CASE versions' = versions
    BY <2>1
  <2>2. ASSUME NEW x \in versions,
               versions' = (versions \ {x}) \cup {[x EXCEPT !.mtime = task[w].mtime]}
        PROVE  \E y, new : /\ y \in versions /\ versions' = (versions \ {y}) \cup {new}
                           /\ Same(new, y)
    <3>. DEFINE new == [x EXCEPT !.mtime = task[w].mtime]
    <3>1. Same(new, x)
      BY DEF Same
    <3>2. versions' = (versions \ {x}) \cup {new}
      BY <2>2
    <3>. HIDE DEF new
    <3>. QED BY <3>1, <3>2
  <2>. QED BY <1>1, <2>1, <2>2, MtimeRefreshedShape
<1>. QED BY <1>1 DEF RefreshMtime

\* The rows change in five ways.
LEMMA RowsStep ==
    ASSUME [MaintNext]_mvars
    PROVE  \/ UNCHANGED <<versions, entry, nextID>>
           \/ \E f \in Files : Judge(f)
           \/ \E w \in Workers : RefreshMtime(w) /\ Work(w)
           \/ \E w \in Workers : Record(w)
           \/ RetainRemove
           \/ PurgeRemove
           \/ \E p \in Purgers : RemoveVersion(p)
<1>. DEFINE Still == UNCHANGED <<versions, entry, nextID>>
<1>1. ASSUME World PROVE Still
  BY <1>1 DEF World, NextDay, Vanish, Reappear, EditPresent, Edit, vars, table
<1>2. ASSUME Walk PROVE Still
  BY <1>2 DEF Walk, StartRun, Stop, EndWalk, Visit, Miss, TakeNothing, vars, table
<1>3. ASSUME NEW w \in Workers, Backup(w)
      PROVE  Still \/ (RefreshMtime(w) /\ Work(w)) \/ Record(w)
  <2>1. ASSUME NEW f \in Files, Take(w, f) PROVE Still
    BY <2>1 DEF Take, TakeFile, table
  <2>2. ASSUME Read(w) \/ Vanished(w) PROVE Still
    BY <2>2 DEF Read, HashFile, StartUpload, Vanished, table
  <2>3. ASSUME Work(w), ~RefreshMtime(w) PROVE Still
    BY <2>3 DEF Work, FastSkip, Lookup, UploadDone, DeleteEvicted, Fails, UploadFails,
                UpsertFails, ReadFails, table
  <2>4. CASE Work(w)
    BY <2>3, <2>4
  <2>5. CASE Read(w) \/ Vanished(w)
    BY <2>2, <2>5
  <2>6. CASE \E f \in Files : Take(w, f)
    BY <2>1, <2>6
  <2>7. CASE Record(w)
    BY <2>7
  <2>. QED BY <1>3, <2>4, <2>5, <2>6, <2>7, Zenon DEF Backup
<1>4. ASSUME Retire PROVE Still \/ (\E f \in Files : Judge(f)) \/ RetainRemove
  BY <1>4 DEF Retire, RetainNothing, RetainList, RetainStopped, RetainDelete, vars, table
<1>5. ASSUME Purge PROVE Still \/ PurgeRemove
  BY <1>5 DEF Purge, PurgeList, PurgeBlob, PurgeDropped, vars, table
<1>6. ASSUME NEW p \in Purgers, PurgeVersion(p) PROVE Still \/ RemoveVersion(p)
  BY <1>6 DEF PurgeVersion, FindVersion, DeleteVersionBlob, vars, table
<1>7. ASSUME Die PROVE Still
  BY <1>7 DEF Die, table
<1>8. ASSUME UNCHANGED mvars PROVE Still
  BY <1>8 DEF mvars, vars, table
<1>. QED BY <1>1, <1>2, <1>3, <1>4, <1>5, <1>6, <1>7, <1>8 DEF MaintNext

LEMMA TodayStep ==
    ASSUME today \in Nat, [MaintNext]_mvars
    PROVE  today' \in Nat /\ today <= today'
<1>1. ASSUME World PROVE today' = today \/ today' = today + 1
  BY <1>1 DEF World, NextDay, Vanish, Reappear, EditPresent, outside
<1>2. ASSUME Walk PROVE today' = today
  BY <1>2 DEF Walk, StartRun, Stop, EndWalk, Visit, Miss, TakeNothing, outside
<1>3. ASSUME NEW w \in Workers, Backup(w) PROVE today' = today
  BY <1>3 DEF Backup, Take, Work, Read, Vanished, Record, outside
<1>4. ASSUME Retire PROVE today' = today
  BY <1>4 DEF Retire, RetainNothing, RetainList, RetainStopped, RetainRemove, Judge,
              RetainDelete, outside
<1>5. ASSUME Purge PROVE today' = today
  BY <1>5 DEF Purge, PurgeList, PurgeBlob, PurgeDropped, PurgeRemove, outside
<1>6. ASSUME NEW p \in Purgers, PurgeVersion(p) PROVE today' = today
  BY <1>6 DEF PurgeVersion, FindVersion, DeleteVersionBlob, RemoveVersion, outside
<1>7. ASSUME Die PROVE today' = today
  BY <1>7 DEF Die, outside
<1>8. ASSUME UNCHANGED mvars PROVE today' = today
  BY <1>8 DEF mvars, outside
<1>. QED BY <1>1, <1>2, <1>3, <1>4, <1>5, <1>6, <1>7, <1>8 DEF MaintNext

LEMMA EntryStep ==
    ASSUME MaintTypeOK, WalkInv, [MaintNext]_mvars
    PROVE  EntryOK'
<1>0. TypeOK /\ EntryOK /\ today \in Nat
  BY DEF MaintTypeOK, EntryOK
<1>1. today' \in Nat /\ today <= today'
  BY <1>0, TodayStep
<1>2. CASE UNCHANGED <<versions, entry, nextID>>
  BY <1>0, <1>1, <1>2 DEF EntryOK, Row0
<1>3. ASSUME NEW f \in Files, Judge(f) PROVE EntryOK'
  <2>1. UNCHANGED <<versions, nextID>>
    BY <1>3 DEF Judge
  <2>2. retain.now \in Nat /\ retain.now <= today
    BY DEF MaintTypeOK, WalkInv
  <2>3. entry' = entry \/ entry' = Marked(f)
    BY <1>3 DEF Judge
  <2>4. entry' \in [Files -> Row0]
    BY <1>0, <2>2, <2>3 DEF EntryOK, Marked, Row0
  <2>5. \A g \in Files : entry'[g].id = entry[g].id
    BY <1>0, <2>3 DEF EntryOK, Marked, Row0
  <2>6. \A g \in Files : entry'[g].deleted <= today
    BY <1>0, <2>2, <2>3 DEF EntryOK, Marked, Row0
  <2>7. \A g \in Files : entry'[g].deleted <= today'
    BY <1>0, <1>1, <2>4, <2>6 DEF Row0
  <2>. QED BY <1>0, <2>1, <2>4, <2>5, <2>7 DEF EntryOK
<1>4. ASSUME NEW w \in Workers, RefreshMtime(w), Work(w) PROVE EntryOK'
  <2>1. entry' = entry /\ nextID' = nextID
    BY <1>4 DEF Work, table
  <2>2. \A f \in Files : VersionsOf(versions', f) # {} <=> VersionsOf(versions, f) # {}
    <3>1. CASE versions' = versions
      BY <3>1
    <3>2. ASSUME NEW x \in versions, NEW new, Same(new, x),
                 versions' = (versions \ {x}) \cup {new}
          PROVE  \A f \in Files : VersionsOf(versions', f) # {} <=> VersionsOf(versions, f) # {}
      BY <3>2 DEF VersionsOf, Same
    <3>. QED BY <1>4, <3>1, <3>2, RefreshShape
  <2>. QED BY <1>0, <1>1, <2>1, <2>2 DEF EntryOK, Row0
<1>5. ASSUME NEW w \in Workers, Record(w) PROVE EntryOK'
  <2>. DEFINE f == task[w].file
  <2>1. f \in Files
    BY <1>0, <1>5 DEF Record, Upsert, TypeOK, Idle
  <2>2. PICK row, ev :
           /\ versions' = (versions \ ev) \cup {row} /\ row.file = f
           /\ \A r \in ev : r.file = f
    <3>1. PICK row, ev : RecordEffect(w, row, ev)
      BY <1>0, <1>5, RecordShape
    <3>2. \A r \in ev : r.file = f
      BY <3>1 DEF RecordEffect
    <3>. QED BY <3>1, <3>2 DEF RecordEffect
  <2>3. /\ entry' = [entry EXCEPT ![f] = EntryFor(f)]
        /\ nextID' = IF entry[f].id # 0 THEN nextID ELSE nextID + 1
    BY <1>5 DEF Record
  <2>. HIDE DEF f
  <2>4. VersionsOf(versions', f) # {} /\
           \A g \in Files : g # f => VersionsOf(versions', g) = VersionsOf(versions, g)
    BY <2>2 DEF VersionsOf
  <2>5. /\ EntryFor(f) \in Row0 /\ EntryFor(f).id # 0 /\ EntryFor(f).deleted = 0
        /\ EntryFor(f).id < nextID' /\ nextID' \in Nat \ {0} /\ nextID <= nextID'
        /\ entry[f].id # 0 => EntryFor(f).id = entry[f].id
        /\ entry[f].id = 0 => EntryFor(f).id = nextID
    BY <1>0, <2>1, <2>3 DEF EntryOK, EntryFor, Row0
  <2>6. entry' \in [Files -> Row0]
    BY <1>0, <2>3, <2>5 DEF EntryOK
  <2>7. \A g \in Files : entry'[g] = IF g = f THEN EntryFor(f) ELSE entry[g]
    BY <1>0, <2>3 DEF EntryOK
  <2>8. \A g \in Files : entry'[g].id # 0 <=> VersionsOf(versions', g) # {}
    BY <1>0, <2>4, <2>5, <2>7 DEF EntryOK
  <2>9. \A g \in Files : entry'[g].id < nextID' /\ entry'[g].deleted <= today'
    BY <1>0, <1>1, <2>5, <2>7 DEF EntryOK, Row0
  <2>10. \A g, h \in Files : entry'[g].id = entry'[h].id /\ entry'[g].id # 0 => g = h
    BY <1>0, <2>5, <2>7 DEF EntryOK, Row0
  <2>. QED BY <2>5, <2>6, <2>8, <2>9, <2>10 DEF EntryOK
<1>6. ASSUME NEW D \in SUBSET Files, nextID' = nextID,
             \A f \in Files \ D : VersionsOf(versions', f) = VersionsOf(versions, f),
             \A f \in D : VersionsOf(versions', f) = {},
             entry' = [f \in Files |-> IF f \in D THEN NoEntry ELSE entry[f]]
      PROVE  EntryOK'
  <2>1. \A f \in Files : entry'[f] = IF f \in D THEN NoEntry ELSE entry[f]
    BY <1>6
  <2>2. NoEntry \in Row0 /\ NoEntry.id = 0 /\ NoEntry.deleted = 0
    BY DEF NoEntry, Row0
  <2>3. entry' \in [Files -> Row0]
    BY <1>0, <1>6, <2>2 DEF EntryOK
  <2>4. \A f \in Files : entry'[f].id # 0 <=> VersionsOf(versions', f) # {}
    BY <1>0, <1>6, <2>1, <2>2 DEF EntryOK
  <2>5. \A f \in Files : entry'[f].id < nextID' /\ entry'[f].deleted <= today'
    BY <1>0, <1>1, <1>6, <2>1, <2>2 DEF EntryOK, Row0
  <2>6. \A f, g \in Files : entry'[f].id = entry'[g].id /\ entry'[f].id # 0 => f = g
    BY <1>0, <2>1, <2>2 DEF EntryOK
  <2>. QED BY <1>0, <1>6, <2>3, <2>4, <2>5, <2>6 DEF EntryOK
<1>7. ASSUME RetainRemove, ~UNCHANGED <<versions, entry>> PROVE EntryOK'
  <2>. DEFINE D == {f \in Files : entry[f].id \in retain.ids}
  <2>1. /\ versions' = versions \ OfIDs(retain.ids) /\ nextID' = nextID
        /\ entry' = [f \in Files |-> IF f \in D THEN NoEntry ELSE entry[f]]
    BY <1>7 DEF RetainRemove
  <2>2. \A f \in Files : VersionsOf(versions', f)
                            = IF f \in D THEN {} ELSE VersionsOf(versions, f)
    BY <2>1 DEF OfIDs, VersionsOf
  <2>. QED BY <1>6, <2>1, <2>2
<1>8. ASSUME PurgeRemove, ~UNCHANGED <<versions, entry>> PROVE EntryOK'
  <2>. DEFINE D == prefix.scope
  <2>1. /\ versions' = versions \ InScope(D) /\ nextID' = nextID
        /\ entry' = [f \in Files |-> IF f \in D THEN NoEntry ELSE entry[f]]
    BY <1>8 DEF PurgeRemove
  <2>2. D \in SUBSET Files
    BY DEF MaintTypeOK
  <2>. HIDE DEF D
  <2>3. \A f \in Files : VersionsOf(versions', f)
                            = IF f \in D THEN {} ELSE VersionsOf(versions, f)
    BY <2>1 DEF InScope, VersionsOf
  <2>. QED BY <1>6, <2>1, <2>2, <2>3
<1>9. ASSUME NEW p \in Purgers, RemoveVersion(p), ~UNCHANGED <<versions, entry>>
      PROVE  EntryOK'
  <2>1. /\ versions' \subseteq versions /\ nextID' = nextID
        /\ entry' = [f \in Files |->
                        IF VersionsOf(versions', f) = {} THEN NoEntry ELSE entry[f]]
    BY <1>9 DEF RemoveVersion
  <2>2. \A f \in Files : VersionsOf(versions', f) # {} => entry[f].id # 0
    BY <1>0, <2>1 DEF EntryOK, VersionsOf
  <2>3. \A f \in Files : entry'[f] = IF VersionsOf(versions', f) = {} THEN NoEntry ELSE entry[f]
    BY <2>1
  <2>4. NoEntry \in Row0 /\ NoEntry.id = 0 /\ NoEntry.deleted = 0
    BY DEF NoEntry, Row0
  <2>5. entry' \in [Files -> Row0]
    BY <1>0, <2>1, <2>4 DEF EntryOK
  <2>6. \A f \in Files : entry'[f].id < nextID' /\ entry'[f].deleted <= today'
    BY <1>0, <1>1, <2>1, <2>3, <2>4 DEF EntryOK, Row0
  <2>7. \A f \in Files : entry'[f].id # 0 <=> VersionsOf(versions', f) # {}
    BY <2>2, <2>3, <2>4
  <2>8. \A f, g \in Files : entry'[f].id = entry'[g].id /\ entry'[f].id # 0 => f = g
    BY <1>0, <2>3, <2>4 DEF EntryOK
  <2>. QED BY <1>0, <2>1, <2>5, <2>6, <2>7, <2>8 DEF EntryOK
<1>10. ASSUME UNCHANGED <<versions, entry>>, nextID' = nextID PROVE EntryOK'
  BY <1>2, <1>10
<1>. QED
  BY <1>2, <1>3, <1>4, <1>5, <1>7, <1>8, <1>9, <1>10, RowsStep
  DEF RetainRemove, PurgeRemove, RemoveVersion

\* What the type invariant says of the rest.
WorldOK == gone \subseteq Files /\ today \in 1 .. MaxDays /\ lastSeen \in [Files -> Nat]

RunOK ==
    /\ walk \in [on : BOOLEAN, stopped : BOOLEAN, left : SUBSET Files,
                 queue : SUBSET Files, seen : SUBSET Files]
    /\ retain \in [at : {"off", "marking", "deleting"}, now : Nat, left : SUBSET Files,
                   ids : SUBSET Nat, blobs : SUBSET Blobs, failed : SUBSET Blobs]

PurgesOK ==
    /\ prefix \in [at : {"off", "deleting"}, scope : SUBSET Files,
                   listed : SUBSET Blobs, blobs : SUBSET Blobs, failed : SUBSET Blobs]
    /\ single \in [Purgers -> [at : {"off", "found", "deleted"}, id : Nat, num : Nat,
                               blob : Blobs \cup {NoBlob}]]
    /\ raced \subseteq Purgers

LEMMA OffType ==
    /\ NoWalk \in [on : BOOLEAN, stopped : BOOLEAN, left : SUBSET Files,
                   queue : SUBSET Files, seen : SUBSET Files]
    /\ NoRetain \in [at : {"off", "marking", "deleting"}, now : Nat, left : SUBSET Files,
                     ids : SUBSET Nat, blobs : SUBSET Blobs, failed : SUBSET Blobs]
    /\ NoPrefix \in [at : {"off", "deleting"}, scope : SUBSET Files,
                     listed : SUBSET Blobs, blobs : SUBSET Blobs, failed : SUBSET Blobs]
    /\ NoSingle \in [at : {"off", "found", "deleted"}, id : Nat, num : Nat,
                     blob : Blobs \cup {NoBlob}]
<1>1. NoWalk \in [on : BOOLEAN, stopped : BOOLEAN, left : SUBSET Files,
                  queue : SUBSET Files, seen : SUBSET Files]
  BY DEF NoWalk
<1>2. NoRetain \in [at : {"off", "marking", "deleting"}, now : Nat, left : SUBSET Files,
                    ids : SUBSET Nat, blobs : SUBSET Blobs, failed : SUBSET Blobs]
  BY DEF NoRetain
<1>3. NoPrefix \in [at : {"off", "deleting"}, scope : SUBSET Files,
                    listed : SUBSET Blobs, blobs : SUBSET Blobs, failed : SUBSET Blobs]
  BY DEF NoPrefix
<1>4. NoSingle \in [at : {"off", "found", "deleted"}, id : Nat, num : Nat,
                    blob : Blobs \cup {NoBlob}]
  BY DEF NoSingle
<1>. QED BY <1>1, <1>2, <1>3, <1>4

LEMMA WorldStep ==
    ASSUME MaintTypeOK, [MaintNext]_mvars
    PROVE  WorldOK'
<1>0. WorldOK /\ MaxDays \in Nat
  BY MaintenanceAssumption DEF MaintTypeOK, WorldOK
<1>1. ASSUME World PROVE WorldOK'
  BY <1>0, <1>1 DEF World, NextDay, Vanish, Reappear, EditPresent, outside, WorldOK
<1>2. ASSUME Walk PROVE WorldOK'
  <2>1. ASSUME NEW f \in Files, Visit(f) PROVE WorldOK'
    BY <1>0, <2>1 DEF Visit, WorldOK
  <2>. QED
    BY <1>0, <1>2, <2>1 DEF Walk, StartRun, Stop, EndWalk, Miss, TakeNothing, outside, WorldOK
<1>3. ASSUME NEW w \in Workers, Backup(w) PROVE WorldOK'
  BY <1>0, <1>3 DEF Backup, Take, Work, Read, Vanished, Record, outside, WorldOK
<1>4. ASSUME Retire PROVE WorldOK'
  BY <1>0, <1>4 DEF Retire, RetainNothing, RetainList, RetainStopped, RetainRemove, Judge,
              RetainDelete, outside, WorldOK
<1>5. ASSUME Purge PROVE WorldOK'
  BY <1>0, <1>5 DEF Purge, PurgeList, PurgeBlob, PurgeDropped, PurgeRemove, outside, WorldOK
<1>6. ASSUME NEW p \in Purgers, PurgeVersion(p) PROVE WorldOK'
  BY <1>0, <1>6 DEF PurgeVersion, FindVersion, DeleteVersionBlob, RemoveVersion, outside,
                    WorldOK
<1>7. ASSUME Die PROVE WorldOK'
  BY <1>0, <1>7 DEF Die, outside, WorldOK
<1>8. ASSUME UNCHANGED mvars PROVE WorldOK'
  BY <1>0, <1>8 DEF mvars, outside, WorldOK
<1>. QED BY <1>1, <1>2, <1>3, <1>4, <1>5, <1>6, <1>7, <1>8 DEF MaintNext

LEMMA RunStep ==
    ASSUME MaintTypeOK, [MaintNext]_mvars
    PROVE  RunOK'
<1>0. RunOK /\ EntryOK /\ TypeOK /\ today \in Nat
  BY DEF MaintTypeOK, RunOK, EntryOK
<1>. USE DEF run
<1>1. ASSUME World PROVE RunOK'
  BY <1>0, <1>1 DEF World, NextDay, Vanish, Reappear, EditPresent, RunOK
<1>2. ASSUME Walk PROVE RunOK'
  <2>1. ASSUME StartRun PROVE RunOK'
    BY <1>0, <2>1, OffType DEF StartRun, RunOK
  <2>2. ASSUME EndWalk PROVE RunOK'
    <3>1. Tracked \subseteq Files
      BY DEF Tracked
    <3>2. CASE walk.stopped
      BY <1>0, <2>2, <3>2, OffType DEF EndWalk, RunOK
    <3>3. CASE ~walk.stopped
      <4>1. /\ walk' = [walk EXCEPT !.on = FALSE]
            /\ retain' = [NoRetain EXCEPT !.at = "marking", !.now = today, !.left = Tracked]
        BY <2>2, <3>3 DEF EndWalk
      <4>. QED BY <1>0, <3>1, <4>1, OffType DEF RunOK
    <3>. QED BY <3>2, <3>3
  <2>3. ASSUME NEW f \in Files, Visit(f) \/ Miss(f) \/ TakeNothing(f) PROVE RunOK'
    <3>. DEFINE l == walk.left \ {f}
                q == walk.queue \ {f}
                more == walk.queue \cup {f}
                s == walk.seen \cup {f}
    <3>1. /\ retain' = retain
          /\ \/ walk' = [walk EXCEPT !.left = l, !.seen = s, !.queue = more]
             \/ walk' = [walk EXCEPT !.left = l]
             \/ walk' = [walk EXCEPT !.queue = q]
      BY <2>3 DEF Visit, Miss, TakeNothing
    <3>2. {l, q, more, s} \subseteq SUBSET Files
      BY <1>0 DEF RunOK
    <3>. HIDE DEF l, q, more, s
    <3>. QED BY <1>0, <3>1, <3>2 DEF RunOK
  <2>4. ASSUME Stop PROVE RunOK'
    BY <1>0, <2>4 DEF Stop, RunOK
  <2>. QED BY <1>2, <2>1, <2>2, <2>3, <2>4 DEF Walk
<1>3. ASSUME NEW w \in Workers, Backup(w) PROVE RunOK'
  <2>1. ASSUME NEW f \in Files, Take(w, f) PROVE RunOK'
    BY <1>0, <2>1 DEF Take, RunOK
  <2>. QED BY <1>0, <1>3, <2>1 DEF Backup, Work, Read, Vanished, Record, RunOK
<1>4. ASSUME Retire PROVE RunOK'
  <2>1. ASSUME NEW f \in Files, Judge(f) PROVE RunOK'
    <3>1. entry[f].id \in Nat
      BY <1>0 DEF EntryOK, Row0
    <3>. QED BY <1>0, <2>1, <3>1 DEF Judge, RunOK
  <2>2. ASSUME RetainList PROVE RunOK'
    <3>1. {r.blob : r \in OfIDs(retain.ids)} \subseteq Blobs
      BY <1>0 DEF OfIDs, TypeOK, Row
    <3>. QED BY <1>0, <2>2, <3>1 DEF RetainList, RunOK
  <2>3. ASSUME NEW b \in Blobs, RetainDelete(b) PROVE RunOK'
    <3>. DEFINE left == retain.blobs \ {b}
                bad == retain.failed \cup {b}
    <3>1. /\ walk' = walk
          /\ \/ retain' = [retain EXCEPT !.blobs = left]
             \/ retain' = [retain EXCEPT !.blobs = left, !.failed = bad]
      BY <2>3 DEF RetainDelete
    <3>2. {left, bad} \subseteq SUBSET Blobs
      BY <1>0 DEF RunOK
    <3>. HIDE DEF left, bad
    <3>. QED BY <1>0, <3>1, <3>2 DEF RunOK
  <2>. QED
    BY <1>0, <1>4, <2>1, <2>2, <2>3, OffType
    DEF Retire, RetainNothing, RetainStopped, RetainRemove, EndRun, RunOK
<1>5. ASSUME Purge PROVE RunOK'
  BY <1>0, <1>5 DEF Purge, PurgeList, PurgeBlob, PurgeDropped, PurgeRemove, RunOK
<1>6. ASSUME NEW p \in Purgers, PurgeVersion(p) PROVE RunOK'
  BY <1>0, <1>6 DEF PurgeVersion, FindVersion, DeleteVersionBlob, RemoveVersion, RunOK
<1>7. ASSUME Die PROVE RunOK'
  BY <1>0, <1>7, OffType DEF Die, EndRun, RunOK
<1>8. ASSUME UNCHANGED mvars PROVE RunOK'
  BY <1>0, <1>8 DEF mvars, RunOK
<1>. QED BY <1>1, <1>2, <1>3, <1>4, <1>5, <1>6, <1>7, <1>8 DEF MaintNext

LEMMA PurgesStep ==
    ASSUME MaintTypeOK, [MaintNext]_mvars
    PROVE  PurgesOK'
<1>0. PurgesOK /\ EntryOK /\ TypeOK
  BY DEF MaintTypeOK, PurgesOK, EntryOK
<1>. USE DEF purges
<1>1. ASSUME World PROVE PurgesOK'
  BY <1>0, <1>1 DEF World, NextDay, Vanish, Reappear, EditPresent, PurgesOK
<1>2. ASSUME Walk PROVE PurgesOK'
  BY <1>0, <1>2 DEF Walk, StartRun, Stop, EndWalk, Visit, Miss, TakeNothing, PurgesOK
<1>3. ASSUME NEW w \in Workers, Backup(w) PROVE PurgesOK'
  BY <1>0, <1>3 DEF Backup, Take, Work, Read, Vanished, Record, PurgesOK
<1>4. ASSUME Retire PROVE PurgesOK'
  BY <1>0, <1>4 DEF Retire, RetainNothing, RetainList, RetainStopped, RetainRemove, Judge,
              RetainDelete, PurgesOK
<1>5. ASSUME Purge PROVE PurgesOK'
  <2>1. ASSUME NEW s \in Scopes, PurgeList(s) PROVE PurgesOK'
    <3>1. {r.blob : r \in InScope(s)} \subseteq Blobs
      BY <1>0 DEF InScope, TypeOK, Row
    <3>2. s \subseteq Files
      BY MaintenanceAssumption
    <3>. DEFINE listed == {r.blob : r \in InScope(s)}
    <3>3. /\ prefix' = [at |-> "deleting", scope |-> s, listed |-> listed, blobs |-> listed,
                        failed |-> {}]
          /\ single' = single /\ raced' = raced
      BY <2>1 DEF PurgeList
    <3>4. listed \subseteq Blobs
      BY <3>1
    <3>. HIDE DEF listed
    <3>. QED BY <1>0, <3>2, <3>3, <3>4 DEF PurgesOK
  <2>2. ASSUME NEW b \in Blobs, PurgeBlob(b) PROVE PurgesOK'
    <3>. DEFINE left == prefix.blobs \ {b}
                bad == prefix.failed \cup {b}
    <3>1. /\ single' = single /\ raced' = raced
          /\ \/ prefix' = [prefix EXCEPT !.blobs = left]
             \/ prefix' = [prefix EXCEPT !.blobs = left, !.failed = bad]
      BY <2>2 DEF PurgeBlob
    <3>2. {left, bad} \subseteq SUBSET Blobs
      BY <1>0 DEF PurgesOK
    <3>. HIDE DEF left, bad
    <3>. QED BY <1>0, <3>1, <3>2 DEF PurgesOK
  <2>. QED BY <1>0, <1>5, <2>1, <2>2, OffType DEF Purge, PurgeDropped, PurgeRemove, PurgesOK
<1>6. ASSUME NEW p \in Purgers, PurgeVersion(p) PROVE PurgesOK'
  <2>1. ASSUME NEW r \in versions, FindVersion(p, r) PROVE PurgesOK'
    <3>1. r \in Row /\ entry[r.file].id \in Nat
      BY <1>0 DEF TypeOK, Row, EntryOK, Row0
    <3>. QED BY <1>0, <2>1, <3>1 DEF FindVersion, PurgesOK, Row
  <2>2. ASSUME DeleteVersionBlob(p) PROVE PurgesOK'
    BY <1>0, <2>2, OffType DEF DeleteVersionBlob, PurgesOK
  <2>3. ASSUME RemoveVersion(p) PROVE PurgesOK'
    <3>1. raced \subseteq Purgers
      BY <1>0 DEF PurgesOK
    <3>2. raced' \subseteq Purgers
      BY <2>3, <3>1, ZenonT(60) DEF RemoveVersion, Overtaken
    <3>3. prefix' = prefix /\ single' = [single EXCEPT ![p] = NoSingle]
      BY <2>3 DEF RemoveVersion
    <3>. QED BY <1>0, <3>2, <3>3, OffType DEF PurgesOK
  <2>. QED BY <1>6, <2>1, <2>2, <2>3 DEF PurgeVersion
<1>7. ASSUME Die PROVE PurgesOK'
  BY <1>0, <1>7, OffType DEF Die, PurgesOK
<1>8. ASSUME UNCHANGED mvars PROVE PurgesOK'
  BY <1>0, <1>8 DEF mvars, PurgesOK
<1>. QED BY <1>1, <1>2, <1>3, <1>4, <1>5, <1>6, <1>7, <1>8 DEF MaintNext

LEMMA MaintTypeStep ==
    ASSUME MaintTypeOK, WalkInv, [MaintNext]_mvars
    PROVE  MaintTypeOK'
<1>1. TypeOK' /\ EntryOK' /\ WorldOK' /\ RunOK' /\ PurgesOK'
  BY BaseTypeStep, EntryStep, WorldStep, RunStep, PurgesStep
<1>. QED BY <1>1 DEF MaintTypeOK, EntryOK, WorldOK, RunOK, PurgesOK

\* The counter of faults only grows.
LEMMA FaultsStep ==
    ASSUME faults \in Nat, [MaintNext]_mvars
    PROVE  faults' = faults \/ faults' = faults + 1
<1>. USE DEF Fault, vars
<1>1. ASSUME World PROVE faults' = faults
  BY <1>1 DEF World, NextDay, Vanish, Reappear, EditPresent, Edit
<1>2. ASSUME Walk PROVE faults' = faults \/ faults' = faults + 1
  BY <1>2 DEF Walk, StartRun, Stop, EndWalk, Visit, Miss, TakeNothing
<1>3. ASSUME NEW w \in Workers, Backup(w) PROVE faults' = faults \/ faults' = faults + 1
  BY <1>3 DEF Backup, Take, TakeFile, Work, FastSkip, Lookup, RefreshMtime, UploadDone,
     DeleteEvicted, Fails, UploadFails, UpsertFails, ReadFails, Read, HashFile, StartUpload,
     Vanished, Record, Upsert
<1>4. ASSUME Retire PROVE faults' = faults \/ faults' = faults + 1
  BY <1>4 DEF Retire, RetainNothing, RetainList, RetainStopped, RetainRemove, Judge,
              RetainDelete, Deleted, NotDeleted
<1>5. ASSUME Purge PROVE faults' = faults \/ faults' = faults + 1
  BY <1>5 DEF Purge, PurgeList, PurgeBlob, PurgeDropped, PurgeRemove, Deleted, NotDeleted
<1>6. ASSUME NEW p \in Purgers, PurgeVersion(p) PROVE faults' = faults \/ faults' = faults + 1
  BY <1>6 DEF PurgeVersion, FindVersion, DeleteVersionBlob, RemoveVersion, Deleted, NotDeleted
<1>7. ASSUME Die PROVE faults' = faults + 1
  BY <1>7 DEF Die
<1>8. ASSUME UNCHANGED mvars PROVE faults' = faults
  BY <1>8 DEF mvars
<1>. QED BY <1>1, <1>2, <1>3, <1>4, <1>5, <1>6, <1>7, <1>8 DEF MaintNext

LEMMA WalkStep ==
    ASSUME MaintTypeOK, WalkInv, [MaintNext]_mvars
    PROVE  WalkInv'
<1>0. /\ today \in Nat /\ retain.now \in Nat /\ faults \in Nat /\ pc \in [Workers -> Steps]
      /\ today' \in Nat /\ today <= today' /\ RunOK
      /\ faults' = faults \/ faults' = faults + 1
  <2>1. today \in Nat /\ retain.now \in Nat /\ faults \in Nat /\ pc \in [Workers -> Steps] /\ RunOK
    BY DEF MaintTypeOK, TypeOK, RunOK
  <2>. QED BY <2>1, TodayStep, FaultsStep
<1>. USE DEF run
<1>1. ASSUME UNCHANGED run, pc' = pc PROVE WalkInv'
  BY <1>0, <1>1 DEF WalkInv
<1>2. ASSUME World PROVE WalkInv'
  BY <1>1, <1>2 DEF World, NextDay, Vanish, Reappear, EditPresent, Edit, vars, locals
<1>3. ASSUME Walk PROVE WalkInv'
  <2>1. ASSUME StartRun PROVE WalkInv'
    BY <1>0, <2>1 DEF StartRun, WalkInv, NoWalk, vars
  <2>2. ASSUME Stop PROVE WalkInv'
    BY <1>0, <2>2 DEF Stop, WalkInv, locals, Fault, outside, RunOK
  <2>3. ASSUME EndWalk PROVE WalkInv'
    <3>1. /\ retain.at = "off" /\ retain = NoRetain
          /\ walk.queue = {} /\ \A w \in Workers : pc'[w] = Idle
      BY <2>3 DEF EndWalk, WalkInv, vars
    <3>2. CASE walk.stopped
      BY <1>0, <2>3, <3>1, <3>2 DEF EndWalk, WalkInv, NoWalk, NoRetain
    <3>3. CASE ~walk.stopped
      <4>1. /\ walk' = [walk EXCEPT !.on = FALSE] /\ walk.left = {}
            /\ retain' = [NoRetain EXCEPT !.at = "marking", !.now = today, !.left = Tracked]
        BY <2>3, <3>3 DEF EndWalk
      <4>2. walk'.left = {} /\ walk'.queue = {} /\ ~walk'.on /\ ~walk'.stopped
        BY <1>0, <3>1, <3>3, <4>1 DEF RunOK
      <4>3. retain'.at = "marking" /\ retain'.now = today
        BY <4>1 DEF NoRetain
      <4>. QED BY <1>0, <3>1, <4>2, <4>3 DEF WalkInv
    <3>. QED BY <3>2, <3>3
  <2>4. ASSUME NEW f \in Files, Visit(f) \/ Miss(f) \/ TakeNothing(f) PROVE WalkInv'
    <3>1. /\ retain' = retain /\ pc' = pc
          /\ \/ walk' = [walk EXCEPT !.left = @ \ {f}, !.seen = @ \cup {f}, !.queue = @ \cup {f}]
             \/ walk' = [walk EXCEPT !.left = @ \ {f}]
             \/ walk' = [walk EXCEPT !.queue = @ \ {f}]
          /\ f \in walk.left \/ f \in walk.queue
      BY <2>4 DEF Visit, Miss, TakeNothing, vars, locals
    <3>2. walk.on /\ walk'.on /\ walk'.stopped = walk.stopped
      BY <1>0, <3>1 DEF WalkInv, RunOK
    <3>. QED BY <1>0, <3>1, <3>2 DEF WalkInv
  <2>. QED BY <1>3, <2>1, <2>2, <2>3, <2>4 DEF Walk
<1>4. ASSUME NEW w \in Workers, Backup(w) PROVE WalkInv'
  <2>1. walk.on
    <3>1. ASSUME NEW f \in Files, Take(w, f) PROVE walk.on
      BY <3>1 DEF Take, WalkInv
    <3>2. ASSUME pc[w] # Idle PROVE walk.on
      BY <3>2 DEF WalkInv
    <3>. QED
      BY <1>4, <3>1, <3>2 DEF Backup, Work, FastSkip, Lookup, RefreshMtime, UploadDone,
         DeleteEvicted, Fails, UploadFails, UpsertFails, ReadFails, Read, HashFile,
         StartUpload, Vanished, Record, Upsert, Idle
  <2>2. retain' = retain /\ walk'.on = walk.on /\ walk'.stopped = walk.stopped
    <3>1. ASSUME NEW f \in Files, Take(w, f)
          PROVE  retain' = retain /\ walk'.on = walk.on /\ walk'.stopped = walk.stopped
      BY <1>0, <3>1 DEF Take, RunOK
    <3>. QED BY <1>4, <3>1 DEF Backup, Work, Read, Vanished, Record
  <2>. QED BY <1>0, <2>1, <2>2 DEF WalkInv
<1>5. ASSUME Retire PROVE WalkInv'
  <2>1. ASSUME RetainNothing \/ RetainStopped \/ RetainRemove PROVE WalkInv'
    <3>1. walk' = NoWalk /\ retain' = NoRetain /\ pc' = pc /\ retain.at # "off"
      BY <2>1 DEF RetainNothing, RetainStopped, RetainRemove, EndRun, vars, locals
    <3>. QED BY <1>0, <3>1 DEF WalkInv, NoWalk, NoRetain
  <2>2. ASSUME RetainList \/ (\E f \in Files : Judge(f)) \/ (\E b \in Blobs : RetainDelete(b))
        PROVE  WalkInv'
    <3>1. /\ walk' = walk /\ pc' = pc /\ retain.at # "off"
          /\ retain'.at # "off" /\ retain'.now = retain.now
      BY <1>0, <2>2 DEF RetainList, Judge, RetainDelete, vars, locals, RunOK
    <3>. QED BY <1>0, <3>1 DEF WalkInv
  <2>. QED BY <1>5, <2>1, <2>2 DEF Retire
<1>6. ASSUME Purge PROVE WalkInv'
  BY <1>1, <1>6 DEF Purge, PurgeList, PurgeBlob, PurgeDropped, PurgeRemove, vars, locals
<1>7. ASSUME NEW p \in Purgers, PurgeVersion(p) PROVE WalkInv'
  BY <1>1, <1>7 DEF PurgeVersion, FindVersion, DeleteVersionBlob, RemoveVersion, vars, locals
<1>8. ASSUME Die PROVE WalkInv'
  BY <1>0, <1>8 DEF Die, EndRun, WalkInv, NoWalk, NoRetain
<1>9. ASSUME UNCHANGED mvars PROVE WalkInv'
  BY <1>1, <1>9 DEF mvars, vars
<1>. QED BY <1>2, <1>3, <1>4, <1>5, <1>6, <1>7, <1>8, <1>9 DEF MaintNext

\* The files table, the walk and the three removals keep their types, a file has
\* a row exactly when it has a version, and an id is never given twice, whatever
\* the removals, the backups and the faults between their steps do.
THEOREM MaintTypeCorrect == MaintSpec => []MaintTypeOK
<1>1. MaintTypeOK /\ WalkInv /\ [MaintNext]_mvars => (MaintTypeOK /\ WalkInv)'
  BY MaintTypeStep, WalkStep
<1>. QED BY <1>1, MaintInits, PTL DEF MaintSpec

-----------------------------------------------------------------------------
(* Retention.  MarkInv is what KeptWhileUnseen rests on: a marker that is   *)
(* not about to be cleared is at least as late as the last sight.           *)

Stale(f) == entry[f].deleted # 0 /\ entry[f].deleted < lastSeen[f]

Clearing(f) == f \in walk.seen /\ (walk.on \/ (retain.at = "marking" /\ f \in retain.left))

\* Steps that leave the walk's sights and the pass alone; they may empty a row
\* of files or, when no pass is at work, renew it.
LEMMA MarkFrame ==
    ASSUME MarkInv, EntryOK, EntryOK', WorldOK, faults \in Nat,
           faults' = faults \/ faults' = faults + 1,
           today' \in Nat, today <= today', lastSeen' = lastSeen,
           walk'.seen = walk.seen, walk'.on = walk.on,
           retain'.at = retain.at, retain'.now = retain.now, retain'.left = retain.left,
           retain'.ids = retain.ids,
           \A f \in Files :
              \/ entry'[f] = entry[f]
              \/ entry'[f].deleted = 0 /\ (entry'[f].id = 0 \/ retain.ids = {})
    PROVE  MarkInv'
<1>1. ASSUME NEW f \in Files
      PROVE  /\ lastSeen'[f] <= today'
             /\ retain'.at # "off" => lastSeen'[f] <= retain'.now
             /\ entry'[f].deleted # 0 => entry'[f].id # 0
  BY <1>1 DEF MarkInv, WorldOK
<1>2. ASSUME faults' = 0, NEW f \in Files
      PROVE  /\ Stale(f)' => Clearing(f)'
             /\ entry'[f].id \in retain'.ids => lastSeen'[f] + Retention <= today'
  <2>1. faults = 0
    BY <1>2
  <2>2. /\ Stale(f) => Clearing(f)
        /\ entry[f].id \in retain.ids => lastSeen[f] + Retention <= today
    BY <2>1 DEF MarkInv, Stale, Clearing
  <2>3. Stale(f)' => Stale(f)
    BY <1>2 DEF Stale
  <2>4. Clearing(f) => Clearing(f)'
    BY DEF Clearing
  <2>5. entry'[f].id \in retain'.ids => entry'[f] = entry[f]
    BY DEF MarkInv
  <2>6. lastSeen[f] \in Nat /\ Retention \in Nat /\ today \in Nat
    BY MaintenanceAssumption DEF WorldOK
  <2>. QED BY <2>2, <2>3, <2>4, <2>5, <2>6
<1>3. 0 \notin retain'.ids
  BY DEF MarkInv
<1>. QED BY <1>1, <1>2, <1>3 DEF MarkInv, Stale, Clearing

LEMMA MarkJudge ==
    ASSUME MarkInv, EntryOK, EntryOK', WorldOK, RunOK, faults \in Nat, WalkInv,
           NEW f \in Files, Judge(f)
    PROVE  MarkInv'
<1>1. /\ retain.at = "marking" /\ f \in retain.left /\ UNCHANGED <<walk, lastSeen, today>>
      /\ retain' = [retain EXCEPT !.left = @ \ {f},
                       !.ids = @ \cup (IF Expired(f) THEN {entry[f].id} ELSE {})]
      /\ ~walk.on
  BY DEF Judge, outside, WalkInv
<1>2. /\ retain'.at = "marking" /\ retain'.now = retain.now
      /\ retain'.left = retain.left \ {f}
      /\ retain'.ids = retain.ids \cup (IF Expired(f) THEN {entry[f].id} ELSE {})
  BY <1>1 DEF RunOK
<1>3. retain.now \in Nat /\ retain.now <= today /\ today \in Nat
  BY DEF RunOK, WalkInv, WorldOK
<1>4. \/ entry' = Marked(f) /\ faults' = faults
      \/ entry' = entry /\ faults' = faults + 1
  BY DEF Judge, Fault
<1>5. \A g \in Files : g # f => entry'[g] = entry[g]
  BY <1>4 DEF Marked, EntryOK
<1>6. \/ entry'[f] = entry[f]
      \/ entry'[f].deleted = 0 /\ entry'[f].id = entry[f].id
      \/ /\ entry'[f].deleted = retain.now /\ entry[f].id # 0 /\ entry'[f].id = entry[f].id
         /\ f \notin walk.seen
  BY <1>4 DEF Marked, EntryOK, Row0
<1>7. entry'[f].id = entry[f].id
  BY <1>6
<1>8. \A g \in Files : /\ lastSeen[g] <= today /\ lastSeen[g] <= retain.now
                       /\ entry[g].deleted # 0 => entry[g].id # 0
  BY <1>1 DEF MarkInv
<1>9. ASSUME Expired(f) PROVE entry[f].id # 0
  BY <1>8, <1>9 DEF Expired
<1>10. 0 \notin retain'.ids
  BY <1>2, <1>9 DEF MarkInv
<1>11. ASSUME faults' = 0, NEW g \in Files PROVE Stale(g)' => Clearing(g)'
  <2>1. faults = 0 /\ entry' = Marked(f)
    BY <1>4, <1>11
  <2>2. Stale(g) => Clearing(g)
    BY <2>1 DEF MarkInv, Stale, Clearing
  <2>3. CASE g # f
    BY <1>1, <1>2, <1>5, <2>2, <2>3 DEF Stale, Clearing
  <2>4. CASE g = f
    <3>1. CASE f \in walk.seen
      <4>1. entry'[f].deleted = 0
        BY <2>1, <3>1 DEF Marked, EntryOK
      <4>. QED BY <2>4, <4>1 DEF Stale
    <3>2. CASE f \notin walk.seen
      <4>1. ~Stale(f)
        BY <2>2, <2>4, <3>2 DEF Clearing
      <4>2. ~(retain.now < lastSeen[f])
        BY <1>3, <1>8 DEF WorldOK
      <4>. QED BY <1>1, <1>6, <2>4, <4>1, <4>2 DEF Stale
    <3>. QED BY <3>1, <3>2
  <2>. QED BY <2>3, <2>4
<1>12. ASSUME faults' = 0, NEW g \in Files, entry'[g].id \in retain'.ids
       PROVE  lastSeen'[g] + Retention <= today'
  <2>1. faults = 0
    BY <1>4, <1>12
  <2>2. entry'[g].id = entry[g].id
    BY <1>5, <1>7
  <2>3. CASE entry[g].id \in retain.ids
    BY <1>1, <2>1, <2>3 DEF MarkInv
  <2>4. CASE entry[g].id \notin retain.ids
    <3>1. Expired(f) /\ entry[g].id = entry[f].id
      BY <1>2, <1>12, <2>2, <2>4
    <3>2. g = f
      BY <1>9, <3>1 DEF EntryOK
    <3>3. ~Stale(f) /\ entry[f].deleted # 0 /\ entry[f].deleted + Retention <= retain.now
      BY <2>1, <3>1 DEF Expired, MarkInv, Stale
    <3>4. entry[f].deleted \in Nat /\ lastSeen[f] \in Nat /\ Retention \in Nat
      BY MaintenanceAssumption DEF EntryOK, Row0, WorldOK
    <3>5. lastSeen[f] <= entry[f].deleted
      BY <3>3, <3>4 DEF Stale
    <3>. QED BY <1>1, <1>3, <3>2, <3>3, <3>4, <3>5
  <2>. QED BY <2>3, <2>4
<1>13. ASSUME NEW g \in Files
       PROVE  /\ lastSeen'[g] <= today'
              /\ retain'.at # "off" => lastSeen'[g] <= retain'.now
              /\ entry'[g].deleted # 0 => entry'[g].id # 0
  BY <1>1, <1>2, <1>5, <1>6, <1>8
<1>. QED BY <1>10, <1>11, <1>12, <1>13 DEF MarkInv, Stale, Clearing

\* The end of a pass without a fault: nothing is left to clear.
LEMMA MarkEnd ==
    ASSUME MarkInv, EntryOK, WorldOK, faults \in Nat,
           faults' = faults \/ faults' = faults + 1, UNCHANGED <<today, lastSeen>>,
           retain' = NoRetain, ~walk.on,
           faults' = 0 => retain.at = "deleting" \/ retain.left = {},
           \A f \in Files : entry'[f] = entry[f] \/ entry'[f].deleted = 0
    PROVE  MarkInv'
<1>1. retain'.at = "off" /\ retain'.ids = {}
  BY DEF NoRetain
<1>2. ASSUME faults' = 0, NEW f \in Files PROVE ~Stale(f)'
  <2>1. faults = 0
    BY <1>2
  <2>2. ~Stale(f)
    BY <1>2, <2>1 DEF MarkInv, Stale
  <2>. QED BY <2>2 DEF Stale
<1>. QED BY <1>1, <1>2 DEF MarkInv, Stale

LEMMA MarkStep ==
    ASSUME MaintTypeOK, WalkInv, MarkInv, [MaintNext]_mvars
    PROVE  MarkInv'
<1>0. /\ EntryOK /\ EntryOK' /\ WorldOK /\ RunOK /\ faults \in Nat /\ today' \in Nat
      /\ today <= today'
      /\ faults' = faults \/ faults' = faults + 1
  <2>1. EntryOK /\ WorldOK /\ RunOK /\ faults \in Nat /\ today \in Nat
    BY DEF MaintTypeOK, EntryOK, WorldOK, RunOK, TypeOK
  <2>. QED BY <2>1, EntryStep, TodayStep, FaultsStep
<1>. USE DEF run, outside, table
<1>1. ASSUME lastSeen' = lastSeen, walk'.seen = walk.seen, walk'.on = walk.on,
             retain' = retain, entry' = entry
      PROVE  MarkInv'
  BY <1>0, <1>1, MarkFrame
<1>2. ASSUME World PROVE MarkInv'
  BY <1>1, <1>2 DEF World, NextDay, Vanish, Reappear, EditPresent
<1>3. ASSUME Walk PROVE MarkInv'
  <2>1. ASSUME StartRun PROVE MarkInv'
    <3>1. /\ ~walk.on /\ retain.at = "off" /\ retain = NoRetain
          /\ retain' = retain /\ entry' = entry /\ UNCHANGED <<today, lastSeen, faults>>
      BY <2>1 DEF StartRun, WalkInv, vars
    <3>2. retain.ids = {}
      BY <3>1 DEF NoRetain
    <3>. QED BY <3>1, <3>2 DEF MarkInv
  <2>2. ASSUME Stop PROVE MarkInv'
    BY <1>0, <1>1, <2>2 DEF Stop, RunOK
  <2>3. ASSUME NEW f \in Files, Miss(f) \/ TakeNothing(f) PROVE MarkInv'
    BY <1>0, <1>1, <2>3 DEF Miss, TakeNothing, RunOK
  <2>4. ASSUME EndWalk PROVE MarkInv'
    <3>1. /\ walk.on /\ retain.at = "off" /\ retain = NoRetain
          /\ entry' = entry /\ UNCHANGED <<today, lastSeen, faults>>
      BY <2>4 DEF EndWalk, WalkInv, vars
    <3>2. CASE walk.stopped
      <4>1. retain' = NoRetain /\ faults' # 0
        BY <2>4, <3>1, <3>2 DEF EndWalk, WalkInv
      <4>2. retain'.at = "off" /\ retain'.ids = {}
        BY <4>1 DEF NoRetain
      <4>. QED BY <3>1, <4>1, <4>2 DEF MarkInv
    <3>3. CASE ~walk.stopped
      <4>1. /\ walk' = [walk EXCEPT !.on = FALSE]
            /\ retain' = [NoRetain EXCEPT !.at = "marking", !.now = today, !.left = Tracked]
        BY <2>4, <3>3 DEF EndWalk
      <4>2. walk'.seen = walk.seen
        BY <1>0, <4>1 DEF RunOK
      <4>3. /\ retain'.at = "marking" /\ retain'.now = today
            /\ retain'.left = Tracked /\ retain'.ids = {}
        BY <4>1 DEF NoRetain
      <4>4. ASSUME faults' = 0, NEW f \in Files, Stale(f)' PROVE Clearing(f)'
        <5>1. f \in walk.seen /\ entry[f].id # 0
          BY <3>1, <4>4 DEF Stale, MarkInv
        <5>. QED BY <4>2, <4>3, <5>1 DEF Clearing, Tracked
      <4>. QED BY <3>1, <4>3, <4>4 DEF MarkInv, Stale, Clearing
    <3>. QED BY <3>2, <3>3
  <2>5. ASSUME NEW f \in Files, Visit(f) PROVE MarkInv'
    <3>1. /\ walk.on /\ retain.at = "off" /\ retain = NoRetain
      BY <2>5 DEF Visit, WalkInv
    <3>2. /\ walk'.on /\ walk'.seen = walk.seen \cup {f} /\ retain' = retain
          /\ entry' = entry /\ UNCHANGED <<today, faults>>
          /\ lastSeen' = [lastSeen EXCEPT ![f] = today]
      BY <1>0, <2>5, <3>1 DEF Visit, RunOK, vars
    <3>3. \A g \in Files : lastSeen'[g] = IF g = f THEN today ELSE lastSeen[g]
      BY <1>0, <3>2 DEF WorldOK
    <3>4. retain.ids = {}
      BY <3>1 DEF NoRetain
    <3>5. ASSUME faults' = 0, NEW g \in Files, Stale(g)' PROVE Clearing(g)'
      <4>1. CASE g = f
        BY <3>2, <4>1 DEF Clearing
      <4>2. CASE g # f
        <5>1. Stale(g)
          BY <3>2, <3>3, <3>5, <4>2 DEF Stale
        <5>2. g \in walk.seen
          BY <3>2, <3>5, <5>1 DEF MarkInv, Stale
        <5>. QED BY <3>2, <5>2 DEF Clearing
      <4>. QED BY <4>1, <4>2
    <3>6. \A g \in Files : lastSeen'[g] <= today'
      BY <1>0, <3>2, <3>3 DEF MarkInv, WorldOK
    <3>. QED BY <3>1, <3>2, <3>4, <3>5, <3>6 DEF MarkInv, Stale, Clearing
  <2>. QED BY <1>3, <2>1, <2>2, <2>3, <2>4, <2>5 DEF Walk
<1>4. ASSUME NEW w \in Workers, Backup(w) PROVE MarkInv'
  <2>1. ASSUME NEW f \in Files, Take(w, f) PROVE MarkInv'
    BY <1>0, <1>1, <2>1 DEF Take, RunOK
  <2>2. ASSUME Work(w) \/ Read(w) \/ Vanished(w) PROVE MarkInv'
    BY <1>1, <2>2 DEF Work, Read, Vanished
  <2>3. ASSUME Record(w) PROVE MarkInv'
    <3>. DEFINE f == task[w].file
    <3>1. /\ entry' = [entry EXCEPT ![f] = EntryFor(f)] /\ UNCHANGED <<lastSeen, walk, retain>>
          /\ pc[w] # Idle
      BY <2>3 DEF Record, Upsert, Idle
    <3>. HIDE DEF f
    <3>2. retain.at = "off" /\ retain.ids = {}
      BY <3>1 DEF WalkInv, NoRetain
    <3>3. EntryFor(f).deleted = 0
      BY DEF EntryFor
    <3>4. \A g \in Files : entry'[g] = entry[g] \/ entry'[g].deleted = 0
      BY <1>0, <3>1, <3>3 DEF EntryOK
    <3>. QED BY <1>0, <3>1, <3>2, <3>4, MarkFrame
  <2>. QED BY <1>4, <2>1, <2>2, <2>3 DEF Backup
<1>5. ASSUME UNCHANGED <<run, lastSeen>>,
             \A f \in Files : entry'[f] = entry[f] \/ entry'[f] = NoEntry
      PROVE  MarkInv'
  <2>1. NoEntry.id = 0 /\ NoEntry.deleted = 0
    BY DEF NoEntry
  <2>. QED BY <1>0, <1>5, <2>1, MarkFrame
<1>6. ASSUME Retire PROVE MarkInv'
  <2>1. ASSUME NEW f \in Files, Judge(f) PROVE MarkInv'
    BY <1>0, <2>1, MarkJudge
  <2>2. ASSUME RetainNothing PROVE MarkInv'
    <3>1. /\ retain.at = "marking" /\ retain' = NoRetain /\ ~walk.on
          /\ entry' = entry /\ UNCHANGED <<today, lastSeen>>
      BY <2>2 DEF RetainNothing, EndRun, WalkInv
    <3>2. faults' = 0 => retain.left = {}
      BY <1>0, <2>2 DEF RetainNothing, Fault
    <3>. QED BY <1>0, <3>1, <3>2, MarkEnd
  <2>3. ASSUME RetainStopped \/ RetainRemove PROVE MarkInv'
    <3>1. /\ retain.at = "deleting" /\ retain' = NoRetain /\ ~walk.on
          /\ UNCHANGED <<today, lastSeen>>
      BY <2>3 DEF RetainStopped, RetainRemove, EndRun, WalkInv
    <3>2. \A f \in Files : entry'[f] = entry[f] \/ entry'[f] = NoEntry
      BY <2>3 DEF RetainStopped, RetainRemove
    <3>3. \A f \in Files : entry'[f] = entry[f] \/ entry'[f].deleted = 0
      BY <3>2 DEF NoEntry
    <3>. QED BY <1>0, <3>1, <3>3, MarkEnd
  <2>4. ASSUME RetainList PROVE MarkInv'
    <3>1. /\ retain.at = "marking" /\ retain.left = {} /\ ~walk.on
          /\ entry' = entry /\ UNCHANGED <<today, lastSeen, walk, faults>>
          /\ retain'.at = "deleting" /\ retain'.ids = retain.ids /\ retain'.now = retain.now
      BY <1>0, <2>4 DEF RetainList, WalkInv, RunOK, vars
    <3>. QED BY <3>1 DEF MarkInv
  <2>5. ASSUME NEW b \in Blobs, RetainDelete(b) PROVE MarkInv'
    <3>1. /\ retain'.at = retain.at /\ retain'.now = retain.now /\ retain'.left = retain.left
          /\ retain'.ids = retain.ids /\ walk' = walk /\ lastSeen' = lastSeen /\ entry' = entry
      BY <1>0, <2>5 DEF RetainDelete, RunOK
    <3>. QED BY <1>0, <3>1, MarkFrame
  <2>. QED BY <1>6, <2>1, <2>2, <2>3, <2>4, <2>5 DEF Retire
<1>7. ASSUME Purge PROVE MarkInv'
  <2>1. UNCHANGED <<run, lastSeen>>
    BY <1>7 DEF Purge, PurgeList, PurgeBlob, PurgeDropped, PurgeRemove
  <2>2. \A f \in Files : entry'[f] = entry[f] \/ entry'[f] = NoEntry
    BY <1>7 DEF Purge, PurgeList, PurgeBlob, PurgeDropped, PurgeRemove
  <2>. QED BY <1>5, <2>1, <2>2
<1>8. ASSUME NEW p \in Purgers, PurgeVersion(p) PROVE MarkInv'
  <2>1. UNCHANGED <<run, lastSeen>>
    BY <1>8 DEF PurgeVersion, FindVersion, DeleteVersionBlob, RemoveVersion
  <2>2. \A f \in Files : entry'[f] = entry[f] \/ entry'[f] = NoEntry
    BY <1>8 DEF PurgeVersion, FindVersion, DeleteVersionBlob, RemoveVersion
  <2>. QED BY <1>5, <2>1, <2>2
<1>9. ASSUME Die PROVE MarkInv'
  <2>1. /\ faults' # 0 /\ retain'.at = "off" /\ retain'.ids = {} /\ entry' = entry
        /\ UNCHANGED <<today, lastSeen>>
    BY <1>0, <1>9 DEF Die, EndRun, NoRetain, Fault
  <2>. QED BY <2>1 DEF MarkInv
<1>10. ASSUME UNCHANGED mvars PROVE MarkInv'
  BY <1>1, <1>10 DEF mvars
<1>. QED BY <1>2, <1>3, <1>4, <1>6, <1>7, <1>8, <1>9, <1>10 DEF MaintNext

LEMMA KeptStep ==
    ASSUME MaintTypeOK, WalkInv, MarkInv, [MaintNext]_mvars,
           faults' = 0, retain.at = "deleting", retain'.at = "off",
           NEW r \in versions \ versions'
    PROVE  lastSeen[r.file] + Retention <= today
<1>1. faults = 0 /\ r.file \in Files
  <2>1. faults \in Nat /\ r.file \in Files
    BY DEF MaintTypeOK, TypeOK, Row
  <2>. QED BY <2>1, FaultsStep
<1>2. ASSUME RetainRemove PROVE lastSeen[r.file] + Retention <= today
  <2>1. r \in OfIDs(retain.ids)
    BY <1>2 DEF RetainRemove
  <2>. QED BY <1>1, <2>1 DEF OfIDs, MarkInv
<1>3. ASSUME ~RetainRemove PROVE FALSE
  <2>1. \A w \in Workers : pc[w] = Idle
    BY DEF WalkInv
  <2>2. ASSUME retain' = retain PROVE FALSE
    BY <2>2
  <2>3. ASSUME NEW w \in Workers, Record(w) \/ RefreshMtime(w) PROVE FALSE
    BY <2>1, <2>3 DEF Record, Upsert, RefreshMtime, Idle
  <2>4. ASSUME NEW f \in Files, Judge(f) PROVE FALSE
    BY <2>4 DEF Judge
  <2>5. ASSUME PurgeRemove PROVE FALSE
    BY <2>2, <2>5 DEF PurgeRemove, run
  <2>6. ASSUME NEW p \in Purgers, RemoveVersion(p) PROVE FALSE
    BY <2>2, <2>6 DEF RemoveVersion, run
  <2>. QED BY <1>3, <2>3, <2>4, <2>5, <2>6, RowsStep
<1>. QED BY <1>2, <1>3

\* The retention pass removes the versions of a file only when no run has met
\* the file for the whole retention period, for any number of files, runs and
\* days, and with purges and backups that remove and renew the file's row.
THEOREM KeptWhileUnseenHolds == MaintSpec => KeptWhileUnseen
<1>1. MaintInit => MarkInv
  <2>. SUFFICES ASSUME MaintInit PROVE MarkInv
    OBVIOUS
  <2>1. /\ entry = [f \in Files |-> NoEntry] /\ lastSeen = [f \in Files |-> 0]
        /\ today = 1 /\ retain.at = "off" /\ retain.ids = {}
    BY DEF MaintInit, NoRetain
  <2>2. \A f \in Files : entry[f].id = 0 /\ entry[f].deleted = 0 /\ lastSeen[f] = 0
    BY <2>1 DEF NoEntry
  <2>. QED BY <2>1, <2>2 DEF MarkInv
<1>2. MaintTypeOK /\ WalkInv /\ MarkInv /\ [MaintNext]_mvars => (MaintTypeOK /\ WalkInv /\ MarkInv)'
  BY MaintTypeStep, WalkStep, MarkStep
<1>3. MaintTypeOK /\ WalkInv /\ MarkInv /\ [MaintNext]_mvars =>
         [faults' = 0 /\ retain.at = "deleting" /\ retain'.at = "off" =>
             \A r \in versions \ versions' : lastSeen[r.file] + Retention <= today]_mvars
  BY KeptStep
<1>. QED BY <1>1, <1>2, <1>3, MaintInits, PTL DEF MaintSpec, KeptWhileUnseen

-----------------------------------------------------------------------------
(* Blobs.  What a worker holds is on nobody's list until it is recorded, so *)
(* removals and backups never meet in a blob but by way of a row.           *)

LEMMA ListedBlobs ==
    ASSUME PurgesOK, RunOK, BlobInv, NEW b, Listed(b)
    PROVE  b \in Blobs /\ Arrived(b)
<1>1. b \in Blobs
  BY DEF Listed, PurgesOK, RunOK, BlobInv
<1>. QED BY <1>1 DEF BlobInv

LEMMA BusySame ==
    ASSUME BlobInv, NEW v \in Workers, UNCHANGED <<purges, retain>>,
           pc'[v] = pc[v], held'[v] = held[v],
           pc[v] \in Holding => stored'[held[v]] = stored[held[v]]
    PROVE  Busy(v)'
<1>1. Busy(v)
  BY DEF BlobInv
<1>. QED BY <1>1 DEF Busy, Holding, Listed, Arrived, purges

LEMMA NotBusy ==
    ASSUME NEW v \in Workers, pc'[v] \notin Holding
    PROVE  Busy(v)'
BY DEF Busy, Holding

\* Steps of the removals and of the world: they delete what is listed, and list
\* what is recorded.
LEMMA BlobFrame ==
    ASSUME TypeOK, BlobInv, PurgesOK, RunOK, versions' \subseteq versions,
           UNCHANGED <<pc, held>>,
           \A b \in Blobs : stored'[b] = stored[b] \/ (Listed(b) /\ stored'[b] = "deleted"),
           \A b \in Blobs : Listed(b)' => Listed(b) \/ \E r \in versions : r.blob = b,
           prefix'.blobs \subseteq prefix'.listed,
           \A p \in Purgers : single'[p].at # "off" => single'[p].blob \in Blobs
    PROVE  BlobInv'
<1>1. \A r \in versions : r.blob \in Blobs
  BY DEF TypeOK, Row
<1>2. \A b \in Blobs : Arrived(b) => Arrived(b)'
  BY DEF Arrived
<1>3. OneBlobPerVersion' /\ HeldIsPrivate'
  BY DEF BlobInv, OneBlobPerVersion, HeldIsPrivate
<1>4. \A r \in versions' : Arrived(r.blob)'
  BY <1>1, <1>2 DEF BlobInv
<1>5. \A b \in Blobs : Listed(b)' => Arrived(b)'
  BY <1>2 DEF BlobInv
<1>6. ASSUME NEW w \in Workers
      PROVE  Busy(w)'
  <2>1. pc[w] \in Holding => held[w] \in Blobs
    BY DEF TypeOK
  <2>2. CASE pc[w] = "uploading"
    <3>1. stored[held[w]] = "partial" /\ ~Listed(held[w]) /\ held[w] \in Blobs
      BY <2>1, <2>2 DEF BlobInv, Busy, Arrived, Holding
    <3>2. stored'[held'[w]] = "partial" /\ pc'[w] = "uploading"
      BY <2>2, <3>1
    <3>. QED BY <3>2 DEF Busy
  <2>3. CASE pc[w] = "uploaded"
    <3>1. stored[held[w]] = "complete" /\ ~Listed(held[w]) /\ held[w] \in Blobs
      BY <2>1, <2>3 DEF BlobInv, Busy, Holding
    <3>2. ~\E r \in versions : r.blob = held[w]
      BY <2>3 DEF BlobInv, HeldIsPrivate, Holding
    <3>3. pc'[w] = "uploaded" /\ held'[w] = held[w] /\ stored'[held[w]] = "complete"
      BY <2>3, <3>1
    <3>4. PICK b \in Blobs : b = held[w]
      BY <3>1
    <3>5. ~Listed(b)'
      BY <3>1, <3>2, <3>4
    <3>. QED BY <3>3, <3>4, <3>5 DEF Busy, Listed
  <2>4. CASE pc[w] = "evicting"
    <3>1. Arrived(held[w]) /\ held[w] \in Blobs
      BY <2>1, <2>4 DEF BlobInv, Busy, Holding
    <3>2. stored'[held[w]] \in {"complete", "deleted"}
      BY <3>1 DEF Arrived
    <3>. QED BY <2>4, <3>2 DEF Arrived, Busy
  <2>5. CASE pc[w] \notin Holding
    BY <2>5, NotBusy
  <2>. QED BY <2>2, <2>3, <2>4, <2>5 DEF Holding
<1>. QED BY <1>3, <1>4, <1>5, <1>6 DEF BlobInv

\* A worker lets go of what it holds, having changed at most that blob.
LEMMA BlobRelease ==
    ASSUME TypeOK, BlobInv, PurgesOK, RunOK, NEW w \in Workers, UNCHANGED purges,
           UNCHANGED retain, pc'[w] = Idle,
           \A v \in Workers : v # w => pc'[v] = pc[v] /\ held'[v] = held[v],
           versions' = versions,
           \A b \in Blobs : stored'[b] # stored[b] =>
              /\ b = held[w]
              /\ pc[w] = "uploading" \/ (pc[w] = "evicting" /\ stored'[b] = "deleted")
    PROVE  BlobInv'
<1>0. \A b : Listed(b)' <=> Listed(b)
  BY DEF Listed, purges
<1>1. \A r \in versions : r.blob \in Blobs
  BY DEF TypeOK, Row
<1>2. \A v \in Workers : v # w /\ pc[v] \in Holding /\ pc[w] \in Holding => held[v] # held[w]
  BY DEF BlobInv, HeldIsPrivate
<1>3. \A v \in Workers : pc[v] \in Holding => held[v] \in Blobs
  BY DEF TypeOK
<1>4. OneBlobPerVersion'
  BY DEF BlobInv, OneBlobPerVersion
<1>5. HeldIsPrivate'
  BY DEF BlobInv, HeldIsPrivate, Idle, Holding
<1>6. ASSUME NEW b \in Blobs, Arrived(b), pc[w] = "uploading" => b # held[w]
      PROVE  Arrived(b)'
  BY <1>6 DEF Arrived
<1>7. pc[w] = "uploading" => stored[held[w]] = "partial" /\ ~Arrived(held[w])
  BY DEF BlobInv, Busy, Arrived
<1>8. \A r \in versions' : Arrived(r.blob)'
  BY <1>1, <1>6, <1>7 DEF BlobInv
<1>9. \A b \in Blobs : Listed(b)' => Arrived(b)'
  BY <1>0, <1>6, <1>7 DEF BlobInv
<1>10. ASSUME NEW v \in Workers
       PROVE  Busy(v)'
  <2>1. CASE v = w
    BY <2>1, NotBusy DEF Idle, Holding
  <2>2. CASE v # w
    <3>1. pc'[v] = pc[v] /\ held'[v] = held[v]
      BY <2>2
    <3>2. pc[v] \in Holding => held[v] \in Blobs /\ stored'[held[v]] = stored[held[v]]
      BY <1>2, <1>3, <2>2 DEF Holding
    <3>. QED BY <3>1, <3>2, BusySame DEF purges
  <2>. QED BY <2>1, <2>2
<1>11. /\ prefix'.blobs \subseteq prefix'.listed
       /\ \A p \in Purgers : single'[p].at # "off" => single'[p].blob \in Blobs
  BY DEF BlobInv, purges
<1>. QED BY <1>4, <1>5, <1>8, <1>9, <1>10, <1>11 DEF BlobInv

\* A worker that holds nothing goes on holding nothing.
LEMMA BlobMove ==
    ASSUME TypeOK, BlobInv, NEW w \in Workers, UNCHANGED <<purges, retain, stored, versions>>,
           pc'[w] \notin Holding,
           \A v \in Workers : v # w => pc'[v] = pc[v] /\ held'[v] = held[v]
    PROVE  BlobInv'
<1>1. \A b : (Listed(b)' <=> Listed(b)) /\ (Arrived(b)' <=> Arrived(b))
  BY DEF Listed, purges, Arrived
<1>2. OneBlobPerVersion' /\ HeldIsPrivate'
  BY DEF BlobInv, OneBlobPerVersion, HeldIsPrivate
<1>3. ASSUME NEW v \in Workers, pc'[v] \in Holding
      PROVE  /\ pc[v] = pc'[v] /\ held'[v] = held[v]
  BY <1>3
<1>4. ASSUME NEW v \in Workers
      PROVE  Busy(v)'
  <2>1. CASE pc'[v] \notin Holding
    BY <2>1, NotBusy
  <2>2. CASE pc'[v] \in Holding
    BY <1>3, <2>2, BusySame
  <2>. QED BY <2>1, <2>2
<1>5. \A r \in versions' : Arrived(r.blob)'
  BY DEF BlobInv, Arrived
<1>6. \A b \in Blobs : Listed(b)' => Arrived(b)'
  BY <1>1 DEF BlobInv
<1>7. /\ prefix'.blobs \subseteq prefix'.listed
      /\ \A p \in Purgers : single'[p].at # "off" => single'[p].blob \in Blobs
  BY DEF BlobInv, purges
<1>. QED BY <1>2, <1>4, <1>5, <1>6, <1>7 DEF BlobInv

LEMMA BlobUpload ==
    ASSUME TypeOK, BlobInv, PurgesOK, RunOK, NEW w \in Workers,
           StartUpload(w) \/ UploadDone(w), UNCHANGED <<purges, retain>>
    PROVE  BlobInv'
<1>1. \A b : Listed(b)' <=> Listed(b)
  BY DEF Listed, purges
<1>2. \A r \in versions : r.blob \in Blobs
  BY DEF TypeOK, Row
<1>3. \A v \in Workers : pc[v] \in Holding => held[v] \in Blobs
  BY DEF TypeOK
<1>4. PICK b \in Blobs :
         /\ ~Arrived(b) /\ ~Listed(b) /\ held'[w] = b
         /\ \A r \in versions : r.blob # b
         /\ \A v \in Workers : v # w => pc'[v] = pc[v] /\ held'[v] = held[v]
         /\ \A v \in Workers : v # w /\ pc[v] \in Holding => held[v] # b
         /\ \A c \in Blobs : c # b => stored'[c] = stored[c]
         /\ \/ pc'[w] = "uploading" /\ stored'[b] = "partial"
            \/ pc'[w] = "uploaded" /\ stored'[b] = "complete"
         /\ versions' = versions
  <2>1. CASE StartUpload(w)
    <3>1. PICK b \in FreshBlobs :
             /\ stored' = [stored EXCEPT ![b] = "partial"]
             /\ held' = [held EXCEPT ![w] = b]
      BY <2>1 DEF StartUpload
    <3>2. b \in Blobs /\ stored[b] = "none" /\ ~Arrived(b)
      BY DEF FreshBlobs, Arrived
    <3>3. ~Listed(b) /\ \A r \in versions : r.blob # b
      BY <3>2 DEF BlobInv
    <3>4. \A v \in Workers : v # w /\ pc[v] \in Holding => held[v] # b
      BY <3>2 DEF BlobInv, Busy, Holding, Arrived
    <3>5. pc' = [pc EXCEPT ![w] = "uploading"] /\ versions' = versions
      BY <2>1 DEF StartUpload
    <3>6. held'[w] = b /\ pc'[w] = "uploading"
      BY <3>1, <3>5 DEF TypeOK
    <3>7. \A v \in Workers : v # w => pc'[v] = pc[v] /\ held'[v] = held[v]
      BY <3>1, <3>5 DEF TypeOK
    <3>8. stored'[b] = "partial" /\ \A c \in Blobs : c # b => stored'[c] = stored[c]
      BY <3>1, <3>2 DEF TypeOK
    <3>. QED BY <3>2, <3>3, <3>4, <3>5, <3>6, <3>7, <3>8
  <2>2. CASE UploadDone(w)
    <3>1. /\ pc[w] = "uploading" /\ held' = held /\ versions' = versions
          /\ stored' = [stored EXCEPT ![held[w]] = "complete"]
          /\ pc' = [pc EXCEPT ![w] = "uploaded"]
      BY <2>2 DEF UploadDone
    <3>2. held[w] \in Blobs /\ stored[held[w]] = "partial" /\ ~Arrived(held[w])
      BY <1>3, <3>1 DEF BlobInv, Busy, Holding, Arrived
    <3>3. ~Listed(held[w]) /\ \A r \in versions : r.blob # held[w]
      BY <3>2 DEF BlobInv
    <3>4. \A v \in Workers : v # w /\ pc[v] \in Holding => held[v] # held[w]
      BY <3>1 DEF BlobInv, HeldIsPrivate, Holding
    <3>5. pc'[w] = "uploaded" /\ \A v \in Workers : v # w => pc'[v] = pc[v]
      BY <3>1 DEF TypeOK
    <3>6. /\ stored'[held[w]] = "complete"
          /\ \A c \in Blobs : c # held[w] => stored'[c] = stored[c]
      BY <3>1, <3>2 DEF TypeOK
    <3>. QED BY <3>1, <3>2, <3>3, <3>4, <3>5, <3>6
  <2>. QED BY <2>1, <2>2
<1>5. \A c \in Blobs : Arrived(c) => Arrived(c)'
  BY <1>4 DEF Arrived
<1>6. OneBlobPerVersion'
  BY <1>4 DEF BlobInv, OneBlobPerVersion
<1>7. HeldIsPrivate'
  BY <1>4 DEF BlobInv, HeldIsPrivate
<1>8. \A r \in versions' : Arrived(r.blob)'
  BY <1>2, <1>4, <1>5 DEF BlobInv
<1>9. \A c \in Blobs : Listed(c)' => Arrived(c)'
  BY <1>1, <1>5 DEF BlobInv
<1>10. ASSUME NEW v \in Workers
       PROVE  Busy(v)'
  <2>1. CASE v = w
    <3>1. ~Listed(b)'
      BY <1>1, <1>4
    <3>. QED BY <1>4, <2>1, <3>1 DEF Busy, Listed
  <2>2. CASE v # w
    <3>1. pc'[v] = pc[v] /\ held'[v] = held[v]
      BY <1>4, <2>2
    <3>2. pc[v] \in Holding => stored'[held[v]] = stored[held[v]]
      BY <1>3, <1>4, <2>2
    <3>. QED BY <3>1, <3>2, BusySame
  <2>. QED BY <2>1, <2>2
<1>11. /\ prefix'.blobs \subseteq prefix'.listed
       /\ \A p \in Purgers : single'[p].at # "off" => single'[p].blob \in Blobs
  BY DEF BlobInv, purges
<1>. QED BY <1>6, <1>7, <1>8, <1>9, <1>10, <1>11 DEF BlobInv

LEMMA BlobRefresh ==
    ASSUME TypeOK, BlobInv, PurgesOK, RunOK, NEW w \in Workers, RefreshMtime(w),
           UNCHANGED <<purges, retain>>
    PROVE  BlobInv'
<1>1. /\ pc'[w] = Idle /\ stored' = stored
      /\ \A v \in Workers : v # w => pc'[v] = pc[v] /\ held'[v] = held[v]
  BY DEF RefreshMtime, Finish, TypeOK, remote
<1>2. CASE versions' = versions
  BY <1>1, <1>2, BlobRelease
<1>3. ASSUME NEW x \in versions, NEW new, Same(new, x),
             versions' = (versions \ {x}) \cup {new}
      PROVE  BlobInv'
  <2>1. new.blob = x.blob
    BY <1>3 DEF Same
  <2>2. OneBlobPerVersion'
    BY <1>3, <2>1 DEF BlobInv, OneBlobPerVersion
  <2>3. \A r \in versions' : \E s \in versions : r.blob = s.blob
    BY <1>3, <2>1
  <2>4. HeldIsPrivate'
    BY <1>1, <2>3 DEF BlobInv, HeldIsPrivate, Idle, Holding
  <2>5. \A r \in versions' : Arrived(r.blob)'
    BY <1>1, <2>3 DEF BlobInv, Arrived
  <2>6. \A b \in Blobs : Listed(b)' => Arrived(b)'
    BY <1>1 DEF BlobInv, Listed, Arrived, purges
  <2>7. ASSUME NEW v \in Workers
        PROVE  Busy(v)'
    <3>1. CASE v = w
      BY <1>1, <3>1, NotBusy DEF Idle, Holding
    <3>2. CASE v # w
      BY <1>1, <3>2, BusySame
    <3>. QED BY <3>1, <3>2
  <2>8. /\ prefix'.blobs \subseteq prefix'.listed
        /\ \A p \in Purgers : single'[p].at # "off" => single'[p].blob \in Blobs
    BY DEF BlobInv, purges
  <2>. QED BY <2>2, <2>4, <2>5, <2>6, <2>7, <2>8 DEF BlobInv
<1>. QED BY <1>2, <1>3, RefreshShape

LEMMA BlobRecord ==
    ASSUME TypeOK, BlobInv, PurgesOK, RunOK, NEW w \in Workers, Record(w)
    PROVE  BlobInv'
<1>1. pc[w] = "uploaded" /\ UNCHANGED <<stored, purges, retain>>
  BY DEF Record, Upsert, remote, run
<1>2. PICK row, ev : RecordEffect(w, row, ev)
  BY RecordShape
<1>3. versions' = (versions \ ev) \cup {row} /\ row.blob = held[w]
  BY <1>2 DEF RecordEffect
<1>4. \A v \in Workers : v # w => pc'[v] = pc[v] /\ held'[v] = held[v]
  BY <1>2 DEF RecordEffect, Finish, TypeOK
<1>5. \/ pc'[w] = Idle
      \/ /\ pc'[w] = "evicting" /\ held'[w] \in Blobs
         /\ \E old \in versions : ev = {old} /\ held'[w] = old.blob
  <2>1. CASE Finish(w)
    BY <2>1 DEF Finish, TypeOK
  <2>2. ASSUME NEW old \in versions, ev = {old}, held' = [held EXCEPT ![w] = old.blob],
               pc' = [pc EXCEPT ![w] = "evicting"]
        PROVE  pc'[w] = "evicting" /\ held'[w] = old.blob /\ old.blob \in Blobs
    BY <2>2 DEF TypeOK, Row
  <2>. QED BY <1>2, <2>1, <2>2 DEF RecordEffect
<1>6. /\ held[w] \in Blobs /\ stored[held[w]] = "complete" /\ ~Listed(held[w])
      /\ \A r \in versions : r.blob # held[w]
      /\ \A v \in Workers : v # w /\ pc[v] \in Holding => held[v] # held[w]
  BY <1>1 DEF BlobInv, Busy, HeldIsPrivate, Holding, TypeOK
<1>7. \A r \in versions' : (r \in versions /\ r \notin ev) \/ r = row
  BY <1>3
<1>8. OneBlobPerVersion'
  BY <1>3, <1>6, <1>7 DEF BlobInv, OneBlobPerVersion
<1>9. ASSUME NEW v \in Workers, pc'[v] \in Holding
      PROVE  /\ \A r \in versions' : r.blob # held'[v]
             /\ \A u \in Workers : pc'[u] \in Holding /\ held'[u] = held'[v] => u = v
  <2>1. CASE v = w
    <3>1. PICK old \in versions : ev = {old} /\ held'[w] = old.blob
      BY <1>5, <1>9, <2>1 DEF Idle, Holding
    <3>2. \A r \in versions' : r.blob # held'[v]
      BY <1>3, <1>6, <1>7, <2>1, <3>1 DEF BlobInv, OneBlobPerVersion
    <3>3. \A u \in Workers : u # w /\ pc'[u] \in Holding => held'[u] # old.blob
      BY <1>4 DEF BlobInv, HeldIsPrivate
    <3>. QED BY <2>1, <3>1, <3>2, <3>3
  <2>2. CASE v # w
    <3>1. pc[v] \in Holding /\ held'[v] = held[v]
      BY <1>4, <1>9, <2>2
    <3>2. \A r \in versions' : r.blob # held'[v]
      BY <1>3, <1>6, <1>7, <2>2, <3>1 DEF BlobInv, HeldIsPrivate
    <3>3. \A u \in Workers : u # w /\ pc'[u] \in Holding /\ held'[u] = held'[v] => u = v
      BY <1>4, <3>1 DEF BlobInv, HeldIsPrivate
    <3>4. pc'[w] \in Holding => held'[w] # held'[v]
      BY <1>5, <3>1 DEF BlobInv, HeldIsPrivate, Idle, Holding
    <3>. QED BY <3>2, <3>3, <3>4
  <2>. QED BY <2>1, <2>2
<1>10. HeldIsPrivate'
  BY <1>9 DEF HeldIsPrivate
<1>11. \A r \in versions' : Arrived(r.blob)'
  BY <1>1, <1>3, <1>6, <1>7 DEF BlobInv, Arrived
<1>12. \A b \in Blobs : Listed(b)' => Arrived(b)'
  BY <1>1 DEF BlobInv, Listed, Arrived, purges
<1>13. ASSUME NEW v \in Workers
       PROVE  Busy(v)'
  <2>1. CASE v = w
    <3>1. CASE pc'[w] = Idle
      BY <2>1, <3>1, NotBusy DEF Idle, Holding
    <3>2. CASE pc'[w] = "evicting"
      <4>1. stored'[held'[w]] \in {"complete", "deleted"}
        BY <1>1, <1>5, <3>2 DEF BlobInv, Arrived, Idle
      <4>. QED BY <2>1, <3>2, <4>1 DEF Busy, Arrived
    <3>. QED BY <1>5, <3>1, <3>2
  <2>2. CASE v # w
    BY <1>1, <1>4, <2>2, BusySame
  <2>. QED BY <2>1, <2>2
<1>14. /\ prefix'.blobs \subseteq prefix'.listed
       /\ \A p \in Purgers : single'[p].at # "off" => single'[p].blob \in Blobs
  BY <1>1 DEF BlobInv, purges
<1>. QED BY <1>8, <1>10, <1>11, <1>12, <1>13, <1>14 DEF BlobInv

LEMMA BlobStep ==
    ASSUME MaintTypeOK, WalkInv, BlobInv, [MaintNext]_mvars
    PROVE  BlobInv'
<1>0. TypeOK /\ PurgesOK /\ RunOK
  BY DEF MaintTypeOK, PurgesOK, RunOK
<1>1. \A p \in Purgers : single[p].at # "off" => single[p].blob \in Blobs
  BY DEF BlobInv
<1>2. prefix.blobs \subseteq prefix.listed
  BY DEF BlobInv
<1>. USE DEF run
\* Nothing is deleted and no list grows.
<1>3. ASSUME UNCHANGED <<versions, stored, pc, held, purges>>,
             retain'.blobs \cup retain'.failed \subseteq retain.blobs \cup retain.failed
      PROVE  BlobInv'
  <2>1. \A b \in Blobs : Listed(b)' => Listed(b)
    BY <1>3 DEF Listed, purges
  <2>. QED BY <1>0, <1>1, <1>2, <1>3, <2>1, BlobFrame DEF purges
<1>4. ASSUME World PROVE BlobInv'
  BY <1>3, <1>4 DEF World, NextDay, Vanish, Reappear, EditPresent, Edit, vars, locals, remote
<1>5. ASSUME Walk PROVE BlobInv'
  <2>1. UNCHANGED <<versions, stored, pc, held, purges>>
    BY <1>5 DEF Walk, StartRun, Stop, EndWalk, Visit, Miss, TakeNothing, vars, locals, remote
  <2>2. ASSUME EndWalk
        PROVE  retain'.blobs \cup retain'.failed \subseteq retain.blobs \cup retain.failed
    BY <2>2 DEF EndWalk, NoRetain
  <2>3. ~EndWalk => retain' = retain
    BY <1>5 DEF Walk, StartRun, Stop, Visit, Miss, TakeNothing
  <2>. QED BY <1>3, <2>1, <2>2, <2>3
<1>6. ASSUME NEW w \in Workers, Backup(w) PROVE BlobInv'
  <2>1. ASSUME NEW f \in Files, Take(w, f) PROVE BlobInv'
    <3>1. /\ UNCHANGED <<purges, retain, stored, versions>>
          /\ pc' = [pc EXCEPT ![w] = "looking"] /\ held' = held
      BY <2>1 DEF Take, TakeFile, remote
    <3>. QED BY <1>0, <3>1, BlobMove DEF TypeOK, Holding
  <2>2. ASSUME (Work(w) /\ Lookup(w)) \/ (Read(w) /\ HashFile(w)) PROVE BlobInv'
    <3>1. /\ UNCHANGED <<purges, retain, stored, versions>> /\ held' = held
          /\ \E step \in {"hashing", "same", "changed"} : pc' = [pc EXCEPT ![w] = step]
      BY <2>2 DEF Work, Lookup, Read, HashFile, remote
    <3>. QED BY <1>0, <3>1, BlobMove DEF TypeOK, Holding
  <2>3. ASSUME Finish(w), UNCHANGED <<purges, retain, versions>>,
               \A b \in Blobs : stored'[b] # stored[b] =>
                  /\ b = held[w]
                  /\ pc[w] = "uploading" \/ (pc[w] = "evicting" /\ stored'[b] = "deleted")
        PROVE  BlobInv'
    <3>1. /\ pc'[w] = Idle
          /\ \A v \in Workers : v # w => pc'[v] = pc[v] /\ held'[v] = held[v]
      BY <1>0, <2>3 DEF Finish, TypeOK
    <3>. QED BY <1>0, <2>3, <3>1, BlobRelease
  <2>4. ASSUME (Work(w) /\ (FastSkip(w) \/ UpsertFails(w) \/ ReadFails(w))) \/ Vanished(w)
        PROVE  BlobInv'
    BY <2>3, <2>4 DEF Work, FastSkip, UpsertFails, ReadFails, Vanished, remote
  <2>5. ASSUME Work(w), DeleteEvicted(w) PROVE BlobInv'
    <3>1. /\ Finish(w) /\ UNCHANGED <<purges, retain, versions>> /\ pc[w] = "evicting"
          /\ stored' = stored \/ stored' = [stored EXCEPT ![held[w]] = "deleted"]
      BY <2>5 DEF Work, DeleteEvicted
    <3>. QED BY <1>0, <2>3, <3>1 DEF TypeOK
  <2>6. ASSUME Work(w), UploadFails(w) PROVE BlobInv'
    <3>1. /\ Finish(w) /\ UNCHANGED <<purges, retain, versions>> /\ pc[w] = "uploading"
          /\ \E s \in {"none", "partial"} : stored' = [stored EXCEPT ![held[w]] = s]
      BY <2>6 DEF Work, UploadFails
    <3>. QED BY <1>0, <2>3, <3>1 DEF TypeOK
  <2>7. ASSUME (Work(w) /\ UploadDone(w)) \/ (Read(w) /\ StartUpload(w)) PROVE BlobInv'
    BY <1>0, <2>7, BlobUpload DEF Work, Read
  <2>8. ASSUME Work(w), RefreshMtime(w) PROVE BlobInv'
    BY <1>0, <2>8, BlobRefresh DEF Work
  <2>9. ASSUME Record(w) PROVE BlobInv'
    BY <1>0, <2>9, BlobRecord
  <2>10. CASE Work(w)
    BY <2>2, <2>4, <2>5, <2>6, <2>7, <2>8, <2>10 DEF Work, Fails
  <2>11. CASE Read(w)
    BY <2>2, <2>7, <2>11 DEF Read
  <2>. QED BY <1>6, <2>1, <2>4, <2>9, <2>10, <2>11 DEF Backup
<1>7. ASSUME UNCHANGED <<pc, held, purges>>, versions' \subseteq versions,
             \A b \in Blobs : stored'[b] = stored[b] \/ (Listed(b) /\ stored'[b] = "deleted"),
             \A b \in retain'.blobs \cup retain'.failed :
                b \in retain.blobs \cup retain.failed \/ \E r \in versions : r.blob = b
      PROVE  BlobInv'
  <2>1. \A b \in Blobs : Listed(b)' => Listed(b) \/ \E r \in versions : r.blob = b
    BY <1>7 DEF Listed, purges
  <2>. QED BY <1>0, <1>1, <1>2, <1>7, <2>1, BlobFrame DEF purges
<1>8. ASSUME NEW b \in Blobs, Listed(b), Deleted(b) \/ NotDeleted
      PROVE  \A c \in Blobs : stored'[c] = stored[c] \/ (Listed(c) /\ stored'[c] = "deleted")
  BY <1>0, <1>8 DEF Deleted, NotDeleted, TypeOK
<1>9. ASSUME Retire PROVE BlobInv'
  <2>1. UNCHANGED <<pc, held, purges>>
    BY <1>9 DEF Retire, RetainNothing, RetainList, RetainStopped, RetainRemove, Judge,
                RetainDelete, vars, locals
  <2>2. versions' \subseteq versions
    BY <1>9 DEF Retire, RetainNothing, RetainList, RetainStopped, RetainRemove, Judge,
                RetainDelete, vars
  <2>3. ASSUME NEW b \in Blobs, RetainDelete(b) PROVE BlobInv'
    <3>1. Deleted(b) \/ NotDeleted
      BY <2>3 DEF RetainDelete
    <3>2. /\ retain'.blobs = retain.blobs \ {b}
          /\ retain'.failed = retain.failed \/ retain'.failed = retain.failed \cup {b}
      BY <1>0, <2>3 DEF RetainDelete, RunOK
    <3>3. b \in retain.blobs /\ Listed(b)
      BY <2>3 DEF RetainDelete, Listed
    <3>. QED BY <1>7, <1>8, <2>1, <2>2, <3>1, <3>2, <3>3
  <2>4. ASSUME ~\E b \in Blobs : RetainDelete(b) PROVE stored' = stored
    BY <1>9, <2>4 DEF Retire, RetainNothing, RetainList, RetainStopped, RetainRemove, Judge,
                      vars, remote
  <2>5. ASSUME RetainList PROVE BlobInv'
    <3>1. retain'.blobs = {r.blob : r \in OfIDs(retain.ids)} /\ retain'.failed = retain.failed
      BY <1>0, <2>5 DEF RetainList, RunOK
    <3>2. stored' = stored
      BY <2>5 DEF RetainList, vars
    <3>. QED BY <1>7, <2>1, <2>2, <3>1, <3>2 DEF OfIDs
  <2>6. ASSUME RetainNothing \/ RetainStopped \/ RetainRemove PROVE BlobInv'
    <3>1. retain'.blobs = {} /\ retain'.failed = {} /\ stored' = stored
      BY <2>6 DEF RetainNothing, RetainStopped, RetainRemove, EndRun, NoRetain, vars, remote
    <3>. QED BY <1>7, <2>1, <2>2, <3>1
  <2>7. ASSUME NEW f \in Files, Judge(f) PROVE BlobInv'
    <3>1. retain'.blobs = retain.blobs /\ retain'.failed = retain.failed /\ stored' = stored
      BY <1>0, <2>7 DEF Judge, RunOK, remote
    <3>. QED BY <1>7, <2>1, <2>2, <3>1
  <2>. QED BY <1>9, <2>3, <2>5, <2>6, <2>7 DEF Retire
<1>10. ASSUME UNCHANGED <<pc, held, retain, single>>, versions' \subseteq versions,
              \A b \in Blobs : stored'[b] = stored[b] \/ (Listed(b) /\ stored'[b] = "deleted"),
              \A b \in prefix'.listed : b \in prefix.listed \/ \E r \in versions : r.blob = b,
              prefix'.blobs \subseteq prefix'.listed
       PROVE  BlobInv'
  <2>1. \A b \in Blobs : Listed(b)' => Listed(b) \/ \E r \in versions : r.blob = b
    BY <1>10 DEF Listed
  <2>. QED BY <1>0, <1>1, <1>10, <2>1, BlobFrame
<1>11. ASSUME Purge PROVE BlobInv'
  <2>1. UNCHANGED <<pc, held, retain, single>>
    BY <1>11 DEF Purge, PurgeList, PurgeBlob, PurgeDropped, PurgeRemove, vars, locals
  <2>2. versions' \subseteq versions
    BY <1>11 DEF Purge, PurgeList, PurgeBlob, PurgeDropped, PurgeRemove, vars
  <2>3. ASSUME NEW b \in Blobs, PurgeBlob(b) PROVE BlobInv'
    <3>1. Deleted(b) \/ NotDeleted
      BY <2>3 DEF PurgeBlob
    <3>2. prefix'.blobs = prefix.blobs \ {b} /\ prefix'.listed = prefix.listed
      BY <1>0, <2>3 DEF PurgeBlob, PurgesOK
    <3>3. Listed(b)
      BY <1>2, <2>3 DEF PurgeBlob, Listed
    <3>. QED BY <1>2, <1>8, <1>10, <2>1, <2>2, <3>1, <3>2, <3>3
  <2>4. ASSUME NEW s \in Scopes, PurgeList(s) PROVE BlobInv'
    <3>1. /\ prefix'.listed = {r.blob : r \in InScope(s)} /\ prefix'.blobs = prefix'.listed
          /\ stored' = stored
      BY <2>4 DEF PurgeList, vars
    <3>. QED BY <1>10, <2>1, <2>2, <3>1 DEF InScope
  <2>5. ASSUME PurgeDropped \/ PurgeRemove PROVE BlobInv'
    <3>1. prefix'.listed = {} /\ prefix'.blobs = {} /\ stored' = stored
      BY <2>5 DEF PurgeDropped, PurgeRemove, NoPrefix, remote
    <3>. QED BY <1>10, <2>1, <2>2, <3>1
  <2>. QED BY <1>11, <2>3, <2>4, <2>5 DEF Purge
<1>12. ASSUME UNCHANGED <<pc, held, retain, prefix>>, versions' \subseteq versions,
              \A b \in Blobs : stored'[b] = stored[b] \/ (Listed(b) /\ stored'[b] = "deleted"),
              \A p \in Purgers : single'[p].at # "off" =>
                 \/ single[p].at # "off" /\ single'[p].blob = single[p].blob
                 \/ \E r \in versions : r.blob = single'[p].blob
       PROVE  BlobInv'
  <2>1. \A b \in Blobs : Listed(b)' => Listed(b) \/ \E r \in versions : r.blob = b
    BY <1>12 DEF Listed
  <2>2. \A p \in Purgers : single'[p].at # "off" => single'[p].blob \in Blobs
    BY <1>0, <1>1, <1>12 DEF TypeOK, Row
  <2>. QED BY <1>0, <1>2, <1>12, <2>1, <2>2, BlobFrame
<1>13. ASSUME NEW p \in Purgers, PurgeVersion(p) PROVE BlobInv'
  <2>1. UNCHANGED <<pc, held, retain, prefix>>
    BY <1>13 DEF PurgeVersion, FindVersion, DeleteVersionBlob, RemoveVersion, vars, locals
  <2>2. versions' \subseteq versions
    BY <1>13 DEF PurgeVersion, FindVersion, DeleteVersionBlob, RemoveVersion, vars
  <2>3. ASSUME NEW r \in versions, FindVersion(p, r) PROVE BlobInv'
    <3>1. /\ stored' = stored
          /\ \A q \in Purgers : q # p => single'[q] = single[q]
          /\ single'[p].blob = r.blob
      BY <1>0, <2>3 DEF FindVersion, vars, PurgesOK
    <3>. QED BY <1>12, <2>1, <2>2, <3>1
  <2>4. ASSUME DeleteVersionBlob(p) PROVE BlobInv'
    <3>1. Deleted(single[p].blob) \/ NotDeleted
      BY <2>4 DEF DeleteVersionBlob
    <3>2. single[p].at # "off" /\ single[p].blob \in Blobs
      BY <1>1, <2>4 DEF DeleteVersionBlob
    <3>3. Listed(single[p].blob)
      BY <3>2 DEF Listed
    <3>4. /\ \A q \in Purgers : q # p => single'[q] = single[q]
          /\ single'[p].at = "off" \/ single'[p].blob = single[p].blob
      BY <1>0, <2>4 DEF DeleteVersionBlob, PurgesOK, NoSingle
    <3>. QED BY <1>8, <1>12, <2>1, <2>2, <3>1, <3>2, <3>3, <3>4
  <2>5. ASSUME RemoveVersion(p) PROVE BlobInv'
    <3>1. /\ stored' = stored /\ single'[p].at = "off"
          /\ \A q \in Purgers : q # p => single'[q] = single[q]
      BY <1>0, <2>5 DEF RemoveVersion, PurgesOK, NoSingle, remote
    <3>. QED BY <1>12, <2>1, <2>2, <3>1
  <2>. QED BY <1>13, <2>3, <2>4, <2>5 DEF PurgeVersion
<1>14. ASSUME Die PROVE BlobInv'
  <2>1. /\ versions' = versions /\ stored' = stored /\ \A w \in Workers : pc'[w] = Idle
        /\ retain' = NoRetain /\ prefix' = NoPrefix /\ \A p \in Purgers : single'[p] = NoSingle
    BY <1>14 DEF Die, EndRun, remote
  <2>2. \A b \in Blobs : ~Listed(b)'
    BY <2>1 DEF Listed, NoRetain, NoPrefix, NoSingle
  <2>3. OneBlobPerVersion' /\ HeldIsPrivate'
    BY <2>1 DEF BlobInv, OneBlobPerVersion, HeldIsPrivate, Holding, Idle
  <2>4. \A r \in versions' : Arrived(r.blob)'
    BY <2>1 DEF BlobInv, Arrived
  <2>5. \A w \in Workers : Busy(w)'
    BY <2>1, NotBusy DEF Holding, Idle
  <2>6. /\ prefix'.blobs \subseteq prefix'.listed
        /\ \A p \in Purgers : single'[p].at = "off"
    BY <2>1 DEF NoPrefix, NoSingle
  <2>. QED BY <2>2, <2>3, <2>4, <2>5, <2>6 DEF BlobInv
<1>15. ASSUME UNCHANGED mvars PROVE BlobInv'
  BY <1>3, <1>15 DEF mvars, vars
<1>. QED BY <1>4, <1>5, <1>6, <1>9, <1>11, <1>13, <1>14, <1>15 DEF MaintNext


-----------------------------------------------------------------------------
(* How a step treats the lists, the rows and the blobs.                     *)

LEMMA RetainCases ==
    ASSUME [MaintNext]_mvars
    PROVE  \/ retain' = retain
           \/ EndWalk \/ RetainList \/ RetainNothing \/ RetainStopped \/ RetainRemove \/ Die
           \/ \E f \in Files : Judge(f)
           \/ \E b \in Blobs : RetainDelete(b)
<1>. USE DEF run
<1>1. World => retain' = retain
  BY DEF World, NextDay, Vanish, Reappear, EditPresent
<1>2. Walk => retain' = retain \/ EndWalk
  BY DEF Walk, StartRun, Stop, Visit, Miss, TakeNothing
<1>3. \A w \in Workers : Backup(w) => retain' = retain
  BY DEF Backup, Take, Work, Read, Vanished, Record
<1>4. Purge => retain' = retain
  BY DEF Purge, PurgeList, PurgeBlob, PurgeDropped, PurgeRemove
<1>5. \A p \in Purgers : PurgeVersion(p) => retain' = retain
  BY DEF PurgeVersion, FindVersion, DeleteVersionBlob, RemoveVersion
<1>6. UNCHANGED mvars => retain' = retain
  BY DEF mvars
<1>. QED BY <1>1, <1>2, <1>3, <1>4, <1>5, <1>6 DEF MaintNext, Retire

LEMMA PrefixCases ==
    ASSUME [MaintNext]_mvars
    PROVE  \/ prefix' = prefix
           \/ PurgeDropped \/ PurgeRemove \/ Die
           \/ \E s \in Scopes : PurgeList(s)
           \/ \E b \in Blobs : PurgeBlob(b)
<1>. USE DEF purges
<1>1. World => prefix' = prefix
  BY DEF World, NextDay, Vanish, Reappear, EditPresent
<1>2. Walk => prefix' = prefix
  BY DEF Walk, StartRun, Stop, EndWalk, Visit, Miss, TakeNothing
<1>3. \A w \in Workers : Backup(w) => prefix' = prefix
  BY DEF Backup, Take, Work, Read, Vanished, Record
<1>4. Retire => prefix' = prefix
  BY DEF Retire, RetainNothing, RetainList, RetainStopped, RetainRemove, Judge, RetainDelete
<1>5. \A p \in Purgers : PurgeVersion(p) => prefix' = prefix
  BY DEF PurgeVersion, FindVersion, DeleteVersionBlob, RemoveVersion
<1>6. UNCHANGED mvars => prefix' = prefix
  BY DEF mvars
<1>. QED BY <1>1, <1>2, <1>3, <1>4, <1>5, <1>6 DEF MaintNext, Purge

LEMMA SingleCases ==
    ASSUME PurgesOK, NEW p \in Purgers, [MaintNext]_mvars
    PROVE  \/ single'[p] = single[p]
           \/ (\E r \in versions : FindVersion(p, r)) \/ DeleteVersionBlob(p) \/ RemoveVersion(p)
           \/ Die
<1>. USE DEF purges
<1>1. World => single' = single
  BY DEF World, NextDay, Vanish, Reappear, EditPresent
<1>2. Walk => single' = single
  BY DEF Walk, StartRun, Stop, EndWalk, Visit, Miss, TakeNothing
<1>3. \A w \in Workers : Backup(w) => single' = single
  BY DEF Backup, Take, Work, Read, Vanished, Record
<1>4. Retire => single' = single
  BY DEF Retire, RetainNothing, RetainList, RetainStopped, RetainRemove, Judge, RetainDelete
<1>5. Purge => single' = single
  BY DEF Purge, PurgeList, PurgeBlob, PurgeDropped, PurgeRemove
<1>6. ASSUME NEW q \in Purgers, q # p, PurgeVersion(q) PROVE single'[p] = single[p]
  BY <1>6 DEF PurgeVersion, FindVersion, DeleteVersionBlob, RemoveVersion, PurgesOK
<1>7. UNCHANGED mvars => single' = single
  BY DEF mvars
<1>. QED BY <1>1, <1>2, <1>3, <1>4, <1>5, <1>6, <1>7 DEF MaintNext, PurgeVersion

\* A purge that has been overtaken remains so until it is back.
LEMMA RacedStays ==
    ASSUME PurgesOK, NEW p \in raced, single'[p].at # "off", [MaintNext]_mvars
    PROVE  p \in raced'
<1>. USE DEF purges
<1>0. p \in Purgers
  BY DEF PurgesOK
<1>1. World => raced' = raced
  BY DEF World, NextDay, Vanish, Reappear, EditPresent
<1>2. Walk => raced' = raced
  BY DEF Walk, StartRun, Stop, EndWalk, Visit, Miss, TakeNothing
<1>3. \A w \in Workers : Backup(w) => raced' = raced
  BY DEF Backup, Take, Work, Read, Vanished, Record
<1>4. Retire => raced' = raced
  BY DEF Retire, RetainNothing, RetainList, RetainStopped, RetainRemove, Judge, RetainDelete
<1>5. Purge => raced' = raced
  BY DEF Purge, PurgeList, PurgeBlob, PurgeDropped, PurgeRemove
<1>6. ASSUME NEW q \in Purgers, PurgeVersion(q) PROVE p \in raced'
  <2>1. ASSUME NEW r \in versions, FindVersion(q, r) PROVE p \in raced'
    BY <2>1 DEF FindVersion
  <2>2. ASSUME DeleteVersionBlob(q) \/ RemoveVersion(q), q # p PROVE p \in raced'
    BY <2>2 DEF DeleteVersionBlob, RemoveVersion
  <2>3. ASSUME DeleteVersionBlob(p) \/ RemoveVersion(p) PROVE p \in raced'
    BY <1>0, <2>3 DEF DeleteVersionBlob, RemoveVersion, NoSingle, PurgesOK
  <2>. QED BY <1>6, <2>1, <2>2, <2>3 DEF PurgeVersion
<1>7. ~Die
  BY <1>0 DEF Die, NoSingle
<1>8. UNCHANGED mvars => raced' = raced
  BY DEF mvars
<1>. QED BY <1>1, <1>2, <1>3, <1>4, <1>5, <1>6, <1>7, <1>8 DEF MaintNext

\* A row that was there, of a file whose id is still the same.
Survivor(r) == \E s \in versions : Same(r, s) /\ entry'[r.file].id = entry[r.file].id

\* A row that a worker has just recorded.
Recorded(r) ==
    /\ \E w \in Workers : Record(w) /\ \E ev : RecordEffect(w, r, ev)
    /\ stored'[r.blob] = "complete" /\ ~Listed(r.blob)
    /\ retain.at = "off" /\ UNCHANGED <<stored, retain, purges>>

LEMMA RowOrigin ==
    ASSUME MaintTypeOK, WalkInv, BlobInv, [MaintNext]_mvars, NEW r \in versions'
    PROVE  Survivor(r) \/ Recorded(r)
<1>0. TypeOK /\ EntryOK /\ PurgesOK
  BY DEF MaintTypeOK, EntryOK, PurgesOK
<1>1. ASSUME r \in versions, entry'[r.file].id = entry[r.file].id PROVE Survivor(r)
  BY <1>1 DEF Survivor, Same
<1>2. CASE UNCHANGED <<versions, entry, nextID>>
  BY <1>1, <1>2
<1>3. ASSUME NEW f \in Files, Judge(f) PROVE Survivor(r)
  <2>1. versions' = versions /\ (entry' = entry \/ entry' = Marked(f))
    BY <1>3 DEF Judge
  <2>2. r.file \in Files
    BY <1>0, <2>1 DEF TypeOK, Row
  <2>3. entry'[r.file].id = entry[r.file].id
    BY <1>0, <2>1, <2>2 DEF EntryOK, Marked, Row0
  <2>. QED BY <1>1, <2>1, <2>3
<1>4. ASSUME NEW w \in Workers, RefreshMtime(w), Work(w) PROVE Survivor(r)
  <2>1. entry' = entry
    BY <1>4 DEF Work, table
  <2>2. CASE versions' = versions
    BY <1>1, <2>1, <2>2
  <2>3. ASSUME NEW x \in versions, NEW new, Same(new, x),
               versions' = (versions \ {x}) \cup {new}
        PROVE  Survivor(r)
    BY <1>1, <2>1, <2>3 DEF Survivor
  <2>. QED BY <1>4, <2>2, <2>3, RefreshShape
<1>5. ASSUME NEW w \in Workers, Record(w) PROVE Survivor(r) \/ Recorded(r)
  <2>1. PICK row, ev : RecordEffect(w, row, ev)
    BY <1>0, <1>5, RecordShape
  <2>2. CASE r = row
    <3>1. pc[w] = "uploaded" /\ UNCHANGED <<stored, retain, purges>>
      BY <1>5 DEF Record, Upsert, run, remote
    <3>2. r.blob = held[w] /\ stored[held[w]] = "complete" /\ ~Listed(held[w])
      BY <2>1, <2>2, <3>1 DEF RecordEffect, BlobInv, Busy
    <3>3. retain.at = "off"
      BY <3>1 DEF WalkInv, Idle
    <3>. QED BY <1>5, <2>1, <2>2, <3>1, <3>2, <3>3 DEF Recorded
  <2>3. CASE r # row
    <3>1. r \in versions /\ r.file \in Files
      BY <1>0, <2>1, <2>3 DEF RecordEffect, TypeOK, Row
    <3>2. entry[r.file].id # 0
      BY <1>0, <3>1 DEF EntryOK, VersionsOf
    <3>3. entry' = [entry EXCEPT ![task[w].file] = EntryFor(task[w].file)]
      BY <1>5 DEF Record
    <3>4. entry'[r.file].id = entry[r.file].id
      BY <1>0, <3>1, <3>2, <3>3 DEF EntryFor, EntryOK
    <3>. QED BY <1>1, <3>1, <3>4
  <2>. QED BY <2>2, <2>3
<1>6. ASSUME NEW D \in SUBSET Files, r \in versions, r.file \notin D, r.file \in Files,
             entry' = [f \in Files |-> IF f \in D THEN NoEntry ELSE entry[f]]
      PROVE  Survivor(r)
  BY <1>1, <1>6
<1>7. CASE RetainRemove
  <2>1. CASE UNCHANGED <<versions, entry>>
    BY <1>1, <2>1
  <2>2. CASE ~UNCHANGED <<versions, entry>>
    <3>. DEFINE D == {f \in Files : entry[f].id \in retain.ids}
    <3>1. /\ versions' = versions \ OfIDs(retain.ids)
          /\ entry' = [f \in Files |-> IF f \in D THEN NoEntry ELSE entry[f]]
      BY <1>7, <2>2 DEF RetainRemove
    <3>2. r \in versions /\ r.file \in Files
      BY <1>0, <3>1 DEF TypeOK, Row
    <3>3. r.file \notin D
      BY <3>1 DEF OfIDs
    <3>. QED BY <1>6, <3>1, <3>2, <3>3
  <2>. QED BY <2>1, <2>2
<1>8. CASE PurgeRemove
  <2>1. CASE UNCHANGED <<versions, entry>>
    BY <1>1, <2>1
  <2>2. CASE ~UNCHANGED <<versions, entry>>
    <3>1. /\ versions' = versions \ InScope(prefix.scope)
          /\ entry' = [f \in Files |-> IF f \in prefix.scope THEN NoEntry ELSE entry[f]]
      BY <1>8, <2>2 DEF PurgeRemove
    <3>2. r \in versions /\ r.file \in Files /\ prefix.scope \in SUBSET Files
      BY <1>0, <3>1 DEF TypeOK, Row, PurgesOK
    <3>3. r.file \notin prefix.scope
      BY <3>1, <3>2 DEF InScope
    <3>. QED BY <1>6, <3>1, <3>2, <3>3
  <2>. QED BY <2>1, <2>2
<1>9. ASSUME NEW p \in Purgers, RemoveVersion(p) PROVE Survivor(r)
  <2>1. CASE UNCHANGED <<versions, entry>>
    BY <1>1, <2>1
  <2>2. CASE ~UNCHANGED <<versions, entry>>
    <3>1. /\ versions' \subseteq versions
          /\ entry' = [f \in Files |->
                          IF VersionsOf(versions', f) = {} THEN NoEntry ELSE entry[f]]
      BY <1>9, <2>2 DEF RemoveVersion
    <3>2. r \in versions /\ r.file \in Files /\ VersionsOf(versions', r.file) # {}
      BY <1>0, <3>1 DEF TypeOK, Row, VersionsOf
    <3>. QED BY <1>1, <3>1, <3>2
  <2>. QED BY <2>1, <2>2
<1>. QED BY <1>2, <1>3, <1>4, <1>5, <1>7, <1>8, <1>9, RowsStep

\* A blob that has arrived is only ever deleted, by one of four.
DeletedBy(b) ==
    \/ \E w \in Workers : pc[w] = "evicting" /\ held[w] = b
    \/ RetainDelete(b) \/ PurgeBlob(b)
    \/ \E p \in Purgers : DeleteVersionBlob(p) /\ single[p].blob = b

LEMMA BlobFate ==
    ASSUME MaintTypeOK, BlobInv, [MaintNext]_mvars, NEW b \in Blobs, Arrived(b)
    PROVE  stored'[b] = stored[b] \/ (stored'[b] = "deleted" /\ DeletedBy(b))
<1>0. TypeOK
  BY DEF MaintTypeOK
<1>. USE DEF remote
<1>1. World \/ Walk => stored' = stored
  BY DEF World, NextDay, Vanish, Reappear, EditPresent, Edit, Walk, StartRun, Stop, EndWalk,
         Visit, Miss, TakeNothing, vars
<1>2. ASSUME NEW w \in Workers, Backup(w)
      PROVE  stored'[b] = stored[b] \/ (stored'[b] = "deleted" /\ DeletedBy(b))
  <2>1. ASSUME StartUpload(w) PROVE stored'[b] = stored[b]
    BY <1>0, <2>1 DEF StartUpload, FreshBlobs, TypeOK, Arrived
  <2>2. ASSUME UploadDone(w) \/ UploadFails(w) PROVE stored'[b] = stored[b]
    <3>1. pc[w] = "uploading" /\ \E s : stored' = [stored EXCEPT ![held[w]] = s]
      BY <2>2 DEF UploadDone, UploadFails
    <3>2. stored[held[w]] = "partial"
      BY <3>1 DEF BlobInv, Busy
    <3>. QED BY <1>0, <3>1, <3>2 DEF TypeOK, Arrived
  <2>3. ASSUME DeleteEvicted(w)
        PROVE  stored'[b] = stored[b] \/ (stored'[b] = "deleted" /\ DeletedBy(b))
    <3>1. /\ pc[w] = "evicting"
          /\ stored' = stored \/ stored' = [stored EXCEPT ![held[w]] = "deleted"]
      BY <2>3 DEF DeleteEvicted
    <3>2. CASE held[w] = b
      BY <1>0, <3>1, <3>2 DEF TypeOK, DeletedBy
    <3>3. CASE held[w] # b
      BY <1>0, <3>1, <3>3 DEF TypeOK
    <3>. QED BY <3>2, <3>3
  <2>4. CASE Work(w)
    BY <2>2, <2>3, <2>4
    DEF Work, FastSkip, Lookup, RefreshMtime, Fails, UpsertFails, ReadFails
  <2>5. CASE Read(w)
    BY <2>1, <2>5 DEF Read, HashFile
  <2>6. CASE Vanished(w) \/ Record(w) \/ \E f \in Files : Take(w, f)
    BY <2>6 DEF Vanished, Record, Upsert, Take, TakeFile
  <2>. QED BY <1>2, <2>4, <2>5, <2>6 DEF Backup
<1>3. ASSUME NEW c \in Blobs, Deleted(c) \/ NotDeleted
      PROVE  stored'[b] = stored[b] \/ (stored'[b] = "deleted" /\ b = c)
  BY <1>0, <1>3 DEF Deleted, NotDeleted, TypeOK
<1>4. ASSUME Retire
      PROVE  stored'[b] = stored[b] \/ (stored'[b] = "deleted" /\ DeletedBy(b))
  <2>1. ASSUME NEW c \in Blobs, RetainDelete(c)
        PROVE  stored'[b] = stored[b] \/ (stored'[b] = "deleted" /\ DeletedBy(b))
    <3>1. Deleted(c) \/ NotDeleted
      BY <2>1 DEF RetainDelete
    <3>. QED BY <1>3, <2>1, <3>1 DEF DeletedBy
  <2>. QED
    BY <1>4, <2>1 DEF Retire, RetainNothing, RetainList, RetainStopped, RetainRemove, Judge, vars
<1>5. ASSUME Purge
      PROVE  stored'[b] = stored[b] \/ (stored'[b] = "deleted" /\ DeletedBy(b))
  <2>1. ASSUME NEW c \in Blobs, PurgeBlob(c)
        PROVE  stored'[b] = stored[b] \/ (stored'[b] = "deleted" /\ DeletedBy(b))
    <3>1. Deleted(c) \/ NotDeleted
      BY <2>1 DEF PurgeBlob
    <3>. QED BY <1>3, <2>1, <3>1 DEF DeletedBy
  <2>. QED BY <1>5, <2>1 DEF Purge, PurgeList, PurgeDropped, PurgeRemove, vars
<1>6. ASSUME NEW p \in Purgers, PurgeVersion(p)
      PROVE  stored'[b] = stored[b] \/ (stored'[b] = "deleted" /\ DeletedBy(b))
  <2>1. ASSUME DeleteVersionBlob(p)
        PROVE  stored'[b] = stored[b] \/ (stored'[b] = "deleted" /\ DeletedBy(b))
    <3>1. Deleted(single[p].blob) \/ NotDeleted
      BY <2>1 DEF DeleteVersionBlob
    <3>2. single[p].blob \in Blobs
      BY <2>1 DEF DeleteVersionBlob, BlobInv
    <3>. QED BY <1>3, <2>1, <3>1, <3>2 DEF DeletedBy
  <2>. QED BY <1>6, <2>1 DEF PurgeVersion, FindVersion, RemoveVersion, vars
<1>7. Die \/ UNCHANGED mvars => stored' = stored
  BY DEF Die, mvars, vars
<1>. QED BY <1>1, <1>2, <1>4, <1>5, <1>6, <1>7 DEF MaintNext

LEMMA NameStep ==
    ASSUME MaintTypeOK, WalkInv, BlobInv, NameInv, [MaintNext]_mvars
    PROVE  NameInv'
<1>0. TypeOK /\ EntryOK /\ PurgesOK /\ RunOK
  BY DEF MaintTypeOK, EntryOK, PurgesOK, RunOK
<1>1. \A r \in versions' : Survivor(r) \/ Recorded(r)
  BY RowOrigin
<1>2. ASSUME NEW r \in versions', r.blob \in retain'.blobs
      PROVE  entry'[r.file].id \in retain'.ids
  <2>1. ASSUME retain'.blobs \subseteq retain.blobs, retain.ids \subseteq retain'.ids
        PROVE  entry'[r.file].id \in retain'.ids
    <3>1. Listed(r.blob)
      BY <1>2, <2>1 DEF Listed
    <3>2. PICK s \in versions : Same(r, s) /\ entry'[r.file].id = entry[r.file].id
      BY <1>1, <3>1 DEF Survivor, Recorded
    <3>. QED BY <1>2, <2>1, <3>2 DEF NameInv, Same
  <2>2. ASSUME RetainList PROVE entry'[r.file].id \in retain'.ids
    <3>1. /\ retain'.blobs = {s.blob : s \in OfIDs(retain.ids)} /\ retain'.ids = retain.ids
          /\ versions' = versions /\ entry' = entry
      BY <1>0, <2>2 DEF RetainList, RunOK, vars, table
    <3>2. PICK s \in OfIDs(retain.ids) : s.blob = r.blob
      BY <1>2, <3>1
    <3>3. s = r
      BY <3>1, <3>2 DEF OfIDs, BlobInv, OneBlobPerVersion
    <3>. QED BY <3>1, <3>3 DEF OfIDs
  <2>3. CASE retain' = retain
    BY <2>1, <2>3
  <2>4. CASE EndWalk
    BY <1>2, <2>1, <2>4 DEF EndWalk, NoRetain
  <2>5. CASE RetainNothing \/ RetainStopped \/ RetainRemove \/ Die
    BY <1>2, <2>5 DEF RetainNothing, RetainStopped, RetainRemove, Die, EndRun, NoRetain
  <2>6. ASSUME NEW f \in Files, Judge(f) PROVE entry'[r.file].id \in retain'.ids
    BY <1>0, <2>1, <2>6 DEF Judge, RunOK
  <2>7. ASSUME NEW b \in Blobs, RetainDelete(b) PROVE entry'[r.file].id \in retain'.ids
    <3>. DEFINE left == retain.blobs \ {b}
                bad == retain.failed \cup {b}
    <3>1. \/ retain' = [retain EXCEPT !.blobs = left]
          \/ retain' = [retain EXCEPT !.blobs = left, !.failed = bad]
      BY <2>7 DEF RetainDelete
    <3>2. left \subseteq retain.blobs
      OBVIOUS
    <3>. HIDE DEF left, bad
    <3>3. retain'.blobs = left /\ retain'.ids = retain.ids
      BY <1>0, <3>1 DEF RunOK
    <3>. QED BY <2>1, <3>2, <3>3
  <2>. QED BY <2>2, <2>3, <2>4, <2>5, <2>6, <2>7, RetainCases
<1>3. ASSUME NEW r \in versions', r.blob \in prefix'.listed
      PROVE  r.file \in prefix'.scope
  <2>1. ASSUME prefix'.listed = prefix.listed, prefix'.scope = prefix.scope
        PROVE  r.file \in prefix'.scope
    <3>1. Listed(r.blob)
      BY <1>3, <2>1 DEF Listed
    <3>2. PICK s \in versions : Same(r, s)
      BY <1>1, <3>1 DEF Survivor, Recorded
    <3>. QED BY <1>3, <2>1, <3>2 DEF NameInv, Same
  <2>2. ASSUME NEW sc \in Scopes, PurgeList(sc) PROVE r.file \in prefix'.scope
    <3>1. /\ prefix'.listed = {s.blob : s \in InScope(sc)} /\ prefix'.scope = sc
          /\ versions' = versions
      BY <2>2 DEF PurgeList, vars
    <3>2. PICK s \in InScope(sc) : s.blob = r.blob
      BY <1>3, <3>1
    <3>3. s = r
      BY <3>1, <3>2 DEF InScope, BlobInv, OneBlobPerVersion
    <3>. QED BY <3>1, <3>3 DEF InScope
  <2>3. CASE prefix' = prefix
    BY <2>1, <2>3
  <2>4. CASE PurgeDropped \/ PurgeRemove \/ Die
    BY <1>3, <2>4 DEF PurgeDropped, PurgeRemove, Die, NoPrefix
  <2>5. ASSUME NEW b \in Blobs, PurgeBlob(b) PROVE r.file \in prefix'.scope
    BY <1>0, <2>1, <2>5 DEF PurgeBlob, PurgesOK
  <2>. QED BY <2>2, <2>3, <2>4, <2>5, PrefixCases
<1>4. ASSUME NEW r \in versions', NEW p \in Purgers,
             single'[p].at # "off", r.blob = single'[p].blob
      PROVE  r \in Named(p)'
  <2>1. ASSUME single[p].at # "off", single'[p].id = single[p].id,
               single'[p].num = single[p].num, single'[p].blob = single[p].blob
        PROVE  r \in Named(p)'
    <3>1. Listed(r.blob)
      BY <1>4, <2>1 DEF Listed
    <3>2. PICK s \in versions : Same(r, s) /\ entry'[r.file].id = entry[r.file].id
      BY <1>1, <3>1 DEF Survivor, Recorded
    <3>3. s \in Named(p)
      BY <1>4, <2>1, <3>2 DEF NameInv, Same
    <3>4. entry[s.file].id = single[p].id /\ s.num = single[p].num
      BY <3>3 DEF Named, OfIDs
    <3>. QED BY <2>1, <3>2, <3>4 DEF Named, OfIDs, Same
  <2>2. ASSUME NEW s \in versions, FindVersion(p, s) PROVE r \in Named(p)'
    <3>1. /\ single'[p] = [at |-> "found", id |-> entry[s.file].id, num |-> s.num,
                           blob |-> s.blob]
          /\ versions' = versions /\ entry' = entry
      BY <1>0, <2>2 DEF FindVersion, PurgesOK, vars, table
    <3>2. r = s
      BY <1>4, <3>1 DEF BlobInv, OneBlobPerVersion
    <3>. QED BY <3>1, <3>2 DEF Named, OfIDs
  <2>3. CASE single'[p] = single[p]
    BY <1>4, <2>1, <2>3
  <2>4. CASE DeleteVersionBlob(p)
    BY <1>0, <1>4, <2>1, <2>4 DEF DeleteVersionBlob, PurgesOK, NoSingle
  <2>5. CASE RemoveVersion(p) \/ Die
    BY <1>0, <1>4, <2>5 DEF RemoveVersion, Die, PurgesOK, NoSingle
  <2>. QED BY <1>0, <2>2, <2>3, <2>4, <2>5, SingleCases
<1>. QED BY <1>2, <1>3, <1>4 DEF NameInv

\* While nothing fails, a removal that is going to remove a row removes it.
LEMMA TargetedStays ==
    ASSUME MaintTypeOK, WalkInv, faults = 0, faults' = 0, [MaintNext]_mvars,
           NEW r \in versions', NEW s \in versions, Same(r, s),
           entry'[r.file].id = entry[r.file].id, Targeted(s)
    PROVE  Targeted(r)'
<1>0. TypeOK /\ EntryOK /\ PurgesOK /\ RunOK
  BY DEF MaintTypeOK, EntryOK, PurgesOK, RunOK
<1>1. ~Fault
  BY DEF Fault
<1>2. ASSUME prefix.at = "deleting", s.file \in prefix.scope, s.blob \in prefix.listed
      PROVE  Targeted(r)'
  <2>1. ASSUME PurgeRemove PROVE FALSE
    <3>1. versions' = versions \ InScope(prefix.scope)
      BY <1>1, <2>1 DEF PurgeRemove
    <3>. QED BY <1>2, <3>1 DEF InScope, Same
  <2>2. ASSUME NEW b \in Blobs, PurgeBlob(b)
        PROVE  prefix'.at = "deleting" /\ UNCHANGED <<prefix.scope, prefix.listed>>
    BY <1>0, <2>2 DEF PurgeBlob, PurgesOK
  <2>3. prefix'.at = "deleting" /\ UNCHANGED <<prefix.scope, prefix.listed>>
    BY <1>1, <1>2, <2>1, <2>2, PrefixCases DEF PurgeDropped, PurgeList, Die
  <2>. QED BY <1>2, <2>3 DEF Targeted, Same
<1>3. ASSUME NEW p \in Purgers, single[p].at = "deleted", s \in Named(p)
      PROVE  Targeted(r)'
  <2>1. ASSUME RemoveVersion(p) PROVE FALSE
    <3>1. versions' = versions \ Named(p) /\ r \in versions
      BY <1>1, <2>1 DEF RemoveVersion
    <3>2. r.file = s.file /\ r.num = s.num
      BY DEF Same
    <3>. QED BY <1>3, <3>1, <3>2 DEF Named, OfIDs
  <2>2. single'[p] = single[p]
    BY <1>0, <1>1, <1>3, <2>1, SingleCases DEF FindVersion, DeleteVersionBlob, Die
  <2>3. r \in Named(p)'
    BY <1>3, <2>2 DEF Named, OfIDs, Same
  <2>. QED BY <1>3, <2>2, <2>3 DEF Targeted
<1>4. ASSUME retain.at = "deleting", entry[s.file].id \in retain.ids
      PROVE  Targeted(r)'
  <2>1. ASSUME RetainRemove PROVE FALSE
    <3>1. versions' = versions \ OfIDs(retain.ids)
      BY <1>1, <2>1 DEF RetainRemove
    <3>. QED BY <1>4, <3>1 DEF OfIDs, Same
  <2>2. ~RetainStopped
    BY DEF RetainStopped, WalkInv
  <2>3. ~EndWalk /\ ~RetainList /\ ~RetainNothing /\ ~Die
    BY <1>1, <1>4 DEF WalkInv, EndWalk, RetainList, RetainNothing, Die
  <2>4. ASSUME NEW b \in Blobs, RetainDelete(b)
        PROVE  retain'.at = "deleting" /\ retain'.ids = retain.ids
    BY <1>0, <1>4, <2>4 DEF RetainDelete, RunOK
  <2>5. retain'.at = "deleting" /\ retain'.ids = retain.ids
    BY <1>4, <2>1, <2>2, <2>3, <2>4, RetainCases DEF Judge
  <2>. QED BY <1>4, <2>5 DEF Targeted, Same
<1>. QED BY <1>2, <1>3, <1>4 DEF Targeted

\* The step that deletes the blob of a row is a step of a removal that names it.
LEMMA DeletedIsTargeted ==
    ASSUME MaintTypeOK, BlobInv, NameInv, faults = 0, faults' = 0, [MaintNext]_mvars,
           NEW r \in versions', NEW s \in versions, Same(r, s),
           entry'[r.file].id = entry[r.file].id, DeletedBy(s.blob)
    PROVE  Targeted(r)'
<1>0. TypeOK /\ PurgesOK /\ RunOK
  BY DEF MaintTypeOK, PurgesOK, RunOK
<1>1. ~Fault
  BY DEF Fault
<1>2. ~\E w \in Workers : pc[w] = "evicting" /\ held[w] = s.blob
  BY DEF BlobInv, HeldIsPrivate, Holding
<1>3. CASE RetainDelete(s.blob)
  <2>1. retain.at = "deleting" /\ entry[s.file].id \in retain.ids
    BY <1>3 DEF RetainDelete, NameInv
  <2>2. retain'.at = "deleting" /\ retain'.ids = retain.ids
    BY <1>0, <1>3 DEF RetainDelete, RunOK
  <2>. QED BY <2>1, <2>2 DEF Targeted, Same
<1>4. CASE PurgeBlob(s.blob)
  <2>1. prefix.at = "deleting" /\ s.blob \in prefix.listed /\ s.file \in prefix.scope
    BY <1>4 DEF PurgeBlob, NameInv, BlobInv
  <2>2. prefix'.at = "deleting" /\ UNCHANGED <<prefix.scope, prefix.listed>>
    BY <1>0, <1>4 DEF PurgeBlob, PurgesOK
  <2>. QED BY <2>1, <2>2 DEF Targeted, Same
<1>5. ASSUME NEW p \in Purgers, DeleteVersionBlob(p), single[p].blob = s.blob
      PROVE  Targeted(r)'
  <2>1. single[p].at = "found" /\ s \in Named(p)
    BY <1>5 DEF DeleteVersionBlob, NameInv
  <2>2. /\ single'[p].at = "deleted"
        /\ single'[p].id = single[p].id /\ single'[p].num = single[p].num
    BY <1>0, <1>1, <1>5 DEF DeleteVersionBlob, NotDeleted, PurgesOK
  <2>3. r \in Named(p)'
    BY <2>1, <2>2 DEF Named, OfIDs, Same
  <2>. QED BY <2>2, <2>3 DEF Targeted
<1>. QED BY <1>2, <1>3, <1>4, <1>5 DEF DeletedBy

LEMMA DanglingStep ==
    ASSUME MaintTypeOK, WalkInv, BlobInv, NameInv, DanglingExplained, [MaintNext]_mvars
    PROVE  DanglingExplained'
<1>1. SUFFICES ASSUME faults' = 0, NEW r \in versions', stored'[r.blob] # "complete"
               PROVE  Targeted(r)'
  BY DEF DanglingExplained
<1>2. faults = 0
  <2>1. faults \in Nat
    BY DEF MaintTypeOK, TypeOK
  <2>. QED BY <1>1, <2>1, FaultsStep
<1>3. PICK s \in versions : Same(r, s) /\ entry'[r.file].id = entry[r.file].id
  BY <1>1, RowOrigin DEF Survivor, Recorded
<1>4. s.blob \in Blobs /\ Arrived(s.blob) /\ s.blob = r.blob
  BY <1>3 DEF MaintTypeOK, TypeOK, Row, BlobInv, Same
<1>5. CASE stored'[s.blob] = stored[s.blob]
  <2>1. Targeted(s)
    BY <1>1, <1>2, <1>4, <1>5 DEF DanglingExplained
  <2>. QED BY <1>1, <1>2, <1>3, <2>1, TargetedStays
<1>6. CASE DeletedBy(s.blob)
  BY <1>1, <1>2, <1>3, <1>6, DeletedIsTargeted
<1>. QED BY <1>4, <1>5, <1>6, BlobFate

LEMMA BlobInits == MaintInit => BlobInv /\ NameInv /\ DanglingExplained
<1>. SUFFICES ASSUME MaintInit PROVE BlobInv /\ NameInv /\ DanglingExplained
  OBVIOUS
<1>1. versions = {} /\ \A w \in Workers : pc[w] = Idle
  BY DEF MaintInit, Init
<1>2. \A b : ~Listed(b)
  BY DEF MaintInit, Listed, NoRetain, NoPrefix, NoSingle
<1>3. \A w \in Workers : Busy(w)
  BY <1>1 DEF Busy, Idle
<1>4. OneBlobPerVersion /\ HeldIsPrivate
  BY <1>1 DEF OneBlobPerVersion, HeldIsPrivate, Holding, Idle
<1>5. /\ prefix.blobs \subseteq prefix.listed
      /\ \A p \in Purgers : single[p].at = "off"
  BY DEF MaintInit, NoPrefix, NoSingle
<1>. QED BY <1>1, <1>2, <1>3, <1>4, <1>5 DEF BlobInv, NameInv, DanglingExplained

\* While nothing fails and nobody gives up, a version whose blob is not there is
\* in the hands of a removal that is going to remove its row.
THEOREM DanglingExplainedHolds == MaintSpec => []DanglingExplained
<1>1. MaintTypeOK /\ WalkInv /\ BlobInv /\ NameInv /\ DanglingExplained /\ [MaintNext]_mvars
         => (MaintTypeOK /\ WalkInv /\ BlobInv /\ NameInv /\ DanglingExplained)'
  BY MaintTypeStep, WalkStep, BlobStep, NameStep, DanglingStep
<1>. QED BY <1>1, MaintInits, BlobInits, PTL DEF MaintSpec

-----------------------------------------------------------------------------
(* Rows go after their blobs.                                               *)

LEMMA DoneStep ==
    ASSUME MaintTypeOK, WalkInv, BlobInv, DoneInv, [MaintNext]_mvars
    PROVE  DoneInv'
<1>0. TypeOK /\ PurgesOK /\ RunOK
  BY DEF MaintTypeOK, PurgesOK, RunOK
<1>1. \A b \in Blobs : stored[b] = "deleted" => stored'[b] = "deleted"
  BY BlobFate DEF Arrived
<1>2. \A b \in Blobs : Arrived(b) /\ Deleted(b) => stored'[b] = "deleted"
  BY <1>0 DEF Arrived, Deleted, TypeOK
<1>3. \A b : Listed(b) => b \in Blobs /\ Arrived(b)
  BY <1>0, ListedBlobs
<1>4. ASSUME retain'.at = "deleting", NEW r \in versions', entry'[r.file].id \in retain'.ids
      PROVE  r.blob \in retain'.blobs \cup retain'.failed \/ stored'[r.blob] = "deleted"
  <2>1. CASE retain' = retain
    <3>1. PICK s \in versions : Same(r, s) /\ entry'[r.file].id = entry[r.file].id
      BY <1>4, <2>1, RowOrigin DEF Survivor, Recorded
    <3>2. s.blob \in Blobs /\ s.blob = r.blob
      BY <1>0, <3>1 DEF TypeOK, Row, Same
    <3>3. s.blob \in retain.blobs \cup retain.failed \/ stored[s.blob] = "deleted"
      BY <1>4, <2>1, <3>1 DEF DoneInv, Same
    <3>. QED BY <1>1, <2>1, <3>2, <3>3
  <2>2. CASE RetainList
    <3>1. /\ retain'.blobs = {s.blob : s \in OfIDs(retain.ids)} /\ retain'.ids = retain.ids
          /\ versions' = versions /\ entry' = entry
      BY <1>0, <2>2 DEF RetainList, RunOK, vars, table
    <3>. QED BY <1>4, <3>1 DEF OfIDs
  <2>3. ASSUME NEW b \in Blobs, RetainDelete(b)
        PROVE  r.blob \in retain'.blobs \cup retain'.failed \/ stored'[r.blob] = "deleted"
    <3>1. /\ retain.at = "deleting" /\ b \in retain.blobs
          /\ retain'.ids = retain.ids /\ retain'.blobs = retain.blobs \ {b}
          /\ versions' = versions /\ entry' = entry
      BY <1>0, <2>3 DEF RetainDelete, RunOK, table
    <3>2. \/ Deleted(b) /\ retain'.failed = retain.failed
          \/ retain'.failed = retain.failed \cup {b}
      BY <1>0, <2>3 DEF RetainDelete, RunOK
    <3>3. r.blob \in Blobs
      BY <1>0, <3>1 DEF TypeOK, Row
    <3>4. r.blob \in retain.blobs \cup retain.failed \/ stored[r.blob] = "deleted"
      BY <1>4, <3>1 DEF DoneInv
    <3>5. Arrived(b)
      BY <1>3, <3>1 DEF Listed
    <3>. QED BY <1>1, <1>2, <3>1, <3>2, <3>3, <3>4, <3>5
  <2>4. CASE EndWalk
    BY <1>4, <2>1, <2>4 DEF EndWalk, NoRetain
  <2>5. ~(RetainNothing \/ RetainStopped \/ RetainRemove \/ Die)
    BY <1>4 DEF RetainNothing, RetainStopped, RetainRemove, Die, EndRun, NoRetain
  <2>6. ASSUME NEW f \in Files, Judge(f) PROVE FALSE
    BY <1>0, <1>4, <2>6 DEF Judge, RunOK
  <2>. QED BY <2>1, <2>2, <2>3, <2>4, <2>5, <2>6, RetainCases
<1>5. ASSUME NEW b \in prefix'.listed
      PROVE  b \in prefix'.blobs \cup prefix'.failed \/ stored'[b] = "deleted"
  <2>1. CASE prefix' = prefix
    <3>1. b \in Blobs
      BY <1>0, <2>1 DEF PurgesOK
    <3>. QED BY <1>1, <2>1, <3>1 DEF DoneInv
  <2>2. ASSUME NEW c \in Blobs, PurgeBlob(c)
        PROVE  b \in prefix'.blobs \cup prefix'.failed \/ stored'[b] = "deleted"
    <3>1. /\ c \in prefix.blobs /\ prefix'.listed = prefix.listed
          /\ prefix'.blobs = prefix.blobs \ {c}
      BY <1>0, <2>2 DEF PurgeBlob, PurgesOK
    <3>2. \/ Deleted(c) /\ prefix'.failed = prefix.failed
          \/ prefix'.failed = prefix.failed \cup {c}
      BY <1>0, <2>2 DEF PurgeBlob, PurgesOK
    <3>3. b \in Blobs
      BY <1>0, <3>1 DEF PurgesOK
    <3>4. b \in prefix.blobs \cup prefix.failed \/ stored[b] = "deleted"
      BY <3>1 DEF DoneInv
    <3>5. Arrived(c)
      BY <1>3, <3>1 DEF Listed, BlobInv
    <3>. QED BY <1>1, <1>2, <3>1, <3>2, <3>3, <3>4, <3>5
  <2>3. ASSUME NEW s \in Scopes, PurgeList(s) PROVE b \in prefix'.blobs
    BY <2>3 DEF PurgeList
  <2>4. ~(PurgeDropped \/ PurgeRemove \/ Die)
    BY DEF PurgeDropped, PurgeRemove, Die, NoPrefix
  <2>. QED BY <2>1, <2>2, <2>3, <2>4, PrefixCases
<1>6. ASSUME NEW p \in Purgers, single'[p].at = "deleted"
      PROVE  stored'[single'[p].blob] = "deleted"
  <2>1. CASE single'[p] = single[p]
    BY <1>1, <1>6, <2>1 DEF DoneInv, BlobInv
  <2>2. CASE DeleteVersionBlob(p)
    <3>1. single[p].at = "found" /\ Deleted(single[p].blob) /\ single'[p].blob = single[p].blob
      BY <1>0, <1>6, <2>2 DEF DeleteVersionBlob, PurgesOK, NoSingle
    <3>2. Listed(single[p].blob)
      BY <3>1 DEF Listed
    <3>. QED BY <1>2, <1>3, <3>1, <3>2
  <2>3. ASSUME NEW r \in versions, FindVersion(p, r) PROVE FALSE
    BY <1>0, <1>6, <2>3 DEF FindVersion, PurgesOK
  <2>4. ~(RemoveVersion(p) \/ Die)
    BY <1>0, <1>6 DEF RemoveVersion, Die, PurgesOK, NoSingle
  <2>. QED BY <1>0, <2>1, <2>2, <2>3, <2>4, SingleCases
<1>. QED BY <1>4, <1>5, <1>6 DEF DoneInv

LEMMA MaintNumsStep ==
    ASSUME MaintTypeOK, NumsUnique, [MaintNext]_mvars
    PROVE  NumsUnique'
<1>0. TypeOK
  BY DEF MaintTypeOK
<1>1. ASSUME versions' \subseteq versions PROVE NumsUnique'
  BY <1>1 DEF NumsUnique
<1>2. ASSUME NEW w \in Workers, RefreshMtime(w) \/ Record(w) PROVE NumsUnique'
  <2>1. Next
    BY <1>2 DEF Next, Progress, Record
  <2>. QED BY <1>0, <2>1, NumsStep
<1>. QED
  BY <1>1, <1>2, RowsStep DEF Judge, RetainRemove, PurgeRemove, RemoveVersion

\* A row of a file whose number is at least the one that a purge has looked up
\* stays while the file's row does, or a row with a larger number takes its
\* place, unless another purge overtakes this one.
LEMMA NumberStays ==
    ASSUME MaintTypeOK, NEW p \in Purgers, p \notin raced',
           single[p].at # "off", single'[p].at # "off", [MaintNext]_mvars,
           NEW f \in Files, entry[f].id = single[p].id, entry'[f].id # 0,
           NEW r \in versions, r.file = f, single[p].num <= r.num
    PROVE  \E s \in versions' : s.file = f /\ single[p].num <= s.num
<1>. DEFINE n == single[p].num
<1>0. /\ TypeOK /\ PurgesOK /\ \A s \in versions : s.num \in Nat /\ s.file \in Files
      /\ n \in Nat /\ n <= r.num
  BY DEF MaintTypeOK, TypeOK, Row, PurgesOK
\* Another purge that removes the row has a number below n, or another file.
<1>6. ASSUME NEW q \in Purgers, RemoveVersion(q)
      PROVE  \E s \in versions' : s.file = f /\ n <= s.num
  <2>1. q # p
    BY <1>0, <1>6 DEF RemoveVersion, PurgesOK, NoSingle
  <2>2. CASE versions' = versions
    BY <2>2
  <2>3. CASE versions' # versions
    <3>1. versions' = versions \ Named(q) /\ raced' = (raced \cup Overtaken(q)) \ {q}
      BY <1>6, <2>3 DEF RemoveVersion
    <3>2. p \notin Overtaken(q)
      BY <2>1, <3>1
    <3>3. r \notin Named(q)
      BY <3>2 DEF Overtaken, Named, OfIDs
    <3>. QED BY <3>1, <3>3
  <2>. QED BY <2>2, <2>3
<1>. HIDE DEF n
<1>1. ASSUME UNCHANGED <<versions, entry, nextID>> \/ \E g \in Files : Judge(g)
      PROVE  \E s \in versions' : s.file = f /\ n <= s.num
  BY <1>0, <1>1 DEF Judge
<1>2. ASSUME NEW w \in Workers, RefreshMtime(w)
      PROVE  \E s \in versions' : s.file = f /\ n <= s.num
  <2>1. CASE versions' = versions
    BY <1>0, <2>1
  <2>2. ASSUME NEW x \in versions, NEW new, Same(new, x),
               versions' = (versions \ {x}) \cup {new}
        PROVE  \E s \in versions' : s.file = f /\ n <= s.num
    BY <1>0, <2>2 DEF Same
  <2>. QED BY <1>2, <2>1, <2>2, RefreshShape
<1>3. ASSUME NEW w \in Workers, Record(w)
      PROVE  \E s \in versions' : s.file = f /\ n <= s.num
  <2>1. PICK row, ev : RecordEffect(w, row, ev)
    BY <1>0, <1>3, RecordShape
  <2>2. /\ versions' = (versions \ ev) \cup {row} /\ row.num \in Nat
        /\ \A s \in versions : s.file = row.file => s.num < row.num
        /\ \A s \in ev : s.file = row.file
    BY <2>1 DEF RecordEffect
  <2>3. CASE row.file = f
    BY <1>0, <2>2, <2>3
  <2>4. CASE row.file # f
    BY <1>0, <2>2, <2>4
  <2>. QED BY <2>3, <2>4
<1>4. ASSUME RetainRemove PROVE \E s \in versions' : s.file = f /\ n <= s.num
  <2>1. CASE versions' = versions
    BY <1>0, <2>1
  <2>2. CASE versions' # versions
    <3>1. /\ versions' = versions \ OfIDs(retain.ids)
          /\ entry' = [g \in Files |->
                          IF entry[g].id \in retain.ids THEN NoEntry ELSE entry[g]]
      BY <1>4, <2>2 DEF RetainRemove
    <3>2. r \notin OfIDs(retain.ids)
      BY <3>1 DEF OfIDs, NoEntry
    <3>. QED BY <1>0, <3>1, <3>2
  <2>. QED BY <2>1, <2>2
<1>5. ASSUME PurgeRemove PROVE \E s \in versions' : s.file = f /\ n <= s.num
  <2>1. CASE versions' = versions
    BY <1>0, <2>1
  <2>2. CASE versions' # versions
    <3>1. /\ versions' = versions \ InScope(prefix.scope)
          /\ entry' = [g \in Files |-> IF g \in prefix.scope THEN NoEntry ELSE entry[g]]
      BY <1>5, <2>2 DEF PurgeRemove
    <3>2. r \notin InScope(prefix.scope)
      BY <3>1 DEF InScope, NoEntry
    <3>. QED BY <1>0, <3>1, <3>2
  <2>. QED BY <2>1, <2>2
<1>7. \E s \in versions' : s.file = f /\ n <= s.num
  BY <1>1, <1>2, <1>3, <1>4, <1>5, <1>6, RowsStep
<1>. QED BY <1>7 DEF n

\* Only Record gives an id, and it is a new one.
LEMMA IdOrigin ==
    ASSUME MaintTypeOK, [MaintNext]_mvars, NEW f \in Files
    PROVE  /\ nextID <= nextID' /\ nextID' \in Nat
           /\ entry'[f].id \in {0, nextID, entry[f].id}
<1>0. TypeOK /\ EntryOK
  BY DEF MaintTypeOK, EntryOK
<1>1. CASE UNCHANGED <<versions, entry, nextID>>
  BY <1>0, <1>1 DEF EntryOK
<1>2. ASSUME NEW g \in Files, Judge(g)
      PROVE  nextID' = nextID /\ entry'[f].id = entry[f].id
  BY <1>0, <1>2 DEF Judge, Marked, EntryOK, Row0
<1>3. ASSUME NEW w \in Workers, RefreshMtime(w), Work(w)
      PROVE  nextID' = nextID /\ entry' = entry
  BY <1>3 DEF Work, table
<1>4. ASSUME NEW w \in Workers, Record(w)
      PROVE  /\ nextID <= nextID' /\ nextID' \in Nat
             /\ entry'[f].id \in {0, nextID, entry[f].id}
  <2>. DEFINE g == task[w].file
  <2>1. /\ entry' = [entry EXCEPT ![g] = EntryFor(g)]
        /\ nextID' = IF entry[g].id # 0 THEN nextID ELSE nextID + 1
    BY <1>4 DEF Record
  <2>2. EntryFor(g).id \in {nextID, entry[g].id}
    BY DEF EntryFor
  <2>. HIDE DEF g
  <2>3. entry'[f].id \in {nextID, entry[f].id}
    BY <1>0, <2>1, <2>2 DEF EntryOK
  <2>. QED BY <1>0, <2>1, <2>3 DEF EntryOK
<1>5. ASSUME RetainRemove \/ PurgeRemove \/ \E p \in Purgers : RemoveVersion(p)
      PROVE  nextID' = nextID /\ entry'[f].id \in {0, entry[f].id}
  BY <1>5 DEF RetainRemove, PurgeRemove, RemoveVersion, NoEntry
<1>. QED BY <1>0, <1>1, <1>2, <1>3, <1>4, <1>5, RowsStep DEF EntryOK

\* A row whose number a purge has looked up is the row it has found, also when
\* it has just been recorded: its number is above those the file had.
LEMMA NamedOrigin ==
    ASSUME MaintTypeOK, WalkInv, BlobInv, ExactInv, [MaintNext]_mvars,
           NEW p \in Purgers \ raced, single[p].at # "off", NEW r \in versions',
           entry'[r.file].id = single[p].id, r.num = single[p].num
    PROVE  r.blob = single[p].blob
<1>0. TypeOK /\ EntryOK /\ PurgesOK
  BY DEF MaintTypeOK, EntryOK, PurgesOK
<1>1. CASE Survivor(r)
  <2>1. PICK s \in versions : Same(r, s) /\ entry'[r.file].id = entry[r.file].id
    BY <1>1 DEF Survivor
  <2>2. s \in Named(p) /\ s.blob = r.blob
    BY <2>1 DEF Same, Named, OfIDs
  <2>. QED BY <2>2 DEF ExactInv
<1>2. ASSUME NEW w \in Workers, NEW ev, RecordEffect(w, r, ev), Record(w) PROVE FALSE
  <2>1. r.file = task[w].file /\ r.file \in Files
    BY <1>0, <1>2 DEF RecordEffect, Record, Upsert, TypeOK, Idle
  <2>2. entry'[r.file] = EntryFor(r.file)
    BY <1>0, <1>2, <2>1 DEF Record, EntryOK
  <2>3. single[p].id # nextID /\ single[p].id \in Nat
    BY <1>0 DEF ExactInv, EntryOK
  <2>4. entry[r.file].id = single[p].id
    BY <2>2, <2>3 DEF EntryFor
  <2>5. PICK s \in versions : s.file = r.file /\ single[p].num <= s.num
    BY <2>1, <2>4 DEF ExactInv
  <2>6. s.num < r.num /\ s.num \in Nat /\ r.num \in Nat
    BY <1>0, <1>2, <2>5 DEF RecordEffect, TypeOK, Row
  <2>. QED BY <2>5, <2>6
<1>. QED BY <1>1, <1>2, RowOrigin DEF Recorded

LEMMA ExactStep ==
    ASSUME MaintTypeOK, WalkInv, BlobInv, NumsUnique, ExactInv, [MaintNext]_mvars
    PROVE  ExactInv'
<1>0. TypeOK /\ EntryOK /\ PurgesOK
  BY DEF MaintTypeOK, EntryOK, PurgesOK
<1>1. SUFFICES ASSUME NEW p \in Purgers, p \notin raced', single'[p].at # "off"
               PROVE  /\ single'[p].id \in 1 .. nextID' - 1
                      /\ \A r \in Named(p)' : r.blob = single'[p].blob
                      /\ \A f \in Files : entry'[f].id = single'[p].id =>
                            \E r \in versions' : r.file = f /\ single'[p].num <= r.num
  BY DEF ExactInv
<1>2. CASE \E r \in versions : FindVersion(p, r)
  <2>1. PICK r \in versions : FindVersion(p, r)
    BY <1>2
  <2>2. /\ single'[p] = [at |-> "found", id |-> entry[r.file].id, num |-> r.num,
                         blob |-> r.blob]
        /\ versions' = versions /\ entry' = entry /\ nextID' = nextID
    BY <1>0, <2>1 DEF FindVersion, PurgesOK, vars, table
  <2>3. /\ r.file \in Files /\ r.num \in Nat /\ \A s \in versions : s.file \in Files
        /\ entry[r.file].id # 0
    BY <1>0 DEF TypeOK, Row, EntryOK, VersionsOf
  <2>4. single'[p].id \in 1 .. nextID' - 1
    BY <1>0, <2>2, <2>3 DEF EntryOK, Row0
  <2>5. \A f \in Files : entry[f].id = entry[r.file].id => f = r.file
    BY <1>0, <2>3 DEF EntryOK
  <2>6. \A s \in Named(p)' : s = r
    BY <2>2, <2>3, <2>5 DEF Named, OfIDs, NumsUnique
  <2>7. \A f \in Files : entry'[f].id = single'[p].id =>
           \E s \in versions' : s.file = f /\ single'[p].num <= s.num
    BY <2>2, <2>3, <2>5
  <2>. QED BY <2>2, <2>4, <2>6, <2>7
<1>3. CASE ~\E r \in versions : FindVersion(p, r)
  <2>0. p \notin raced
    BY <1>0, <1>1, RacedStays
  <2>1. /\ single[p].at # "off" /\ single'[p].id = single[p].id
        /\ single'[p].num = single[p].num /\ single'[p].blob = single[p].blob
    BY <1>0, <1>1, <1>3, SingleCases
    DEF DeleteVersionBlob, RemoveVersion, Die, PurgesOK, NoSingle
  <2>2. single[p].id \in 1 .. nextID - 1 /\ single[p].num \in Nat /\ nextID \in Nat
    BY <1>0, <2>0, <2>1 DEF ExactInv, PurgesOK, EntryOK
  <2>3. single'[p].id \in 1 .. nextID' - 1
    <3>1. CASE Files = {}
      <4>1. nextID <= nextID' /\ nextID' \in Nat
        BY <1>0, <2>2, <3>1, RowsStep
        DEF Judge, Work, table, Record, RetainRemove, PurgeRemove, RemoveVersion
      <4>. QED BY <2>1, <2>2, <4>1
    <3>2. CASE Files # {}
      <4>1. nextID <= nextID' /\ nextID' \in Nat
        BY <3>2, IdOrigin
      <4>. QED BY <2>1, <2>2, <4>1
    <3>. QED BY <3>1, <3>2
  <2>4. \A r \in Named(p)' : r.blob = single'[p].blob
    BY <2>0, <2>1, NamedOrigin DEF Named, OfIDs
  <2>5. ASSUME NEW f \in Files, entry'[f].id = single'[p].id
        PROVE  \E r \in versions' : r.file = f /\ single'[p].num <= r.num
    <3>1. entry'[f].id # 0 /\ entry'[f].id # nextID
      BY <2>1, <2>2, <2>5
    <3>2. entry[f].id = single[p].id
      BY <2>1, <2>5, <3>1, IdOrigin
    <3>3. PICK r \in versions : r.file = f /\ single[p].num <= r.num
      BY <2>0, <2>1, <3>2 DEF ExactInv
    <3>. QED BY <1>1, <2>1, <3>1, <3>2, <3>3, NumberStays
  <2>. QED BY <2>3, <2>4, <2>5
<1>. QED BY <1>2, <1>3

LEMMA DoneInits == MaintInit => NumsUnique /\ DoneInv /\ ExactInv
<1>. SUFFICES ASSUME MaintInit PROVE NumsUnique /\ DoneInv /\ ExactInv
  OBVIOUS
<1>1. versions = {} /\ retain.at = "off" /\ prefix.listed = {}
      /\ \A p \in Purgers : single[p].at = "off"
  BY DEF MaintInit, Init, NoRetain, NoPrefix, NoSingle
<1>. QED BY <1>1 DEF NumsUnique, DoneInv, ExactInv

\* What both theorems rest on.
RemovalInv == MaintTypeOK /\ WalkInv /\ BlobInv /\ NumsUnique /\ DoneInv /\ ExactInv

LEMMA RemovalInvHolds == MaintSpec => []RemovalInv
<1>1. MaintInit => RemovalInv
  BY MaintInits, BlobInits, DoneInits DEF RemovalInv
<1>2. RemovalInv /\ [MaintNext]_mvars => RemovalInv'
  BY MaintTypeStep, WalkStep, BlobStep, MaintNumsStep, DoneStep, ExactStep DEF RemovalInv
<1>. QED BY <1>1, <1>2, PTL DEF MaintSpec

\* Any number of calls of PurgeFileVersion at once: each removes the row of the
\* version it has looked up, or nothing, whatever comes in between, unless another
\* call has meanwhile removed that version or a newer one of the file.
THEOREM VersionPurgeExactHolds == MaintSpec => VersionPurgeExact
<1>1. ASSUME RemovalInv, [MaintNext]_mvars, NEW p \in Purgers \ raced,
             single[p].at = "deleted", single'[p].at = "off",
             NEW r \in versions \ versions'
      PROVE  r.blob = single[p].blob
  <2>1. PurgesOK
    BY <1>1 DEF RemovalInv, MaintTypeOK, PurgesOK
  <2>2. RemoveVersion(p)
    BY <1>1, <2>1, SingleCases DEF FindVersion, DeleteVersionBlob, Die
  <2>3. r \in Named(p)
    BY <1>1, <2>2 DEF RemoveVersion
  <2>. QED BY <1>1, <2>3 DEF RemovalInv, ExactInv
<1>2. RemovalInv /\ [MaintNext]_mvars =>
         [\A p \in Purgers \ raced :
             single[p].at = "deleted" /\ single'[p].at = "off" =>
                 \A r \in versions \ versions' : r.blob = single[p].blob]_mvars
  BY <1>1
<1>. QED BY <1>2, RemovalInvHolds, PTL DEF MaintSpec, VersionPurgeExact

\* No blob stays on the server because its row went first, whoever purges at
\* once, but in the two cases that BlobFirst names.
THEOREM BlobFirstHolds == MaintSpec => BlobFirst
<1>1. ASSUME RemovalInv, [MaintNext]_mvars, NEW r \in versions,
             \A s \in versions' : s.blob # r.blob
      PROVE  \/ stored[r.blob] = "deleted"
             \/ \E w \in Workers : held'[w] = r.blob
             \/ r.blob \in prefix.failed \cup retain.failed
             \/ r.blob \notin prefix.listed /\ prefix' # prefix
             \/ \E p \in raced : r \in Named(p) /\ single'[p] # single[p]
  <2>0. MaintTypeOK /\ BlobInv /\ DoneInv /\ ExactInv /\ TypeOK
    BY <1>1 DEF RemovalInv, MaintTypeOK
  <2>1. versions' # versions
    BY <1>1
  <2>2. ~\E w \in Workers : RefreshMtime(w)
    BY <1>1, RefreshShape DEF Same
  <2>3. ASSUME NEW w \in Workers, Record(w) PROVE held'[w] = r.blob
    <3>1. PICK row, ev : RecordEffect(w, row, ev)
      BY <2>0, <2>3, RecordShape
    <3>2. r \in ev
      BY <1>1, <3>1 DEF RecordEffect
    <3>. QED BY <2>0, <3>1, <3>2 DEF RecordEffect, TypeOK
  <2>4. ASSUME RetainRemove PROVE stored[r.blob] = "deleted" \/ r.blob \in retain.failed
    <3>1. retain.at = "deleting" /\ retain.blobs = {} /\ r \in OfIDs(retain.ids)
      BY <1>1, <2>1, <2>4 DEF RetainRemove
    <3>. QED BY <2>0, <3>1 DEF DoneInv, OfIDs
  <2>5. ASSUME PurgeRemove
        PROVE  \/ stored[r.blob] = "deleted" \/ r.blob \in prefix.failed
               \/ r.blob \notin prefix.listed /\ prefix' # prefix
    <3>1. prefix.at = "deleting" /\ prefix.blobs = {} /\ prefix' = NoPrefix
      BY <2>5 DEF PurgeRemove
    <3>2. prefix' # prefix
      BY <3>1 DEF NoPrefix
    <3>. QED BY <2>0, <3>1, <3>2 DEF DoneInv
  <2>6. ASSUME NEW p \in Purgers, RemoveVersion(p)
        PROVE  \/ stored[r.blob] = "deleted"
               \/ \E q \in raced : r \in Named(q) /\ single'[q] # single[q]
    <3>1. single[p].at = "deleted" /\ r \in Named(p)
      BY <1>1, <2>1, <2>6 DEF RemoveVersion
    <3>2. single'[p] # single[p]
      BY <2>0, <2>6, <3>1 DEF RemoveVersion, MaintTypeOK, NoSingle
    <3>3. CASE p \in raced
      BY <3>1, <3>2, <3>3
    <3>4. CASE p \notin raced
      BY <2>0, <3>1, <3>4 DEF DoneInv, ExactInv
    <3>. QED BY <3>3, <3>4
  <2>. QED BY <1>1, <2>1, <2>2, <2>3, <2>4, <2>5, <2>6, RowsStep DEF Judge
<1>2. RemovalInv /\ [MaintNext]_mvars =>
         [\A r \in versions :
             (\A s \in versions' : s.blob # r.blob) =>
                 \/ stored[r.blob] = "deleted"
                 \/ \E w \in Workers : held'[w] = r.blob
                 \/ r.blob \in prefix.failed \cup retain.failed
                 \/ r.blob \notin prefix.listed /\ prefix' # prefix
                 \/ \E p \in raced : r \in Named(p) /\ single'[p] # single[p]]_mvars
  BY <1>1
<1>. QED BY <1>2, RemovalInvHolds, PTL DEF MaintSpec, BlobFirst

-----------------------------------------------------------------------------
(* What the removals leave of the store, whatever fails and whoever purges   *)
(* at once.                                                                  *)

LEMMA MaintCapStep ==
    ASSUME MaintTypeOK, VersionCap, [MaintNext]_mvars
    PROVE  VersionCap'
<1>0. TypeOK
  BY DEF MaintTypeOK
<1>1. ASSUME versions' \subseteq versions PROVE VersionCap'
  <2>1. ASSUME NEW f \in Files
        PROVE  Cardinality(VersionsOf(versions', f)) <= MaxVersions
    <3>1. IsFiniteSet(VersionsOf(versions, f)) /\ IsFiniteSet(versions')
      BY <1>0, <1>1, VersionsOfFinite, FS_Subset DEF TypeOK
    <3>2. VersionsOf(versions', f) \subseteq VersionsOf(versions, f)
      BY <1>1 DEF VersionsOf
    <3>3. Cardinality(VersionsOf(versions', f)) <= Cardinality(VersionsOf(versions, f))
      BY <3>1, <3>2, FS_Subset
    <3>4. Cardinality(VersionsOf(versions, f)) <= MaxVersions
      BY DEF VersionCap
    <3>5. /\ Cardinality(VersionsOf(versions', f)) \in Nat
          /\ Cardinality(VersionsOf(versions, f)) \in Nat
      BY <1>0, <3>1, VersionsOfFinite DEF TypeOK
    <3>. QED BY <3>3, <3>4, <3>5, MaxVersionsAssumption
  <2>. QED BY <2>1 DEF VersionCap
<1>2. ASSUME NEW w \in Workers, RefreshMtime(w) \/ Record(w) PROVE VersionCap'
  <2>1. Next
    BY <1>2 DEF Next, Progress, Record
  <2>. QED BY <1>0, <2>1, CapStep
<1>3. ASSUME NEW f \in Files, Judge(f) PROVE VersionCap'
  BY <1>1, <1>3 DEF Judge
<1>. QED BY <1>1, <1>2, <1>3, RowsStep DEF RetainRemove, PurgeRemove, RemoveVersion

StoreShape == MaintTypeOK /\ WalkInv /\ BlobInv /\ NumsUnique /\ VersionCap

LEMMA StoreShapeHolds == MaintSpec => []StoreShape
<1>1. MaintInit => VersionCap
  <2>. SUFFICES ASSUME MaintInit, NEW f \in Files
                PROVE  Cardinality(VersionsOf(versions, f)) <= MaxVersions
    BY DEF VersionCap
  <2>1. VersionsOf(versions, f) = {}
    BY DEF MaintInit, Init, VersionsOf
  <2>. QED BY <2>1, FS_EmptySet, MaxVersionsAssumption
<1>2. StoreShape /\ [MaintNext]_mvars => StoreShape'
  BY MaintTypeStep, WalkStep, BlobStep, MaintNumsStep, MaintCapStep DEF StoreShape
<1>. QED BY <1>1, <1>2, MaintInits, BlobInits, DoneInits, PTL DEF MaintSpec, StoreShape

\* What BackupStore promises of the table and of the workers' blobs stays true
\* with the purges and the retention pass beside it, however they overlap and
\* fail: no file exceeds its versions, no number or blob serves two versions,
\* and no worker uploads into or deletes a blob that a version refers to.  Of
\* its invariants only NoDangling is gone (see DanglingExplainedHolds).
THEOREM StoreKept ==
    MaintSpec => [](VersionCap /\ NumsUnique /\ OneBlobPerVersion /\ HeldIsPrivate)
<1>1. StoreShape => VersionCap /\ NumsUnique /\ OneBlobPerVersion /\ HeldIsPrivate
  BY DEF StoreShape, BlobInv
<1>. QED BY <1>1, StoreShapeHolds, PTL

\* A removal that has listed the version r and is deleting blobs.
Deleting(r) ==
    \/ retain.at = "deleting" /\ entry[r.file].id \in retain.ids
    \/ prefix.at = "deleting" /\ r.file \in prefix.scope /\ r.blob \in prefix.listed
    \/ \E p \in Purgers : single[p].at = "found" /\ r \in Named(p)

\* A recorded version loses its blob only to a removal that asked for it: to a
\* purge of its file or of the version itself, or to the retention pass of its
\* file.  No fault, eviction, crash or overlap of removals takes another one's.
THEOREM LosesOnlyWhenNamed ==
    MaintSpec => [][\A r \in versions :
        stored[r.blob] = "complete" /\ stored'[r.blob] # "complete" => Deleting(r)]_mvars
<1>1. ASSUME MaintTypeOK, BlobInv, NameInv, [MaintNext]_mvars, NEW r \in versions,
             stored[r.blob] = "complete", stored'[r.blob] # "complete"
      PROVE  Deleting(r)
  <2>1. r.blob \in Blobs /\ Arrived(r.blob)
    BY <1>1 DEF MaintTypeOK, TypeOK, Row, Arrived
  <2>2. DeletedBy(r.blob)
    BY <1>1, <2>1, BlobFate
  <2>3. ~\E w \in Workers : pc[w] = "evicting" /\ held[w] = r.blob
    BY <1>1 DEF BlobInv, HeldIsPrivate, Holding
  <2>4. ASSUME RetainDelete(r.blob) PROVE Deleting(r)
    BY <1>1, <2>4 DEF RetainDelete, NameInv, Deleting
  <2>5. ASSUME PurgeBlob(r.blob) PROVE Deleting(r)
    <3>1. prefix.at = "deleting" /\ r.blob \in prefix.listed
      BY <1>1, <2>5 DEF PurgeBlob, BlobInv
    <3>. QED BY <1>1, <3>1 DEF NameInv, Deleting
  <2>6. ASSUME NEW p \in Purgers, DeleteVersionBlob(p), single[p].blob = r.blob
        PROVE  Deleting(r)
    <3>1. single[p].at = "found"
      BY <2>6 DEF DeleteVersionBlob
    <3>2. r \in Named(p)
      BY <1>1, <2>6, <3>1 DEF NameInv
    <3>. QED BY <3>1, <3>2 DEF Deleting
  <2>. QED BY <2>2, <2>3, <2>4, <2>5, <2>6 DEF DeletedBy
<1>2. MaintTypeOK /\ BlobInv /\ NameInv /\ [MaintNext]_mvars =>
         [\A r \in versions :
             stored[r.blob] = "complete" /\ stored'[r.blob] # "complete" => Deleting(r)]_mvars
  BY <1>1
<1>3. MaintTypeOK /\ WalkInv /\ BlobInv /\ NameInv /\ [MaintNext]_mvars
         => (MaintTypeOK /\ WalkInv /\ BlobInv /\ NameInv)'
  BY MaintTypeStep, WalkStep, BlobStep, NameStep
<1>. QED BY <1>2, <1>3, MaintInits, BlobInits, PTL DEF MaintSpec

\* A removal that removes the row of the version r, with or without its blob.
Removing(r) ==
    \/ retain.at = "deleting" /\ retain.blobs = {} /\ entry[r.file].id \in retain.ids
    \/ prefix.at = "deleting" /\ prefix.blobs = {} /\ r.file \in prefix.scope
    \/ \E p \in Purgers : single[p].at = "deleted" /\ r \in Named(p)

\* A number goes from the table only because its file is full and it is the
\* oldest one there, in the step that records a newer version of the file, or
\* because a removal names its file or the number itself, and then only after
\* that removal has been through all the blobs it has listed.
THEOREM GoesOnlyWhenNamed ==
    MaintSpec => [][\A r \in versions :
        ~(\E s \in versions' : s.file = r.file /\ s.num = r.num) =>
            Removing(r) \/ OldestStep]_mvars
<1>1. ASSUME StoreShape, [MaintNext]_mvars, NEW r \in versions,
             ~(\E s \in versions' : s.file = r.file /\ s.num = r.num), ~Removing(r)
      PROVE  OldestStep
  <2>0. TypeOK /\ VersionCap /\ r \notin versions'
    BY <1>1 DEF StoreShape, MaintTypeOK
  <2>1. ASSUME NEW w \in Workers, RefreshMtime(w) \/ Record(w) PROVE OldestStep
    <3>1. Next
      BY <2>1 DEF Next, Progress, Record
    <3>. QED BY <2>0, <3>1, OldestGoes
  <2>2. ~RetainRemove
    BY <1>1, <2>0 DEF RetainRemove, OfIDs, Removing
  <2>3. ~PurgeRemove
    BY <1>1, <2>0 DEF PurgeRemove, InScope, Removing
  <2>4. ASSUME NEW p \in Purgers, RemoveVersion(p) PROVE FALSE
    <3>1. single[p].at = "deleted" /\ r \in Named(p)
      BY <2>0, <2>4 DEF RemoveVersion
    <3>. QED BY <1>1, <3>1 DEF Removing
  <2>5. ~UNCHANGED <<versions, entry, nextID>> /\ ~\E f \in Files : Judge(f)
    <3>1. versions' # versions
      BY <2>0
    <3>2. \A f \in Files : Judge(f) => versions' = versions
      BY DEF Judge
    <3>. QED BY <3>1, <3>2, Zenon
  <2>6. \/ UNCHANGED <<versions, entry, nextID>>
        \/ \E f \in Files : Judge(f)
        \/ \E w \in Workers : RefreshMtime(w) /\ Work(w)
        \/ \E w \in Workers : Record(w)
        \/ RetainRemove
        \/ PurgeRemove
        \/ \E p \in Purgers : RemoveVersion(p)
    BY <1>1, RowsStep
  <2>. QED BY <2>1, <2>2, <2>3, <2>4, <2>5, <2>6, Zenon
<1>2. StoreShape /\ [MaintNext]_mvars =>
         [\A r \in versions :
             ~(\E s \in versions' : s.file = r.file /\ s.num = r.num) =>
                 Removing(r) \/ OldestStep]_mvars
  BY <1>1
<1>. QED BY <1>2, StoreShapeHolds, PTL DEF MaintSpec
=============================================================================
