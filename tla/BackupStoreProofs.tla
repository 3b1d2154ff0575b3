--------------------------- MODULE BackupStoreProofs ---------------------------
(***************************************************************************)
(* Proofs about BackupStore, for every set of files, workers and blobs and *)
(* every bound: the type invariant; that every recorded version has its    *)
(* complete blob on the server (StoreInv) and, without faults, no blob is  *)
(* forgotten; that under a strict clock versions are numbered in the order *)
(* of their age and the table implements VersionHistory; and that, with no *)
(* two workers at one file (~Overlap), neighbouring versions differ and,   *)
(* where contents do not come back (~Reverts), the stat pre-check never    *)
(* skips a changed file.                                                   *)
(***************************************************************************)
EXTENDS BackupStore, FiniteSetTheorems, TLAPS

-----------------------------------------------------------------------------
(* What the table's operators return *)

LEMMA NextNumsType ==
    ASSUME NEW rows \in SUBSET Row, NEW f
    PROVE  NextNums(rows, f) \subseteq Nat
BY DEF NextNums, NumsOf, VersionsOf, Row

LEMMA UpsertedShape ==
    ASSUME NEW rows, NEW row, NEW out \in Upserted(rows, row)
    PROVE  /\ out.rows = (rows \ out.evicted) \cup {row}
           /\ \/ out.evicted = {}
              \/ \E old \in rows : out.evicted = {old}
<1>1. CASE Cardinality(VersionsOf(rows, row.file)) < MaxVersions
  BY <1>1 DEF Upserted, HasRoom
<1>2. CASE ~(Cardinality(VersionsOf(rows, row.file)) < MaxVersions)
  <2>1. PICK old \in Oldest(rows, row.file) :
           out = [rows |-> (rows \ {old}) \cup {row}, evicted |-> {old}]
    BY <1>2 DEF Upserted, HasRoom
  <2>2. old \in rows
    BY DEF Oldest, VersionsOf
  <2>. QED BY <2>1, <2>2
<1>. QED BY <1>1, <1>2

LEMMA MtimeRefreshedShape ==
    ASSUME NEW rows, NEW f, NEW m, NEW new \in MtimeRefreshed(rows, f, m)
    PROVE  \/ new = rows
           \/ \E r \in rows : new = (rows \ {r}) \cup {[r EXCEPT !.mtime = m]}
BY DEF MtimeRefreshed, Newest, VersionsOf

-----------------------------------------------------------------------------
(* Type correctness *)

LEMMA FinishType ==
    ASSUME TypeOK, NEW w \in Workers, Finish(w)
    PROVE  /\ pc' \in [Workers -> Steps]
           /\ task' \in [Workers -> Task]
           /\ \A v \in Workers : pc'[v] # Idle => task'[v].file \in Files
           /\ \A v \in Workers :
                 pc'[v] \in {"same", "changed"} \cup Holding => task'[v].hash \in Contents
           /\ held' \in [Workers -> Blobs \cup {NoBlob}]
           /\ \A v \in Workers : pc'[v] \in Holding => held'[v] \in Blobs
BY DEF TypeOK, Finish, NoTask, Task, Steps, Idle, Holding

LEMMA NewRowType ==
    ASSUME TypeOK, NEW w \in Workers, pc[w] = "uploaded",
           NEW n \in Nat, NEW t \in Nat
    PROVE  NewRow(w, n, t) \in Row
BY DEF TypeOK, NewRow, Row, Task, Holding, Idle

LEMMA FinishedType ==
    ASSUME TypeOK, NEW w \in Workers, Finish(w), UNCHANGED <<source, clock>>,
           versions' \in SUBSET Row, IsFiniteSet(versions'),
           stored' \in [Blobs -> {"none", "partial", "complete", "deleted"}],
           UNCHANGED payload, faults' = faults \/ Fault
    PROVE  TypeOK'
BY FinishType DEF TypeOK, Fault

LEMMA TypeInit == Init => TypeOK
<1>. SUFFICES ASSUME Init PROVE TypeOK
  OBVIOUS
<1>1. IsFiniteSet(versions)
  BY FS_EmptySet DEF Init
<1>. QED
  BY <1>1, BackupStoreAssumption
  DEF Init, TypeOK, Contents, Steps, Idle, Holding, Task, NoTask

LEMMA TypeStep == TypeOK /\ [Next]_vars => TypeOK'
<1>. SUFFICES ASSUME TypeOK, [Next]_vars PROVE TypeOK'
  OBVIOUS
<1>1. ASSUME NEW f \in Files, Edit(f) PROVE TypeOK'
  <2>1. PICK c \in NewContents(f) :
           source' = [source EXCEPT ![f] = [content |-> c, mtime |-> @.mtime + 1]]
    BY <1>1 DEF Edit
  <2>2. /\ source[f] \in [content : Contents, mtime : Nat]
        /\ source[f].mtime < MaxEdits
    BY <1>1 DEF Edit, TypeOK
  <2>3. c \in Contents
    BY <2>2, BackupStoreAssumption DEF NewContents, Contents
  <2>4. source' \in [Files -> [content : Contents, mtime : Nat]]
    BY <2>1, <2>2, <2>3 DEF TypeOK
  <2>. QED BY <1>1, <2>4 DEF Edit, TypeOK, remote, locals
<1>2. ASSUME NEW w \in Workers, NEW f \in Files, TakeFile(w, f) PROVE TypeOK'
  <2>1. /\ source[f].mtime \in Nat
        /\ SizeOf(source[f].content) \in Nat
    BY BackupStoreAssumption DEF TypeOK, Contents
  <2>2. task'[w] \in Task /\ task'[w].file \in Files
    BY <1>2, <2>1 DEF TakeFile, TypeOK, Task, NoTask
  <2>3. /\ task' \in [Workers -> Task]
        /\ \A v \in Workers : v # w => task'[v] = task[v] /\ pc'[v] = pc[v]
        /\ pc'[w] = "looking" /\ pc' \in [Workers -> Steps]
    BY <1>2, <2>2 DEF TakeFile, TypeOK, Steps
  <2>. QED BY <1>2, <2>2, <2>3 DEF TakeFile, TypeOK, Idle, Holding, remote
<1>3. ASSUME NEW w \in Workers, FastSkip(w) PROVE TypeOK'
  BY <1>3, FinishedType DEF FastSkip, TypeOK, remote
<1>4. ASSUME NEW w \in Workers, Lookup(w) PROVE TypeOK'
  <2>. DEFINE newest == Newest(versions, task[w].file)
              known == IF newest = {} THEN {NoHash}
                       ELSE {r.hash : r \in {s \in newest : ~SameStat(task[w], s)}}
  <2>a. newest \subseteq Row
    BY DEF TypeOK, Newest, VersionsOf
  <2>b. known \subseteq Contents \cup {NoHash}
    <3>. HIDE DEF newest
    <3>. QED BY <2>a DEF Row
  <2>1. PICK h \in known : task' = [task EXCEPT ![w].known = h]
    BY <1>4 DEF Lookup
  <2>2. /\ task' \in [Workers -> Task]
        /\ \A v \in Workers :
              task'[v].file = task[v].file /\ task'[v].hash = task[v].hash
    <3>. HIDE DEF known
    <3>. QED BY <2>1, <2>b, SMTT(60) DEF TypeOK, Task
  <2>. QED BY <1>4, <2>2 DEF Lookup, TypeOK, Steps, Idle, Holding, remote
<1>5. ASSUME NEW w \in Workers, HashFile(w) PROVE TypeOK'
  <2>. DEFINE h == source[task[w].file].content
  <2>1. h \in Contents
    BY <1>5 DEF HashFile, TypeOK, Idle
  <2>2. task' = [task EXCEPT ![w].hash = h]
    BY <1>5 DEF HashFile
  <2>3. /\ task' \in [Workers -> Task]
        /\ \A v \in Workers : task'[v].file = task[v].file
        /\ task'[w].hash \in Contents
        /\ \A v \in Workers : v # w => task'[v].hash = task[v].hash
    <3>. HIDE DEF h
    <3>. QED BY <2>1, <2>2 DEF TypeOK, Task
  <2>. QED BY <1>5, <2>3 DEF HashFile, TypeOK, Steps, Idle, Holding, remote
<1>6. ASSUME NEW w \in Workers, RefreshMtime(w) PROVE TypeOK'
  <2>1. versions' \in SUBSET Row /\ IsFiniteSet(versions')
    <3>1. CASE versions' = versions
      BY <3>1 DEF TypeOK
    <3>2. CASE versions' # versions
      <4>1. versions' \in MtimeRefreshed(versions, task[w].file, task[w].mtime)
        BY <1>6, <3>2 DEF RefreshMtime
      <4>2. PICK r \in versions :
               versions' = (versions \ {r}) \cup {[r EXCEPT !.mtime = task[w].mtime]}
        BY <4>1, <3>2, MtimeRefreshedShape
      <4>3. [r EXCEPT !.mtime = task[w].mtime] \in Row
        BY DEF TypeOK, Row, Task
      <4>. QED BY <4>2, <4>3, FS_AddElement, FS_RemoveElement DEF TypeOK
    <3>. QED BY <3>1, <3>2
  <2>. QED BY <1>6, <2>1, FinishedType DEF RefreshMtime, TypeOK, remote
<1>7. ASSUME NEW w \in Workers, StartUpload(w) PROVE TypeOK'
  <2>1. PICK b \in Blobs : /\ stored' = [stored EXCEPT ![b] = "partial"]
                           /\ held' = [held EXCEPT ![w] = b]
    BY <1>7 DEF StartUpload, FreshBlobs
  <2>. DEFINE c == source[task[w].file].content
  <2>2. c \in Contents /\ task' = [task EXCEPT ![w].read = c]
    BY <1>7 DEF StartUpload, FreshBlobs, TypeOK, Idle
  <2>3. /\ task' \in [Workers -> Task]
        /\ \A v \in Workers :
              task'[v].file = task[v].file /\ task'[v].hash = task[v].hash
    <3>. HIDE DEF c
    <3>. QED BY <2>2, SMTT(60) DEF TypeOK, Task
  <2>4. task[w].hash \in Contents
    BY <1>7 DEF StartUpload, FreshBlobs, TypeOK
  <2>. QED
    BY <1>7, <2>1, <2>3, <2>4 DEF StartUpload, FreshBlobs, TypeOK, Steps, Idle, Holding
<1>8. ASSUME NEW w \in Workers, UploadDone(w) PROVE TypeOK'
  <2>1. PICK c \in Streamed(w) : payload' = [payload EXCEPT ![held[w]] = c]
    BY <1>8 DEF UploadDone
  <2>2. c \in Contents \cup {NoHash, Torn}
    BY <1>8 DEF UploadDone, Streamed, TypeOK, Task, Idle
  <2>. QED BY <1>8, <2>1, <2>2 DEF UploadDone, TypeOK, Steps, Idle, Holding
<1>9. ASSUME NEW w \in Workers, UploadFails(w) PROVE TypeOK'
  <2>1. stored' \in [Blobs -> {"none", "partial", "complete", "deleted"}]
    BY <1>9 DEF UploadFails, TypeOK
  <2>. QED BY <1>9, <2>1, FinishedType DEF UploadFails, TypeOK
<1>10. ASSUME NEW w \in Workers, Upsert(w) PROVE TypeOK'
  <2>0. PICK n \in NextNums(versions, task[w].file), t \in Stamps(task[w].file) :
           \E out \in Upserted(versions, NewRow(w, n, t)) : Committed(w, t, out)
    BY <1>10 DEF Upsert
  <2>1. PICK out \in Upserted(versions, NewRow(w, n, t)) : Committed(w, t, out)
    BY <2>0
  <2>2. n \in Nat /\ t \in Nat
    BY NextNumsType DEF TypeOK, Stamps
  <2>3. NewRow(w, n, t) \in Row
    BY <1>10, <2>2, NewRowType DEF Upsert
  <2>4. /\ versions' = (versions \ out.evicted) \cup {NewRow(w, n, t)}
        /\ out.evicted = {} \/ \E old \in versions : out.evicted = {old}
    BY <2>1, UpsertedShape DEF Committed
  <2>5. versions' \in SUBSET Row /\ IsFiniteSet(versions')
    <3>1. IsFiniteSet(versions \ out.evicted)
      BY <2>4, FS_Difference DEF TypeOK
    <3>2. IsFiniteSet(versions')
      BY <2>4, <3>1, FS_AddElement
    <3>. QED BY <2>3, <2>4, <3>2 DEF TypeOK
  <2>6. CASE out.evicted = {}
    BY <1>10, <2>1, <2>2, <2>5, <2>6, FinishType DEF Upsert, Committed, TypeOK, remote
  <2>7. CASE out.evicted # {}
    <3>1. PICK old \in out.evicted : /\ held' = [held EXCEPT ![w] = old.blob]
                                     /\ pc' = [pc EXCEPT ![w] = "evicting"]
                                     /\ UNCHANGED task
      BY <2>1, <2>7 DEF Committed
    <3>2. old.blob \in Blobs
      BY <2>4, <2>7 DEF TypeOK, Row
    <3>. QED
      BY <1>10, <2>1, <2>2, <2>5, <3>1, <3>2
      DEF Upsert, Committed, TypeOK, Steps, Idle, Holding, remote
  <2>. QED BY <2>6, <2>7
<1>11. ASSUME NEW w \in Workers, UpsertFails(w) PROVE TypeOK'
  BY <1>11, FinishedType DEF UpsertFails, TypeOK, remote
<1>12. ASSUME NEW w \in Workers, DeleteEvicted(w) PROVE TypeOK'
  BY <1>12, FinishedType DEF DeleteEvicted, TypeOK
<1>13. ASSUME NEW w \in Workers, ReadFails(w) PROVE TypeOK'
  BY <1>13, FinishedType DEF ReadFails, TypeOK, remote
<1>14. CASE Crash
  BY <1>14 DEF Crash, TypeOK, Fault, Steps, Idle, Holding, Task, NoTask, remote
<1>15. CASE UNCHANGED vars
  BY <1>15 DEF vars, TypeOK
<1>. QED
  BY <1>1, <1>2, <1>3, <1>4, <1>5, <1>6, <1>7, <1>8, <1>9, <1>10, <1>11,
     <1>12, <1>13, <1>14, <1>15 DEF Next, Progress, Fails

\* The table, the server and the workers' locals keep their types through every
\* interleaving of files, failures and crashes.
THEOREM TypeCorrect == Spec => []TypeOK
BY TypeInit, TypeStep, PTL DEF Spec

-----------------------------------------------------------------------------
(* Every recorded version has its blob.  NoDangling is not inductive alone: *)
(* an eviction deletes a blob, and only HeldIsPrivate says that no version  *)
(* refers to it; that in turn needs OneBlobPerVersion, and a fresh upload   *)
(* needs HeldState to know that nobody holds the uuid it draws.             *)

\* A worker that lets go of its blob, having changed at most that blob.
LEMMA ReleaseKeepsStoreInv ==
    ASSUME TypeOK, StoreInv, NEW w \in Workers, Finish(w),
           versions' = versions,
           \A b \in Blobs :
              stored'[b] # stored[b] => pc[w] \in Holding /\ b = held[w]
    PROVE  StoreInv'
<1>1. /\ pc'[w] = Idle
      /\ \A v \in Workers : v # w => pc'[v] = pc[v] /\ held'[v] = held[v]
  BY DEF TypeOK, Finish
<1>2. \A r \in versions : r.blob \in Blobs /\ stored'[r.blob] = stored[r.blob]
  BY DEF TypeOK, StoreInv, HeldIsPrivate, Row
<1>3. \A v \in Workers : v # w /\ pc[v] \in Holding =>
         held[v] \in Blobs /\ stored'[held[v]] = stored[held[v]]
  BY DEF TypeOK, StoreInv, HeldIsPrivate
<1>4. NoDangling'
  BY <1>2 DEF StoreInv, NoDangling
<1>5. OneBlobPerVersion'
  BY DEF StoreInv, OneBlobPerVersion
<1>6. HeldIsPrivate'
  BY <1>1 DEF StoreInv, HeldIsPrivate, Holding, Idle
<1>7. HeldState'
  BY <1>1, <1>3 DEF StoreInv, HeldState, Holding, Idle
<1>. QED BY <1>4, <1>5, <1>6, <1>7 DEF StoreInv

\* A worker that moves before it has a blob.
LEMMA MoveKeepsStoreInv ==
    ASSUME TypeOK, StoreInv, NEW w \in Workers, NEW step \in Steps \ Holding,
           pc' = [pc EXCEPT ![w] = step], UNCHANGED <<versions, stored, held>>
    PROVE  StoreInv'
BY DEF TypeOK, StoreInv, NoDangling, OneBlobPerVersion, HeldIsPrivate,
       HeldState, Holding

LEMMA StoreInit == Init => StoreInv
BY DEF Init, StoreInv, NoDangling, OneBlobPerVersion, HeldIsPrivate, HeldState,
       Holding, Idle

LEMMA StoreStep == TypeOK /\ StoreInv /\ [Next]_vars => StoreInv'
<1>. SUFFICES ASSUME TypeOK, StoreInv, [Next]_vars PROVE StoreInv'
  OBVIOUS
<1>1. ASSUME NEW f \in Files, Edit(f) PROVE StoreInv'
  BY <1>1 DEF Edit, StoreInv, NoDangling, OneBlobPerVersion, HeldIsPrivate,
              HeldState, remote, locals
<1>2. ASSUME NEW w \in Workers, NEW f \in Files, TakeFile(w, f) PROVE StoreInv'
  BY <1>2, MoveKeepsStoreInv DEF TakeFile, remote, Steps, Holding
<1>3. ASSUME NEW w \in Workers, FastSkip(w) PROVE StoreInv'
  BY <1>3, ReleaseKeepsStoreInv DEF FastSkip, remote
<1>4. ASSUME NEW w \in Workers, Lookup(w) PROVE StoreInv'
  BY <1>4, MoveKeepsStoreInv DEF Lookup, remote, Steps, Holding
<1>5. ASSUME NEW w \in Workers, HashFile(w) PROVE StoreInv'
  <2>1. PICK step \in {"same", "changed"} : pc' = [pc EXCEPT ![w] = step]
    BY <1>5 DEF HashFile
  <2>. QED BY <1>5, <2>1, MoveKeepsStoreInv DEF HashFile, remote, Steps, Holding
<1>6. ASSUME NEW w \in Workers, RefreshMtime(w) PROVE StoreInv'
  <2>1. CASE versions' = versions
    BY <1>6, <2>1, ReleaseKeepsStoreInv DEF RefreshMtime, remote
  <2>2. CASE versions' # versions
    <3>1. PICK r \in versions :
             versions' = (versions \ {r}) \cup {[r EXCEPT !.mtime = task[w].mtime]}
      BY <1>6, <2>2, MtimeRefreshedShape DEF RefreshMtime
    <3>. DEFINE new == [r EXCEPT !.mtime = task[w].mtime]
    <3>2. new.blob = r.blob /\ versions' = (versions \ {r}) \cup {new}
      BY <3>1 DEF TypeOK, Row
    <3>. HIDE DEF new
    <3>3. UNCHANGED stored
      BY <1>6 DEF RefreshMtime, remote
    <3>4. /\ pc'[w] = Idle
          /\ \A v \in Workers : v # w => pc'[v] = pc[v] /\ held'[v] = held[v]
      BY <1>6 DEF RefreshMtime, TypeOK, Finish
    <3>5. NoDangling' /\ OneBlobPerVersion'
      BY <3>2, <3>3 DEF StoreInv, NoDangling, OneBlobPerVersion
    <3>6. HeldIsPrivate'
      BY <3>2, <3>4 DEF StoreInv, HeldIsPrivate, Holding, Idle
    <3>7. HeldState'
      BY <3>3, <3>4 DEF StoreInv, HeldState, Idle
    <3>. QED BY <3>5, <3>6, <3>7 DEF StoreInv
  <2>. QED BY <2>1, <2>2
<1>7. ASSUME NEW w \in Workers, StartUpload(w) PROVE StoreInv'
  <2>1. PICK b \in Blobs : /\ stored[b] = "none"
                           /\ stored' = [stored EXCEPT ![b] = "partial"]
                           /\ held' = [held EXCEPT ![w] = b]
    BY <1>7 DEF StartUpload, FreshBlobs
  <2>2. pc' = [pc EXCEPT ![w] = "uploading"] /\ UNCHANGED versions
    BY <1>7 DEF StartUpload, FreshBlobs
  <2>3. \A r \in versions : r.blob \in Blobs /\ r.blob # b
    BY <2>1 DEF TypeOK, Row, StoreInv, NoDangling
  <2>4. \A v \in Workers : pc[v] \in Holding => held[v] # b
    BY <2>1 DEF StoreInv, HeldState, Holding
  <2>5. NoDangling' /\ OneBlobPerVersion'
    BY <2>1, <2>2, <2>3 DEF TypeOK, StoreInv, NoDangling, OneBlobPerVersion
  <2>6. HeldIsPrivate'
    BY <2>1, <2>2, <2>3, <2>4 DEF TypeOK, StoreInv, HeldIsPrivate, Holding
  <2>7. HeldState'
    BY <2>1, <2>2, <2>4 DEF TypeOK, StoreInv, HeldState, Holding
  <2>. QED BY <2>5, <2>6, <2>7 DEF StoreInv
<1>8. ASSUME NEW w \in Workers, UploadDone(w) PROVE StoreInv'
  <2>1. /\ pc[w] = "uploading" /\ pc' = [pc EXCEPT ![w] = "uploaded"]
        /\ stored' = [stored EXCEPT ![held[w]] = "complete"]
        /\ UNCHANGED <<versions, held>>
    BY <1>8 DEF UploadDone
  <2>2. \A v \in Workers : v # w /\ pc[v] \in Holding => held[v] # held[w]
    BY <2>1 DEF StoreInv, HeldIsPrivate, Holding
  <2>3. NoDangling' /\ OneBlobPerVersion'
    BY <2>1 DEF TypeOK, Row, StoreInv, NoDangling, OneBlobPerVersion
  <2>4. HeldIsPrivate'
    BY <2>1 DEF TypeOK, StoreInv, HeldIsPrivate, Holding
  <2>5. HeldState'
    BY <2>1, <2>2 DEF TypeOK, StoreInv, HeldState, Holding
  <2>. QED BY <2>3, <2>4, <2>5 DEF StoreInv
<1>9. ASSUME NEW w \in Workers, UploadFails(w) PROVE StoreInv'
  BY <1>9, ReleaseKeepsStoreInv DEF UploadFails, TypeOK, Holding
<1>10. ASSUME NEW w \in Workers, Upsert(w) PROVE StoreInv'
  <2>0. PICK n \in NextNums(versions, task[w].file), t \in Stamps(task[w].file) :
           \E out \in Upserted(versions, NewRow(w, n, t)) : Committed(w, t, out)
    BY <1>10 DEF Upsert
  <2>1. PICK out \in Upserted(versions, NewRow(w, n, t)) : Committed(w, t, out)
    BY <2>0
  <2>. DEFINE row == NewRow(w, n, t)
  <2>2. /\ versions' = (versions \ out.evicted) \cup {row}
        /\ out.evicted = {} \/ \E old \in versions : out.evicted = {old}
    BY <2>1, UpsertedShape DEF Committed
  <2>3. row.blob = held[w]
    BY DEF NewRow
  <2>. HIDE DEF row
  <2>4. /\ pc[w] = "uploaded" /\ UNCHANGED stored
        /\ stored[held[w]] = "complete"
        /\ \A r \in versions : r.blob # held[w]
        /\ \A v \in Workers : v # w /\ pc[v] \in Holding => held[v] # held[w]
    BY <1>10 DEF Upsert, remote, StoreInv, HeldState, HeldIsPrivate, Holding
  <2>5. NoDangling' /\ OneBlobPerVersion'
    BY <2>2, <2>3, <2>4 DEF StoreInv, NoDangling, OneBlobPerVersion
  <2>6. CASE out.evicted = {}
    <3>1. /\ pc'[w] = Idle
          /\ \A v \in Workers : v # w => pc'[v] = pc[v] /\ held'[v] = held[v]
      BY <2>1, <2>6 DEF Committed, Finish, TypeOK
    <3>2. HeldIsPrivate' /\ HeldState'
      BY <2>2, <2>3, <2>4, <2>6, <3>1
      DEF StoreInv, HeldIsPrivate, HeldState, Holding, Idle
    <3>. QED BY <2>5, <3>2 DEF StoreInv
  <2>7. CASE out.evicted # {}
    <3>1. PICK old \in versions : /\ out.evicted = {old}
                                  /\ held' = [held EXCEPT ![w] = old.blob]
                                  /\ pc' = [pc EXCEPT ![w] = "evicting"]
      BY <2>1, <2>2, <2>7 DEF Committed
    <3>2. /\ stored[old.blob] = "complete"
          /\ \A r \in versions' : r.blob # old.blob
          /\ \A v \in Workers : pc[v] \in Holding => held[v] # old.blob
      BY <2>2, <2>3, <2>4, <3>1
      DEF StoreInv, NoDangling, OneBlobPerVersion, HeldIsPrivate
    <3>3. HeldIsPrivate'
      BY <2>2, <2>3, <2>4, <3>1, <3>2 DEF TypeOK, StoreInv, HeldIsPrivate, Holding
    <3>4. HeldState'
      BY <2>4, <3>1, <3>2 DEF TypeOK, StoreInv, HeldState
    <3>. QED BY <2>5, <3>3, <3>4 DEF StoreInv
  <2>. QED BY <2>6, <2>7
<1>11. ASSUME NEW w \in Workers, UpsertFails(w) PROVE StoreInv'
  BY <1>11, ReleaseKeepsStoreInv DEF UpsertFails, remote
<1>12. ASSUME NEW w \in Workers, DeleteEvicted(w) PROVE StoreInv'
  BY <1>12, ReleaseKeepsStoreInv DEF DeleteEvicted, TypeOK, Holding
<1>13. ASSUME NEW w \in Workers, ReadFails(w) PROVE StoreInv'
  BY <1>13, ReleaseKeepsStoreInv DEF ReadFails, remote
<1>14. CASE Crash
  BY <1>14 DEF Crash, remote, StoreInv, NoDangling, OneBlobPerVersion,
               HeldIsPrivate, HeldState, Holding, Idle
<1>15. CASE UNCHANGED vars
  BY <1>15 DEF vars, StoreInv, NoDangling, OneBlobPerVersion, HeldIsPrivate, HeldState
<1>. QED
  BY <1>1, <1>2, <1>3, <1>4, <1>5, <1>6, <1>7, <1>8, <1>9, <1>10, <1>11,
     <1>12, <1>13, <1>14, <1>15 DEF Next, Progress, Fails

\* Every version the database records is complete on the server, no two share
\* a blob, and no worker writes or deletes a recorded one: processFile uploads
\* before it records and deletes only what it has unrecorded.
THEOREM StoreSafe == Spec => []StoreInv
<1>1. Init => TypeOK /\ StoreInv
  BY TypeInit, StoreInit
<1>2. TypeOK /\ StoreInv /\ [Next]_vars => (TypeOK /\ StoreInv)'
  BY TypeStep, StoreStep
<1>. QED BY <1>1, <1>2, PTL DEF Spec

-----------------------------------------------------------------------------
(* The table: at most MaxVersions versions of a file, their numbers         *)
(* distinct, and only the oldest one ever leaves.                           *)

LEMMA SwapCardinality ==
    ASSUME NEW S, IsFiniteSet(S), NEW x \in S, NEW y
    PROVE  Cardinality((S \ {x}) \cup {y}) <= Cardinality(S)
<1>1. /\ IsFiniteSet(S \ {x})
      /\ Cardinality(S \ {x}) = Cardinality(S) - 1
  BY FS_RemoveElement
<1>2. /\ Cardinality(S) \in Nat
      /\ Cardinality(S \ {x}) \in Nat
      /\ \/ Cardinality((S \ {x}) \cup {y}) = Cardinality(S \ {x})
         \/ Cardinality((S \ {x}) \cup {y}) = Cardinality(S \ {x}) + 1
  BY <1>1, FS_CardinalityType, FS_AddElement
<1>. QED BY <1>1, <1>2

LEMMA VersionsOfFinite ==
    ASSUME NEW rows, IsFiniteSet(rows), NEW f
    PROVE  /\ IsFiniteSet(VersionsOf(rows, f))
           /\ Cardinality(VersionsOf(rows, f)) \in Nat
BY FS_Subset, FS_CardinalityType DEF VersionsOf

\* Replacing a row of a file by another one of the file, at most as many.
LEMMA ReplaceCap ==
    ASSUME NEW rows, IsFiniteSet(rows), NEW old \in rows, NEW row,
           row.file = old.file, NEW f
    PROVE  Cardinality(VersionsOf((rows \ {old}) \cup {row}, f))
              <= Cardinality(VersionsOf(rows, f))
<1>1. CASE old.file = f
  <2>1. VersionsOf((rows \ {old}) \cup {row}, f)
           = (VersionsOf(rows, f) \ {old}) \cup {row}
    BY <1>1 DEF VersionsOf
  <2>2. old \in VersionsOf(rows, f)
    BY <1>1 DEF VersionsOf
  <2>. QED BY <2>1, <2>2, VersionsOfFinite, SwapCardinality
<1>2. CASE old.file # f
  <2>1. VersionsOf((rows \ {old}) \cup {row}, f) = VersionsOf(rows, f)
    BY <1>2 DEF VersionsOf
  <2>. QED BY <2>1, VersionsOfFinite
<1>. QED BY <1>1, <1>2

\* UpsertFileVersion never takes a file over the cap.
LEMMA UpsertedCap ==
    ASSUME NEW rows, IsFiniteSet(rows), NEW row, NEW f,
           Cardinality(VersionsOf(rows, f)) <= MaxVersions,
           NEW out \in Upserted(rows, row)
    PROVE  Cardinality(VersionsOf(out.rows, f)) <= MaxVersions
<1>0. /\ IsFiniteSet(VersionsOf(rows, f))
      /\ Cardinality(VersionsOf(rows, f)) \in Nat
      /\ MaxVersions \in Nat
  BY VersionsOfFinite, MaxVersionsAssumption
<1>1. CASE Cardinality(VersionsOf(rows, row.file)) < MaxVersions
  <2>1. out.rows = rows \cup {row}
    BY <1>1 DEF Upserted, HasRoom
  <2>2. CASE row.file = f
    <3>1. VersionsOf(out.rows, f) = VersionsOf(rows, f) \cup {row}
      BY <2>1, <2>2 DEF VersionsOf
    <3>2. \/ Cardinality(VersionsOf(out.rows, f)) = Cardinality(VersionsOf(rows, f))
          \/ Cardinality(VersionsOf(out.rows, f))
                = Cardinality(VersionsOf(rows, f)) + 1
      BY <1>0, <3>1, FS_AddElement
    <3>. QED BY <1>0, <1>1, <2>2, <3>2
  <2>3. CASE row.file # f
    <3>1. VersionsOf(out.rows, f) = VersionsOf(rows, f)
      BY <2>1, <2>3 DEF VersionsOf
    <3>. QED BY <3>1
  <2>. QED BY <2>2, <2>3
<1>2. CASE ~(Cardinality(VersionsOf(rows, row.file)) < MaxVersions)
  <2>1. PICK old \in Oldest(rows, row.file) : out.rows = (rows \ {old}) \cup {row}
    BY <1>2 DEF Upserted, HasRoom
  <2>2. old \in rows /\ row.file = old.file
    BY DEF Oldest, VersionsOf
  <2>3. /\ Cardinality(VersionsOf(out.rows, f)) <= Cardinality(VersionsOf(rows, f))
        /\ IsFiniteSet(rows \ {old})
    BY <2>1, <2>2, ReplaceCap, FS_Difference
  <2>4. IsFiniteSet(out.rows)
    BY <2>1, <2>3, FS_AddElement
  <2>5. Cardinality(VersionsOf(out.rows, f)) \in Nat
    BY <2>4, VersionsOfFinite
  <2>. QED BY <1>0, <2>3, <2>5
<1>. QED BY <1>1, <1>2

\* The new number is above every number the file has.
LEMMA NextNumAbove ==
    ASSUME NEW rows \in SUBSET Row, NEW f, NEW n \in NextNums(rows, f)
    PROVE  \A r \in VersionsOf(rows, f) : r.num < n
<1>1. PICK m \in NumsOf(rows, f) \cup {0} :
         n = m + 1 /\ \A j \in NumsOf(rows, f) : j <= m
  BY DEF NextNums
<1>2. NumsOf(rows, f) \subseteq Nat
  BY DEF NumsOf, VersionsOf, Row
<1>. QED BY <1>1, <1>2 DEF NumsOf

\* The three ways a step may treat the table.
LEMMA TableStep ==
    ASSUME [Next]_vars
    PROVE  \/ versions' = versions
           \/ \E w \in Workers :
                 versions' \in MtimeRefreshed(versions, task[w].file, task[w].mtime)
           \/ \E w \in Workers :
              \E n \in NextNums(versions, task[w].file), t \in Stamps(task[w].file) :
              \E out \in Upserted(versions, NewRow(w, n, t)) :
                 /\ pc[w] = "uploaded"
                 /\ versions' = out.rows
<1>1. ASSUME NEW f \in Files, Edit(f) PROVE versions' = versions
  BY <1>1 DEF Edit
<1>2. ASSUME NEW w \in Workers, NEW f \in Files, TakeFile(w, f)
      PROVE  versions' = versions
  BY <1>2 DEF TakeFile
<1>3. ASSUME NEW w \in Workers, RefreshMtime(w)
      PROVE  \/ versions' = versions
             \/ versions' \in MtimeRefreshed(versions, task[w].file, task[w].mtime)
  BY <1>3 DEF RefreshMtime
<1>4. ASSUME NEW w \in Workers, Upsert(w)
      PROVE  \E n \in NextNums(versions, task[w].file), t \in Stamps(task[w].file) :
             \E out \in Upserted(versions, NewRow(w, n, t)) :
                pc[w] = "uploaded" /\ versions' = out.rows
  BY <1>4 DEF Upsert, Committed
<1>5. ASSUME NEW w \in Workers,
             \/ FastSkip(w) \/ Lookup(w) \/ HashFile(w) \/ StartUpload(w)
             \/ UploadDone(w) \/ DeleteEvicted(w) \/ Fails(w)
      PROVE  versions' = versions
  BY <1>5 DEF FastSkip, Lookup, HashFile, StartUpload, UploadDone, DeleteEvicted,
              Fails, UploadFails, UpsertFails, ReadFails
<1>6. CASE Crash
  BY <1>6 DEF Crash
<1>7. CASE UNCHANGED vars
  BY <1>7 DEF vars
<1>. QED BY <1>1, <1>2, <1>3, <1>4, <1>5, <1>6, <1>7 DEF Next, Progress

LEMMA CapStep == TypeOK /\ VersionCap /\ [Next]_vars => VersionCap'
<1>. SUFFICES ASSUME TypeOK, VersionCap, [Next]_vars, NEW f \in Files
              PROVE  Cardinality(VersionsOf(versions', f)) <= MaxVersions
  BY DEF VersionCap
<1>0. /\ IsFiniteSet(versions)
      /\ Cardinality(VersionsOf(versions, f)) <= MaxVersions
  BY DEF TypeOK, VersionCap
<1>1. CASE versions' = versions
  BY <1>0, <1>1
<1>2. ASSUME NEW w \in Workers,
             versions' \in MtimeRefreshed(versions, task[w].file, task[w].mtime),
             versions' # versions
      PROVE  Cardinality(VersionsOf(versions', f)) <= MaxVersions
  <2>1. PICK r \in versions :
           versions' = (versions \ {r}) \cup {[r EXCEPT !.mtime = task[w].mtime]}
    BY <1>2, MtimeRefreshedShape
  <2>. DEFINE new == [r EXCEPT !.mtime = task[w].mtime]
  <2>2. new.file = r.file /\ versions' = (versions \ {r}) \cup {new}
    BY <2>1 DEF TypeOK, Row
  <2>. HIDE DEF new
  <2>3. Cardinality(VersionsOf(versions', f)) <= Cardinality(VersionsOf(versions, f))
    BY <1>0, <2>2, ReplaceCap
  <2>4. IsFiniteSet(versions')
    BY <1>0, <2>2, FS_Difference, FS_AddElement
  <2>. QED BY <1>0, <2>3, <2>4, VersionsOfFinite, MaxVersionsAssumption
<1>3. ASSUME NEW w \in Workers,
             NEW n \in NextNums(versions, task[w].file), NEW t \in Stamps(task[w].file),
             NEW out \in Upserted(versions, NewRow(w, n, t)), versions' = out.rows
      PROVE  Cardinality(VersionsOf(versions', f)) <= MaxVersions
  BY <1>0, <1>3, UpsertedCap
<1>. QED BY <1>1, <1>2, <1>3, TableStep

\* No file has more than MaxVersions versions, however many workers insert.
THEOREM CapHolds == Spec => []VersionCap
<1>1. Init => VersionCap
  <2>. SUFFICES ASSUME Init, NEW f \in Files
                PROVE  Cardinality(VersionsOf(versions, f)) <= MaxVersions
    BY DEF VersionCap
  <2>1. VersionsOf(versions, f) = {}
    BY DEF Init, VersionsOf
  <2>. QED BY <2>1, FS_EmptySet, MaxVersionsAssumption
<1>. QED BY <1>1, CapStep, TypeCorrect, PTL DEF Spec

LEMMA NumsStep == TypeOK /\ NumsUnique /\ [Next]_vars => NumsUnique'
<1>. SUFFICES ASSUME TypeOK, NumsUnique, [Next]_vars PROVE NumsUnique'
  OBVIOUS
<1>1. CASE versions' = versions
  BY <1>1 DEF NumsUnique
<1>2. ASSUME NEW w \in Workers,
             versions' \in MtimeRefreshed(versions, task[w].file, task[w].mtime),
             versions' # versions
      PROVE  NumsUnique'
  <2>1. PICK r \in versions :
           versions' = (versions \ {r}) \cup {[r EXCEPT !.mtime = task[w].mtime]}
    BY <1>2, MtimeRefreshedShape
  <2>. DEFINE new == [r EXCEPT !.mtime = task[w].mtime]
  <2>2. /\ new.file = r.file /\ new.num = r.num
        /\ versions' = (versions \ {r}) \cup {new}
    BY <2>1 DEF TypeOK, Row
  <2>. HIDE DEF new
  <2>. QED BY <2>2 DEF NumsUnique
<1>3. ASSUME NEW w \in Workers,
             NEW n \in NextNums(versions, task[w].file), NEW t \in Stamps(task[w].file),
             NEW out \in Upserted(versions, NewRow(w, n, t)), versions' = out.rows
      PROVE  NumsUnique'
  <2>. DEFINE row == NewRow(w, n, t)
  <2>1. row.file = task[w].file /\ row.num = n
    BY DEF NewRow
  <2>2. versions' = (versions \ out.evicted) \cup {row}
    BY <1>3, UpsertedShape
  <2>3. \A r \in versions : r.file = task[w].file => r.num \in Nat /\ r.num < n
    BY NextNumAbove DEF VersionsOf, TypeOK, Row
  <2>. HIDE DEF row
  <2>4. \A r \in versions : r.file = row.file => r.num # row.num
    BY <2>1, <2>3, NextNumsType DEF TypeOK
  <2>. QED BY <2>2, <2>4 DEF NumsUnique
<1>. QED BY <1>1, <1>2, <1>3, TableStep

\* Two versions of a file never have the same number, also after evictions and
\* with several workers inserting versions of the file.
THEOREM NumsHold == Spec => []NumsUnique
<1>1. Init => NumsUnique
  BY DEF Init, NumsUnique
<1>. QED BY <1>1, NumsStep, TypeCorrect, PTL DEF Spec

LEMMA OldestGoes == TypeOK /\ VersionCap /\ [Next]_vars => OldestStep
<1>. SUFFICES ASSUME TypeOK, VersionCap, [Next]_vars, NEW r \in versions,
                     ~(\E s \in versions' : s.file = r.file /\ s.num = r.num)
              PROVE  LET mine == VersionsOf(versions, r.file) IN
                     /\ Cardinality(mine) = MaxVersions
                     /\ \A s \in mine : r.at <= s.at
                     /\ \E new \in versions' :
                           new.file = r.file /\ \A s \in mine : s.num < new.num
  BY DEF OldestStep
<1>1. versions' # versions
  OBVIOUS
<1>2. ASSUME NEW w \in Workers,
             versions' \in MtimeRefreshed(versions, task[w].file, task[w].mtime)
      PROVE  FALSE
  <2>1. PICK x \in versions :
           versions' = (versions \ {x}) \cup {[x EXCEPT !.mtime = task[w].mtime]}
    BY <1>1, <1>2, MtimeRefreshedShape
  <2>. DEFINE new == [x EXCEPT !.mtime = task[w].mtime]
  <2>2. /\ new.file = x.file /\ new.num = x.num
        /\ versions' = (versions \ {x}) \cup {new}
    BY <2>1 DEF TypeOK, Row
  <2>. HIDE DEF new
  <2>. QED BY <2>2
<1>3. PICK w \in Workers : \E n \in NextNums(versions, task[w].file), t \in Nat :
         \E out \in Upserted(versions, NewRow(w, n, t)) : versions' = out.rows
  <2>1. \A f : Stamps(f) \subseteq Nat
    BY DEF Stamps, TypeOK
  <2>. QED BY <1>1, <1>2, <2>1, TableStep
<1>3a. PICK n \in NextNums(versions, task[w].file), t \in Nat :
         \E out \in Upserted(versions, NewRow(w, n, t)) : versions' = out.rows
  BY <1>3
<1>4. PICK out \in Upserted(versions, NewRow(w, n, t)) : versions' = out.rows
  BY <1>3a
<1>. DEFINE row == NewRow(w, n, t)
<1>5. row.file = task[w].file /\ row.num = n /\ row \in versions'
  BY <1>4, UpsertedShape DEF NewRow
<1>6. r \in out.evicted
  BY <1>4, UpsertedShape
<1>. HIDE DEF row
<1>7. ~(Cardinality(VersionsOf(versions, row.file)) < MaxVersions)
  BY <1>6 DEF Upserted, HasRoom, row
<1>8. r \in Oldest(versions, row.file)
  BY <1>6, <1>7 DEF Upserted, HasRoom, row
<1>9. /\ r.file = row.file
      /\ \A s \in VersionsOf(versions, r.file) : r.at <= s.at
  BY <1>8 DEF Oldest, VersionsOf
<1>10. Cardinality(VersionsOf(versions, r.file)) = MaxVersions
  <2>1. /\ Cardinality(VersionsOf(versions, r.file)) <= MaxVersions
        /\ Cardinality(VersionsOf(versions, r.file)) \in Nat
    BY VersionsOfFinite DEF VersionCap, TypeOK, Row
  <2>. QED BY <1>7, <1>9, <2>1, MaxVersionsAssumption
<1>11. \A s \in VersionsOf(versions, r.file) : s.num < row.num
  BY <1>5, <1>9, NextNumAbove DEF TypeOK
<1>. QED BY <1>5, <1>9, <1>10, <1>11

\* A version leaves the table only when its file is full, it is an oldest one
\* by encrypted_at, and a version with a higher number than all takes its place.
THEOREM OldestGoesHolds == Spec => OnlyOldestGoes
BY OldestGoes, TypeCorrect, CapHolds, PTL DEF Spec, OnlyOldestGoes

-----------------------------------------------------------------------------
(* Nothing is left behind on the server while nothing fails.                *)

\* What keeps a blob from being an orphan.
Accounted(b) ==
    \/ \E r \in versions : r.blob = b
    \/ \E w \in Workers : pc[w] \in Holding /\ held[w] = b

\* A worker without a blob of its own moves or ends; the rows keep their blobs.
LEMMA QuietKeepsNoOrphans ==
    ASSUME NoOrphans, NEW w \in Workers, pc[w] \notin Holding,
           faults' = 0 => faults = 0, UNCHANGED stored,
           \A r \in versions : \E s \in versions' : s.blob = r.blob,
           \A v \in Workers : v # w => pc'[v] = pc[v] /\ held'[v] = held[v]
    PROVE  NoOrphans'
<1>. SUFFICES ASSUME faults' = 0, NEW b \in Blobs, stored'[b] \in {"partial", "complete"}
              PROVE  Accounted(b)'
  BY DEF NoOrphans, Accounted
<1>1. Accounted(b)
  BY DEF NoOrphans, Accounted
<1>. QED BY <1>1 DEF Accounted

LEMMA OthersAfterFinish ==
    ASSUME TypeOK, NEW w \in Workers, Finish(w)
    PROVE  \A v \in Workers : v # w => pc'[v] = pc[v] /\ held'[v] = held[v]
BY DEF Finish, TypeOK

LEMMA NoOrphansInit == Init => NoOrphans
BY DEF Init, NoOrphans

LEMMA NoOrphansStep == TypeOK /\ NoOrphans /\ [Next]_vars => NoOrphans'
<1>. SUFFICES ASSUME TypeOK, NoOrphans, [Next]_vars PROVE NoOrphans'
  OBVIOUS
<1>0. ASSUME Fault PROVE NoOrphans'
  BY <1>0 DEF Fault, TypeOK, NoOrphans
<1>1. ASSUME NEW f \in Files, Edit(f) PROVE NoOrphans'
  BY <1>1 DEF Edit, NoOrphans, remote, locals
<1>2. ASSUME NEW w \in Workers, NEW f \in Files, TakeFile(w, f) PROVE NoOrphans'
  <2>1. \A v \in Workers : v # w => pc'[v] = pc[v] /\ held'[v] = held[v]
    BY <1>2 DEF TakeFile, TypeOK
  <2>2. pc[w] \notin Holding /\ UNCHANGED <<stored, versions, faults>>
    BY <1>2 DEF TakeFile, remote, Idle, Holding
  <2>. QED BY <2>1, <2>2, QuietKeepsNoOrphans
<1>3. ASSUME NEW w \in Workers, FastSkip(w) PROVE NoOrphans'
  <2>1. pc[w] \notin Holding /\ UNCHANGED <<stored, versions, faults>> /\ Finish(w)
    BY <1>3 DEF FastSkip, remote, Holding
  <2>. QED BY <2>1, OthersAfterFinish, QuietKeepsNoOrphans
<1>4. ASSUME NEW w \in Workers, Lookup(w) \/ HashFile(w) PROVE NoOrphans'
  <2>1. \A v \in Workers : v # w => pc'[v] = pc[v] /\ held'[v] = held[v]
    BY <1>4 DEF Lookup, HashFile, TypeOK
  <2>2. pc[w] \notin Holding /\ UNCHANGED <<stored, versions, faults>>
    BY <1>4 DEF Lookup, HashFile, remote, Holding
  <2>. QED BY <2>1, <2>2, QuietKeepsNoOrphans
<1>5. ASSUME NEW w \in Workers, RefreshMtime(w) PROVE NoOrphans'
  <2>1. pc[w] \notin Holding /\ UNCHANGED stored /\ Finish(w)
    BY <1>5 DEF RefreshMtime, remote, Holding
  <2>2. faults' = 0 => faults = 0
    BY <1>5 DEF RefreshMtime, Fault, TypeOK
  <2>3. \A r \in versions : \E s \in versions' : s.blob = r.blob
    <3>1. CASE versions' = versions
      BY <3>1
    <3>2. CASE versions' # versions
      <4>1. PICK x \in versions :
               versions' = (versions \ {x}) \cup {[x EXCEPT !.mtime = task[w].mtime]}
        BY <1>5, <3>2, MtimeRefreshedShape DEF RefreshMtime
      <4>. DEFINE new == [x EXCEPT !.mtime = task[w].mtime]
      <4>2. new.blob = x.blob /\ versions' = (versions \ {x}) \cup {new}
        BY <4>1 DEF TypeOK, Row
      <4>. HIDE DEF new
      <4>. QED BY <4>2
    <3>. QED BY <3>1, <3>2
  <2>. QED BY <2>1, <2>2, <2>3, OthersAfterFinish, QuietKeepsNoOrphans
<1>6. ASSUME NEW w \in Workers, StartUpload(w), faults' = 0, NEW b \in Blobs,
             stored'[b] \in {"partial", "complete"}
      PROVE  Accounted(b)'
  <2>1. PICK c \in Blobs : /\ stored' = [stored EXCEPT ![c] = "partial"]
                           /\ held' = [held EXCEPT ![w] = c]
    BY <1>6 DEF StartUpload, FreshBlobs
  <2>2. /\ pc[w] = "changed" /\ pc' = [pc EXCEPT ![w] = "uploading"]
        /\ UNCHANGED <<versions, faults>>
    BY <1>6 DEF StartUpload
  <2>3. pc'[w] \in Holding /\ held'[w] = c
    BY <2>1, <2>2 DEF TypeOK, Holding
  <2>4. CASE b = c
    BY <2>3, <2>4 DEF Accounted
  <2>5. CASE b # c
    <3>1. Accounted(b)
      BY <1>6, <2>1, <2>2, <2>5 DEF TypeOK, NoOrphans, Accounted
    <3>2. \A v \in Workers : pc[v] \in Holding => pc'[v] = pc[v] /\ held'[v] = held[v]
      BY <2>1, <2>2 DEF TypeOK, Holding
    <3>. QED BY <2>2, <3>1, <3>2 DEF Accounted
  <2>. QED BY <2>4, <2>5
<1>7. ASSUME NEW w \in Workers, UploadDone(w), faults' = 0, NEW b \in Blobs,
             stored'[b] \in {"partial", "complete"}
      PROVE  Accounted(b)'
  <2>1. /\ pc[w] = "uploading" /\ pc' = [pc EXCEPT ![w] = "uploaded"]
        /\ stored' = [stored EXCEPT ![held[w]] = "complete"]
        /\ UNCHANGED <<versions, held, faults>>
    BY <1>7 DEF UploadDone
  <2>2. \A v \in Workers : pc[v] \in Holding => pc'[v] \in Holding
    BY <2>1 DEF TypeOK, Holding
  <2>3. CASE b = held[w]
    BY <2>1, <2>2, <2>3 DEF Accounted, Holding
  <2>4. CASE b # held[w]
    <3>1. Accounted(b)
      BY <1>7, <2>1, <2>4 DEF TypeOK, NoOrphans, Accounted
    <3>. QED BY <2>1, <2>2, <3>1 DEF Accounted
  <2>. QED BY <2>3, <2>4
<1>8. ASSUME NEW w \in Workers, Upsert(w), faults' = 0, NEW b \in Blobs,
             stored'[b] \in {"partial", "complete"}
      PROVE  Accounted(b)'
  <2>0. PICK n \in NextNums(versions, task[w].file), t \in Stamps(task[w].file) :
           \E out \in Upserted(versions, NewRow(w, n, t)) : Committed(w, t, out)
    BY <1>8 DEF Upsert
  <2>1. PICK out \in Upserted(versions, NewRow(w, n, t)) : Committed(w, t, out)
    BY <2>0
  <2>. DEFINE row == NewRow(w, n, t)
  <2>2. /\ versions' = (versions \ out.evicted) \cup {row}
        /\ out.evicted = {} \/ \E old \in versions : out.evicted = {old}
    BY <2>1, UpsertedShape DEF Committed
  <2>3. row.blob = held[w]
    BY DEF NewRow
  <2>. HIDE DEF row
  <2>4. pc[w] = "uploaded" /\ UNCHANGED <<stored, faults>>
    BY <1>8 DEF Upsert, remote
  <2>5. Accounted(b)
    BY <1>8, <2>4 DEF NoOrphans, Accounted
  <2>6. CASE b = held[w]
    BY <2>2, <2>3, <2>6 DEF Accounted
  <2>7. CASE b # held[w] /\ \E v \in Workers : pc[v] \in Holding /\ held[v] = b
    <3>1. PICK v \in Workers : pc[v] \in Holding /\ held[v] = b /\ v # w
      BY <2>7
    <3>2. pc'[v] = pc[v] /\ held'[v] = held[v]
      BY <2>1, <3>1 DEF Committed, Finish, TypeOK
    <3>. QED BY <3>1, <3>2 DEF Accounted
  <2>8. CASE \E r \in versions : r.blob = b
    <3>1. PICK r \in versions : r.blob = b
      BY <2>8
    <3>2. CASE r \notin out.evicted
      BY <2>2, <3>1, <3>2 DEF Accounted
    <3>3. CASE r \in out.evicted
      <4>1. PICK old \in out.evicted : /\ held' = [held EXCEPT ![w] = old.blob]
                                       /\ pc' = [pc EXCEPT ![w] = "evicting"]
        BY <2>1, <3>3 DEF Committed
      <4>2. old = r
        BY <2>2, <3>3, <4>1
      <4>3. pc'[w] \in Holding /\ held'[w] = b
        BY <3>1, <4>1, <4>2 DEF TypeOK, Holding
      <4>. QED BY <4>3 DEF Accounted
    <3>. QED BY <3>2, <3>3
  <2>. QED BY <2>5, <2>6, <2>7, <2>8 DEF Accounted
<1>9. ASSUME NEW w \in Workers, DeleteEvicted(w), ~Fault, faults' = 0, NEW b \in Blobs,
             stored'[b] \in {"partial", "complete"}
      PROVE  Accounted(b)'
  <2>1. /\ pc[w] = "evicting" /\ Finish(w) /\ UNCHANGED <<versions, faults>>
        /\ stored' = [stored EXCEPT ![held[w]] = "deleted"]
    BY <1>9 DEF DeleteEvicted
  <2>2. b # held[w] /\ stored'[b] = stored[b]
    BY <1>9, <2>1 DEF TypeOK
  <2>3. Accounted(b)
    BY <1>9, <2>1, <2>2 DEF NoOrphans, Accounted
  <2>. QED BY <2>1, <2>2, <2>3, OthersAfterFinish DEF Accounted
<1>10. ASSUME NEW w \in Workers, Fails(w) PROVE Fault
  BY <1>10 DEF Fails, UploadFails, UpsertFails, ReadFails
<1>11. CASE Crash
  BY <1>0, <1>11 DEF Crash
<1>12. CASE UNCHANGED vars
  BY <1>12 DEF vars, NoOrphans
<1>13. ASSUME NEW w \in Workers,
              StartUpload(w) \/ UploadDone(w) \/ Upsert(w) \/ DeleteEvicted(w), ~Fault
       PROVE  NoOrphans'
  BY <1>6, <1>7, <1>8, <1>9, <1>13 DEF NoOrphans, Accounted
<1>. QED
  BY <1>0, <1>1, <1>2, <1>3, <1>4, <1>5, <1>10, <1>11, <1>12, <1>13 DEF Next, Progress

\* While nothing fails and nothing crashes, every blob on the server belongs to
\* a version or is in a worker's hands, for any number of workers on one file.
THEOREM NoOrphansHolds == Spec => []NoOrphans
BY NoOrphansInit, NoOrphansStep, TypeCorrect, PTL DEF Spec

-----------------------------------------------------------------------------
(* Numbers and stamps, when the clock moves between two versions of a file. *)

LEMMA NumberedStep ==
    ASSUME StrictClock
    PROVE  TypeOK /\ NumberedByAge /\ [Next]_vars => NumberedByAge'
<1>. SUFFICES ASSUME TypeOK, NumberedByAge, [Next]_vars PROVE NumberedByAge'
  OBVIOUS
<1>1. CASE versions' = versions
  BY <1>1 DEF NumberedByAge
<1>2. ASSUME NEW w \in Workers,
             versions' \in MtimeRefreshed(versions, task[w].file, task[w].mtime),
             versions' # versions
      PROVE  NumberedByAge'
  <2>1. PICK r \in versions :
           versions' = (versions \ {r}) \cup {[r EXCEPT !.mtime = task[w].mtime]}
    BY <1>2, MtimeRefreshedShape
  <2>. DEFINE new == [r EXCEPT !.mtime = task[w].mtime]
  <2>2. /\ new.file = r.file /\ new.num = r.num /\ new.at = r.at
        /\ versions' = (versions \ {r}) \cup {new}
    BY <2>1 DEF TypeOK, Row
  <2>. HIDE DEF new
  <2>. QED BY <2>2 DEF NumberedByAge
<1>3. ASSUME NEW w \in Workers,
             NEW n \in NextNums(versions, task[w].file), NEW t \in Stamps(task[w].file),
             NEW out \in Upserted(versions, NewRow(w, n, t)), versions' = out.rows
      PROVE  NumberedByAge'
  <2>. DEFINE row == NewRow(w, n, t)
  <2>1. row.file = task[w].file /\ row.num = n /\ row.at = t
    BY DEF NewRow
  <2>2. versions' = (versions \ out.evicted) \cup {row}
    BY <1>3, UpsertedShape
  <2>. HIDE DEF row
  <2>3. n \in Nat /\ t \in Nat
    BY NextNumsType DEF TypeOK, Stamps
  <2>4. \A r \in versions : r.file = row.file =>
           r.num \in Nat /\ r.at \in Nat /\ r.num < n /\ r.at < t
    BY <2>1, NextNumAbove DEF VersionsOf, TypeOK, Row, Stamps
  <2>5. ASSUME NEW r \in versions', NEW s \in versions', r.file = s.file
        PROVE  r.num < s.num <=> r.at < s.at
    BY <2>1, <2>2, <2>3, <2>4, <2>5 DEF NumberedByAge
  <2>. QED BY <2>5 DEF NumberedByAge
<1>. QED BY <1>1, <1>2, <1>3, TableStep

\* With a clock that moves between two versions of a file, the order of
\* encrypted_at, which the queries use, is the order of the version numbers,
\* also with several workers on one file and after any evictions.
THEOREM NumberedHolds ==
    ASSUME StrictClock
    PROVE  Spec => []NumberedByAge
<1>1. Init => NumberedByAge
  BY DEF Init, NumberedByAge
<1>2. TypeOK /\ NumberedByAge /\ [Next]_vars => NumberedByAge'
  BY NumberedStep
<1>. QED BY <1>1, <1>2, TypeCorrect, PTL DEF Spec

-----------------------------------------------------------------------------
(* BackupStore implements VersionHistory: since every recorded version has  *)
(* its blob, a file's history is what its rows show, and the only step that *)
(* changes it is the transaction of UpsertFileVersion.                      *)

Shown(rows, f) == {[num |-> r.num, hash |-> r.hash] : r \in VersionsOf(rows, f)}

LEMMA RestorableIsShown ==
    ASSUME NoDangling, NEW f
    PROVE  Restorable(f) = Shown(versions, f)
BY DEF NoDangling, Restorable, Shown, VersionsOf

LEMMA ShownMembers ==
    ASSUME NEW rows, NEW f
    PROVE  /\ \A r \in VersionsOf(rows, f) : [num |-> r.num, hash |-> r.hash] \in Shown(rows, f)
           /\ \A v \in Shown(rows, f) : \E r \in VersionsOf(rows, f) :
                 v = [num |-> r.num, hash |-> r.hash]
BY DEF Shown

LEMMA ShownNums ==
    ASSUME NEW rows, NEW f
    PROVE  {v.num : v \in Shown(rows, f)} = NumsOf(rows, f)
<1>1. \A v \in Shown(rows, f) : v.num \in NumsOf(rows, f)
  BY ShownMembers DEF NumsOf
<1>2. \A r \in VersionsOf(rows, f) : \E v \in Shown(rows, f) : r.num = v.num
  <2>1. ASSUME NEW r \in VersionsOf(rows, f)
        PROVE  \E v \in Shown(rows, f) : r.num = v.num
    <3>. DEFINE v == [num |-> r.num, hash |-> r.hash]
    <3>1. v \in Shown(rows, f) /\ v.num = r.num
      BY ShownMembers
    <3>. HIDE DEF v
    <3>. QED BY <3>1
  <2>. QED BY <2>1
<1>. QED BY <1>1, <1>2 DEF NumsOf

LEMMA ShownCardinality ==
    ASSUME TypeOK, NumsUnique, NEW f
    PROVE  Cardinality(Shown(versions, f)) = Cardinality(VersionsOf(versions, f))
<1>. DEFINE S == VersionsOf(versions, f)
            T == Shown(versions, f)
            show == [r \in S |-> [num |-> r.num, hash |-> r.hash]]
<1>1. IsFiniteSet(S)
  BY VersionsOfFinite DEF TypeOK
<1>2. show \in [S -> T] /\ \A v \in T : \E r \in S : show[r] = v
  BY DEF Shown
<1>3. \A r, s \in S : show[r] = show[s] => r = s
  <2>1. \A r \in S : show[r].num = r.num
    OBVIOUS
  <2>2. \A r, s \in S : r.num = s.num => r = s
    BY DEF NumsUnique, VersionsOf
  <2>. HIDE DEF show, S
  <2>. QED BY <2>1, <2>2
<1>4. show \in Bijection(S, T)
  BY <1>2, <1>3 DEF Bijection, Injection, Surjection, IsInjective
<1>. QED BY <1>1, <1>4, FS_Bijection DEF ExistsBijection

\* A refreshed mtime does not show.
LEMMA RefreshShowsNothing ==
    ASSUME TypeOK, NEW f, NEW w \in Workers,
           versions' \in MtimeRefreshed(versions, task[w].file, task[w].mtime)
    PROVE  Shown(versions', f) = Shown(versions, f)
<1>1. CASE versions' = versions
  BY <1>1
<1>2. CASE versions' # versions
  <2>1. PICK x \in versions :
           versions' = (versions \ {x}) \cup {[x EXCEPT !.mtime = task[w].mtime]}
    BY <1>2, MtimeRefreshedShape
  <2>. DEFINE new == [x EXCEPT !.mtime = task[w].mtime]
  <2>2. /\ new.file = x.file /\ new.num = x.num /\ new.hash = x.hash
        /\ versions' = (versions \ {x}) \cup {new}
    BY <2>1 DEF TypeOK, Row
  <2>. HIDE DEF new
  <2>3. ASSUME NEW v PROVE v \in Shown(versions', f) <=> v \in Shown(versions, f)
    BY <2>2 DEF Shown, VersionsOf
  <2>. QED BY <2>3
<1>. QED BY <1>1, <1>2

\* An oldest row is the one with the lowest number.
LEMMA WithoutOldest ==
    ASSUME TypeOK, NumsUnique, NumberedByAge, NEW f, NEW old \in Oldest(versions, f)
    PROVE  Shown(versions \ {old}, f)
              = {v \in Shown(versions, f) : \E u \in Shown(versions, f) : u.num < v.num}
<1>1. /\ old \in VersionsOf(versions, f)
      /\ \A s \in VersionsOf(versions, f) : old.at <= s.at
  BY DEF Oldest
<1>2. VersionsOf(versions, f) \subseteq versions
      /\ \A r \in VersionsOf(versions, f) : r.file = f /\ r.num \in Nat /\ r.at \in Nat
  BY DEF VersionsOf, TypeOK, Row
<1>3. \A r \in VersionsOf(versions, f) : r # old => old.num < r.num
  BY <1>1, <1>2 DEF NumsUnique, NumberedByAge
<1>4. \A r, s \in VersionsOf(versions, f) : s.num < r.num => r # old
  BY <1>1, <1>2 DEF NumberedByAge
<1>5. VersionsOf(versions \ {old}, f) = VersionsOf(versions, f) \ {old}
  BY DEF VersionsOf
<1>6. ASSUME NEW r \in VersionsOf(versions, f)
      PROVE  r # old <=> \E s \in VersionsOf(versions, f) : s.num < r.num
  BY <1>1, <1>3, <1>4
<1>7. \A v \in Shown(versions, f) :
         (\E u \in Shown(versions, f) : u.num < v.num)
            <=> \E s \in VersionsOf(versions, f) : s.num < v.num
  <2>1. ASSUME NEW s \in VersionsOf(versions, f)
        PROVE  \E u \in Shown(versions, f) : u.num = s.num
    <3>. DEFINE u == [num |-> s.num, hash |-> s.hash]
    <3>1. u \in Shown(versions, f) /\ u.num = s.num
      BY ShownMembers
    <3>. HIDE DEF u
    <3>. QED BY <3>1
  <2>2. \A u \in Shown(versions, f) : \E s \in VersionsOf(versions, f) : u.num = s.num
    BY ShownMembers
  <2>. QED BY <2>1, <2>2
<1>8. ASSUME NEW v
      PROVE  v \in Shown(versions \ {old}, f)
                <=> /\ v \in Shown(versions, f)
                    /\ \E s \in VersionsOf(versions, f) : s.num < v.num
  <2>1. CASE v \in Shown(versions \ {old}, f)
    <3>1. PICK r \in VersionsOf(versions, f) : r # old /\ v = [num |-> r.num, hash |-> r.hash]
      BY <1>5, <2>1 DEF Shown
    <3>. QED BY <1>6, <2>1, <3>1 DEF Shown
  <2>2. CASE v \in Shown(versions, f) /\ \E s \in VersionsOf(versions, f) : s.num < v.num
    <3>1. PICK r \in VersionsOf(versions, f) : v = [num |-> r.num, hash |-> r.hash]
      BY <2>2 DEF Shown
    <3>2. r # old
      BY <1>6, <2>2, <3>1
    <3>. QED BY <1>5, <2>2, <3>1, <3>2 DEF Shown
  <2>. QED BY <2>1, <2>2
<1>. QED BY <1>7, <1>8

LEMMA ShownWith ==
    ASSUME NEW rows, NEW row, NEW f
    PROVE  Shown(rows \cup {row}, f)
              = IF row.file = f
                THEN Shown(rows, f) \cup {[num |-> row.num, hash |-> row.hash]}
                ELSE Shown(rows, f)
BY DEF Shown, VersionsOf

\* The instance has its own copy of FiniteSets.
LEMMA SameCardinality == \A S : History!Cardinality(S) = Cardinality(S)
BY Zenon DEF History!Cardinality, Cardinality

\* What VersionHistory says of a file, in terms of the rows.
LEMMA HistoryTerms ==
    ASSUME NEW f \in Files, Restorable(f) = Shown(versions, f)
    PROVE  /\ NextNums(versions, f) = History!NextNum(f)
           /\ History!Kept(f) =
                 IF Cardinality(Shown(versions, f)) < MaxVersions
                 THEN Shown(versions, f)
                 ELSE {v \in Shown(versions, f) :
                          \E u \in Shown(versions, f) : u.num < v.num}
<1>1. [g \in Files |-> Restorable(g)][f] = Shown(versions, f)
  OBVIOUS
<1>2. \A k : (\A v \in Shown(versions, f) : v.num <= k)
                <=> \A j \in {v.num : v \in Shown(versions, f)} : j <= k
  OBVIOUS
<1>3. History!NextNum(f) =
         {m + 1 : m \in {k \in {v.num : v \in Shown(versions, f)} \cup {0} :
                            \A v \in Shown(versions, f) : v.num <= k}}
  BY <1>1 DEF History!NextNum
<1>4. NextNums(versions, f) =
         {m + 1 : m \in {k \in {v.num : v \in Shown(versions, f)} \cup {0} :
                            \A v \in Shown(versions, f) : v.num <= k}}
  BY <1>2, ShownNums DEF NextNums
<1>5. History!Kept(f) =
         IF Cardinality(Shown(versions, f)) < MaxVersions
         THEN Shown(versions, f)
         ELSE {v \in Shown(versions, f) : \E u \in Shown(versions, f) : u.num < v.num}
  BY <1>1, SameCardinality DEF History!Kept
<1>. QED BY <1>3, <1>4, <1>5

LEMMA HistoryStep ==
    ASSUME TypeOK, StoreInv, StoreInv', NumsUnique, NumberedByAge, [Next]_vars
    PROVE  [History!Next]_[f \in Files |-> Restorable(f)]
<1>. DEFINE history == [f \in Files |-> Restorable(f)]
            now == [f \in Files |-> Shown(versions, f)]
            next == [f \in Files |-> Shown(versions', f)]
<1>1. history = now /\ history' = next
  <2>1. \A f \in Files : Restorable(f) = Shown(versions, f)
    BY RestorableIsShown DEF StoreInv
  <2>2. \A f \in Files : Restorable(f)' = Shown(versions', f)
    <3>1. NoDangling'
      BY DEF StoreInv
    <3>. QED BY <3>1 DEF NoDangling, Restorable, Shown, VersionsOf
  <2>. QED BY <2>1, <2>2
<1>2. CASE versions' = versions
  BY <1>1, <1>2
<1>3. ASSUME NEW w \in Workers,
             versions' \in MtimeRefreshed(versions, task[w].file, task[w].mtime)
      PROVE  history' = history
  BY <1>1, <1>3, RefreshShowsNothing
<1>4. ASSUME NEW w \in Workers, pc[w] = "uploaded",
             NEW n \in NextNums(versions, task[w].file), NEW t \in Stamps(task[w].file),
             NEW out \in Upserted(versions, NewRow(w, n, t)), versions' = out.rows
      PROVE  History!Next
  <2>. DEFINE row == NewRow(w, n, t)
              f == task[w].file
              h == task[w].hash
              rest == versions \ out.evicted
  <2>1. row.file = f /\ row.num = n /\ row.hash = h
    BY DEF NewRow
  <2>2. f \in Files /\ h \in Contents
    BY <1>4 DEF TypeOK, Idle, Holding
  <2>3. versions' = rest \cup {row}
    BY <1>4, UpsertedShape
  <2>4. n \in History!NextNum(f)
    <3>. HIDE DEF f
    <3>1. Restorable(f) = Shown(versions, f)
      BY <2>2, RestorableIsShown DEF StoreInv
    <3>. QED BY <2>2, <3>1, HistoryTerms DEF f
  <2>5. Shown(rest, f) = History!Kept(f)
    <3>. HIDE DEF f
    <3>1. Restorable(f) = Shown(versions, f)
      BY <2>2, RestorableIsShown DEF StoreInv
    <3>2. Cardinality(Shown(versions, f)) = Cardinality(VersionsOf(versions, f))
      BY ShownCardinality
    <3>3. CASE HasRoom(versions, f)
      <4>1. out.evicted = {}
        BY <2>1, <3>3 DEF Upserted
      <4>2. rest = versions
        BY <4>1
      <4>3. Cardinality(Shown(versions, f)) < MaxVersions
        BY <3>2, <3>3 DEF HasRoom
      <4>. HIDE DEF rest
      <4>. QED BY <2>2, <3>1, <4>2, <4>3, HistoryTerms
    <3>4. CASE ~HasRoom(versions, f)
      <4>1. PICK old \in Oldest(versions, f) : out.evicted = {old}
        BY <2>1, <3>4 DEF Upserted
      <4>2. rest = versions \ {old}
        BY <4>1
      <4>3. ~(Cardinality(Shown(versions, f)) < MaxVersions)
        BY <3>2, <3>4 DEF HasRoom
      <4>4. Shown(versions \ {old}, f)
               = {v \in Shown(versions, f) :
                     \E u \in Shown(versions, f) : u.num < v.num}
        BY WithoutOldest
      <4>. HIDE DEF rest
      <4>. QED BY <2>2, <3>1, <4>2, <4>3, <4>4, HistoryTerms
    <3>. QED BY <3>3, <3>4
  <2>6. \A g \in Files : g # f => Shown(versions', g) = Shown(versions, g)
    <3>1. \A g \in Files : g # f => Shown(rest, g) = Shown(versions, g)
      <4>1. out.evicted \subseteq VersionsOf(versions, f)
        BY <2>1 DEF Upserted, Oldest
      <4>2. \A g : g # f => VersionsOf(rest, g) = VersionsOf(versions, g)
        BY <4>1 DEF VersionsOf
      <4>. QED BY <4>2 DEF Shown
    <3>. HIDE DEF row, rest, f
    <3>. QED BY <2>1, <2>3, <3>1, ShownWith, ZenonT(60)
  <2>7. Shown(versions', f) = History!Kept(f) \cup {[num |-> n, hash |-> h]}
    <3>. HIDE DEF row, rest, f, h
    <3>. QED BY <2>1, <2>3, <2>5, ShownWith, ZenonT(60)
  <2>8. history' = [history EXCEPT ![f] = History!Kept(f) \cup {[num |-> n, hash |-> h]}]
    <3>1. next = [now EXCEPT ![f] = History!Kept(f) \cup {[num |-> n, hash |-> h]}]
      <4>. HIDE DEF f, h
      <4>. QED BY <2>2, <2>6, <2>7
    <3>. HIDE DEF history, now, next
    <3>. QED BY <1>1, <3>1
  <2>9. History!Record(f, n, h)
    BY <2>8 DEF History!Record
  <2>. HIDE DEF f, h
  <2>. QED BY <2>2, <2>4, <2>9 DEF History!Next
<1>. QED BY <1>2, <1>3, <1>4, TableStep

\* With a clock that moves between two versions of a file, processFile and the
\* table implement VersionHistory: nothing ever happens to what can be restored
\* of a file but that the next version joins and a full history loses its
\* lowest number, through failures, crashes and overlapping workers.
THEOREM HistoryImplemented ==
    ASSUME StrictClock
    PROVE  Spec => HistorySpec
<1>1. Init => History!Init
  BY DEF Init, History!Init, Restorable, VersionsOf
<1>2. TypeOK /\ StoreInv /\ StoreInv' /\ NumsUnique /\ NumberedByAge /\ [Next]_vars
         => [History!Next]_[f \in Files |-> Restorable(f)]
  BY HistoryStep
<1>. QED
  BY <1>1, <1>2, TypeCorrect, StoreSafe, NumsHold, NumberedHolds, PTL
  DEF Spec, HistorySpec, History!Spec

-----------------------------------------------------------------------------
(* What a worker knows of the newest version stays true while it alone      *)
(* works on the file; so a version is recorded for changed content only.    *)

\* No two workers are at one file.
Alone ==
    \A v, w \in Workers :
        task[v].file = task[w].file /\ task[v].file # NoFile => v = w

Latest(rows, r) == \A s \in rows : s.file = r.file => s.num <= r.num

KnownIsLatest(rows, t) ==
    \A r \in rows : r.file = t.file /\ Latest(rows, r) => r.hash = t.known

Knowing == {"hashing", "same", "changed", "uploading", "uploaded"}

KnownInv ==
    \A w \in Workers :
        /\ pc[w] \in Knowing => KnownIsLatest(versions, task[w])
        /\ pc[w] = "same" => task[w].hash = task[w].known
        /\ pc[w] \in {"changed", "uploading", "uploaded"} => task[w].hash # task[w].known

LEMMA AloneStep ==
    ASSUME ~Overlap
    PROVE  TypeOK /\ Alone /\ [Next]_vars => Alone'
<1>. SUFFICES ASSUME TypeOK, Alone, [Next]_vars PROVE Alone'
  OBVIOUS
<1>1. ASSUME NEW f \in Files, Edit(f) PROVE Alone'
  BY <1>1 DEF Edit, Alone, locals
<1>2. ASSUME NEW w \in Workers, NEW f \in Files, TakeFile(w, f) PROVE Alone'
  <2>1. \A v \in Workers : task[v].file # f
    BY <1>2 DEF TakeFile
  <2>2. /\ task'[w].file = f
        /\ \A v \in Workers : v # w => task'[v] = task[v]
    BY <1>2 DEF TakeFile, TypeOK, NoTask
  <2>. QED BY <2>1, <2>2 DEF Alone
<1>3. ASSUME NEW w \in Workers, Finish(w) PROVE Alone'
  <2>1. /\ task'[w].file = NoFile
        /\ \A v \in Workers : v # w => task'[v] = task[v]
    BY <1>3 DEF Finish, TypeOK, NoTask
  <2>. QED BY <2>1 DEF Alone
<1>4. ASSUME \A v \in Workers : task'[v].file = task[v].file PROVE Alone'
  BY <1>4 DEF Alone
<1>5. ASSUME NEW w \in Workers, Lookup(w) PROVE Alone'
  <2>1. PICK h : task' = [task EXCEPT ![w].known = h]
    BY <1>5 DEF Lookup
  <2>. QED BY <1>4, <2>1 DEF TypeOK, Task
<1>6. ASSUME NEW w \in Workers, HashFile(w) \/ StartUpload(w) PROVE Alone'
  <2>1. PICK h : task' = [task EXCEPT ![w].hash = h] \/ task' = [task EXCEPT ![w].read = h]
    BY <1>6 DEF HashFile, StartUpload
  <2>. QED BY <1>4, <2>1 DEF TypeOK, Task
<1>7. ASSUME NEW w \in Workers, UploadDone(w) PROVE Alone'
  BY <1>4, <1>7 DEF UploadDone
<1>8. ASSUME NEW w \in Workers, Upsert(w) PROVE Alone'
  <2>1. Finish(w) \/ UNCHANGED task
    BY <1>8 DEF Upsert, Committed
  <2>. QED BY <1>3, <1>4, <2>1
<1>9. ASSUME NEW w \in Workers,
             FastSkip(w) \/ RefreshMtime(w) \/ DeleteEvicted(w) \/ Fails(w)
      PROVE  Alone'
  BY <1>3, <1>9 DEF FastSkip, RefreshMtime, DeleteEvicted, Fails, UploadFails,
                    UpsertFails, ReadFails
<1>10. CASE Crash
  BY <1>10 DEF Crash, Alone, NoTask
<1>11. CASE UNCHANGED vars
  BY <1>11 DEF vars, Alone
<1>. QED
  BY <1>1, <1>2, <1>5, <1>6, <1>7, <1>8, <1>9, <1>10, <1>11 DEF Next, Progress

\* A refreshed mtime changes nothing that is compared here.
LEMMA RefreshedRows ==
    ASSUME TypeOK, NEW w \in Workers,
           versions' \in MtimeRefreshed(versions, task[w].file, task[w].mtime)
    PROVE  \/ versions' = versions
           \/ \E x, new :
                 /\ x \in versions
                 /\ x \in Newest(versions, task[w].file)
                 /\ new = [x EXCEPT !.mtime = task[w].mtime]
                 /\ versions' = (versions \ {x}) \cup {new}
                 /\ new.file = x.file /\ new.num = x.num /\ new.hash = x.hash
                 /\ new.blob = x.blob /\ new.at = x.at /\ new.mtime = task[w].mtime
<1>1. CASE versions' = versions
  BY <1>1
<1>2. CASE versions' # versions
  <2>1. PICK x \in Newest(versions, task[w].file) :
           versions' = (versions \ {x}) \cup {[x EXCEPT !.mtime = task[w].mtime]}
    BY <1>2 DEF MtimeRefreshed
  <2>2. x \in versions /\ x \in Row
    BY DEF Newest, VersionsOf, TypeOK
  <2>. DEFINE new == [x EXCEPT !.mtime = task[w].mtime]
  <2>3. /\ new.file = x.file /\ new.num = x.num /\ new.hash = x.hash
        /\ new.blob = x.blob /\ new.at = x.at /\ new.mtime = task[w].mtime
    BY <2>2 DEF Row
  <2>4. new = [x EXCEPT !.mtime = task[w].mtime] /\ versions' = (versions \ {x}) \cup {new}
    BY <2>1
  <2>. HIDE DEF new
  <2>. QED BY <2>1, <2>2, <2>3, <2>4
<1>. QED BY <1>1, <1>2

LEMMA LatestAfterRefresh ==
    ASSUME NEW rows, NEW x \in rows, NEW new, new.file = x.file, new.num = x.num,
           new.hash = x.hash, NEW t, KnownIsLatest(rows, t)
    PROVE  KnownIsLatest((rows \ {x}) \cup {new}, t)
<1>. DEFINE after == (rows \ {x}) \cup {new}
<1>1. ASSUME NEW r \in after, r.file = t.file, Latest(after, r)
      PROVE  r.hash = t.known
  <2>1. PICK s \in rows : s.file = r.file /\ s.num = r.num /\ s.hash = r.hash
    OBVIOUS
  <2>2. ASSUME NEW q \in rows, q.file = s.file PROVE q.num <= s.num
    <3>1. PICK p \in after : p.file = q.file /\ p.num = q.num
      OBVIOUS
    <3>. HIDE DEF after
    <3>. QED BY <1>1, <2>1, <2>2, <3>1 DEF Latest
  <2>3. Latest(rows, s)
    BY <2>2 DEF Latest
  <2>. QED BY <1>1, <2>1, <2>3 DEF KnownIsLatest
<1>. QED BY <1>1 DEF KnownIsLatest

LEMMA LatestElsewhere ==
    ASSUME NEW rows, NEW out, NEW row, \A r \in out : r.file = row.file,
           NEW t, t.file # row.file, KnownIsLatest(rows, t)
    PROVE  KnownIsLatest((rows \ out) \cup {row}, t)
<1>. DEFINE after == (rows \ out) \cup {row}
<1>1. \A r : r.file = t.file => (r \in after <=> r \in rows)
  OBVIOUS
<1>2. ASSUME NEW r \in after, r.file = t.file, Latest(after, r)
      PROVE  r.hash = t.known
  <2>. HIDE DEF after
  <2>1. r \in rows /\ Latest(rows, r)
    BY <1>1, <1>2 DEF Latest
  <2>. QED BY <1>2, <2>1 DEF KnownIsLatest
<1>. QED BY <1>2 DEF KnownIsLatest

\* What GetLatestVersionInfo returns is the row with the highest number.
LEMMA NewestIsLatest ==
    ASSUME TypeOK, NumsUnique, NumberedByAge, NEW f, NEW x \in Newest(versions, f),
           NEW r \in versions, r.file = f, Latest(versions, r)
    PROVE  r = x
<1>1. /\ x \in versions /\ x.file = f
      /\ \A s \in versions : s.file = f => s.at <= x.at
  BY DEF Newest, VersionsOf
<1>2. x.num \in Nat /\ r.num \in Nat /\ x.at \in Nat /\ r.at \in Nat
  BY <1>1 DEF TypeOK, Row
<1>3. x.num <= r.num /\ r.at <= x.at
  BY <1>1 DEF Latest
<1>4. ~(x.num < r.num)
  BY <1>1, <1>2, <1>3 DEF NumberedByAge
<1>. QED BY <1>1, <1>2, <1>3, <1>4 DEF NumsUnique

LEMMA OthersAtOtherFiles ==
    ASSUME TypeOK, Alone, NEW v \in Workers, NEW w \in Workers, v # w,
           pc[v] # Idle, pc[w] # Idle
    PROVE  task[v].file # task[w].file
BY BackupStoreAssumption DEF TypeOK, Alone

\* A step in which the worker w alone moves and keeps the rows.
LEMMA KnownAfterMove ==
    ASSUME KnownInv, UNCHANGED versions, NEW w \in Workers,
           \A v \in Workers : v # w => pc'[v] = pc[v] /\ task'[v] = task[v],
           \/ pc'[w] \notin Knowing
           \/ /\ pc[w] \in Knowing /\ task'[w].file = task[w].file
              /\ task'[w].known = task[w].known
              /\ \/ pc'[w] = "same" /\ task'[w].hash = task'[w].known
                 \/ pc'[w] = "changed" /\ task'[w].hash # task'[w].known
                 \/ /\ pc[w] \in {"changed", "uploading"}
                    /\ pc'[w] \in {"uploading", "uploaded"}
                    /\ task'[w].hash = task[w].hash
    PROVE  KnownInv'
<1>1. ASSUME NEW v \in Workers, v # w
      PROVE  /\ pc'[v] \in Knowing => KnownIsLatest(versions, task'[v])
             /\ pc'[v] = "same" => task'[v].hash = task'[v].known
             /\ pc'[v] \in {"changed", "uploading", "uploaded"}
                   => task'[v].hash # task'[v].known
  BY <1>1 DEF KnownInv
<1>2. CASE pc'[w] \notin Knowing
  BY <1>1, <1>2 DEF KnownInv, Knowing
<1>3. CASE pc'[w] \in Knowing
  <2>1. KnownIsLatest(versions, task'[w])
    BY <1>3 DEF KnownInv, KnownIsLatest
  <2>2. pc'[w] = "same" => task'[w].hash = task'[w].known
    BY <1>3 DEF Knowing
  <2>3. pc'[w] \in {"changed", "uploading", "uploaded"} => task'[w].hash # task'[w].known
    BY <1>3 DEF Knowing, KnownInv
  <2>. QED BY <1>1, <2>1, <2>2, <2>3 DEF KnownInv
<1>. QED BY <1>2, <1>3

LEMMA TaskAfterFinish ==
    ASSUME TypeOK, NEW w \in Workers, Finish(w)
    PROVE  /\ pc'[w] \notin Knowing
           /\ \A v \in Workers : v # w => pc'[v] = pc[v] /\ task'[v] = task[v]
BY DEF Finish, TypeOK, Knowing, Idle

LEMMA KnownStep ==
    TypeOK /\ Alone /\ NumsUnique /\ NumberedByAge /\ KnownInv /\ [Next]_vars => KnownInv'
<1>. SUFFICES ASSUME TypeOK, Alone, NumsUnique, NumberedByAge, KnownInv, [Next]_vars
              PROVE  KnownInv'
  OBVIOUS
<1>1. ASSUME NEW f \in Files, Edit(f) PROVE KnownInv'
  BY <1>1 DEF Edit, KnownInv, locals
<1>2. ASSUME NEW w \in Workers, NEW f \in Files, TakeFile(w, f) PROVE KnownInv'
  <2>1. /\ pc'[w] \notin Knowing /\ UNCHANGED versions
        /\ \A v \in Workers : v # w => pc'[v] = pc[v] /\ task'[v] = task[v]
    BY <1>2 DEF TakeFile, TypeOK, Knowing
  <2>. QED BY <2>1, KnownAfterMove
<1>3. ASSUME NEW w \in Workers, Finish(w), UNCHANGED versions PROVE KnownInv'
  BY <1>3, TaskAfterFinish, KnownAfterMove
<1>4. ASSUME NEW w \in Workers, Lookup(w) PROVE KnownInv'
  <2>. DEFINE newest == Newest(versions, task[w].file)
              known == IF newest = {} THEN {NoHash}
                       ELSE {r.hash : r \in {s \in newest : ~SameStat(task[w], s)}}
  <2>1. PICK h \in known : task' = [task EXCEPT ![w].known = h]
    BY <1>4 DEF Lookup
  <2>2. pc' = [pc EXCEPT ![w] = "hashing"] /\ UNCHANGED versions
    BY <1>4 DEF Lookup
  <2>3. task'[w].file = task[w].file /\ task'[w].known = h
    BY <2>1 DEF TypeOK, Task
  <2>4. ASSUME NEW r \in versions, r.file = task[w].file, Latest(versions, r)
        PROVE  r.hash = h
    <3>1. r \in newest
      <4>1. ASSUME NEW s \in versions, s.file = r.file PROVE s.at <= r.at
        <5>1. s.num <= r.num /\ s.num \in Nat /\ r.num \in Nat /\ s.at \in Nat /\ r.at \in Nat
          BY <2>4, <4>1 DEF Latest, TypeOK, Row
        <5>2. ~(r.num < s.num)
          BY <5>1
        <5>. QED BY <4>1, <5>1, <5>2 DEF NumberedByAge
      <4>. QED BY <2>4, <4>1 DEF Newest, VersionsOf
    <3>2. PICK x \in newest : h = x.hash
      BY <2>1, <3>1
    <3>. HIDE DEF newest
    <3>3. r = x
      BY <2>4, <3>2, NewestIsLatest DEF newest
    <3>. QED BY <3>2, <3>3
  <2>5. KnownIsLatest(versions, task'[w])
    BY <2>3, <2>4 DEF KnownIsLatest
  <2>6. /\ pc'[w] = "hashing"
        /\ \A v \in Workers : v # w => pc'[v] = pc[v] /\ task'[v] = task[v]
    BY <2>1, <2>2 DEF TypeOK
  <2>. HIDE DEF newest, known
  <2>7. ASSUME NEW v \in Workers
        PROVE  /\ pc'[v] \in Knowing => KnownIsLatest(versions, task'[v])
               /\ pc'[v] = "same" => task'[v].hash = task'[v].known
               /\ pc'[v] \in {"changed", "uploading", "uploaded"}
                     => task'[v].hash # task'[v].known
    BY <2>5, <2>6 DEF KnownInv
  <2>. QED BY <2>2, <2>7 DEF KnownInv
<1>5. ASSUME NEW w \in Workers, HashFile(w) PROVE KnownInv'
  <2>. DEFINE h == source[task[w].file].content
  <2>1. /\ pc[w] = "hashing" /\ UNCHANGED versions
        /\ task' = [task EXCEPT ![w].hash = h]
        /\ pc' = [pc EXCEPT ![w] = IF h = task[w].known THEN "same" ELSE "changed"]
    BY <1>5 DEF HashFile
  <2>. HIDE DEF h
  <2>2. /\ task'[w].file = task[w].file /\ task'[w].known = task[w].known
        /\ task'[w].hash = h
    BY <2>1 DEF TypeOK, Task
  <2>3. /\ \A v \in Workers : v # w => pc'[v] = pc[v] /\ task'[v] = task[v]
        /\ pc'[w] = IF h = task[w].known THEN "same" ELSE "changed"
    BY <2>1 DEF TypeOK
  <2>4. pc[w] \in Knowing
    BY <2>1 DEF Knowing
  <2>. QED BY <2>1, <2>2, <2>3, <2>4, KnownAfterMove
<1>6. ASSUME NEW w \in Workers, StartUpload(w) PROVE KnownInv'
  <2>. DEFINE c == source[task[w].file].content
  <2>1. /\ pc[w] = "changed" /\ UNCHANGED versions
        /\ task' = [task EXCEPT ![w].read = c]
        /\ pc' = [pc EXCEPT ![w] = "uploading"]
    BY <1>6 DEF StartUpload
  <2>. HIDE DEF c
  <2>2. /\ task'[w].file = task[w].file /\ task'[w].known = task[w].known
        /\ task'[w].hash = task[w].hash
    BY <2>1 DEF TypeOK, Task
  <2>3. /\ \A v \in Workers : v # w => pc'[v] = pc[v] /\ task'[v] = task[v]
        /\ pc'[w] = "uploading" /\ pc[w] \in Knowing
    BY <2>1 DEF TypeOK, Knowing
  <2>. QED BY <2>1, <2>2, <2>3, KnownAfterMove
<1>7. ASSUME NEW w \in Workers, UploadDone(w) PROVE KnownInv'
  <2>1. /\ pc[w] = "uploading" /\ UNCHANGED <<versions, task>>
        /\ pc' = [pc EXCEPT ![w] = "uploaded"]
    BY <1>7 DEF UploadDone
  <2>2. /\ \A v \in Workers : v # w => pc'[v] = pc[v] /\ task'[v] = task[v]
        /\ pc'[w] = "uploaded" /\ pc[w] \in Knowing
    BY <2>1 DEF TypeOK, Knowing
  <2>. QED BY <2>1, <2>2, KnownAfterMove
<1>8. ASSUME NEW w \in Workers, RefreshMtime(w), versions' # versions PROVE KnownInv'
  <2>1. Finish(w) /\ versions' \in MtimeRefreshed(versions, task[w].file, task[w].mtime)
    BY <1>8 DEF RefreshMtime
  <2>2. PICK x, new :
           /\ x \in versions
           /\ versions' = (versions \ {x}) \cup {new}
           /\ new.file = x.file /\ new.num = x.num /\ new.hash = x.hash
    BY <1>8, <2>1, RefreshedRows
  <2>3. ASSUME NEW v \in Workers, pc'[v] \in Knowing
        PROVE  v # w /\ pc'[v] = pc[v] /\ task'[v] = task[v]
    BY <2>1, <2>3, TaskAfterFinish
  <2>4. ASSUME NEW v \in Workers, pc'[v] \in Knowing
        PROVE  KnownIsLatest(versions', task'[v])
    BY <2>2, <2>3, <2>4, LatestAfterRefresh DEF KnownInv
  <2>. QED BY <2>3, <2>4 DEF KnownInv, Knowing
<1>9. ASSUME NEW w \in Workers, Upsert(w) PROVE KnownInv'
  <2>0. PICK n \in NextNums(versions, task[w].file), t \in Stamps(task[w].file) :
           \E out \in Upserted(versions, NewRow(w, n, t)) : Committed(w, t, out)
    BY <1>9 DEF Upsert
  <2>1. PICK out \in Upserted(versions, NewRow(w, n, t)) : Committed(w, t, out)
    BY <2>0
  <2>. DEFINE row == NewRow(w, n, t)
  <2>2. versions' = (versions \ out.evicted) \cup {row}
    BY <2>1, UpsertedShape DEF Committed
  <2>3. row.file = task[w].file /\ \A r \in out.evicted : r.file = row.file
    BY DEF NewRow, Upserted, Oldest, VersionsOf
  <2>. HIDE DEF row
  <2>4. /\ pc[w] = "uploaded" /\ pc'[w] \notin Knowing
        /\ \A v \in Workers : v # w => pc'[v] = pc[v] /\ task'[v] = task[v]
    BY <1>9, <2>1 DEF Upsert, Committed, Finish, TypeOK, Knowing, Idle
  <2>5. ASSUME NEW v \in Workers, pc'[v] \in Knowing
        PROVE  KnownIsLatest(versions', task'[v])
    <3>1. v # w /\ pc[v] \in Knowing /\ task'[v] = task[v]
      BY <2>4, <2>5
    <3>2. task[v].file # row.file
      BY <2>3, <2>4, <3>1, OthersAtOtherFiles DEF Knowing, Idle
    <3>3. KnownIsLatest(versions, task[v])
      BY <3>1 DEF KnownInv
    <3>. QED BY <2>2, <2>3, <3>1, <3>2, <3>3, LatestElsewhere
  <2>6. ASSUME NEW v \in Workers, pc'[v] \in Knowing
        PROVE  pc'[v] = pc[v] /\ task'[v] = task[v]
    BY <2>4, <2>6
  <2>. QED BY <2>5, <2>6 DEF KnownInv, Knowing
<1>10. ASSUME NEW w \in Workers, FastSkip(w) \/ DeleteEvicted(w) \/ Fails(w) PROVE KnownInv'
  BY <1>3, <1>10 DEF FastSkip, DeleteEvicted, Fails, UploadFails, UpsertFails, ReadFails
<1>11. ASSUME NEW w \in Workers, RefreshMtime(w), versions' = versions PROVE KnownInv'
  BY <1>3, <1>11 DEF RefreshMtime
<1>12. CASE Crash
  BY <1>12 DEF Crash, KnownInv, Knowing, Idle
<1>13. CASE UNCHANGED vars
  BY <1>13 DEF vars, KnownInv
<1>. QED
  BY <1>1, <1>2, <1>4, <1>5, <1>6, <1>7, <1>8, <1>9, <1>10, <1>11, <1>12, <1>13
  DEF Next, Progress

LEMMA NeighboursStep ==
    ASSUME TypeOK, NumsUnique, NumberedByAge, KnownInv, NeighboursDiffer, [Next]_vars
    PROVE  NeighboursDiffer'
<1>1. CASE versions' = versions
  BY <1>1 DEF NeighboursDiffer, VersionsOf
<1>2. ASSUME NEW w \in Workers,
             versions' \in MtimeRefreshed(versions, task[w].file, task[w].mtime),
             versions' # versions
      PROVE  NeighboursDiffer'
  <2>1. PICK x, new :
           /\ x \in versions
           /\ versions' = (versions \ {x}) \cup {new}
           /\ new.file = x.file /\ new.num = x.num /\ new.hash = x.hash
    BY <1>2, RefreshedRows
  <2>2. \A p \in versions' : \E q \in versions :
           p.file = q.file /\ p.num = q.num /\ p.hash = q.hash
    BY <2>1
  <2>3. \A q \in versions : \E p \in versions' : p.file = q.file /\ p.num = q.num
    BY <2>1
  <2>4. ASSUME NEW r \in versions', NEW s \in versions', r.file = s.file, r.num < s.num,
               \A p \in versions' : p.file = r.file => ~(r.num < p.num /\ p.num < s.num)
        PROVE  r.hash # s.hash
    <3>1. PICK q \in versions : r.file = q.file /\ r.num = q.num /\ r.hash = q.hash
      BY <2>2
    <3>2. PICK p \in versions : s.file = p.file /\ s.num = p.num /\ s.hash = p.hash
      BY <2>2
    <3>3. \A t \in versions : t.file = q.file => ~(q.num < t.num /\ t.num < p.num)
      BY <2>3, <2>4, <3>1, <3>2
    <3>. QED BY <2>4, <3>1, <3>2, <3>3 DEF NeighboursDiffer, VersionsOf
  <2>. QED BY <2>4 DEF NeighboursDiffer, VersionsOf
<1>3. ASSUME NEW w \in Workers, pc[w] = "uploaded",
             NEW n \in NextNums(versions, task[w].file), NEW t \in Stamps(task[w].file),
             NEW out \in Upserted(versions, NewRow(w, n, t)), versions' = out.rows
      PROVE  NeighboursDiffer'
  <2>. DEFINE row == NewRow(w, n, t)
  <2>1. row.file = task[w].file /\ row.num = n /\ row.hash = task[w].hash
    BY DEF NewRow
  <2>2. versions' = (versions \ out.evicted) \cup {row}
    BY <1>3, UpsertedShape
  <2>3. \A q \in out.evicted : q \in Oldest(versions, row.file)
    BY DEF Upserted
  <2>4. row.hash # task[w].known /\ KnownIsLatest(versions, task[w])
    BY <1>3, <2>1 DEF KnownInv, Knowing
  <2>. HIDE DEF row
  <2>5. \A r \in versions : r.num \in Nat /\ r.at \in Nat
    BY DEF TypeOK, Row
  <2>6. \A r \in versions : r.file = row.file => r.num < n
    BY <2>1, NextNumAbove DEF VersionsOf, TypeOK
  <2>7. n \in Nat
    BY NextNumsType DEF TypeOK
  <2>8. ASSUME NEW q \in out.evicted, NEW r \in versions, r.file = q.file
        PROVE  ~(r.num < q.num)
    <3>1. q \in versions /\ q.at <= r.at
      BY <2>3, <2>8 DEF Oldest, VersionsOf
    <3>2. ~(r.at < q.at)
      BY <2>5, <3>1
    <3>. QED BY <2>8, <3>1, <3>2 DEF NumberedByAge
  <2>9. ASSUME NEW r \in versions', NEW s \in versions', r.file = s.file, r.num < s.num,
               \A p \in versions' : p.file = r.file => ~(r.num < p.num /\ p.num < s.num)
        PROVE  r.hash # s.hash
    <3>1. r # row
      <4>1. CASE s = row
        BY <2>1, <2>7, <2>9, <4>1
      <4>2. CASE s # row
        BY <2>1, <2>2, <2>5, <2>6, <2>7, <2>9, <4>2
      <4>. QED BY <4>1, <4>2
    <3>2. r \in versions
      BY <2>2, <3>1
    <3>3. CASE s = row
      <4>1. ASSUME NEW q \in versions, q.file = r.file PROVE q.num <= r.num
        <5>1. CASE q \in out.evicted
          BY <2>5, <2>8, <3>2, <4>1, <5>1
        <5>2. CASE q \notin out.evicted
          <6>1. q \in versions' /\ q.num < n
            BY <2>2, <2>6, <2>9, <3>3, <4>1, <5>2
          <6>. QED BY <2>1, <2>5, <2>9, <3>2, <3>3, <4>1, <6>1
        <5>. QED BY <5>1, <5>2
      <4>2. Latest(versions, r) /\ r.file = task[w].file
        BY <2>1, <2>9, <3>3, <4>1 DEF Latest
      <4>. QED BY <2>4, <3>2, <3>3, <4>2 DEF KnownIsLatest
    <3>4. CASE s # row
      <4>1. s \in versions
        BY <2>2, <3>4
      <4>2. ASSUME NEW q \in versions, q.file = r.file PROVE ~(r.num < q.num /\ q.num < s.num)
        <5>1. CASE q \in out.evicted
          BY <2>8, <3>2, <4>2, <5>1
        <5>2. CASE q \notin out.evicted
          BY <2>2, <2>9, <4>2, <5>2
        <5>. QED BY <5>1, <5>2
      <4>. QED BY <2>9, <3>2, <4>1, <4>2 DEF NeighboursDiffer, VersionsOf
    <3>. QED BY <3>3, <3>4
  <2>. QED BY <2>9 DEF NeighboursDiffer, VersionsOf
<1>. QED BY <1>1, <1>2, <1>3, TableStep

\* What the two theorems about unshared files rest on.
LEMMA UnsharedFiles ==
    ASSUME StrictClock, ~Overlap
    PROVE  Spec => [](TypeOK /\ StoreInv /\ NumsUnique /\ NumberedByAge /\ Alone /\ KnownInv)
<1>1. Init => Alone /\ KnownInv
  BY DEF Init, Alone, KnownInv, Knowing, Idle, NoTask
<1>2. TypeOK /\ Alone /\ [Next]_vars => Alone'
  BY AloneStep
<1>3. TypeOK /\ Alone /\ NumsUnique /\ NumberedByAge /\ KnownInv /\ [Next]_vars => KnownInv'
  BY KnownStep
<1>4. Spec => []NumberedByAge
  BY NumberedHolds
<1>. QED
  BY <1>1, <1>2, <1>3, <1>4, TypeCorrect, StoreSafe, NumsHold, PTL DEF Spec

\* With no two workers at one file and a clock that moves between two versions,
\* a version is recorded only when its hash differs from the version before it:
\* the comparison with the last known hash is never stale when it matters.
THEOREM NeighboursHold ==
    ASSUME StrictClock, ~Overlap
    PROVE  Spec => []NeighboursDiffer
<1>1. Init => NeighboursDiffer
  BY DEF Init, NeighboursDiffer
<1>2. TypeOK /\ NumsUnique /\ NumberedByAge /\ KnownInv /\ NeighboursDiffer /\ [Next]_vars
         => NeighboursDiffer'
  BY NeighboursStep
<1>3. Spec => [](TypeOK /\ StoreInv /\ NumsUnique /\ NumberedByAge /\ Alone /\ KnownInv)
  BY UnsharedFiles
<1>. QED BY <1>1, <1>2, <1>3, PTL DEF Spec

-----------------------------------------------------------------------------
(* The stat pre-check.  Contents that never come back are numbered in the   *)
(* order of the edits: a hash that is still the content of the file was the *)
(* content at every moment since it was read.                               *)

FreshRow(r) ==
    LET now == source[r.file] IN
    /\ r.hash <= now.content
    /\ payload[r.blob] = r.hash \/ r.hash < now.content
    /\ r.mtime <= now.mtime
    /\ r.mtime = now.mtime => r.hash = now.content

FreshTask(w) ==
    LET now == source[task[w].file]
        t == task[w]
    IN  /\ pc[w] \in {"looking"} \cup Knowing => t.mtime <= now.mtime
        /\ pc[w] \in Knowing \ {"hashing"} =>
              t.hash <= now.content /\ (t.mtime = now.mtime => t.hash = now.content)
        /\ pc[w] = "uploading" =>
              t.read \in Nat /\ t.hash <= t.read /\ t.read <= now.content
        /\ pc[w] = "uploaded" => payload[held[w]] = t.hash \/ t.hash < now.content

FreshInv ==
    /\ \A f \in Files : source[f].content <= source[f].mtime
    /\ \A r \in versions : FreshRow(r)
    /\ \A w \in Workers : FreshTask(w)

LEMMA FreshMeansSound == TypeOK /\ FreshInv => FastPathSound
<1>. SUFFICES ASSUME TypeOK, FreshInv, NEW f \in Files, NEW r \in Newest(versions, f),
                     r.mtime = source[f].mtime
              PROVE  payload[r.blob] = source[f].content
  BY DEF FastPathSound
<1>1. r \in versions /\ r.file = f /\ r.hash \in Nat
  BY DEF Newest, VersionsOf, TypeOK, Row, Contents
<1>2. FreshRow(r)
  BY <1>1 DEF FreshInv
<1>. QED BY <1>1, <1>2 DEF FreshRow

\* A step of one worker that leaves the sources, and what others hold, alone.
LEMMA FreshAfterMove ==
    ASSUME FreshInv, NEW w \in Workers, UNCHANGED source,
           \A v \in Workers :
              v # w => pc'[v] = pc[v] /\ task'[v] = task[v] /\ held'[v] = held[v],
           \A v \in Workers :
              v # w /\ pc[v] = "uploaded" => payload'[held[v]] = payload[held[v]],
           FreshTask(w)',
           \A r \in versions' : FreshRow(r)'
    PROVE  FreshInv'
<1>1. ASSUME NEW v \in Workers, v # w PROVE FreshTask(v)'
  <2>1. FreshTask(v)
    BY DEF FreshInv
  <2>2. pc'[v] = pc[v] /\ task'[v] = task[v] /\ held'[v] = held[v] /\ source' = source
    BY <1>1
  <2>3. pc[v] = "uploaded" => payload'[held[v]] = payload[held[v]]
    BY <1>1
  <2>. QED BY <2>1, <2>2, <2>3 DEF FreshTask
<1>2. \A v \in Workers : FreshTask(v)'
  BY <1>1
<1>. QED BY <1>2 DEF FreshInv

LEMMA FreshRowsSame ==
    ASSUME FreshInv, UNCHANGED <<source, versions, payload>>
    PROVE  \A r \in versions' : FreshRow(r)'
BY DEF FreshInv, FreshRow

LEMMA FreshAfterFinish ==
    ASSUME TypeOK, FreshInv, NEW w \in Workers, Finish(w), UNCHANGED <<source, payload>>,
           \A r \in versions' : FreshRow(r)'
    PROVE  FreshInv'
<1>1. /\ pc'[w] = Idle
      /\ \A v \in Workers :
            v # w => pc'[v] = pc[v] /\ task'[v] = task[v] /\ held'[v] = held[v]
  BY DEF Finish, TypeOK
<1>2. FreshTask(w)'
  BY <1>1 DEF FreshTask, Knowing, Idle
<1>. QED BY <1>1, <1>2, FreshAfterMove

LEMMA FreshStep ==
    ASSUME ~Reverts
    PROVE  TypeOK /\ StoreInv /\ NumsUnique /\ NumberedByAge /\ KnownInv /\ FreshInv
              /\ [Next]_vars => FreshInv'
<1>. SUFFICES ASSUME TypeOK, StoreInv, NumsUnique, NumberedByAge, KnownInv, FreshInv,
                     [Next]_vars
              PROVE  FreshInv'
  OBVIOUS
<1>0. \A w \in Workers : pc[w] \in {"looking"} \cup Knowing =>
         /\ task[w].file \in Files /\ task[w].mtime \in Nat
         /\ source[task[w].file].content \in Nat /\ source[task[w].file].mtime \in Nat
  BY DEF TypeOK, Knowing, Idle, Contents, Task
<1>1. ASSUME NEW f \in Files, Edit(f) PROVE FreshInv'
  <2>1. PICK c \in NewContents(f) :
           source' = [source EXCEPT ![f] = [content |-> c, mtime |-> @.mtime + 1]]
    BY <1>1 DEF Edit
  <2>2. /\ \A g \in Files : source[g].content \in Nat /\ source[g].mtime \in Nat
        /\ \A g \in Files : source[g].content <= source[g].mtime
    BY DEF TypeOK, Contents, FreshInv
  <2>3. c = source[f].content \/ c = source[f].mtime + 1
    BY DEF NewContents
  <2>4. /\ source'[f].content = c /\ source'[f].mtime = source[f].mtime + 1
        /\ \A g \in Files : g # f => source'[g] = source[g]
    BY <2>1 DEF TypeOK
  <2>5. \A g \in Files :
           /\ source'[g].content \in Nat /\ source'[g].mtime \in Nat
           /\ source'[g].content <= source'[g].mtime
           /\ source[g].content <= source'[g].content
           /\ source'[g] = source[g] \/ source[g].mtime < source'[g].mtime
    BY <2>2, <2>3, <2>4
  <2>6. UNCHANGED <<versions, payload, pc, task, held>>
    BY <1>1 DEF Edit, remote, locals
  <2>7. ASSUME NEW r \in versions PROVE FreshRow(r)'
    <3>1. r.file \in Files /\ r.hash \in Nat /\ r.mtime \in Nat /\ FreshRow(r)
      BY DEF TypeOK, Row, Contents, FreshInv
    <3>. QED BY <2>2, <2>5, <2>6, <3>1 DEF FreshRow
  <2>8. ASSUME NEW w \in Workers PROVE FreshTask(w)'
    <3>1. FreshTask(w)
      BY DEF FreshInv
    <3>2. CASE pc[w] \notin {"looking"} \cup Knowing
      BY <2>6, <3>2 DEF FreshTask, Knowing
    <3>3. CASE pc[w] \in {"looking"} \cup Knowing
      <4>1. pc[w] \in Knowing \ {"hashing"} => task[w].hash \in Nat
        BY DEF TypeOK, Knowing, Holding, Contents
      <4>2. /\ source[task[w].file].content <= source'[task[w].file].content
            /\ \/ source'[task[w].file] = source[task[w].file]
               \/ source[task[w].file].mtime < source'[task[w].file].mtime
            /\ source'[task[w].file].content \in Nat /\ source'[task[w].file].mtime \in Nat
        BY <1>0, <2>5, <3>3
      <4>3. pc[w] = "uploading" => pc[w] \in Knowing \ {"hashing"}
        BY DEF Knowing
      <4>4. pc[w] = "uploaded" => pc[w] \in Knowing \ {"hashing"}
        BY DEF Knowing
      <4>. QED BY <1>0, <2>6, <3>1, <3>3, <4>1, <4>2, <4>3, <4>4 DEF FreshTask
    <3>. QED BY <3>2, <3>3
  <2>. QED BY <2>5, <2>6, <2>7, <2>8 DEF FreshInv
<1>2. ASSUME NEW w \in Workers, NEW f \in Files, TakeFile(w, f) PROVE FreshInv'
  <2>1. /\ pc'[w] = "looking" /\ task'[w].file = f /\ task'[w].mtime = source[f].mtime
        /\ \A v \in Workers :
              v # w => pc'[v] = pc[v] /\ task'[v] = task[v] /\ held'[v] = held[v]
        /\ UNCHANGED <<source, versions, payload>>
    BY <1>2 DEF TakeFile, TypeOK, remote, NoTask
  <2>2. FreshTask(w)'
    BY <2>1 DEF FreshTask, Knowing, TypeOK
  <2>. QED BY <2>1, <2>2, FreshRowsSame, FreshAfterMove
<1>3. ASSUME NEW w \in Workers, Lookup(w) PROVE FreshInv'
  <2>1. PICK h : task' = [task EXCEPT ![w].known = h]
    BY <1>3 DEF Lookup
  <2>2. /\ task'[w].file = task[w].file /\ task'[w].mtime = task[w].mtime
    BY <2>1 DEF TypeOK, Task
  <2>3. /\ pc[w] = "looking" /\ pc'[w] = "hashing"
        /\ \A v \in Workers :
              v # w => pc'[v] = pc[v] /\ task'[v] = task[v] /\ held'[v] = held[v]
        /\ UNCHANGED <<source, versions, payload>>
    BY <1>3, <2>1 DEF Lookup, TypeOK, remote
  <2>4. FreshTask(w)
    BY DEF FreshInv
  <2>5. FreshTask(w)'
    BY <2>2, <2>3, <2>4 DEF FreshTask, Knowing
  <2>. QED BY <2>3, <2>5, FreshRowsSame, FreshAfterMove
<1>4. ASSUME NEW w \in Workers, HashFile(w) PROVE FreshInv'
  <2>. DEFINE h == source[task[w].file].content
  <2>1. /\ task' = [task EXCEPT ![w].hash = h] /\ pc[w] = "hashing"
        /\ pc' = [pc EXCEPT ![w] = IF h = task[w].known THEN "same" ELSE "changed"]
        /\ UNCHANGED <<source, versions, payload, held>>
    BY <1>4 DEF HashFile, remote
  <2>2. h \in Nat
    BY <1>0, <2>1 DEF Knowing
  <2>. HIDE DEF h
  <2>3. /\ task'[w].file = task[w].file /\ task'[w].mtime = task[w].mtime
        /\ task'[w].hash = h
    BY <2>1 DEF TypeOK, Task
  <2>4. /\ pc'[w] \in {"same", "changed"}
        /\ \A v \in Workers :
              v # w => pc'[v] = pc[v] /\ task'[v] = task[v] /\ held'[v] = held[v]
    BY <2>1 DEF TypeOK
  <2>5. FreshTask(w)
    BY DEF FreshInv
  <2>6. FreshTask(w)'
    BY <2>1, <2>2, <2>3, <2>4, <2>5 DEF FreshTask, Knowing, h
  <2>. QED BY <2>1, <2>4, <2>6, FreshRowsSame, FreshAfterMove
<1>5. ASSUME NEW w \in Workers, StartUpload(w) PROVE FreshInv'
  <2>. DEFINE c == source[task[w].file].content
  <2>1. /\ task' = [task EXCEPT ![w].read = c] /\ pc[w] = "changed"
        /\ pc' = [pc EXCEPT ![w] = "uploading"]
        /\ UNCHANGED <<source, versions, payload>>
        /\ \E b \in Blobs : held' = [held EXCEPT ![w] = b]
    BY <1>5 DEF StartUpload, FreshBlobs
  <2>2. c \in Nat
    BY <1>0, <2>1 DEF Knowing
  <2>. HIDE DEF c
  <2>3. /\ task'[w].file = task[w].file /\ task'[w].mtime = task[w].mtime
        /\ task'[w].hash = task[w].hash /\ task'[w].read = c
    BY <2>1 DEF TypeOK, Task
  <2>4. /\ pc'[w] = "uploading"
        /\ \A v \in Workers :
              v # w => pc'[v] = pc[v] /\ task'[v] = task[v] /\ held'[v] = held[v]
    BY <2>1 DEF TypeOK
  <2>5. FreshTask(w)
    BY DEF FreshInv
  <2>6. FreshTask(w)'
    BY <2>1, <2>2, <2>3, <2>4, <2>5 DEF FreshTask, Knowing, c
  <2>. QED BY <2>1, <2>4, <2>6, FreshRowsSame, FreshAfterMove
<1>6. ASSUME NEW w \in Workers, UploadDone(w) PROVE FreshInv'
  <2>1. PICK c \in Streamed(w) : payload' = [payload EXCEPT ![held[w]] = c]
    BY <1>6 DEF UploadDone
  <2>2. /\ pc[w] = "uploading" /\ pc' = [pc EXCEPT ![w] = "uploaded"]
        /\ UNCHANGED <<source, versions, task, held>>
    BY <1>6 DEF UploadDone
  <2>3. /\ \A r \in versions : r.blob # held[w]
        /\ \A v \in Workers : v # w /\ pc[v] = "uploaded" => held[v] # held[w]
        /\ held[w] \in Blobs /\ task[w].hash \in Nat
    BY <2>2 DEF StoreInv, HeldIsPrivate, Holding, TypeOK, Contents
  <2>4. \A r \in versions : payload'[r.blob] = payload[r.blob]
    BY <2>1, <2>3 DEF TypeOK, Row
  <2>5. \A v \in Workers :
           v # w /\ pc[v] = "uploaded" => payload'[held[v]] = payload[held[v]]
    BY <2>1, <2>3 DEF TypeOK
  <2>6. \A r \in versions' : FreshRow(r)'
    BY <2>2, <2>4 DEF FreshInv, FreshRow
  <2>7. FreshTask(w)
    BY DEF FreshInv
  <2>8. payload'[held'[w]] = c /\ pc'[w] = "uploaded"
    BY <2>1, <2>2, <2>3 DEF TypeOK
  <2>9. pc[w] \in Knowing \ {"hashing"} /\ pc'[w] \in Knowing \ {"hashing"}
    BY <2>2, <2>8 DEF Knowing
  <2>10. c = task[w].hash \/ task[w].hash < source[task[w].file].content
    BY <1>0, <2>2, <2>3, <2>7, <2>9 DEF FreshTask, Streamed
  <2>11. FreshTask(w)'
    BY <2>2, <2>7, <2>8, <2>9, <2>10 DEF FreshTask
  <2>12. \A v \in Workers :
            v # w => pc'[v] = pc[v] /\ task'[v] = task[v] /\ held'[v] = held[v]
    BY <2>2
  <2>. QED BY <2>2, <2>5, <2>6, <2>11, <2>12, FreshAfterMove
<1>7. ASSUME NEW w \in Workers, RefreshMtime(w) PROVE FreshInv'
  <2>1. /\ pc[w] = "same" /\ Finish(w) /\ UNCHANGED <<source, payload>>
        /\ versions' = versions
              \/ versions' \in MtimeRefreshed(versions, task[w].file, task[w].mtime)
    BY <1>7 DEF RefreshMtime, remote
  <2>2. CASE versions' = versions
    BY <2>1, <2>2, FreshRowsSame, FreshAfterFinish
  <2>3. CASE versions' # versions
    <3>1. PICK x, new :
             /\ x \in versions
             /\ x \in Newest(versions, task[w].file)
             /\ versions' = (versions \ {x}) \cup {new}
             /\ new.file = x.file /\ new.num = x.num /\ new.hash = x.hash
             /\ new.blob = x.blob /\ new.mtime = task[w].mtime
      BY <2>1, <2>3, RefreshedRows
    <3>2. x.file = task[w].file /\ \A s \in versions : s.file = x.file => s.at <= x.at
      BY <3>1 DEF Newest, VersionsOf
    <3>3. Latest(versions, x)
      <4>1. ASSUME NEW s \in versions, s.file = x.file PROVE s.num <= x.num
        <5>1. s.at <= x.at /\ s.at \in Nat /\ x.at \in Nat /\ s.num \in Nat /\ x.num \in Nat
          BY <3>1, <3>2, <4>1 DEF TypeOK, Row
        <5>2. ~(x.num < s.num)
          BY <3>1, <4>1, <5>1 DEF NumberedByAge
        <5>. QED BY <5>1, <5>2
      <4>. QED BY <3>1, <4>1 DEF Latest
    <3>4. x.hash = task[w].hash
      BY <2>1, <3>1, <3>2, <3>3 DEF KnownInv, Knowing, KnownIsLatest
    <3>5. FreshRow(x) /\ FreshTask(w) /\ pc[w] \in Knowing \ {"hashing"}
      BY <2>1, <3>1 DEF FreshInv, Knowing
    <3>6. FreshRow(new)'
      BY <2>1, <3>1, <3>2, <3>4, <3>5 DEF FreshRow, FreshTask
    <3>7. \A r \in versions : FreshRow(r)'
      BY <2>1 DEF FreshInv, FreshRow
    <3>8. \A r \in versions' : FreshRow(r)'
      BY <3>1, <3>6, <3>7
    <3>. QED BY <2>1, <3>8, FreshAfterFinish
  <2>. QED BY <2>2, <2>3
<1>8. ASSUME NEW w \in Workers, Upsert(w) PROVE FreshInv'
  <2>0. PICK n \in NextNums(versions, task[w].file), t \in Stamps(task[w].file) :
           \E out \in Upserted(versions, NewRow(w, n, t)) : Committed(w, t, out)
    BY <1>8 DEF Upsert
  <2>1. PICK out \in Upserted(versions, NewRow(w, n, t)) : Committed(w, t, out)
    BY <2>0
  <2>. DEFINE r0 == NewRow(w, n, t)
  <2>2. versions' = (versions \ out.evicted) \cup {r0}
    BY <2>1, UpsertedShape DEF Committed
  <2>2a. /\ r0.file = task[w].file /\ r0.hash = task[w].hash
        /\ r0.mtime = task[w].mtime /\ r0.blob = held[w]
    BY DEF NewRow
  <2>. HIDE DEF r0
  <2>3. PICK row : /\ row = r0
                   /\ row.file = task[w].file /\ row.hash = task[w].hash
                   /\ row.mtime = task[w].mtime /\ row.blob = held[w]
    BY <2>2a
  <2>4. pc[w] = "uploaded" /\ UNCHANGED <<source, payload>>
    BY <1>8 DEF Upsert, remote
  <2>5. FreshTask(w) /\ pc[w] \in Knowing \ {"hashing"}
    BY <2>4 DEF FreshInv, Knowing
  <2>6. FreshRow(row)'
    BY <2>3, <2>4, <2>5 DEF FreshRow, FreshTask
  <2>7. \A r \in versions : FreshRow(r)'
    BY <2>4 DEF FreshInv, FreshRow
  <2>8. \A r \in versions' : FreshRow(r)'
    BY <2>2, <2>3, <2>6, <2>7
  <2>9. /\ pc'[w] \in {Idle, "evicting"}
        /\ \A v \in Workers :
              v # w => pc'[v] = pc[v] /\ task'[v] = task[v] /\ held'[v] = held[v]
    BY <2>1 DEF Committed, Finish, TypeOK
  <2>10. FreshTask(w)'
    BY <2>9 DEF FreshTask, Knowing, Idle
  <2>. QED BY <2>4, <2>8, <2>9, <2>10, FreshAfterMove
<1>9. ASSUME NEW w \in Workers, FastSkip(w) \/ DeleteEvicted(w) \/ Fails(w) PROVE FreshInv'
  <2>1. Finish(w) /\ UNCHANGED <<source, versions, payload>>
    BY <1>9 DEF FastSkip, DeleteEvicted, Fails, UploadFails, UpsertFails, ReadFails, remote
  <2>. QED BY <2>1, FreshRowsSame, FreshAfterFinish
<1>10. CASE Crash
  <2>1. UNCHANGED <<source, versions, payload>> /\ \A w \in Workers : pc'[w] = Idle
    BY <1>10 DEF Crash, remote
  <2>2. \A w \in Workers : FreshTask(w)'
    BY <2>1 DEF FreshTask, Knowing, Idle
  <2>. QED BY <2>1, <2>2, FreshRowsSame DEF FreshInv
<1>11. CASE UNCHANGED vars
  BY <1>11 DEF vars, FreshInv, FreshRow, FreshTask
<1>. QED
  BY <1>1, <1>2, <1>3, <1>4, <1>5, <1>6, <1>7, <1>8, <1>9, <1>10, <1>11
  DEF Next, Progress

\* Where contents do not come back, no two workers are at one file and the clock
\* moves, the stat pre-check is sound: a file whose mtime is that of its newest
\* version has the content that the version's blob holds, through racing edits
\* between stat, hash and upload.
THEOREM FastPathHolds ==
    ASSUME StrictClock, ~Overlap, ~Reverts
    PROVE  Spec => []FastPathSound
<1>1. Init => FreshInv
  BY DEF Init, FreshInv, FreshTask, Knowing, Idle
<1>2. TypeOK /\ StoreInv /\ NumsUnique /\ NumberedByAge /\ KnownInv /\ FreshInv
         /\ [Next]_vars => FreshInv'
  BY FreshStep
<1>3. Spec => [](TypeOK /\ StoreInv /\ NumsUnique /\ NumberedByAge /\ Alone /\ KnownInv)
  BY UnsharedFiles
<1>. QED BY <1>1, <1>2, <1>3, FreshMeansSound, PTL DEF Spec
=============================================================================
