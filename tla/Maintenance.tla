------------------------------ MODULE Maintenance ------------------------------
(***************************************************************************)
(* What removes versions for good, beside the backups that record them:    *)
(* PurgeByPrefixWithReport and PurgeFileVersion (internal/agent/purge.go), *)
(* which no flag keeps from running during a backup, and the retention     *)
(* pass that ends a run (applyDeletedSourceRetention, agent.go).  All of   *)
(* them delete blobs first and rows last, so each one leaves rows without  *)
(* a blob while it is at work, and for longer when it does not finish.     *)
(*                                                                         *)
(* The files table joins the state of BackupStore: the AUTOINCREMENT id of *)
(* a file's row and its deleted_at marker.  Time is counted in days.       *)
(***************************************************************************)
EXTENDS BackupStore

CONSTANTS
    Purgers,      \* concurrent calls of PurgeFileVersion
    Scopes,       \* the sets of files that a display prefix may name
    Retention,    \* opts.DeletedRetention, in days
    MaxDays       \* bound: days that pass

ASSUME MaintenanceAssumption ==
    /\ Scopes \subseteq SUBSET Files
    /\ Retention \in Nat \ {0} /\ MaxDays \in Nat \ {0}

VARIABLES
    entry,     \* entry[f]: the row of files, its id and its deleted_at
    nextID,    \* the next AUTOINCREMENT id
    gone,      \* the source files that do not exist now
    today,
    walk,      \* the walk of the run: what it has still to visit, to hand out
    retain,    \* the retention pass of the run
    prefix,    \* PurgeByPrefixWithReport
    single,    \* single[p]: PurgeFileVersion
    raced,     \* the calls of it that another one has overtaken (see Overtaken)
    lastSeen   \* lastSeen[f]: the last day a walk met f (of no use to the code)

table == <<entry, nextID>>
outside == <<gone, today, lastSeen>>
run == <<walk, retain>>
purges == <<prefix, single, raced>>
mvars == <<vars, table, outside, run, purges>>

\* id 0: no row; deleted 0: deleted_at is NULL.
NoEntry == [id |-> 0, deleted |-> 0]
NoWalk == [on |-> FALSE, stopped |-> FALSE, left |-> {}, queue |-> {}, seen |-> {}]
NoRetain == [at |-> "off", now |-> 0, left |-> {}, ids |-> {}, blobs |-> {},
             failed |-> {}]
NoPrefix == [at |-> "off", scope |-> {}, listed |-> {}, blobs |-> {}, failed |-> {}]
NoSingle == [at |-> "off", id |-> 0, num |-> 0, blob |-> NoBlob]

MaintInit ==
    /\ Init
    /\ entry = [f \in Files |-> NoEntry] /\ nextID = 1
    /\ gone = {} /\ today = 1 /\ lastSeen = [f \in Files |-> 0]
    /\ walk = NoWalk /\ retain = NoRetain
    /\ prefix = NoPrefix /\ single = [p \in Purgers |-> NoSingle]
    /\ raced = {}

\* DeleteBlob succeeds, finds nothing ("no such file" is tolerated everywhere),
\* or fails and leaves the blob where it is.
Deleted(b) ==
    /\ stored' = IF stored[b] \in {"partial", "complete"}
                 THEN [stored EXCEPT ![b] = "deleted"]
                 ELSE stored
    /\ UNCHANGED faults

NotDeleted == Fault /\ UNCHANGED stored

-----------------------------------------------------------------------------
(* The source and the calendar *)

Vanish(f) ==
    /\ f \notin gone
    /\ gone' = gone \cup {f}
    /\ UNCHANGED <<vars, table, today, lastSeen, run, purges>>

\* The file comes back as it was, as a remounted disk brings it back.
Reappear(f) ==
    /\ f \in gone
    /\ gone' = gone \ {f}
    /\ UNCHANGED <<vars, table, today, lastSeen, run, purges>>

EditPresent(f) ==
    /\ f \notin gone
    /\ Edit(f)
    /\ UNCHANGED <<table, outside, run, purges>>

NextDay ==
    /\ today < MaxDays
    /\ today' = today + 1
    /\ UNCHANGED <<vars, table, gone, lastSeen, run, purges>>

-----------------------------------------------------------------------------
(* A run: the walk and the workers *)

StartRun ==
    /\ ~walk.on /\ retain.at = "off"
    /\ walk' = [NoWalk EXCEPT !.on = TRUE, !.left = Files]
    /\ UNCHANGED <<vars, table, outside, retain, purges>>

\* Stop, at any time of the run
Stop ==
    /\ walk.on \/ retain.at # "off"
    /\ ~walk.stopped
    /\ Fault
    /\ walk' = [walk EXCEPT !.stopped = TRUE]
    /\ UNCHANGED <<source, versions, clock, remote, locals, table, outside,
                   retain, purges>>

\* The walk meets the file: seenPaths, then workCh.
Visit(f) ==
    /\ f \in walk.left \ gone
    /\ walk' = [walk EXCEPT !.left = @ \ {f}, !.seen = @ \cup {f},
                            !.queue = @ \cup {f}]
    /\ lastSeen' = [lastSeen EXCEPT ![f] = today]
    /\ UNCHANGED <<vars, table, gone, today, retain, purges>>

\* The directory does not list the file, or it cannot be read.
Miss(f) ==
    /\ f \in walk.left
    /\ IF f \in gone THEN UNCHANGED faults ELSE Fault
    /\ walk' = [walk EXCEPT !.left = @ \ {f}]
    /\ UNCHANGED <<source, versions, clock, remote, locals, table, outside,
                   retain, purges>>

Take(w, f) ==
    /\ f \in walk.queue \ gone
    /\ TakeFile(w, f)
    /\ walk' = [walk EXCEPT !.queue = @ \ {f}]
    /\ UNCHANGED <<table, outside, retain, purges>>

\* processFile finds the context cancelled, or os.Stat fails.
TakeNothing(f) ==
    /\ f \in walk.queue
    /\ walk.stopped \/ f \in gone
    /\ walk' = [walk EXCEPT !.queue = @ \ {f}]
    /\ UNCHANGED <<vars, table, outside, retain, purges>>

\* The steps of processFile that touch neither the source nor the files table.
Work(w) ==
    /\ \/ FastSkip(w) \/ Lookup(w) \/ RefreshMtime(w) \/ UploadDone(w)
       \/ DeleteEvicted(w) \/ Fails(w)
    /\ UNCHANGED <<table, outside, run, purges>>

\* The steps that open the file
Read(w) ==
    /\ task[w].file \notin gone
    /\ HashFile(w) \/ StartUpload(w)
    /\ UNCHANGED <<table, outside, run, purges>>

Vanished(w) ==
    /\ pc[w] \in {"hashing", "changed"} /\ task[w].file \in gone
    /\ Finish(w)
    /\ UNCHANGED <<source, versions, clock, remote, faults, table, outside, run,
                   purges>>

\* Fault: without AUTOINCREMENT an id that is free is given again.
EntryForReused(f) ==
    [id |-> IF entry[f].id # 0 THEN entry[f].id
            ELSE CHOOSE i \in 1 .. nextID : \A g \in Files : entry[g].id # i,
     deleted |-> 0]

\* The row of files that UpsertFileVersion inserts, or finds and unmarks.
EntryFor(f) ==
    [id |-> IF entry[f].id # 0 THEN entry[f].id ELSE nextID, deleted |-> 0]

Record(w) ==
    /\ Upsert(w)
    /\ LET f == task[w].file IN
          /\ entry' = [entry EXCEPT ![f] = EntryFor(f)]
          /\ nextID' = IF entry[f].id # 0 THEN nextID ELSE nextID + 1
    /\ UNCHANGED <<outside, run, purges>>

-----------------------------------------------------------------------------
(* The end of a run: the retention pass *)

Tracked == {f \in Files : entry[f].id # 0}

\* close, wg.Wait, and unless the run was stopped ListFileLifecycleEntries
EndWalk ==
    /\ walk.on /\ walk.queue = {}
    /\ walk.left = {} \/ walk.stopped
    /\ \A w \in Workers : pc[w] = Idle
    /\ IF walk.stopped
       THEN walk' = NoWalk /\ UNCHANGED retain
       ELSE /\ walk' = [walk EXCEPT !.on = FALSE]
            /\ retain' = [NoRetain EXCEPT !.at = "marking", !.now = today,
                                          !.left = Tracked]
    /\ UNCHANGED <<vars, table, outside, purges>>

EndRun == walk' = NoWalk /\ retain' = NoRetain

\* Fault: the marker of a file that is back stays.
MarkedOnly(f) ==
    [entry EXCEPT ![f].deleted =
        IF f \notin walk.seen /\ @ = 0 /\ entry[f].id # 0 THEN retain.now ELSE @]

\* ClearFileDeleted for a file the walk has seen, MarkFileDeletedIfUnset for
\* another one; neither finds anything when a purge has removed the row.
Marked(f) ==
    [entry EXCEPT ![f].deleted =
        IF f \in walk.seen \/ entry[f].id = 0 THEN 0
        ELSE IF @ = 0 THEN retain.now ELSE @]

\* retention > 0 and the marker is not after the cutoff
Expired(f) ==
    /\ f \notin walk.seen
    /\ entry[f].deleted # 0 /\ entry[f].deleted + Retention <= retain.now

\* One iteration of the loop over the entries; a failing update is counted.
Judge(f) ==
    /\ retain.at = "marking" /\ f \in retain.left
    /\ retain' = [retain EXCEPT !.left = @ \ {f},
                     !.ids = @ \cup (IF Expired(f) THEN {entry[f].id} ELSE {})]
    /\ \/ entry' = Marked(f) /\ UNCHANGED faults
       \/ Marked(f) # entry /\ Fault /\ UNCHANGED entry
    /\ UNCHANGED <<source, versions, clock, remote, locals, nextID, outside, walk,
                   purges>>

OfIDs(ids) == {r \in versions : entry[r.file].id \in ids}

\* Nothing has expired, the run was stopped, or a query, the connection fails.
RetainNothing ==
    /\ retain.at = "marking"
    /\ IF retain.left = {} /\ (retain.ids = {} \/ walk.stopped)
       THEN UNCHANGED faults
       ELSE Fault
    /\ EndRun
    /\ UNCHANGED <<source, versions, clock, remote, locals, table, outside,
                   purges>>

\* ListBlobIDsByFileIDs
RetainList ==
    /\ retain.at = "marking" /\ retain.left = {} /\ retain.ids # {}
    /\ ~walk.stopped
    /\ retain' = [retain EXCEPT !.at = "deleting",
                                !.blobs = {r.blob : r \in OfIDs(retain.ids)}]
    /\ UNCHANGED <<vars, table, outside, walk, purges>>

RetainDelete(b) ==
    /\ retain.at = "deleting" /\ b \in retain.blobs
    /\ \/ /\ Deleted(b)
          /\ retain' = [retain EXCEPT !.blobs = @ \ {b}]
       \/ /\ NotDeleted
          /\ retain' = [retain EXCEPT !.blobs = @ \ {b}, !.failed = @ \cup {b}]
    /\ UNCHANGED <<source, versions, clock, payload, locals, table, outside, walk,
                   purges>>

\* The context is tested before each deletion.
RetainStopped ==
    /\ retain.at = "deleting" /\ retain.blobs # {} /\ walk.stopped
    /\ EndRun
    /\ UNCHANGED <<vars, table, outside, purges>>

\* DeleteFilesByIDs, in one transaction, which may fail
RetainRemove ==
    /\ retain.at = "deleting" /\ retain.blobs = {}
    /\ \/ /\ versions' = versions \ OfIDs(retain.ids)
          /\ entry' = [f \in Files |->
                          IF entry[f].id \in retain.ids THEN NoEntry ELSE entry[f]]
          /\ UNCHANGED faults
       \/ Fault /\ UNCHANGED <<versions, entry>>
    /\ EndRun
    /\ UNCHANGED <<source, clock, remote, locals, nextID, outside, purges>>

-----------------------------------------------------------------------------
(* PurgeByPrefixWithReport *)

InScope(s) == {r \in versions : r.file \in s}

\* Fault: what is deleted is listed on the server, not in the table.
PurgeListServer(s) ==
    /\ prefix.at = "off"
    /\ LET blobs == {b \in Blobs : stored[b] # "none"} IN
          prefix' = [at |-> "deleting", scope |-> s, listed |-> blobs, blobs |-> blobs,
                     failed |-> {}]
    /\ UNCHANGED <<vars, table, outside, run, single, raced>>

\* ListBlobIDsByDisplayPrefix
PurgeList(s) ==
    /\ prefix.at = "off"
    /\ LET blobs == {r.blob : r \in InScope(s)} IN
          prefix' = [at |-> "deleting", scope |-> s, listed |-> blobs, blobs |-> blobs,
                     failed |-> {}]
    /\ UNCHANGED <<vars, table, outside, run, single, raced>>

PurgeBlob(b) ==
    /\ prefix.at = "deleting" /\ b \in prefix.blobs
    /\ \/ /\ Deleted(b)
          /\ prefix' = [prefix EXCEPT !.blobs = @ \ {b}]
       \/ /\ NotDeleted
          /\ prefix' = [prefix EXCEPT !.blobs = @ \ {b}, !.failed = @ \cup {b}]
    /\ UNCHANGED <<source, versions, clock, payload, locals, table, outside, run,
                   single, raced>>

\* The request's context ends with its connection and is tested before each
\* deletion: the purge returns without touching the database.
PurgeDropped ==
    /\ prefix.at = "deleting" /\ prefix.blobs # {}
    /\ Fault
    /\ prefix' = NoPrefix
    /\ UNCHANGED <<source, versions, clock, remote, locals, table, outside, run,
                   single, raced>>

\* Fault: the rows go before the blobs.
PurgeRemoveFirst ==
    /\ prefix.at = "deleting"
    /\ versions' = versions \ InScope(prefix.scope)
    /\ entry' = [f \in Files |-> IF f \in prefix.scope THEN NoEntry ELSE entry[f]]
    /\ prefix' = NoPrefix
    /\ UNCHANGED <<source, clock, remote, locals, faults, nextID, outside, run,
                   single, raced>>

\* DeleteFilesByDisplayPrefix, in one transaction: whatever has the prefix now.
PurgeRemove ==
    /\ prefix.at = "deleting" /\ prefix.blobs = {}
    /\ \/ /\ versions' = versions \ InScope(prefix.scope)
          /\ entry' = [f \in Files |->
                          IF f \in prefix.scope THEN NoEntry ELSE entry[f]]
          /\ UNCHANGED faults
       \/ Fault /\ UNCHANGED <<versions, entry>>
    /\ prefix' = NoPrefix
    /\ UNCHANGED <<source, clock, remote, locals, nextID, outside, run, single, raced>>

-----------------------------------------------------------------------------
(* PurgeFileVersion *)

\* GetFileVersions has the version; a request for another one is refused.
FindVersion(p, r) ==
    /\ single[p].at = "off"
    /\ single' = [single EXCEPT ![p] = [at |-> "found", id |-> entry[r.file].id,
                                        num |-> r.num, blob |-> r.blob]]
    /\ UNCHANGED <<vars, table, outside, run, prefix, raced>>

DeleteVersionBlob(p) ==
    /\ single[p].at = "found"
    /\ \/ /\ Deleted(single[p].blob)
          /\ single' = [single EXCEPT ![p].at = "deleted"]
          /\ UNCHANGED raced
       \/ /\ NotDeleted
          /\ single' = [single EXCEPT ![p] = NoSingle] /\ raced' = raced \ {p}
    /\ UNCHANGED <<source, versions, clock, payload, locals, table, outside, run,
                   prefix>>

Named(p) == {r \in OfIDs({single[p].id}) : r.num = single[p].num}

\* Fault: the row of a file without versions stays.
RemoveVersionOnly(p) ==
    /\ single[p].at = "deleted"
    /\ versions' = versions \ Named(p)
    /\ single' = [single EXCEPT ![p] = NoSingle] /\ raced' = raced \ {p}
    /\ UNCHANGED <<source, clock, remote, locals, faults, table, outside, run, prefix>>

\* The calls that looked up a version of the same file, with this number or a
\* lower one: a backup may give their number again once this one is free.
Overtaken(p) ==
    {q \in Purgers : /\ single[q].at # "off" /\ single[q].id = single[p].id
                     /\ single[q].num <= single[p].num}

\* DeleteFileVersion: the row that has the number now, if there is one, and the
\* file's row with its last version; the transaction may fail.
RemoveVersion(p) ==
    /\ single[p].at = "deleted"
    /\ \/ /\ versions' = versions \ Named(p)
          /\ entry' = [f \in Files |->
                          IF VersionsOf(versions', f) = {} THEN NoEntry ELSE entry[f]]
          /\ raced' = (IF Named(p) = {} THEN raced ELSE raced \cup Overtaken(p)) \ {p}
          /\ UNCHANGED faults
       \/ Fault /\ raced' = raced \ {p} /\ UNCHANGED <<versions, entry>>
    /\ single' = [single EXCEPT ![p] = NoSingle]
    /\ UNCHANGED <<source, clock, remote, locals, nextID, outside, run, prefix>>

-----------------------------------------------------------------------------
\* The server process dies: everything that was at work in it ends.
Die ==
    /\ Fault
    /\ pc' = [w \in Workers |-> Idle]
    /\ task' = [w \in Workers |-> NoTask]
    /\ held' = [w \in Workers |-> NoBlob]
    /\ EndRun
    /\ prefix' = NoPrefix /\ single' = [p \in Purgers |-> NoSingle] /\ raced' = {}
    /\ UNCHANGED <<source, versions, clock, remote, table, outside>>

World == NextDay \/ \E f \in Files : Vanish(f) \/ Reappear(f) \/ EditPresent(f)

Walk == StartRun \/ Stop \/ EndWalk \/ \E f \in Files : Visit(f) \/ Miss(f) \/ TakeNothing(f)

Backup(w) == Work(w) \/ Read(w) \/ Vanished(w) \/ Record(w) \/ \E f \in Files : Take(w, f)

Retire ==
    \/ RetainNothing \/ RetainList \/ RetainStopped \/ RetainRemove
    \/ \E f \in Files : Judge(f)
    \/ \E b \in Blobs : RetainDelete(b)

Purge ==
    \/ \E s \in Scopes : PurgeList(s)
    \/ \E b \in Blobs : PurgeBlob(b)
    \/ PurgeDropped \/ PurgeRemove

PurgeVersion(p) ==
    \/ \E r \in versions : FindVersion(p, r)
    \/ DeleteVersionBlob(p) \/ RemoveVersion(p)

MaintNext ==
    \/ World \/ Walk \/ Retire \/ Purge \/ Die
    \/ \E w \in Workers : Backup(w)
    \/ \E p \in Purgers : PurgeVersion(p)

MaintSpec == MaintInit /\ [][MaintNext]_mvars

-----------------------------------------------------------------------------
(* Properties *)

Row0 == [id : Nat, deleted : Nat]

\* Type invariant: BackupStore's, the files table (a file has a row exactly when
\* it has a version, and ids are never given twice) and the three removals.
MaintTypeOK ==
    /\ TypeOK
    /\ entry \in [Files -> Row0] /\ nextID \in Nat \ {0}
    /\ \A f \in Files : entry[f].id # 0 <=> VersionsOf(versions, f) # {}
    /\ \A f \in Files : entry[f].id < nextID /\ entry[f].deleted <= today
    /\ \A f, g \in Files : entry[f].id = entry[g].id /\ entry[f].id # 0 => f = g
    /\ gone \subseteq Files /\ today \in 1 .. MaxDays /\ lastSeen \in [Files -> Nat]
    /\ walk \in [on : BOOLEAN, stopped : BOOLEAN, left : SUBSET Files,
                 queue : SUBSET Files, seen : SUBSET Files]
    /\ retain \in [at : {"off", "marking", "deleting"}, now : Nat, left : SUBSET Files,
                   ids : SUBSET Nat, blobs : SUBSET Blobs, failed : SUBSET Blobs]
    /\ prefix \in [at : {"off", "deleting"}, scope : SUBSET Files,
                   listed : SUBSET Blobs, blobs : SUBSET Blobs, failed : SUBSET Blobs]
    /\ single \in [Purgers -> [at : {"off", "found", "deleted"}, id : Nat, num : Nat,
                               blob : Blobs \cup {NoBlob}]]
    /\ raced \subseteq Purgers

\* An active removal that is going to remove the row.
Targeted(r) ==
    \/ /\ prefix.at = "deleting"
       /\ r.file \in prefix.scope /\ r.blob \in prefix.listed
    \/ \E p \in Purgers : single[p].at = "deleted" /\ r \in Named(p)
    \/ retain.at = "deleting" /\ entry[r.file].id \in retain.ids

\* While nothing fails and nobody gives up, a version whose blob is not there is
\* in the hands of a removal that ends by removing its row; a backup at work in
\* the same file neither records such a version nor saves one (purge.go:50-53).
DanglingExplained ==
    faults = 0 =>
        \A r \in versions : stored[r.blob] # "complete" => Targeted(r)

\* No blob stays on the server because its row went first: a row goes after its
\* blob, or its blob is in a worker's hands, or its deletion failed and is
\* reported ("Remote blobs are deleted first", purge.go:50).  Two cases leave the
\* blob behind: it came after the purge had listed what it deletes, or it has the
\* number of a version that two calls of PurgeFileVersion are removing.
BlobFirst ==
    [][\A r \in versions :
          (\A s \in versions' : s.blob # r.blob) =>
              \/ stored[r.blob] = "deleted"
              \/ \E w \in Workers : held'[w] = r.blob
              \/ r.blob \in prefix.failed \cup retain.failed
              \/ r.blob \notin prefix.listed /\ prefix' # prefix
              \/ \E p \in raced : r \in Named(p) /\ single'[p] # single[p]]_mvars

\* PurgeFileVersion removes the row of the version it has looked up, or nothing,
\* also when a backup, an eviction or a purge of the whole file came in between
\* (purge.go:149 removes by id and number what line 127 looked up), unless another
\* call has meanwhile removed that version, or a newer one of the file.
VersionPurgeExact ==
    [][\A p \in Purgers \ raced :
          single[p].at = "deleted" /\ single'[p].at = "off" =>
              \A r \in versions \ versions' : r.blob = single[p].blob]_mvars

\* The retention pass removes the versions of a file only when no run has met
\* the file for the whole retention period, whatever came and went in between
\* (db.go:1133, "when a source file first disappeared").
KeptWhileUnseen ==
    [][faults' = 0 /\ retain.at = "deleting" /\ retain'.at = "off" =>
          \A r \in versions \ versions' : lastSeen[r.file] + Retention <= today]_mvars
=============================================================================
