------------------------------ MODULE BackupStore ------------------------------
(***************************************************************************)
(* The backup of files into versions: the upload workers of Agent.Run,     *)
(* each running processFile (internal/agent/agent.go), against the         *)
(* file_versions table (module Catalog) and the blobs on the remote        *)
(* server, while the source files are edited.  A step is one read of the   *)
(* source, one database transaction or one remote operation; everything    *)
(* between two of them is local to the worker.                             *)
(*                                                                         *)
(* The context is tested once, before the first step, so cancelling a run  *)
(* never interrupts a file: it only stops TakeFile from being taken.       *)
(***************************************************************************)
EXTENDS Catalog

CONSTANTS
    Files, Workers, Blobs,   \* Blobs: the uuids that may be drawn
    NoFile, NoHash, NoBlob,
    Torn,                    \* a blob holding a mixture of two contents
    SizeOf(_),               \* the size of a content
    MaxEdits,                \* bound: modifications of one source file
    MaxFaults,               \* bound: failed operations and process crashes
    Reverts,                 \* TRUE: an edit may bring an earlier content back
    Overlap,                 \* TRUE: nested source directories list a file twice
    StrictClock              \* TRUE: two versions never share an encrypted_at

ASSUME BackupStoreAssumption ==
    /\ MaxEdits \in Nat
    /\ MaxFaults \in Nat
    /\ \A c \in 0 .. MaxEdits : SizeOf(c) \in Nat
    /\ Reverts \in BOOLEAN /\ Overlap \in BOOLEAN /\ StrictClock \in BOOLEAN
    /\ NoBlob \notin Blobs /\ NoFile \notin Files
    /\ NoHash \notin Nat /\ Torn \notin Nat

VARIABLES
    source,    \* source[f]: the content and mtime of the file on disk
    versions,  \* the rows of file_versions
    clock,     \* the last encrypted_at written
    stored,    \* stored[b]: what the server has under blob id b
    payload,   \* payload[b]: the content that was encrypted into b
    pc,        \* pc[w]: where worker w is in processFile
    task,      \* task[w]: its file and the values it has read so far
    held,      \* held[w]: the blob it is uploading, or about to delete
    faults

vars == <<source, versions, clock, stored, payload, pc, task, held, faults>>
locals == <<pc, task, held>>
remote == <<stored, payload>>

\* What a file may contain: the n-th modification may bring the content n.  A
\* content stands for its own SHA-256 hash.
Contents == 0 .. MaxEdits

Row == [file : Files, num : Nat, blob : Blobs, hash : Contents, size : Nat,
        mtime : Nat, at : Nat]

Task == [file : Files \cup {NoFile}, size : Nat, mtime : Nat,
         known : Contents \cup {NoHash}, hash : Contents \cup {NoHash},
         read : Contents \cup {NoHash}]

NoTask == [file |-> NoFile, size |-> 0, mtime |-> 0, known |-> NoHash,
           hash |-> NoHash, read |-> NoHash]

Idle == "idle"
\* from the uuid to the last use of the blob it stands for
Holding == {"uploading", "uploaded", "evicting"}
Steps == {Idle, "looking", "hashing", "same", "changed"} \cup Holding

Init ==
    /\ source = [f \in Files |-> [content |-> 0, mtime |-> 0]]
    /\ versions = {}
    /\ clock = 0
    /\ stored = [b \in Blobs |-> "none"]
    /\ payload = [b \in Blobs |-> NoHash]
    /\ pc = [w \in Workers |-> Idle]
    /\ task = [w \in Workers |-> NoTask]
    /\ held = [w \in Workers |-> NoBlob]
    /\ faults = 0

-----------------------------------------------------------------------------
(* The source files.  Every modification gives the file a new mtime; the    *)
(* deliberate mtime resets that processFile documents as missed are left    *)
(* out.  A modification that keeps the content is a touch.                  *)

NewContents(f) ==
    {source[f].content, source[f].mtime + 1}
        \cup (IF Reverts THEN 0 .. source[f].mtime ELSE {})

Edit(f) ==
    /\ source[f].mtime < MaxEdits
    /\ \E c \in NewContents(f) :
          source' = [source EXCEPT ![f] = [content |-> c, mtime |-> @.mtime + 1]]
    /\ UNCHANGED <<versions, clock, remote, locals, faults>>

-----------------------------------------------------------------------------
(* processFile                                                              *)

Finish(w) ==
    /\ pc' = [pc EXCEPT ![w] = Idle]
    /\ task' = [task EXCEPT ![w] = NoTask]
    /\ held' = [held EXCEPT ![w] = NoBlob]

Fault == faults < MaxFaults /\ faults' = faults + 1

\* The walk hands the file to a worker, which stats it.  Each path is sent
\* once per source directory that contains it.
TakeFile(w, f) ==
    /\ pc[w] = Idle
    /\ Overlap \/ \A v \in Workers : task[v].file # f
    /\ pc' = [pc EXCEPT ![w] = "looking"]
    /\ task' = [task EXCEPT ![w] =
                  [NoTask EXCEPT !.file = f,
                                 !.size = SizeOf(source[f].content),
                                 !.mtime = source[f].mtime]]
    /\ UNCHANGED <<source, versions, clock, remote, held, faults>>

\* Fault: the pre-check looks at the size alone.
SameStatSizeOnly(t, r) == t.size = r.size

SameStat(t, r) == t.size = r.size /\ t.mtime = r.mtime

\* GetLatestVersionInfo returns a row with the same size and mtime: skipped.
FastSkip(w) ==
    /\ pc[w] = "looking"
    /\ \E r \in Newest(versions, task[w].file) : SameStat(task[w], r)
    /\ Finish(w)
    /\ UNCHANGED <<source, versions, clock, remote, faults>>

\* GetLatestVersionInfo returns no row, or one whose size or mtime differs.
Lookup(w) ==
    /\ pc[w] = "looking"
    /\ LET newest == Newest(versions, task[w].file)
           known == IF newest = {} THEN {NoHash}
                    ELSE {r.hash : r \in {s \in newest : ~SameStat(task[w], s)}}
       IN \E h \in known : task' = [task EXCEPT ![w].known = h]
    /\ pc' = [pc EXCEPT ![w] = "hashing"]
    /\ UNCHANGED <<source, versions, clock, remote, held, faults>>

HashFile(w) ==
    /\ pc[w] = "hashing"
    /\ LET h == source[task[w].file].content IN
          /\ task' = [task EXCEPT ![w].hash = h]
          /\ pc' = [pc EXCEPT ![w] = IF h = task[w].known THEN "same" ELSE "changed"]
    /\ UNCHANGED <<source, versions, clock, remote, held, faults>>

\* UpdateLatestVersionMtime; its failure is logged and changes nothing.
RefreshMtime(w) ==
    /\ pc[w] = "same"
    /\ \/ /\ versions' \in MtimeRefreshed(versions, task[w].file, task[w].mtime)
          /\ UNCHANGED faults
       \/ /\ Fault
          /\ UNCHANGED versions
    /\ Finish(w)
    /\ UNCHANGED <<source, clock, remote>>

\* Fault: the name of a blob need not be new.
AnyBlobs == Blobs

FreshBlobs == {b \in Blobs : stored[b] = "none"}

\* os.Open, a fresh uuid, and "cat >" has created the blob.
StartUpload(w) ==
    /\ pc[w] = "changed"
    /\ \E b \in FreshBlobs :
          /\ stored' = [stored EXCEPT ![b] = "partial"]
          /\ held' = [held EXCEPT ![w] = b]
    /\ task' = [task EXCEPT ![w].read = source[task[w].file].content]
    /\ pc' = [pc EXCEPT ![w] = "uploading"]
    /\ UNCHANGED <<source, versions, clock, payload, faults>>

\* What the stream carried: the content at os.Open, the content now, or parts
\* of both when the file was written to meanwhile.
Streamed(w) ==
    LET now == source[task[w].file].content IN
    IF now = task[w].read THEN {now} ELSE {task[w].read, now, Torn}

UploadDone(w) ==
    /\ pc[w] = "uploading"
    /\ stored' = [stored EXCEPT ![held[w]] = "complete"]
    /\ \E c \in Streamed(w) : payload' = [payload EXCEPT ![held[w]] = c]
    /\ pc' = [pc EXCEPT ![w] = "uploaded"]
    /\ UNCHANGED <<source, versions, clock, task, held, faults>>

\* UploadBlob or the encryption fails: before the blob exists, or half-way.
UploadFails(w) ==
    /\ pc[w] = "uploading"
    /\ Fault
    /\ \E s \in {"none", "partial"} : stored' = [stored EXCEPT ![held[w]] = s]
    /\ Finish(w)
    /\ UNCHANGED <<source, versions, clock, payload>>

\* time.Now() in the transaction: at least the last stamp written.
Stamps(f) ==
    {t \in {clock, clock + 1} :
        StrictClock => \A r \in VersionsOf(versions, f) : r.at < t}

\* Faults: the hash of the last version is recorded; the file is stat'ed again
\* when its version is recorded.
NewRowOldHash(w, n, t) ==
    [file |-> task[w].file, num |-> n, blob |-> held[w], hash |-> task[w].known,
     size |-> task[w].size, mtime |-> task[w].mtime, at |-> t]

NewRowLateStat(w, n, t) ==
    [file |-> task[w].file, num |-> n, blob |-> held[w], hash |-> task[w].hash,
     size |-> SizeOf(source[task[w].file].content),
     mtime |-> source[task[w].file].mtime, at |-> t]

NewRow(w, n, t) ==
    [file |-> task[w].file, num |-> n, blob |-> held[w], hash |-> task[w].hash,
     size |-> task[w].size, mtime |-> task[w].mtime, at |-> t]

\* The transaction commits; an evicted blob is the worker's to delete.
Committed(w, t, out) ==
    /\ versions' = out.rows
    /\ clock' = t
    /\ IF out.evicted = {}
       THEN Finish(w)
       ELSE \E old \in out.evicted :
               /\ held' = [held EXCEPT ![w] = old.blob]
               /\ pc' = [pc EXCEPT ![w] = "evicting"]
               /\ UNCHANGED task

\* UpsertFileVersion
Upsert(w) ==
    /\ pc[w] = "uploaded"
    /\ \E n \in NextNums(versions, task[w].file), t \in Stamps(task[w].file) :
       \E out \in Upserted(versions, NewRow(w, n, t)) : Committed(w, t, out)
    /\ UNCHANGED <<source, remote, faults>>

\* The transaction fails and is rolled back; the blob stays on the server.
UpsertFails(w) ==
    /\ pc[w] = "uploaded"
    /\ Fault
    /\ Finish(w)
    /\ UNCHANGED <<source, versions, clock, remote>>

\* Fault: the evicted blob is not deleted.
DeleteEvictedSkipped(w) ==
    /\ pc[w] = "evicting"
    /\ Finish(w)
    /\ UNCHANGED <<source, versions, clock, remote, faults>>

\* DeleteBlob of the evicted blob; its failure is only logged.
DeleteEvicted(w) ==
    /\ pc[w] = "evicting"
    /\ \/ /\ stored' = [stored EXCEPT ![held[w]] = "deleted"]
          /\ UNCHANGED faults
       \/ /\ Fault
          /\ UNCHANGED stored
    /\ Finish(w)
    /\ UNCHANGED <<source, versions, clock, payload>>

\* GetLatestVersionInfo, HashFile or os.Open returns an error.
ReadFails(w) ==
    /\ pc[w] \in {"looking", "hashing", "changed"}
    /\ Fault
    /\ Finish(w)
    /\ UNCHANGED <<source, versions, clock, remote>>

\* The process dies; the database and the server keep what they have.
Crash ==
    /\ \E w \in Workers : pc[w] # Idle
    /\ Fault
    /\ pc' = [w \in Workers |-> Idle]
    /\ task' = [w \in Workers |-> NoTask]
    /\ held' = [w \in Workers |-> NoBlob]
    /\ UNCHANGED <<source, versions, clock, remote>>

-----------------------------------------------------------------------------
Progress(w) ==
    \/ FastSkip(w) \/ Lookup(w) \/ HashFile(w) \/ RefreshMtime(w)
    \/ StartUpload(w) \/ UploadDone(w) \/ Upsert(w) \/ DeleteEvicted(w)

Fails(w) == UploadFails(w) \/ UpsertFails(w) \/ ReadFails(w)

Next ==
    \/ \E f \in Files : Edit(f)
    \/ \E w \in Workers, f \in Files : TakeFile(w, f)
    \/ \E w \in Workers : Progress(w) \/ Fails(w)
    \/ Crash

Spec == Init /\ [][Next]_vars

\* A started step of a worker ends (every remote operation returns), and the
\* scheduler keeps running jobs whose walk sends every file of the source.
Fairness ==
    /\ \A w \in Workers : WF_vars(Progress(w))
    /\ \A f \in Files : SF_vars(\E w \in Workers : TakeFile(w, f))

FairSpec == Spec /\ Fairness

-----------------------------------------------------------------------------
(* Properties *)

\* Type invariant of the table, the server and the workers' locals.
TypeOK ==
    /\ source \in [Files -> [content : Contents, mtime : Nat]]
    /\ versions \in SUBSET Row
    /\ IsFiniteSet(versions)
    /\ clock \in Nat
    /\ stored \in [Blobs -> {"none", "partial", "complete", "deleted"}]
    /\ payload \in [Blobs -> Contents \cup {NoHash, Torn}]
    /\ pc \in [Workers -> Steps]
    /\ task \in [Workers -> Task]
    /\ \A w \in Workers : pc[w] # Idle => task[w].file \in Files
    /\ \A w \in Workers : pc[w] \in {"same", "changed"} \cup Holding => task[w].hash \in Contents
    /\ held \in [Workers -> Blobs \cup {NoBlob}]
    /\ \A w \in Workers : pc[w] \in Holding => held[w] \in Blobs
    /\ faults \in Nat

\* Every recorded version can be downloaded: its blob is on the server, in
\* full, whatever failed, crashed or was evicted meanwhile (processFile records
\* a version after its upload and deletes a blob after its row is gone).
NoDangling == \A r \in versions : stored[r.blob] = "complete"

\* A worker never uploads into, or is about to delete, a blob that a version
\* still refers to, and no two workers hold the same blob.
HeldIsPrivate ==
    /\ \A w \in Workers : pc[w] \in Holding =>
          \A r \in versions : r.blob # held[w]
    /\ \A v, w \in Workers :
          pc[v] \in Holding /\ pc[w] \in Holding /\ held[v] = held[w] => v = w

\* No two versions are kept in the same blob.
OneBlobPerVersion == \A r, s \in versions : r.blob = s.blob => r = s

\* What a worker holds is on the server in the state its step left it in.
HeldState ==
    \A w \in Workers :
        /\ pc[w] = "uploading" => stored[held[w]] = "partial"
        /\ pc[w] \in {"uploaded", "evicting"} => stored[held[w]] = "complete"

\* The inductive strengthening of NoDangling.
StoreInv == NoDangling /\ OneBlobPerVersion /\ HeldIsPrivate /\ HeldState

\* A file never has more than MaxVersions versions, whichever workers insert.
VersionCap ==
    \A f \in Files : Cardinality(VersionsOf(versions, f)) <= MaxVersions

\* A version number names one version of a file, also after evictions.
NumsUnique ==
    \A r, s \in versions : r.file = s.file /\ r.num = s.num => r = s

\* Ordering a file's versions by encrypted_at, as the queries do, is ordering
\* them by number, as the UI shows them (when no two share a stamp).
NumberedByAge ==
    \A r, s \in versions :
        r.file = s.file => (r.num < s.num <=> r.at < s.at)

\* A version disappears only when its file is full, it is an oldest one by
\* encrypted_at, and the same step records a newer version of the file with a
\* number above all others (README.md:54-57).
OldestStep ==
    \A r \in versions :
        ~(\E s \in versions' : s.file = r.file /\ s.num = r.num) =>
            LET mine == VersionsOf(versions, r.file) IN
            /\ Cardinality(mine) = MaxVersions
            /\ \A s \in mine : r.at <= s.at
            /\ \E new \in versions' :
                  new.file = r.file /\ \A s \in mine : s.num < new.num

OnlyOldestGoes == [][OldestStep]_vars

\* A file whose size and mtime equal those of its newest version is skipped
\* without being read, so that version must hold the content the file has now.
FastPathSound ==
    \A f \in Files : \A r \in Newest(versions, f) :
        r.size = SizeOf(source[f].content) /\ r.mtime = source[f].mtime
            => payload[r.blob] = source[f].content

\* A version is recorded only for changed content: two versions of a file with
\* none between them have different hashes (README.md:13, "SHA-256 content
\* hashing skips unchanged files").
NeighboursDiffer ==
    \A r, s \in versions :
        /\ r.file = s.file /\ r.num < s.num
        /\ \A t \in VersionsOf(versions, r.file) : ~(r.num < t.num /\ t.num < s.num)
        => r.hash # s.hash

\* Without a failure or a crash nothing is left on the server that is neither
\* recorded nor in a worker's hands (README.md:12, an evicted version goes
\* "from both DB and remote").
NoOrphans ==
    faults = 0 =>
        \A b \in Blobs : stored[b] \in {"partial", "complete"} =>
            \/ \E r \in versions : r.blob = b
            \/ \E w \in Workers : pc[w] \in Holding /\ held[w] = b

\* The versions of the table whose blob is complete are a VersionHistory.
Restorable(f) ==
    {[num |-> r.num, hash |-> r.hash] :
        r \in {s \in VersionsOf(versions, f) : stored[s.blob] = "complete"}}

History == INSTANCE VersionHistory WITH
               Hashes <- Contents,
               history <- [f \in Files |-> Restorable(f)]

HistorySpec == History!Spec

\* Once a file stops changing, its newest version ends up holding its content,
\* unless the bound on uploads is met first: failures and crashes cost a run,
\* and a worker that was late to record an older content costs another one,
\* never the file.
EventuallyBackedUp ==
    \A f \in Files :
        <>[](\/ \E r \in Newest(versions, f) : payload[r.blob] = source[f].content
             \/ FreshBlobs = {})
=============================================================================
