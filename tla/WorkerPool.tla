------------------------------ MODULE WorkerPool ------------------------------
(***************************************************************************)
(* The inside of one Agent.Run (internal/agent/agent.go): the goroutine    *)
(* that walks the source directories and sends every file into the bounded *)
(* channel workCh, the upload workers that open a connection each and      *)
(* receive from it, and the end of the run: close, wg.Wait, the retention  *)
(* pass and the verdict.  Stop cancels the context at any time.            *)
(*                                                                         *)
(* Files are numbered in the order of the walk.  What processFile does to  *)
(* one of them is a single outcome here; BackupStore looks inside.         *)
(***************************************************************************)
EXTENDS Naturals, Sequences, FiniteSets

CONSTANTS
    Workers,
    NumFiles,     \* entries the walk meets
    Capacity,     \* of workCh; 64 in the code
    MaxRefused,   \* bound: workers whose connection fails
    NoFile

ASSUME WorkerPoolAssumption ==
    /\ IsFiniteSet(Workers)
    /\ NumFiles \in Nat /\ MaxRefused \in Nat /\ Capacity \in Nat \ {0}
    /\ NoFile \notin 1 .. NumFiles

VARIABLES
    at,         \* where the goroutine of Run is
    next,       \* the entry its walk is at
    seenPaths,
    workCh,
    pc, item,   \* where each worker is, and the file it has received
    outcome,    \* what became of each entry
    errCount,   \* errCount + walkErrCount
    cancelled,  \* ctx is cancelled
    refused,
    status      \* the status the run writes

walker == <<at, next, seenPaths>>
pool == <<pc, item>>
vars == <<walker, workCh, pool, outcome, errCount, cancelled, refused, status>>

Files == 1 .. NumFiles

\* close(workCh) has been called.
Closed == at \notin {"walk", "send"}

Init ==
    /\ at = "walk" /\ next = 1 /\ seenPaths = {}
    /\ workCh = <<>>
    /\ pc = [w \in Workers |-> "connecting"] /\ item = [w \in Workers |-> NoFile]
    /\ outcome = [f \in Files |-> "none"]
    /\ errCount = 0 /\ cancelled = FALSE /\ refused = 0 /\ status = "running"

Pass(result) ==
    /\ outcome' = [outcome EXCEPT ![next] = result]
    /\ next' = next + 1

-----------------------------------------------------------------------------
(* The walk *)

\* WalkDir hands an error for the entry; it is counted and the walk goes on.
VisitFails ==
    /\ at = "walk" /\ next \in Files
    /\ Pass("unreadable")
    /\ errCount' = errCount + 1
    /\ UNCHANGED <<at, seenPaths, workCh, pool, cancelled, refused, status>>

\* isExcluded
VisitExcluded ==
    /\ at = "walk" /\ next \in Files
    /\ Pass("excluded")
    /\ UNCHANGED <<at, seenPaths, workCh, pool, errCount, cancelled, refused, status>>

Visit ==
    /\ at = "walk" /\ next \in Files
    /\ seenPaths' = seenPaths \cup {next}
    /\ at' = "send"
    /\ UNCHANGED <<next, workCh, pool, outcome, errCount, cancelled, refused, status>>

\* Faults: an unbounded channel; a send that does not look at the context.
SendUnbounded ==
    /\ at = "send"
    /\ workCh' = Append(workCh, next)
    /\ next' = next + 1
    /\ at' = "walk"
    /\ UNCHANGED <<seenPaths, pool, outcome, errCount, cancelled, refused, status>>

SendNeverCancelled == FALSE /\ UNCHANGED vars

Send ==
    /\ at = "send" /\ Len(workCh) < Capacity
    /\ workCh' = Append(workCh, next)
    /\ next' = next + 1
    /\ at' = "walk"
    /\ UNCHANGED <<seenPaths, pool, outcome, errCount, cancelled, refused, status>>

\* The other branch of the select: the walk is given up.
SendCancelled ==
    /\ at = "send" /\ cancelled
    /\ at' = "wait"
    /\ UNCHANGED <<next, seenPaths, workCh, pool, outcome, errCount, cancelled,
                   refused, status>>

\* The last entry, or a cancelled context between two source directories.
WalkEnds ==
    /\ at = "walk"
    /\ next \notin Files \/ cancelled
    /\ at' = "wait"
    /\ UNCHANGED <<next, seenPaths, workCh, pool, outcome, errCount, cancelled,
                   refused, status>>

-----------------------------------------------------------------------------
(* A worker *)

Connect(w) ==
    /\ pc[w] = "connecting"
    /\ pc' = [pc EXCEPT ![w] = "ready"]
    /\ UNCHANGED <<walker, workCh, item, outcome, errCount, cancelled, refused, status>>

\* The worker logs the error and returns; nothing is counted.
ConnectFails(w) ==
    /\ pc[w] = "connecting" /\ refused < MaxRefused
    /\ refused' = refused + 1
    /\ pc' = [pc EXCEPT ![w] = "gone"]
    /\ UNCHANGED <<walker, workCh, item, outcome, errCount, cancelled, status>>

Receive(w) ==
    /\ pc[w] = "ready" /\ workCh # <<>>
    /\ item' = [item EXCEPT ![w] = Head(workCh)]
    /\ workCh' = Tail(workCh)
    /\ pc' = [pc EXCEPT ![w] = "received"]
    /\ UNCHANGED <<walker, outcome, errCount, cancelled, refused, status>>

\* Fault: a worker leaves when the channel is closed, drained or not.
RangeEndsEarly(w) ==
    /\ pc[w] = "ready" /\ Closed
    /\ pc' = [pc EXCEPT ![w] = "gone"]
    /\ UNCHANGED <<walker, workCh, item, outcome, errCount, cancelled, refused, status>>

\* The channel is drained and closed.
RangeEnds(w) ==
    /\ pc[w] = "ready" /\ workCh = <<>> /\ Closed
    /\ pc' = [pc EXCEPT ![w] = "gone"]
    /\ UNCHANGED <<walker, workCh, item, outcome, errCount, cancelled, refused, status>>

\* The first test of processFile.
Begin(w) ==
    /\ pc[w] = "received"
    /\ IF cancelled
       THEN /\ outcome' = [outcome EXCEPT ![item[w]] = "dropped"]
            /\ item' = [item EXCEPT ![w] = NoFile]
            /\ pc' = [pc EXCEPT ![w] = "ready"]
       ELSE /\ pc' = [pc EXCEPT ![w] = "processing"]
            /\ UNCHANGED <<item, outcome>>
    /\ UNCHANGED <<walker, workCh, errCount, cancelled, refused, status>>

\* Fault: an error of processFile is not counted.
EndUncounted(w) ==
    /\ pc[w] = "processing"
    /\ \E result \in {"saved", "unchanged", "failed"} :
          outcome' = [outcome EXCEPT ![item[w]] = result]
    /\ item' = [item EXCEPT ![w] = NoFile]
    /\ pc' = [pc EXCEPT ![w] = "ready"]
    /\ UNCHANGED <<walker, workCh, errCount, cancelled, refused, status>>

\* processFile returns and its result is counted.
End(w) ==
    /\ pc[w] = "processing"
    /\ \E result \in {"saved", "unchanged", "failed"} :
          /\ outcome' = [outcome EXCEPT ![item[w]] = result]
          /\ errCount' = errCount + (IF result = "failed" THEN 1 ELSE 0)
    /\ item' = [item EXCEPT ![w] = NoFile]
    /\ pc' = [pc EXCEPT ![w] = "ready"]
    /\ UNCHANGED <<walker, workCh, cancelled, refused, status>>

-----------------------------------------------------------------------------
(* The end of the run *)

\* wg.Wait returns; retention only follows a walk nobody cancelled.
WaitEnds ==
    /\ at = "wait" /\ \A w \in Workers : pc[w] = "gone"
    /\ at' = IF cancelled THEN "decide" ELSE "retain"
    /\ UNCHANGED <<next, seenPaths, workCh, pool, outcome, errCount, cancelled,
                   refused, status>>

\* applyDeletedSourceRetention and its errors.
Retain ==
    /\ at = "retain"
    /\ \E n \in {0, 1} : errCount' = errCount + n
    /\ at' = "decide"
    /\ UNCHANGED <<next, seenPaths, workCh, pool, outcome, cancelled, refused, status>>

Decide ==
    /\ at = "decide"
    /\ status' = IF cancelled THEN "stopped"
                 ELSE IF errCount > 0 THEN "completed_with_errors"
                 ELSE "completed"
    /\ at' = "returned"
    /\ UNCHANGED <<next, seenPaths, workCh, pool, outcome, errCount, cancelled, refused>>

Stop ==
    /\ ~cancelled /\ at # "returned"
    /\ cancelled' = TRUE
    /\ UNCHANGED <<walker, workCh, pool, outcome, errCount, refused, status>>

-----------------------------------------------------------------------------
Main ==
    \/ VisitFails \/ VisitExcluded \/ Visit \/ Send \/ SendCancelled \/ WalkEnds
    \/ WaitEnds \/ Retain \/ Decide

Work(w) ==
    \/ Connect(w) \/ ConnectFails(w) \/ Receive(w) \/ RangeEnds(w)
    \/ Begin(w) \/ End(w)

Next == Main \/ Stop \/ \E w \in Workers : Work(w)

\* Goroutines that can run do; nobody has to press Stop.
Spec == /\ Init /\ [][Next]_vars
        /\ WF_vars(Main) /\ \A w \in Workers : WF_vars(Work(w))

-----------------------------------------------------------------------------
(* Properties *)

\* Type invariant of the walk, the channel and the workers.
TypeOK ==
    /\ at \in {"walk", "send", "wait", "retain", "decide", "returned"}
    /\ next \in 1 .. NumFiles + 1 /\ seenPaths \subseteq Files
    /\ workCh \in Seq(Files) /\ Len(workCh) <= Capacity
    /\ pc \in [Workers -> {"connecting", "ready", "received", "processing", "gone"}]
    /\ item \in [Workers -> Files \cup {NoFile}]
    /\ outcome \in [Files -> {"none", "unreadable", "excluded", "saved",
                              "unchanged", "failed", "dropped"}]
    /\ errCount \in Nat /\ refused \in Nat
    /\ cancelled \in BOOLEAN
    /\ status \in {"running", "stopped", "completed", "completed_with_errors"}

\* Some worker has got a connection.
Connected == refused < Cardinality(Workers)

\* When the retention pass begins, no upload is under way or waiting, and all
\* the files the walk has seen have been dealt with: it never judges a file as
\* missing while a worker may still record it.
RetainsAfterAll ==
    at = "retain" /\ Connected =>
        /\ workCh = <<>>
        /\ \A w \in Workers : item[w] = NoFile
        /\ \A f \in Files : outcome[f] # "none"
        /\ seenPaths = {f \in Files : outcome[f] \notin {"unreadable", "excluded"}}

\* "errCount int // files that could not be backed up" (agent.go:309): a run
\* that ends as completed has saved, or found unchanged, every file that is
\* not excluded.
CompletedMeansAll ==
    status = "completed" =>
        \A f \in Files : outcome[f] \in {"saved", "unchanged", "excluded"}

\* The same of the runs in which a worker has got a connection.
ConnectedMeansAll == Connected => CompletedMeansAll

\* A run returns once a worker has got its connection or Stop was pressed; a
\* cancelled walk does not wait for room in the channel, so this includes the
\* stopped runs none of whose workers ever connects.  processFile counts here as
\* one outcome that comes; with compression a failing upload never gives one
\* (UploadPipeline).
RunReturns ==
    (cancelled \/ \E w \in Workers : pc[w] = "ready") ~> at = "returned"
=============================================================================
