------------------------------- MODULE ScanPool -------------------------------
(***************************************************************************)
(* The inside of one RunScan (internal/agent/scan.go): the goroutine that  *)
(* sends every entry to be verified into the bounded channel workCh, the   *)
(* scan workers, which hash a blob on the server and compare, and the      *)
(* verdict.  StopScan cancels the context at any time.                     *)
(*                                                                         *)
(* Unlike the walk of a backup (WorkerPool), the send is not a select with *)
(* ctx.Done(), and a worker that finds the context cancelled returns       *)
(* without draining the channel: that the two cannot leave the sender      *)
(* waiting for room for ever is for the model to show.                     *)
(***************************************************************************)
EXTENDS Naturals, Sequences, FiniteSets

CONSTANTS
    Workers,
    NumEntries,    \* ListLatestVersionsForScan, scoped to the source directories
    Capacity,      \* of workCh; 64 in the code
    MaxUnreached,  \* bound: entries whose connection or hashing fails
    NoEntry

ASSUME ScanPoolAssumption ==
    /\ IsFiniteSet(Workers) /\ Workers # {}
    /\ NumEntries \in Nat /\ MaxUnreached \in Nat /\ Capacity \in Nat \ {0}
    /\ NoEntry \notin 1 .. NumEntries

VARIABLES
    damaged,          \* the entries whose blob no longer has its recorded hash
    at, next,         \* the sending goroutine
    workCh,
    pc, item,         \* the workers
    inconsistencies,  \* the entries found damaged
    filesScanned, errCount,
    cancelled, status

producer == <<at, next>>
pool == <<pc, item>>
counts == <<inconsistencies, filesScanned, errCount>>
vars == <<damaged, producer, workCh, pool, counts, cancelled, status>>

Entries == 1 .. NumEntries
Closed == at \notin {"send", "sending"}

Init ==
    /\ damaged \in SUBSET Entries
    /\ at = "send" /\ next = 1 /\ workCh = <<>>
    /\ pc = [w \in Workers |-> "ready"] /\ item = [w \in Workers |-> NoEntry]
    /\ inconsistencies = {} /\ filesScanned = 0 /\ errCount = 0
    /\ cancelled = FALSE /\ status = "running"

-----------------------------------------------------------------------------
(* The sending goroutine *)


\* The loop tests the context and then sends; "sending" is past the test.
Test ==
    /\ at = "send"
    /\ at' = IF next \notin Entries \/ cancelled THEN "wait" ELSE "sending"
    /\ UNCHANGED <<damaged, next, workCh, pool, counts, cancelled, status>>

\* Fault: an unbounded channel.
SendUnbounded ==
    /\ at = "sending"
    /\ workCh' = Append(workCh, next)
    /\ next' = next + 1
    /\ at' = "send"
    /\ UNCHANGED <<damaged, pool, counts, cancelled, status>>

Send ==
    /\ at = "sending" /\ Len(workCh) < Capacity
    /\ workCh' = Append(workCh, next)
    /\ next' = next + 1
    /\ at' = "send"
    /\ UNCHANGED <<damaged, pool, counts, cancelled, status>>

\* Fault: the verdict does not wait for the workers.
WaitSkipped ==
    /\ at = "wait"
    /\ at' = "decide"
    /\ UNCHANGED <<damaged, next, workCh, pool, counts, cancelled, status>>

\* wg.Wait returns
WaitEnds ==
    /\ at = "wait" /\ \A w \in Workers : pc[w] = "gone"
    /\ at' = "decide"
    /\ UNCHANGED <<damaged, next, workCh, pool, counts, cancelled, status>>

Decide ==
    /\ at = "decide"
    /\ status' = IF cancelled THEN "stopped"
                 ELSE IF inconsistencies # {} \/ errCount > 0
                 THEN "completed_with_errors"
                 ELSE "completed"
    /\ at' = "returned"
    /\ UNCHANGED <<damaged, next, workCh, pool, counts, cancelled>>

-----------------------------------------------------------------------------
(* A worker *)

\* Receives an entry; with a cancelled context it returns instead of scanning.
Receive(w) ==
    /\ pc[w] = "ready" /\ workCh # <<>>
    /\ workCh' = Tail(workCh)
    /\ IF cancelled
       THEN pc' = [pc EXCEPT ![w] = "gone"] /\ UNCHANGED item
       ELSE /\ pc' = [pc EXCEPT ![w] = "hashing"]
            /\ item' = [item EXCEPT ![w] = Head(workCh)]
    /\ UNCHANGED <<damaged, producer, counts, cancelled, status>>

RangeEnds(w) ==
    /\ pc[w] = "ready" /\ workCh = <<>> /\ Closed
    /\ pc' = [pc EXCEPT ![w] = "gone"]
    /\ UNCHANGED <<damaged, producer, workCh, item, counts, cancelled, status>>

Scanned(w) ==
    /\ filesScanned' = filesScanned + 1
    /\ pc' = [pc EXCEPT ![w] = "ready"]
    /\ item' = [item EXCEPT ![w] = NoEntry]

\* HashBlob answers and the hash is compared.
Verify(w) ==
    /\ pc[w] = "hashing"
    /\ inconsistencies' = inconsistencies \cup ({item[w]} \cap damaged)
    /\ Scanned(w)
    /\ UNCHANGED <<damaged, producer, workCh, errCount, cancelled, status>>

\* NewClient or HashBlob fails.
Unreached(w) ==
    /\ pc[w] = "hashing" /\ errCount < MaxUnreached
    /\ errCount' = errCount + 1
    /\ Scanned(w)
    /\ UNCHANGED <<damaged, producer, workCh, inconsistencies, cancelled, status>>

StopScan ==
    /\ ~cancelled /\ at # "returned"
    /\ cancelled' = TRUE
    /\ UNCHANGED <<damaged, producer, workCh, pool, counts, status>>

-----------------------------------------------------------------------------
Main == Test \/ Send \/ WaitEnds \/ Decide
Work(w) == Receive(w) \/ RangeEnds(w) \/ Verify(w) \/ Unreached(w)

Next == Main \/ StopScan \/ \E w \in Workers : Work(w)

\* Goroutines that can run do.
Spec == /\ Init /\ [][Next]_vars
        /\ WF_vars(Main) /\ \A w \in Workers : WF_vars(Work(w))

-----------------------------------------------------------------------------
(* Properties *)

\* Type invariant of the channel, the workers and the counts.
TypeOK ==
    /\ damaged \subseteq Entries
    /\ at \in {"send", "sending", "wait", "decide", "returned"}
    /\ next \in 1 .. NumEntries + 1
    /\ workCh \in Seq(Entries) /\ Len(workCh) <= Capacity
    /\ pc \in [Workers -> {"ready", "hashing", "gone"}]
    /\ item \in [Workers -> Entries \cup {NoEntry}]
    /\ inconsistencies \subseteq Entries
    /\ filesScanned \in Nat /\ errCount \in Nat
    /\ cancelled \in BOOLEAN
    /\ status \in {"running", "stopped", "completed", "completed_with_errors"}

\* The verdict of a scan nobody stopped is right: every entry was scanned, a
\* damaged one is reported unless its blob could not be hashed (which is
\* counted), and "completed" is only said of an archive without damage.
VerdictRight ==
    status \in {"completed", "completed_with_errors"} =>
        /\ filesScanned = NumEntries
        /\ inconsistencies \subseteq damaged
        /\ Cardinality(damaged \ inconsistencies) <= errCount
        /\ status = "completed" => damaged = {}

=============================================================================
