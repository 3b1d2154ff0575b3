---------------------------- MODULE JobControlProofs ----------------------------
(***************************************************************************)
(* Proofs about JobControl, for every set of callers and stoppers and      *)
(* every number of jobs and faults: the inductive invariant JobInv, which  *)
(* gives TypeOK, OneRun, JobOwned and CancelFnLive, the refinement of      *)
(* JobLedger, who owes a status to a job, what a Stop reaches, and the     *)
(* measure that brings every caller to its end.                            *)
(***************************************************************************)
EXTENDS JobControl, TLAPS

Results == {"completed", "completed_with_errors", "stopped"}

\* What JobOwned needs to be inductive: a caller without a job has none, and
\* the verdict follows the step.
VerdictOK ==
    \A c \in Callers :
        /\ pc[c] \in {"idle", "asked"} => job[c] = NoJob
        /\ pc[c] = "updating" => verdict[c] \in Results
        /\ pc[c] \in {"leaving", "clearing"} => verdict[c] \in Results \cup {"failed"}
        /\ pc[c] \in {"idle", "asked", "created", "entered", "connecting"} => verdict[c] = "none"

JobInv == TypeOK /\ OneRun /\ VerdictOK /\ JobOwned /\ CancelFnLive

-----------------------------------------------------------------------------
LEMMA InvInit == Init => JobInv
<1>. SUFFICES ASSUME Init PROVE JobInv
  OBVIOUS
<1>. USE JobControlAssumption DEF Init, JobIDs
<1>1. TypeOK
  <2>1. errs \in [Callers -> BOOLEAN]
    OBVIOUS
  <2>2. /\ pc \in [Callers -> Steps] /\ job \in [Callers -> JobIDs \cup {NoJob}]
        /\ verdict \in [Callers -> Terminal \cup {"none"}]
        /\ stopping \in [Stoppers -> JobIDs \cup {NoJob}]
        /\ jobs \in [JobIDs -> {"absent", "running"} \cup Terminal]
    BY DEF Steps
  <2>3. /\ running \in BOOLEAN /\ cancelled = {} /\ cancelFn = NoJob /\ jobID = NoJob
        /\ nextID = 1 /\ faults = 0
    BY Zenon
  <2>. HIDE DEF Init
  <2>. QED BY <2>1, <2>2, <2>3 DEF TypeOK
<1>2. OneRun /\ VerdictOK
  BY DEF OneRun, VerdictOK, Inside
<1>3. JobOwned /\ CancelFnLive
  BY DEF JobOwned, CancelFnLive
<1>. QED BY <1>1, <1>2, <1>3 DEF JobInv

LEMMA DoneType ==
    ASSUME TypeOK, NEW c \in Callers, Done(c)
    PROVE  /\ pc' \in [Callers -> Steps] /\ job' \in [Callers -> JobIDs \cup {NoJob}]
           /\ errs' \in [Callers -> BOOLEAN]
           /\ verdict' \in [Callers -> Terminal \cup {"none"}]
BY DEF TypeOK, Done, GoTo, Steps

LEMMA UpdateType ==
    ASSUME TypeOK, NEW j \in JobIDs, NEW s \in Terminal, UpdateJob(j, s)
    PROVE  jobs' \in [JobIDs -> {"absent", "running"} \cup Terminal] /\ faults' \in Nat
BY DEF TypeOK, UpdateJob

LEMMA TypeStep == TypeOK /\ VerdictOK /\ JobOwned /\ [Next]_vars => TypeOK'
<1>. SUFFICES ASSUME TypeOK, VerdictOK, JobOwned, [Next]_vars PROVE TypeOK'
  OBVIOUS
<1>. USE DEF agent, table, callers
<1>1. ASSUME NEW c \in Callers, Ask(c) PROVE TypeOK'
  BY <1>1 DEF Ask, TypeOK, GoTo, Steps, Inside, Published
<1>2. ASSUME NEW c \in Callers, CreateJob(c) PROVE TypeOK'
  BY <1>2, JobControlAssumption DEF CreateJob, TypeOK, GoTo, Steps, Inside, Published, JobIDs,
       Terminal
<1>3. ASSUME NEW c \in Callers, CreateFails(c) PROVE TypeOK'
  BY <1>3, DoneType DEF CreateFails, TypeOK
<1>4. ASSUME NEW c \in Callers, NoSources(c) PROVE TypeOK'
  <2>1. job[c] \in JobIDs
    BY <1>4 DEF NoSources, JobOwned
  <2>. QED BY <1>4, <2>1, DoneType, UpdateType DEF NoSources, TypeOK, Terminal
<1>5. ASSUME NEW c \in Callers, Enter(c) PROVE TypeOK'
  BY <1>5 DEF Enter, TypeOK, GoTo, Steps, Inside, Published
<1>6. ASSUME NEW c \in Callers, BadRegex(c) PROVE TypeOK'
  BY <1>6 DEF BadRegex, TypeOK, GoTo, Steps, Inside, Published
<1>7. ASSUME NEW c \in Callers, Publish(c) PROVE TypeOK'
  BY <1>7 DEF Publish, TypeOK, GoTo, Steps, Inside, Published, JobOwned
<1>8. ASSUME NEW c \in Callers, ConnectFails(c) PROVE TypeOK'
  BY <1>8 DEF ConnectFails, TypeOK, GoTo, Steps, Inside, Published, Terminal
<1>9. ASSUME NEW c \in Callers, Connect(c) PROVE TypeOK'
  BY <1>9 DEF Connect, TypeOK, GoTo, Steps, Inside, Published
<1>10. ASSUME NEW c \in Callers, Work(c) PROVE TypeOK'
  BY <1>10 DEF Work, TypeOK, GoTo, Steps, Inside, Published
<1>11. ASSUME NEW c \in Callers, Retain(c) PROVE TypeOK'
  BY <1>11 DEF Retain, TypeOK, GoTo, Steps, Inside, Published
<1>12. ASSUME NEW c \in Callers, Decide(c) PROVE TypeOK'
  BY <1>12 DEF Decide, TypeOK, GoTo, Steps, Inside, Published, Terminal
<1>13. ASSUME NEW c \in Callers, Record(c) PROVE TypeOK'
  <2>1. job[c] \in JobIDs /\ verdict[c] \in Terminal
    BY <1>13 DEF Record, JobOwned, VerdictOK, Results, Terminal
  <2>2. pc' \in [Callers -> Steps]
    BY <1>13 DEF Record, GoTo, TypeOK, Steps, Inside
  <2>. QED BY <1>13, <2>1, <2>2, UpdateType DEF Record, TypeOK
<1>14. ASSUME NEW c \in Callers, Leave(c) PROVE TypeOK'
  BY <1>14 DEF Leave, TypeOK, GoTo, Steps, Inside, Published
<1>15. ASSUME NEW c \in Callers, Clear(c) PROVE TypeOK'
  <2>1. CASE verdict[c] = "failed"
    BY <1>15, <2>1 DEF Clear, GoTo, TypeOK, Steps
  <2>2. CASE verdict[c] # "failed"
    BY <1>15, <2>2, DoneType DEF Clear, TypeOK
  <2>. QED BY <2>1, <2>2
<1>16. ASSUME NEW c \in Callers, Skip(c) PROVE TypeOK'
  <2>1. job[c] \in JobIDs
    BY <1>16 DEF Skip, JobOwned
  <2>. QED BY <1>16, <2>1, DoneType, UpdateType DEF Skip, TypeOK, Terminal
<1>17. ASSUME NEW c \in Callers, Fail(c) PROVE TypeOK'
  <2>1. job[c] \in JobIDs
    BY <1>17 DEF Fail, JobOwned
  <2>. QED BY <1>17, <2>1, DoneType, UpdateType DEF Fail, TypeOK, Terminal
<1>18. ASSUME NEW s \in Stoppers, StopRead(s) PROVE TypeOK'
  BY <1>18 DEF StopRead, TypeOK
<1>19. ASSUME NEW s \in Stoppers, StopCall(s) PROVE TypeOK'
  <2>1. cancelled' \subseteq JobIDs
    BY <1>19 DEF StopCall, TypeOK
  <2>. QED BY <1>19, <2>1 DEF StopCall, TypeOK
<1>20. ASSUME Crash PROVE TypeOK'
  <2>1. errs' \in [Callers -> BOOLEAN]
    BY <1>20 DEF Crash
  <2>2. /\ pc' \in [Callers -> Steps] /\ job' \in [Callers -> JobIDs \cup {NoJob}]
        /\ verdict' \in [Callers -> Terminal \cup {"none"}]
        /\ stopping' \in [Stoppers -> JobIDs \cup {NoJob}]
    BY <1>20 DEF Crash, Steps
  <2>3. /\ running' \in BOOLEAN /\ cancelFn' = NoJob /\ jobID' = NoJob
        /\ UNCHANGED <<cancelled, jobs, nextID>> /\ faults' = faults + 1
    BY <1>20, Zenon DEF Crash
  <2>. QED BY <2>1, <2>2, <2>3 DEF TypeOK
<1>21. ASSUME UNCHANGED vars PROVE TypeOK'
  BY <1>21 DEF vars, TypeOK
<1>. QED
  BY <1>1, <1>2, <1>3, <1>4, <1>5, <1>6, <1>7, <1>8, <1>9, <1>10, <1>11, <1>12, <1>13, <1>14,
     <1>15, <1>16, <1>17, <1>18, <1>19, <1>20, <1>21 DEF Next, Prepare, Run, Frame, Settle

-----------------------------------------------------------------------------
LEMMA OneRunStep == TypeOK /\ OneRun /\ [Next]_vars => OneRun'
<1>. SUFFICES ASSUME TypeOK, OneRun, [Next]_vars PROVE OneRun'
  OBVIOUS
<1>. USE DEF GoTo, Done, UpdateJob, agent, table, callers, TypeOK, OneRun, Inside
<1>1. ASSUME NEW c \in Callers, Ask(c) PROVE OneRun'
  BY <1>1 DEF Ask
<1>2. ASSUME NEW c \in Callers, CreateJob(c) PROVE OneRun'
  BY <1>2 DEF CreateJob
<1>3. ASSUME NEW c \in Callers, CreateFails(c) PROVE OneRun'
  BY <1>3 DEF CreateFails
<1>4. ASSUME NEW c \in Callers, NoSources(c) PROVE OneRun'
  BY <1>4 DEF NoSources
<1>5. ASSUME NEW c \in Callers, Enter(c) PROVE OneRun'
  BY <1>5 DEF Enter
<1>6. ASSUME NEW c \in Callers, BadRegex(c) PROVE OneRun'
  BY <1>6 DEF BadRegex
<1>7. ASSUME NEW c \in Callers, Publish(c) PROVE OneRun'
  BY <1>7 DEF Publish
<1>8. ASSUME NEW c \in Callers, ConnectFails(c) PROVE OneRun'
  BY <1>8 DEF ConnectFails
<1>9. ASSUME NEW c \in Callers, Connect(c) PROVE OneRun'
  BY <1>9 DEF Connect
<1>10. ASSUME NEW c \in Callers, Work(c) PROVE OneRun'
  BY <1>10 DEF Work
<1>11. ASSUME NEW c \in Callers, Retain(c) PROVE OneRun'
  BY <1>11 DEF Retain
<1>12. ASSUME NEW c \in Callers, Decide(c) PROVE OneRun'
  BY <1>12 DEF Decide
<1>13. ASSUME NEW c \in Callers, Record(c) PROVE OneRun'
  BY <1>13 DEF Record
<1>14. ASSUME NEW c \in Callers, Leave(c) PROVE OneRun'
  BY <1>14 DEF Leave
<1>15. ASSUME NEW c \in Callers, Clear(c) PROVE OneRun'
  BY <1>15 DEF Clear
<1>16. ASSUME NEW c \in Callers, Skip(c) PROVE OneRun'
  BY <1>16 DEF Skip
<1>17. ASSUME NEW c \in Callers, Fail(c) PROVE OneRun'
  BY <1>17 DEF Fail
<1>18. ASSUME NEW s \in Stoppers, StopRead(s) PROVE OneRun'
  BY <1>18 DEF StopRead
<1>19. ASSUME NEW s \in Stoppers, StopCall(s) PROVE OneRun'
  BY <1>19 DEF StopCall
<1>20. ASSUME Crash PROVE OneRun'
  BY <1>20 DEF Crash
<1>21. ASSUME UNCHANGED vars PROVE OneRun'
  BY <1>21 DEF vars
<1>. QED
  BY <1>1, <1>2, <1>3, <1>4, <1>5, <1>6, <1>7, <1>8, <1>9, <1>10, <1>11, <1>12, <1>13, <1>14,
     <1>15, <1>16, <1>17, <1>18, <1>19, <1>20, <1>21 DEF Next, Prepare, Run, Frame, Settle

-----------------------------------------------------------------------------
LEMMA VerdictStep == TypeOK /\ VerdictOK /\ [Next]_vars => VerdictOK'
<1>. SUFFICES ASSUME TypeOK, VerdictOK, [Next]_vars PROVE VerdictOK'
  OBVIOUS
<1>. USE DEF GoTo, Done, UpdateJob, agent, table, callers, TypeOK, VerdictOK, Results
<1>1. ASSUME NEW c \in Callers, Ask(c) PROVE VerdictOK'
  BY <1>1 DEF Ask
<1>2. ASSUME NEW c \in Callers, CreateJob(c) PROVE VerdictOK'
  BY <1>2 DEF CreateJob
<1>3. ASSUME NEW c \in Callers, CreateFails(c) PROVE VerdictOK'
  BY <1>3 DEF CreateFails
<1>4. ASSUME NEW c \in Callers, NoSources(c) PROVE VerdictOK'
  BY <1>4 DEF NoSources
<1>5. ASSUME NEW c \in Callers, Enter(c) PROVE VerdictOK'
  BY <1>5 DEF Enter
<1>6. ASSUME NEW c \in Callers, BadRegex(c) PROVE VerdictOK'
  BY <1>6 DEF BadRegex
<1>7. ASSUME NEW c \in Callers, Publish(c) PROVE VerdictOK'
  BY <1>7 DEF Publish
<1>8. ASSUME NEW c \in Callers, ConnectFails(c) PROVE VerdictOK'
  BY <1>8 DEF ConnectFails
<1>9. ASSUME NEW c \in Callers, Connect(c) PROVE VerdictOK'
  BY <1>9 DEF Connect
<1>10. ASSUME NEW c \in Callers, Work(c) PROVE VerdictOK'
  BY <1>10 DEF Work
<1>11. ASSUME NEW c \in Callers, Retain(c) PROVE VerdictOK'
  BY <1>11 DEF Retain
<1>12. ASSUME NEW c \in Callers, Decide(c) PROVE VerdictOK'
  BY <1>12 DEF Decide
<1>13. ASSUME NEW c \in Callers, Record(c) PROVE VerdictOK'
  BY <1>13 DEF Record
<1>14. ASSUME NEW c \in Callers, Leave(c) PROVE VerdictOK'
  BY <1>14 DEF Leave
<1>15. ASSUME NEW c \in Callers, Clear(c) PROVE VerdictOK'
  BY <1>15 DEF Clear
<1>16. ASSUME NEW c \in Callers, Skip(c) PROVE VerdictOK'
  BY <1>16 DEF Skip
<1>17. ASSUME NEW c \in Callers, Fail(c) PROVE VerdictOK'
  BY <1>17 DEF Fail
<1>18. ASSUME NEW s \in Stoppers, StopRead(s) PROVE VerdictOK'
  BY <1>18 DEF StopRead
<1>19. ASSUME NEW s \in Stoppers, StopCall(s) PROVE VerdictOK'
  BY <1>19 DEF StopCall
<1>20. ASSUME Crash PROVE VerdictOK'
  BY <1>20 DEF Crash
<1>21. ASSUME UNCHANGED vars PROVE VerdictOK'
  BY <1>21 DEF vars
<1>. QED
  BY <1>1, <1>2, <1>3, <1>4, <1>5, <1>6, <1>7, <1>8, <1>9, <1>10, <1>11, <1>12, <1>13, <1>14,
     <1>15, <1>16, <1>17, <1>18, <1>19, <1>20, <1>21 DEF Next, Prepare, Run, Frame, Settle

-----------------------------------------------------------------------------
LEMMA OwnedStep == TypeOK /\ VerdictOK /\ JobOwned /\ [Next]_vars => JobOwned'
<1>. SUFFICES ASSUME TypeOK, VerdictOK, JobOwned, [Next]_vars PROVE JobOwned'
  OBVIOUS
<1>. USE JobControlAssumption
         DEF GoTo, Done, UpdateJob, agent, table, callers, TypeOK, VerdictOK, JobOwned, JobIDs,
              Results
<1>1. ASSUME NEW c \in Callers, Ask(c) PROVE JobOwned'
  BY <1>1 DEF Ask
<1>2. ASSUME NEW c \in Callers, CreateJob(c) PROVE JobOwned'
  BY <1>2 DEF CreateJob
<1>3. ASSUME NEW c \in Callers, CreateFails(c) PROVE JobOwned'
  BY <1>3 DEF CreateFails
<1>4. ASSUME NEW c \in Callers, NoSources(c) PROVE JobOwned'
  BY <1>4 DEF NoSources
<1>5. ASSUME NEW c \in Callers, Enter(c) PROVE JobOwned'
  BY <1>5 DEF Enter
<1>6. ASSUME NEW c \in Callers, BadRegex(c) PROVE JobOwned'
  BY <1>6 DEF BadRegex
<1>7. ASSUME NEW c \in Callers, Publish(c) PROVE JobOwned'
  BY <1>7 DEF Publish
<1>8. ASSUME NEW c \in Callers, ConnectFails(c) PROVE JobOwned'
  BY <1>8 DEF ConnectFails
<1>9. ASSUME NEW c \in Callers, Connect(c) PROVE JobOwned'
  BY <1>9 DEF Connect
<1>10. ASSUME NEW c \in Callers, Work(c) PROVE JobOwned'
  BY <1>10 DEF Work
<1>11. ASSUME NEW c \in Callers, Retain(c) PROVE JobOwned'
  BY <1>11 DEF Retain
<1>12. ASSUME NEW c \in Callers, Decide(c) PROVE JobOwned'
  BY <1>12 DEF Decide
<1>13. ASSUME NEW c \in Callers, Record(c) PROVE JobOwned'
  BY <1>13 DEF Record
<1>14. ASSUME NEW c \in Callers, Leave(c) PROVE JobOwned'
  BY <1>14 DEF Leave
<1>15. ASSUME NEW c \in Callers, Clear(c) PROVE JobOwned'
  BY <1>15 DEF Clear
<1>16. ASSUME NEW c \in Callers, Skip(c) PROVE JobOwned'
  BY <1>16 DEF Skip
<1>17. ASSUME NEW c \in Callers, Fail(c) PROVE JobOwned'
  BY <1>17 DEF Fail
<1>18. ASSUME NEW s \in Stoppers, StopRead(s) PROVE JobOwned'
  BY <1>18 DEF StopRead
<1>19. ASSUME NEW s \in Stoppers, StopCall(s) PROVE JobOwned'
  BY <1>19 DEF StopCall
<1>20. ASSUME Crash PROVE JobOwned'
  BY <1>20 DEF Crash
<1>21. ASSUME UNCHANGED vars PROVE JobOwned'
  BY <1>21 DEF vars
<1>. QED
  BY <1>1, <1>2, <1>3, <1>4, <1>5, <1>6, <1>7, <1>8, <1>9, <1>10, <1>11, <1>12, <1>13, <1>14,
     <1>15, <1>16, <1>17, <1>18, <1>19, <1>20, <1>21 DEF Next, Prepare, Run, Frame, Settle

-----------------------------------------------------------------------------
LEMMA CancelStep == TypeOK /\ CancelFnLive /\ [Next]_vars => CancelFnLive'
<1>. SUFFICES ASSUME TypeOK, CancelFnLive, [Next]_vars PROVE CancelFnLive'
  OBVIOUS
<1>. USE DEF GoTo, Done, UpdateJob, agent, table, callers, TypeOK, CancelFnLive, Published, Inside
<1>1. ASSUME NEW c \in Callers, Ask(c) PROVE CancelFnLive'
  BY <1>1 DEF Ask
<1>2. ASSUME NEW c \in Callers, CreateJob(c) PROVE CancelFnLive'
  BY <1>2 DEF CreateJob
<1>3. ASSUME NEW c \in Callers, CreateFails(c) PROVE CancelFnLive'
  BY <1>3 DEF CreateFails
<1>4. ASSUME NEW c \in Callers, NoSources(c) PROVE CancelFnLive'
  BY <1>4 DEF NoSources
<1>5. ASSUME NEW c \in Callers, Enter(c) PROVE CancelFnLive'
  BY <1>5 DEF Enter
<1>6. ASSUME NEW c \in Callers, BadRegex(c) PROVE CancelFnLive'
  BY <1>6 DEF BadRegex
<1>7. ASSUME NEW c \in Callers, Publish(c) PROVE CancelFnLive'
  BY <1>7 DEF Publish
<1>8. ASSUME NEW c \in Callers, ConnectFails(c) PROVE CancelFnLive'
  BY <1>8 DEF ConnectFails
<1>9. ASSUME NEW c \in Callers, Connect(c) PROVE CancelFnLive'
  BY <1>9 DEF Connect
<1>10. ASSUME NEW c \in Callers, Work(c) PROVE CancelFnLive'
  BY <1>10 DEF Work
<1>11. ASSUME NEW c \in Callers, Retain(c) PROVE CancelFnLive'
  BY <1>11 DEF Retain
<1>12. ASSUME NEW c \in Callers, Decide(c) PROVE CancelFnLive'
  BY <1>12 DEF Decide
<1>13. ASSUME NEW c \in Callers, Record(c) PROVE CancelFnLive'
  BY <1>13 DEF Record
<1>14. ASSUME NEW c \in Callers, Leave(c) PROVE CancelFnLive'
  BY <1>14 DEF Leave
<1>15. ASSUME NEW c \in Callers, Clear(c) PROVE CancelFnLive'
  BY <1>15 DEF Clear
<1>16. ASSUME NEW c \in Callers, Skip(c) PROVE CancelFnLive'
  BY <1>16 DEF Skip
<1>17. ASSUME NEW c \in Callers, Fail(c) PROVE CancelFnLive'
  BY <1>17 DEF Fail
<1>18. ASSUME NEW s \in Stoppers, StopRead(s) PROVE CancelFnLive'
  BY <1>18 DEF StopRead
<1>19. ASSUME NEW s \in Stoppers, StopCall(s) PROVE CancelFnLive'
  BY <1>19 DEF StopCall
<1>20. ASSUME Crash PROVE CancelFnLive'
  BY <1>20 DEF Crash
<1>21. ASSUME UNCHANGED vars PROVE CancelFnLive'
  BY <1>21 DEF vars
<1>. QED
  BY <1>1, <1>2, <1>3, <1>4, <1>5, <1>6, <1>7, <1>8, <1>9, <1>10, <1>11, <1>12, <1>13, <1>14,
     <1>15, <1>16, <1>17, <1>18, <1>19, <1>20, <1>21 DEF Next, Prepare, Run, Frame, Settle

-----------------------------------------------------------------------------
\* The inductive invariant: each conjunct is kept by every step with the help of
\* the type invariant and, for the ownership of jobs, of VerdictOK.
THEOREM JobInvariant == Spec => []JobInv
<1>1. JobInv /\ [Next]_vars => JobInv'
  BY TypeStep, OneRunStep, VerdictStep, OwnedStep, CancelStep DEF JobInv
<1>. QED BY InvInit, <1>1, PTL DEF Spec

\* Every variable holds a value of its type, for any number of callers.
THEOREM JobTypeCorrect == Spec => []TypeOK
<1>1. JobInv => TypeOK
  BY DEF JobInv
<1>. QED BY JobInvariant, <1>1, PTL

\* At most one caller is inside Agent.Run past its compare-and-swap, and the
\* running flag says exactly that, in every interleaving with deferred functions
\* and crashes.
THEOREM OneRunHolds == Spec => []OneRun
<1>1. JobInv => OneRun
  BY DEF JobInv
<1>. QED BY JobInvariant, <1>1, PTL

\* A job that has not been settled is in the hands of one caller, which has not
\* settled it before.
THEOREM JobOwnedHolds == Spec => []JobOwned
<1>1. JobInv => JobOwned
  BY DEF JobInv
<1>. QED BY JobInvariant, <1>1, PTL

\* The cancel function the agent holds is never that of a run that has returned.
THEOREM CancelFnLiveHolds == Spec => []CancelFnLive
<1>1. JobInv => CancelFnLive
  BY DEF JobInv
<1>. QED BY JobInvariant, <1>1, PTL

-----------------------------------------------------------------------------
(* JobControl implements JobLedger *)

\* The executing job is that of the one caller inside Run, before and after a step.
LEMMA ExecutingOf ==
    /\ OneRun => \A c \in Callers : pc[c] \in Inside => Executing = job[c]
    /\ OneRun' => \A c \in Callers : pc'[c] \in Inside => Executing' = job'[c]
<1>1. ASSUME OneRun, NEW c \in Callers, pc[c] \in Inside PROVE Executing = job[c]
  BY <1>1 DEF OneRun, Executing
<1>2. ASSUME OneRun', NEW c \in Callers, pc'[c] \in Inside PROVE Executing' = job'[c]
  BY <1>2 DEF OneRun, Executing
<1>. QED BY <1>1, <1>2

LEMMA ExecutingNone ==
    /\ (\A c \in Callers : pc[c] \notin Inside) => Executing = NoJob
    /\ (\A c \in Callers : pc'[c] \notin Inside) => Executing' = NoJob
BY DEF Executing

LEMMA ExecutingKept ==
    ASSUME OneRun, OneRun',
           \A c \in Callers : pc'[c] \in Inside <=> pc[c] \in Inside,
           \A c \in Callers : pc[c] \in Inside => job'[c] = job[c]
    PROVE  Executing' = Executing
<1>1. CASE \E c \in Callers : pc[c] \in Inside
  BY <1>1, ExecutingOf
<1>2. CASE \A c \in Callers : pc[c] \notin Inside
  BY <1>2, ExecutingNone
<1>. QED BY <1>1, <1>2

\* An update of the job table keeps the executing job: it settles a job, or fails.
LEMMA LedgerSettles ==
    ASSUME JobInv, NEW c \in Callers, pc[c] \notin {"idle", "asked"},
           NEW s \in Ledger!Settled, jobs[job[c]] = "running",
           UpdateJob(job[c], s), Executing' = Executing,
           s \in Results <=> Executing = job[c]
    PROVE  [Ledger!Next]_<<jobs, Executing>>
<1>1. job[c] \in JobIDs
  BY DEF JobInv, JobOwned
<1>2. CASE jobs' = [jobs EXCEPT ![job[c]] = s]
  BY <1>1, <1>2 DEF Ledger!Next, Ledger!Settle, Ledger!Results, Results
<1>3. CASE jobs' = jobs
  BY <1>3
<1>. QED BY <1>2, <1>3 DEF UpdateJob

LEMMA LedgerStep == JobInv /\ JobInv' /\ [Next]_vars => [Ledger!Next]_<<jobs, Executing>>
<1>. SUFFICES ASSUME JobInv, JobInv', [Next]_vars
              PROVE  [Ledger!Next]_<<jobs, Executing>>
  OBVIOUS
<1>. USE DEF agent, table, callers
<1>a. TypeOK /\ OneRun /\ VerdictOK /\ JobOwned /\ OneRun'
  BY DEF JobInv
\* The steps that neither touch the table nor enter or leave Run
<1>1. ASSUME NEW c \in Callers,
             \/ Ask(c) \/ CreateFails(c) \/ Publish(c) \/ ConnectFails(c) \/ Connect(c)
             \/ Work(c) \/ Retain(c) \/ Decide(c) \/ Clear(c)
      PROVE  UNCHANGED <<jobs, Executing>>
  <2>1. \A d \in Callers : /\ pc'[d] \in Inside <=> pc[d] \in Inside
                           /\ pc[d] \in Inside => job'[d] = job[d]
    BY <1>1, <1>a DEF Ask, CreateFails, Publish, ConnectFails, Connect, Work, Retain,
       Decide, Clear, GoTo, Done, Inside, TypeOK
  <2>2. jobs' = jobs
    BY <1>1 DEF Ask, CreateFails, Publish, ConnectFails, Connect, Work, Retain, Decide, Clear
  <2>. QED BY <2>1, <2>2, <1>a, ExecutingKept
<1>2. ASSUME NEW c \in Callers, CreateJob(c) PROVE Ledger!Next
  <2>1. Executing' = Executing
    BY <1>2, <1>a, ExecutingKept DEF CreateJob, GoTo, Inside, TypeOK
  <2>2. nextID \in JobIDs
    BY <1>2, <1>a, JobControlAssumption DEF CreateJob, TypeOK, JobIDs
  <2>3. jobs[nextID] = "absent"
    BY <2>2, <1>a, JobControlAssumption DEF JobOwned, JobIDs
  <2>. QED BY <1>2, <2>1, <2>2, <2>3 DEF CreateJob, Ledger!Next, Ledger!Submit
<1>3. ASSUME NEW c \in Callers, NoSources(c) \/ Skip(c) \/ Fail(c)
      PROVE  [Ledger!Next]_<<jobs, Executing>>
  <2>1. pc[c] \in {"created", "lost", "erred"} /\ Done(c)
    BY <1>3 DEF NoSources, Skip, Fail
  <2>2. Executing' = Executing
    BY <2>1, <1>a, ExecutingKept DEF Done, GoTo, Inside, TypeOK
  <2>3. jobs[job[c]] = "running" /\ job[c] \in JobIDs
    BY <2>1, <1>a DEF JobOwned
  <2>4. Executing # job[c]
    <3>1. CASE \E d \in Callers : pc[d] \in Inside
      <4>1. PICK d \in Callers : pc[d] \in Inside
        BY <3>1
      <4>2. d # c
        BY <2>1, <4>1 DEF Inside
      <4>3. job[d] # job[c]
        BY <2>3, <4>2, <1>a, JobControlAssumption DEF JobOwned, JobIDs
      <4>. QED BY <4>1, <4>3, <1>a, ExecutingOf
    <3>2. CASE \A d \in Callers : pc[d] \notin Inside
      BY <3>2, <2>3, ExecutingNone, JobControlAssumption DEF JobIDs
    <3>. QED BY <3>1, <3>2
  <2>5. PICK s \in {"skipped", "failed"} : UpdateJob(job[c], s)
    BY <1>3 DEF NoSources, Skip, Fail
  <2>6. s \in Ledger!Settled /\ s \notin Results
    BY DEF Ledger!Settled, Ledger!Refusals, Results
  <2>. QED BY <2>1, <2>2, <2>3, <2>4, <2>5, <2>6, LedgerSettles
<1>4. ASSUME NEW c \in Callers, Enter(c) PROVE [Ledger!Next]_<<jobs, Executing>>
  <2>1. CASE running
    BY <1>4, <2>1, <1>a, ExecutingKept DEF Enter, GoTo, Inside, TypeOK
  <2>2. CASE ~running
    <3>1. Executing = NoJob
      BY <2>2, <1>a, ExecutingNone DEF OneRun
    <3>2. Executing' = job[c]
      BY <1>4, <2>2, <1>a, ExecutingOf DEF Enter, GoTo, Inside, TypeOK
    <3>3. jobs[job[c]] = "running" /\ job[c] \in JobIDs
      BY <1>4, <1>a DEF Enter, JobOwned
    <3>. QED BY <1>4, <3>1, <3>2, <3>3 DEF Enter, Ledger!Next, Ledger!Begin
  <2>. QED BY <2>1, <2>2
<1>5. ASSUME NEW c \in Callers, BadRegex(c) \/ Leave(c) PROVE Ledger!Next
  <2>1. \A d \in Callers : pc'[d] \notin Inside
    BY <1>5, <1>a DEF BadRegex, Leave, GoTo, OneRun, Inside, TypeOK
  <2>2. jobs' = jobs
    BY <1>5 DEF BadRegex, Leave
  <2>. QED BY <2>1, <2>2, ExecutingNone DEF Ledger!Next, Ledger!End
<1>6. ASSUME NEW c \in Callers, Record(c) PROVE [Ledger!Next]_<<jobs, Executing>>
  <2>1. Executing' = Executing
    BY <1>6, <1>a, ExecutingKept DEF Record, GoTo, Inside, TypeOK
  <2>2. Executing = job[c] /\ pc[c] = "updating"
    BY <1>6, <1>a, ExecutingOf DEF Record, Inside
  <2>3. jobs[job[c]] = "running"
    BY <2>2, <1>a DEF JobOwned
  <2>4. verdict[c] \in Results /\ verdict[c] \in Ledger!Settled
    BY <2>2, <1>a DEF VerdictOK, Results, Ledger!Settled, Ledger!Results
  <2>. QED BY <1>6, <2>1, <2>2, <2>3, <2>4, LedgerSettles DEF Record
<1>7. ASSUME NEW s \in Stoppers, StopRead(s) \/ StopCall(s) PROVE UNCHANGED <<jobs, Executing>>
  BY <1>7, <1>a, ExecutingKept DEF StopRead, StopCall
<1>8. ASSUME Crash PROVE Ledger!Next
  <2>1. \A d \in Callers : pc'[d] \notin Inside
    BY <1>8 DEF Crash, Inside
  <2>. QED BY <1>8, <2>1, ExecutingNone DEF Crash, Ledger!Next, Ledger!End
<1>9. ASSUME UNCHANGED vars PROVE UNCHANGED <<jobs, Executing>>
  BY <1>9, <1>a, ExecutingKept DEF vars
<1>. QED
  BY <1>1, <1>2, <1>3, <1>4, <1>5, <1>6, <1>7, <1>8, <1>9 DEF Next, Prepare, Run, Frame, Settle

\* The job table and the executing job behave like a JobLedger: each job is
\* submitted, executed alone if at all, and settled once, with a result only
\* while it executes.
THEOREM LedgerImplemented == Spec => LedgerSpec
<1>1. Init => Ledger!Init
  <2>. SUFFICES ASSUME Init PROVE Ledger!Init
    OBVIOUS
  <2>1. \A c \in Callers : pc[c] \notin Inside
    BY DEF Init, Inside
  <2>. QED BY <2>1, ExecutingNone DEF Init, Ledger!Init
<1>2. JobInv /\ JobInv' /\ [Next]_vars => [Ledger!Next]_<<jobs, Executing>>
  BY LedgerStep
<1>. QED BY <1>1, <1>2, JobInvariant, PTL DEF Spec, LedgerSpec, Ledger!Spec

\* What the history shows of a job never changes once it is settled.
THEOREM SettledForGood == Spec => SettledOnce
<1>1. JobInv /\ [Next]_vars =>
        [\A j \in JobIDs : jobs[j] \in Terminal => jobs'[j] = jobs[j]]_vars
  <2>. SUFFICES ASSUME JobInv, [Next]_vars, NEW j \in JobIDs, jobs[j] \in Terminal
                PROVE  jobs'[j] = jobs[j]
    OBVIOUS
  <2>. USE DEF JobInv, TypeOK
  <2>1. \A c \in Callers, s \in Terminal :
           UpdateJob(job[c], s) /\ jobs[job[c]] = "running" => jobs'[j] = jobs[j]
    BY DEF UpdateJob, Terminal
  <2>2. \A c \in Callers : CreateJob(c) => jobs'[j] = jobs[j]
    BY JobControlAssumption DEF CreateJob, JobOwned, JobIDs, Terminal
  <2>3. \A c \in Callers : NoSources(c) \/ Skip(c) \/ Fail(c) => jobs'[j] = jobs[j]
    BY <2>1 DEF NoSources, Skip, Fail, JobOwned, Terminal
  <2>4. \A c \in Callers : Record(c) => jobs'[j] = jobs[j]
    <3>. TAKE c \in Callers
    <3>. HAVE Record(c)
    <3>1. verdict[c] \in Terminal /\ jobs[job[c]] = "running"
      BY DEF Record, VerdictOK, Results, Terminal, JobOwned
    <3>. QED BY <2>1, <3>1 DEF Record
  <2>. QED
    BY <2>2, <2>3, <2>4
    DEF Next, Prepare, Run, Frame, Settle, vars, table, Ask, CreateFails, Enter, BadRegex,
        Publish, ConnectFails, Connect, Work, Retain, Decide, Leave, Clear, StopRead,
        StopCall, Crash
<1>. QED BY <1>1, JobInvariant, PTL DEF Spec, SettledOnce

-----------------------------------------------------------------------------
(* A job that is not settled *)

\* The caller will still write the status of its job.
Owes(c) ==
    /\ pc[c] \notin {"idle", "asked"}
    /\ pc[c] \in {"leaving", "clearing"} => verdict[c] = "failed"

OwedInv ==
    \A j \in JobIDs : jobs[j] = "running" =>
        faults > 0 \/ \E c \in Callers : job[c] = j /\ Owes(c)

LEMMA OwedStep == JobInv /\ OwedInv /\ [Next]_vars => OwedInv'
<1>. SUFFICES ASSUME JobInv, OwedInv, [Next]_vars PROVE OwedInv'
  OBVIOUS
<1>. USE JobControlAssumption
         DEF GoTo, Done, UpdateJob, agent, table, callers, JobInv, TypeOK, VerdictOK, JobOwned,
             JobIDs, Results, OwedInv, Owes
<1>1. ASSUME NEW c \in Callers, Ask(c) PROVE OwedInv'
  BY <1>1 DEF Ask
<1>2. ASSUME NEW c \in Callers, CreateJob(c) PROVE OwedInv'
  BY <1>2 DEF CreateJob
<1>3. ASSUME NEW c \in Callers, CreateFails(c) PROVE OwedInv'
  BY <1>3 DEF CreateFails
<1>4. ASSUME NEW c \in Callers, NoSources(c) PROVE OwedInv'
  BY <1>4 DEF NoSources
<1>5. ASSUME NEW c \in Callers, Enter(c) PROVE OwedInv'
  BY <1>5 DEF Enter
<1>6. ASSUME NEW c \in Callers, BadRegex(c) PROVE OwedInv'
  BY <1>6 DEF BadRegex
<1>7. ASSUME NEW c \in Callers, Publish(c) PROVE OwedInv'
  BY <1>7 DEF Publish
<1>8. ASSUME NEW c \in Callers, ConnectFails(c) PROVE OwedInv'
  BY <1>8 DEF ConnectFails
<1>9. ASSUME NEW c \in Callers, Connect(c) PROVE OwedInv'
  BY <1>9 DEF Connect
<1>10. ASSUME NEW c \in Callers, Work(c) PROVE OwedInv'
  BY <1>10 DEF Work
<1>11. ASSUME NEW c \in Callers, Retain(c) PROVE OwedInv'
  BY <1>11 DEF Retain
<1>12. ASSUME NEW c \in Callers, Decide(c) PROVE OwedInv'
  BY <1>12 DEF Decide
<1>13. ASSUME NEW c \in Callers, Record(c) PROVE OwedInv'
  BY <1>13 DEF Record
<1>14. ASSUME NEW c \in Callers, Leave(c) PROVE OwedInv'
  BY <1>14 DEF Leave
<1>15. ASSUME NEW c \in Callers, Clear(c) PROVE OwedInv'
  BY <1>15 DEF Clear
<1>16. ASSUME NEW c \in Callers, Skip(c) PROVE OwedInv'
  BY <1>16 DEF Skip
<1>17. ASSUME NEW c \in Callers, Fail(c) PROVE OwedInv'
  BY <1>17 DEF Fail
<1>18. ASSUME NEW s \in Stoppers, StopRead(s) PROVE OwedInv'
  BY <1>18 DEF StopRead
<1>19. ASSUME NEW s \in Stoppers, StopCall(s) PROVE OwedInv'
  BY <1>19 DEF StopCall
<1>20. ASSUME Crash PROVE OwedInv'
  BY <1>20 DEF Crash
<1>21. ASSUME UNCHANGED vars PROVE OwedInv'
  BY <1>21 DEF vars
<1>. QED
  BY <1>1, <1>2, <1>3, <1>4, <1>5, <1>6, <1>7, <1>8, <1>9, <1>10, <1>11, <1>12, <1>13, <1>14,
     <1>15, <1>16, <1>17, <1>18, <1>19, <1>20, <1>21 DEF Next, Prepare, Run, Frame, Settle

\* A job that the history shows as running is in the hands of a caller that has
\* yet to write its status, unless the process has died or an update has failed:
\* no early return of Run, of handleCreateJob or of runSchedule forgets one.
THEOREM UnsettledInHand == Spec => [](
    \A j \in JobIDs : jobs[j] = "running" =>
        faults > 0 \/ \E c \in Callers : job[c] = j /\ Owes(c))
<1>1. Init => OwedInv
  BY DEF Init, OwedInv
<1>. QED BY <1>1, InvInit, OwedStep, JobInvariant, PTL DEF Spec, OwedInv

-----------------------------------------------------------------------------
(* What a Stop does *)

\* The jobs whose context is cancelled, or that a Stop can cancel.
Reached(j) == j \in cancelled \/ j = cancelFn \/ \E s \in Stoppers : stopping[s] = j

\* Such a job is that of a run: it exists, and its caller is past Publish.
ReachInv ==
    \A j \in JobIDs : Reached(j) =>
        /\ j < nextID /\ jobs[j] \notin {"absent", "skipped"}
        /\ \A c \in Callers : job[c] = j => pc[c] \in Published \cup {"erred"}

StopVerdict == \A c \in Callers : verdict[c] = "stopped" => job[c] \in cancelled
StopJobs == \A j \in JobIDs : jobs[j] = "stopped" => j \in cancelled

StopInv == ReachInv /\ StopVerdict /\ StopJobs

LEMMA StopStep == JobInv /\ StopInv /\ [Next]_vars => StopInv'
<1>. SUFFICES ASSUME JobInv, StopInv, [Next]_vars PROVE StopInv'
  OBVIOUS
<1>. USE JobControlAssumption
         DEF GoTo, Done, UpdateJob, agent, table, callers, JobInv, TypeOK, VerdictOK, JobOwned,
             JobIDs, Results, StopInv, ReachInv, StopVerdict, StopJobs, Reached, Published,
             Inside
<1>1. ASSUME NEW c \in Callers, Ask(c) PROVE StopInv'
  BY <1>1 DEF Ask
<1>2. ASSUME NEW c \in Callers, CreateJob(c) PROVE StopInv'
  BY <1>2 DEF CreateJob
<1>3. ASSUME NEW c \in Callers, CreateFails(c) PROVE StopInv'
  BY <1>3 DEF CreateFails
<1>4. ASSUME NEW c \in Callers, NoSources(c) PROVE StopInv'
  BY <1>4 DEF NoSources
<1>5. ASSUME NEW c \in Callers, Enter(c) PROVE StopInv'
  <2>1. ReachInv'
    BY <1>5, SMTT(60) DEF Enter
  <2>2. StopVerdict'
    BY <1>5 DEF Enter
  <2>3. StopJobs'
    BY <1>5 DEF Enter
  <2>. HIDE DEF ReachInv, StopVerdict, StopJobs
  <2>. QED BY <2>1, <2>2, <2>3
<1>6. ASSUME NEW c \in Callers, BadRegex(c) PROVE StopInv'
  BY <1>6 DEF BadRegex
<1>7. ASSUME NEW c \in Callers, Publish(c) PROVE StopInv'
  BY <1>7 DEF Publish
<1>8. ASSUME NEW c \in Callers, ConnectFails(c) PROVE StopInv'
  BY <1>8 DEF ConnectFails
<1>9. ASSUME NEW c \in Callers, Connect(c) PROVE StopInv'
  BY <1>9 DEF Connect
<1>10. ASSUME NEW c \in Callers, Work(c) PROVE StopInv'
  BY <1>10 DEF Work
<1>11. ASSUME NEW c \in Callers, Retain(c) PROVE StopInv'
  <2>1. ReachInv'
    <3>1. \A d \in Callers : pc'[d] = IF d = c THEN "deciding" ELSE pc[d]
      BY <1>11 DEF Retain
    <3>2. \A j \in JobIDs : Reached(j)' <=> Reached(j)
      BY <1>11 DEF Retain
    <3>3. nextID' = nextID /\ jobs' = jobs /\ job' = job
      BY <1>11 DEF Retain
    <3>. HIDE DEF Reached
    <3>. QED BY <3>1, <3>2, <3>3
  <2>2. StopVerdict'
    BY <1>11 DEF Retain
  <2>3. StopJobs'
    BY <1>11 DEF Retain
  <2>. HIDE DEF ReachInv, StopVerdict, StopJobs
  <2>. QED BY <2>1, <2>2, <2>3
<1>12. ASSUME NEW c \in Callers, Decide(c) PROVE StopInv'
  BY <1>12 DEF Decide
<1>13. ASSUME NEW c \in Callers, Record(c) PROVE StopInv'
  BY <1>13 DEF Record
<1>14. ASSUME NEW c \in Callers, Leave(c) PROVE StopInv'
  <2>1. ReachInv'
    BY <1>14 DEF Leave
  <2>2. StopVerdict'
    BY <1>14 DEF Leave
  <2>3. StopJobs'
    BY <1>14 DEF Leave
  <2>. HIDE DEF ReachInv, StopVerdict, StopJobs
  <2>. QED BY <2>1, <2>2, <2>3
<1>15. ASSUME NEW c \in Callers, Clear(c) PROVE StopInv'
  <2>1. ReachInv'
    BY <1>15, SMTT(60) DEF Clear
  <2>2. StopVerdict'
    BY <1>15 DEF Clear
  <2>3. StopJobs'
    BY <1>15 DEF Clear
  <2>. HIDE DEF ReachInv, StopVerdict, StopJobs
  <2>. QED BY <2>1, <2>2, <2>3
<1>16. ASSUME NEW c \in Callers, Skip(c) PROVE StopInv'
  <2>1. ReachInv'
    <3>1. ~Reached(job[c]) /\ job[c] \in JobIDs
      BY <1>16 DEF Skip
    <3>2. \A j \in JobIDs : j # job[c] => jobs'[j] = jobs[j]
      BY <1>16 DEF Skip
    <3>3. \A j \in JobIDs : Reached(j)' <=> Reached(j)
      BY <1>16 DEF Skip
    <3>4. nextID' = nextID /\ \A d \in Callers : job'[d] = IF d = c THEN NoJob ELSE job[d]
      BY <1>16 DEF Skip
    <3>5. \A d \in Callers : d # c => pc'[d] = pc[d]
      BY <1>16 DEF Skip
    <3>6. NoJob \notin JobIDs
      OBVIOUS
    <3>. HIDE DEF Reached
    <3>. QED BY <3>1, <3>2, <3>3, <3>4, <3>5, <3>6
  <2>2. StopVerdict'
    BY <1>16 DEF Skip
  <2>3. StopJobs'
    BY <1>16 DEF Skip
  <2>. HIDE DEF ReachInv, StopVerdict, StopJobs
  <2>. QED BY <2>1, <2>2, <2>3
<1>17. ASSUME NEW c \in Callers, Fail(c) PROVE StopInv'
  BY <1>17 DEF Fail
<1>18. ASSUME NEW s \in Stoppers, StopRead(s) PROVE StopInv'
  <2>1. ReachInv'
    BY <1>18 DEF StopRead
  <2>2. StopVerdict'
    BY <1>18 DEF StopRead
  <2>3. StopJobs'
    BY <1>18 DEF StopRead
  <2>. HIDE DEF ReachInv, StopVerdict, StopJobs
  <2>. QED BY <2>1, <2>2, <2>3
<1>19. ASSUME NEW s \in Stoppers, StopCall(s) PROVE StopInv'
  BY <1>19 DEF StopCall
<1>20. ASSUME Crash PROVE StopInv'
  BY <1>20 DEF Crash
<1>21. ASSUME UNCHANGED vars PROVE StopInv'
  BY <1>21 DEF vars
<1>. QED
  BY <1>1, <1>2, <1>3, <1>4, <1>5, <1>6, <1>7, <1>8, <1>9, <1>10, <1>11, <1>12, <1>13, <1>14,
     <1>15, <1>16, <1>17, <1>18, <1>19, <1>20, <1>21 DEF Next, Prepare, Run, Frame, Settle

\* What Stop cancels is a run, and only what it cancels is recorded as stopped:
\* no job is "stopped" without a Stop that reached it, and a Stop never reaches
\* one that is skipped because another runs.
THEOREM StoppedMeansStop == Spec => [](
    /\ \A j \in JobIDs : jobs[j] = "stopped" => j \in cancelled
    /\ \A j \in cancelled : jobs[j] \notin {"absent", "skipped"})
<1>1. Init => StopInv
  BY JobControlAssumption
  DEF Init, StopInv, ReachInv, StopVerdict, StopJobs, Reached, JobIDs
<1>2. JobInv /\ StopInv =>
        /\ \A j \in JobIDs : jobs[j] = "stopped" => j \in cancelled
        /\ \A j \in cancelled : jobs[j] \notin {"absent", "skipped"}
  BY DEF JobInv, TypeOK, StopInv, ReachInv, StopVerdict, StopJobs, Reached
<1>. QED BY <1>1, <1>2, InvInit, StopStep, JobInvariant, PTL DEF Spec

AtWork == {"connecting", "working", "retaining"}

\* A run at work that a Stop could reach stays within its reach, but for one
\* thing: another caller whose run has ended clears the field late (the deferred
\* function clears the flag first).
THEOREM ReachLostToAnother == Spec => [][
    \A c \in Callers :
        pc[c] \in AtWork /\ cancelFn = job[c] /\ pc'[c] \in AtWork /\ cancelFn' # job'[c] =>
            \E d \in Callers \ {c} : Clear(d)]_vars
<1>1. ASSUME JobInv, [Next]_vars, NEW c \in Callers, pc[c] \in AtWork, cancelFn = job[c],
             pc'[c] \in AtWork, cancelFn' # job'[c]
      PROVE  \E d \in Callers \ {c} : Clear(d)
  <2>. USE <1>1 DEF GoTo, Done, agent, table, callers, JobInv, TypeOK, OneRun, AtWork, Inside
  <2>1. ~UNCHANGED vars /\ ~Crash
    BY DEF vars, Crash
  <2>2. \A d \in Callers : ~(Ask(d) \/ Prepare(d) \/ Settle(d))
    BY DEF Ask, Prepare, CreateJob, CreateFails, NoSources, Enter, Settle, Skip, Fail
  <2>3. \A s \in Stoppers : ~(StopRead(s) \/ StopCall(s))
    BY DEF StopRead, StopCall
  <2>4. \A d \in Callers : ~(BadRegex(d) \/ Publish(d) \/ ConnectFails(d) \/ Connect(d))
    BY DEF BadRegex, Publish, ConnectFails, Connect
  <2>5. \A d \in Callers : ~(Work(d) \/ Retain(d) \/ Decide(d) \/ Record(d) \/ Leave(d))
    BY DEF Work, Retain, Decide, Record, Leave
  <2>6. ~Clear(c)
    BY DEF Clear
  <2>. QED BY <2>1, <2>2, <2>3, <2>4, <2>5, <2>6 DEF Next, Run, Frame
<1>2. JobInv /\ [Next]_vars =>
        [\A c \in Callers :
           pc[c] \in AtWork /\ cancelFn = job[c] /\ pc'[c] \in AtWork /\ cancelFn' # job'[c] =>
               \E d \in Callers \ {c} : Clear(d)]_vars
  BY <1>1
<1>. QED BY <1>2, JobInvariant, PTL DEF Spec

\* With one caller there is no such other: "Stop cancels the currently running
\* backup job" holds, and what refutes it is the overlap of two runs alone.
THEOREM StoppableAlone ==
    ASSUME \A c, d \in Callers : c = d
    PROVE  Spec => []Stoppable
<1>. DEFINE Alone == \A c \in Callers : pc[c] \in AtWork => cancelFn = job[c]
<1>1. Init => Alone
  BY DEF Init, AtWork
<1>2. ASSUME JobInv, Alone, [Next]_vars PROVE Alone'
  <2>. USE <1>2 DEF GoTo, Done, agent, table, callers, JobInv, TypeOK, AtWork
  <2>. QED
    BY DEF Next, vars, Crash, StopRead, StopCall, Ask, Prepare, CreateJob, CreateFails,
           NoSources, Enter, Settle, Skip, Fail, Run, Frame, BadRegex, Publish, ConnectFails,
           Connect, Work, Retain, Decide, Record, Leave, Clear
<1>3. JobInv /\ Alone /\ [Next]_vars => Alone'
  BY <1>2
<1>4. Alone => Stoppable
  BY DEF Stoppable, AtWork
<1>. HIDE DEF Alone
<1>. QED BY <1>1, <1>3, <1>4, JobInvariant, PTL DEF Spec

-----------------------------------------------------------------------------
(* A caller comes to an end *)

\* The steps a caller has before it at the most.
Rank == [idle |-> 0, erred |-> 1, lost |-> 1, clearing |-> 2, leaving |-> 3, updating |-> 4,
         deciding |-> 5, retaining |-> 6, working |-> 7, connecting |-> 8, entered |-> 9,
         created |-> 10, asked |-> 11]

ToGo(c) == Rank[pc[c]]

LEMMA RankOf ==
    /\ Rank["idle"] = 0 /\ Rank["erred"] = 1 /\ Rank["lost"] = 1 /\ Rank["clearing"] = 2
    /\ Rank["leaving"] = 3 /\ Rank["updating"] = 4 /\ Rank["deciding"] = 5
    /\ Rank["retaining"] = 6 /\ Rank["working"] = 7 /\ Rank["connecting"] = 8
    /\ Rank["entered"] = 9 /\ Rank["created"] = 10 /\ Rank["asked"] = 11
BY DEF Rank

LEMMA RankType == \A s \in Steps : Rank[s] \in Nat /\ (s # "idle" => Rank[s] > 0)
BY RankOf DEF Steps, Inside, Published

StepOf(c) == Prepare(c) \/ Run(c) \/ Settle(c)

\* A step of a caller moves that caller, nearer to its end.
LEMMA OwnStep ==
    ASSUME TypeOK, NEW c \in Callers, StepOf(c)
    PROVE  /\ Rank[pc'[c]] < Rank[pc[c]]
           /\ \A d \in Callers \ {c} : pc'[d] = pc[d]
<1>. USE RankOf DEF TypeOK, GoTo, Done
<1>1. ASSUME Prepare(c)
      PROVE  \E s \in {"idle", "created", "lost", "entered"} :
                pc' = [pc EXCEPT ![c] = s] /\ Rank[s] < Rank[pc[c]]
  BY <1>1 DEF Prepare, CreateJob, CreateFails, NoSources, Enter
<1>2. ASSUME Run(c)
      PROVE  \E s \in Steps : pc' = [pc EXCEPT ![c] = s] /\ Rank[s] < Rank[pc[c]]
  <2>. USE DEF Steps, Inside, Published
  <2>1. CASE BadRegex(c) \/ Publish(c) \/ ConnectFails(c) \/ Connect(c)
    BY <2>1 DEF BadRegex, Publish, ConnectFails, Connect
  <2>2. CASE Work(c) \/ Retain(c) \/ Decide(c)
    BY <2>2 DEF Work, Retain, Decide
  <2>3. CASE Record(c) \/ Leave(c) \/ Clear(c)
    BY <2>3 DEF Record, Leave, Clear
  <2>. QED BY <1>2, <2>1, <2>2, <2>3 DEF Run, Frame
<1>3. ASSUME Settle(c)
      PROVE  pc' = [pc EXCEPT ![c] = "idle"] /\ Rank["idle"] < Rank[pc[c]]
  BY <1>3 DEF Settle, Skip, Fail
<1>. QED BY <1>1, <1>2, <1>3 DEF StepOf

\* Any other step leaves a caller that is not idle where it is, or is a crash.
LEMMA OtherStep ==
    ASSUME TypeOK, [Next]_vars, NEW c \in Callers, ~StepOf(c), pc[c] # "idle"
    PROVE  pc'[c] \in {"idle", pc[c]}
<1>1. ASSUME NEW d \in Callers, StepOf(d) PROVE pc'[c] = pc[c]
  BY <1>1, OwnStep
<1>2. ASSUME NEW d \in Callers, Ask(d) PROVE pc'[c] = pc[c]
  BY <1>2 DEF Ask, GoTo, TypeOK
<1>3. ASSUME NEW s \in Stoppers, StopRead(s) \/ StopCall(s) PROVE pc'[c] = pc[c]
  BY <1>3 DEF StopRead, StopCall, callers
<1>4. ASSUME Crash PROVE pc'[c] = "idle"
  BY <1>4 DEF Crash
<1>5. ASSUME UNCHANGED vars PROVE pc'[c] = pc[c]
  BY <1>5 DEF vars, callers
<1>. QED BY <1>1, <1>2, <1>3, <1>4, <1>5 DEF Next, StepOf

\* A caller comes to an end after eleven steps of its own at the most, and no
\* step of another caller, of a Stop or of a crash takes it back; none of its
\* own waits for another.
THEOREM CallersComeToAnEnd == Spec =>
    /\ [](\A c \in Callers : pc[c] # "idle" => ToGo(c) \in 1 .. 11)
    /\ [][\A c \in Callers : pc[c] # "idle" =>
             ToGo(c)' <= ToGo(c) /\ (StepOf(c) => ToGo(c)' < ToGo(c))]_vars
<1>1. JobInv => \A c \in Callers : pc[c] # "idle" => ToGo(c) \in 1 .. 11
  BY RankOf DEF JobInv, TypeOK, Steps, Inside, Published, ToGo
<1>2. ASSUME JobInv, [Next]_vars, NEW c \in Callers, pc[c] # "idle"
      PROVE  ToGo(c)' <= ToGo(c) /\ (StepOf(c) => ToGo(c)' < ToGo(c))
  <2>1. pc[c] \in Steps /\ Rank[pc[c]] \in Nat /\ Rank["idle"] = 0
    BY <1>2, RankType, RankOf DEF JobInv, TypeOK
  <2>2. CASE StepOf(c)
    <3>1. Rank[pc'[c]] < Rank[pc[c]] /\ pc'[c] \in Steps
      BY <1>2, <2>2, OwnStep, TypeStep DEF JobInv, TypeOK
    <3>2. Rank[pc'[c]] \in Nat
      BY <3>1, RankType
    <3>. QED BY <2>1, <3>1, <3>2 DEF ToGo
  <2>3. CASE ~StepOf(c)
    <3>1. pc'[c] \in {"idle", pc[c]}
      BY <1>2, <2>3, OtherStep DEF JobInv
    <3>. QED BY <2>1, <2>3, <3>1 DEF ToGo
  <2>. QED BY <2>2, <2>3
<1>3. JobInv /\ [Next]_vars =>
        [\A c \in Callers : pc[c] # "idle" =>
            ToGo(c)' <= ToGo(c) /\ (StepOf(c) => ToGo(c)' < ToGo(c))]_vars
  BY <1>2
<1>. QED BY <1>1, <1>3, JobInvariant, PTL DEF Spec
=============================================================================
