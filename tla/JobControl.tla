------------------------------ MODULE JobControl ------------------------------
(***************************************************************************)
(* Who may run a backup, and what becomes of its job record.  Callers are  *)
(* the goroutines that ask for one: POST /api/jobs (handleCreateJob in     *)
(* internal/web/handlers.go) and the cron entries (runSchedule in          *)
(* internal/scheduler/scheduler.go).  They share one Agent: the running    *)
(* flag, tested and set atomically, and the fields under its mutex.        *)
(* Stoppers call Stop (internal/agent/agent.go).                           *)
(*                                                                         *)
(* A step is one atomic operation, one critical section or one database    *)
(* statement.  The work between connecting and the verdict is one step     *)
(* here; BackupStore and WorkerPool look inside.                           *)
(***************************************************************************)
EXTENDS Naturals, FiniteSets

CONSTANTS
    Callers, Stoppers,
    MaxJobs,     \* bound: job records created
    MaxFaults,   \* bound: job updates that fail, and process crashes
    NoJob

ASSUME JobControlAssumption ==
    MaxJobs \in Nat /\ MaxFaults \in Nat /\ NoJob \notin 1 .. MaxJobs

VARIABLES
    running,    \* Agent.running
    cancelFn,   \* the job whose context Agent.cancelFn cancels, or NoJob (nil)
    jobID,      \* Agent.jobID
    cancelled,  \* the jobs whose context has been cancelled
    jobs,       \* backup_jobs.status of each id
    nextID,     \* the next AUTOINCREMENT id
    pc, job,    \* where each caller is, and its job
    errs,       \* errs[c]: some file of the run could not be backed up
    verdict,    \* verdict[c]: the status it has decided to write
    stopping,   \* stopping[s]: the cancel function a Stop has read
    faults

agent == <<running, cancelFn, jobID, cancelled>>
table == <<jobs, nextID>>
callers == <<pc, job, errs, verdict>>
vars == <<agent, table, callers, stopping, faults>>

JobIDs == 1 .. MaxJobs
Terminal == {"completed", "completed_with_errors", "stopped", "skipped", "failed"}

\* From the compare-and-swap that sets the running flag to the store that
\* clears it.
Inside == {"entered", "connecting", "working", "retaining", "deciding",
           "updating", "leaving"}
\* From the critical section that sets cancelFn to the one that clears it.
Published == (Inside \ {"entered"}) \cup {"clearing"}
Steps == {"idle", "asked", "created", "lost", "erred"} \cup Inside \cup Published

Init ==
    /\ running = FALSE /\ cancelFn = NoJob /\ jobID = NoJob /\ cancelled = {}
    /\ jobs = [j \in JobIDs |-> "absent"] /\ nextID = 1
    /\ pc = [c \in Callers |-> "idle"] /\ job = [c \in Callers |-> NoJob]
    /\ errs = [c \in Callers |-> FALSE] /\ verdict = [c \in Callers |-> "none"]
    /\ stopping = [s \in Stoppers |-> NoJob]
    /\ faults = 0

GoTo(c, step) == pc' = [pc EXCEPT ![c] = step]

\* The caller is done with its job.
Done(c) ==
    /\ GoTo(c, "idle")
    /\ job' = [job EXCEPT ![c] = NoJob]
    /\ errs' = [errs EXCEPT ![c] = FALSE]
    /\ verdict' = [verdict EXCEPT ![c] = "none"]

\* Faults: the update has no WHERE clause; no effect; one result for all; a
\* status nothing knows.
UpdateEveryJob(j, status) ==
    /\ jobs' = [k \in JobIDs |-> IF jobs[k] = "absent" THEN "absent" ELSE status]
    /\ UNCHANGED faults
UpdateNoJob(j, status) == UNCHANGED <<jobs, faults>>
UpdateJobCompleted(j, status) ==
    jobs' = [jobs EXCEPT ![j] = "completed"] /\ UNCHANGED faults
UpdateJobUnknown(j, status) ==
    jobs' = [jobs EXCEPT ![j] = "rejected"] /\ UNCHANGED faults

\* UpdateJob; its error is ignored everywhere, the row then stays as it was.
UpdateJob(j, status) ==
    \/ jobs' = [jobs EXCEPT ![j] = status] /\ UNCHANGED faults
    \/ faults < MaxFaults /\ faults' = faults + 1 /\ UNCHANGED jobs

-----------------------------------------------------------------------------
(* A caller, up to Run *)

\* IsRunning() returns false; otherwise the request is refused without a job.
Ask(c) ==
    /\ pc[c] = "idle" /\ ~running /\ nextID <= MaxJobs
    /\ GoTo(c, "asked")
    /\ UNCHANGED <<agent, table, job, errs, verdict, stopping, faults>>

CreateJob(c) ==
    /\ pc[c] = "asked" /\ nextID <= MaxJobs
    /\ jobs' = [jobs EXCEPT ![nextID] = "running"]
    /\ nextID' = nextID + 1
    /\ job' = [job EXCEPT ![c] = nextID]
    /\ GoTo(c, "created")
    /\ UNCHANGED <<agent, errs, verdict, stopping, faults>>

\* CreateJobForSchedule fails: the caller gives up.
CreateFails(c) ==
    /\ pc[c] = "asked"
    /\ Done(c)
    /\ UNCHANGED <<agent, table, stopping, faults>>

\* runSchedule: a schedule without source directories is settled as failed.
NoSources(c) ==
    /\ pc[c] = "created"
    /\ UpdateJob(job[c], "failed")
    /\ Done(c)
    /\ UNCHANGED <<agent, nextID, stopping>>

-----------------------------------------------------------------------------
(* Agent.Run *)

\* Fault: the flag is set without being tested.
EnterUntested(c) ==
    /\ pc[c] = "created"
    /\ GoTo(c, "entered") /\ running' = TRUE
    /\ UNCHANGED <<cancelFn, jobID, cancelled, table, job, errs, verdict,
                   stopping, faults>>

\* CompareAndSwapInt32(&a.running, 0, 1)
Enter(c) ==
    /\ pc[c] = "created"
    /\ IF running
       THEN GoTo(c, "lost") /\ UNCHANGED running
       ELSE GoTo(c, "entered") /\ running' = TRUE
    /\ UNCHANGED <<cancelFn, jobID, cancelled, table, job, errs, verdict,
                   stopping, faults>>

\* Fault: the early return leaves the flag set.
BadRegexKeepsFlag(c) ==
    /\ pc[c] = "entered"
    /\ GoTo(c, "erred")
    /\ UNCHANGED <<agent, table, job, errs, verdict, stopping, faults>>

\* compileExcludeRegexes fails: the flag is cleared, nothing was published.
BadRegex(c) ==
    /\ pc[c] = "entered"
    /\ running' = FALSE
    /\ GoTo(c, "erred")
    /\ UNCHANGED <<cancelFn, jobID, cancelled, table, job, errs, verdict,
                   stopping, faults>>

Publish(c) ==
    /\ pc[c] = "entered"
    /\ cancelFn' = job[c]
    /\ jobID' = job[c]
    /\ GoTo(c, "connecting")
    /\ UNCHANGED <<running, cancelled, table, job, errs, verdict, stopping, faults>>

\* NewClient or EnsureDir returns an error: Run returns it.
ConnectFails(c) ==
    /\ pc[c] = "connecting"
    /\ verdict' = [verdict EXCEPT ![c] = "failed"]
    /\ GoTo(c, "leaving")
    /\ UNCHANGED <<agent, table, job, errs, stopping, faults>>

Connect(c) ==
    /\ pc[c] = "connecting"
    /\ GoTo(c, "working")
    /\ UNCHANGED <<agent, table, job, errs, verdict, stopping, faults>>

\* The walk and the workers end, because of the files or of the context, if
\* they do; the retention pass is skipped when the context is cancelled.
Work(c) ==
    /\ pc[c] = "working"
    /\ \E e \in BOOLEAN : errs' = [errs EXCEPT ![c] = e]
    /\ GoTo(c, IF job[c] \in cancelled THEN "deciding" ELSE "retaining")
    /\ UNCHANGED <<agent, table, job, verdict, stopping, faults>>

\* applyDeletedSourceRetention ends and adds its errors.
Retain(c) ==
    /\ pc[c] = "retaining"
    /\ \E e \in BOOLEAN : errs' = [errs EXCEPT ![c] = @ \/ e]
    /\ GoTo(c, "deciding")
    /\ UNCHANGED <<agent, table, job, verdict, stopping, faults>>

Decide(c) ==
    /\ pc[c] = "deciding"
    /\ verdict' = [verdict EXCEPT ![c] =
                     IF job[c] \in cancelled THEN "stopped"
                     ELSE IF errs[c] THEN "completed_with_errors"
                     ELSE "completed"]
    /\ GoTo(c, "updating")
    /\ UNCHANGED <<agent, table, job, errs, stopping, faults>>

Record(c) ==
    /\ pc[c] = "updating"
    /\ UpdateJob(job[c], verdict[c])
    /\ GoTo(c, "leaving")
    /\ UNCHANGED <<agent, nextID, job, errs, verdict, stopping>>

\* The deferred function: the flag is cleared first ...
Leave(c) ==
    /\ pc[c] = "leaving"
    /\ running' = FALSE
    /\ GoTo(c, "clearing")
    /\ UNCHANGED <<cancelFn, jobID, cancelled, table, job, errs, verdict,
                   stopping, faults>>

\* Fault: cancelFn is kept.
ClearKeepsCancel(c) ==
    /\ pc[c] = "clearing"
    /\ IF verdict[c] = "failed"
       THEN GoTo(c, "erred") /\ UNCHANGED <<job, errs, verdict>>
       ELSE Done(c)
    /\ UNCHANGED <<agent, table, stopping, faults>>

\* ... and then, under the mutex, the fields; jobID keeps its value.
Clear(c) ==
    /\ pc[c] = "clearing"
    /\ cancelFn' = NoJob
    /\ IF verdict[c] = "failed"
       THEN GoTo(c, "erred") /\ UNCHANGED <<job, errs, verdict>>
       ELSE Done(c)
    /\ UNCHANGED <<running, jobID, cancelled, table, stopping, faults>>

-----------------------------------------------------------------------------
(* A caller, after Run has returned an error *)

Skip(c) ==
    /\ pc[c] = "lost"
    /\ UpdateJob(job[c], "skipped")
    /\ Done(c)
    /\ UNCHANGED <<agent, nextID, stopping>>

Fail(c) ==
    /\ pc[c] = "erred"
    /\ UpdateJob(job[c], "failed")
    /\ Done(c)
    /\ UNCHANGED <<agent, nextID, stopping>>

-----------------------------------------------------------------------------
(* Stop *)

\* Stop copies the function under the read lock; nil makes it return false.
StopRead(s) ==
    /\ stopping[s] = NoJob /\ cancelFn # NoJob
    /\ stopping' = [stopping EXCEPT ![s] = cancelFn]
    /\ UNCHANGED <<agent, table, callers, faults>>

\* ... and calls it after releasing the lock.
StopCall(s) ==
    /\ stopping[s] # NoJob
    /\ cancelled' = cancelled \cup {stopping[s]}
    /\ stopping' = [stopping EXCEPT ![s] = NoJob]
    /\ UNCHANGED <<running, cancelFn, jobID, table, callers, faults>>

-----------------------------------------------------------------------------
\* The process dies and is started again: the agent is new, the table is kept.
Crash ==
    /\ faults < MaxFaults /\ faults' = faults + 1
    /\ \E c \in Callers : pc[c] # "idle"
    /\ running' = FALSE /\ cancelFn' = NoJob /\ jobID' = NoJob
    /\ pc' = [c \in Callers |-> "idle"] /\ job' = [c \in Callers |-> NoJob]
    /\ errs' = [c \in Callers |-> FALSE] /\ verdict' = [c \in Callers |-> "none"]
    /\ stopping' = [s \in Stoppers |-> NoJob]
    /\ UNCHANGED <<cancelled, table>>

Prepare(c) == CreateJob(c) \/ CreateFails(c) \/ NoSources(c) \/ Enter(c)

\* The steps of a run around its work.
Frame(c) ==
    \/ BadRegex(c) \/ Publish(c) \/ ConnectFails(c) \/ Connect(c)
    \/ Retain(c) \/ Decide(c) \/ Record(c) \/ Leave(c) \/ Clear(c)

Run(c) == Frame(c) \/ Work(c)

Settle(c) == Skip(c) \/ Fail(c)

Next ==
    \/ \E c \in Callers : Ask(c) \/ Prepare(c) \/ Run(c) \/ Settle(c)
    \/ \E s \in Stoppers : StopRead(s) \/ StopCall(s)
    \/ Crash

Spec == Init /\ [][Next]_vars

\* Goroutines that can take a step do.  Nothing is said of Work: a worker may
\* wait for ever at a pipe (UploadPipeline), the walk at a full channel nobody
\* reads (WorkerPool).
FairSpec ==
    Spec /\ \A c \in Callers : WF_vars(Prepare(c) \/ Frame(c) \/ Settle(c))

-----------------------------------------------------------------------------
(* Properties *)

\* Type invariant of the agent, the job table and the callers.
TypeOK ==
    /\ running \in BOOLEAN
    /\ cancelFn \in JobIDs \cup {NoJob} /\ jobID \in JobIDs \cup {NoJob}
    /\ cancelled \subseteq JobIDs
    /\ jobs \in [JobIDs -> {"absent", "running"} \cup Terminal]
    /\ nextID \in 1 .. MaxJobs + 1
    /\ pc \in [Callers -> Steps] /\ job \in [Callers -> JobIDs \cup {NoJob}]
    /\ errs \in [Callers -> BOOLEAN]
    /\ verdict \in [Callers -> Terminal \cup {"none"}]
    /\ stopping \in [Stoppers -> JobIDs \cup {NoJob}]
    /\ faults \in Nat

\* At most one caller is inside Run past its compare-and-swap, and the flag
\* says so, also while runs overlap in their deferred functions.
OneRun ==
    /\ running <=> \E c \in Callers : pc[c] \in Inside
    /\ \A c, d \in Callers : pc[c] \in Inside /\ pc[d] \in Inside => c = d

\* A job that has not been settled is in the hands of at most one caller, and
\* no caller is about to settle a job that already is.
JobOwned ==
    /\ \A c \in Callers : pc[c] \notin {"idle", "asked"} =>
          /\ job[c] \in JobIDs
          /\ job[c] < nextID
          /\ pc[c] \notin {"leaving", "clearing"} \/ verdict[c] = "failed"
                => jobs[job[c]] = "running"
    /\ \A c, d \in Callers : job[c] = job[d] /\ job[c] # NoJob => c = d
    /\ \A j \in JobIDs : j >= nextID => jobs[j] = "absent"

\* The agent never keeps the cancel function of a run that has returned: a
\* Stop that gets one cancels a run that is still inside Run.
CancelFnLive ==
    cancelFn # NoJob =>
        \E c \in Callers : job[c] = cancelFn /\ pc[c] \in Published

\* What the history shows of a job never changes once it is settled.
SettledOnce ==
    [][\A j \in JobIDs : jobs[j] \in Terminal => jobs'[j] = jobs[j]]_vars

\* The job table together with the executing job behaves like a JobLedger.
Executing ==
    IF \E c \in Callers : pc[c] \in Inside
    THEN job[CHOOSE c \in Callers : pc[c] \in Inside]
    ELSE NoJob

Ledger == INSTANCE JobLedger WITH
              Jobs <- JobIDs, ledger <- jobs, active <- Executing

LedgerSpec == Ledger!Spec

WorkedOn(j) == \E c \in Callers : pc[c] = "working" /\ job[c] = j

\* Every job that is created is settled.  There are MaxJobs at most, so a time comes
\* from which none is "running" but one whose work never ends.  A crash or a failing
\* update may leave one so for good, since nothing repairs the table (CreateJob); no
\* refused, failed or stopped run does.
JobsSettle ==
    <>[](\A j \in JobIDs : jobs[j] = "running" => faults > 0 \/ WorkedOn(j))

\* The agent becomes free again after every run whose work ends, whatever the run
\* met: only a run at work keeps the flag of Agent.Run.
AgentFrees ==
    running /\ (\A j \in JobIDs : ~WorkedOn(j)) ~>
        ~running \/ \E j \in JobIDs : WorkedOn(j)

\* "Stop cancels the currently running backup job" (agent.go:145): while a
\* run is at work, the agent holds its cancel function.
Stoppable ==
    \A c \in Callers : pc[c] \in {"connecting", "working", "retaining"} =>
        cancelFn = job[c]
=============================================================================
