------------------------------- MODULE JobLedger -------------------------------
(***************************************************************************)
(* What the job history promises its reader: a job is recorded as running, *)
(* at most one job at a time executes, and each job is settled at most     *)
(* once.  A result of execution is only given to the job that executes;    *)
(* "skipped" and "failed" only to one that does not (any more).            *)
(***************************************************************************)
CONSTANTS Jobs, NoJob

VARIABLES ledger, active  \* the status of each job, and the executing job

Results == {"completed", "completed_with_errors", "stopped"}
Refusals == {"skipped", "failed"}
Settled == Results \cup Refusals

Init == ledger = [j \in Jobs |-> "absent"] /\ active = NoJob

Submit(j) ==
    /\ ledger[j] = "absent"
    /\ ledger' = [ledger EXCEPT ![j] = "running"]
    /\ UNCHANGED active

Begin(j) ==
    /\ ledger[j] = "running" /\ active = NoJob
    /\ active' = j
    /\ UNCHANGED ledger

Settle(j, s) ==
    /\ ledger[j] = "running"
    /\ s \in Results <=> active = j
    /\ ledger' = [ledger EXCEPT ![j] = s]
    /\ UNCHANGED active

End == active' = NoJob /\ UNCHANGED ledger

Next ==
    \/ \E j \in Jobs : Submit(j) \/ Begin(j) \/ \E s \in Settled : Settle(j, s)
    \/ End

Spec == Init /\ [][Next]_<<ledger, active>>
=============================================================================
