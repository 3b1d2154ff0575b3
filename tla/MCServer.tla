-------------------------------- MODULE MCServer --------------------------------
(* Instances of Server for TLC. *)
EXTENDS Server, TLC

\* The expression of the second does not parse: nothing validated it then.
OldSchedules ==
    [i \in Ids |->
        [on |-> TRUE, cron |-> IF i = 1 THEN "valid" ELSE "invalid", set |-> "default"]]

HandlersAlike == Permutations(Handlers)
=============================================================================
