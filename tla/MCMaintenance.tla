----------------------------- MODULE MCMaintenance -----------------------------
(* Instances of Maintenance for TLC. *)
EXTENDS Maintenance, TLC

OneSize(c) == 1

\* The prefix is empty or names the directory of every file.
WholeTree == {Files}

\* Calls of PurgeFileVersion are interchangeable.
PurgersAlike == Permutations(Purgers)

-----------------------------------------------------------------------------
(* Situations that backups and purges reach from MaintInit, with every blob  *)
(* but one in use or used up: nobody is at work.                             *)

First == CHOOSE b \in Blobs : TRUE
Second == CHOOSE b \in Blobs \ {First} : TRUE

\* The n-th version of f, of the source after c edits.
VersionRow(f, n, b, c) ==
    [file |-> f, num |-> n, blob |-> b, hash |-> c, size |-> OneSize(c), mtime |-> c, at |-> 2]

Quiet(id) ==
    /\ pc = [w \in Workers |-> Idle] /\ task = [w \in Workers |-> NoTask]
    /\ held = [w \in Workers |-> NoBlob] /\ faults = 0 /\ clock = 2
    /\ entry = [f \in Files |-> [id |-> id, deleted |-> 0]] /\ nextID = id + 1
    /\ gone = {} /\ lastSeen = [f \in Files |-> 1]
    /\ walk = NoWalk /\ retain = NoRetain
    /\ prefix = NoPrefix /\ single = [p \in Purgers |-> NoSingle] /\ raced = {}

\* The only version was purged and the file, after c edits, recorded again.
RecordedAgain(c) ==
    /\ Quiet(2)
    /\ source = [f \in Files |-> [content |-> c, mtime |-> c]]
    /\ versions = {VersionRow(f, 1, Second, c) : f \in Files}
    /\ stored = [b \in Blobs |-> IF b = First THEN "deleted"
                                 ELSE IF b = Second THEN "complete" ELSE "none"]
    /\ payload = [b \in Blobs |-> IF b = First THEN 0 ELSE IF b = Second THEN c ELSE NoHash]

\* On the first day the file was recorded, edited and recorded, and no day is left.
TwoVersions ==
    /\ Quiet(1) /\ today = MaxDays
    /\ source = [f \in Files |-> [content |-> 1, mtime |-> 1]]
    /\ versions = UNION {{[VersionRow(f, 1, First, 0) EXCEPT !.at = 1],
                          VersionRow(f, 2, Second, 1)} : f \in Files}
    /\ stored = [b \in Blobs |-> IF b \in {First, Second} THEN "complete" ELSE "none"]
    /\ payload = [b \in Blobs |-> IF b = First THEN 0 ELSE IF b = Second THEN 1 ELSE NoHash]

\* The first with the edit behind it and the days ahead, and the other way round.
MCMaintInit ==
    \/ RecordedAgain(1) /\ today = 1
    \/ RecordedAgain(0) /\ today = MaxDays
    \/ TwoVersions

MCMaintSpec == MCMaintInit /\ [][MaintNext]_mvars
=============================================================================
