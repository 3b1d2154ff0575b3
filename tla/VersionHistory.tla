---------------------------- MODULE VersionHistory ----------------------------
(***************************************************************************)
(* What the versioning strategy of README.md (lines 52-57) promises, with  *)
(* no workers, blobs, clock or failures: every file has a history of at    *)
(* most MaxVersions restorable versions; the only thing that ever happens  *)
(* to it is that a version with the next number joins it, and a full       *)
(* history then loses its lowest number.  BackupStore is shown to          *)
(* implement this.                                                         *)
(***************************************************************************)
EXTENDS Naturals, FiniteSets

CONSTANTS Files, Hashes, MaxVersions

VARIABLE history  \* history[f]: a set of [num, hash]

Init == history = [f \in Files |-> {}]

NextNum(f) == {m + 1 : m \in {k \in {v.num : v \in history[f]} \cup {0} :
                                 \A v \in history[f] : v.num <= k}}

Kept(f) == IF Cardinality(history[f]) < MaxVersions
           THEN history[f]
           ELSE {v \in history[f] : \E u \in history[f] : u.num < v.num}

Record(f, n, h) ==
    history' = [history EXCEPT ![f] = Kept(f) \cup {[num |-> n, hash |-> h]}]

Next == \E f \in Files : \E n \in NextNum(f) : \E h \in Hashes : Record(f, n, h)

Spec == Init /\ [][Next]_history
=============================================================================
