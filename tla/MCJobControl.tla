------------------------------ MODULE MCJobControl ------------------------------
(* Instances of JobControl for TLC. *)
EXTENDS JobControl, TLC

Everyone == Permutations(Callers) \cup Permutations(Stoppers)
=============================================================================
