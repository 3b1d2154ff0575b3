----------------------------- MODULE MCBackupStore -----------------------------
(* Instances of BackupStore for TLC. *)
EXTENDS BackupStore, TLC

\* Sizes that tell a content from its neighbours but not from every other one.
SizeMod2(c) == c % 2

\* Every content has the same size: only the mtime can tell them apart.
OneSize(c) == 1

WorkersAndBlobs == Permutations(Workers) \cup Permutations(Blobs)
Everything == WorkersAndBlobs \cup Permutations(Files)
=============================================================================
