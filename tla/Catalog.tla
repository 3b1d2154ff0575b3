------------------------------- MODULE Catalog -------------------------------
(***************************************************************************)
(* The file_versions table of internal/db/db.go, as operators on a set of  *)
(* rows.  A row carries what the backup logic compares: the file it        *)
(* belongs to, its version number, the blob that holds it, the hash, size  *)
(* and mtime recorded for the source file, and the encrypted_at stamp.     *)
(*                                                                         *)
(* encrypted_at is written with time.RFC3339, so its unit is one second    *)
(* and two rows of a file may carry the same stamp.  A query ordered by    *)
(* encrypted_at may return any of the tied rows: Newest and Oldest are     *)
(* sets, and a caller picks a member.                                      *)
(***************************************************************************)
EXTENDS Naturals, FiniteSets

CONSTANT MaxVersions  \* versions kept per file; the literal 3 in the code

ASSUME MaxVersionsAssumption == MaxVersions \in Nat \ {0}

VersionsOf(rows, f) == {r \in rows : r.file = f}

NumsOf(rows, f) == {r.num : r \in VersionsOf(rows, f)}

\* Fault: the next number counts the versions that are left.
NextNumsByCount(rows, f) == {Cardinality(NumsOf(rows, f)) + 1}

\* SELECT MAX(version_num) + 1, or 1 for a file with no version.  There is
\* exactly one such number; a set avoids naming the maximum.
NextNums(rows, f) ==
    {m + 1 : m \in {k \in NumsOf(rows, f) \cup {0} :
                        \A j \in NumsOf(rows, f) : j <= k}}

\* Fault: DESC is missing.
NewestAscending(rows, f) ==
    {r \in VersionsOf(rows, f) : \A s \in VersionsOf(rows, f) : r.at <= s.at}

\* ORDER BY encrypted_at DESC LIMIT 1, and ASC LIMIT 1
Newest(rows, f) ==
    {r \in VersionsOf(rows, f) : \A s \in VersionsOf(rows, f) : s.at <= r.at}

Oldest(rows, f) ==
    {r \in VersionsOf(rows, f) : \A s \in VersionsOf(rows, f) : r.at <= s.at}

\* Fault: the count is compared with <=.
RoomForOneMore(rows, f) == Cardinality(VersionsOf(rows, f)) <= MaxVersions

HasRoom(rows, f) == Cardinality(VersionsOf(rows, f)) < MaxVersions

\* The outcomes of the UpsertFileVersion transaction: below the cap the row is
\* added, at the cap one oldest row makes room for it.  The evicted row (its
\* blob is what the function returns) comes back with the new table.
Upserted(rows, row) ==
    IF HasRoom(rows, row.file)
    THEN {[rows |-> rows \cup {row}, evicted |-> {}]}
    ELSE {[rows |-> (rows \ {old}) \cup {row}, evicted |-> {old}] :
             old \in Oldest(rows, row.file)}

\* The outcomes of UpdateLatestVersionMtime: the sub-select picks a newest row
\* at the time of the UPDATE; without a row nothing is updated.
MtimeRefreshed(rows, f, mtime) ==
    IF VersionsOf(rows, f) = {}
    THEN {rows}
    ELSE {(rows \ {r}) \cup {[r EXCEPT !.mtime = mtime]} : r \in Newest(rows, f)}
=============================================================================
