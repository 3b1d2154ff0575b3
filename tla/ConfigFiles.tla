------------------------------ MODULE ConfigFiles ------------------------------
(***************************************************************************)
(* config.json and secrets.json (internal/config/config.go): what each     *)
(* save writes and what a load reads back.                                 *)
(*                                                                         *)
(* Of the infrastructure fields the key salt stands for all (it is the one *)
(* that cannot be typed in again: every blob is encrypted under it), of    *)
(* the job settings of the old single-file layout a flag.  The remote_*    *)
(* fields are in every config.json and are left out.                       *)
(***************************************************************************)
EXTENDS Naturals

CONSTANTS
    MaxSalts    \* bound: the key salts that are generated

ASSUME ConfigFilesAssumption == MaxSalts \in Nat \ {0}

Salts == 1 .. MaxSalts

Paths == {"config", "secrets"}

\* st: "absent", "empty" (opened with O_TRUNC, not written yet), "garbled" (the
\* tail of a longer text behind a shorter one) or "whole".  salt 0: no key_salt.
Contents == [st : {"absent", "empty", "garbled", "whole"}, salt : 0 .. MaxSalts,
             legacy : BOOLEAN]

NotWhole(st) == [st |-> st, salt |-> 0, legacy |-> FALSE]
Absent == NotWhole("absent")
Whole(salt, legacy) == [st |-> "whole", salt |-> salt, legacy |-> legacy]

\* SaveUI writes the remote_* fields and nothing else; SaveSecrets writes the
\* infrastructure fields.  Neither writes the old job settings.
SaveUI(conf) == Whole(0, FALSE)
SaveSecrets(conf) == Whole(conf.salt, FALSE)
Saved(path, conf) == IF path = "config" THEN SaveUI(conf) ELSE SaveSecrets(conf)

\* LoadCombined needs a config.json that parses, and a secrets.json that parses
\* or does not exist.
Loadable(files) ==
    /\ files["config"].st = "whole"
    /\ files["secrets"].st \in {"absent", "whole"}

\* applySecrets: a field that secrets.json has wins over config.json.
applySecrets(cfg, sec) ==
    [salt |-> IF sec.salt # 0 THEN sec.salt ELSE cfg.salt, legacy |-> cfg.legacy]

LoadCombined(files) == applySecrets(files["config"], files["secrets"])

NoConf == [salt |-> 0, legacy |-> FALSE]
Confs == [salt : 0 .. MaxSalts, legacy : BOOLEAN]

\* The salts that a file on disk still holds.
Readable(files) == {files[p].salt : p \in {q \in Paths : files[q].st = "whole"}} \ {0}
=============================================================================
