-------------------------------- MODULE Server --------------------------------
(***************************************************************************)
(* The program around the agent: cmdServe opens and migrates the database, *)
(* seeds the schedules from the old global settings and starts the         *)
(* scheduler; requests of the web API rewrite the schedules and the two    *)
(* configuration files; the commands init, change-password, db-dump and    *)
(* db-restore run beside it or instead of it (cmd/coldcrypt/main.go).      *)
(*                                                                         *)
(* os.WriteFile is two steps, truncate and write, and the process may die  *)
(* between them.  The settings columns are added one by one.  A commit     *)
(* goes to the WAL, which stays on disk until the last connection closes.  *)
(***************************************************************************)
EXTENDS ConfigFiles, Sequences

CONSTANTS
    Handlers,      \* requests that may be under way together
    Ids,           \* ids of schedules
    Columns,       \* how many columns the migration adds (eight)
    LegacyRows,    \* the schedules of an installation from before the migration
    Scanning,      \* the settings whose scan expression is set and parses
    MaxRequests,   \* bound: requests and commands
    MaxFaults      \* bound: failed writes, failed queries, dead processes

Settings == {"default", "legacy", "own"}

ASSUME ServerAssumption ==
    /\ Columns \in Nat \ {0} /\ Scanning \subseteq Settings
    /\ MaxRequests \in Nat /\ MaxFaults \in Nat
    /\ "cli" \notin Handlers /\ "nobody" \notin Handlers

\* set: the per-job settings columns, "default" until something writes them.
Rows == [on : BOOLEAN, cron : {"valid", "invalid"}, set : Settings]
NoRow == [on |-> FALSE, cron |-> "none", set |-> "default"]
Tables == [Ids -> Rows \cup {NoRow}]
Images == [cols : 0 .. Columns, rows : Tables]

ASSUME LegacyAssumption == LegacyRows \in Tables

Procs == Handlers \cup {"cli"}

VARIABLES
    files,      \* the configuration files
    salt,       \* the key salt in use, 0 while no init has finished
    reinit,     \* init was run although a salt was in use
    server,     \* cmdServe: where it is, h.cfg, ScheduleSettingsMigrated
    proc,       \* proc[p]: a request, or the command at the terminal
    db,         \* coldcrypt.db as the next query sees it
    wal,        \* coldcrypt.db-wal: "none", "own", or "stale" after a restore
    dump,       \* what db-dump wrote last
    sched,      \* the scheduler: s.mu, the running cron, its entries
    lost,       \* the settings were dropped by an interrupted migration
    requests, faults

disk == <<db, wal, dump>>
keys == <<salt, reinit>>
svars == <<files, keys, server, proc, db, wal, dump, sched, lost, requests, faults>>

\* todo: the files still to be written, in order; opened: the first is truncated.
Idle == [at |-> "idle", todo |-> <<>>, opened |-> FALSE, conf |-> NoConf,
         seen |-> [i \in Ids |-> NoRow]]
Down == [at |-> "down", conf |-> NoConf, migrated |-> FALSE]
NoEntries == [i \in Ids |-> NoRow]
NoCron == [holder |-> "nobody", started |-> FALSE, entries |-> NoEntries, scans |-> {}]
NoImage == [cols |-> 0, rows |-> NoEntries]

Fault == faults < MaxFaults /\ faults' = faults + 1
Request == requests < MaxRequests /\ requests' = requests + 1

\* Before the first init there is nothing; an old installation has one file and
\* a database without the settings columns.
Nothing ==
    /\ files = [p \in Paths |-> Absent] /\ salt = 0
    /\ db = [st |-> "whole", cols |-> Columns, rows |-> NoEntries]

Legacy ==
    /\ files = [p \in Paths |-> IF p = "config" THEN Whole(1, TRUE) ELSE Absent]
    /\ salt = 1
    /\ db = [st |-> "whole", cols |-> 0, rows |-> LegacyRows]

ServerInit ==
    /\ Nothing \/ Legacy
    /\ server = Down /\ proc = [p \in Procs |-> Idle]
    /\ wal = "none" /\ dump = NoImage /\ sched = NoCron
    /\ reinit = FALSE /\ lost = FALSE /\ requests = 0 /\ faults = 0

-----------------------------------------------------------------------------
(* os.WriteFile *)

Goto(p, at) == proc' = [proc EXCEPT ![p].at = at]
Finish(p) == proc' = [proc EXCEPT ![p] = Idle]

\* A handler saves h.cfg, a command its own.
ConfOf(p) == IF p = "cli" THEN proc[p].conf ELSE server.conf

Truncate(p) ==
    /\ proc[p].at = "save" /\ ~proc[p].opened
    /\ files' = [files EXCEPT ![Head(proc[p].todo)] = NotWhole("empty")]
    /\ proc' = [proc EXCEPT ![p].opened = TRUE]
    /\ UNCHANGED <<keys, server, disk, sched, lost, requests, faults>>

\* Two writers that truncated one after the other write from the start of the
\* same file: the longer text keeps its tail behind the shorter one.
Written(path, conf) ==
    {Saved(path, conf)} \cup
    (IF files[path].st = "empty" THEN {} ELSE {NotWhole("garbled")})

\* Fault: a save that leaves the request waiting for one more file.
WriteMore(p) ==
    LET path == Head(proc[p].todo)
    IN  /\ proc[p].at = "save" /\ proc[p].opened
        /\ \E c \in Written(path, ConfOf(p)) : files' = [files EXCEPT ![path] = c]
        /\ proc' = [proc EXCEPT ![p].todo = Tail(@), ![p].opened = FALSE]
        /\ salt' = IF Len(proc[p].todo) = 1 /\ p = "cli" THEN ConfOf(p).salt ELSE salt
        /\ UNCHANGED <<reinit, server, disk, sched, lost, requests, faults>>

\* The salt of an init is in use once both files are there.
Write(p) ==
    LET path == Head(proc[p].todo)
        rest == Tail(proc[p].todo)
    IN  /\ proc[p].at = "save" /\ proc[p].opened
        /\ \E c \in Written(path, ConfOf(p)) : files' = [files EXCEPT ![path] = c]
        /\ IF rest = <<>>
           THEN Finish(p)
           ELSE proc' = [proc EXCEPT ![p].todo = rest, ![p].opened = FALSE]
        /\ salt' = IF rest = <<>> /\ p = "cli" THEN ConfOf(p).salt ELSE salt
        /\ UNCHANGED <<reinit, server, disk, sched, lost, requests, faults>>

\* The disk is full: the file stays empty, the request answers 500, the
\* command ends.
WriteFails(p) ==
    /\ proc[p].at = "save" /\ proc[p].opened
    /\ Fault /\ Finish(p)
    /\ UNCHANGED <<files, keys, server, disk, sched, lost, requests>>

-----------------------------------------------------------------------------
(* The commands *)

Begin(record) ==
    /\ proc["cli"] = Idle
    /\ Request
    /\ proc' = [proc EXCEPT !["cli"] = record]

\* Every command but init first loads the configuration, or ends.
loadCombinedConfig(record) == Loadable(files) /\ Begin(record)

\* config.json, then secrets.json, under a new salt, whatever the directory
\* holds and whether or not a server is up: nothing is looked at before.  Old
\* settings that no migration has taken over yet go with config.json.
cmdInit ==
    /\ \E s \in Salts \ {salt} :
          Begin([Idle EXCEPT !.at = "save", !.todo = <<"config", "secrets">>,
                             !.conf = [salt |-> s, legacy |-> FALSE]])
    /\ reinit' = (reinit \/ salt # 0)
    /\ lost' = (lost \/ db.cols < Columns)
    /\ UNCHANGED <<files, salt, server, disk, sched, faults>>

cmdChangePassword ==
    /\ loadCombinedConfig([Idle EXCEPT !.at = "save", !.todo = <<"secrets">>,
                                       !.conf = LoadCombined(files)])
    /\ UNCHANGED <<files, keys, server, disk, sched, lost, faults>>

\* db-dump opens the database the way serve does, and migrates it.
cmdDBDump ==
    /\ loadCombinedConfig([Idle EXCEPT !.at = "columns"])
    /\ UNCHANGED <<files, keys, server, disk, sched, lost, faults>>

\* "Ensure the server is stopped before proceeding."
cmdDBRestore ==
    /\ dump # NoImage /\ server = Down
    /\ loadCombinedConfig([Idle EXCEPT !.at = "copy"])
    /\ UNCHANGED <<files, keys, server, disk, sched, lost, faults>>

-----------------------------------------------------------------------------
(* db.New, db-dump and db-restore *)

\* SQLite replays a WAL that it finds beside the file it opens.
Opened == [db EXCEPT !.st = IF wal = "stale" /\ @ = "whole" THEN "mixed" ELSE @]

AddColumn == [Opened EXCEPT !.cols = @ + 1]

\* The command does not look at ScheduleSettingsMigrated: it never seeds.
DumpColumn ==
    /\ proc["cli"].at = "columns" /\ Opened.st = "whole" /\ db.cols < Columns
    /\ db' = AddColumn /\ wal' = "own"
    /\ lost' = (lost \/ db'.cols = Columns)
    /\ UNCHANGED <<files, keys, server, proc, dump, sched, requests, faults>>

\* VACUUM INTO is one snapshot.  Closing the database checkpoints the WAL and
\* removes it when no server has it open.
Dump ==
    /\ proc["cli"].at = "columns" /\ Opened.st = "whole" /\ db.cols = Columns
    /\ dump' = [cols |-> db.cols, rows |-> db.rows]
    /\ wal' = IF server = Down THEN "none" ELSE wal
    /\ lost' = (lost \/ server.migrated)
    /\ Finish("cli")
    /\ UNCHANGED <<files, keys, server, db, sched, requests, faults>>

\* db.New fails on what an interrupted restore has left; the command ends.
DumpCannotOpen ==
    /\ proc["cli"].at = "columns" /\ Opened.st # "whole"
    /\ db' = Opened
    /\ Finish("cli")
    /\ UNCHANGED <<files, keys, server, wal, dump, sched, lost, requests, faults>>

\* copyFile truncates coldcrypt.db in place and fills it.
RestoreTruncate ==
    /\ proc["cli"].at = "copy" /\ ~proc["cli"].opened
    /\ db' = [db EXCEPT !.st = "torn"]
    /\ proc' = [proc EXCEPT !["cli"].opened = TRUE]
    /\ UNCHANGED <<files, keys, server, wal, dump, sched, lost, requests, faults>>

RestoreCopy ==
    /\ proc["cli"].at = "copy" /\ proc["cli"].opened
    /\ db' = [st |-> "whole", cols |-> dump.cols, rows |-> dump.rows]
    /\ wal' = IF wal = "none" THEN "none" ELSE "stale"
    /\ Goto("cli", "unlog")
    /\ UNCHANGED <<files, keys, server, dump, sched, lost, requests, faults>>

\* Fault: the log of the replaced database stays.
RestoreKeepWAL ==
    /\ proc["cli"].at = "unlog"
    /\ Finish("cli")
    /\ UNCHANGED <<files, keys, server, disk, sched, lost, requests, faults>>

\* The -wal and -shm files of the replaced database go last.
RestoreRemoveWAL ==
    /\ proc["cli"].at = "unlog"
    /\ wal' = "none"
    /\ Finish("cli")
    /\ UNCHANGED <<files, keys, server, db, dump, sched, lost, requests, faults>>

-----------------------------------------------------------------------------
(* cmdServe *)

\* Not while a restore is under way, which asks for a stopped server.
Serve ==
    /\ server = Down /\ Loadable(files)
    /\ proc["cli"].at \notin {"copy", "unlog"}
    /\ server' = [at |-> "columns", conf |-> LoadCombined(files), migrated |-> FALSE]
    /\ UNCHANGED <<files, keys, proc, disk, sched, lost, requests, faults>>

\* Fault: only the first column counts as the migration.
ServeColumnFirst ==
    /\ server.at = "columns" /\ Opened.st = "whole" /\ db.cols < Columns
    /\ db' = AddColumn /\ wal' = "own"
    /\ server' = [server EXCEPT !.migrated = @ \/ db.cols = 0]
    /\ UNCHANGED <<files, keys, proc, dump, sched, lost, requests, faults>>

ServeColumn ==
    /\ server.at = "columns" /\ Opened.st = "whole" /\ db.cols < Columns
    /\ db' = AddColumn /\ wal' = "own"
    /\ server' = [server EXCEPT !.migrated = TRUE]
    /\ UNCHANGED <<files, keys, proc, dump, sched, lost, requests, faults>>

ServeOpened ==
    /\ server.at = "columns" /\ Opened.st = "whole" /\ db.cols = Columns
    /\ wal' = "own"
    /\ server' = [server EXCEPT !.at = IF server.migrated THEN "seed" ELSE "agent"]
    /\ UNCHANGED <<files, keys, proc, db, dump, sched, lost, requests, faults>>

\* db.New fails on what an interrupted restore has left.
CannotOpen ==
    /\ server.at = "columns" /\ Opened.st # "whole"
    /\ db' = Opened
    /\ server' = Down
    /\ UNCHANGED <<files, keys, proc, wal, dump, sched, lost, requests, faults>>

\* SeedScheduleJobSettings: one UPDATE of every row, from the loaded config.json.
SeedScheduleJobSettings ==
    /\ server.at = "seed"
    /\ db' = [db EXCEPT !.rows = [i \in Ids |->
                IF @[i] = NoRow THEN NoRow
                ELSE [@[i] EXCEPT !.set =
                        IF server.conf.legacy THEN "legacy" ELSE "default"]]]
    /\ server' = [server EXCEPT !.at = "agent", !.migrated = FALSE]
    /\ UNCHANGED <<files, keys, proc, wal, dump, sched, lost, requests, faults>>

\* The UPDATE fails: a warning, and the server goes on.
SeedFails ==
    /\ server.at = "seed" /\ Fault
    /\ server' = [server EXCEPT !.at = "agent", !.migrated = FALSE]
    /\ lost' = TRUE
    /\ UNCHANGED <<files, keys, proc, disk, sched, requests>>

\* agent.New needs a key salt; without one the program ends.
NewAgent ==
    /\ server.at = "agent"
    /\ server' = IF server.conf.salt = 0 THEN Down ELSE [server EXCEPT !.at = "start"]
    /\ UNCHANGED <<files, keys, proc, disk, sched, lost, requests, faults>>

\* The rows that loadSchedules adds to the cron, and those of them it adds a
\* scan for.
Wanted(rows) ==
    [i \in Ids |-> IF rows[i].on /\ rows[i].cron = "valid" THEN rows[i] ELSE NoRow]

WantedScans(rows) ==
    {i \in Ids : Wanted(rows)[i] # NoRow /\ rows[i].set \in Scanning}

Running(rows) == [holder |-> "nobody", started |-> TRUE,
                  entries |-> Wanted(rows), scans |-> WantedScans(rows)]

StartScheduler ==
    /\ server.at = "start"
    /\ server' = [server EXCEPT !.at = "up"]
    /\ sched' = Running(db.rows)
    /\ UNCHANGED <<files, keys, proc, disk, lost, requests, faults>>

\* log.Fatalf, or a kill: no deferred call runs, the requests end where they are.
ServerDies ==
    /\ server # Down /\ Fault
    /\ server' = Down /\ sched' = NoCron
    /\ proc' = [p \in Procs |-> IF p \in Handlers THEN Idle ELSE proc[p]]
    /\ lost' = (lost \/ (server.migrated /\ db.cols = Columns))
    /\ UNCHANGED <<files, keys, disk, requests>>

CommandDies ==
    /\ proc["cli"] # Idle /\ Fault
    /\ Finish("cli")
    /\ UNCHANGED <<files, keys, server, disk, sched, lost, requests>>

-----------------------------------------------------------------------------
(* The web API *)

Accept(h, record) ==
    /\ server.at = "up" /\ proc[h] = Idle
    /\ Request
    /\ proc' = [proc EXCEPT ![h] = record]

handleChangePassword(h) ==
    /\ Accept(h, [Idle EXCEPT !.at = "save", !.todo = <<"secrets">>])
    /\ UNCHANGED <<files, keys, server, disk, sched, lost, faults>>

\* Fault: SaveUI first.
SavesConfigFirst ==
    IF files["secrets"].st = "absent" THEN <<"config", "secrets">> ELSE <<"config">>

\* EnsureSecretsFile saves the infrastructure fields first when there is no
\* secrets.json; any file at all under that name will do.
Saves == IF files["secrets"].st = "absent" THEN <<"secrets", "config">> ELSE <<"config">>

handleUpdateConfig(h) ==
    /\ Accept(h, [Idle EXCEPT !.at = "save", !.todo = Saves])
    /\ UNCHANGED <<files, keys, server, disk, sched, lost, faults>>

\* A payload that parseScheduleBody accepts: its expressions parse.
Body(on) == [on |-> on, cron |-> "valid", set |-> "own"]

Change(h, rows) ==
    /\ db' = [db EXCEPT !.rows = rows]
    /\ Accept(h, [Idle EXCEPT !.at = "reload"])
    /\ UNCHANGED <<files, keys, server, wal, dump, sched, lost, faults>>

\* AUTOINCREMENT: the id is one that has no row.
handleCreateSchedule(h, i, on) ==
    db.rows[i] = NoRow /\ Change(h, [db.rows EXCEPT ![i] = Body(on)])

\* An id without a row: the UPDATE changes nothing, and the answer is 200.
handleUpdateSchedule(h, i, on) ==
    Change(h, [db.rows EXCEPT ![i] = IF @ = NoRow THEN NoRow ELSE Body(on)])

handleDeleteSchedule(h, i) == Change(h, [db.rows EXCEPT ![i] = NoRow])

\* Fault: Reload does not wait for s.mu.
ReloadUnlocked(h) ==
    /\ proc[h].at = "reload"
    /\ sched' = [NoCron EXCEPT !.holder = h]
    /\ Goto(h, "list")
    /\ UNCHANGED <<files, keys, server, disk, lost, requests, faults>>

\* Reload takes s.mu, stops the cron and replaces it with an empty one.
Reload(h) ==
    /\ proc[h].at = "reload" /\ sched.holder = "nobody"
    /\ sched' = [NoCron EXCEPT !.holder = h]
    /\ Goto(h, "list")
    /\ UNCHANGED <<files, keys, server, disk, lost, requests, faults>>

ListSchedules(h) ==
    /\ proc[h].at = "list"
    /\ proc' = [proc EXCEPT ![h].at = "load", ![h].seen = db.rows]
    /\ UNCHANGED <<files, keys, server, disk, sched, lost, requests, faults>>

\* The error is logged; the empty cron is not started, and the answer is 200.
ListFails(h) ==
    /\ proc[h].at = "list" /\ Fault
    /\ sched' = NoCron
    /\ Finish(h)
    /\ UNCHANGED <<files, keys, server, disk, lost, requests>>

loadSchedules(h) ==
    /\ proc[h].at = "load"
    /\ sched' = Running(proc[h].seen)
    /\ Finish(h)
    /\ UNCHANGED <<files, keys, server, disk, lost, requests, faults>>

-----------------------------------------------------------------------------
Saving == \E p \in Procs : Truncate(p) \/ Write(p) \/ WriteFails(p)

Command ==
    \/ cmdInit \/ cmdChangePassword \/ cmdDBDump \/ cmdDBRestore
    \/ DumpColumn \/ Dump \/ DumpCannotOpen
    \/ RestoreTruncate \/ RestoreCopy \/ RestoreRemoveWAL \/ CommandDies

Start ==
    \/ Serve \/ ServeColumn \/ ServeOpened \/ CannotOpen
    \/ SeedScheduleJobSettings \/ SeedFails \/ NewAgent \/ StartScheduler \/ ServerDies

Settle(h) == Reload(h) \/ ListSchedules(h) \/ ListFails(h) \/ loadSchedules(h)

Web == \E h \in Handlers :
    \/ handleChangePassword(h) \/ handleUpdateConfig(h) \/ Settle(h)
    \/ \E i \in Ids :
        \/ \E on \in BOOLEAN : handleCreateSchedule(h, i, on) \/ handleUpdateSchedule(h, i, on)
        \/ handleDeleteSchedule(h, i)

ServerNext == Saving \/ Command \/ Start \/ Web

ServerSpec == ServerInit /\ [][ServerNext]_svars

-----------------------------------------------------------------------------
(* Properties *)

Todos == {<<>>, <<"config">>, <<"secrets">>, <<"secrets", "config">>,
          <<"config", "secrets">>}
Processes == [at : {"idle", "save", "columns", "copy", "unlog", "reload", "list", "load"},
              todo : Todos, opened : BOOLEAN, conf : Confs, seen : Tables]
Servers == [at : {"down", "columns", "seed", "agent", "start", "up"}, conf : Confs,
            migrated : BOOLEAN]
Databases == [st : {"whole", "torn", "mixed"}, cols : 0 .. Columns, rows : Tables]
Crons == [holder : Handlers \cup {"nobody"}, started : BOOLEAN, entries : Tables,
          scans : SUBSET Ids]

\* Every variable holds a value of its type; who saves has something to save.
ServerTypeOK ==
    /\ files \in [Paths -> Contents] /\ salt \in 0 .. MaxSalts /\ reinit \in BOOLEAN
    /\ server \in Servers /\ proc \in [Procs -> Processes]
    /\ \A p \in Procs : proc[p].at = "save" <=> proc[p].todo # <<>>
    /\ db \in Databases /\ wal \in {"none", "own", "stale"} /\ dump \in Images
    /\ sched \in Crons /\ lost \in BOOLEAN
    /\ requests \in 0 .. MaxRequests /\ faults \in 0 .. MaxFaults

\* Somebody has truncated secrets.json and is about to write the salt into it.
SaltInHand ==
    \E p \in Procs :
        /\ proc[p].at = "save" /\ proc[p].opened /\ Head(proc[p].todo) = "secrets"
        /\ ConfOf(p).salt = salt

\* Until somebody runs init a second time, the key salt in use can be read from a
\* file on disk or is about to be written, whatever saves and deaths there are:
\* rewriting config.json never takes the only copy (EnsureSecretsFile).  Two
\* things lose it: a writer of secrets.json that fails or dies at its truncated
\* file, and two that overlap there (SaveSecrets, config.go:194-214).
SaltOnDisk ==
    salt # 0 /\ ~reinit =>
        \/ salt \in Readable(files) \/ SaltInHand
        \/ files["secrets"].st = "empty" /\ faults > 0
        \/ files["secrets"].st = "garbled"

\* A running scheduler fires the schedules of the database, each as it was
\* last saved and no other, unless a request has yet to reload it: requests
\* that overlap do not leave the entries of the earlier one (Reload).
EntriesCurrent ==
    sched.started /\ (\A h \in Handlers : proc[h].at # "reload") =>
        /\ sched.entries = Wanted(db.rows)
        /\ sched.scans = WantedScans(db.rows)

\* A server that is up has given the old global settings to every schedule
\* that nobody has saved since, wherever earlier migrations stopped, unless
\* the process that added the last column went without seeding or a dump was
\* taken just before it did.
SettingsKept ==
    server.at = "up" /\ ~lost =>
        \A i \in Ids : db.rows[i] # NoRow => db.rows[i].set # "default"

\* Where a restore ended by itself, the database is the dump and nothing of the
\* database it replaced: the server never opens a mixture (cmdDBRestore).
RestoredIsDump == [][
    proc["cli"].at \in {"copy", "unlog"} /\ proc'["cli"] = Idle /\ faults' = faults
        => db'.rows = dump.rows /\ Opened'.st = "whole"]_svars
=============================================================================
