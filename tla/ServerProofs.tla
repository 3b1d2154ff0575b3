------------------------------ MODULE ServerProofs ------------------------------
(***************************************************************************)
(* Proofs about Server, for every set of requests under way, schedules and *)
(* settings columns: the type invariant and, each by an inductive          *)
(* invariant of its own, SaltOnDisk, EntriesCurrent, SettingsKept and      *)
(* RestoredIsDump; then that no request, command or start waits for ever,  *)
(* the measure that brings each to its end, and what a quiet server fires. *)
(***************************************************************************)
EXTENDS Server, TLAPS

-----------------------------------------------------------------------------
(* Types *)

\* What a request about schedules may make of the table.
Edits == {rows \in Tables :
            \A i \in Ids : rows[i] \in {db.rows[i], NoRow, Body(TRUE), Body(FALSE)}}

LEMMA RowsType ==
    /\ NoRow \in Rows \cup {NoRow} /\ NoEntries \in Tables
    /\ \A on \in BOOLEAN : Body(on) \in Rows
  <1>1. \A on \in BOOLEAN : Body(on) \in Rows
    BY DEF Body, Rows, Settings
  <1>2. NoEntries \in Tables
    BY DEF NoEntries, Tables
  <1>. QED
    BY <1>1, <1>2

\* The three requests that change schedules commit some edit of the table.
LEMMA EditOf ==
    ASSUME ServerTypeOK, NEW h \in Handlers, NEW i \in Ids, NEW on \in BOOLEAN,
           \/ handleCreateSchedule(h, i, on) \/ handleUpdateSchedule(h, i, on)
           \/ handleDeleteSchedule(h, i)
    PROVE  \E rows \in Edits : Change(h, rows)
  <1>1. db.rows \in Tables
    BY DEF ServerTypeOK, Databases
  <1>2. \A r \in {db.rows[i], NoRow, Body(TRUE), Body(FALSE)} :
            [db.rows EXCEPT ![i] = r] \in Edits
    <2>. SUFFICES ASSUME NEW r \in {db.rows[i], NoRow, Body(TRUE), Body(FALSE)}
                  PROVE  [db.rows EXCEPT ![i] = r] \in Edits
      OBVIOUS
    <2>1. r \in Rows \cup {NoRow}
      BY <1>1, RowsType DEF Tables
    <2>2. [db.rows EXCEPT ![i] = r] \in Tables
      BY <1>1, <2>1 DEF Tables
    <2>. QED
      BY <1>1, <2>2 DEF Edits, Tables
  <1>3. Body(on) \in {Body(TRUE), Body(FALSE)}
    OBVIOUS
  <1>4. CASE handleCreateSchedule(h, i, on)
    BY <1>2, <1>3, <1>4 DEF handleCreateSchedule
  <1>5. CASE handleUpdateSchedule(h, i, on)
    <2>1. (IF db.rows[i] = NoRow THEN NoRow ELSE Body(on))
            \in {db.rows[i], NoRow, Body(TRUE), Body(FALSE)}
      BY <1>3
    <2>. QED
      BY <1>2, <1>5, <2>1 DEF handleUpdateSchedule
  <1>6. CASE handleDeleteSchedule(h, i)
    BY <1>2, <1>6 DEF handleDeleteSchedule
  <1>. QED
    BY <1>4, <1>5, <1>6

\* The steps, the three requests about schedules as one.
Steps ==
    \/ \E p \in Procs : Truncate(p) \/ Write(p) \/ WriteFails(p)
    \/ Command \/ Start
    \/ \E h \in Handlers :
        \/ handleChangePassword(h) \/ handleUpdateConfig(h) \/ Settle(h)
        \/ \E rows \in Edits : Change(h, rows)

LEMMA NextSteps == ServerTypeOK /\ ServerNext => Steps
  BY EditOf DEF ServerNext, Saving, Web, Steps

LEMMA TodoType ==
    /\ {<<"secrets">>, <<"config", "secrets">>, <<"secrets", "config">>,
         <<"config">>} \subseteq Todos
    /\ \A t \in Todos : t # <<>> => Head(t) \in Paths /\ Tail(t) \in Todos
  BY DEF Todos, Paths

LEMMA IdleType ==
    /\ Idle.at = "idle" /\ Idle.todo = <<>> /\ Idle.opened = FALSE /\ Idle.conf = NoConf
    /\ NoConf \in Confs /\ Idle \in Processes /\ Down \in Servers
  <1>1. NoConf \in Confs
    BY ConfigFilesAssumption DEF NoConf, Confs
  <1>2. Idle.seen \in Tables
    BY RowsType DEF Idle, NoEntries
  <1>3. /\ Idle.at = "idle" /\ Idle.todo = <<>> /\ Idle.opened = FALSE
        /\ Idle.conf = NoConf
    BY DEF Idle
  <1>4. Idle \in Processes
    BY <1>1, <1>2 DEF Idle, Processes, Todos
  <1>5. Down \in Servers
    BY <1>1 DEF Down, Servers
  <1>. QED
    BY <1>1, <1>3, <1>4, <1>5

LEMMA FilesType ==
    /\ \A st \in {"absent", "empty", "garbled"} : NotWhole(st) \in Contents
    /\ \A s \in 0 .. MaxSalts, b \in BOOLEAN : Whole(s, b) \in Contents
    /\ \A f \in [Paths -> Contents] : LoadCombined(f) \in Confs
  <1>1. ASSUME NEW f \in [Paths -> Contents] PROVE LoadCombined(f) \in Confs
    <2>1. f["config"] \in Contents /\ f["secrets"] \in Contents
      BY DEF Paths
    <2>. QED
      BY <2>1 DEF LoadCombined, applySecrets, Confs, Contents
  <1>2. 0 \in 0 .. MaxSalts
    BY ConfigFilesAssumption
  <1>3. \A st \in {"absent", "empty", "garbled"} : NotWhole(st) \in Contents
    BY <1>2 DEF NotWhole, Contents
  <1>4. \A s \in 0 .. MaxSalts, b \in BOOLEAN : Whole(s, b) \in Contents
    BY DEF Whole, Contents
  <1>5. \A f \in [Paths -> Contents] : LoadCombined(f) \in Confs
    BY <1>1
  <1>. QED
    BY <1>3, <1>4, <1>5, Zenon

LEMMA WrittenType ==
    ASSUME files \in [Paths -> Contents], NEW path \in Paths, NEW conf \in Confs
    PROVE  Written(path, conf) \subseteq Contents
  <1>1. conf.salt \in 0 .. MaxSalts /\ 0 \in 0 .. MaxSalts
    BY ConfigFilesAssumption DEF Confs
  <1>2. Whole(0, FALSE) \in Contents /\ Whole(conf.salt, FALSE) \in Contents
    BY <1>1, FilesType
  <1>. QED
    BY <1>2, FilesType DEF Written, Saved, SaveUI, SaveSecrets

\* A column is added to a database that opened.
LEMMA ColumnAdded ==
    ASSUME db \in Databases, Opened.st = "whole", db.cols < Columns
    PROVE  /\ AddColumn \in Databases
           /\ AddColumn.cols = db.cols + 1 /\ AddColumn.rows = db.rows
           /\ AddColumn.st = "whole" /\ db.st = "whole" /\ wal # "stale"
  <1>1. db.cols + 1 \in 0 .. Columns
    BY ServerAssumption DEF Databases
  <1>2. Opened \in Databases /\ Opened.cols = db.cols /\ Opened.rows = db.rows
    BY DEF Opened, Databases
  <1>3. AddColumn \in Databases
    BY <1>1, <1>2 DEF AddColumn, Databases
  <1>4. /\ AddColumn.cols = db.cols + 1 /\ AddColumn.rows = db.rows
        /\ AddColumn.st = "whole"
    BY <1>2 DEF AddColumn, Databases
  <1>5. db.st = "whole" /\ wal # "stale"
    BY DEF Opened, Databases
  <1>. QED
    BY <1>3, <1>4, <1>5

LEMMA RunningType ==
    ASSUME NEW rows \in Tables
    PROVE  Running(rows) \in Crons /\ NoCron \in Crons
  <1>1. Wanted(rows) \in Tables
    BY RowsType DEF Wanted, Tables
  <1>2. WantedScans(rows) \in SUBSET Ids
    BY DEF WantedScans
  <1>3. Running(rows) \in Crons
    BY <1>1, <1>2 DEF Running, Crons
  <1>4. NoCron \in Crons
    BY RowsType DEF NoCron, Crons
  <1>. QED
    BY <1>3, <1>4

\* A process that becomes a well-typed record leaves the type as it is.
LEMMA ProcStep ==
    ASSUME ServerTypeOK, NEW p \in Procs, NEW r \in Processes,
           r.at = "save" <=> r.todo # <<>>,
           proc' = [proc EXCEPT ![p] = r]
    PROVE  /\ proc' \in [Procs -> Processes]
           /\ \A q \in Procs : proc'[q].at = "save" <=> proc'[q].todo # <<>>
  BY DEF ServerTypeOK

LEMMA SaveType ==
    ASSUME NEW t \in Todos, t # <<>>, NEW c \in Confs
    PROVE  /\ [Idle EXCEPT !.at = "save", !.todo = t, !.conf = c] \in Processes
           /\ [Idle EXCEPT !.at = "save", !.todo = t] \in Processes
           /\ [Idle EXCEPT !.at = "save", !.todo = t, !.conf = c].at = "save"
           /\ [Idle EXCEPT !.at = "save", !.todo = t, !.conf = c].todo = t
           /\ [Idle EXCEPT !.at = "save", !.todo = t].at = "save"
           /\ [Idle EXCEPT !.at = "save", !.todo = t].todo = t
  <1>1. Idle \in Processes
    BY IdleType
  <1>. QED
    BY <1>1 DEF Processes

LEMMA EntryNonempty == {<<"secrets">>, <<"config", "secrets">>, <<"secrets", "config">>,
     <<"config">>}
                          \subseteq Todos \ {<<>>}
  BY DEF Todos

LEMMA TypeStep == ServerTypeOK /\ [ServerNext]_svars => ServerTypeOK'
<1>. SUFFICES ASSUME ServerTypeOK, [ServerNext]_svars PROVE ServerTypeOK'
  OBVIOUS
<1>. USE RowsType, TodoType, IdleType, FilesType, RunningType, ServerAssumption
<1>. USE DEF ServerTypeOK, Procs, disk, keys, Fault, Request, Begin, loadCombinedConfig, Goto,
     Finish, Accept
<1>1. ASSUME NEW p \in Procs, Truncate(p) PROVE ServerTypeOK'
  <2>1. proc[p] \in Processes /\ Head(proc[p].todo) \in Paths
    BY <1>1 DEF Truncate, Processes
  <2>2. [proc[p] EXCEPT !.opened = TRUE] \in Processes
    BY <2>1 DEF Processes
  <2>3. proc' = [proc EXCEPT ![p] = [proc[p] EXCEPT !.opened = TRUE]]
    BY <1>1 DEF Truncate
  <2>4. files' \in [Paths -> Contents]
    BY <1>1, <2>1 DEF Truncate
  <2>5. [proc[p] EXCEPT !.opened = TRUE].at = "save" <=>
          [proc[p] EXCEPT !.opened = TRUE].todo # <<>>
    BY <2>1 DEF Processes
  <2>6. /\ proc' \in [Procs -> Processes]
        /\ \A q \in Procs : proc'[q].at = "save" <=> proc'[q].todo # <<>>
    BY <2>2, <2>3, <2>5, ProcStep, Zenon
  <2>. QED
    BY <1>1, <2>4, <2>6 DEF Truncate
<1>2. ASSUME NEW p \in Procs, Write(p) PROVE ServerTypeOK'
  <2>. DEFINE path == Head(proc[p].todo)
              rest == Tail(proc[p].todo)
              next == IF rest = <<>> THEN Idle
                      ELSE [proc[p] EXCEPT !.todo = rest, !.opened = FALSE]
  <2>1. proc[p] \in Processes /\ path \in Paths /\ rest \in Todos
    BY <1>2 DEF Write, Processes
  <2>2. ConfOf(p) \in Confs
    BY DEF ConfOf, Processes, Servers
  <2>3. files' \in [Paths -> Contents]
    BY <1>2, <2>1, <2>2, WrittenType DEF Write
  <2>4. next \in Processes /\ (next.at = "save" <=> next.todo # <<>>)
    <3>1. CASE rest = <<>>
      BY <3>1
    <3>2. CASE rest # <<>>
      <4>1. proc[p].at = "save"
        BY <1>2 DEF Write
      <4>2. [proc[p] EXCEPT !.todo = rest, !.opened = FALSE] \in Processes
        BY <2>1 DEF Processes
      <4>. QED
        BY <2>1, <3>2, <4>1, <4>2 DEF Processes
    <3>. QED
      BY <3>1, <3>2
  <2>5. proc' = [proc EXCEPT ![p] = next]
    BY <1>2 DEF Write
  <2>6. /\ proc' \in [Procs -> Processes]
        /\ \A q \in Procs : proc'[q].at = "save" <=> proc'[q].todo # <<>>
    BY <2>4, <2>5, ProcStep, Zenon
  <2>7. salt' \in 0 .. MaxSalts
    BY <1>2, <2>2 DEF Write, Confs
  <2>. QED
    BY <1>2, <2>3, <2>6, <2>7 DEF Write
<1>3. ASSUME NEW p \in Procs, WriteFails(p) PROVE ServerTypeOK'
  BY <1>3 DEF WriteFails, Processes, Servers, Databases, Images
<1>4. ASSUME cmdInit PROVE ServerTypeOK'
  <2>0. PICK s \in Salts \ {salt} :
            Begin([Idle EXCEPT !.at = "save", !.todo = <<"config", "secrets">>,
                               !.conf = [salt |-> s, legacy |-> FALSE]])
    BY <1>4 DEF cmdInit
  <2>. DEFINE next == [Idle EXCEPT !.at = "save", !.todo = <<"config", "secrets">>,
       !.conf = [salt |-> s, legacy |-> FALSE]]
  <2>1. <<"config", "secrets">> \in Todos \ {<<>>} /\ [salt |-> s, legacy |-> FALSE] \in Confs
    BY EntryNonempty, ConfigFilesAssumption DEF Confs, Salts
  <2>2. next \in Processes /\ next.at = "save" /\ next.todo # <<>>
    <3>1. Idle \in Processes
      BY IdleType
    <3>2. next \in Processes
      BY <2>1, <3>1 DEF Processes
    <3>. QED
      BY <2>1, <3>1, <3>2 DEF Processes
  <2>3. proc' = [proc EXCEPT !["cli"] = next]
    BY <2>0
  <2>4. /\ proc' \in [Procs -> Processes]
        /\ \A q \in Procs : proc'[q].at = "save" <=> proc'[q].todo # <<>>
    <3>. HIDE DEF next
    <3>. QED
      BY <2>2, <2>3, ProcStep
  <2>5. reinit' \in BOOLEAN /\ lost' \in BOOLEAN
    BY <1>4, Zenon DEF cmdInit
  <2>. QED
    BY <1>4, <2>0, <2>4, <2>5 DEF cmdInit
<1>5. ASSUME cmdChangePassword PROVE ServerTypeOK'
  <2>. DEFINE next == [Idle EXCEPT !.at = "save", !.todo = <<"secrets">>,
       !.conf = LoadCombined(files)]
  <2>1. <<"secrets">> \in Todos \ {<<>>} /\ LoadCombined(files) \in Confs
    BY EntryNonempty DEF Confs
  <2>2. next \in Processes /\ next.at = "save" /\ next.todo # <<>>
    <3>1. Idle \in Processes
      BY IdleType
    <3>2. next \in Processes
      BY <2>1, <3>1 DEF Processes
    <3>. QED
      BY <2>1, <3>1, <3>2 DEF Processes
  <2>3. proc' = [proc EXCEPT !["cli"] = next]
    BY <1>5 DEF cmdChangePassword
  <2>4. /\ proc' \in [Procs -> Processes]
        /\ \A q \in Procs : proc'[q].at = "save" <=> proc'[q].todo # <<>>
    <3>. HIDE DEF next
    <3>. QED
      BY <2>2, <2>3, ProcStep
  <2>. QED
    BY <1>5, <2>4 DEF cmdChangePassword
<1>6. ASSUME cmdDBDump PROVE ServerTypeOK'
  BY <1>6 DEF cmdDBDump, Processes, Servers, Databases, Images
<1>7. ASSUME cmdDBRestore PROVE ServerTypeOK'
  BY <1>7 DEF cmdDBRestore, Processes, Servers, Databases, Images
<1>8. ASSUME DumpColumn PROVE ServerTypeOK'
  <2>1. db \in Databases /\ db.cols < Columns
    BY <1>8 DEF DumpColumn
  <2>2. db' \in Databases
    BY <1>8, <2>1, ColumnAdded DEF DumpColumn
  <2>3. lost' \in BOOLEAN
    BY <1>8 DEF DumpColumn
  <2>. QED
    BY <1>8, <2>2, <2>3 DEF DumpColumn
<1>9. ASSUME Dump PROVE ServerTypeOK'
  BY <1>9 DEF Dump, Processes, Servers, Databases, Images, Opened
<1>10. ASSUME RestoreTruncate PROVE ServerTypeOK'
  BY <1>10, ZenonT(60) DEF RestoreTruncate, Processes, Servers, Databases, Images
<1>11. ASSUME RestoreCopy PROVE ServerTypeOK'
  BY <1>11 DEF RestoreCopy, Processes, Servers, Databases, Images
<1>12. ASSUME RestoreRemoveWAL PROVE ServerTypeOK'
  BY <1>12 DEF RestoreRemoveWAL, Processes, Servers, Databases, Images
<1>13. ASSUME CommandDies PROVE ServerTypeOK'
  BY <1>13 DEF CommandDies, Processes, Servers, Databases, Images
<1>14. ASSUME Serve PROVE ServerTypeOK'
  BY <1>14 DEF Serve, Processes, Servers, Databases, Images
<1>15. ASSUME ServeColumn PROVE ServerTypeOK'
  <2>1. db \in Databases /\ db.cols < Columns
    BY <1>15 DEF ServeColumn
  <2>2. db' \in Databases
    BY <1>15, <2>1, ColumnAdded DEF ServeColumn
  <2>3. server' \in Servers
    BY <1>15 DEF ServeColumn, Servers
  <2>. QED
    BY <1>15, <2>2, <2>3 DEF ServeColumn
<1>16. ASSUME ServeOpened PROVE ServerTypeOK'
  BY <1>16 DEF ServeOpened, Processes, Servers, Databases, Images, Opened
<1>17. ASSUME CannotOpen PROVE ServerTypeOK'
  BY <1>17 DEF CannotOpen, Processes, Servers, Databases, Images, Opened
<1>18. ASSUME SeedScheduleJobSettings PROVE ServerTypeOK'
  <2>1. db.rows \in Tables
    BY DEF Databases
  <2>2. \A i \in Ids, s \in Settings : db.rows[i] # NoRow => [db.rows[i] EXCEPT !.set = s] \in Rows
    BY <2>1 DEF Tables, Rows
  <2>3. db'.rows \in Tables
    BY <1>18, <2>2 DEF SeedScheduleJobSettings, Tables, Settings, Databases
  <2>4. db' \in Databases
    BY <1>18, <2>3 DEF SeedScheduleJobSettings, Databases
  <2>5. server' \in Servers
    BY <1>18 DEF SeedScheduleJobSettings, Servers
  <2>. QED
    BY <1>18, <2>4, <2>5 DEF SeedScheduleJobSettings
<1>19. ASSUME SeedFails PROVE ServerTypeOK'
  <2>1. server' \in Servers
    BY <1>19 DEF SeedFails, Servers
  <2>2. lost' \in BOOLEAN
    BY <1>19 DEF SeedFails
  <2>3. faults' \in 0 .. MaxFaults
    BY <1>19 DEF SeedFails
  <2>. QED
    BY <1>19, <2>1, <2>2, <2>3 DEF SeedFails
<1>20. ASSUME NewAgent PROVE ServerTypeOK'
  BY <1>20 DEF NewAgent, Processes, Servers, Databases, Images
<1>21. ASSUME StartScheduler PROVE ServerTypeOK'
  BY <1>21 DEF StartScheduler, Processes, Servers, Databases, Images
<1>22. ASSUME ServerDies PROVE ServerTypeOK'
  BY <1>22 DEF ServerDies, Processes, Servers, Databases, Images
<1>23. ASSUME NEW h \in Handlers, handleChangePassword(h) PROVE ServerTypeOK'
  <2>. DEFINE next == [Idle EXCEPT !.at = "save", !.todo = <<"secrets">>]
  <2>1. <<"secrets">> \in Todos \ {<<>>}
    BY EntryNonempty DEF Confs
  <2>2. next \in Processes /\ next.at = "save" /\ next.todo # <<>>
    BY <2>1, SaveType, Zenon
  <2>3. proc' = [proc EXCEPT ![h] = next]
    BY <1>23 DEF handleChangePassword
  <2>4. /\ proc' \in [Procs -> Processes]
        /\ \A q \in Procs : proc'[q].at = "save" <=> proc'[q].todo # <<>>
    <3>. HIDE DEF next
    <3>. QED
      BY <2>2, <2>3, ProcStep
  <2>. QED
    BY <1>23, <2>4 DEF handleChangePassword
<1>24. ASSUME NEW h \in Handlers, handleUpdateConfig(h) PROVE ServerTypeOK'
  <2>. DEFINE next == [Idle EXCEPT !.at = "save", !.todo = Saves]
  <2>1. Saves \in Todos \ {<<>>}
    BY EntryNonempty DEF Confs, Saves
  <2>2. next \in Processes /\ next.at = "save" /\ next.todo # <<>>
    BY <2>1, SaveType, Zenon
  <2>3. proc' = [proc EXCEPT ![h] = next]
    BY <1>24 DEF handleUpdateConfig
  <2>4. /\ proc' \in [Procs -> Processes]
        /\ \A q \in Procs : proc'[q].at = "save" <=> proc'[q].todo # <<>>
    <3>. HIDE DEF next
    <3>. QED
      BY <2>2, <2>3, ProcStep
  <2>. QED
    BY <1>24, <2>4 DEF handleUpdateConfig
<1>25. ASSUME NEW h \in Handlers, Reload(h) PROVE ServerTypeOK'
  <2>1. sched' \in Crons
    BY <1>25 DEF Reload, NoCron, Crons
  <2>2. /\ proc' \in [Procs -> Processes]
        /\ \A q \in Procs : proc'[q].at = "save" <=> proc'[q].todo # <<>>
    BY <1>25 DEF Reload, Processes
  <2>. QED
    BY <1>25, <2>1, <2>2 DEF Reload
<1>26. ASSUME NEW h \in Handlers, ListSchedules(h) PROVE ServerTypeOK'
  <2>1. db.rows \in Tables
    BY DEF Databases
  <2>2. /\ proc' \in [Procs -> Processes]
        /\ \A q \in Procs : proc'[q].at = "save" <=> proc'[q].todo # <<>>
    BY <1>26, <2>1 DEF ListSchedules, Processes
  <2>. QED
    BY <1>26, <2>2 DEF ListSchedules
<1>27. ASSUME NEW h \in Handlers, ListFails(h) PROVE ServerTypeOK'
  BY <1>27 DEF ListFails, Processes, Servers, Databases, Images, Crons, NoCron
<1>28. ASSUME NEW h \in Handlers, loadSchedules(h) PROVE ServerTypeOK'
  BY <1>28 DEF loadSchedules, Processes, Servers, Databases, Images
<1>29. ASSUME NEW h \in Handlers, NEW rows \in Edits, Change(h, rows) PROVE ServerTypeOK'
  BY <1>29 DEF Change, Edits, Processes, Servers, Databases, Images
<1>30. ASSUME UNCHANGED svars PROVE ServerTypeOK'
  BY <1>30 DEF svars, keys, Processes, Servers, Databases, Images
<1>31. ASSUME DumpCannotOpen PROVE ServerTypeOK'
  BY <1>31 DEF DumpCannotOpen, Opened, Processes, Servers, Databases, Images
<1>. QED
  BY <1>1, <1>2, <1>3, <1>4, <1>5, <1>6, <1>7, <1>8, <1>9, <1>10, <1>11, <1>12, <1>13, <1>14,
       <1>15, <1>16, <1>17, <1>18, <1>19, <1>20, <1>21, <1>22, <1>23, <1>24, <1>25, <1>26, <1>27,
            <1>28, <1>29, <1>30, <1>31, NextSteps DEF Steps, Command, Start, Settle

-----------------------------------------------------------------------------
(* Who is at work when *)

\* What each may have to write: init config.json first, a request last.
TodoInv ==
    /\ \A h \in Handlers :
        /\ proc[h].at \in {"idle", "save", "reload", "list", "load"}
        /\ proc[h].todo \in {<<>>, <<"config">>, <<"secrets">>, <<"secrets", "config">>}
    /\ proc["cli"].todo \in {<<>>, <<"secrets">>, <<"config", "secrets">>}

\* Requests are under way only while the server is up, a restore only while it
\* is down, and the request that reloads holds s.mu.
HolderInv ==
    /\ \A h \in Handlers :
        /\ proc[h].at # "idle" => server.at = "up"
        /\ proc[h].at \in {"list", "load"} <=> sched.holder = h
    /\ sched.started => server.at = "up"
    /\ proc["cli"].at \in {"copy", "unlog"} => server.at = "down"

\* A server that is past db.New has every column; migrated until it has seeded.
OpenInv ==
    /\ server.at \in {"down", "agent", "start", "up"} => ~server.migrated
    /\ server.at \in {"seed", "agent", "start", "up"} => db.cols = Columns
    /\ server.at = "seed" => server.migrated

PhaseInv == TodoInv /\ HolderInv /\ OpenInv

LEMMA TailOf ==
    /\ Tail(<<"config">>) = <<>> /\ Tail(<<"secrets">>) = <<>>
    /\ Tail(<<"secrets", "config">>) = <<"config">>
    /\ Tail(<<"config", "secrets">>) = <<"secrets">>
  OBVIOUS

LEMMA TodoStep == ServerTypeOK /\ TodoInv /\ [ServerNext]_svars => TodoInv'
<1>. SUFFICES ASSUME ServerTypeOK, TodoInv, [ServerNext]_svars PROVE TodoInv'
  OBVIOUS
<1>. USE ServerAssumption
<1>. USE DEF ServerTypeOK, TodoInv, Procs, Processes, disk, keys, Idle
<1>1. ASSUME NEW p \in Procs, Truncate(p) PROVE TodoInv'
  BY <1>1 DEF Truncate
<1>2. ASSUME NEW p \in Procs, Write(p) PROVE TodoInv'
  <2>. DEFINE rest == Tail(proc[p].todo)
  <2>1. proc[p].todo # <<>> /\ proc[p].at = "save"
    BY <1>2 DEF Write
  <2>2. /\ p = "cli" => rest \in {<<>>, <<"secrets">>}
        /\ p \in Handlers => rest \in {<<>>, <<"config">>}
    BY <2>1, TailOf
  <2>3. CASE rest = <<>>
    BY <1>2, <2>3 DEF Write, Finish
  <2>4. CASE rest # <<>>
    <3>1. proc' = [proc EXCEPT ![p].todo = rest, ![p].opened = FALSE]
      BY <1>2, <2>4 DEF Write
    <3>. HIDE DEF rest
    <3>. QED
      BY <2>1, <2>2, <3>1
  <2>. QED
    BY <2>3, <2>4
<1>3. ASSUME NEW p \in Procs, WriteFails(p) PROVE TodoInv'
  BY <1>3 DEF WriteFails, Fault, Finish
<1>4. ASSUME cmdInit PROVE TodoInv'
  BY <1>4 DEF cmdInit, Begin
<1>5. ASSUME cmdChangePassword PROVE TodoInv'
  BY <1>5 DEF cmdChangePassword, loadCombinedConfig, Begin
<1>6. ASSUME cmdDBDump PROVE TodoInv'
  BY <1>6 DEF cmdDBDump, loadCombinedConfig, Begin
<1>7. ASSUME cmdDBRestore PROVE TodoInv'
  BY <1>7 DEF cmdDBRestore, loadCombinedConfig, Begin
<1>8. ASSUME DumpColumn PROVE TodoInv'
  BY <1>8 DEF DumpColumn
<1>9. ASSUME Dump PROVE TodoInv'
  BY <1>9 DEF Dump, Finish
<1>10. ASSUME RestoreTruncate PROVE TodoInv'
  BY <1>10 DEF RestoreTruncate
<1>11. ASSUME RestoreCopy PROVE TodoInv'
  BY <1>11 DEF RestoreCopy, Goto
<1>12. ASSUME RestoreRemoveWAL PROVE TodoInv'
  BY <1>12 DEF RestoreRemoveWAL, Finish
<1>13. ASSUME CommandDies PROVE TodoInv'
  BY <1>13 DEF CommandDies, Fault, Finish
<1>14. ASSUME Serve PROVE TodoInv'
  BY <1>14 DEF Serve
<1>15. ASSUME ServeColumn PROVE TodoInv'
  BY <1>15 DEF ServeColumn
<1>16. ASSUME ServeOpened PROVE TodoInv'
  BY <1>16 DEF ServeOpened
<1>17. ASSUME CannotOpen PROVE TodoInv'
  BY <1>17 DEF CannotOpen
<1>18. ASSUME SeedScheduleJobSettings PROVE TodoInv'
  BY <1>18 DEF SeedScheduleJobSettings
<1>19. ASSUME SeedFails PROVE TodoInv'
  BY <1>19 DEF SeedFails, Fault
<1>20. ASSUME NewAgent PROVE TodoInv'
  BY <1>20 DEF NewAgent
<1>21. ASSUME StartScheduler PROVE TodoInv'
  BY <1>21 DEF StartScheduler
<1>22. ASSUME ServerDies PROVE TodoInv'
  BY <1>22 DEF ServerDies, Fault
<1>23. ASSUME NEW h \in Handlers, handleChangePassword(h) PROVE TodoInv'
  BY <1>23 DEF handleChangePassword, Accept
<1>24. ASSUME NEW h \in Handlers, handleUpdateConfig(h) PROVE TodoInv'
  BY <1>24 DEF handleUpdateConfig, Accept, Saves
<1>25. ASSUME NEW h \in Handlers, Reload(h) PROVE TodoInv'
  BY <1>25 DEF Reload, Goto
<1>26. ASSUME NEW h \in Handlers, ListSchedules(h) PROVE TodoInv'
  BY <1>26 DEF ListSchedules
<1>27. ASSUME NEW h \in Handlers, ListFails(h) PROVE TodoInv'
  BY <1>27 DEF ListFails, Fault, Finish
<1>28. ASSUME NEW h \in Handlers, loadSchedules(h) PROVE TodoInv'
  BY <1>28 DEF loadSchedules, Finish
<1>29. ASSUME NEW h \in Handlers, NEW rows \in Edits, Change(h, rows) PROVE TodoInv'
  BY <1>29 DEF Change, Accept
<1>30. ASSUME UNCHANGED svars PROVE TodoInv'
  BY <1>30 DEF svars, keys
<1>31. ASSUME DumpCannotOpen PROVE TodoInv'
  BY <1>31 DEF DumpCannotOpen, Finish
<1>. QED
  BY <1>1, <1>2, <1>3, <1>4, <1>5, <1>6, <1>7, <1>8, <1>9, <1>10, <1>11, <1>12,
    <1>13, <1>14, <1>15, <1>16, <1>17, <1>18, <1>19, <1>20, <1>21, <1>22, <1>23, <1>24,
    <1>25, <1>26, <1>27, <1>28, <1>29, <1>30, <1>31, NextSteps DEF Steps, Command, Start, Settle

LEMMA HolderStep == ServerTypeOK /\ TodoInv /\ HolderInv /\ [ServerNext]_svars => HolderInv'
<1>. SUFFICES ASSUME ServerTypeOK, TodoInv, HolderInv, [ServerNext]_svars PROVE HolderInv'
  OBVIOUS
<1>. USE ServerAssumption
<1>. USE DEF ServerTypeOK, TodoInv, HolderInv, Procs, Processes, Servers, disk, keys, Idle, Down
<1>1. ASSUME NEW p \in Procs, Truncate(p) PROVE HolderInv'
  BY <1>1 DEF Truncate
<1>2. ASSUME NEW p \in Procs, Write(p) PROVE HolderInv'
  <2>1. CASE Tail(proc[p].todo) = <<>>
    BY <1>2, <2>1 DEF Write, Finish
  <2>2. CASE Tail(proc[p].todo) # <<>>
    <3>. DEFINE rest == Tail(proc[p].todo)
    <3>1. proc' = [proc EXCEPT ![p].todo = rest, ![p].opened = FALSE]
      BY <1>2, <2>2 DEF Write
    <3>2. UNCHANGED <<server, sched>>
      BY <1>2 DEF Write
    <3>. HIDE DEF rest
    <3>. QED
      BY <3>1, <3>2
  <2>. QED
    BY <2>1, <2>2
<1>3. ASSUME NEW p \in Procs, WriteFails(p) PROVE HolderInv'
  BY <1>3 DEF WriteFails, Fault, Finish
<1>4. ASSUME cmdInit PROVE HolderInv'
  BY <1>4 DEF cmdInit, Begin
<1>5. ASSUME cmdChangePassword PROVE HolderInv'
  BY <1>5 DEF cmdChangePassword, loadCombinedConfig, Begin
<1>6. ASSUME cmdDBDump PROVE HolderInv'
  BY <1>6 DEF cmdDBDump, loadCombinedConfig, Begin
<1>7. ASSUME cmdDBRestore PROVE HolderInv'
  BY <1>7 DEF cmdDBRestore, loadCombinedConfig, Begin
<1>8. ASSUME DumpColumn PROVE HolderInv'
  BY <1>8 DEF DumpColumn
<1>9. ASSUME Dump PROVE HolderInv'
  BY <1>9 DEF Dump, Finish
<1>10. ASSUME RestoreTruncate PROVE HolderInv'
  BY <1>10 DEF RestoreTruncate
<1>11. ASSUME RestoreCopy PROVE HolderInv'
  BY <1>11 DEF RestoreCopy, Goto
<1>12. ASSUME RestoreRemoveWAL PROVE HolderInv'
  BY <1>12 DEF RestoreRemoveWAL, Finish
<1>13. ASSUME CommandDies PROVE HolderInv'
  BY <1>13 DEF CommandDies, Fault, Finish
<1>14. ASSUME Serve PROVE HolderInv'
  BY <1>14 DEF Serve
<1>15. ASSUME ServeColumn PROVE HolderInv'
  BY <1>15 DEF ServeColumn
<1>16. ASSUME ServeOpened PROVE HolderInv'
  BY <1>16 DEF ServeOpened
<1>17. ASSUME CannotOpen PROVE HolderInv'
  BY <1>17 DEF CannotOpen
<1>18. ASSUME SeedScheduleJobSettings PROVE HolderInv'
  BY <1>18 DEF SeedScheduleJobSettings
<1>19. ASSUME SeedFails PROVE HolderInv'
  BY <1>19 DEF SeedFails, Fault
<1>20. ASSUME NewAgent PROVE HolderInv'
  BY <1>20 DEF NewAgent
<1>21. ASSUME StartScheduler PROVE HolderInv'
  BY <1>21 DEF StartScheduler, Running
<1>22. ASSUME ServerDies PROVE HolderInv'
  BY <1>22 DEF ServerDies, Fault, NoCron
<1>23. ASSUME NEW h \in Handlers, handleChangePassword(h) PROVE HolderInv'
  BY <1>23 DEF handleChangePassword, Accept
<1>24. ASSUME NEW h \in Handlers, handleUpdateConfig(h) PROVE HolderInv'
  BY <1>24 DEF handleUpdateConfig, Accept
<1>25. ASSUME NEW h \in Handlers, Reload(h) PROVE HolderInv'
  BY <1>25 DEF Reload, Goto
<1>26. ASSUME NEW h \in Handlers, ListSchedules(h) PROVE HolderInv'
  BY <1>26 DEF ListSchedules
<1>27. ASSUME NEW h \in Handlers, ListFails(h) PROVE HolderInv'
  BY <1>27 DEF ListFails, Fault, Finish, NoCron
<1>28. ASSUME NEW h \in Handlers, loadSchedules(h) PROVE HolderInv'
  BY <1>28 DEF loadSchedules, Finish, Running
<1>29. ASSUME NEW h \in Handlers, NEW rows \in Edits, Change(h, rows) PROVE HolderInv'
  BY <1>29 DEF Change, Accept
<1>30. ASSUME UNCHANGED svars PROVE HolderInv'
  BY <1>30 DEF svars, keys
<1>31. ASSUME DumpCannotOpen PROVE HolderInv'
  BY <1>31 DEF DumpCannotOpen, Finish
<1>. QED
  BY <1>1, <1>2, <1>3, <1>4, <1>5, <1>6, <1>7, <1>8, <1>9, <1>10, <1>11, <1>12,
    <1>13, <1>14, <1>15, <1>16, <1>17, <1>18, <1>19, <1>20, <1>21, <1>22, <1>23, <1>24,
    <1>25, <1>26, <1>27, <1>28, <1>29, <1>30, <1>31, NextSteps DEF Steps, Command, Start, Settle

LEMMA OpenStep == ServerTypeOK /\ HolderInv /\ OpenInv /\ [ServerNext]_svars => OpenInv'
<1>. SUFFICES ASSUME ServerTypeOK, HolderInv, OpenInv, [ServerNext]_svars PROVE OpenInv'
  OBVIOUS
<1>. USE ServerAssumption
<1>. USE DEF ServerTypeOK, HolderInv, OpenInv, Servers, Databases, disk, keys, Down
<1>1. ASSUME NEW p \in Procs, Truncate(p) PROVE OpenInv'
  BY <1>1 DEF Truncate
<1>2. ASSUME NEW p \in Procs, Write(p) PROVE OpenInv'
  BY <1>2 DEF Write, Finish
<1>3. ASSUME NEW p \in Procs, WriteFails(p) PROVE OpenInv'
  BY <1>3 DEF WriteFails, Fault, Finish
<1>4. ASSUME cmdInit PROVE OpenInv'
  BY <1>4 DEF cmdInit, Begin
<1>5. ASSUME cmdChangePassword PROVE OpenInv'
  BY <1>5 DEF cmdChangePassword, loadCombinedConfig, Begin
<1>6. ASSUME cmdDBDump PROVE OpenInv'
  BY <1>6 DEF cmdDBDump, loadCombinedConfig, Begin
<1>7. ASSUME cmdDBRestore PROVE OpenInv'
  BY <1>7 DEF cmdDBRestore, loadCombinedConfig, Begin
<1>8. ASSUME DumpColumn PROVE OpenInv'
  BY <1>8 DEF DumpColumn
<1>9. ASSUME Dump PROVE OpenInv'
  BY <1>9 DEF Dump, Finish
<1>10. ASSUME RestoreTruncate PROVE OpenInv'
  BY <1>10 DEF RestoreTruncate
<1>11. ASSUME RestoreCopy PROVE OpenInv'
  BY <1>11 DEF RestoreCopy, Goto
<1>12. ASSUME RestoreRemoveWAL PROVE OpenInv'
  BY <1>12 DEF RestoreRemoveWAL, Finish
<1>13. ASSUME CommandDies PROVE OpenInv'
  BY <1>13 DEF CommandDies, Fault, Finish
<1>14. ASSUME Serve PROVE OpenInv'
  BY <1>14 DEF Serve
<1>15. ASSUME ServeColumn PROVE OpenInv'
  BY <1>15 DEF ServeColumn
<1>16. ASSUME ServeOpened PROVE OpenInv'
  BY <1>16 DEF ServeOpened
<1>17. ASSUME CannotOpen PROVE OpenInv'
  BY <1>17 DEF CannotOpen
<1>18. ASSUME SeedScheduleJobSettings PROVE OpenInv'
  BY <1>18 DEF SeedScheduleJobSettings
<1>19. ASSUME SeedFails PROVE OpenInv'
  BY <1>19 DEF SeedFails, Fault
<1>20. ASSUME NewAgent PROVE OpenInv'
  BY <1>20 DEF NewAgent
<1>21. ASSUME StartScheduler PROVE OpenInv'
  BY <1>21 DEF StartScheduler
<1>22. ASSUME ServerDies PROVE OpenInv'
  BY <1>22 DEF ServerDies, Fault
<1>23. ASSUME NEW h \in Handlers, handleChangePassword(h) PROVE OpenInv'
  BY <1>23 DEF handleChangePassword, Accept
<1>24. ASSUME NEW h \in Handlers, handleUpdateConfig(h) PROVE OpenInv'
  BY <1>24 DEF handleUpdateConfig, Accept
<1>25. ASSUME NEW h \in Handlers, Reload(h) PROVE OpenInv'
  BY <1>25 DEF Reload, Goto
<1>26. ASSUME NEW h \in Handlers, ListSchedules(h) PROVE OpenInv'
  BY <1>26 DEF ListSchedules
<1>27. ASSUME NEW h \in Handlers, ListFails(h) PROVE OpenInv'
  BY <1>27 DEF ListFails, Fault, Finish
<1>28. ASSUME NEW h \in Handlers, loadSchedules(h) PROVE OpenInv'
  BY <1>28 DEF loadSchedules, Finish
<1>29. ASSUME NEW h \in Handlers, NEW rows \in Edits, Change(h, rows) PROVE OpenInv'
  BY <1>29 DEF Change, Accept
<1>30. ASSUME UNCHANGED svars PROVE OpenInv'
  BY <1>30 DEF svars, keys
<1>31. ASSUME DumpCannotOpen PROVE OpenInv'
  BY <1>31 DEF DumpCannotOpen, Opened
<1>. QED
  BY <1>1, <1>2, <1>3, <1>4, <1>5, <1>6, <1>7, <1>8, <1>9, <1>10, <1>11, <1>12,
    <1>13, <1>14, <1>15, <1>16, <1>17, <1>18, <1>19, <1>20, <1>21, <1>22, <1>23, <1>24,
    <1>25, <1>26, <1>27, <1>28, <1>29, <1>30, <1>31, NextSteps DEF Steps, Command, Start, Settle

-----------------------------------------------------------------------------
(* The key salt *)

\* Until init is run a second time there is one salt: it is in secrets.json; until
\* that file exists, nobody rewrites config.json.
SaltInv ==
    /\ ~reinit =>
        /\ files["secrets"].st = "whole" => files["secrets"].salt = salt
        /\ files["secrets"].salt \in {0, salt} /\ files["config"].salt \in {0, salt}
        /\ server.conf.salt \in {0, salt}
    /\ ~reinit /\ salt # 0 =>
        /\ files["secrets"].st = "absent" => files["config"].st = "whole"
             /\ files["config"].salt = salt
        /\ proc["cli"].at = "save" => proc["cli"].conf.salt = salt
        /\ \A p \in Procs : proc[p].at = "save" /\ Head(proc[p].todo) = "config" =>
                files["secrets"].st # "absent"
    /\ server.at \in {"start", "up"} => server.conf.salt # 0

\* A truncated secrets.json that no failure has left has somebody who writes it.
InHandInv ==
    files["secrets"].st = "empty" /\ faults = 0 =>
        \E p \in Procs :
            proc[p].at = "save" /\ proc[p].opened /\ Head(proc[p].todo) = "secrets"

LEMMA HeadOf ==
    /\ Head(<<"config">>) = "config" /\ Head(<<"secrets">>) = "secrets"
    /\ Head(<<"secrets", "config">>) = "secrets"
    /\ Head(<<"config", "secrets">>) = "config"
  OBVIOUS

LEMMA SaltStep == ServerTypeOK /\ TodoInv /\ HolderInv /\ SaltInv /\ [ServerNext]_svars => SaltInv'
<1>. SUFFICES ASSUME ServerTypeOK, TodoInv, HolderInv, SaltInv, [ServerNext]_svars PROVE SaltInv'
  OBVIOUS
<1>. USE ServerAssumption
<1>. USE DEF ServerTypeOK, TodoInv, HolderInv, SaltInv, Procs, Processes, Servers, disk, keys,
         Idle, Down, NoConf
<1>1. ASSUME NEW p \in Procs, Truncate(p) PROVE SaltInv'
  <2>. DEFINE path == Head(proc[p].todo)
  <2>1. /\ proc[p].at = "save" /\ proc[p] \in Processes /\ path \in Paths
    BY <1>1, TodoType DEF Truncate, Paths
  <2>2. files'[path] = NotWhole("empty") /\ \A q \in Paths \ {path} : files'[q] = files[q]
    BY <1>1, <2>1 DEF Truncate
  <2>3. NotWhole("empty").st = "empty" /\ NotWhole("empty").salt = 0
    BY DEF NotWhole
  <2>4. \A q \in Procs : proc'[q].at = proc[q].at /\ proc'[q].todo = proc[q].todo
                          /\ proc'[q].conf = proc[q].conf
    BY <1>1 DEF Truncate
  <2>5. salt' = salt /\ reinit' = reinit /\ server' = server
    BY <1>1 DEF Truncate
  <2>6. path = "config" /\ salt # 0 /\ ~reinit => files["secrets"].st # "absent"
    BY <2>1
  <2>. QED
    BY <2>1, <2>2, <2>3, <2>4, <2>5, <2>6 DEF Paths
<1>2. ASSUME NEW p \in Procs, Write(p) PROVE SaltInv'
  <2>. DEFINE path == Head(proc[p].todo)
              rest == Tail(proc[p].todo)
  <2>1. /\ proc[p].at = "save" /\ proc[p] \in Processes /\ path \in Paths
        /\ files["secrets"] \in Contents /\ files["config"] \in Contents
    BY <1>2, TodoType DEF Write, Paths
  <2>2. PICK c \in Written(path, ConfOf(p)) : files' = [files EXCEPT ![path] = c]
    BY <1>2 DEF Write
  <2>3. /\ c.st \in {"whole", "garbled"} /\ c.salt \in {0, ConfOf(p).salt}
        /\ path = "secrets" /\ c.st = "whole" => c.salt = ConfOf(p).salt
        /\ path = "config" => c.salt = 0
    BY <2>2 DEF Written, Saved, SaveSecrets, SaveUI, Whole, NotWhole
  <2>4. /\ reinit' = reinit /\ server' = server
        /\ \A q \in Procs \ {p} : proc'[q] = proc[q]
    BY <1>2 DEF Write, Finish
  <2>. SUFFICES ASSUME ~reinit PROVE SaltInv'
    BY <2>4
  <2>5. p \in Handlers => ConfOf(p).salt = salt /\ salt # 0
    BY <2>1, ServerAssumption DEF ConfOf
  <2>6. salt # 0 => ConfOf(p).salt = salt
    <3>1. p \in Handlers \/ p = "cli"
      OBVIOUS
    <3>. QED
      BY <2>1, <2>5, <3>1 DEF ConfOf
  <2>7. path = "secrets" => files'["secrets"] = c /\ files'["config"] = files["config"]
    BY <2>2 DEF Paths
  <2>8. path = "config" => files'["config"] = c /\ files'["secrets"] = files["secrets"]
    BY <2>2 DEF Paths
  <2>9. salt' = IF rest = <<>> /\ p = "cli" THEN ConfOf(p).salt ELSE salt
    BY <1>2, Zenon DEF Write
  <2>10. salt # 0 => salt' = salt
    BY <2>6, <2>9
  <2>11. proc'[p] = IF rest = <<>> THEN Idle
                    ELSE [proc[p] EXCEPT !.todo = rest, !.opened = FALSE]
    BY <1>2, ZenonT(60) DEF Write, Finish
  <2>12. p = "cli" => (rest = <<>> <=> path = "secrets")
    <3>. SUFFICES ASSUME p = "cli" PROVE rest = <<>> <=> path = "secrets"
      OBVIOUS
    <3>1. proc[p].todo = <<"secrets">> \/ proc[p].todo = <<"config", "secrets">>
      BY <2>1
    <3>2. <<"secrets">> # <<>>
      OBVIOUS
    <3>. QED
      BY <3>1, <3>2, TailOf, HeadOf, Zenon
  <2>13. path = "config" => salt' = salt
    BY <2>9, <2>12
  <2>14. path = "secrets" /\ c.st = "whole" => c.salt = salt'
    BY <2>3, <2>5, <2>6, <2>9, <2>10, <2>12
  <2>15. path = "secrets" => c.salt \in {0, salt'}
    BY <2>3, <2>5, <2>6, <2>9, <2>10, <2>12
  <2>16. rest # <<>> /\ Head(rest) = "config" => path = "secrets"
    BY <2>1, TailOf, HeadOf
  <2>17. /\ files'["secrets"].st = "whole" => files'["secrets"].salt = salt'
         /\ files'["secrets"].salt \in {0, salt'} /\ files'["config"].salt \in {0, salt'}
    BY <2>1, <2>3, <2>7, <2>8, <2>10, <2>13, <2>14, <2>15 DEF Paths
  <2>18. server'.conf.salt \in {0, salt'}
    BY <2>4, <2>10
  <2>19. salt' # 0 => files'["secrets"].st # "absent"
    BY <2>1, <2>3, <2>7, <2>8, <2>13 DEF Paths
  <2>20. ASSUME salt' # 0 PROVE proc'["cli"].at = "save" => proc'["cli"].conf.salt = salt'
    <3>1. CASE p = "cli"
      <4>1. rest # <<>> => salt' = salt
        BY <2>9
      <4>2. rest # <<>> => proc'["cli"].conf = proc["cli"].conf
        <5>. SUFFICES ASSUME rest # <<>> PROVE proc'[p].conf = proc[p].conf
          BY <3>1
        <5>1. proc'[p] = [proc[p] EXCEPT !.todo = rest, !.opened = FALSE]
          BY <2>11
        <5>. HIDE DEF rest
        <5>. QED
          BY <2>1, <5>1
      <4>. QED
        BY <2>1, <2>11, <2>20, <3>1, <4>1, <4>2 DEF Idle
    <3>2. CASE p # "cli"
      BY <2>4, <2>9, <2>20, <3>2
    <3>. QED
      BY <3>1, <3>2
  <2>. QED
    BY <2>4, <2>17, <2>18, <2>19, <2>20
<1>3. ASSUME NEW p \in Procs, WriteFails(p) PROVE SaltInv'
  BY <1>3 DEF WriteFails, Fault, Finish
<1>4. ASSUME cmdInit PROVE SaltInv'
  BY <1>4 DEF cmdInit, Begin
<1>5. ASSUME cmdChangePassword PROVE SaltInv'
  BY <1>5, HeadOf DEF cmdChangePassword, loadCombinedConfig, Begin, Loadable, LoadCombined,
     applySecrets, Contents, Paths
<1>6. ASSUME cmdDBDump PROVE SaltInv'
  BY <1>6 DEF cmdDBDump, loadCombinedConfig, Begin
<1>7. ASSUME cmdDBRestore PROVE SaltInv'
  BY <1>7 DEF cmdDBRestore, loadCombinedConfig, Begin
<1>8. ASSUME DumpColumn PROVE SaltInv'
  BY <1>8 DEF DumpColumn
<1>9. ASSUME Dump PROVE SaltInv'
  BY <1>9 DEF Dump, Finish
<1>10. ASSUME RestoreTruncate PROVE SaltInv'
  BY <1>10 DEF RestoreTruncate
<1>11. ASSUME RestoreCopy PROVE SaltInv'
  BY <1>11 DEF RestoreCopy, Goto
<1>12. ASSUME RestoreRemoveWAL PROVE SaltInv'
  BY <1>12 DEF RestoreRemoveWAL, Finish
<1>13. ASSUME CommandDies PROVE SaltInv'
  BY <1>13 DEF CommandDies, Fault, Finish
<1>14. ASSUME Serve PROVE SaltInv'
  BY <1>14 DEF Serve, Loadable, LoadCombined, applySecrets, Contents, Paths
<1>15. ASSUME ServeColumn PROVE SaltInv'
  BY <1>15 DEF ServeColumn
<1>16. ASSUME ServeOpened PROVE SaltInv'
  BY <1>16 DEF ServeOpened
<1>17. ASSUME CannotOpen PROVE SaltInv'
  BY <1>17 DEF CannotOpen
<1>18. ASSUME SeedScheduleJobSettings PROVE SaltInv'
  BY <1>18 DEF SeedScheduleJobSettings
<1>19. ASSUME SeedFails PROVE SaltInv'
  BY <1>19 DEF SeedFails, Fault
<1>20. ASSUME NewAgent PROVE SaltInv'
  BY <1>20 DEF NewAgent, Confs
<1>21. ASSUME StartScheduler PROVE SaltInv'
  BY <1>21 DEF StartScheduler
<1>22. ASSUME ServerDies PROVE SaltInv'
  BY <1>22 DEF ServerDies, Fault
<1>23. ASSUME NEW h \in Handlers, handleChangePassword(h) PROVE SaltInv'
  BY <1>23, HeadOf DEF handleChangePassword, Accept
<1>24. ASSUME NEW h \in Handlers, handleUpdateConfig(h) PROVE SaltInv'
  BY <1>24, HeadOf DEF handleUpdateConfig, Accept, Saves
<1>25. ASSUME NEW h \in Handlers, Reload(h) PROVE SaltInv'
  BY <1>25 DEF Reload, Goto
<1>26. ASSUME NEW h \in Handlers, ListSchedules(h) PROVE SaltInv'
  BY <1>26 DEF ListSchedules
<1>27. ASSUME NEW h \in Handlers, ListFails(h) PROVE SaltInv'
  BY <1>27 DEF ListFails, Fault, Finish
<1>28. ASSUME NEW h \in Handlers, loadSchedules(h) PROVE SaltInv'
  BY <1>28 DEF loadSchedules, Finish
<1>29. ASSUME NEW h \in Handlers, NEW rows \in Edits, Change(h, rows) PROVE SaltInv'
  BY <1>29 DEF Change, Accept
<1>30. ASSUME UNCHANGED svars PROVE SaltInv'
  BY <1>30 DEF svars, keys
<1>31. ASSUME DumpCannotOpen PROVE SaltInv'
  BY <1>31 DEF DumpCannotOpen, Finish
<1>. QED
  BY <1>1, <1>2, <1>3, <1>4, <1>5, <1>6, <1>7, <1>8, <1>9, <1>10, <1>11, <1>12,
    <1>13, <1>14, <1>15, <1>16, <1>17, <1>18, <1>19, <1>20, <1>21, <1>22, <1>23, <1>24,
    <1>25, <1>26, <1>27, <1>28, <1>29, <1>30, <1>31, NextSteps DEF Steps, Command, Start, Settle

LEMMA InHandStep == ServerTypeOK /\ TodoInv /\ InHandInv /\ [ServerNext]_svars => InHandInv'
<1>. SUFFICES ASSUME ServerTypeOK, TodoInv, InHandInv, [ServerNext]_svars,
                     files'["secrets"].st = "empty", faults' = 0
              PROVE  \E p \in Procs : /\ proc'[p].at = "save" /\ proc'[p].opened
                                     /\ Head(proc'[p].todo) = "secrets"
  BY DEF InHandInv
<1>. DEFINE InHand(p) ==
              proc[p].at = "save" /\ proc[p].opened /\ Head(proc[p].todo) = "secrets"
            Goal == \E p \in Procs : InHand(p)'
<1>0. /\ proc \in [Procs -> Processes] /\ "cli" \in Procs /\ Handlers \subseteq Procs
      /\ faults \in Nat
  BY DEF ServerTypeOK, Procs
\* Somebody had it in hand, and has it still when only idle processes move.
<1>1. ASSUME files'["secrets"] = files["secrets"], faults' = faults,
             \A p \in Procs : InHand(p) => proc'[p] = proc[p]
      PROVE  Goal
  <2>1. PICK p \in Procs : InHand(p)
    BY <1>1 DEF InHandInv
  <2>. QED
    BY <1>1, <2>1
<1>2. ASSUME NEW p \in Procs, NEW r, proc' = [proc EXCEPT ![p] = r], ~InHand(p),
             files' = files, faults' = faults
      PROVE  Goal
  <2>1. \A q \in Procs : InHand(q) => proc'[q] = proc[q]
    BY <1>0, <1>2
  <2>. HIDE DEF InHand, Goal
  <2>. QED
    BY <1>1, <1>2, <2>1
<1>3. ASSUME NEW p \in Procs, Truncate(p) PROVE Goal
  <2>. DEFINE path == Head(proc[p].todo)
  <2>1. /\ path \in Paths /\ proc[p] \in Processes /\ proc[p].at = "save"
    BY <1>0, <1>3, TodoType DEF Truncate, ServerTypeOK, Processes
  <2>2. proc' = [proc EXCEPT ![p].opened = TRUE] /\ ~proc[p].opened /\ faults' = faults
    BY <1>3 DEF Truncate
  <2>3. proc'[p] = [proc[p] EXCEPT !.opened = TRUE]
    BY <1>0, <2>2
  <2>4. CASE path = "secrets"
    <3>1. proc'[p].at = "save" /\ proc'[p].opened /\ proc'[p].todo = proc[p].todo
      BY <2>1, <2>3 DEF Processes
    <3>. QED
      BY <2>4, <3>1
  <2>5. CASE path # "secrets"
    <3>1. files'["secrets"] = files["secrets"]
      BY <1>3, <2>1, <2>5 DEF Truncate, Paths, ServerTypeOK
    <3>2. \A q \in Procs : InHand(q) => proc'[q] = proc[q]
      BY <1>0, <2>2
    <3>. HIDE DEF InHand, Goal
    <3>. QED
      BY <1>1, <2>2, <3>1, <3>2
  <2>. QED
    BY <2>4, <2>5
<1>4. ASSUME NEW p \in Procs, Write(p) PROVE Goal
  <2>. DEFINE path == Head(proc[p].todo)
  <2>1. /\ path \in Paths /\ proc[p] \in Processes /\ proc[p].at = "save"
    BY <1>0, <1>4, TodoType DEF Write, ServerTypeOK, Processes
  <2>2. PICK c \in Written(path, ConfOf(p)) : files' = [files EXCEPT ![path] = c]
    BY <1>4 DEF Write
  <2>3. c.st # "empty"
    BY <2>2 DEF Written, Saved, SaveSecrets, SaveUI, Whole, NotWhole
  <2>4. path # "secrets"
    BY <2>1, <2>2, <2>3 DEF ServerTypeOK, Paths
  <2>5. files'["secrets"] = files["secrets"] /\ faults' = faults
    BY <1>4, <2>1, <2>2, <2>4 DEF Write, ServerTypeOK, Paths
  <2>6. \A q \in Procs \ {p} : proc'[q] = proc[q]
    BY <1>0, <1>4 DEF Write, Finish
  <2>7. \A q \in Procs : InHand(q) => proc'[q] = proc[q]
    BY <2>4, <2>6
  <2>. HIDE DEF InHand, Goal
  <2>. QED
    BY <1>1, <2>5, <2>7
<1>5. ASSUME Fault PROVE FALSE
  BY <1>0, <1>5 DEF Fault
<1>6. Idle.at # "save"
  BY IdleType
<1>7. ASSUME cmdInit \/ cmdChangePassword \/ cmdDBDump \/ cmdDBRestore PROVE Goal
  <2>1. /\ files' = files /\ faults' = faults /\ proc["cli"] = Idle
        /\ \E r : proc' = [proc EXCEPT !["cli"] = r]
    BY <1>7 DEF cmdInit, cmdChangePassword, cmdDBDump, cmdDBRestore, loadCombinedConfig, Begin
  <2>2. ~InHand("cli")
    BY <1>6, <2>1
  <2>. HIDE DEF InHand, Goal
  <2>. QED
    BY <1>0, <1>2, <2>1, <2>2
<1>8. ASSUME NEW h \in Handlers, NEW r, Accept(h, r), files' = files, faults' = faults
      PROVE  Goal
  <2>1. ~InHand(h) /\ proc' = [proc EXCEPT ![h] = r]
    BY <1>6, <1>8 DEF Accept
  <2>. HIDE DEF InHand, Goal
  <2>. QED
    BY <1>0, <1>2, <1>8, <2>1
<1>9. ASSUME NEW h \in Handlers, handleChangePassword(h) \/ handleUpdateConfig(h) PROVE Goal
  <2>. HIDE DEF Goal
  <2>. QED
    BY <1>8, <1>9 DEF handleChangePassword, handleUpdateConfig
<1>10. ASSUME NEW h \in Handlers, NEW rows \in Edits, Change(h, rows) PROVE Goal
  <2>. HIDE DEF Goal
  <2>. QED
    BY <1>8, <1>10 DEF Change
<1>11. ASSUME UNCHANGED <<files, proc, faults>> PROVE Goal
  <2>. HIDE DEF Goal
  <2>. QED
    BY <1>1, <1>11
\* The other steps are of processes that save nothing.
<1>12. ASSUME NEW p \in Procs, NEW r, proc[p].at # "save", proc' = [proc EXCEPT ![p] = r],
              files' = files, faults' = faults
       PROVE  Goal
  <2>1. ~InHand(p)
    BY <1>12
  <2>. HIDE DEF InHand, Goal
  <2>. QED
    BY <1>2, <1>12, <2>1
<1>13. ASSUME Dump \/ DumpCannotOpen \/ RestoreTruncate \/ RestoreCopy \/ RestoreRemoveWAL
       PROVE  Goal
  <2>1. /\ proc["cli"].at # "save" /\ files' = files /\ faults' = faults
        /\ \E r : proc' = [proc EXCEPT !["cli"] = r]
    BY <1>13 DEF Dump, DumpCannotOpen, RestoreTruncate, RestoreCopy, RestoreRemoveWAL, Finish, Goto
  <2>. HIDE DEF Goal
  <2>. QED
    BY <1>0, <1>12, <2>1
<1>14. ASSUME NEW h \in Handlers, Settle(h) PROVE Goal
  <2>1. /\ proc[h].at # "save" /\ files' = files /\ faults' = faults
        /\ \E r : proc' = [proc EXCEPT ![h] = r]
    BY <1>5, <1>14
    DEF Settle, Reload, ListSchedules, ListFails, loadSchedules, Finish, Goto
  <2>. HIDE DEF Goal
  <2>. QED
    BY <1>0, <1>12, <2>1
<1>15. ASSUME Command PROVE Goal
  <2>1. ASSUME DumpColumn PROVE Goal
    BY <1>11, <2>1 DEF DumpColumn
  <2>2. ~CommandDies
    BY <1>5 DEF CommandDies
  <2>. QED
    BY <1>7, <1>13, <1>15, <2>1, <2>2 DEF Command
<1>16. ASSUME Start PROVE Goal
  <2>1. ~SeedFails /\ ~ServerDies
    BY <1>5 DEF SeedFails, ServerDies
  <2>2. UNCHANGED <<files, proc, faults>>
    BY <1>16, <2>1
    DEF Start, Serve, ServeColumn, ServeOpened, CannotOpen, SeedScheduleJobSettings, NewAgent,
        StartScheduler
  <2>. QED
    BY <1>11, <2>2
<1>17. ASSUME UNCHANGED svars PROVE Goal
  BY <1>11, <1>17 DEF svars
<1>18. ASSUME NEW p \in Procs, WriteFails(p) PROVE FALSE
  BY <1>5, <1>18 DEF WriteFails
<1>. HIDE DEF Goal
<1>19. Goal
  BY <1>3, <1>4, <1>9, <1>10, <1>14, <1>15, <1>16, <1>17, <1>18, NextSteps, Zenon DEF Steps
<1>. QED
  BY <1>19 DEF Goal

-----------------------------------------------------------------------------
(* The scheduler *)

\* What a reload has read is the table, unless a later change waits to reload.
ReloadInv ==
    \A h \in Handlers :
        proc[h].at = "load" /\ (\A g \in Handlers : proc[g].at # "reload") =>
            proc[h].seen = db.rows

LoadInv == ReloadInv /\ EntriesCurrent

LEMMA LoadStep == ServerTypeOK /\ TodoInv /\ HolderInv /\ LoadInv /\ [ServerNext]_svars => LoadInv'
<1>. SUFFICES ASSUME ServerTypeOK, TodoInv, HolderInv, LoadInv, [ServerNext]_svars PROVE LoadInv'
  OBVIOUS
<1>. USE ServerAssumption
<1>. USE DEF ServerTypeOK, TodoInv, HolderInv, LoadInv, ReloadInv, EntriesCurrent, Procs,
         Processes, Servers, Databases, disk, keys, Idle, Down
<1>1. ASSUME NEW p \in Procs, Truncate(p) PROVE LoadInv'
  BY <1>1 DEF Truncate
<1>2. ASSUME NEW p \in Procs, Write(p) PROVE LoadInv'
  <2>1. \A h \in Handlers : (proc'[h].at = "reload" <=> proc[h].at = "reload")
                          /\ (proc'[h].at = "load" => proc'[h] = proc[h])
    <3>1. \A q \in Procs \ {p} : proc'[q] = proc[q]
      BY <1>2 DEF Write, Finish
    <3>2. proc[p].at = "save" /\ proc'[p].at \in {"idle", "save"}
      <4>1. CASE Tail(proc[p].todo) = <<>>
        BY <1>2, <4>1 DEF Write, Finish
      <4>2. CASE Tail(proc[p].todo) # <<>>
        BY <1>2, <4>2 DEF Write
      <4>. QED
        BY <4>1, <4>2
    <3>. QED
      BY <3>1, <3>2
  <2>2. UNCHANGED <<sched, db>>
    BY <1>2 DEF Write
  <2>. QED
    BY <2>1, <2>2
<1>3. ASSUME NEW p \in Procs, WriteFails(p) PROVE LoadInv'
  BY <1>3 DEF WriteFails, Fault, Finish
<1>4. ASSUME cmdInit PROVE LoadInv'
  BY <1>4 DEF cmdInit, Begin
<1>5. ASSUME cmdChangePassword PROVE LoadInv'
  BY <1>5 DEF cmdChangePassword, loadCombinedConfig, Begin
<1>6. ASSUME cmdDBDump PROVE LoadInv'
  BY <1>6 DEF cmdDBDump, loadCombinedConfig, Begin
<1>7. ASSUME cmdDBRestore PROVE LoadInv'
  BY <1>7 DEF cmdDBRestore, loadCombinedConfig, Begin
<1>8. ASSUME DumpColumn PROVE LoadInv'
  <2>1. db'.rows = db.rows
    BY <1>8, ColumnAdded DEF DumpColumn
  <2>. QED
    BY <1>8, <2>1 DEF DumpColumn
<1>9. ASSUME Dump PROVE LoadInv'
  BY <1>9 DEF Dump, Finish
<1>10. ASSUME RestoreTruncate PROVE LoadInv'
  BY <1>10 DEF RestoreTruncate
<1>11. ASSUME RestoreCopy PROVE LoadInv'
  BY <1>11 DEF RestoreCopy, Goto
<1>12. ASSUME RestoreRemoveWAL PROVE LoadInv'
  BY <1>12 DEF RestoreRemoveWAL, Finish
<1>13. ASSUME CommandDies PROVE LoadInv'
  BY <1>13 DEF CommandDies, Fault, Finish
<1>14. ASSUME Serve PROVE LoadInv'
  BY <1>14 DEF Serve
<1>15. ASSUME ServeColumn PROVE LoadInv'
  <2>1. db'.rows = db.rows
    BY <1>15, ColumnAdded DEF ServeColumn
  <2>. QED
    BY <1>15, <2>1 DEF ServeColumn
<1>16. ASSUME ServeOpened PROVE LoadInv'
  BY <1>16 DEF ServeOpened
<1>17. ASSUME CannotOpen PROVE LoadInv'
  BY <1>17 DEF CannotOpen, Opened
<1>18. ASSUME SeedScheduleJobSettings PROVE LoadInv'
  BY <1>18 DEF SeedScheduleJobSettings
<1>19. ASSUME SeedFails PROVE LoadInv'
  BY <1>19 DEF SeedFails, Fault
<1>20. ASSUME NewAgent PROVE LoadInv'
  BY <1>20 DEF NewAgent
<1>21. ASSUME StartScheduler PROVE LoadInv'
  BY <1>21 DEF StartScheduler, Running
<1>22. ASSUME ServerDies PROVE LoadInv'
  BY <1>22 DEF ServerDies, Fault, NoCron
<1>23. ASSUME NEW h \in Handlers, handleChangePassword(h) PROVE LoadInv'
  BY <1>23 DEF handleChangePassword, Accept
<1>24. ASSUME NEW h \in Handlers, handleUpdateConfig(h) PROVE LoadInv'
  BY <1>24 DEF handleUpdateConfig, Accept
<1>25. ASSUME NEW h \in Handlers, Reload(h) PROVE LoadInv'
  BY <1>25 DEF Reload, Goto, NoCron
<1>26. ASSUME NEW h \in Handlers, ListSchedules(h) PROVE LoadInv'
  BY <1>26 DEF ListSchedules
<1>27. ASSUME NEW h \in Handlers, ListFails(h) PROVE LoadInv'
  BY <1>27 DEF ListFails, Fault, Finish, NoCron
<1>28. ASSUME NEW h \in Handlers, loadSchedules(h) PROVE LoadInv'
  BY <1>28 DEF loadSchedules, Finish, Running
<1>29. ASSUME NEW h \in Handlers, NEW rows \in Edits, Change(h, rows) PROVE LoadInv'
  BY <1>29 DEF Change, Accept
<1>30. ASSUME UNCHANGED svars PROVE LoadInv'
  BY <1>30 DEF svars, keys
<1>31. ASSUME DumpCannotOpen PROVE LoadInv'
  BY <1>31 DEF DumpCannotOpen, Opened, Finish
<1>. QED
  BY <1>1, <1>2, <1>3, <1>4, <1>5, <1>6, <1>7, <1>8, <1>9, <1>10, <1>11, <1>12,
    <1>13, <1>14, <1>15, <1>16, <1>17, <1>18, <1>19, <1>20, <1>21, <1>22, <1>23, <1>24,
    <1>25, <1>26, <1>27, <1>28, <1>29, <1>30, <1>31, NextSteps DEF Steps, Command, Start, Settle

-----------------------------------------------------------------------------
(* The old settings *)

Seeded(rows) == \A i \in Ids : rows[i] # NoRow => rows[i].set # "default"

\* Until the last column is there config.json keeps the old settings, unless init
\* has been run over it; then the process that added it is about to seed, or the
\* schedules have been seeded.
SettingsInv ==
    /\ db.cols < Columns /\ ~lost =>
        /\ files["config"] = Whole(1, TRUE)
        /\ server.at = "columns" => server.conf.legacy
        /\ proc["cli"].todo # <<"config", "secrets">>
    /\ server.migrated => db.st = "whole" /\ wal # "stale"
    /\ server.migrated /\ ~lost => server.conf.legacy
    /\ ~lost => Seeded(dump.rows) /\ (db.cols = Columns => server.migrated \/ Seeded(db.rows))
    /\ dump # NoImage => dump.cols = Columns
    /\ proc["cli"].at = "copy" => dump.cols = Columns

\* What SettingsInv says of the files survives a save: it is not init that runs.
LEMMA ConfigStays ==
    ASSUME ServerTypeOK, TodoInv, HolderInv, OpenInv, SettingsInv, db.cols < Columns, ~lost,
           NEW p \in Procs, proc[p].at = "save"
    PROVE  Head(proc[p].todo) = "secrets" /\ p = "cli"
  <1>1. p = "cli"
    BY DEF Procs, HolderInv, OpenInv, Databases, ServerTypeOK
  <1>2. proc[p].todo = <<"secrets">>
    BY <1>1 DEF SettingsInv, TodoInv, ServerTypeOK
  <1>. QED
    BY <1>1, <1>2, HeadOf

LEMMA SettingsStep == ServerTypeOK /\ PhaseInv /\ SettingsInv
     /\ [ServerNext]_svars => SettingsInv'
<1>. SUFFICES ASSUME ServerTypeOK, PhaseInv, SettingsInv, [ServerNext]_svars
     PROVE SettingsInv'
  OBVIOUS
<1>. USE ServerAssumption
<1>. USE DEF ServerTypeOK, PhaseInv, TodoInv, HolderInv, OpenInv, SettingsInv, Procs,
         Processes, Servers, disk, keys, Idle, Down
<1>1. ASSUME NEW p \in Procs, Truncate(p) PROVE SettingsInv'
  <2>1. db.cols < Columns /\ ~lost => files'["config"] = files["config"]
    BY <1>1, ConfigStays DEF Truncate, Paths
  <2>2. proc'["cli"].at = proc["cli"].at /\ proc'["cli"].todo = proc["cli"].todo
    BY <1>1 DEF Truncate
  <2>3. UNCHANGED <<server, db, dump, wal, lost>>
    BY <1>1 DEF Truncate
  <2>. QED
    BY <2>1, <2>2, <2>3
<1>2. ASSUME NEW p \in Procs, Write(p) PROVE SettingsInv'
  <2>1. proc[p].at = "save" /\ UNCHANGED <<server, db, dump, wal, lost>>
    BY <1>2 DEF Write
  <2>2. db.cols < Columns /\ ~lost => files'["config"] = files["config"]
    BY <1>2, ConfigStays, ZenonT(60) DEF Write, Paths
  <2>3. proc'["cli"].at \in {proc["cli"].at, "idle"}
    <3>1. CASE Tail(proc[p].todo) = <<>>
      BY <1>2, <3>1 DEF Write, Finish
    <3>2. CASE Tail(proc[p].todo) # <<>>
      BY <1>2, <3>2 DEF Write
    <3>. QED
      BY <3>1, <3>2
  <2>4. proc'["cli"].todo = <<"config", "secrets">> => proc["cli"].todo = <<"config", "secrets">>
    <3>1. CASE p # "cli"
      BY <1>2, <3>1 DEF Write, Finish
    <3>2. CASE p = "cli" /\ Tail(proc[p].todo) = <<>>
      <4>1. proc'["cli"] = Idle
        BY <1>2, <3>2, ZenonT(60) DEF Write, Finish
      <4>2. <<"config", "secrets">> # <<>>
        OBVIOUS
      <4>. QED
        BY <4>1, <4>2
    <3>3. CASE p = "cli" /\ Tail(proc[p].todo) # <<>>
      <4>1. proc'["cli"].todo = Tail(proc["cli"].todo)
        BY <1>2, <3>3 DEF Write
      <4>2. Tail(proc["cli"].todo) \in {<<>>, <<"secrets">>}
        BY <2>1, <3>3, TailOf
      <4>3. <<"config", "secrets">> \notin {<<>>, <<"secrets">>}
        OBVIOUS
      <4>4. proc'["cli"].todo # <<"config", "secrets">>
        BY <4>1, <4>2, <4>3, Zenon
      <4>. QED
        BY <4>4, Zenon
    <3>. QED
      BY <3>1, <3>2, <3>3
  <2>. QED
    BY <2>1, <2>2, <2>3, <2>4
<1>3. ASSUME NEW p \in Procs, WriteFails(p) PROVE SettingsInv'
  BY <1>3 DEF WriteFails, Fault, Finish
<1>4. ASSUME cmdInit PROVE SettingsInv'
  <2>0. PICK s \in Salts \ {salt} :
            Begin([Idle EXCEPT !.at = "save", !.todo = <<"config", "secrets">>,
                               !.conf = [salt |-> s, legacy |-> FALSE]])
    BY <1>4 DEF cmdInit
  <2>1. proc'["cli"].at = "save"
    BY <2>0 DEF Begin
  <2>2. UNCHANGED <<files, server, db, dump, wal>>
    BY <1>4 DEF cmdInit
  <2>3. lost' = (lost \/ db.cols < Columns)
    BY <1>4 DEF cmdInit
  <2>. QED
    BY <2>1, <2>2, <2>3
<1>5. ASSUME cmdChangePassword PROVE SettingsInv'
  BY <1>5 DEF cmdChangePassword, loadCombinedConfig, Begin
<1>6. ASSUME cmdDBDump PROVE SettingsInv'
  BY <1>6 DEF cmdDBDump, loadCombinedConfig, Begin
<1>7. ASSUME cmdDBRestore PROVE SettingsInv'
  BY <1>7 DEF cmdDBRestore, loadCombinedConfig, Begin
<1>8. ASSUME DumpColumn PROVE SettingsInv'
  <2>1. /\ db'.rows = db.rows /\ db'.cols = db.cols + 1
        /\ db'.st = "whole" /\ wal' = "own"
    BY <1>8, ColumnAdded DEF DumpColumn
  <2>2. Columns \in Nat /\ db.cols \in Nat /\ db.cols < Columns
    BY <1>8 DEF DumpColumn, Databases
  <2>. QED
    BY <1>8, <2>1, <2>2 DEF DumpColumn, Seeded
<1>9. ASSUME Dump PROVE SettingsInv'
  BY <1>9 DEF Dump, Finish
<1>10. ASSUME RestoreTruncate PROVE SettingsInv'
  <2>1. db'.rows = db.rows /\ db'.cols = db.cols
    BY <1>10 DEF RestoreTruncate, Databases
  <2>2. server.at = "down" /\ UNCHANGED <<files, server, wal, dump, lost>>
    BY <1>10 DEF RestoreTruncate
  <2>3. proc'["cli"].at = proc["cli"].at /\ proc'["cli"].todo = proc["cli"].todo
    BY <1>10 DEF RestoreTruncate
  <2>. QED
    BY <2>1, <2>2, <2>3
<1>11. ASSUME RestoreCopy PROVE SettingsInv'
  <2>1. db'.rows = dump.rows /\ db'.cols = Columns
    BY <1>11 DEF RestoreCopy
  <2>2. server.at = "down" /\ UNCHANGED <<files, server, dump, lost>>
    BY <1>11 DEF RestoreCopy
  <2>3. proc'["cli"].at = "unlog" /\ proc'["cli"].todo = proc["cli"].todo
    BY <1>11 DEF RestoreCopy, Goto
  <2>4. ~(Columns < Columns)
    BY DEF ServerAssumption
  <2>. QED
    BY <2>1, <2>2, <2>3, <2>4
<1>12. ASSUME RestoreRemoveWAL PROVE SettingsInv'
  BY <1>12 DEF RestoreRemoveWAL, Finish
<1>13. ASSUME CommandDies PROVE SettingsInv'
  BY <1>13 DEF CommandDies, Fault, Finish
<1>14. ASSUME Serve PROVE SettingsInv'
  BY <1>14 DEF Serve, LoadCombined, applySecrets, Whole
<1>15. ASSUME ServeColumn PROVE SettingsInv'
  <2>1. /\ db'.rows = db.rows /\ db'.cols = db.cols + 1
        /\ db'.st = "whole" /\ wal' = "own"
    BY <1>15, ColumnAdded DEF ServeColumn
  <2>2. Columns \in Nat /\ db.cols \in Nat /\ db.cols < Columns
    BY <1>15 DEF ServeColumn, Databases
  <2>. QED
    BY <1>15, <2>1, <2>2 DEF ServeColumn, Seeded
<1>16. ASSUME ServeOpened PROVE SettingsInv'
  BY <1>16 DEF ServeOpened
<1>17. ASSUME CannotOpen PROVE SettingsInv'
  BY <1>17 DEF CannotOpen, Opened, Databases
<1>18. ASSUME SeedScheduleJobSettings PROVE SettingsInv'
  <2>1. ~lost => server.conf.legacy
    BY <1>18 DEF SeedScheduleJobSettings
  <2>2. ~lost => Seeded(db'.rows)
    <3>. SUFFICES ASSUME ~lost PROVE Seeded(db'.rows)
      OBVIOUS
    <3>1. db'.rows = [i \in Ids |->
                        IF db.rows[i] = NoRow THEN NoRow
                        ELSE [db.rows[i] EXCEPT !.set = "legacy"]]
      BY <1>18, <2>1 DEF SeedScheduleJobSettings, Databases
    <3>2. \A i \in Ids : db.rows[i] # NoRow => db.rows[i] \in Rows
      BY DEF Databases, Tables
    <3>3. \A i \in Ids : db.rows[i] # NoRow => [db.rows[i] EXCEPT !.set = "legacy"].set = "legacy"
      BY <3>2 DEF Rows
    <3>. QED
      BY <3>1, <3>3 DEF Seeded
  <2>3. db'.cols = db.cols
    BY <1>18 DEF SeedScheduleJobSettings, Databases
  <2>. QED
    BY <1>18, <2>2, <2>3 DEF SeedScheduleJobSettings
<1>19. ASSUME SeedFails PROVE SettingsInv'
  BY <1>19 DEF SeedFails, Fault
<1>20. ASSUME NewAgent PROVE SettingsInv'
  BY <1>20 DEF NewAgent
<1>21. ASSUME StartScheduler PROVE SettingsInv'
  BY <1>21 DEF StartScheduler
<1>22. ASSUME ServerDies PROVE SettingsInv'
  BY <1>22 DEF ServerDies, Fault
<1>23. ASSUME NEW h \in Handlers, handleChangePassword(h) PROVE SettingsInv'
  BY <1>23 DEF handleChangePassword, Accept
<1>24. ASSUME NEW h \in Handlers, handleUpdateConfig(h) PROVE SettingsInv'
  BY <1>24, ZenonT(60) DEF handleUpdateConfig, Accept
<1>25. ASSUME NEW h \in Handlers, Reload(h) PROVE SettingsInv'
  BY <1>25 DEF Reload, Goto
<1>26. ASSUME NEW h \in Handlers, ListSchedules(h) PROVE SettingsInv'
  BY <1>26, ZenonT(60) DEF ListSchedules
<1>27. ASSUME NEW h \in Handlers, ListFails(h) PROVE SettingsInv'
  BY <1>27 DEF ListFails, Fault, Finish
<1>28. ASSUME NEW h \in Handlers, loadSchedules(h) PROVE SettingsInv'
  BY <1>28 DEF loadSchedules, Finish
<1>29. ASSUME NEW h \in Handlers, NEW rows \in Edits, Change(h, rows) PROVE SettingsInv'
  <2>1. db'.rows = rows /\ db'.cols = db.cols /\ db'.st = db.st
    BY <1>29 DEF Change, Databases
  <2>2. Seeded(db.rows) => Seeded(rows)
    BY DEF Seeded, Edits, Body
  <2>3. server.at = "up"
    BY <1>29 DEF Change, Accept
  <2>4. "cli" # h
    OBVIOUS
  <2>5. proc'["cli"] = proc["cli"]
    BY <1>29, <2>4 DEF Change, Accept
  <2>6. UNCHANGED <<files, server, wal, dump, lost>>
    BY <1>29 DEF Change
  <2>. QED
    BY <2>1, <2>2, <2>3, <2>5, <2>6
<1>30. ASSUME UNCHANGED svars PROVE SettingsInv'
  BY <1>30 DEF svars, keys
<1>31. ASSUME DumpCannotOpen PROVE SettingsInv'
  <2>1. ~server.migrated
    BY <1>31 DEF DumpCannotOpen, Opened, Databases
  <2>2. db'.cols = db.cols /\ db'.rows = db.rows
    BY <1>31 DEF DumpCannotOpen, Opened, Databases
  <2>3. UNCHANGED <<files, server, wal, dump, lost>>
    BY <1>31 DEF DumpCannotOpen
  <2>4. proc'["cli"].at = "idle" /\ proc'["cli"].todo # <<"config", "secrets">>
    BY <1>31 DEF DumpCannotOpen, Finish
  <2>. QED
    BY <2>1, <2>2, <2>3, <2>4
<1>. QED
  BY <1>1, <1>2, <1>3, <1>4, <1>5, <1>6, <1>7, <1>8, <1>9, <1>10, <1>11, <1>12,
    <1>13, <1>14, <1>15, <1>16, <1>17, <1>18, <1>19, <1>20, <1>21, <1>22, <1>23, <1>24,
    <1>25, <1>26, <1>27, <1>28, <1>29, <1>30, <1>31, NextSteps DEF Steps, Command, Start, Settle

-----------------------------------------------------------------------------
(* db-restore *)

\* Nobody touches the copied database before its old WAL is gone.
RestoreInv == proc["cli"].at = "unlog" => db.st = "whole" /\ db.rows = dump.rows

LEMMA RestoreStep == ServerTypeOK /\ HolderInv /\ TodoInv /\ RestoreInv
     /\ [ServerNext]_svars => RestoreInv'
<1>. SUFFICES ASSUME ServerTypeOK, HolderInv, TodoInv, RestoreInv, [ServerNext]_svars
     PROVE RestoreInv'
  OBVIOUS
<1>. USE ServerAssumption
<1>. USE DEF ServerTypeOK, HolderInv, TodoInv, RestoreInv, Procs, Processes, Servers, disk, keys,
         Idle, Down
<1>1. ASSUME NEW p \in Procs, Truncate(p) PROVE RestoreInv'
  BY <1>1 DEF Truncate
<1>2. ASSUME NEW p \in Procs, Write(p) PROVE RestoreInv'
  <2>1. proc[p].at = "save" /\ db' = db /\ dump' = dump
    BY <1>2 DEF Write
  <2>2. proc'["cli"].at \in {proc["cli"].at, "idle"}
    <3>1. CASE Tail(proc[p].todo) = <<>>
      BY <1>2, <3>1 DEF Write, Finish
    <3>2. CASE Tail(proc[p].todo) # <<>>
      BY <1>2, <3>2 DEF Write
    <3>. QED
      BY <3>1, <3>2
  <2>. QED
    BY <2>1, <2>2
<1>3. ASSUME NEW p \in Procs, WriteFails(p) PROVE RestoreInv'
  BY <1>3 DEF WriteFails, Fault, Finish
<1>4. ASSUME cmdInit PROVE RestoreInv'
  BY <1>4 DEF cmdInit, Begin
<1>5. ASSUME cmdChangePassword PROVE RestoreInv'
  BY <1>5 DEF cmdChangePassword, loadCombinedConfig, Begin
<1>6. ASSUME cmdDBDump PROVE RestoreInv'
  BY <1>6 DEF cmdDBDump, loadCombinedConfig, Begin
<1>7. ASSUME cmdDBRestore PROVE RestoreInv'
  BY <1>7 DEF cmdDBRestore, loadCombinedConfig, Begin
<1>8. ASSUME DumpColumn PROVE RestoreInv'
  BY <1>8 DEF DumpColumn
<1>9. ASSUME Dump PROVE RestoreInv'
  BY <1>9 DEF Dump, Finish
<1>10. ASSUME RestoreTruncate PROVE RestoreInv'
  BY <1>10 DEF RestoreTruncate
<1>11. ASSUME RestoreCopy PROVE RestoreInv'
  BY <1>11 DEF RestoreCopy, Goto
<1>12. ASSUME RestoreRemoveWAL PROVE RestoreInv'
  BY <1>12 DEF RestoreRemoveWAL, Finish
<1>13. ASSUME CommandDies PROVE RestoreInv'
  BY <1>13 DEF CommandDies, Fault, Finish
<1>14. ASSUME Serve PROVE RestoreInv'
  BY <1>14 DEF Serve
<1>15. ASSUME ServeColumn PROVE RestoreInv'
  BY <1>15 DEF ServeColumn
<1>16. ASSUME ServeOpened PROVE RestoreInv'
  BY <1>16 DEF ServeOpened
<1>17. ASSUME CannotOpen PROVE RestoreInv'
  BY <1>17 DEF CannotOpen
<1>18. ASSUME SeedScheduleJobSettings PROVE RestoreInv'
  BY <1>18 DEF SeedScheduleJobSettings
<1>19. ASSUME SeedFails PROVE RestoreInv'
  BY <1>19 DEF SeedFails, Fault
<1>20. ASSUME NewAgent PROVE RestoreInv'
  BY <1>20 DEF NewAgent
<1>21. ASSUME StartScheduler PROVE RestoreInv'
  BY <1>21 DEF StartScheduler
<1>22. ASSUME ServerDies PROVE RestoreInv'
  BY <1>22 DEF ServerDies, Fault
<1>23. ASSUME NEW h \in Handlers, handleChangePassword(h) PROVE RestoreInv'
  BY <1>23 DEF handleChangePassword, Accept
<1>24. ASSUME NEW h \in Handlers, handleUpdateConfig(h) PROVE RestoreInv'
  BY <1>24 DEF handleUpdateConfig, Accept
<1>25. ASSUME NEW h \in Handlers, Reload(h) PROVE RestoreInv'
  BY <1>25 DEF Reload, Goto
<1>26. ASSUME NEW h \in Handlers, ListSchedules(h) PROVE RestoreInv'
  BY <1>26 DEF ListSchedules
<1>27. ASSUME NEW h \in Handlers, ListFails(h) PROVE RestoreInv'
  BY <1>27 DEF ListFails, Fault, Finish
<1>28. ASSUME NEW h \in Handlers, loadSchedules(h) PROVE RestoreInv'
  BY <1>28 DEF loadSchedules, Finish
<1>29. ASSUME NEW h \in Handlers, NEW rows \in Edits, Change(h, rows) PROVE RestoreInv'
  BY <1>29 DEF Change, Accept
<1>30. ASSUME UNCHANGED svars PROVE RestoreInv'
  BY <1>30 DEF svars, keys
<1>31. ASSUME DumpCannotOpen PROVE RestoreInv'
  BY <1>31 DEF DumpCannotOpen, Finish
<1>. QED
  BY <1>1, <1>2, <1>3, <1>4, <1>5, <1>6, <1>7, <1>8, <1>9, <1>10, <1>11, <1>12,
    <1>13, <1>14, <1>15, <1>16, <1>17, <1>18, <1>19, <1>20, <1>21, <1>22, <1>23, <1>24,
    <1>25, <1>26, <1>27, <1>28, <1>29, <1>30, <1>31, NextSteps DEF Steps, Command, Start, Settle

\* What RestoredIsDump says of one step.
RestoreEnds ==
    proc["cli"].at \in {"copy", "unlog"} /\ proc'["cli"] = Idle /\ faults' = faults
        => db'.rows = dump.rows /\ Opened'.st = "whole"

LEMMA RestoreEndsStep == ServerTypeOK /\ HolderInv /\ TodoInv /\ RestoreInv
     /\ [ServerNext]_svars => RestoreEnds
<1>. SUFFICES ASSUME ServerTypeOK, HolderInv, TodoInv, RestoreInv, [ServerNext]_svars
     PROVE RestoreEnds
  OBVIOUS
<1>. USE ServerAssumption
<1>. USE DEF ServerTypeOK, HolderInv, TodoInv, RestoreInv, RestoreEnds, Procs, Processes,
         Servers, disk, keys, Idle, Down
<1>1. ASSUME NEW p \in Procs, Truncate(p) PROVE RestoreEnds
  BY <1>1 DEF Truncate
<1>2. ASSUME NEW p \in Procs, Write(p) PROVE RestoreEnds
  <2>. SUFFICES ASSUME proc["cli"].at \in {"copy", "unlog"}, proc'["cli"] = Idle PROVE FALSE
    BY DEF RestoreEnds
  <2>1. proc[p].at = "save" /\ p # "cli"
    BY <1>2 DEF Write
  <2>2. proc'["cli"] = proc["cli"]
    BY <1>2, <2>1 DEF Write, Finish
  <2>. QED
    BY <2>2
<1>3. ASSUME NEW p \in Procs, WriteFails(p) PROVE RestoreEnds
  BY <1>3 DEF WriteFails, Fault, Finish
<1>4. ASSUME cmdInit PROVE RestoreEnds
  BY <1>4 DEF cmdInit, Begin
<1>5. ASSUME cmdChangePassword PROVE RestoreEnds
  BY <1>5 DEF cmdChangePassword, loadCombinedConfig, Begin
<1>6. ASSUME cmdDBDump PROVE RestoreEnds
  BY <1>6 DEF cmdDBDump, loadCombinedConfig, Begin
<1>7. ASSUME cmdDBRestore PROVE RestoreEnds
  BY <1>7 DEF cmdDBRestore, loadCombinedConfig, Begin
<1>8. ASSUME DumpColumn PROVE RestoreEnds
  BY <1>8 DEF DumpColumn
<1>9. ASSUME Dump PROVE RestoreEnds
  BY <1>9 DEF Dump, Finish
<1>10. ASSUME RestoreTruncate PROVE RestoreEnds
  BY <1>10 DEF RestoreTruncate
<1>11. ASSUME RestoreCopy PROVE RestoreEnds
  BY <1>11 DEF RestoreCopy, Goto
<1>12. ASSUME RestoreRemoveWAL PROVE RestoreEnds
  BY <1>12 DEF RestoreRemoveWAL, Finish, Opened, Databases
<1>13. ASSUME CommandDies PROVE RestoreEnds
  BY <1>13 DEF CommandDies, Fault, Finish
<1>14. ASSUME Serve PROVE RestoreEnds
  BY <1>14 DEF Serve
<1>15. ASSUME ServeColumn PROVE RestoreEnds
  BY <1>15 DEF ServeColumn
<1>16. ASSUME ServeOpened PROVE RestoreEnds
  BY <1>16 DEF ServeOpened
<1>17. ASSUME CannotOpen PROVE RestoreEnds
  BY <1>17 DEF CannotOpen
<1>18. ASSUME SeedScheduleJobSettings PROVE RestoreEnds
  BY <1>18 DEF SeedScheduleJobSettings
<1>19. ASSUME SeedFails PROVE RestoreEnds
  BY <1>19 DEF SeedFails, Fault
<1>20. ASSUME NewAgent PROVE RestoreEnds
  BY <1>20 DEF NewAgent
<1>21. ASSUME StartScheduler PROVE RestoreEnds
  BY <1>21 DEF StartScheduler
<1>22. ASSUME ServerDies PROVE RestoreEnds
  BY <1>22 DEF ServerDies, Fault
<1>23. ASSUME NEW h \in Handlers, handleChangePassword(h) PROVE RestoreEnds
  BY <1>23 DEF handleChangePassword, Accept
<1>24. ASSUME NEW h \in Handlers, handleUpdateConfig(h) PROVE RestoreEnds
  BY <1>24 DEF handleUpdateConfig, Accept
<1>25. ASSUME NEW h \in Handlers, Reload(h) PROVE RestoreEnds
  BY <1>25 DEF Reload, Goto
<1>26. ASSUME NEW h \in Handlers, ListSchedules(h) PROVE RestoreEnds
  BY <1>26 DEF ListSchedules
<1>27. ASSUME NEW h \in Handlers, ListFails(h) PROVE RestoreEnds
  BY <1>27 DEF ListFails, Fault, Finish
<1>28. ASSUME NEW h \in Handlers, loadSchedules(h) PROVE RestoreEnds
  BY <1>28 DEF loadSchedules, Finish
<1>29. ASSUME NEW h \in Handlers, NEW rows \in Edits, Change(h, rows) PROVE RestoreEnds
  BY <1>29 DEF Change, Accept
<1>30. ASSUME UNCHANGED svars PROVE RestoreEnds
  BY <1>30 DEF svars, keys
<1>31. ASSUME DumpCannotOpen PROVE RestoreEnds
  BY <1>31 DEF DumpCannotOpen
<1>. QED
  BY <1>1, <1>2, <1>3, <1>4, <1>5, <1>6, <1>7, <1>8, <1>9, <1>10, <1>11, <1>12,
    <1>13, <1>14, <1>15, <1>16, <1>17, <1>18, <1>19, <1>20, <1>21, <1>22, <1>23, <1>24,
    <1>25, <1>26, <1>27, <1>28, <1>29, <1>30, <1>31, NextSteps DEF Steps, Command, Start, Settle

-----------------------------------------------------------------------------
(* The theorems *)

ServerInv ==
    /\ ServerTypeOK /\ PhaseInv /\ SaltInv /\ InHandInv /\ LoadInv /\ SettingsInv
    /\ RestoreInv

LEMMA ServerInvInit == ServerInit => ServerInv
<1>. SUFFICES ASSUME ServerInit PROVE ServerInv
  OBVIOUS
<1>. USE ServerAssumption, LegacyAssumption, RowsType, IdleType, FilesType
<1>1. /\ proc = [p \in Procs |-> Idle] /\ server = Down /\ sched = NoCron
      /\ wal = "none" /\ dump = NoImage /\ lost = FALSE /\ requests = 0 /\ faults = 0
      /\ reinit = FALSE
  BY DEF ServerInit
<1>2. /\ Down.at = "down" /\ Down.migrated = FALSE /\ NoCron.holder = "nobody"
      /\ NoCron.started = FALSE /\ NoImage.rows = NoEntries /\ NoImage.cols = 0
  BY DEF Down, NoCron, NoImage
<1>3. "cli" \in Procs /\ Handlers \subseteq Procs
  BY DEF Procs
<1>4. /\ files \in [Paths -> Contents] /\ salt \in 0 .. MaxSalts
      /\ files["secrets"] = Absent
      /\ salt = 0 => files["config"] = Absent
      /\ salt # 0 => salt = 1 /\ files["config"] = Whole(1, TRUE)
  <2>1. 0 \in 0 .. MaxSalts /\ 1 \in 0 .. MaxSalts
    BY ConfigFilesAssumption
  <2>2. Absent \in Contents /\ Whole(1, TRUE) \in Contents
    BY <2>1 DEF Absent
  <2>3. CASE Nothing
    BY <2>1, <2>2, <2>3 DEF Nothing, Paths
  <2>4. CASE Legacy
    <3>1. files = [p \in Paths |-> IF p = "config" THEN Whole(1, TRUE) ELSE Absent]
      BY <2>4 DEF Legacy
    <3>2. files["config"] = Whole(1, TRUE) /\ files["secrets"] = Absent
      BY <3>1 DEF Paths
    <3>3. files \in [Paths -> Contents]
      BY <2>2, <3>1
    <3>4. salt = 1
      BY <2>4 DEF Legacy
    <3>. QED
      BY <2>1, <3>2, <3>3, <3>4
  <2>. QED
    BY <2>3, <2>4 DEF ServerInit
<1>5. /\ db \in Databases /\ db.st = "whole"
      /\ \/ db.cols = Columns /\ db.rows = NoEntries
         \/ db.cols = 0 /\ salt = 1
  <2>1. 0 \in 0 .. Columns /\ Columns \in 0 .. Columns
    OBVIOUS
  <2>2. CASE Nothing
    BY <2>1, <2>2 DEF Nothing, Databases
  <2>3. CASE Legacy
    BY <2>1, <2>3 DEF Legacy, Databases
  <2>. QED
    BY <2>2, <2>3 DEF ServerInit
<1>6. ServerTypeOK
  <2>1. NoCron \in Crons
    BY RunningType
  <2>2. NoImage \in Images
    BY DEF NoImage, Images
  <2>3. \A p \in Procs : proc[p].at = "save" <=> proc[p].todo # <<>>
    BY <1>1
  <2>4. lost \in BOOLEAN /\ reinit \in BOOLEAN
    BY <1>1
  <2>5. requests \in 0 .. MaxRequests /\ faults \in 0 .. MaxFaults
    BY <1>1
  <2>6. server \in Servers /\ proc \in [Procs -> Processes] /\ sched \in Crons /\ dump \in Images
    BY <1>1, <2>1, <2>2
  <2>. QED
    BY <1>1, <1>4, <1>5, <2>3, <2>4, <2>5, <2>6 DEF ServerTypeOK
<1>7. PhaseInv
  <2>1. TodoInv
    BY <1>1, <1>3 DEF TodoInv
  <2>2. HolderInv
    BY <1>1, <1>2, <1>3 DEF HolderInv
  <2>3. OpenInv
    BY <1>1, <1>2 DEF OpenInv
  <2>. QED
    BY <2>1, <2>2, <2>3 DEF PhaseInv
<1>8. SaltInv
  <2>1. /\ Absent.st = "absent" /\ Absent.salt = 0
        /\ Whole(1, TRUE).st = "whole" /\ Whole(1, TRUE).salt = 1
    BY DEF Absent, NotWhole, Whole
  <2>2. server.conf.salt = 0 /\ server.at = "down"
    BY <1>1 DEF Down, NoConf
  <2>3. \A p \in Procs : proc[p].at = "idle"
    BY <1>1
  <2>4. files["secrets"].salt = 0 /\ files["secrets"].st = "absent"
    BY <1>4, <2>1
  <2>5. files["config"].salt \in {0, salt} /\ (salt # 0 => files["config"].st = "whole"
            /\ files["config"].salt = salt)
    BY <1>4, <2>1
  <2>. QED
    BY <1>3, <2>2, <2>3, <2>4, <2>5 DEF SaltInv
<1>12. InHandInv
  BY <1>4 DEF InHandInv, Absent, NotWhole
<1>9. LoadInv
  BY <1>1, <1>2, <1>3 DEF LoadInv, ReloadInv, EntriesCurrent
<1>10. SettingsInv
  <2>1. Seeded(NoEntries)
    BY DEF Seeded, NoEntries
  <2>2. <<"config", "secrets">> # <<>>
    OBVIOUS
  <2>3. db.cols < Columns => files["config"] = Whole(1, TRUE)
    <3>1. db.cols < Columns => db.cols # Columns
      BY <1>5
    <3>2. db.cols < Columns => salt # 0
      BY <1>5, <3>1
    <3>. QED
      BY <1>4, <3>2, Zenon
  <2>4. server.at = "down" /\ server.migrated = FALSE
    BY <1>1, <1>2
  <2>5. proc["cli"].at = "idle" /\ proc["cli"].todo = <<>>
    BY <1>1, <1>3
  <2>6. Seeded(dump.rows) /\ (db.cols = Columns => Seeded(db.rows))
    BY <1>1, <1>2, <1>5, <2>1
  <2>. QED
    BY <1>1, <2>2, <2>3, <2>4, <2>5, <2>6 DEF SettingsInv
<1>11. RestoreInv
  BY <1>1, <1>3 DEF RestoreInv
<1>. QED
  BY <1>6, <1>7, <1>8, <1>9, <1>10, <1>11, <1>12 DEF ServerInv

LEMMA ServerInvStep == ServerInv /\ [ServerNext]_svars => ServerInv'
  BY TypeStep, TodoStep, HolderStep, OpenStep, SaltStep, InHandStep, LoadStep, SettingsStep,
     RestoreStep
     DEF ServerInv, PhaseInv

\* The conjuncts of ServerInv together are inductive.
THEOREM ServerInvariant == ServerSpec => []ServerInv
  BY ServerInvInit, ServerInvStep, PTL DEF ServerSpec

\* Every variable of the server holds a value of its type, and who saves has
\* something to save.
THEOREM ServerTypeCorrect == ServerSpec => []ServerTypeOK
<1>1. ServerInv => ServerTypeOK
  BY DEF ServerInv
<1>. QED
  BY <1>1, ServerInvariant, PTL

\* Until init is run a second time the key salt is not lost with config.json, for
\* any number of requests that save at once: it is in a file, or in the hands of
\* somebody who has opened secrets.json to write it, unless a writer failed or died
\* there or two writers overlapped.
THEOREM SaltOnDiskHolds == ServerSpec => []SaltOnDisk
<1>1. ServerInv => SaltOnDisk
  <2>. SUFFICES ASSUME ServerInv, salt # 0, ~reinit, files["secrets"].st # "garbled",
                       ~(files["secrets"].st = "empty" /\ faults > 0)
                PROVE  salt \in Readable(files) \/ SaltInHand
    BY DEF SaltOnDisk
  <2>1. files["secrets"] \in Contents /\ files["config"] \in Contents /\ faults \in Nat
    BY DEF ServerInv, ServerTypeOK, Paths
  <2>2. ASSUME NEW q \in Paths, files[q].st = "whole", files[q].salt = salt
        PROVE  salt \in Readable(files)
    BY <2>2 DEF Readable
  <2>3. CASE files["secrets"].st = "whole"
    BY <2>2, <2>3 DEF ServerInv, SaltInv, Paths
  <2>4. CASE files["secrets"].st = "absent"
    BY <2>2, <2>4 DEF ServerInv, SaltInv, Paths
  <2>5. CASE files["secrets"].st = "empty"
    <3>1. faults = 0
      BY <2>1, <2>5
    <3>2. PICK p \in Procs :
              proc[p].at = "save" /\ proc[p].opened /\ Head(proc[p].todo) = "secrets"
      BY <2>5, <3>1 DEF ServerInv, InHandInv
    <3>3. CASE p = "cli"
      BY <3>2, <3>3 DEF ServerInv, SaltInv, SaltInHand, ConfOf
    <3>4. CASE p \in Handlers
      <4>1. server.at = "up"
        BY <3>2, <3>4 DEF ServerInv, PhaseInv, HolderInv
      <4>2. server.conf.salt = salt
        BY <4>1 DEF ServerInv, SaltInv
      <4>. QED
        BY <3>2, <3>4, <4>2, ServerAssumption DEF SaltInHand, ConfOf
    <3>. QED
      BY <3>2, <3>3, <3>4 DEF Procs
  <2>. QED
    BY <2>1, <2>3, <2>4, <2>5 DEF Contents
<1>. QED
  BY <1>1, ServerInvariant, PTL

\* Whatever order overlapping requests commit and reload in, the cron that runs
\* has the schedules of the database once every change has been reloaded.
THEOREM EntriesCurrentHolds == ServerSpec => []EntriesCurrent
<1>1. ServerInv => EntriesCurrent
  BY DEF ServerInv, LoadInv
<1>. QED
  BY <1>1, ServerInvariant, PTL

\* The settings of the old config.json reach every schedule, however many
\* columns the migration adds and wherever earlier starts stopped in it.
THEOREM SettingsKeptHolds == ServerSpec => []SettingsKept
<1>1. ServerInv => SettingsKept
  BY DEF ServerInv, PhaseInv, OpenInv, SettingsInv, Seeded, SettingsKept
<1>. QED
  BY <1>1, ServerInvariant, PTL

\* A restore that ends by itself leaves the dump alone: no WAL of the database
\* it replaced is there to be replayed into it.
THEOREM RestoredIsDumpHolds == ServerSpec => RestoredIsDump
<1>1. ServerInv /\ [ServerNext]_svars => [RestoreEnds]_svars
  BY RestoreEndsStep DEF ServerInv, PhaseInv
<1>2. ServerSpec => [][RestoreEnds]_svars
  BY <1>1, ServerInvariant, PTL DEF ServerSpec
<1>3. [RestoreEnds]_svars => [
    proc["cli"].at \in {"copy", "unlog"} /\ proc'["cli"] = Idle /\ faults' = faults
        => db'.rows = dump.rows /\ Opened'.st = "whole"]_svars
  BY DEF RestoreEnds
<1>. QED
  BY <1>2, <1>3, PTL DEF RestoredIsDump

-----------------------------------------------------------------------------
(* Progress.  What is at work can make a step that is not a fault, or waits  *)
(* for one that can, and it takes finitely many steps.                       *)

\* The steps of a request or of the command, after the one that begins it.
OfSave(p) == Truncate(p) \/ Write(p) \/ WriteFails(p)
OfCommand ==
    \/ DumpColumn \/ Dump \/ DumpCannotOpen \/ CommandDies
    \/ RestoreTruncate \/ RestoreCopy \/ RestoreRemoveWAL
StepOf(p) == OfSave(p) \/ (p = "cli" /\ OfCommand) \/ (p \in Handlers /\ Settle(p))

\* How many of them can be left.
Rank == [idle |-> 0, save |-> 0, columns |-> 1, copy |-> 2, unlog |-> 1,
         reload |-> 3, list |-> 2, load |-> 1]
LeftOf(r, cols) ==
    Rank[r.at] + 2 * Len(r.todo)
        + (IF r.at \in {"save", "copy"} /\ r.opened = FALSE THEN 1 ELSE 0)
        + (IF r.at = "columns" THEN Columns - cols ELSE 0)
Left(p) == LeftOf(proc[p], db.cols)

CommandSteps == {"save", "columns", "copy", "unlog"}
RequestSteps == {"save", "reload", "list", "load"}
StepsOf(p) == IF p = "cli" THEN CommandSteps ELSE RequestSteps

\* Who is idle has nothing left from before, and the command is no request.
ProcInv ==
    \A p \in Procs : proc[p] = Idle \/ proc[p].at \in StepsOf(p)

LEMMA LenOf ==
    /\ Len(<<>>) = 0
    /\ \A t \in Todos : Len(t) \in Nat /\ (t # <<>> => Len(t) > 0 /\ Len(Tail(t)) = Len(t) - 1)
  BY DEF Todos

LEMMA LeftAt ==
    ASSUME NEW r, NEW cols \in 0 .. Columns, r.todo \in Todos
    PROVE  /\ r = Idle => LeftOf(r, cols) = 0
           /\ r.at = "save" /\ r.opened = FALSE => LeftOf(r, cols) = 1 + 2 * Len(r.todo)
           /\ r.at = "save" /\ r.opened = TRUE => LeftOf(r, cols) = 2 * Len(r.todo)
           /\ r.at = "copy" /\ r.opened = FALSE => LeftOf(r, cols) = 3 + 2 * Len(r.todo)
           /\ r.at = "copy" /\ r.opened = TRUE => LeftOf(r, cols) = 2 + 2 * Len(r.todo)
           /\ r.at = "columns" => LeftOf(r, cols) = 1 + 2 * Len(r.todo) + (Columns - cols)
           /\ r.at = "unlog" => LeftOf(r, cols) = 1 + 2 * Len(r.todo)
           /\ r.at = "reload" => LeftOf(r, cols) = 3 + 2 * Len(r.todo)
           /\ r.at = "list" => LeftOf(r, cols) = 2 + 2 * Len(r.todo)
           /\ r.at = "load" => LeftOf(r, cols) = 1 + 2 * Len(r.todo)
  <1>1. Len(r.todo) \in Nat /\ Columns - cols \in Nat
    BY LenOf, ServerAssumption
  <1>2. /\ Rank["idle"] = 0 /\ Rank["save"] = 0 /\ Rank["columns"] = 1
        /\ Rank["copy"] = 2 /\ Rank["unlog"] = 1 /\ Rank["reload"] = 3
        /\ Rank["list"] = 2 /\ Rank["load"] = 1
    BY DEF Rank
  <1>3. r = Idle => r.at = "idle" /\ Len(r.todo) = 0
    BY IdleType, LenOf
  <1>. HIDE DEF Rank
  <1>. USE <1>1, <1>2 DEF LeftOf
  <1>4. r.at = "idle" => LeftOf(r, cols) = 2 * Len(r.todo)
    OBVIOUS
  <1>5. r = Idle => LeftOf(r, cols) = 0
    BY <1>3, <1>4
  <1>6. r.at = "save" /\ r.opened = FALSE => LeftOf(r, cols) = 1 + 2 * Len(r.todo)
    OBVIOUS
  <1>7. r.at = "save" /\ r.opened = TRUE => LeftOf(r, cols) = 2 * Len(r.todo)
    OBVIOUS
  <1>8. r.at = "copy" /\ r.opened = FALSE => LeftOf(r, cols) = 3 + 2 * Len(r.todo)
    OBVIOUS
  <1>9. r.at = "copy" /\ r.opened = TRUE => LeftOf(r, cols) = 2 + 2 * Len(r.todo)
    OBVIOUS
  <1>10. r.at = "columns" => LeftOf(r, cols) = 1 + 2 * Len(r.todo) + (Columns - cols)
    OBVIOUS
  <1>11. r.at = "unlog" => LeftOf(r, cols) = 1 + 2 * Len(r.todo)
    OBVIOUS
  <1>12. r.at = "reload" => LeftOf(r, cols) = 3 + 2 * Len(r.todo)
    OBVIOUS
  <1>13. r.at = "list" => LeftOf(r, cols) = 2 + 2 * Len(r.todo)
    OBVIOUS
  <1>14. r.at = "load" => LeftOf(r, cols) = 1 + 2 * Len(r.todo)
    OBVIOUS
  <1>. HIDE DEF LeftOf
  <1>. QED
    BY <1>5, <1>6, <1>7, <1>8, <1>9, <1>10, <1>11, <1>12, <1>13, <1>14, Zenon

LEMMA LeftType ==
    ASSUME ServerTypeOK, ProcInv, NEW p \in Procs
    PROVE  Left(p) \in Nat /\ (proc[p] # Idle => Left(p) > 0)
  <1>1. /\ db.cols \in 0 .. Columns /\ Columns \in Nat
        /\ proc[p].todo \in Todos /\ proc[p].opened \in BOOLEAN
        /\ proc[p].at = "save" => proc[p].todo # <<>>
    BY ServerAssumption DEF ServerTypeOK, Databases, Processes
  <1>2. /\ Len(proc[p].todo) \in Nat
        /\ proc[p].at = "save" => Len(proc[p].todo) > 0
    BY <1>1, LenOf
  <1>3. CASE proc[p] = Idle
    <2>1. Left(p) = 0
      BY <1>1, <1>3, LeftAt, Zenon DEF Left
    <2>. QED BY <1>3, <2>1
  <1>4. CASE proc[p].at \in CommandSteps \cup RequestSteps
    <2>. DEFINE n == Len(proc[p].todo)
    <2>1. proc[p].at \in {"save", "copy", "columns", "unlog", "reload", "list", "load"}
      BY <1>4 DEF CommandSteps, RequestSteps
    <2>2. proc[p].opened = TRUE \/ proc[p].opened = FALSE
      BY <1>1
    <2>3. \/ proc[p].at = "save" /\ Left(p) \in {1 + 2 * n, 2 * n}
          \/ Left(p) \in {1 + 2 * n, 2 + 2 * n, 3 + 2 * n, 1 + 2 * n + (Columns - db.cols)}
      BY <1>1, <2>1, <2>2, LeftAt, Zenon DEF Left
    <2>4. n \in Nat /\ Columns - db.cols \in Nat /\ (proc[p].at = "save" => n > 0)
      BY <1>1, <1>2
    <2>. HIDE DEF n
    <2>. QED BY <2>3, <2>4
  <1>. QED BY <1>3, <1>4 DEF ProcInv, StepsOf

\* A step of p brings p nearer to its end and is a step of nobody else.
LEMMA OwnStep ==
    ASSUME ServerInv, ProcInv, NEW p \in Procs, StepOf(p)
    PROVE  /\ Left(p)' < Left(p)
           /\ proc'[p] = Idle \/ proc'[p].at \in StepsOf(p)
           /\ \A q \in Procs : q # p => proc'[q] = proc[q]
  <1>0. /\ ServerTypeOK /\ TodoInv /\ proc \in [Procs -> Processes]
        /\ proc[p] \in Processes /\ proc[p].todo \in Todos
        /\ db.cols \in 0 .. Columns /\ Columns \in Nat
        /\ proc'[p].todo \in Todos /\ db'.cols \in 0 .. Columns
    <2>1. [ServerNext]_svars
      BY DEF StepOf, OfSave, OfCommand, ServerNext, Saving, Command, Web
    <2>2. ServerTypeOK /\ ServerTypeOK' /\ TodoInv
      BY <2>1, TypeStep DEF ServerInv, PhaseInv
    <2>. QED BY <2>2, ServerAssumption DEF ServerTypeOK, Databases, Processes
  <1>1. Left(p) \in Nat /\ (proc[p] # Idle => Left(p) > 0)
    BY LeftType DEF ServerInv
  <1>2. ASSUME proc' = [proc EXCEPT ![p] = Idle], proc[p] # Idle
        PROVE  /\ Left(p)' < Left(p) /\ proc'[p] = Idle
               /\ \A q \in Procs : q # p => proc'[q] = proc[q]
    <2>1. proc'[p] = Idle
      BY <1>0, <1>2
    <2>2. Left(p)' = 0
      BY <1>0, <2>1, LeftAt, Zenon DEF Left
    <2>. QED BY <1>0, <1>1, <1>2, <2>1, <2>2
  <1>3. ASSUME proc[p].at # "idle" PROVE proc[p] # Idle
    BY <1>3, IdleType
  <1>4. ASSUME Truncate(p)
        PROVE  /\ Left(p)' < Left(p) /\ proc'[p].at \in StepsOf(p)
               /\ \A q \in Procs : q # p => proc'[q] = proc[q]
    <2>1. proc[p].at = "save" /\ proc[p].opened = FALSE
      BY <1>0, <1>4 DEF Truncate, Processes
    <2>2. /\ proc'[p].at = "save" /\ proc'[p].opened = TRUE /\ proc'[p].todo = proc[p].todo
          /\ \A q \in Procs : q # p => proc'[q] = proc[q]
      BY <1>0, <1>4, <2>1 DEF Truncate, Processes
    <2>3. Left(p) = 1 + 2 * Len(proc[p].todo) /\ Left(p)' = 2 * Len(proc'[p].todo)
      BY <1>0, <2>1, <2>2, LeftAt, Zenon DEF Left
    <2>. QED
      BY <1>0, <2>2, <2>3, LenOf DEF StepsOf, CommandSteps, RequestSteps
  <1>5. ASSUME Write(p)
        PROVE  /\ Left(p)' < Left(p)
               /\ proc'[p] = Idle \/ proc'[p].at \in StepsOf(p)
               /\ \A q \in Procs : q # p => proc'[q] = proc[q]
    <2>1. proc[p].at = "save" /\ proc[p].opened = TRUE /\ proc[p].todo # <<>>
      BY <1>0, <1>5 DEF Write, Processes, ServerTypeOK
    <2>2. CASE Tail(proc[p].todo) = <<>>
      BY <1>2, <1>3, <1>5, <2>1, <2>2 DEF Write, Finish
    <2>3. CASE Tail(proc[p].todo) # <<>>
      <3>1. /\ proc'[p].at = "save" /\ proc'[p].opened = FALSE
            /\ proc'[p].todo = Tail(proc[p].todo)
            /\ \A q \in Procs : q # p => proc'[q] = proc[q]
        BY <1>0, <1>5, <2>1, <2>3 DEF Write, Processes
      <3>2. /\ Left(p) = 2 * Len(proc[p].todo)
            /\ Left(p)' = 1 + 2 * Len(proc'[p].todo)
        BY <1>0, <2>1, <3>1, LeftAt, Zenon DEF Left
      <3>. QED
        BY <1>0, <2>1, <3>1, <3>2, LenOf DEF StepsOf, CommandSteps, RequestSteps
    <2>. QED BY <2>2, <2>3
  <1>7. ASSUME p = "cli", DumpColumn
        PROVE  Left(p)' < Left(p) /\ proc' = proc /\ proc[p].at \in StepsOf(p)
    <2>1. db'.cols = db.cols + 1 /\ proc' = proc /\ proc[p].at = "columns"
      BY <1>0, <1>7, ColumnAdded DEF DumpColumn, ServerTypeOK
    <2>2. Left(p) = 1 + 2 * Len(proc[p].todo) + (Columns - db.cols)
      BY <1>0, <2>1, LeftAt, Zenon DEF Left
    <2>3. Left(p)' = 1 + 2 * Len(proc'[p].todo) + (Columns - db'.cols)
      BY <1>0, <2>1, LeftAt, Zenon DEF Left
    <2>4. proc[p].at \in StepsOf(p)
      BY <1>7, <2>1 DEF StepsOf, CommandSteps
    <2>. QED BY <1>0, <2>1, <2>2, <2>3, <2>4, LenOf
  <1>8. CASE p = "cli" /\ (Dump \/ DumpCannotOpen \/ CommandDies \/ RestoreRemoveWAL)
    <2>1. proc' = [proc EXCEPT ![p] = Idle] /\ proc[p] # Idle
      BY <1>8, IdleType DEF Dump, DumpCannotOpen, CommandDies, RestoreRemoveWAL, Finish
    <2>. QED BY <1>2, <2>1
  <1>9. ASSUME p = "cli", RestoreTruncate
        PROVE  /\ Left(p)' < Left(p) /\ proc'[p].at \in StepsOf(p)
               /\ \A q \in Procs : q # p => proc'[q] = proc[q]
    <2>1. /\ proc[p].at = "copy" /\ proc[p].opened = FALSE /\ proc[p].todo = <<>>
          /\ proc'[p].at = "copy" /\ proc'[p].opened = TRUE /\ proc'[p].todo = <<>>
          /\ \A q \in Procs : q # p => proc'[q] = proc[q]
      BY <1>0, <1>9 DEF RestoreTruncate, Processes, ServerTypeOK
    <2>2. /\ Left(p) = 3 + 2 * Len(proc[p].todo)
          /\ Left(p)' = 2 + 2 * Len(proc'[p].todo)
      BY <1>0, <2>1, LeftAt, Zenon DEF Left
    <2>3. Len(proc[p].todo) = 0 /\ Len(proc'[p].todo) = 0
      BY <2>1, LenOf
    <2>4. Left(p)' < Left(p)
      BY <2>2, <2>3
    <2>5. proc'[p].at \in StepsOf(p)
      BY <1>9, <2>1 DEF StepsOf, CommandSteps
    <2>. QED BY <2>1, <2>4, <2>5
  <1>10. ASSUME p = "cli", RestoreCopy
        PROVE  /\ Left(p)' < Left(p) /\ proc'[p].at \in StepsOf(p)
               /\ \A q \in Procs : q # p => proc'[q] = proc[q]
    <2>1. /\ proc[p].at = "copy" /\ proc[p].opened = TRUE /\ proc[p].todo = <<>>
          /\ proc'[p].at = "unlog" /\ proc'[p].todo = <<>>
          /\ \A q \in Procs : q # p => proc'[q] = proc[q]
      BY <1>0, <1>10 DEF RestoreCopy, Goto, Processes, ServerTypeOK
    <2>2. /\ Left(p) = 2 + 2 * Len(proc[p].todo)
          /\ Left(p)' = 1 + 2 * Len(proc'[p].todo)
      BY <1>0, <2>1, LeftAt, Zenon DEF Left
    <2>3. Left(p)' < Left(p)
      BY <2>1, <2>2, LenOf
    <2>. QED BY <1>10, <2>1, <2>3 DEF StepsOf, CommandSteps
  <1>11. ASSUME p \in Handlers, Reload(p) \/ ListSchedules(p)
         PROVE  /\ Left(p)' < Left(p) /\ proc'[p].at \in StepsOf(p)
                /\ \A q \in Procs : q # p => proc'[q] = proc[q]
    <2>1. /\ proc[p].todo = <<>> /\ proc'[p].todo = <<>>
          /\ \A q \in Procs : q # p => proc'[q] = proc[q]
          /\ \/ proc[p].at = "reload" /\ proc'[p].at = "list"
             \/ proc[p].at = "list" /\ proc'[p].at = "load"
      BY <1>0, <1>11 DEF Reload, ListSchedules, Goto, Processes, ServerTypeOK
    <2>2. \/ /\ Left(p) = 3 + 2 * Len(proc[p].todo)
             /\ Left(p)' = 2 + 2 * Len(proc'[p].todo)
          \/ /\ Left(p) = 2 + 2 * Len(proc[p].todo)
             /\ Left(p)' = 1 + 2 * Len(proc'[p].todo)
      BY <1>0, <2>1, LeftAt, Zenon DEF Left
    <2>3. Left(p)' < Left(p)
      BY <2>1, <2>2, LenOf
    <2>. QED BY <1>11, <2>1, <2>3, ServerAssumption DEF StepsOf, RequestSteps
  <1>12. CASE p \in Handlers /\ (ListFails(p) \/ loadSchedules(p))
    <2>1. proc' = [proc EXCEPT ![p] = Idle] /\ proc[p].at # "idle"
      BY <1>12 DEF ListFails, loadSchedules, Finish
    <2>. QED BY <1>2, <1>3, <2>1
  <1>13. CASE OfSave(p)
    <2>1. WriteFails(p) => proc' = [proc EXCEPT ![p] = Idle] /\ proc[p].at # "idle"
      BY DEF WriteFails, Finish
    <2>. QED BY <1>2, <1>3, <1>4, <1>5, <1>13, <2>1 DEF OfSave
  <1>14. CASE p = "cli" /\ OfCommand
    BY <1>7, <1>8, <1>9, <1>10, <1>14 DEF OfCommand
  <1>15. CASE p \in Handlers /\ Settle(p)
    BY <1>11, <1>12, <1>15 DEF Settle
  <1>. QED BY <1>13, <1>14, <1>15 DEF StepOf

\* Any other step leaves p where it is, ends it, or begins it when it is idle.
LEMMA OtherStep ==
    ASSUME ServerInv, ProcInv, [ServerNext]_svars, NEW p \in Procs, ~StepOf(p)
    PROVE  \/ /\ proc'[p] = proc[p]
              /\ proc[p].at = "columns" => db.cols <= db'.cols
           \/ proc'[p] = Idle
           \/ /\ proc[p] = Idle /\ proc'[p].at \in StepsOf(p)
              /\ requests' = requests + 1
  <1>. DEFINE Stays == /\ proc'[p] = proc[p]
                       /\ proc[p].at = "columns" => db.cols <= db'.cols
              Begins == /\ proc[p] = Idle /\ proc'[p].at \in StepsOf(p)
                        /\ requests' = requests + 1
  <1>0. /\ ServerTypeOK /\ proc \in [Procs -> Processes] /\ db \in Databases
        /\ db.cols \in 0 .. Columns /\ Columns \in Nat
        /\ Procs = Handlers \cup {"cli"} /\ "cli" \notin Handlers
    BY ServerAssumption DEF ServerInv, ServerTypeOK, Databases, Procs
  <1>1. ASSUME proc' = proc, db'.cols = db.cols PROVE Stays
    BY <1>0, <1>1
  <1>2. ASSUME NEW h \in Procs, StepOf(h) PROVE Stays
    <2>1. h # p /\ proc'[p] = proc[p]
      BY <1>2, OwnStep
    <2>2. ASSUME proc[p].at = "columns" PROVE db' = db
      <3>1. p = "cli" /\ h \in Handlers
        BY <1>0, <2>1, <2>2, IdleType DEF ProcInv, StepsOf, RequestSteps
      <3>2. OfSave(h) \/ Settle(h)
        BY <1>0, <1>2, <3>1 DEF StepOf
      <3>. QED
        BY <3>2 DEF OfSave, Truncate, Write, WriteFails, Settle, Reload, ListSchedules,
                    ListFails, loadSchedules, disk, keys
    <2>. QED BY <1>0, <2>1, <2>2
  <1>3. ASSUME NEW q \in Procs, NEW r, proc[q] = Idle, r.at \in StepsOf(q),
               proc' = [proc EXCEPT ![q] = r], requests' = requests + 1, db'.cols = db.cols
        PROVE  Stays \/ Begins
    <2>1. CASE q = p
      BY <1>0, <1>3, <2>1
    <2>2. CASE q # p
      BY <1>0, <1>3, <2>2
    <2>. QED BY <2>1, <2>2
  <1>4. ASSUME NEW r \in Processes, Begin(r), r.at \in CommandSteps, UNCHANGED db
        PROVE  Stays \/ Begins
    BY <1>0, <1>3, <1>4 DEF Begin, Request, StepsOf
  <1>5. ASSUME cmdInit PROVE Stays \/ Begins
    <2>0. PICK s \in Salts \ {salt} :
              Begin([Idle EXCEPT !.at = "save", !.todo = <<"config", "secrets">>,
                                 !.conf = [salt |-> s, legacy |-> FALSE]])
      BY <1>5 DEF cmdInit
    <2>. DEFINE r == [Idle EXCEPT !.at = "save", !.todo = <<"config", "secrets">>,
                                  !.conf = [salt |-> s, legacy |-> FALSE]]
    <2>1. [salt |-> s, legacy |-> FALSE] \in Confs /\ <<"config", "secrets">> \in Todos \ {<<>>}
      BY EntryNonempty, ConfigFilesAssumption DEF Confs, Salts
    <2>2. r \in Processes /\ r.at = "save"
      BY <2>1, SaveType, ZenonT(60)
    <2>3. Begin(r) /\ UNCHANGED db
      BY <1>5, <2>0 DEF cmdInit, disk, keys
    <2>. HIDE DEF r
    <2>. QED BY <1>4, <2>2, <2>3 DEF CommandSteps
  <1>6. ASSUME cmdChangePassword PROVE Stays \/ Begins
    <2>. DEFINE r == [Idle EXCEPT !.at = "save", !.todo = <<"secrets">>,
                                  !.conf = LoadCombined(files)]
    <2>1. LoadCombined(files) \in Confs /\ <<"secrets">> \in Todos \ {<<>>}
      BY <1>0, FilesType, EntryNonempty DEF ServerTypeOK
    <2>2. r \in Processes /\ r.at = "save"
      BY <2>1, SaveType, ZenonT(60)
    <2>3. Begin(r) /\ UNCHANGED db
      BY <1>6 DEF cmdChangePassword, loadCombinedConfig, disk, keys
    <2>. HIDE DEF r
    <2>. QED BY <1>4, <2>2, <2>3 DEF CommandSteps
  <1>7. ASSUME cmdDBDump \/ cmdDBRestore PROVE Stays \/ Begins
    <2>. DEFINE r == [Idle EXCEPT !.at = "columns"]
                s == [Idle EXCEPT !.at = "copy"]
    <2>1. r \in Processes /\ s \in Processes /\ r.at = "columns" /\ s.at = "copy"
      BY IdleType DEF Processes
    <2>2. (Begin(r) \/ Begin(s)) /\ UNCHANGED db
      BY <1>7 DEF cmdDBDump, cmdDBRestore, loadCombinedConfig, disk, keys
    <2>. HIDE DEF r, s
    <2>. QED BY <1>4, <2>1, <2>2 DEF CommandSteps
  <1>8. ASSUME NEW h \in Handlers, NEW r \in Processes, Accept(h, r), r.at \in RequestSteps,
               db'.cols = db.cols
        PROVE  Stays \/ Begins
    BY <1>0, <1>3, <1>8 DEF Accept, Request, StepsOf
  <1>9. ASSUME NEW h \in Handlers, handleChangePassword(h) \/ handleUpdateConfig(h)
        PROVE  Stays \/ Begins
    <2>1. ASSUME NEW t \in Todos \ {<<>>},
                 Accept(h, [Idle EXCEPT !.at = "save", !.todo = t]), UNCHANGED db
          PROVE  Stays \/ Begins
      <3>. DEFINE r == [Idle EXCEPT !.at = "save", !.todo = t]
      <3>1. r \in Processes /\ r.at = "save"
        BY IdleType, SaveType
      <3>2. Accept(h, r) /\ UNCHANGED db
        BY <2>1
      <3>. HIDE DEF r
      <3>. QED BY <1>8, <3>1, <3>2 DEF RequestSteps
    <2>2. Saves \in Todos \ {<<>>} /\ <<"secrets">> \in Todos \ {<<>>}
      BY EntryNonempty DEF Saves
    <2>. QED
      BY <1>9, <2>1, <2>2 DEF handleChangePassword, handleUpdateConfig, disk, keys
  <1>10. ASSUME NEW h \in Handlers, NEW rows \in Edits, Change(h, rows) PROVE Stays \/ Begins
    <2>. DEFINE r == [Idle EXCEPT !.at = "reload"]
    <2>1. r \in Processes /\ r.at = "reload"
      BY IdleType DEF Processes
    <2>2. Accept(h, r) /\ db'.cols = db.cols
      BY <1>0, <1>10 DEF Change, Databases
    <2>. HIDE DEF r
    <2>. QED BY <1>8, <2>1, <2>2 DEF RequestSteps
  <1>11. ASSUME Start PROVE Stays \/ proc'[p] = Idle
    <2>1. ASSUME ServeColumn PROVE Stays
      BY <1>0, <2>1, ColumnAdded DEF ServeColumn
    <2>2. ASSUME CannotOpen \/ SeedScheduleJobSettings PROVE Stays
      BY <1>0, <1>1, <2>2 DEF CannotOpen, Opened, SeedScheduleJobSettings, Databases
    <2>3. ASSUME Serve \/ ServeOpened \/ SeedFails \/ NewAgent \/ StartScheduler PROVE Stays
      BY <1>1, <2>3 DEF Serve, ServeOpened, SeedFails, NewAgent, StartScheduler, disk, keys
    <2>4. ASSUME ServerDies PROVE Stays \/ proc'[p] = Idle
      BY <1>0, <2>4 DEF ServerDies, disk, keys
    <2>. QED BY <1>11, <2>1, <2>2, <2>3, <2>4 DEF Start
  <1>12. ASSUME Command PROVE Stays \/ Begins
    <2>1. OfCommand => StepOf("cli") /\ "cli" \in Procs
      BY <1>0 DEF StepOf
    <2>. QED BY <1>2, <1>5, <1>6, <1>7, <1>12, <2>1 DEF Command, OfCommand
  <1>13. ASSUME NEW h \in Procs, Truncate(h) \/ Write(h) \/ WriteFails(h) PROVE Stays
    BY <1>2, <1>13 DEF StepOf, OfSave
  <1>14. ASSUME NEW h \in Handlers, Settle(h) PROVE Stays
    BY <1>0, <1>2, <1>14 DEF StepOf
  <1>15. ASSUME UNCHANGED svars PROVE Stays
    BY <1>1, <1>15 DEF svars, disk, keys
  <1>16. Steps \/ UNCHANGED svars
    BY <1>0, NextSteps
  <1>. HIDE DEF Stays, Begins
  <1>17. Stays \/ Begins \/ proc'[p] = Idle
    BY <1>9, <1>10, <1>11, <1>12, <1>13, <1>14, <1>15, <1>16, Zenon DEF Steps
  <1>. QED BY <1>17 DEF Stays, Begins

LEMMA ProcStepInv == ServerInv /\ ProcInv /\ [ServerNext]_svars => ProcInv'
  <1>. SUFFICES ASSUME ServerInv, ProcInv, [ServerNext]_svars, NEW p \in Procs
                PROVE  proc'[p] = Idle \/ proc'[p].at \in StepsOf(p)
    BY DEF ProcInv
  <1>1. CASE StepOf(p)
    BY <1>1, OwnStep
  <1>2. CASE ~StepOf(p)
    BY <1>2, OtherStep DEF ProcInv
  <1>. QED BY <1>1, <1>2

LEMMA ProcInvHolds == ServerSpec => [](ServerInv /\ ProcInv)
  <1>1. ServerInit => ProcInv
    BY DEF ServerInit, ProcInv
  <1>. QED BY <1>1, ServerInvInit, ServerInvStep, ProcStepInv, PTL DEF ServerSpec

\* The guards of the steps that are not faults: of saving, of the command, of a
\* request, of the server's start.
SaveReady(p) == proc[p].at = "save"

OpenReady ==
    \/ Opened.st = "whole" /\ db.cols < Columns
    \/ Opened.st = "whole" /\ db.cols = Columns
    \/ Opened.st # "whole"

CommandReady ==
    \/ SaveReady("cli")
    \/ proc["cli"].at = "columns" /\ OpenReady
    \/ proc["cli"].at \in {"copy", "unlog"}

RequestReady(h) ==
    \/ SaveReady(h)
    \/ proc[h].at = "reload" /\ sched.holder = "nobody"
    \/ proc[h].at \in {"list", "load"}

StartReady ==
    \/ server.at = "columns" /\ OpenReady
    \/ server.at \in {"seed", "agent", "start"}

\* Nobody waits for ever: the request that holds s.mu is waiting for nothing, and
\* only another reload waits for it.  A command can go on, and so can a server
\* that starts, whatever a restore or a migration that was cut short has left of
\* the database.
THEOREM ServerNeverStuck == ServerSpec => [](
    /\ \A h \in Handlers : proc[h] # Idle =>
          \/ RequestReady(h)
          \/ proc[h].at = "reload" /\ \E g \in Handlers : sched.holder = g /\ RequestReady(g)
    /\ proc["cli"] # Idle => CommandReady
    /\ server.at \notin {"down", "up"} => StartReady)
<1>1. ASSUME ServerInv, ProcInv, NEW h \in Handlers, proc[h] # Idle
      PROVE  \/ RequestReady(h)
             \/ proc[h].at = "reload" /\ \E g \in Handlers : sched.holder = g /\ RequestReady(g)
  <2>1. proc[h].at \in {"save", "reload", "list", "load"}
    BY <1>1, ServerAssumption DEF ProcInv, StepsOf, RequestSteps, Procs
  <2>2. ASSUME sched.holder # "nobody"
        PROVE  \E g \in Handlers : sched.holder = g /\ RequestReady(g)
    <3>1. sched.holder \in Handlers
      BY <1>1, <2>2 DEF ServerInv, ServerTypeOK, Crons
    <3>2. proc[sched.holder].at \in {"list", "load"}
      BY <1>1, <3>1 DEF ServerInv, PhaseInv, HolderInv
    <3>. QED BY <3>1, <3>2 DEF RequestReady
  <2>. QED BY <2>1, <2>2 DEF RequestReady, SaveReady
<1>2. ServerInv => OpenReady
  BY ServerAssumption DEF ServerInv, ServerTypeOK, Databases, OpenReady
<1>3. ASSUME ServerInv, ProcInv, proc["cli"] # Idle PROVE CommandReady
  BY <1>2, <1>3 DEF CommandReady, SaveReady, ProcInv, StepsOf, CommandSteps, Procs
<1>4. ASSUME ServerInv, server.at \notin {"down", "up"} PROVE StartReady
  BY <1>2, <1>4 DEF StartReady, ServerInv, ServerTypeOK, Servers
<1>5. ServerInv /\ ProcInv =>
        /\ \A h \in Handlers : proc[h] # Idle =>
              \/ RequestReady(h)
              \/ proc[h].at = "reload" /\ \E g \in Handlers : sched.holder = g /\ RequestReady(g)
        /\ proc["cli"] # Idle => CommandReady
        /\ server.at \notin {"down", "up"} => StartReady
  BY <1>1, <1>3, <1>4
<1>. QED BY <1>5, ProcInvHolds, PTL

\* A request or a command comes to an end: each of its steps brings it nearer,
\* and no step of another one, of the server or of the migration takes it back.
\* It waits for s.mu once at the most.
THEOREM RequestsComeToAnEnd == ServerSpec =>
    /\ [](\A p \in Procs : Left(p) \in Nat /\ (proc[p] # Idle => Left(p) > 0))
    /\ [][\A p \in Procs : proc[p] # Idle =>
             Left(p)' <= Left(p) /\ (StepOf(p) => Left(p)' < Left(p))]_svars
<1>1. ServerInv /\ ProcInv =>
        \A p \in Procs : Left(p) \in Nat /\ (proc[p] # Idle => Left(p) > 0)
  BY LeftType DEF ServerInv
<1>2. (ServerInv /\ ProcInv)' =>
        (\A p \in Procs : Left(p) \in Nat /\ (proc[p] # Idle => Left(p) > 0))'
  BY <1>1, PTL
<1>3. ASSUME ServerInv, ProcInv, (ServerInv /\ ProcInv)', [ServerNext]_svars, NEW p \in Procs,
             proc[p] # Idle
      PROVE  Left(p)' <= Left(p) /\ (StepOf(p) => Left(p)' < Left(p))
  <2>1. Left(p) \in Nat
    BY <1>3, LeftType DEF ServerInv
  <2>2. /\ proc[p].todo \in Todos /\ proc[p] \in Processes
        /\ db.cols \in 0 .. Columns /\ db'.cols \in 0 .. Columns /\ Columns \in Nat
        /\ proc'[p].todo \in Todos
    BY <1>3, ServerAssumption DEF ServerInv, ServerTypeOK, Databases, Processes
  <2>3. CASE StepOf(p)
    <3>1. Left(p)' < Left(p)
      BY <1>3, <2>3, OwnStep
    <3>2. Left(p)' \in Nat
      BY <1>2, <1>3
    <3>. QED BY <2>1, <3>1, <3>2
  <2>4. CASE ~StepOf(p)
    <3>1. ASSUME proc'[p] = Idle PROVE Left(p)' = 0
      BY <2>2, <3>1, LeftAt, Zenon DEF Left
    <3>2. ASSUME proc'[p] = proc[p], proc[p].at = "columns" => db.cols <= db'.cols
          PROVE  Left(p)' <= Left(p)
      <4>1. CASE proc[p].at = "columns"
        <5>1. /\ Left(p) = 1 + 2 * Len(proc[p].todo) + (Columns - db.cols)
              /\ Left(p)' = 1 + 2 * Len(proc[p].todo) + (Columns - db'.cols)
          BY <2>2, <3>2, <4>1, LeftAt, Zenon DEF Left
        <5>2. Len(proc[p].todo) \in Nat
          BY <2>2, LenOf
        <5>. QED BY <2>2, <3>2, <4>1, <5>1, <5>2
      <4>2. CASE proc[p].at # "columns"
        <5>1. Left(p)' = Left(p)
          BY <3>2, <4>2, Zenon DEF Left, LeftOf
        <5>. QED BY <2>1, <5>1
      <4>. QED BY <4>1, <4>2
    <3>. QED BY <1>3, <2>1, <2>4, <3>1, <3>2, OtherStep
  <2>. QED BY <2>3, <2>4
<1>4. /\ ServerInv /\ ProcInv /\ (ServerInv /\ ProcInv)' /\ [ServerNext]_svars =>
            [\A p \in Procs : proc[p] # Idle =>
                Left(p)' <= Left(p) /\ (StepOf(p) => Left(p)' < Left(p))]_svars
  BY <1>3
<1>. QED BY <1>1, <1>4, ProcInvHolds, PTL DEF ServerSpec

-----------------------------------------------------------------------------
\* A server that is up, and that has met no fault, has a scheduler that runs or
\* that a request is reloading.
CronInv == server.at = "up" /\ faults = 0 => sched.started \/ sched.holder # "nobody"

LEMMA CronStep == ServerInv /\ CronInv /\ [ServerNext]_svars => CronInv'
<1>. SUFFICES ASSUME ServerInv, CronInv, [ServerNext]_svars PROVE CronInv'
  OBVIOUS
<1>0. ServerTypeOK /\ server \in Servers /\ faults \in Nat /\ "nobody" \notin Handlers
  BY ServerAssumption DEF ServerInv, ServerTypeOK
<1>1. ASSUME Fault PROVE CronInv'
  BY <1>0, <1>1 DEF Fault, CronInv
<1>2. ASSUME UNCHANGED <<server, sched, faults>> PROVE CronInv'
  BY <1>2 DEF CronInv
<1>3. ASSUME NEW p \in Procs, Truncate(p) \/ Write(p) \/ WriteFails(p) PROVE CronInv'
  BY <1>1, <1>2, <1>3 DEF Truncate, Write, WriteFails
<1>4. ASSUME Command PROVE CronInv'
  BY <1>1, <1>2, <1>4
  DEF Command, cmdInit, cmdChangePassword, cmdDBDump, cmdDBRestore, DumpColumn, Dump,
      DumpCannotOpen, RestoreTruncate, RestoreCopy, RestoreRemoveWAL, CommandDies
<1>5. ASSUME Start PROVE CronInv'
  <2>1. ASSUME server'.at # "up" PROVE CronInv'
    BY <2>1 DEF CronInv
  <2>2. ASSUME StartScheduler PROVE CronInv'
    BY <2>2 DEF StartScheduler, Running, CronInv
  <2>3. ASSUME Serve \/ ServeColumn \/ ServeOpened PROVE server'.at # "up"
    BY <1>0, <2>3 DEF Serve, ServeColumn, ServeOpened, Servers
  <2>4. ASSUME CannotOpen \/ SeedScheduleJobSettings \/ NewAgent PROVE server'.at # "up"
    <3>1. Down.at # "up"
      BY DEF Down
    <3>2. \A at \in {"agent", "start"} :
             /\ [server EXCEPT !.at = at].at # "up"
             /\ [server EXCEPT !.at = at, !.migrated = FALSE].at # "up"
      BY <1>0 DEF Servers
    <3>3. CASE CannotOpen
      BY <3>1, <3>3 DEF CannotOpen
    <3>4. CASE SeedScheduleJobSettings
      <4>1. server' = [server EXCEPT !.at = "agent", !.migrated = FALSE]
        BY <3>4 DEF SeedScheduleJobSettings
      <4>. QED BY <3>2, <4>1
    <3>5. CASE NewAgent
      BY <3>1, <3>2, <3>5 DEF NewAgent
    <3>. QED BY <2>4, <3>3, <3>4, <3>5
  <2>5. ASSUME SeedFails \/ ServerDies PROVE CronInv'
    BY <1>1, <2>5 DEF SeedFails, ServerDies
  <2>. QED BY <1>5, <2>1, <2>2, <2>3, <2>4, <2>5 DEF Start
<1>6. ASSUME NEW h \in Handlers, handleChangePassword(h) \/ handleUpdateConfig(h) PROVE CronInv'
  BY <1>2, <1>6 DEF handleChangePassword, handleUpdateConfig
<1>7. ASSUME NEW h \in Handlers, Settle(h) PROVE CronInv'
  <2>1. ASSUME Reload(h) PROVE CronInv'
    BY <1>0, <2>1 DEF Reload, NoCron, CronInv
  <2>2. ASSUME ListSchedules(h) PROVE CronInv'
    BY <1>2, <2>2 DEF ListSchedules
  <2>3. ASSUME ListFails(h) PROVE CronInv'
    BY <1>1, <2>3 DEF ListFails
  <2>4. ASSUME loadSchedules(h) PROVE CronInv'
    BY <2>4 DEF loadSchedules, Running, CronInv
  <2>. QED BY <1>7, <2>1, <2>2, <2>3, <2>4 DEF Settle
<1>8. ASSUME NEW h \in Handlers, NEW rows \in Edits, Change(h, rows) PROVE CronInv'
  BY <1>2, <1>8 DEF Change
<1>9. ASSUME UNCHANGED svars PROVE CronInv'
  BY <1>2, <1>9 DEF svars, keys
<1>. QED BY <1>0, <1>3, <1>4, <1>5, <1>6, <1>7, <1>8, <1>9, NextSteps, Zenon DEF Steps

\* When no request is reloading the schedules, a server that is up and that
\* has met no fault fires what the database says, nothing more and nothing less.
\* After a fault it may be up and fire nothing: a Reload whose list of schedules
\* fails leaves an empty cron (ListFails).
THEOREM QuietMeansScheduled == ServerSpec => [](
    /\ server.at = "up" /\ faults = 0
    /\ \A h \in Handlers : proc[h].at \notin {"reload", "list", "load"}
    => /\ sched.started
       /\ sched.entries = Wanted(db.rows) /\ sched.scans = WantedScans(db.rows))
<1>1. ServerInit => CronInv
  BY DEF ServerInit, CronInv, Down
<1>2. ASSUME ServerInv, CronInv, server.at = "up", faults = 0,
             \A h \in Handlers : proc[h].at \notin {"reload", "list", "load"}
      PROVE  /\ sched.started
             /\ sched.entries = Wanted(db.rows) /\ sched.scans = WantedScans(db.rows)
  <2>1. sched.holder = "nobody"
    BY <1>2 DEF ServerInv, ServerTypeOK, Crons, PhaseInv, HolderInv
  <2>2. sched.started
    BY <1>2, <2>1 DEF CronInv
  <2>. QED BY <1>2, <2>2 DEF ServerInv, LoadInv, EntriesCurrent
<1>3. ServerInv /\ CronInv =>
        (/\ server.at = "up" /\ faults = 0
         /\ \A h \in Handlers : proc[h].at \notin {"reload", "list", "load"}
         => /\ sched.started
            /\ sched.entries = Wanted(db.rows) /\ sched.scans = WantedScans(db.rows))
  BY <1>2
<1>. QED BY <1>1, <1>3, ServerInvInit, ServerInvStep, CronStep, PTL DEF ServerSpec
=============================================================================
