-------------------------- MODULE BackupProgressProofs --------------------------
(***************************************************************************)
(* Proofs about one pass of a worker over a file (processFile), for every  *)
(* set of files, workers and blobs, every bound, and whether or not files  *)
(* are listed twice, contents come back or stamps are shared: every query  *)
(* the pass makes has an answer, the pass comes to an end, and a version   *)
(* it records is taken for current by the next pass only if it is.         *)
(***************************************************************************)
EXTENDS BackupStoreProofs, WellFoundedInduction

-----------------------------------------------------------------------------
(* Least and greatest numbers.  The library states the principle for sets   *)
(* (WFMin), so no property is passed as an operator.                        *)

LEMMA LeastNat ==
    ASSUME NEW T, T \subseteq Nat, T # {}
    PROVE  \E x \in T : \A y \in T : x <= y
<1>. DEFINE Less == OpToRel(<, Nat)
<1>1. \A x, y \in Nat : <<x, y>> \in Less <=> x < y
  BY DEF OpToRel
<1>2. IsWellFoundedOn(Less, Nat)
  BY NatLessThanWellFounded
<1>. HIDE DEF Less
<1>3. PICK x \in T : \A y \in T : ~(<<y, x>> \in Less)
  BY <1>2, WFMin, Zenon
<1>4. \A y \in T : ~(y < x)
  BY <1>1, <1>3, Zenon
<1>. QED BY <1>4

LEMMA GreatestNat ==
    ASSUME NEW T, T \subseteq Nat, T # {}, NEW bound \in Nat, \A x \in T : x <= bound
    PROVE  \E x \in T : \A y \in T : y <= x
<1>. DEFINE U == {m \in Nat : \A x \in T : x <= m}
<1>1. U \subseteq Nat /\ bound \in U
  OBVIOUS
<1>2. PICK m \in U : \A n \in U : m <= n
  BY <1>1, LeastNat, Zenon
<1>3. m \in Nat /\ \A x \in T : x <= m
  BY <1>2
<1>4. ASSUME m \notin T PROVE FALSE
  <2>1. PICK x \in T : TRUE
    OBVIOUS
  <2>2. x <= m /\ x # m
    BY <1>3, <1>4
  <2>3. m - 1 \in Nat
    BY <1>3, <2>2
  <2>4. \A y \in T : y <= m - 1
    BY <1>3, <1>4
  <2>5. m - 1 \in U
    BY <2>3, <2>4
  <2>. QED BY <1>2, <1>3, <2>3, <2>5
<1>. QED BY <1>3, <1>4

-----------------------------------------------------------------------------
(* Every query has an answer *)

\* Only the transaction of UpsertFileVersion adds a row or writes a stamp.
LEMMA QuietTable ==
    ASSUME [Next]_vars, \A w \in Workers : ~Upsert(w)
    PROVE  /\ clock' = clock
           /\ \/ versions' = versions
              \/ \E w \in Workers :
                    versions' \in MtimeRefreshed(versions, task[w].file, task[w].mtime)
<1>1. ASSUME NEW f \in Files, Edit(f) PROVE UNCHANGED <<clock, versions>>
  BY <1>1 DEF Edit
<1>2. ASSUME NEW w \in Workers, NEW f \in Files, TakeFile(w, f)
      PROVE  UNCHANGED <<clock, versions>>
  BY <1>2 DEF TakeFile
<1>3. ASSUME NEW w \in Workers, RefreshMtime(w)
      PROVE  /\ clock' = clock
             /\ \/ versions' = versions
                \/ versions' \in MtimeRefreshed(versions, task[w].file, task[w].mtime)
  BY <1>3 DEF RefreshMtime
<1>4. ASSUME NEW w \in Workers,
             \/ FastSkip(w) \/ Lookup(w) \/ HashFile(w) \/ StartUpload(w)
             \/ UploadDone(w) \/ DeleteEvicted(w) \/ Fails(w)
      PROVE  UNCHANGED <<clock, versions>>
  BY <1>4 DEF FastSkip, Lookup, HashFile, StartUpload, UploadDone, DeleteEvicted,
              Fails, UploadFails, UpsertFails, ReadFails
<1>5. CASE Crash
  BY <1>5 DEF Crash
<1>6. CASE UNCHANGED vars
  BY <1>6 DEF vars
<1>. QED BY <1>1, <1>2, <1>3, <1>4, <1>5, <1>6 DEF Next, Progress

\* What the transaction leaves: the new row, without at most one old one.
LEMMA UpsertedRow ==
    ASSUME TypeOK, NEW w \in Workers, Upsert(w)
    PROVE  \E row, gone :
             /\ versions' = (versions \ gone) \cup {row}
             /\ gone \subseteq versions /\ \A r \in gone : r.file = task[w].file
             /\ row \in Row
             /\ row.file = task[w].file /\ row.blob = held[w] /\ row.hash = task[w].hash
             /\ row.size = task[w].size /\ row.mtime = task[w].mtime
             /\ row.num \in NextNums(versions, task[w].file)
             /\ row.at = clock' /\ clock <= clock' /\ clock' \in Nat
<1>1. PICK n \in NextNums(versions, task[w].file), t \in Stamps(task[w].file) :
         \E out \in Upserted(versions, NewRow(w, n, t)) : Committed(w, t, out)
  BY DEF Upsert
<1>2. PICK out \in Upserted(versions, NewRow(w, n, t)) : Committed(w, t, out)
  BY <1>1
<1>3. n \in Nat /\ t \in Nat /\ clock \in Nat /\ t \in {clock, clock + 1}
  BY NextNumsType DEF TypeOK, Stamps
<1>. DEFINE row == NewRow(w, n, t)
<1>4. /\ row \in Row
      /\ row.file = task[w].file /\ row.blob = held[w] /\ row.hash = task[w].hash
      /\ row.size = task[w].size /\ row.mtime = task[w].mtime /\ row.num = n /\ row.at = t
  BY <1>3, NewRowType DEF Upsert, NewRow
<1>5. /\ versions' = (versions \ out.evicted) \cup {row}
      /\ out.evicted \subseteq versions /\ \A r \in out.evicted : r.file = task[w].file
      /\ clock' = t
  <2>1. versions' = out.rows /\ clock' = t
    BY <1>2 DEF Committed
  <2>2. /\ out.rows = (versions \ out.evicted) \cup {row}
        /\ out.evicted = {} \/ \E old \in versions : out.evicted = {old}
    BY UpsertedShape
  <2>3. \A r \in out.evicted : r.file = row.file
    BY DEF Upserted, Oldest, VersionsOf
  <2>. HIDE DEF row
  <2>. QED BY <1>4, <2>1, <2>2, <2>3
<1>. HIDE DEF row
<1>. QED BY <1>3, <1>4, <1>5

\* No stamp is ahead of the clock, and every file has a next version number.
StampInv == \A r \in versions : r.at <= clock
NumbersInv == \A f \in Files : NextNums(versions, f) # {}

LEMMA StampStep == TypeOK /\ StampInv /\ [Next]_vars => StampInv'
<1>. SUFFICES ASSUME TypeOK, StampInv, [Next]_vars PROVE StampInv'
  OBVIOUS
<1>0. clock \in Nat /\ \A r \in versions : r.at \in Nat
  BY DEF TypeOK, Row
<1>1. ASSUME NEW w \in Workers, Upsert(w) PROVE StampInv'
  BY <1>0, <1>1, UpsertedRow DEF StampInv
<1>2. ASSUME \A w \in Workers : ~Upsert(w) PROVE StampInv'
  <2>1. CASE versions' = versions
    BY <1>2, <2>1, QuietTable DEF StampInv
  <2>2. ASSUME NEW w \in Workers,
               versions' \in MtimeRefreshed(versions, task[w].file, task[w].mtime),
               versions' # versions
        PROVE  StampInv'
    BY <1>2, <2>2, QuietTable, RefreshedRows DEF StampInv
  <2>. QED BY <1>2, <2>1, <2>2, QuietTable
<1>. QED BY <1>1, <1>2

\* The number of the new row is above all others: it is the greatest then.
LEMMA NumbersStep == TypeOK /\ NumbersInv /\ [Next]_vars => NumbersInv'
<1>. SUFFICES ASSUME TypeOK, NumbersInv, [Next]_vars, NEW f \in Files
              PROVE  NextNums(versions', f) # {}
  BY DEF NumbersInv
<1>0. NumsOf(versions, f) \subseteq Nat /\ NextNums(versions, f) # {}
  BY DEF TypeOK, Row, NumsOf, VersionsOf, NumbersInv
<1>1. ASSUME NumsOf(versions', f) = NumsOf(versions, f) PROVE NextNums(versions', f) # {}
  BY <1>0, <1>1 DEF NextNums
<1>2. ASSUME NEW w \in Workers, Upsert(w) PROVE NextNums(versions', f) # {}
  <2>1. PICK row, gone :
          /\ versions' = (versions \ gone) \cup {row}
          /\ gone \subseteq versions /\ \A r \in gone : r.file = task[w].file
          /\ row \in Row /\ row.file = task[w].file
          /\ row.num \in NextNums(versions, task[w].file)
    BY <1>2, UpsertedRow
  <2>2. CASE f = task[w].file
    <3>1. row.num \in NumsOf(versions', f) /\ row.num \in Nat
      BY <2>1, <2>2 DEF NumsOf, VersionsOf, Row
    <3>2. \A r \in VersionsOf(versions, f) : r.num < row.num
      BY <2>1, <2>2, NextNumAbove DEF TypeOK
    <3>3. \A k \in NumsOf(versions', f) : k <= row.num
      <4>1. \A r \in VersionsOf(versions', f) : r \in VersionsOf(versions, f) \/ r = row
        BY <2>1 DEF VersionsOf
      <4>2. \A r \in VersionsOf(versions, f) : r.num \in Nat
        BY DEF TypeOK, Row, VersionsOf
      <4>3. \A r \in VersionsOf(versions', f) : r.num <= row.num
        BY <3>1, <3>2, <4>1, <4>2
      <4>. QED BY <4>3 DEF NumsOf
    <3>. QED BY <3>1, <3>3 DEF NextNums
  <2>3. CASE f # task[w].file
    <3>1. VersionsOf(versions', f) = VersionsOf(versions, f)
      BY <2>1, <2>3 DEF VersionsOf
    <3>. QED BY <1>1, <3>1 DEF NumsOf
  <2>. QED BY <2>2, <2>3
<1>3. ASSUME NEW w \in Workers,
             versions' \in MtimeRefreshed(versions, task[w].file, task[w].mtime),
             versions' # versions
      PROVE  NextNums(versions', f) # {}
  <2>1. PICK x, new : /\ x \in versions /\ new.file = x.file /\ new.num = x.num
                      /\ versions' = (versions \ {x}) \cup {new}
    BY <1>3, RefreshedRows
  <2>2. NumsOf(versions', f) = NumsOf(versions, f)
    BY <2>1 DEF NumsOf, VersionsOf
  <2>. QED BY <1>1, <2>2
<1>4. CASE versions' = versions
  BY <1>1, <1>4
<1>. QED BY <1>2, <1>3, <1>4, QuietTable

\* ORDER BY encrypted_at finds a row, in either direction, if there is one.
LEMMA EndsOfTable ==
    ASSUME TypeOK, StampInv, NEW f, VersionsOf(versions, f) # {}
    PROVE  Newest(versions, f) # {} /\ Oldest(versions, f) # {}
<1>. DEFINE rows == VersionsOf(versions, f)
            stamps == {r.at : r \in rows}
<1>1. /\ rows # {} /\ clock \in Nat
      /\ \A r \in rows : r.at \in Nat /\ r.at <= clock /\ r.at \in stamps
      /\ \A t \in stamps : \E r \in rows : t = r.at
  BY DEF TypeOK, Row, VersionsOf, StampInv
<1>. HIDE DEF rows, stamps
<1>2. stamps \subseteq Nat /\ stamps # {} /\ \A t \in stamps : t <= clock
  BY <1>1
<1>3. PICK top \in stamps : \A t \in stamps : t <= top
  BY <1>1, <1>2, GreatestNat, Zenon
<1>4. PICK bottom \in stamps : \A t \in stamps : bottom <= t
  BY <1>2, LeastNat, Zenon
<1>5. \E r \in rows : \A s \in rows : s.at <= r.at
  BY <1>1, <1>3
<1>6. \E r \in rows : \A s \in rows : r.at <= s.at
  BY <1>1, <1>4
<1>. QED BY <1>5, <1>6 DEF Newest, Oldest, rows

\* Every query of a pass has an answer: the newest row is found if the file has
\* one (GetLatestVersionInfo), the update of its mtime has a result, and the
\* transaction of UpsertFileVersion finds a number, a stamp and, for a file at
\* the cap, a row to evict, whatever was inserted and evicted before.
THEOREM TableAnswers == Spec => [](
    \A w \in Workers :
        LET f == task[w].file IN
        /\ VersionsOf(versions, f) # {} => Newest(versions, f) # {}
        /\ pc[w] = "same" => MtimeRefreshed(versions, f, task[w].mtime) # {}
        /\ pc[w] = "uploaded" =>
              \E n \in NextNums(versions, f), t \in Stamps(f) :
                 Upserted(versions, NewRow(w, n, t)) # {})
<1>1. Init => StampInv /\ NumbersInv
  BY DEF Init, StampInv, NumbersInv, NextNums, NumsOf, VersionsOf
<1>2. ASSUME TypeOK, StampInv, NumbersInv, NEW w \in Workers
      PROVE  LET f == task[w].file IN
             /\ VersionsOf(versions, f) # {} => Newest(versions, f) # {}
             /\ pc[w] = "same" => MtimeRefreshed(versions, f, task[w].mtime) # {}
             /\ pc[w] = "uploaded" =>
                   \E n \in NextNums(versions, f), t \in Stamps(f) :
                      Upserted(versions, NewRow(w, n, t)) # {}
  <2>. DEFINE f == task[w].file
  <2>1. VersionsOf(versions, f) # {} => Newest(versions, f) # {} /\ Oldest(versions, f) # {}
    BY <1>2, EndsOfTable
  <2>2. MtimeRefreshed(versions, f, task[w].mtime) # {}
    BY <2>1 DEF MtimeRefreshed
  <2>3. ASSUME pc[w] = "uploaded"
        PROVE  \E n \in NextNums(versions, f), t \in Stamps(f) :
                  Upserted(versions, NewRow(w, n, t)) # {}
    <3>1. f \in Files
      BY <1>2, <2>3 DEF TypeOK, Idle
    <3>2. PICK n \in NextNums(versions, f) : TRUE
      BY <1>2, <3>1 DEF NumbersInv
    <3>3. clock + 1 \in Stamps(f)
      <4>1. clock \in Nat /\ \A r \in VersionsOf(versions, f) : r.at \in Nat /\ r.at <= clock
        BY <1>2 DEF TypeOK, Row, VersionsOf, StampInv
      <4>. QED BY <4>1 DEF Stamps
    <3>. DEFINE row == NewRow(w, n, clock + 1)
    <3>4. row.file = f
      BY DEF NewRow
    <3>. HIDE DEF row, f
    <3>5. ASSUME VersionsOf(versions, f) = {} PROVE HasRoom(versions, f)
      <4>1. Cardinality(VersionsOf(versions, f)) = 0
        BY <3>5, FS_EmptySet
      <4>. QED BY <4>1, MaxVersionsAssumption DEF HasRoom
    <3>6. Upserted(versions, row) # {}
      BY <2>1, <3>4, <3>5 DEF Upserted
    <3>. QED BY <3>2, <3>3, <3>6 DEF row
  <2>. QED BY <2>1, <2>2, <2>3
<1>3. TypeOK /\ StampInv /\ NumbersInv =>
        \A w \in Workers :
           LET f == task[w].file IN
           /\ VersionsOf(versions, f) # {} => Newest(versions, f) # {}
           /\ pc[w] = "same" => MtimeRefreshed(versions, f, task[w].mtime) # {}
           /\ pc[w] = "uploaded" =>
                 \E n \in NextNums(versions, f), t \in Stamps(f) :
                    Upserted(versions, NewRow(w, n, t)) # {}
  BY <1>2
<1>. QED BY <1>1, <1>3, StampStep, NumbersStep, TypeCorrect, PTL DEF Spec

-----------------------------------------------------------------------------
(* A pass comes to an end *)

\* The steps a pass has before it at the most.
Rank == [idle |-> 0, evicting |-> 1, uploaded |-> 2, uploading |-> 3, same |-> 4,
         changed |-> 4, hashing |-> 5, looking |-> 6]

LEMMA RankOf ==
    /\ Rank["idle"] = 0 /\ Rank["evicting"] = 1 /\ Rank["uploaded"] = 2
    /\ Rank["uploading"] = 3 /\ Rank["same"] = 4 /\ Rank["changed"] = 4
    /\ Rank["hashing"] = 5 /\ Rank["looking"] = 6
BY DEF Rank

PassStep(w) == Progress(w) \/ Fails(w)

\* A step of a pass brings it nearer to its end and moves no other pass.
LEMMA OwnPass ==
    ASSUME TypeOK, NEW w \in Workers, PassStep(w)
    PROVE  /\ Rank[pc'[w]] < Rank[pc[w]]
           /\ \A v \in Workers : v # w => /\ pc'[v] = pc[v] /\ task'[v] = task[v]
                                          /\ held'[v] = held[v]
<1>. USE RankOf DEF Idle
<1>1. /\ pc \in [Workers -> Steps] /\ task \in [Workers -> Task]
      /\ held \in [Workers -> Blobs \cup {NoBlob}]
  BY DEF TypeOK
<1>2. ASSUME Finish(w), pc[w] \in Steps \ {Idle}
      PROVE  /\ Rank[pc'[w]] < Rank[pc[w]]
             /\ \A v \in Workers : v # w => /\ pc'[v] = pc[v] /\ task'[v] = task[v]
                                            /\ held'[v] = held[v]
  BY <1>1, <1>2 DEF Finish, Steps, Holding
<1>3. ASSUME FastSkip(w) \/ RefreshMtime(w) \/ DeleteEvicted(w) \/ Fails(w)
      PROVE  Finish(w) /\ pc[w] \in Steps \ {Idle}
  BY <1>3 DEF FastSkip, RefreshMtime, DeleteEvicted, Fails, UploadFails, UpsertFails, ReadFails,
              Steps, Holding
<1>4. ASSUME Lookup(w)
      PROVE  /\ Rank[pc'[w]] < Rank[pc[w]]
             /\ \A v \in Workers : v # w => /\ pc'[v] = pc[v] /\ task'[v] = task[v]
                                            /\ held'[v] = held[v]
  <2>1. /\ pc[w] = "looking" /\ pc' = [pc EXCEPT ![w] = "hashing"] /\ held' = held
        /\ \E h : task' = [task EXCEPT ![w].known = h]
    BY <1>4 DEF Lookup
  <2>. QED BY <1>1, <2>1
<1>5. ASSUME HashFile(w) \/ StartUpload(w) \/ UploadDone(w)
      PROVE  /\ Rank[pc'[w]] < Rank[pc[w]]
             /\ \A v \in Workers : v # w => /\ pc'[v] = pc[v] /\ task'[v] = task[v]
                                            /\ held'[v] = held[v]
  BY <1>1, <1>5 DEF HashFile, StartUpload, UploadDone
<1>6. ASSUME Upsert(w)
      PROVE  /\ Rank[pc'[w]] < Rank[pc[w]]
             /\ \A v \in Workers : v # w => /\ pc'[v] = pc[v] /\ task'[v] = task[v]
                                            /\ held'[v] = held[v]
  <2>1. pc[w] = "uploaded"
    BY <1>6 DEF Upsert
  <2>2. Finish(w) \/ \E old : /\ held' = [held EXCEPT ![w] = old.blob]
                              /\ pc' = [pc EXCEPT ![w] = "evicting"] /\ task' = task
    BY <1>6 DEF Upsert, Committed
  <2>3. CASE Finish(w)
    BY <1>2, <2>1, <2>3 DEF Steps, Holding
  <2>4. CASE ~Finish(w)
    BY <1>1, <2>1, <2>2, <2>4
  <2>. QED BY <2>3, <2>4
<1>. QED BY <1>2, <1>3, <1>4, <1>5, <1>6 DEF PassStep, Progress

\* Any other step leaves a pass where it is, or is a crash.
LEMMA OtherPass ==
    ASSUME TypeOK, [Next]_vars, NEW w \in Workers, pc[w] # Idle, ~PassStep(w)
    PROVE  pc'[w] \in {Idle, pc[w]}
<1>1. ASSUME NEW v \in Workers, PassStep(v) PROVE pc'[w] = pc[w]
  BY <1>1, OwnPass
<1>2. ASSUME NEW f \in Files, Edit(f) PROVE pc'[w] = pc[w]
  BY <1>2 DEF Edit, locals
<1>3. ASSUME NEW v \in Workers, NEW f \in Files, TakeFile(v, f) PROVE pc'[w] = pc[w]
  BY <1>3 DEF TakeFile, TypeOK
<1>4. ASSUME Crash PROVE pc'[w] = Idle
  BY <1>4 DEF Crash
<1>5. ASSUME UNCHANGED vars PROVE pc'[w] = pc[w]
  BY <1>5 DEF vars, locals
<1>. QED BY <1>1, <1>2, <1>3, <1>4, <1>5 DEF Next, PassStep

\* A pass over a file comes to an end after six steps of its own at the most,
\* and no edit, no other worker and no crash takes it back.
THEOREM PassComesToAnEnd == Spec =>
    /\ [](\A w \in Workers : pc[w] # Idle => Rank[pc[w]] \in 1 .. 6)
    /\ [][\A w \in Workers : pc[w] # Idle =>
             /\ Rank[pc[w]]' <= Rank[pc[w]]
             /\ PassStep(w) => Rank[pc[w]]' < Rank[pc[w]]]_vars
<1>1. TypeOK => \A w \in Workers : pc[w] # Idle => Rank[pc[w]] \in 1 .. 6
  BY RankOf DEF TypeOK, Steps, Holding, Idle
<1>2. ASSUME TypeOK, [Next]_vars, NEW w \in Workers, pc[w] # Idle
      PROVE  /\ Rank[pc'[w]] <= Rank[pc[w]]
             /\ PassStep(w) => Rank[pc'[w]] < Rank[pc[w]]
  <2>1. Rank[pc[w]] \in 1 .. 6 /\ Rank[Idle] = 0
    BY <1>1, <1>2, RankOf DEF Idle
  <2>2. CASE PassStep(w)
    <3>1. Rank[pc'[w]] < Rank[pc[w]] /\ pc'[w] \in Steps
      BY <1>2, <2>2, OwnPass, TypeStep DEF TypeOK
    <3>2. Rank[pc'[w]] \in Nat
      BY <3>1, RankOf DEF Steps, Holding, Idle
    <3>. QED BY <2>1, <3>1, <3>2
  <2>3. CASE ~PassStep(w)
    BY <1>2, <2>1, <2>3, OtherPass
  <2>. QED BY <2>2, <2>3
<1>3. TypeOK /\ [Next]_vars =>
        [\A w \in Workers : pc[w] # Idle =>
            /\ Rank[pc[w]]' <= Rank[pc[w]]
            /\ PassStep(w) => Rank[pc[w]]' < Rank[pc[w]]]_vars
  BY <1>2
<1>. QED BY <1>1, <1>3, TypeCorrect, PTL DEF Spec

-----------------------------------------------------------------------------
(* What a pass over a file that nobody edits meanwhile records *)

\* Every edit raises the mtime of its file: while it is the one the worker read
\* first, everything the worker has read since is the content of the file.
QuietTask(w) ==
    LET now == source[task[w].file] IN
    pc[w] # Idle =>
        /\ task[w].mtime <= now.mtime
        /\ task[w].mtime = now.mtime =>
              /\ task[w].size = SizeOf(now.content)
              /\ pc[w] \in {"same", "changed", "uploading", "uploaded"} =>
                    task[w].hash = now.content
              /\ pc[w] = "uploading" => task[w].read = now.content
              /\ pc[w] = "uploaded" => payload[held[w]] = now.content

QuietInv == \A w \in Workers : QuietTask(w)

\* A step of one worker, without an edit, disturbs its own task only.
LEMMA QuietAfterMove ==
    ASSUME QuietInv, UNCHANGED source, NEW w \in Workers, QuietTask(w)',
           \A v \in Workers : v # w => /\ pc'[v] = pc[v] /\ task'[v] = task[v]
                                       /\ held'[v] = held[v],
           \A v \in Workers : v # w /\ pc[v] = "uploaded" => payload'[held[v]] = payload[held[v]]
    PROVE  QuietInv'
<1>1. ASSUME NEW v \in Workers, v # w PROVE QuietTask(v)'
  BY <1>1 DEF QuietInv, QuietTask
<1>. QED BY <1>1 DEF QuietInv

LEMMA QuietStep == TypeOK /\ StoreInv /\ QuietInv /\ [Next]_vars => QuietInv'
<1>. SUFFICES ASSUME TypeOK, StoreInv, QuietInv, [Next]_vars PROVE QuietInv'
  OBVIOUS
<1>0. \A f \in Files : source[f].mtime \in Nat
  BY DEF TypeOK
<1>1. ASSUME NEW f \in Files, Edit(f) PROVE QuietInv'
  <2>1. /\ \A g \in Files : g # f => source'[g] = source[g]
        /\ source'[f].mtime = source[f].mtime + 1
        /\ UNCHANGED <<pc, task, held, payload>>
    BY <1>1 DEF Edit, TypeOK, locals, remote
  <2>2. ASSUME NEW w \in Workers, pc[w] # Idle PROVE QuietTask(w)'
    <3>1. task[w].file \in Files /\ task[w].mtime \in Nat
      BY <2>2 DEF TypeOK, Task
    <3>2. CASE task[w].file = f
      <4>1. task[w].mtime < source'[task[w].file].mtime
        BY <1>0, <2>1, <2>2, <3>1, <3>2 DEF QuietInv, QuietTask
      <4>2. task'[w] = task[w]
        BY <2>1
      <4>. QED BY <1>0, <2>1, <3>1, <3>2, <4>1, <4>2 DEF QuietTask
    <3>3. CASE task[w].file # f
      BY <2>1, <3>1, <3>3 DEF QuietInv, QuietTask
    <3>. QED BY <3>2, <3>3
  <2>3. ASSUME NEW w \in Workers, pc[w] = Idle PROVE QuietTask(w)'
    BY <2>1, <2>3 DEF QuietTask
  <2>. QED BY <2>2, <2>3 DEF QuietInv
<1>2. ASSUME NEW w \in Workers, NEW f \in Files, TakeFile(w, f) PROVE QuietInv'
  <2>1. /\ pc'[w] = "looking" /\ task'[w].file = f /\ task'[w].mtime = source[f].mtime
        /\ task'[w].size = SizeOf(source[f].content)
        /\ UNCHANGED <<source, payload, held>>
        /\ \A v \in Workers : v # w => pc'[v] = pc[v] /\ task'[v] = task[v]
    BY <1>2 DEF TakeFile, TypeOK, NoTask, remote
  <2>2. QuietTask(w)'
    BY <1>0, <2>1 DEF QuietTask
  <2>. QED BY <2>1, <2>2, QuietAfterMove
<1>3. ASSUME NEW w \in Workers, PassStep(w), UNCHANGED <<source, payload>>, QuietTask(w)'
      PROVE  QuietInv'
  BY <1>3, OwnPass, QuietAfterMove
<1>4. ASSUME NEW w \in Workers, PassStep(w), Finish(w), UNCHANGED <<source, payload>>
      PROVE  QuietInv'
  <2>1. pc'[w] = Idle
    BY <1>4 DEF Finish, TypeOK
  <2>2. QuietTask(w)'
    BY <2>1 DEF QuietTask
  <2>. QED BY <1>3, <1>4, <2>2
<1>5. ASSUME NEW w \in Workers,
             FastSkip(w) \/ RefreshMtime(w) \/ DeleteEvicted(w) \/ Fails(w)
      PROVE  QuietInv'
  <2>1. PassStep(w) /\ Finish(w) /\ UNCHANGED <<source, payload>>
    BY <1>5 DEF PassStep, Progress, FastSkip, RefreshMtime, DeleteEvicted, Fails, UploadFails,
                UpsertFails, ReadFails, remote
  <2>. QED BY <1>4, <2>1
<1>6. ASSUME NEW w \in Workers, Lookup(w) PROVE QuietInv'
  <2>1. PICK h : task' = [task EXCEPT ![w].known = h]
    BY <1>6 DEF Lookup
  <2>2. /\ task'[w].file = task[w].file /\ task'[w].mtime = task[w].mtime
        /\ task'[w].size = task[w].size /\ pc[w] = "looking" /\ pc'[w] = "hashing"
        /\ UNCHANGED <<source, payload>>
    BY <1>6, <2>1 DEF Lookup, TypeOK, Task, remote
  <2>3. QuietTask(w)'
    BY <2>2 DEF QuietInv, QuietTask, Idle
  <2>. QED BY <1>3, <1>6, <2>2, <2>3 DEF PassStep, Progress
<1>7. ASSUME NEW w \in Workers, HashFile(w) PROVE QuietInv'
  <2>. DEFINE now == source[task[w].file].content
  <2>1. task' = [task EXCEPT ![w].hash = now] /\ pc[w] = "hashing"
    BY <1>7 DEF HashFile
  <2>2. /\ task'[w].file = task[w].file /\ task'[w].mtime = task[w].mtime
        /\ task'[w].size = task[w].size /\ task'[w].hash = now
        /\ pc'[w] \in {"same", "changed"} /\ UNCHANGED <<source, payload>>
    <3>1. pc'[w] \in {"same", "changed"} /\ UNCHANGED <<source, payload>>
      BY <1>7 DEF HashFile, TypeOK, remote
    <3>. HIDE DEF now
    <3>. QED BY <2>1, <3>1 DEF TypeOK, Task
  <2>3. QuietTask(w)'
    BY <2>1, <2>2 DEF QuietInv, QuietTask, Idle
  <2>. QED BY <1>3, <1>7, <2>2, <2>3 DEF PassStep, Progress
<1>8. ASSUME NEW w \in Workers, StartUpload(w) PROVE QuietInv'
  <2>. DEFINE now == source[task[w].file].content
  <2>1. task' = [task EXCEPT ![w].read = now] /\ pc[w] = "changed"
    BY <1>8 DEF StartUpload
  <2>2. /\ task'[w].file = task[w].file /\ task'[w].mtime = task[w].mtime
        /\ task'[w].size = task[w].size /\ task'[w].hash = task[w].hash /\ task'[w].read = now
        /\ pc'[w] = "uploading" /\ UNCHANGED <<source, payload>>
    <3>1. pc'[w] = "uploading" /\ UNCHANGED <<source, payload>>
      BY <1>8 DEF StartUpload, TypeOK
    <3>. HIDE DEF now
    <3>. QED BY <2>1, <3>1 DEF TypeOK, Task
  <2>3. QuietTask(w)'
    BY <2>1, <2>2 DEF QuietInv, QuietTask, Idle
  <2>. QED BY <1>3, <1>8, <2>2, <2>3 DEF PassStep, Progress
<1>9. ASSUME NEW w \in Workers, UploadDone(w) PROVE QuietInv'
  <2>1. PICK c \in Streamed(w) : payload' = [payload EXCEPT ![held[w]] = c]
    BY <1>9 DEF UploadDone
  <2>2. /\ pc[w] = "uploading" /\ pc'[w] = "uploaded" /\ UNCHANGED <<source, task, held>>
        /\ held[w] \in Blobs /\ payload'[held[w]] = c
    BY <1>9, <2>1 DEF UploadDone, TypeOK, Holding
  <2>3. QuietTask(w)'
    BY <2>2 DEF QuietInv, QuietTask, Streamed, Idle
  <2>4. \A v \in Workers : v # w /\ pc[v] = "uploaded" => payload'[held[v]] = payload[held[v]]
    BY <2>1, <2>2 DEF StoreInv, HeldIsPrivate, Holding, TypeOK
  <2>. QED BY <1>9, <2>2, <2>3, <2>4, OwnPass, QuietAfterMove DEF PassStep, Progress
<1>10. ASSUME NEW w \in Workers, Upsert(w) PROVE QuietInv'
  <2>1. PassStep(w) /\ UNCHANGED <<source, payload>> /\ pc[w] = "uploaded"
    BY <1>10 DEF PassStep, Progress, Upsert, remote
  <2>2. Finish(w) \/ (pc' = [pc EXCEPT ![w] = "evicting"] /\ task' = task)
    BY <1>10 DEF Upsert, Committed
  <2>3. CASE Finish(w)
    BY <1>4, <2>1, <2>3
  <2>4. CASE ~Finish(w)
    <3>1. pc'[w] = "evicting" /\ task' = task
      BY <2>2, <2>4 DEF TypeOK
    <3>2. QuietTask(w)'
      BY <2>1, <3>1 DEF QuietInv, QuietTask, Idle
    <3>. QED BY <1>3, <2>1, <3>2
  <2>. QED BY <2>3, <2>4
<1>11. CASE Crash
  BY <1>11 DEF Crash, QuietInv, QuietTask
<1>12. CASE UNCHANGED vars
  BY <1>12 DEF vars, locals, remote, QuietInv, QuietTask
<1>. QED
  BY <1>1, <1>2, <1>5, <1>6, <1>7, <1>8, <1>9, <1>10, <1>11, <1>12 DEF Next, Progress

\* A version that is recorded becomes the newest of its file, and if its mtime
\* is the one the file has now, so that the stat pre-check of the next run will
\* skip the file, then its size, its hash and its blob are those of the content
\* the file has now, however the file was edited during the pass, and also where
\* two workers are at the file.
THEOREM RecordedIsCurrent == Spec => [][
    \A w \in Workers : Upsert(w) =>
        LET now == source[task[w].file] IN
        \E r \in Newest(versions', task[w].file) :
            /\ r \notin versions
            /\ r.mtime = now.mtime =>
                  /\ r.size = SizeOf(now.content) /\ r.hash = now.content
                  /\ payload[r.blob] = now.content]_vars
<1>1. ASSUME TypeOK, StoreInv, StampInv, QuietInv, NEW w \in Workers, Upsert(w)
      PROVE  LET now == source[task[w].file] IN
             \E r \in Newest(versions', task[w].file) :
                 /\ r \notin versions
                 /\ r.mtime = now.mtime =>
                       /\ r.size = SizeOf(now.content) /\ r.hash = now.content
                       /\ payload[r.blob] = now.content
  <2>1. pc[w] = "uploaded" /\ pc[w] # Idle
    BY <1>1 DEF Upsert, Idle
  <2>2. PICK r, gone :
          /\ versions' = (versions \ gone) \cup {r}
          /\ r.file = task[w].file /\ r.blob = held[w] /\ r.hash = task[w].hash
          /\ r.size = task[w].size /\ r.mtime = task[w].mtime
          /\ r.at = clock' /\ clock <= clock' /\ clock' \in Nat
    BY <1>1, UpsertedRow
  <2>3. r \notin versions
    BY <1>1, <2>1, <2>2 DEF StoreInv, HeldIsPrivate, Holding
  <2>4. r \in Newest(versions', task[w].file)
    <3>1. \A s \in versions : s.at <= clock /\ s.at \in Nat
      BY <1>1 DEF StampInv, TypeOK, Row
    <3>2. clock \in Nat
      BY <1>1 DEF TypeOK
    <3>3. \A s \in versions' : s.at <= r.at
      BY <2>2, <3>1, <3>2
    <3>. QED BY <2>2, <3>3 DEF Newest, VersionsOf
  <2>5. QuietTask(w)
    BY <1>1 DEF QuietInv
  <2>. QED BY <2>1, <2>2, <2>3, <2>4, <2>5 DEF QuietTask
<1>2. Init => StampInv /\ QuietInv
  BY DEF Init, StampInv, QuietInv, QuietTask
<1>3. TypeOK /\ StoreInv /\ StampInv /\ QuietInv =>
        [\A w \in Workers : Upsert(w) =>
            LET now == source[task[w].file] IN
            \E r \in Newest(versions', task[w].file) :
                /\ r \notin versions
                /\ r.mtime = now.mtime =>
                      /\ r.size = SizeOf(now.content) /\ r.hash = now.content
                      /\ payload[r.blob] = now.content]_vars
  BY <1>1
<1>. QED BY <1>2, <1>3, StampStep, QuietStep, TypeCorrect, StoreSafe, PTL DEF Spec
=============================================================================
