----------------------------- MODULE ScanPoolProofs -----------------------------
(***************************************************************************)
(* Proofs about ScanPool, for any number of workers and entries and any    *)
(* capacity of the channel: the verdict of a scan that nobody stopped.     *)
(***************************************************************************)
EXTENDS ScanPool, FiniteSetTheorems, TLAPS

Elems(s) == {s[i] : i \in 1 .. Len(s)}

\* Where everybody is; without a stop, a worker leaves a drained channel only.
StageInv ==
    /\ \A w \in Workers : item[w] # NoEntry <=> pc[w] = "hashing"
    /\ at = "sending" => next \in Entries
    /\ at \in {"decide", "returned"} => \A w \in Workers : pc[w] = "gone"
    /\ at \in {"wait", "decide"} /\ next \in Entries => cancelled = TRUE
    /\ \A w \in Workers : cancelled = FALSE /\ pc[w] = "gone" => Closed /\ workCh = <<>>
    /\ status # "running" => at = "returned"
    /\ status \in {"completed", "completed_with_errors"} =>
            next \notin Entries /\ cancelled = FALSE
    /\ status = "completed" => inconsistencies = {} /\ errCount = 0
    /\ inconsistencies \subseteq damaged

Hashing == {w \in Workers : pc[w] = "hashing"}

\* An entry that was sent has been scanned, waits, or is being hashed.
CountInv ==
    cancelled = FALSE => filesScanned + Len(workCh) + Cardinality(Hashing) = next - 1

\* The damaged entries that are through without having been found.
Missed == {e \in damaged :
    e < next /\ e \notin inconsistencies /\ e \notin Elems(workCh)
         /\ \A w \in Workers : item[w] # e}

MissedInv == cancelled = FALSE => Cardinality(Missed) <= errCount

ScanInv == TypeOK /\ StageInv /\ CountInv /\ MissedInv

-----------------------------------------------------------------------------
LEMMA AppendElems ==
    ASSUME NEW S, NEW s \in Seq(S), NEW x \in S
    PROVE  Elems(Append(s, x)) = Elems(s) \cup {x}
  <1>1. Len(Append(s, x)) = Len(s) + 1 /\ Len(s) \in Nat
    OBVIOUS
  <1>2. \A i \in 1 .. Len(s) : Append(s, x)[i] = s[i]
    OBVIOUS
  <1>3. Append(s, x)[Len(s) + 1] = x
    OBVIOUS
  <1>4. \A i \in 1 .. Len(s) + 1 : i \in 1 .. Len(s) \/ i = Len(s) + 1
    BY <1>1
  <1>5. 1 .. Len(s) \subseteq 1 .. Len(s) + 1 /\ Len(s) + 1 \in 1 .. Len(s) + 1
    BY <1>1
  <1>. HIDE DEF Elems
  <1>6. Elems(Append(s, x)) = {Append(s, x)[i] : i \in 1 .. Len(s) + 1}
    BY <1>1 DEF Elems
  <1>. QED
    BY <1>2, <1>3, <1>4, <1>5, <1>6, Zenon DEF Elems

LEMMA SentElems ==
    \A s \in Seq(Entries), x \in Entries : Elems(Append(s, x)) = Elems(s) \cup {x}
  BY AppendElems

LEMMA TailElems ==
    ASSUME NEW S, NEW s \in Seq(S), s # <<>>
    PROVE  /\ Elems(s) = {Head(s)} \cup Elems(Tail(s))
           /\ Head(s) \in S /\ Tail(s) \in Seq(S) /\ Len(Tail(s)) <= Len(s)
  <1>1. /\ Len(Tail(s)) = Len(s) - 1 /\ Len(s) \in Nat \ {0}
        /\ Head(s) = s[1] /\ \A i \in 1 .. Len(s) - 1 : Tail(s)[i] = s[i + 1]
    OBVIOUS
  <1>2. Elems(Tail(s)) = {s[i + 1] : i \in 1 .. Len(s) - 1}
    BY <1>1 DEF Elems
  <1>3. ASSUME NEW i \in 1 .. Len(s) PROVE i = 1 \/ (i - 1 \in 1 .. Len(s) - 1 /\ (i - 1) + 1 = i)
    BY <1>1
  <1>4. Elems(s) \subseteq {Head(s)} \cup Elems(Tail(s))
    BY <1>1, <1>2, <1>3 DEF Elems
  <1>5. {Head(s)} \cup Elems(Tail(s)) \subseteq Elems(s)
    BY <1>1, <1>2 DEF Elems
  <1>6. Head(s) \in S /\ Tail(s) \in Seq(S) /\ Len(Tail(s)) <= Len(s)
    BY <1>1
  <1>. QED
    BY <1>4, <1>5, <1>6

LEMMA EmptyElems == Elems(<<>>) = {}
  BY DEF Elems

LEMMA TypeStep == TypeOK /\ StageInv /\ [Next]_vars => TypeOK'
<1>. SUFFICES ASSUME TypeOK, StageInv, [Next]_vars PROVE TypeOK'
  OBVIOUS
<1>. USE ScanPoolAssumption DEF TypeOK, StageInv, Entries, producer, pool, counts
<1>1. ASSUME Test PROVE TypeOK'
  BY <1>1 DEF Test
<1>2. ASSUME Send PROVE TypeOK'
  BY <1>2 DEF Send
<1>3. ASSUME WaitEnds PROVE TypeOK'
  BY <1>3 DEF WaitEnds
<1>4. ASSUME Decide PROVE TypeOK'
  BY <1>4 DEF Decide
<1>5. ASSUME StopScan PROVE TypeOK'
  BY <1>5 DEF StopScan
<1>6. ASSUME NEW w \in Workers, Receive(w) PROVE TypeOK'
  <2>1. Head(workCh) \in Entries /\ Tail(workCh) \in Seq(Entries)
       /\ Len(Tail(workCh)) <= Len(workCh)
    BY <1>6, TailElems DEF Receive
  <2>2. CASE cancelled
    BY <1>6, <2>1, <2>2, SMTT(60) DEF Receive
  <2>3. CASE ~cancelled
    <3>1. pc' = [pc EXCEPT ![w] = "hashing"] /\ item' = [item EXCEPT ![w] = Head(workCh)]
      BY <1>6, <2>3 DEF Receive
    <3>2. pc' \in [Workers -> {"ready", "hashing", "gone"}]
      BY <3>1
    <3>3. item' \in [Workers -> Entries \cup {NoEntry}]
      BY <2>1, <3>1
    <3>4. workCh' \in Seq(Entries) /\ Len(workCh') <= Capacity
      BY <1>6, <2>1 DEF Receive
    <3>5. UNCHANGED <<damaged, producer, counts, cancelled, status>>
      BY <1>6 DEF Receive
    <3>. QED
      BY <3>2, <3>3, <3>4, <3>5
  <2>. QED
    BY <2>2, <2>3
<1>7. ASSUME NEW w \in Workers, RangeEnds(w) PROVE TypeOK'
  BY <1>7 DEF RangeEnds
<1>8. ASSUME NEW w \in Workers, Verify(w) PROVE TypeOK'
  <2>1. inconsistencies' \subseteq Entries
    BY <1>8 DEF Verify
  <2>2. filesScanned' \in Nat
    BY <1>8 DEF Verify, Scanned
  <2>3. /\ pc' \in [Workers -> {"ready", "hashing", "gone"}]
        /\ item' \in [Workers -> Entries \cup {NoEntry}]
    BY <1>8 DEF Verify, Scanned
  <2>4. UNCHANGED <<damaged, producer, workCh, errCount, cancelled, status>>
    BY <1>8 DEF Verify
  <2>. QED
    BY <2>1, <2>2, <2>3, <2>4
<1>9. ASSUME NEW w \in Workers, Unreached(w) PROVE TypeOK'
  BY <1>9 DEF Unreached, Scanned
<1>10. ASSUME UNCHANGED vars PROVE TypeOK'
  BY <1>10 DEF vars
<1>. QED
  BY <1>1, <1>2, <1>3, <1>4, <1>5, <1>6, <1>7, <1>8, <1>9, <1>10 DEF Next, Main, Work

LEMMA StageStep == TypeOK /\ StageInv /\ [Next]_vars => StageInv'
<1>. SUFFICES ASSUME TypeOK, StageInv, [Next]_vars PROVE StageInv'
  OBVIOUS
<1>. USE ScanPoolAssumption DEF TypeOK, StageInv, Closed, Entries, producer, pool, counts
<1>1. ASSUME Test PROVE StageInv'
  BY <1>1 DEF Test
<1>2. ASSUME Send PROVE StageInv'
  BY <1>2 DEF Send
<1>3. ASSUME WaitEnds PROVE StageInv'
  BY <1>3 DEF WaitEnds
<1>4. ASSUME Decide PROVE StageInv'
  BY <1>4 DEF Decide
<1>5. ASSUME StopScan PROVE StageInv'
  BY <1>5 DEF StopScan
<1>6. ASSUME NEW w \in Workers, Receive(w) PROVE StageInv'
  <2>1. /\ pc[w] = "ready" /\ workCh # <<>>
        /\ UNCHANGED <<damaged, producer, counts, cancelled, status>>
    BY <1>6 DEF Receive
  <2>2. Head(workCh) \in Entries
    BY <2>1, TailElems
  <2>3. CASE cancelled
    BY <1>6, <2>1, <2>3 DEF Receive
  <2>4. CASE ~cancelled
    <3>1. pc' = [pc EXCEPT ![w] = "hashing"] /\ item' = [item EXCEPT ![w] = Head(workCh)]
      BY <1>6, <2>4 DEF Receive
    <3>2. Head(workCh) # NoEntry
      BY <2>2
    <3>3. cancelled = FALSE => \A x \in Workers : pc[x] # "gone"
      BY <2>1
    <3>. QED
      BY <2>1, <2>4, <3>1, <3>2, <3>3
  <2>. QED
    BY <2>3, <2>4
<1>7. ASSUME NEW w \in Workers, RangeEnds(w) PROVE StageInv'
  BY <1>7 DEF RangeEnds
<1>8. ASSUME NEW w \in Workers, Verify(w) PROVE StageInv'
  BY <1>8 DEF Verify, Scanned
<1>9. ASSUME NEW w \in Workers, Unreached(w) PROVE StageInv'
  BY <1>9 DEF Unreached, Scanned
<1>10. ASSUME UNCHANGED vars PROVE StageInv'
  BY <1>10 DEF vars
<1>. QED
  BY <1>1, <1>2, <1>3, <1>4, <1>5, <1>6, <1>7, <1>8, <1>9, <1>10 DEF Next, Main, Work

LEMMA TailLen == \A s \in Seq(Entries) : s # <<>> => Len(Tail(s)) = Len(s) - 1 /\ Len(s) \in Nat
  OBVIOUS

LEMMA SendLen == \A s \in Seq(Entries), e \in Entries : Len(Append(s, e)) = Len(s) + 1
     /\ Len(s) \in Nat
  OBVIOUS

LEMMA HashingFinite == IsFiniteSet(Hashing) /\ Cardinality(Hashing) \in Nat
  <1>1. IsFiniteSet(Hashing)
    BY ScanPoolAssumption, FS_Subset DEF Hashing
  <1>. QED
    BY <1>1, FS_CardinalityType

\* A worker that takes up hashing, or puts it down, changes their number by one.
LEMMA HashingChanges ==
    ASSUME TypeOK, NEW w \in Workers, NEW s \in {"ready", "hashing"}, pc' = [pc EXCEPT ![w] = s]
    PROVE  /\ pc[w] = "ready" /\ s = "hashing" => Cardinality(Hashing') = Cardinality(Hashing) + 1
           /\ pc[w] = "hashing" /\ s = "ready" => Cardinality(Hashing') = Cardinality(Hashing) - 1
  <1>1. ASSUME pc[w] = "ready", s = "hashing" PROVE Hashing' = Hashing \cup {w} /\ w \notin Hashing
    BY <1>1 DEF Hashing, TypeOK
  <1>2. ASSUME pc[w] = "hashing", s = "ready" PROVE Hashing' = Hashing \ {w} /\ w \in Hashing
    BY <1>2 DEF Hashing, TypeOK
  <1>3. pc[w] = "ready" /\ s = "hashing" => Cardinality(Hashing') = Cardinality(Hashing) + 1
    BY <1>1, HashingFinite, FS_AddElement
  <1>4. pc[w] = "hashing" /\ s = "ready" => Cardinality(Hashing') = Cardinality(Hashing) - 1
    BY <1>2, HashingFinite, FS_RemoveElement
  <1>. QED
    BY <1>3, <1>4

LEMMA CountStep == TypeOK /\ StageInv /\ CountInv /\ [Next]_vars => CountInv'
<1>. SUFFICES ASSUME TypeOK, StageInv, CountInv, [Next]_vars PROVE CountInv'
  OBVIOUS
<1>. USE ScanPoolAssumption DEF TypeOK, StageInv, CountInv, Entries, producer, pool, counts
<1>1. ASSUME Test PROVE CountInv'
  <2>1. Hashing' = Hashing
    BY <1>1 DEF Test, Hashing
  <2>. QED
    BY <1>1, <2>1 DEF Test
<1>2. ASSUME Send PROVE CountInv'
  <2>1. /\ workCh' = Append(workCh, next) /\ next \in Entries /\ next' = next + 1
        /\ UNCHANGED <<pc, filesScanned, cancelled>>
    BY <1>2 DEF Send
  <2>2. Len(workCh') = Len(workCh) + 1 /\ Len(workCh) \in Nat
    BY <2>1, SendLen
  <2>3. Cardinality(Hashing') = Cardinality(Hashing) /\ Cardinality(Hashing) \in Nat
    BY <2>1, HashingFinite DEF Hashing
  <2>. QED
    BY <2>1, <2>2, <2>3
<1>3. ASSUME WaitEnds PROVE CountInv'
  <2>1. Hashing' = Hashing
    BY <1>3 DEF WaitEnds, Hashing
  <2>. QED
    BY <1>3, <2>1 DEF WaitEnds
<1>4. ASSUME Decide PROVE CountInv'
  <2>1. Hashing' = Hashing
    BY <1>4 DEF Decide, Hashing
  <2>. QED
    BY <1>4, <2>1 DEF Decide
<1>5. ASSUME StopScan PROVE CountInv'
  <2>1. Hashing' = Hashing
    BY <1>5 DEF StopScan, Hashing
  <2>. QED
    BY <1>5, <2>1 DEF StopScan
<1>6. ASSUME NEW w \in Workers, Receive(w) PROVE CountInv'
  <2>. SUFFICES ASSUME cancelled' = FALSE
               PROVE  filesScanned' + Len(workCh') + Cardinality(Hashing') = next' - 1
    OBVIOUS
  <2>1. /\ pc[w] = "ready" /\ pc' = [pc EXCEPT ![w] = "hashing"] /\ workCh # <<>>
        /\ workCh' = Tail(workCh) /\ UNCHANGED <<filesScanned, next, cancelled>>
    BY <1>6 DEF Receive
  <2>2. Cardinality(Hashing') = Cardinality(Hashing) + 1 /\ Cardinality(Hashing) \in Nat
    BY <2>1, HashingChanges, HashingFinite
  <2>3. Len(workCh') = Len(workCh) - 1 /\ Len(workCh) \in Nat
    BY <2>1, TailLen
  <2>. QED
    BY <2>1, <2>2, <2>3
<1>7. ASSUME NEW w \in Workers, RangeEnds(w) PROVE CountInv'
  <2>1. Hashing' = Hashing
    BY <1>7 DEF RangeEnds, Hashing
  <2>. QED
    BY <1>7, <2>1 DEF RangeEnds
<1>8. ASSUME NEW w \in Workers, Verify(w) PROVE CountInv'
  <2>1. /\ pc[w] = "hashing" /\ pc' = [pc EXCEPT ![w] = "ready"]
        /\ filesScanned' = filesScanned + 1 /\ UNCHANGED <<workCh, next, cancelled>>
    BY <1>8 DEF Verify, Scanned
  <2>2. Cardinality(Hashing') = Cardinality(Hashing) - 1
    BY <2>1, HashingChanges
  <2>3. Cardinality(Hashing) \in Nat /\ Len(workCh) \in Nat
    BY HashingFinite
  <2>. QED
    BY <2>1, <2>2, <2>3
<1>9. ASSUME NEW w \in Workers, Unreached(w) PROVE CountInv'
  <2>1. /\ pc[w] = "hashing" /\ pc' = [pc EXCEPT ![w] = "ready"]
        /\ filesScanned' = filesScanned + 1 /\ UNCHANGED <<workCh, next, cancelled>>
    BY <1>9 DEF Unreached, Scanned
  <2>2. Cardinality(Hashing') = Cardinality(Hashing) - 1
    BY <2>1, HashingChanges
  <2>3. Cardinality(Hashing) \in Nat /\ Len(workCh) \in Nat
    BY HashingFinite
  <2>. QED
    BY <2>1, <2>2, <2>3
<1>10. ASSUME UNCHANGED vars PROVE CountInv'
  <2>1. Hashing' = Hashing
    BY <1>10 DEF vars, Hashing
  <2>. QED
    BY <1>10, <2>1 DEF vars
<1>. QED
  BY <1>1, <1>2, <1>3, <1>4, <1>5, <1>6, <1>7, <1>8, <1>9, <1>10 DEF Next, Main, Work

LEMMA MissedFinite == TypeOK => IsFiniteSet(Missed) /\ Cardinality(Missed) \in Nat
  <1>. SUFFICES ASSUME TypeOK PROVE IsFiniteSet(Missed) /\ Cardinality(Missed) \in Nat
    OBVIOUS
  <1>1. IsFiniteSet(Entries)
    BY ScanPoolAssumption, FS_Interval DEF Entries
  <1>2. Missed \subseteq Entries
    BY DEF Missed, TypeOK
  <1>3. IsFiniteSet(Missed)
    BY <1>1, <1>2, FS_Subset
  <1>. QED
    BY <1>3, FS_CardinalityType

\* No more are missed than before, or one more and one more error is counted.
LEMMA MissedBound ==
    ASSUME TypeOK, TypeOK', MissedInv, cancelled' = cancelled \/ cancelled' = TRUE,
           NEW x,
           \/ Missed' \subseteq Missed /\ errCount' = errCount
           \/ Missed' \subseteq Missed \cup {x} /\ errCount' = errCount + 1
    PROVE  MissedInv'
  <1>. SUFFICES ASSUME cancelled' = FALSE PROVE Cardinality(Missed') <= errCount'
    BY DEF MissedInv
  <1>1. Cardinality(Missed) <= errCount /\ errCount \in Nat
    BY DEF MissedInv, TypeOK
  <1>2. IsFiniteSet(Missed) /\ Cardinality(Missed) \in Nat
    BY MissedFinite
  <1>3. CASE Missed' \subseteq Missed /\ errCount' = errCount
    <2>1. Cardinality(Missed') <= Cardinality(Missed)
      BY <1>2, <1>3, FS_Subset
    <2>2. Cardinality(Missed') \in Nat
      BY <1>2, <1>3, FS_Subset, FS_CardinalityType
    <2>. QED
      BY <1>1, <1>2, <1>3, <2>1, <2>2
  <1>4. CASE Missed' \subseteq Missed \cup {x} /\ errCount' = errCount + 1
    <2>1. IsFiniteSet(Missed \cup {x})
          /\ (Cardinality(Missed \cup {x}) = Cardinality(Missed)
              \/ Cardinality(Missed \cup {x}) = Cardinality(Missed) + 1)
      BY <1>2, FS_AddElement
    <2>2. Cardinality(Missed') <= Cardinality(Missed \cup {x}) /\ IsFiniteSet(Missed')
      BY <1>4, <2>1, FS_Subset
    <2>3. Cardinality(Missed') \in Nat
      BY <2>2, FS_CardinalityType
    <2>. QED
      BY <1>1, <1>2, <1>4, <2>1, <2>2, <2>3
  <1>. QED
    BY <1>3, <1>4

LEMMA MissedStep == TypeOK /\ StageInv /\ MissedInv /\ [Next]_vars => MissedInv'
<1>. SUFFICES ASSUME TypeOK, StageInv, MissedInv, [Next]_vars PROVE MissedInv'
  OBVIOUS
<1>. USE ScanPoolAssumption DEF TypeOK, StageInv, producer, pool, counts
<1>1. ASSUME Test PROVE MissedInv'
  <2>1. Missed' \subseteq Missed
    BY <1>1 DEF Test, Missed
  <2>2. errCount' = errCount /\ (cancelled' = cancelled \/ cancelled' = TRUE)
    BY <1>1 DEF Test
  <2>. QED
    BY <2>1, <2>2, MissedBound, TypeStep
<1>2. ASSUME Send PROVE MissedInv'
  <2>1. /\ at = "sending" /\ workCh' = Append(workCh, next) /\ next \in Entries
        /\ next' = next + 1 /\ UNCHANGED <<damaged, inconsistencies, item, errCount, cancelled>>
    BY <1>2 DEF Send
  <2>2. Elems(workCh') = Elems(workCh) \cup {next}
    <3>1. workCh \in Seq(Entries)
      OBVIOUS
    <3>. QED
      BY <2>1, <3>1, SentElems, Zenon
  <2>3. \A e \in damaged : e < next' => e < next \/ e = next
    BY <2>1
  <2>4. Missed' \subseteq Missed
    BY <2>1, <2>2, <2>3 DEF Missed
  <2>. QED
    BY <2>1, <2>4, MissedBound, TypeStep
<1>3. ASSUME WaitEnds PROVE MissedInv'
  <2>1. Missed' \subseteq Missed
    BY <1>3 DEF WaitEnds, Missed
  <2>2. errCount' = errCount /\ (cancelled' = cancelled \/ cancelled' = TRUE)
    BY <1>3 DEF WaitEnds
  <2>. QED
    BY <2>1, <2>2, MissedBound, TypeStep
<1>4. ASSUME Decide PROVE MissedInv'
  <2>1. Missed' \subseteq Missed
    BY <1>4 DEF Decide, Missed
  <2>2. errCount' = errCount /\ (cancelled' = cancelled \/ cancelled' = TRUE)
    BY <1>4 DEF Decide
  <2>. QED
    BY <2>1, <2>2, MissedBound, TypeStep
<1>5. ASSUME StopScan PROVE MissedInv'
  <2>1. Missed' \subseteq Missed
    BY <1>5 DEF StopScan, Missed
  <2>2. errCount' = errCount /\ (cancelled' = cancelled \/ cancelled' = TRUE)
    BY <1>5 DEF StopScan
  <2>. QED
    BY <2>1, <2>2, MissedBound, TypeStep
<1>6. ASSUME NEW w \in Workers, Receive(w) PROVE MissedInv'
  <2>1. CASE cancelled
    <3>1. cancelled' = TRUE
      BY <1>6, <2>1 DEF Receive
    <3>. QED
      BY <3>1 DEF MissedInv
  <2>2. CASE ~cancelled
    <3>1. /\ pc[w] = "ready" /\ workCh # <<>> /\ workCh' = Tail(workCh)
          /\ item' = [item EXCEPT ![w] = Head(workCh)]
          /\ UNCHANGED <<damaged, inconsistencies, next, errCount, cancelled>>
      BY <1>6, <2>2 DEF Receive
    <3>2. Elems(workCh) = {Head(workCh)} \cup Elems(workCh')
      BY <3>1, TailElems
    <3>3. item[w] = NoEntry /\ item'[w] = Head(workCh)
         /\ \A x \in Workers \ {w} : item'[x] = item[x]
      BY <3>1 DEF StageInv
    <3>4. NoEntry \notin damaged
      BY DEF Entries
    <3>5. Missed' \subseteq Missed
      BY <3>1, <3>2, <3>3, <3>4 DEF Missed
    <3>. QED
      BY <3>1, <3>5, MissedBound, TypeStep
  <2>. QED
    BY <2>1, <2>2
<1>7. ASSUME NEW w \in Workers, RangeEnds(w) PROVE MissedInv'
  <2>1. Missed' \subseteq Missed
    BY <1>7 DEF RangeEnds, Missed
  <2>2. errCount' = errCount /\ (cancelled' = cancelled \/ cancelled' = TRUE)
    BY <1>7 DEF RangeEnds
  <2>. QED
    BY <2>1, <2>2, MissedBound, TypeStep
<1>8. ASSUME NEW w \in Workers, Verify(w) PROVE MissedInv'
  <2>1. /\ pc[w] = "hashing" /\ item' = [item EXCEPT ![w] = NoEntry]
        /\ inconsistencies' = inconsistencies \cup ({item[w]} \cap damaged)
        /\ UNCHANGED <<damaged, workCh, next, errCount, cancelled>>
    BY <1>8 DEF Verify, Scanned
  <2>2. \A x \in Workers \ {w} : item'[x] = item[x]
    BY <2>1
  <2>3. Missed' \subseteq Missed
    BY <2>1, <2>2 DEF Missed
  <2>. QED
    BY <2>1, <2>3, MissedBound, TypeStep
<1>9. ASSUME NEW w \in Workers, Unreached(w) PROVE MissedInv'
  <2>1. /\ pc[w] = "hashing" /\ item' = [item EXCEPT ![w] = NoEntry]
        /\ errCount' = errCount + 1
        /\ UNCHANGED <<damaged, inconsistencies, workCh, next, cancelled>>
    BY <1>9 DEF Unreached, Scanned
  <2>2. \A x \in Workers \ {w} : item'[x] = item[x]
    BY <2>1
  <2>3. Missed' \subseteq Missed \cup {item[w]}
    BY <2>1, <2>2 DEF Missed
  <2>. QED
    BY <2>1, <2>3, MissedBound, TypeStep
<1>10. ASSUME UNCHANGED vars PROVE MissedInv'
  <2>1. Missed' \subseteq Missed
    BY <1>10 DEF vars, Missed
  <2>2. errCount' = errCount /\ (cancelled' = cancelled \/ cancelled' = TRUE)
    BY <1>10 DEF vars
  <2>. QED
    BY <2>1, <2>2, MissedBound, TypeStep
<1>. QED
  BY <1>1, <1>2, <1>3, <1>4, <1>5, <1>6, <1>7, <1>8, <1>9, <1>10 DEF Next, Main, Work

-----------------------------------------------------------------------------
LEMMA InvInit == Init => ScanInv
<1>. SUFFICES ASSUME Init PROVE ScanInv
  OBVIOUS
<1>. USE ScanPoolAssumption
<1>1. cancelled = FALSE
  BY Zenon DEF Init
<1>2. /\ damaged \subseteq Entries /\ at = "send" /\ next = 1 /\ workCh = <<>>
      /\ inconsistencies = {} /\ filesScanned = 0 /\ errCount = 0 /\ status = "running"
  BY DEF Init
<1>3. /\ pc \in [Workers -> {"ready", "hashing", "gone"}]
      /\ item \in [Workers -> Entries \cup {NoEntry}]
      /\ \A w \in Workers : pc[w] = "ready" /\ item[w] = NoEntry
  BY DEF Init
<1>4. TypeOK
  <2>1. cancelled \in BOOLEAN
    BY <1>1
  <2>2. workCh \in Seq(Entries) /\ Len(workCh) <= Capacity
    BY <1>2
  <2>. QED
    BY <1>2, <1>3, <2>1, <2>2 DEF TypeOK
<1>5. StageInv
  BY <1>2, <1>3 DEF StageInv
<1>6. CountInv
  <2>1. Hashing = {}
    BY <1>3 DEF Hashing
  <2>2. Cardinality(Hashing) = 0 /\ Len(workCh) = 0
    BY <1>2, <2>1, FS_EmptySet
  <2>. QED
    BY <1>2, <2>2 DEF CountInv
<1>7. MissedInv
  <2>1. \A e \in damaged : ~(e < next)
    BY <1>2 DEF Entries
  <2>2. Missed = {}
    BY <2>1 DEF Missed
  <2>. QED
    BY <1>2, <2>2, FS_EmptySet DEF MissedInv
<1>. QED
  BY <1>4, <1>5, <1>6, <1>7 DEF ScanInv

LEMMA InvStep == ScanInv /\ [Next]_vars => ScanInv'
  BY TypeStep, StageStep, CountStep, MissedStep DEF ScanInv

\* The strengthened invariant of a scan.
THEOREM ScanInvariant == Spec => []ScanInv
  BY InvInit, InvStep, PTL DEF Spec

\* Type correctness of the channel, the workers and the counts: the channel
\* never holds more than its capacity.
THEOREM ScanTypeCorrect == Spec => []TypeOK
<1>1. ScanInv => TypeOK
  BY DEF ScanInv
<1>. QED
  BY <1>1, ScanInvariant, PTL

\* A scan that nobody stopped has scanned every entry, found only real damage,
\* and missed no more of it than it counted errors.
THEOREM VerdictRightHolds == Spec => []VerdictRight
<1>1. ScanInv => VerdictRight
  <2>. SUFFICES ASSUME ScanInv, status \in {"completed", "completed_with_errors"}
                PROVE  /\ filesScanned = NumEntries /\ inconsistencies \subseteq damaged
                       /\ Cardinality(damaged \ inconsistencies) <= errCount
                       /\ status = "completed" => damaged = {}
    BY DEF VerdictRight
  <2>. USE ScanPoolAssumption DEF ScanInv
  <2>1. /\ at = "returned" /\ next \notin Entries /\ cancelled = FALSE
        /\ inconsistencies \subseteq damaged
        /\ status = "completed" => inconsistencies = {} /\ errCount = 0
    BY DEF StageInv
  <2>2. \A w \in Workers : pc[w] = "gone" /\ item[w] = NoEntry
    BY <2>1 DEF StageInv
  <2>3. workCh = <<>>
    BY <2>1, <2>2 DEF StageInv
  <2>4. Hashing = {}
    BY <2>2 DEF Hashing
  <2>5. Cardinality(Hashing) = 0 /\ Len(workCh) = 0 /\ Elems(workCh) = {}
    BY <2>3, <2>4, FS_EmptySet, EmptyElems
  <2>6. next = NumEntries + 1 /\ damaged \subseteq Entries /\ filesScanned \in Nat
        /\ errCount \in Nat
    BY <2>1 DEF TypeOK, Entries
  <2>7. filesScanned = NumEntries
    BY <2>1, <2>5, <2>6 DEF CountInv
  <2>8. \A e \in damaged : e < next /\ e # NoEntry
    BY <2>6 DEF Entries
  <2>9. Missed = damaged \ inconsistencies
    BY <2>2, <2>5, <2>8 DEF Missed
  <2>10. Cardinality(damaged \ inconsistencies) <= errCount
    BY <2>1, <2>9 DEF MissedInv
  <2>11. status = "completed" => damaged = {}
    <3>. SUFFICES ASSUME status = "completed" PROVE Missed = {} /\ inconsistencies = {}
      BY <2>9
    <3>1. IsFiniteSet(Missed) /\ Cardinality(Missed) \in Nat
      BY MissedFinite
    <3>2. Cardinality(Missed) = 0
      BY <2>1, <2>9, <2>10, <3>1
    <3>. QED
      BY <2>1, <3>1, <3>2, FS_EmptySet
  <2>. QED
    BY <2>1, <2>7, <2>10, <2>11
<1>. QED
  BY <1>1, ScanInvariant, PTL

-----------------------------------------------------------------------------
(* Progress.  ENABLED is out of the prover's reach, so what ScanReturns needs *)
(* of the code is stated by the guards of the actions and by a measure.       *)

MainReady ==
    \/ at \in {"send", "decide"}
    \/ at = "sending" /\ Len(workCh) < Capacity
    \/ at = "wait" /\ \A w \in Workers : pc[w] = "gone"

WorkReady(w) ==
    \/ pc[w] = "hashing"
    \/ pc[w] = "ready" /\ workCh # <<>>
    \/ pc[w] = "ready" /\ Closed

\* What the sender still has to do, in steps.
Rank == [send |-> 3, sending |-> 2, wait |-> 2, decide |-> 1, returned |-> 0]

SendLeft == Rank[at] + (IF Closed THEN 0 ELSE 4 * (NumEntries + 1 - next))

Staying == {w \in Workers : pc[w] # "gone"}

\* No step of the scan, nor its stop, can be taken more often than this.
Left == SendLeft + 2 * Len(workCh) + Cardinality(Hashing) + Cardinality(Staying)
            + (IF cancelled THEN 0 ELSE 1)

\* A worker that leaves while the sender is at its send has made room for it.
RoomInv == at = "sending" /\ Staying # Workers => Len(workCh) < Capacity

LEMMA RoomStep == ScanInv /\ RoomInv /\ [Next]_vars => RoomInv'
<1>. SUFFICES ASSUME ScanInv, RoomInv, [Next]_vars, at' = "sending", Staying' # Workers
              PROVE  Len(workCh') < Capacity
  BY DEF RoomInv
<1>. USE ScanPoolAssumption DEF ScanInv, TypeOK, StageInv, RoomInv, Closed, producer, pool, counts
<1>1. CASE Test
  <2>1. at = "send" /\ cancelled = FALSE /\ pc' = pc
    BY <1>1 DEF Test
  <2>. QED
    BY <2>1 DEF Staying
<1>2. CASE Send \/ WaitEnds \/ Decide
  BY <1>2 DEF Send, WaitEnds, Decide
<1>3. CASE StopScan
  BY <1>3 DEF StopScan, Staying
<1>4. ASSUME NEW w \in Workers, Receive(w) PROVE Len(workCh') < Capacity
  <2>1. workCh # <<>> /\ workCh' = Tail(workCh) /\ Len(workCh) <= Capacity
    BY <1>4 DEF Receive
  <2>2. Len(workCh') = Len(workCh) - 1 /\ Len(workCh) \in Nat
    BY <2>1, TailLen
  <2>. QED
    BY <2>1, <2>2
<1>5. ASSUME NEW w \in Workers, RangeEnds(w) PROVE FALSE
  BY <1>5 DEF RangeEnds
<1>6. ASSUME NEW w \in Workers, Verify(w) \/ Unreached(w) PROVE Len(workCh') < Capacity
  <2>1. pc[w] = "hashing" /\ pc' = [pc EXCEPT ![w] = "ready"] /\ UNCHANGED <<at, workCh>>
    BY <1>6 DEF Verify, Unreached, Scanned
  <2>2. Staying' = Staying
    BY <2>1 DEF Staying
  <2>. QED
    BY <2>1, <2>2
<1>7. CASE UNCHANGED vars
  BY <1>7 DEF vars, Staying
<1>. QED
  BY <1>1, <1>2, <1>3, <1>4, <1>5, <1>6, <1>7 DEF Next, Main, Work

\* A scan that has not returned never comes to rest: in every state the sender
\* or a worker can go on, also when StopScan finds the channel full and the
\* sender waiting for room in it (scan.go sends without a select).
THEOREM ScanNeverStuck ==
    Spec => [](at # "returned" => MainReady \/ \E w \in Workers : WorkReady(w))
<1>1. Init => ScanInv /\ RoomInv
  BY InvInit DEF Init, RoomInv
<1>2. ScanInv /\ RoomInv /\ [Next]_vars => (ScanInv /\ RoomInv)'
  BY InvStep, RoomStep
<1>3. ScanInv /\ RoomInv =>
          (at # "returned" => MainReady \/ \E w \in Workers : WorkReady(w))
  <2>. SUFFICES ASSUME ScanInv, RoomInv, at # "returned", ~MainReady
                PROVE  \E w \in Workers : WorkReady(w)
    OBVIOUS
  <2>. USE ScanPoolAssumption DEF ScanInv, TypeOK
  <2>1. CASE at = "sending"
    <3>1. ~(Len(workCh) < Capacity) /\ workCh # <<>>
      BY <2>1 DEF MainReady
    <3>2. Staying = Workers
      BY <2>1, <3>1 DEF RoomInv
    <3>3. PICK w \in Workers : TRUE
      OBVIOUS
    <3>4. pc[w] \in {"ready", "hashing"}
      BY <3>2 DEF Staying
    <3>. QED
      BY <3>1, <3>4 DEF WorkReady
  <2>2. CASE at = "wait"
    BY <2>2 DEF MainReady, WorkReady, Closed
  <2>. QED
    BY <2>1, <2>2 DEF MainReady
<1>. QED
  BY <1>1, <1>2, <1>3, PTL DEF Spec

LEMMA StayingFinite == IsFiniteSet(Staying) /\ Cardinality(Staying) \in Nat
  <1>1. IsFiniteSet(Staying)
    BY ScanPoolAssumption, FS_Subset DEF Staying
  <1>. QED
    BY <1>1, FS_CardinalityType

\* A worker that leaves lowers the number that stay by one.
LEMMA StayingDrops ==
    ASSUME TypeOK, NEW w \in Workers, pc[w] # "gone", pc' = [pc EXCEPT ![w] = "gone"]
    PROVE  Cardinality(Staying') = Cardinality(Staying) - 1
  <1>1. Staying' = Staying \ {w} /\ w \in Staying
    BY DEF Staying, TypeOK
  <1>. QED
    BY <1>1, StayingFinite, FS_RemoveElement

LEMMA Ranks ==
    /\ Rank["send"] = 3 /\ Rank["sending"] = 2 /\ Rank["wait"] = 2
    /\ Rank["decide"] = 1 /\ Rank["returned"] = 0
  BY DEF Rank

LEMMA SendLeftType == TypeOK => SendLeft \in Nat
  <1>. SUFFICES ASSUME TypeOK PROVE SendLeft \in Nat
    OBVIOUS
  <1>1. NumEntries \in Nat /\ next \in 1 .. NumEntries + 1
    BY ScanPoolAssumption DEF TypeOK
  <1>2. NumEntries + 1 - next \in Nat
    BY <1>1
  <1>. QED
    BY <1>2, Ranks DEF SendLeft, Closed, TypeOK

LEMMA LeftType == TypeOK => Left \in Nat
  <1>. SUFFICES ASSUME TypeOK PROVE Left \in Nat
    OBVIOUS
  <1>1. Len(workCh) \in Nat /\ SendLeft \in Nat
    BY SendLeftType DEF TypeOK
  <1>. QED
    BY <1>1, HashingFinite, StayingFinite DEF Left

LEMMA LeftStep == ScanInv /\ ScanInv' /\ Next => Left' < Left
<1>. SUFFICES ASSUME ScanInv, ScanInv', Next PROVE Left' < Left
  OBVIOUS
<1>. USE ScanPoolAssumption DEF ScanInv
<1>0. /\ SendLeft \in Nat /\ Len(workCh) \in Nat /\ Len(workCh') \in Nat
      /\ Cardinality(Hashing) \in Nat /\ Cardinality(Staying) \in Nat
      /\ NumEntries \in Nat /\ next \in 1 .. NumEntries + 1 /\ cancelled \in BOOLEAN
  BY SendLeftType, HashingFinite, StayingFinite DEF TypeOK
<1>1. ASSUME Test \/ WaitEnds \/ Decide PROVE Left' < Left
  <2>1. UNCHANGED <<next, workCh, pc, cancelled>>
    BY <1>1 DEF Test, WaitEnds, Decide, pool
  <2>2. SendLeft' < SendLeft /\ SendLeft' \in Nat
    <3>1. \/ at = "send" /\ at' \in {"sending", "wait"}
          \/ at = "wait" /\ at' = "decide"
          \/ at = "decide" /\ at' = "returned"
      BY <1>1 DEF Test, WaitEnds, Decide
    <3>2. NumEntries + 1 - next \in Nat
      BY <1>0
    <3>. QED
      BY <2>1, <3>1, <3>2, Ranks DEF SendLeft, Closed
  <2>3. Hashing' = Hashing /\ Staying' = Staying
    BY <2>1 DEF Hashing, Staying
  <2>. QED
    BY <1>0, <2>1, <2>2, <2>3 DEF Left
<1>2. ASSUME Send PROVE Left' < Left
  <2>1. /\ at = "sending" /\ at' = "send" /\ next' = next + 1 /\ next \in Entries
        /\ workCh' = Append(workCh, next) /\ UNCHANGED <<pc, cancelled>>
    BY <1>2 DEF Send, StageInv, pool
  <2>2. SendLeft' = SendLeft - 3
    BY <1>0, <2>1, Ranks DEF SendLeft, Closed
  <2>3. Len(workCh') = Len(workCh) + 1
    BY <2>1, SendLen DEF TypeOK
  <2>4. Hashing' = Hashing /\ Staying' = Staying
    BY <2>1 DEF Hashing, Staying
  <2>. QED
    BY <1>0, <2>1, <2>2, <2>3, <2>4 DEF Left
<1>3. ASSUME StopScan PROVE Left' < Left
  <2>1. cancelled = FALSE /\ cancelled' = TRUE /\ UNCHANGED <<at, next, workCh, pc>>
    BY <1>3 DEF StopScan, TypeOK, producer, pool
  <2>2. SendLeft' = SendLeft /\ Hashing' = Hashing /\ Staying' = Staying
    BY <2>1 DEF SendLeft, Closed, Hashing, Staying
  <2>. QED
    BY <1>0, <2>1, <2>2 DEF Left
<1>4. ASSUME NEW w \in Workers, Receive(w) PROVE Left' < Left
  <2>1. /\ pc[w] = "ready" /\ workCh # <<>> /\ workCh' = Tail(workCh)
        /\ UNCHANGED <<at, next, cancelled>>
    BY <1>4 DEF Receive, producer
  <2>2. Len(workCh') = Len(workCh) - 1
    BY <2>1, TailLen DEF TypeOK
  <2>3. SendLeft' = SendLeft
    BY <2>1 DEF SendLeft, Closed
  <2>4. CASE cancelled
    <3>1. pc' = [pc EXCEPT ![w] = "gone"]
      BY <1>4, <2>4 DEF Receive
    <3>2. Cardinality(Staying') = Cardinality(Staying) - 1
      BY <2>1, <3>1, StayingDrops
    <3>3. Hashing' = Hashing
      BY <2>1, <3>1 DEF Hashing, TypeOK
    <3>. QED
      BY <1>0, <2>1, <2>2, <2>3, <3>2, <3>3 DEF Left
  <2>5. CASE ~cancelled
    <3>1. pc' = [pc EXCEPT ![w] = "hashing"]
      BY <1>4, <2>5 DEF Receive
    <3>2. Cardinality(Hashing') = Cardinality(Hashing) + 1
      BY <2>1, <3>1, HashingChanges
    <3>3. Staying' = Staying
      BY <2>1, <3>1 DEF Staying, TypeOK
    <3>. QED
      BY <1>0, <2>1, <2>2, <2>3, <3>2, <3>3 DEF Left
  <2>. QED
    BY <2>4, <2>5
<1>5. ASSUME NEW w \in Workers, RangeEnds(w) PROVE Left' < Left
  <2>1. /\ pc[w] = "ready" /\ pc' = [pc EXCEPT ![w] = "gone"]
        /\ UNCHANGED <<at, next, workCh, cancelled>>
    BY <1>5 DEF RangeEnds, producer
  <2>2. Cardinality(Staying') = Cardinality(Staying) - 1
    BY <2>1, StayingDrops
  <2>3. SendLeft' = SendLeft /\ Hashing' = Hashing
    BY <2>1 DEF SendLeft, Closed, Hashing, TypeOK
  <2>. QED
    BY <1>0, <2>1, <2>2, <2>3 DEF Left
<1>6. ASSUME NEW w \in Workers, Verify(w) \/ Unreached(w) PROVE Left' < Left
  <2>1. /\ pc[w] = "hashing" /\ pc' = [pc EXCEPT ![w] = "ready"]
        /\ UNCHANGED <<at, next, workCh, cancelled>>
    BY <1>6 DEF Verify, Unreached, Scanned, producer
  <2>2. Cardinality(Hashing') = Cardinality(Hashing) - 1
    BY <2>1, HashingChanges
  <2>3. SendLeft' = SendLeft /\ Staying' = Staying
    BY <2>1 DEF SendLeft, Closed, Staying, TypeOK
  <2>. QED
    BY <1>0, <2>1, <2>2, <2>3 DEF Left
<1>. QED
  BY <1>1, <1>2, <1>3, <1>4, <1>5, <1>6 DEF Next, Main, Work

\* Every step of a scan brings its end nearer, whatever the order in which the
\* sender, the workers and StopScan come: with ScanNeverStuck, a scan whose
\* goroutines run returns (ScanReturns).
THEOREM ScanComesToAnEnd == Spec => [](Left \in Nat) /\ [][Left' < Left]_vars
<1>1. ScanInv => Left \in Nat
  BY LeftType DEF ScanInv
<1>2. ScanInv /\ ScanInv' /\ [Next]_vars => [Left' < Left]_vars
  BY LeftStep
<1>. QED
  BY <1>1, <1>2, ScanInvariant, PTL DEF Spec
=============================================================================
