---------------------------- MODULE WorkerPoolProofs ----------------------------
(***************************************************************************)
(* Proofs about WorkerPool, for any number of workers and files and any    *)
(* capacity of the channel: once a worker has got a connection, the        *)
(* retention pass finds every file dealt with, and a run that ends as      *)
(* completed has saved all of them.                                        *)
(***************************************************************************)
EXTENDS WorkerPool, FiniteSetTheorems, TLAPS

Elems(s) == {s[i] : i \in 1 .. Len(s)}

\* Where everybody is: an open end of the walk means a cancelled context.
StageInv ==
    /\ \A w \in Workers : item[w] # NoFile <=> pc[w] \in {"received", "processing"}
    /\ at \in {"retain", "decide", "returned"} => \A w \in Workers : pc[w] = "gone"
    /\ at = "send" => next \in Files
    /\ at \in {"wait", "decide"} /\ next \in Files => cancelled = TRUE
    /\ at = "retain" => next \notin Files
    /\ status # "running" => at = "returned"
    /\ status = "completed" => next \notin Files /\ errCount = 0 /\ cancelled = FALSE

Gone == {w \in Workers : pc[w] = "gone"}

\* A worker leaves a channel that is not drained only without a connection.
GoneInv == (Closed /\ workCh = <<>>) \/ Cardinality(Gone) <= refused

\* What is in the channel or with a worker has been seen by the walk.
SeenInv ==
    /\ \A f \in Elems(workCh) : f \in seenPaths /\ f < next
    /\ \A w \in Workers : item[w] # NoFile => item[w] \in seenPaths /\ item[w] < next
    /\ \A f \in seenPaths : f <= next
    /\ at = "walk" => next \notin seenPaths
    /\ at = "send" => next \in seenPaths
    /\ \A f \in Files : f < next =>
        (f \in seenPaths <=> outcome[f] \notin {"unreadable", "excluded"})
    /\ \A f \in Files : next <= f => outcome[f] = "none"

\* A file without an outcome is on its way, and each bad outcome leaves a mark.
OutcomeInv ==
    /\ \A f \in Files : f < next /\ outcome[f] = "none" =>
        f \in Elems(workCh) \/ \E w \in Workers : item[w] = f
    /\ \A f \in Files : outcome[f] = "dropped" => cancelled = TRUE
    /\ \A f \in Files : outcome[f] \in {"unreadable", "failed"} => errCount > 0

PoolInv == TypeOK /\ StageInv /\ GoneInv /\ SeenInv /\ OutcomeInv

-----------------------------------------------------------------------------
LEMMA AppendElems ==
    ASSUME NEW S, NEW s \in Seq(S), NEW x \in S
    PROVE  Elems(Append(s, x)) = Elems(s) \cup {x}
  <1>1. Len(Append(s, x)) = Len(s) + 1 /\ Len(s) \in Nat
    OBVIOUS
  <1>2. \A i \in 1 .. Len(s) : Append(s, x)[i] = s[i]
    OBVIOUS
  <1>3. Append(s, x)[Len(s) + 1] = x
    OBVIOUS
  <1>4. \A i \in 1 .. Len(s) + 1 : i \in 1 .. Len(s) \/ i = Len(s) + 1
    BY <1>1
  <1>5. 1 .. Len(s) \subseteq 1 .. Len(s) + 1 /\ Len(s) + 1 \in 1 .. Len(s) + 1
    BY <1>1
  <1>. HIDE DEF Elems
  <1>6. Elems(Append(s, x)) = {Append(s, x)[i] : i \in 1 .. Len(s) + 1}
    BY <1>1 DEF Elems
  <1>. QED
    BY <1>2, <1>3, <1>4, <1>5, <1>6, Zenon DEF Elems

LEMMA SentElems ==
    \A s \in Seq(Files), x \in Files : Elems(Append(s, x)) = Elems(s) \cup {x}
  BY AppendElems

LEMMA TailElems ==
    ASSUME NEW S, NEW s \in Seq(S), s # <<>>
    PROVE  /\ Elems(s) = {Head(s)} \cup Elems(Tail(s))
           /\ Head(s) \in S /\ Tail(s) \in Seq(S) /\ Len(Tail(s)) <= Len(s)
  <1>1. /\ Len(Tail(s)) = Len(s) - 1 /\ Len(s) \in Nat \ {0}
        /\ Head(s) = s[1] /\ \A i \in 1 .. Len(s) - 1 : Tail(s)[i] = s[i + 1]
    OBVIOUS
  <1>2. Elems(Tail(s)) = {s[i + 1] : i \in 1 .. Len(s) - 1}
    BY <1>1 DEF Elems
  <1>3. ASSUME NEW i \in 1 .. Len(s) PROVE i = 1 \/ (i - 1 \in 1 .. Len(s) - 1 /\ (i - 1) + 1 = i)
    BY <1>1
  <1>4. Elems(s) \subseteq {Head(s)} \cup Elems(Tail(s))
    BY <1>1, <1>2, <1>3 DEF Elems
  <1>5. {Head(s)} \cup Elems(Tail(s)) \subseteq Elems(s)
    BY <1>1, <1>2 DEF Elems
  <1>6. Head(s) \in S /\ Tail(s) \in Seq(S) /\ Len(Tail(s)) <= Len(s)
    BY <1>1
  <1>. QED
    BY <1>4, <1>5, <1>6

LEMMA EmptyElems == Elems(<<>>) = {}
  BY DEF Elems

LEMMA TypeStep == TypeOK /\ StageInv /\ [Next]_vars => TypeOK'
<1>. SUFFICES ASSUME TypeOK, StageInv, [Next]_vars PROVE TypeOK'
  OBVIOUS
<1>. USE WorkerPoolAssumption DEF TypeOK, StageInv, Files, walker, pool
<1>1. ASSUME VisitFails PROVE TypeOK'
  BY <1>1 DEF VisitFails, Pass
<1>2. ASSUME VisitExcluded PROVE TypeOK'
  BY <1>2 DEF VisitExcluded, Pass
<1>3. ASSUME Visit PROVE TypeOK'
  BY <1>3 DEF Visit
<1>4. ASSUME Send PROVE TypeOK'
  BY <1>4 DEF Send
<1>5. ASSUME SendCancelled PROVE TypeOK'
  BY <1>5 DEF SendCancelled
<1>6. ASSUME WalkEnds PROVE TypeOK'
  BY <1>6 DEF WalkEnds
<1>7. ASSUME WaitEnds PROVE TypeOK'
  BY <1>7 DEF WaitEnds
<1>8. ASSUME Retain PROVE TypeOK'
  BY <1>8 DEF Retain
<1>9. ASSUME Decide PROVE TypeOK'
  BY <1>9 DEF Decide
<1>10. ASSUME Stop PROVE TypeOK'
  BY <1>10 DEF Stop
<1>11. ASSUME NEW w \in Workers, Connect(w) PROVE TypeOK'
  BY <1>11 DEF Connect
<1>12. ASSUME NEW w \in Workers, ConnectFails(w) PROVE TypeOK'
  BY <1>12 DEF ConnectFails
<1>13. ASSUME NEW w \in Workers, Receive(w) PROVE TypeOK'
  <2>1. Head(workCh) \in Files /\ Tail(workCh) \in Seq(Files) /\ Len(Tail(workCh)) <= Len(workCh)
    BY <1>13, TailElems DEF Receive
  <2>. QED
    BY <1>13, <2>1 DEF Receive
<1>14. ASSUME NEW w \in Workers, RangeEnds(w) PROVE TypeOK'
  BY <1>14 DEF RangeEnds
<1>15. ASSUME NEW w \in Workers, Begin(w) PROVE TypeOK'
  BY <1>15 DEF Begin
<1>16. ASSUME NEW w \in Workers, End(w) PROVE TypeOK'
  BY <1>16 DEF End
<1>17. ASSUME UNCHANGED vars PROVE TypeOK'
  BY <1>17 DEF vars
<1>. QED
  BY <1>1, <1>2, <1>3, <1>4, <1>5, <1>6, <1>7, <1>8, <1>9, <1>10, <1>11, <1>12, <1>13,
     <1>14, <1>15, <1>16, <1>17 DEF Next, Main, Work

LEMMA StageStep == TypeOK /\ StageInv /\ [Next]_vars => StageInv'
<1>. SUFFICES ASSUME TypeOK, StageInv, [Next]_vars PROVE StageInv'
  OBVIOUS
<1>. USE WorkerPoolAssumption DEF TypeOK, StageInv, Files, walker, pool
<1>1. ASSUME VisitFails PROVE StageInv'
  BY <1>1 DEF VisitFails, Pass
<1>2. ASSUME VisitExcluded PROVE StageInv'
  BY <1>2 DEF VisitExcluded, Pass
<1>3. ASSUME Visit PROVE StageInv'
  BY <1>3 DEF Visit
<1>4. ASSUME Send PROVE StageInv'
  BY <1>4 DEF Send
<1>5. ASSUME SendCancelled PROVE StageInv'
  BY <1>5 DEF SendCancelled
<1>6. ASSUME WalkEnds PROVE StageInv'
  BY <1>6 DEF WalkEnds
<1>7. ASSUME WaitEnds PROVE StageInv'
  BY <1>7 DEF WaitEnds
<1>8. ASSUME Retain PROVE StageInv'
  BY <1>8 DEF Retain
<1>9. ASSUME Decide PROVE StageInv'
  BY <1>9 DEF Decide
<1>10. ASSUME Stop PROVE StageInv'
  BY <1>10 DEF Stop
<1>11. ASSUME NEW w \in Workers, Connect(w) PROVE StageInv'
  BY <1>11 DEF Connect
<1>12. ASSUME NEW w \in Workers, ConnectFails(w) PROVE StageInv'
  BY <1>12 DEF ConnectFails
<1>13. ASSUME NEW w \in Workers, Receive(w) PROVE StageInv'
  BY <1>13 DEF Receive
<1>14. ASSUME NEW w \in Workers, RangeEnds(w) PROVE StageInv'
  BY <1>14 DEF RangeEnds
<1>15. ASSUME NEW w \in Workers, Begin(w) PROVE StageInv'
  BY <1>15 DEF Begin
<1>16. ASSUME NEW w \in Workers, End(w) PROVE StageInv'
  BY <1>16 DEF End
<1>17. ASSUME UNCHANGED vars PROVE StageInv'
  BY <1>17 DEF vars
<1>. QED
  BY <1>1, <1>2, <1>3, <1>4, <1>5, <1>6, <1>7, <1>8, <1>9, <1>10, <1>11, <1>12, <1>13,
     <1>14, <1>15, <1>16, <1>17 DEF Next, Main, Work

LEMMA GoneStep == TypeOK /\ GoneInv /\ [Next]_vars => GoneInv'
<1>. SUFFICES ASSUME TypeOK, GoneInv, [Next]_vars PROVE GoneInv'
  OBVIOUS
<1>. USE WorkerPoolAssumption DEF TypeOK, GoneInv, Gone, Closed, walker, pool
<1>1. ASSUME VisitFails PROVE GoneInv'
  BY <1>1 DEF VisitFails, Pass
<1>2. ASSUME VisitExcluded PROVE GoneInv'
  BY <1>2 DEF VisitExcluded, Pass
<1>3. ASSUME Visit PROVE GoneInv'
  BY <1>3 DEF Visit
<1>4. ASSUME Send PROVE GoneInv'
  BY <1>4 DEF Send
<1>5. ASSUME SendCancelled PROVE GoneInv'
  BY <1>5 DEF SendCancelled
<1>6. ASSUME WalkEnds PROVE GoneInv'
  BY <1>6 DEF WalkEnds
<1>7. ASSUME WaitEnds PROVE GoneInv'
  BY <1>7 DEF WaitEnds
<1>8. ASSUME Retain PROVE GoneInv'
  BY <1>8 DEF Retain
<1>9. ASSUME Decide PROVE GoneInv'
  BY <1>9 DEF Decide
<1>10. ASSUME Stop PROVE GoneInv'
  BY <1>10 DEF Stop
<1>11. ASSUME NEW w \in Workers, Connect(w) PROVE GoneInv'
  BY <1>11 DEF Connect
<1>12. ASSUME NEW w \in Workers, ConnectFails(w) PROVE GoneInv'
  <2>1. /\ pc[w] = "connecting" /\ refused' = refused + 1
        /\ pc' = [pc EXCEPT ![w] = "gone"] /\ UNCHANGED <<at, workCh>>
    BY <1>12 DEF ConnectFails
  <2>2. Gone' = Gone \cup {w} /\ w \notin Gone
    BY <2>1
  <2>3. IsFiniteSet(Gone)
    BY FS_Subset
  <2>4. Cardinality(Gone') = Cardinality(Gone) + 1 /\ Cardinality(Gone) \in Nat
    BY <2>2, <2>3, FS_AddElement, FS_CardinalityType
  <2>. HIDE DEF Gone
  <2>. QED
    BY <2>1, <2>4
<1>13. ASSUME NEW w \in Workers, Receive(w) PROVE GoneInv'
  BY <1>13 DEF Receive
<1>14. ASSUME NEW w \in Workers, RangeEnds(w) PROVE GoneInv'
  BY <1>14 DEF RangeEnds
<1>15. ASSUME NEW w \in Workers, Begin(w) PROVE GoneInv'
  BY <1>15 DEF Begin
<1>16. ASSUME NEW w \in Workers, End(w) PROVE GoneInv'
  BY <1>16 DEF End
<1>17. ASSUME UNCHANGED vars PROVE GoneInv'
  BY <1>17 DEF vars
<1>. QED
  BY <1>1, <1>2, <1>3, <1>4, <1>5, <1>6, <1>7, <1>8, <1>9, <1>10, <1>11, <1>12, <1>13,
     <1>14, <1>15, <1>16, <1>17 DEF Next, Main, Work

LEMMA SeenStep == TypeOK /\ StageInv /\ SeenInv /\ [Next]_vars => SeenInv'
<1>. SUFFICES ASSUME TypeOK, StageInv, SeenInv, [Next]_vars PROVE SeenInv'
  OBVIOUS
<1>. USE WorkerPoolAssumption DEF TypeOK, StageInv, SeenInv, Files, walker, pool
<1>1. ASSUME VisitFails PROVE SeenInv'
  <2>1. /\ at = "walk" /\ next \in Files /\ next' = next + 1 /\ next \notin seenPaths
        /\ UNCHANGED <<at, seenPaths, workCh, pool>>
    BY <1>1 DEF VisitFails, Pass
  <2>2. outcome'[next] \in {"unreadable", "excluded"}
       /\ \A f \in Files \ {next} : outcome'[f] = outcome[f]
    BY <1>1 DEF VisitFails, Pass
  <2>3. \A f \in seenPaths : f < next'
    BY <2>1
  <2>4. \A f \in Files : (f < next' => f < next \/ f = next)
                          /\ (next' <= f => next <= f /\ f # next)
    BY <2>1
  <2>5. next' \notin seenPaths
    BY <2>1, <2>3
  <2>7. /\ \A f \in Elems(workCh') : f \in seenPaths' /\ f < next'
        /\ \A w \in Workers : item'[w] # NoFile => item'[w] \in seenPaths' /\ item'[w] < next'
    BY <2>1, <2>2, <2>3
  <2>8. \A f \in seenPaths : f <= next'
    BY <2>1, <2>3
  <2>9. /\ \A f \in Files : f < next' =>
            (f \in seenPaths' <=> outcome'[f] \notin {"unreadable", "excluded"})
        /\ \A f \in Files : next' <= f => outcome'[f] = "none"
    BY <2>1, <2>2, <2>4
  <2>. QED
    BY <2>1, <2>5, <2>7, <2>8, <2>9
<1>2. ASSUME VisitExcluded PROVE SeenInv'
  <2>1. /\ at = "walk" /\ next \in Files /\ next' = next + 1 /\ next \notin seenPaths
        /\ UNCHANGED <<at, seenPaths, workCh, pool>>
    BY <1>2 DEF VisitExcluded, Pass
  <2>2. outcome'[next] \in {"unreadable", "excluded"}
       /\ \A f \in Files \ {next} : outcome'[f] = outcome[f]
    BY <1>2 DEF VisitExcluded, Pass
  <2>3. \A f \in seenPaths : f < next'
    BY <2>1
  <2>4. \A f \in Files : (f < next' => f < next \/ f = next)
                          /\ (next' <= f => next <= f /\ f # next)
    BY <2>1
  <2>5. next' \notin seenPaths
    BY <2>1, <2>3
  <2>7. /\ \A f \in Elems(workCh') : f \in seenPaths' /\ f < next'
        /\ \A w \in Workers : item'[w] # NoFile => item'[w] \in seenPaths' /\ item'[w] < next'
    BY <2>1, <2>2, <2>3
  <2>8. \A f \in seenPaths : f <= next'
    BY <2>1, <2>3
  <2>9. /\ \A f \in Files : f < next' =>
            (f \in seenPaths' <=> outcome'[f] \notin {"unreadable", "excluded"})
        /\ \A f \in Files : next' <= f => outcome'[f] = "none"
    BY <2>1, <2>2, <2>4
  <2>. QED
    BY <2>1, <2>5, <2>7, <2>8, <2>9
<1>3. ASSUME Visit PROVE SeenInv'
  BY <1>3 DEF Visit
<1>4. ASSUME Send PROVE SeenInv'
  <2>1. /\ at = "send" /\ at' = "walk" /\ next \in Files /\ next' = next + 1
        /\ workCh' = Append(workCh, next) /\ UNCHANGED <<seenPaths, pool, outcome>>
    BY <1>4 DEF Send
  <2>2. Elems(workCh') = Elems(workCh) \cup {next}
    <3>1. workCh \in Seq(Files) /\ next \in Files
      BY <2>1
    <3>. QED
      BY <2>1, <3>1, SentElems, Zenon
  <2>3. \A f \in seenPaths : f < next'
    BY <2>1
  <2>4. \A f \in Files : (f < next' => f < next \/ f = next)
                          /\ (next' <= f => next <= f /\ f # next)
    BY <2>1
  <2>5. next' \notin seenPaths
    BY <2>1, <2>3
  <2>6. outcome[next] = "none" /\ next \in seenPaths
    BY <2>1
  <2>7. /\ \A f \in Elems(workCh') : f \in seenPaths' /\ f < next'
        /\ \A w \in Workers : item'[w] # NoFile => item'[w] \in seenPaths' /\ item'[w] < next'
    BY <2>1, <2>2, <2>3
  <2>8. \A f \in seenPaths : f <= next'
    BY <2>1, <2>3
  <2>9. /\ \A f \in Files : f < next' =>
            (f \in seenPaths' <=> outcome'[f] \notin {"unreadable", "excluded"})
        /\ \A f \in Files : next' <= f => outcome'[f] = "none"
    BY <2>1, <2>2, <2>4, <2>6
  <2>. QED
    BY <2>1, <2>5, <2>7, <2>8, <2>9
<1>5. ASSUME SendCancelled PROVE SeenInv'
  BY <1>5 DEF SendCancelled
<1>6. ASSUME WalkEnds PROVE SeenInv'
  BY <1>6 DEF WalkEnds
<1>7. ASSUME WaitEnds PROVE SeenInv'
  BY <1>7 DEF WaitEnds
<1>8. ASSUME Retain PROVE SeenInv'
  BY <1>8 DEF Retain
<1>9. ASSUME Decide PROVE SeenInv'
  BY <1>9 DEF Decide
<1>10. ASSUME Stop PROVE SeenInv'
  BY <1>10 DEF Stop
<1>11. ASSUME NEW w \in Workers, Connect(w) PROVE SeenInv'
  BY <1>11 DEF Connect
<1>12. ASSUME NEW w \in Workers, ConnectFails(w) PROVE SeenInv'
  BY <1>12 DEF ConnectFails
<1>13. ASSUME NEW w \in Workers, Receive(w) PROVE SeenInv'
  <2>1. /\ pc[w] = "ready" /\ item' = [item EXCEPT ![w] = Head(workCh)]
        /\ workCh # <<>> /\ workCh' = Tail(workCh) /\ UNCHANGED <<at, next, seenPaths, outcome>>
    BY <1>13 DEF Receive
  <2>2. Elems(workCh) = {Head(workCh)} \cup Elems(workCh')
    BY <2>1, TailElems
  <2>. QED
    BY <2>1, <2>2
<1>14. ASSUME NEW w \in Workers, RangeEnds(w) PROVE SeenInv'
  BY <1>14 DEF RangeEnds
<1>15. ASSUME NEW w \in Workers, Begin(w) PROVE SeenInv'
  BY <1>15 DEF Begin
<1>16. ASSUME NEW w \in Workers, End(w) PROVE SeenInv'
  BY <1>16 DEF End
<1>17. ASSUME UNCHANGED vars PROVE SeenInv'
  BY <1>17 DEF vars
<1>. QED
  BY <1>1, <1>2, <1>3, <1>4, <1>5, <1>6, <1>7, <1>8, <1>9, <1>10, <1>11, <1>12, <1>13,
     <1>14, <1>15, <1>16, <1>17 DEF Next, Main, Work

LEMMA OutcomeStep == TypeOK /\ StageInv /\ SeenInv /\ OutcomeInv /\ [Next]_vars =>
    OutcomeInv'
<1>. SUFFICES ASSUME TypeOK, StageInv, SeenInv, OutcomeInv, [Next]_vars PROVE OutcomeInv'
  OBVIOUS
<1>. USE WorkerPoolAssumption DEF TypeOK, StageInv, SeenInv, OutcomeInv, Files, walker, pool
<1>1. ASSUME VisitFails PROVE OutcomeInv'
  BY <1>1 DEF VisitFails, Pass
<1>2. ASSUME VisitExcluded PROVE OutcomeInv'
  BY <1>2 DEF VisitExcluded, Pass
<1>3. ASSUME Visit PROVE OutcomeInv'
  BY <1>3 DEF Visit
<1>4. ASSUME Send PROVE OutcomeInv'
  <2>1. /\ next \in Files /\ next' = next + 1 /\ workCh' = Append(workCh, next)
        /\ UNCHANGED <<item, outcome, errCount, cancelled>>
    BY <1>4 DEF Send
  <2>2. Elems(workCh') = Elems(workCh) \cup {next}
    <3>1. workCh \in Seq(Files) /\ next \in Files
      BY <2>1
    <3>. QED
      BY <2>1, <3>1, SentElems, ZenonT(60)
  <2>3. \A f \in Files : f < next' => f < next \/ f = next
    BY <2>1
  <2>. QED
    BY <2>1, <2>2, <2>3
<1>5. ASSUME SendCancelled PROVE OutcomeInv'
  BY <1>5 DEF SendCancelled
<1>6. ASSUME WalkEnds PROVE OutcomeInv'
  BY <1>6 DEF WalkEnds
<1>7. ASSUME WaitEnds PROVE OutcomeInv'
  BY <1>7 DEF WaitEnds
<1>8. ASSUME Retain PROVE OutcomeInv'
  BY <1>8 DEF Retain
<1>9. ASSUME Decide PROVE OutcomeInv'
  BY <1>9 DEF Decide
<1>10. ASSUME Stop PROVE OutcomeInv'
  BY <1>10 DEF Stop
<1>11. ASSUME NEW w \in Workers, Connect(w) PROVE OutcomeInv'
  BY <1>11 DEF Connect
<1>12. ASSUME NEW w \in Workers, ConnectFails(w) PROVE OutcomeInv'
  BY <1>12 DEF ConnectFails
<1>13. ASSUME NEW w \in Workers, Receive(w) PROVE OutcomeInv'
  <2>1. /\ pc[w] = "ready" /\ item' = [item EXCEPT ![w] = Head(workCh)]
        /\ workCh # <<>> /\ workCh' = Tail(workCh)
             /\ UNCHANGED <<next, outcome, errCount, cancelled>>
    BY <1>13 DEF Receive
  <2>2. Elems(workCh) = {Head(workCh)} \cup Elems(workCh')
    BY <2>1, TailElems
  <2>3. item[w] = NoFile /\ item'[w] = Head(workCh) /\ \A v \in Workers \ {w} : item'[v] = item[v]
    BY <2>1
  <2>4. ASSUME NEW f \in Files, f < next, outcome[f] = "none"
        PROVE  f \in Elems(workCh') \/ \E v \in Workers : item'[v] = f
    <3>1. CASE f \in Elems(workCh)
      BY <2>2, <2>3, <3>1
    <3>2. CASE f \notin Elems(workCh)
      <4>1. PICK v \in Workers : item[v] = f
        BY <2>4, <3>2
      <4>2. v # w
        BY <2>3, <4>1
      <4>. QED
        BY <2>3, <4>1, <4>2
    <3>. QED
      BY <3>1, <3>2
  <2>. QED
    BY <2>1, <2>4
<1>14. ASSUME NEW w \in Workers, RangeEnds(w) PROVE OutcomeInv'
  BY <1>14 DEF RangeEnds
<1>15. ASSUME NEW w \in Workers, Begin(w) PROVE OutcomeInv'
  BY <1>15 DEF Begin
<1>16. ASSUME NEW w \in Workers, End(w) PROVE OutcomeInv'
  BY <1>16 DEF End
<1>17. ASSUME UNCHANGED vars PROVE OutcomeInv'
  BY <1>17 DEF vars
<1>. QED
  BY <1>1, <1>2, <1>3, <1>4, <1>5, <1>6, <1>7, <1>8, <1>9, <1>10, <1>11, <1>12, <1>13,
     <1>14, <1>15, <1>16, <1>17 DEF Next, Main, Work

-----------------------------------------------------------------------------
LEMMA InvInit == Init => PoolInv
<1>. SUFFICES ASSUME Init PROVE PoolInv
  OBVIOUS
<1>. USE WorkerPoolAssumption
<1>1. cancelled = FALSE
  BY Zenon DEF Init
<1>2. TypeOK
  <2>1. cancelled \in BOOLEAN
    BY <1>1
  <2>2. workCh \in Seq(Files) /\ Len(workCh) <= Capacity
    BY DEF Init
  <2>3. /\ pc \in [Workers -> {"connecting", "ready", "received", "processing", "gone"}]
        /\ item \in [Workers -> Files \cup {NoFile}]
        /\ outcome \in [Files -> {"none", "unreadable", "excluded", "saved",
                                  "unchanged", "failed", "dropped"}]
    BY DEF Init
  <2>4. /\ at = "walk" /\ next = 1 /\ seenPaths = {} /\ errCount = 0 /\ refused = 0
        /\ status = "running"
    BY DEF Init
  <2>. QED
    BY <2>1, <2>2, <2>3, <2>4 DEF TypeOK
<1>3. StageInv
  BY DEF Init, StageInv, Files
<1>4. GoneInv
  <2>1. Gone = {}
    BY DEF Init, Gone
  <2>2. refused = 0
    BY DEF Init
  <2>. QED
    BY <2>1, <2>2, FS_EmptySet DEF GoneInv
<1>5. SeenInv
  <2>1. Elems(workCh) = {} /\ seenPaths = {} /\ next = 1
    BY EmptyElems DEF Init
  <2>2. \A w \in Workers : item[w] = NoFile
    BY DEF Init
  <2>3. \A f \in Files : outcome[f] = "none" /\ ~(f < 1)
    BY DEF Init, Files
  <2>4. at = "walk"
    BY DEF Init
  <2>. QED
    BY <2>1, <2>2, <2>3, <2>4 DEF SeenInv
<1>6. OutcomeInv
  <2>1. \A f \in Files : outcome[f] = "none" /\ ~(f < next)
    BY DEF Init, Files
  <2>. QED
    BY <2>1 DEF OutcomeInv
<1>. QED
  BY <1>2, <1>3, <1>4, <1>5, <1>6 DEF PoolInv

LEMMA InvStep == PoolInv /\ [Next]_vars => PoolInv'
  BY TypeStep, StageStep, GoneStep, SeenStep, OutcomeStep DEF PoolInv

\* The strengthened invariant of a run.
THEOREM PoolInvariant == Spec => []PoolInv
  BY InvInit, InvStep, PTL DEF Spec

\* When all workers are gone and one of them was connected, the channel is
\* drained: only a drained channel lets a connected worker go.
LEMMA Drained ==
    ASSUME PoolInv, Connected, \A w \in Workers : pc[w] = "gone"
    PROVE  workCh = <<>> /\ \A w \in Workers : item[w] = NoFile
  <1>1. \A w \in Workers : item[w] = NoFile
    BY DEF PoolInv, StageInv
  <1>2. Gone = Workers
    BY DEF Gone
  <1>3. Cardinality(Workers) \in Nat /\ refused \in Nat
    BY WorkerPoolAssumption, FS_CardinalityType DEF PoolInv, TypeOK
  <1>. QED
    BY <1>1, <1>2, <1>3 DEF PoolInv, GoneInv, Connected

\* Then every file the walk has passed has an outcome.
LEMMA AllDone ==
    ASSUME PoolInv, Connected, \A w \in Workers : pc[w] = "gone", next \notin Files
    PROVE  \A f \in Files : f < next /\ outcome[f] # "none"
  <1>1. next = NumFiles + 1 /\ \A f \in Files : f < next
    BY WorkerPoolAssumption DEF PoolInv, TypeOK, Files
  <1>2. Elems(workCh) = {} /\ \A w \in Workers : item[w] = NoFile
    BY Drained, EmptyElems
  <1>3. NoFile \notin Files
    BY WorkerPoolAssumption DEF Files
  <1>. QED
    BY <1>1, <1>2, <1>3 DEF PoolInv, OutcomeInv

\* Type correctness of the walk, the channel and the workers: the channel never
\* holds more than its capacity.
THEOREM PoolTypeCorrect == Spec => []TypeOK
<1>1. PoolInv => TypeOK
  BY DEF PoolInv
<1>. QED
  BY <1>1, PoolInvariant, PTL

\* Retention never judges a file while a worker may still record it.
THEOREM RetainsAfterAllHolds == Spec => []RetainsAfterAll
<1>1. PoolInv => RetainsAfterAll
  <2>. SUFFICES ASSUME PoolInv, at = "retain", Connected
                PROVE  /\ workCh = <<>> /\ \A w \in Workers : item[w] = NoFile
                       /\ \A f \in Files : outcome[f] # "none"
                       /\ seenPaths = {f \in Files : outcome[f] \notin {"unreadable", "excluded"}}
    BY DEF RetainsAfterAll
  <2>1. (\A w \in Workers : pc[w] = "gone") /\ next \notin Files
    BY DEF PoolInv, StageInv
  <2>2. \A f \in Files : f < next /\ outcome[f] # "none"
    BY <2>1, AllDone
  <2>3. seenPaths \subseteq Files
    BY DEF PoolInv, TypeOK
  <2>. QED
    BY <2>1, <2>2, <2>3, Drained DEF PoolInv, SeenInv
<1>. QED
  BY <1>1, PoolInvariant, PTL

\* "completed" is only said when every file that is not excluded was saved or
\* found unchanged, provided some worker got a connection.
THEOREM ConnectedMeansAllHolds == Spec => []ConnectedMeansAll
<1>1. PoolInv => ConnectedMeansAll
  <2>. SUFFICES ASSUME PoolInv, Connected, status = "completed", NEW f \in Files
                PROVE  outcome[f] \in {"saved", "unchanged", "excluded"}
    BY DEF ConnectedMeansAll, CompletedMeansAll
  <2>1. (\A w \in Workers : pc[w] = "gone") /\ next \notin Files /\ errCount = 0
        /\ cancelled = FALSE
    BY DEF PoolInv, StageInv
  <2>2. outcome[f] # "none"
    BY <2>1, AllDone
  <2>3. outcome[f] \notin {"dropped", "unreadable", "failed"}
    BY <2>1 DEF PoolInv, OutcomeInv
  <2>. QED
    BY <2>2, <2>3 DEF PoolInv, TypeOK
<1>. QED
  BY <1>1, PoolInvariant, PTL

-----------------------------------------------------------------------------
(* Progress.  ENABLED is out of the prover's reach, so what RunReturns needs of *)
(* the code is stated by the guards of the actions and by a measure.           *)

MainReady ==
    \/ at \in {"walk", "retain", "decide"}
    \/ at = "send" /\ (Len(workCh) < Capacity \/ cancelled)
    \/ at = "wait" /\ \A w \in Workers : pc[w] = "gone"

WorkReady(w) ==
    \/ pc[w] \in {"connecting", "received", "processing"}
    \/ pc[w] = "ready" /\ (workCh # <<>> \/ Closed)

\* The walk waits for room in a channel that no worker is left to empty.
Starved ==
    at = "send" /\ cancelled = FALSE /\ Len(workCh) = Capacity
        /\ \A w \in Workers : pc[w] = "gone"

\* A run that has not returned can go on, with one exception: not one worker
\* got a connection, the channel is full and nobody has pressed Stop.
THEOREM RunStuckOnlyStarved ==
    Spec => [](at # "returned" =>
                   \/ MainReady
                   \/ \E w \in Workers : WorkReady(w)
                   \/ Starved /\ ~Connected)
<1>1. PoolInv => (at # "returned" =>
          MainReady \/ (\E w \in Workers : WorkReady(w)) \/ (Starved /\ ~Connected))
  <2>. SUFFICES ASSUME PoolInv, at # "returned", ~MainReady,
                       \A w \in Workers : ~WorkReady(w)
                PROVE  Starved /\ ~Connected
    OBVIOUS
  <2>. USE WorkerPoolAssumption DEF PoolInv, TypeOK
  <2>1. at \in {"send", "wait"} /\ cancelled \in BOOLEAN
    BY DEF MainReady
  <2>2. CASE at = "wait"
    <3>1. PICK w \in Workers : pc[w] # "gone"
      BY <2>2 DEF MainReady
    <3>2. WorkReady(w)
      BY <2>2, <3>1 DEF WorkReady, Closed
    <3>. QED
      BY <3>2
  <2>3. CASE at = "send"
    <3>1. Len(workCh) = Capacity /\ cancelled = FALSE
      BY <2>1, <2>3 DEF MainReady
    <3>2. workCh # <<>>
      BY <3>1
    <3>3. \A w \in Workers : pc[w] = "gone"
      BY <3>2 DEF WorkReady
    <3>4. Cardinality(Gone) <= refused
      BY <2>3 DEF GoneInv, Closed
    <3>5. Gone = Workers
      BY <3>3 DEF Gone
    <3>6. Cardinality(Workers) \in Nat
      BY FS_CardinalityType
    <3>. QED
      BY <2>3, <3>1, <3>3, <3>4, <3>5, <3>6 DEF Starved, Connected
  <2>. QED
    BY <2>1, <2>2, <2>3
<1>. QED
  BY <1>1, PoolInvariant, PTL

\* Out of that state nothing but Stop leads: a run started while the server
\* refuses every connection hangs in its walk, when it has more files than the
\* channel holds, until somebody stops it.
THEOREM StarvedUntilStopped == Spec => [][Starved => Stop]_vars
<1>1. ASSUME PoolInv, Next, Starved PROVE Stop
  <2>. USE WorkerPoolAssumption DEF PoolInv, TypeOK, Starved
  <2>1. ASSUME Main PROVE FALSE
    <3>1. at = "send" /\ ~(Len(workCh) < Capacity) /\ cancelled = FALSE
      BY <1>1
    <3>. QED
      BY <2>1, <3>1 DEF Main, VisitFails, VisitExcluded, Visit, Send, SendCancelled,
         WalkEnds, WaitEnds, Retain, Decide
  <2>2. ASSUME NEW w \in Workers, Work(w) PROVE FALSE
    <3>1. pc[w] = "gone"
      BY <1>1
    <3>. QED
      BY <2>2, <3>1 DEF Work, Connect, ConnectFails, Receive, RangeEnds, Begin, End
  <2>. QED
    BY <1>1, <2>1, <2>2 DEF Next
<1>2. PoolInv /\ [Next]_vars => [Starved => Stop]_vars
  BY <1>1
<1>. QED
  BY <1>2, PoolInvariant, PTL DEF Spec

-----------------------------------------------------------------------------
Rank == [walk |-> 4, send |-> 3, wait |-> 3, retain |-> 2, decide |-> 1, returned |-> 0]

\* What the goroutine of Run still has to do, in steps.
MainLeft == Rank[at] + (IF Closed THEN 0 ELSE 5 * (NumFiles + 1 - next))

WorkersAt(S) == {w \in Workers : pc[w] \in S}

\* What the workers still have to do with what they hold: three steps for one
\* that has received a file, two for one processing it or connecting, one more
\* to leave.
WorkersLeft ==
    Cardinality(WorkersAt({"connecting", "ready", "received", "processing"}))
        + Cardinality(WorkersAt({"connecting"}))
        + Cardinality(WorkersAt({"received"}))
        + Cardinality(WorkersAt({"received", "processing"}))

\* No step of the run, nor its stop, can be taken more often than this.
Left == MainLeft + 3 * Len(workCh) + WorkersLeft + (IF cancelled THEN 0 ELSE 1)

LEMMA Ranks ==
    /\ Rank["walk"] = 4 /\ Rank["send"] = 3 /\ Rank["wait"] = 3
    /\ Rank["retain"] = 2 /\ Rank["decide"] = 1 /\ Rank["returned"] = 0
  BY DEF Rank

LEMMA WorkersAtFinite ==
    ASSUME NEW S
    PROVE  IsFiniteSet(WorkersAt(S)) /\ Cardinality(WorkersAt(S)) \in Nat
  <1>1. IsFiniteSet(WorkersAt(S))
    BY WorkerPoolAssumption, FS_Subset DEF WorkersAt
  <1>. QED
    BY <1>1, FS_CardinalityType

\* What one worker's move from a stage to another does to the number in a set of stages.
LEMMA WorkersAtChanges ==
    ASSUME TypeOK, NEW S, NEW w \in Workers, NEW b, pc' = [pc EXCEPT ![w] = b]
    PROVE  Cardinality(WorkersAt(S)') = Cardinality(WorkersAt(S))
               + (IF b \in S THEN 1 ELSE 0) - (IF pc[w] \in S THEN 1 ELSE 0)
  <1>1. pc'[w] = b /\ \A v \in Workers \ {w} : pc'[v] = pc[v]
    BY DEF TypeOK
  <1>2. IsFiniteSet(WorkersAt(S)) /\ Cardinality(WorkersAt(S)) \in Nat
    BY WorkersAtFinite
  <1>3. CASE pc[w] \in S /\ b \notin S
    <2>1. WorkersAt(S)' = WorkersAt(S) \ {w} /\ w \in WorkersAt(S)
      BY <1>1, <1>3 DEF WorkersAt
    <2>2. Cardinality(WorkersAt(S)') = Cardinality(WorkersAt(S)) - 1
      BY <1>2, <2>1, FS_RemoveElement
    <2>. QED
      BY <1>2, <1>3, <2>2
  <1>4. CASE pc[w] \notin S /\ b \in S
    <2>1. WorkersAt(S)' = WorkersAt(S) \cup {w} /\ w \notin WorkersAt(S)
      BY <1>1, <1>4 DEF WorkersAt
    <2>2. Cardinality(WorkersAt(S)') = Cardinality(WorkersAt(S)) + 1
      BY <1>2, <2>1, FS_AddElement
    <2>. QED
      BY <1>2, <1>4, <2>2
  <1>5. CASE pc[w] \in S <=> b \in S
    <2>1. WorkersAt(S)' = WorkersAt(S)
      BY <1>1, <1>5 DEF WorkersAt
    <2>. QED
      BY <1>2, <1>5, <2>1
  <1>. QED
    BY <1>3, <1>4, <1>5

LEMMA WorkersLeftType == WorkersLeft \in Nat
  BY WorkersAtFinite DEF WorkersLeft

\* What a worker's move does to WorkersLeft.
LEMMA WorkerMoves ==
    ASSUME TypeOK, NEW w \in Workers, NEW b, pc' = [pc EXCEPT ![w] = b]
    PROVE  /\ pc[w] = "connecting" /\ b = "ready" => WorkersLeft' = WorkersLeft - 1
           /\ pc[w] = "connecting" /\ b = "gone" => WorkersLeft' = WorkersLeft - 2
           /\ pc[w] = "ready" /\ b = "received" => WorkersLeft' = WorkersLeft + 2
           /\ pc[w] = "ready" /\ b = "gone" => WorkersLeft' = WorkersLeft - 1
           /\ pc[w] = "received" /\ b = "processing" => WorkersLeft' = WorkersLeft - 1
           /\ pc[w] = "received" /\ b = "ready" => WorkersLeft' = WorkersLeft - 2
           /\ pc[w] = "processing" /\ b = "ready" => WorkersLeft' = WorkersLeft - 1
  <1>. DEFINE one == {"connecting", "ready", "received", "processing"}
              two == {"connecting"}
              three == {"received"}
              four == {"received", "processing"}
              Change(S) == (IF b \in S THEN 1 ELSE 0) - (IF pc[w] \in S THEN 1 ELSE 0)
              Moves(S) == Cardinality(WorkersAt(S)') = Cardinality(WorkersAt(S)) + Change(S)
                              /\ Cardinality(WorkersAt(S)) \in Nat
  <1>1. Moves(one) /\ Moves(two) /\ Moves(three) /\ Moves(four)
    BY WorkersAtChanges, WorkersAtFinite
  <1>2. WorkersLeft' = WorkersLeft + Change(one) + Change(two) + Change(three) + Change(four)
    BY <1>1 DEF WorkersLeft
  <1>. QED
    BY <1>2, WorkersLeftType

LEMMA MainLeftType == TypeOK => MainLeft \in Nat
  <1>. SUFFICES ASSUME TypeOK PROVE MainLeft \in Nat
    OBVIOUS
  <1>1. NumFiles \in Nat /\ next \in 1 .. NumFiles + 1
    BY WorkerPoolAssumption DEF TypeOK
  <1>2. NumFiles + 1 - next \in Nat
    BY <1>1
  <1>. QED
    BY <1>2, Ranks DEF MainLeft, TypeOK

LEMMA LeftType == TypeOK => Left \in Nat
  BY MainLeftType, WorkersLeftType DEF Left, TypeOK

LEMMA ChannelLen == \A s \in Seq(Files) :
    /\ Len(s) \in Nat
    /\ s # <<>> => Len(Tail(s)) = Len(s) - 1
    /\ \A f \in Files : Len(Append(s, f)) = Len(s) + 1
  OBVIOUS

LEMMA LeftStep == PoolInv /\ Next => Left' < Left
<1>. SUFFICES ASSUME PoolInv, Next PROVE Left' < Left
  OBVIOUS
<1>. USE WorkerPoolAssumption DEF PoolInv
<1>0. /\ MainLeft \in Nat /\ WorkersLeft \in Nat /\ Len(workCh) \in Nat
      /\ NumFiles \in Nat /\ next \in 1 .. NumFiles + 1 /\ NumFiles + 1 - next \in Nat
      /\ cancelled \in BOOLEAN
  <2>1. NumFiles \in Nat /\ next \in 1 .. NumFiles + 1
    BY DEF TypeOK
  <2>. QED
    BY <2>1, MainLeftType, WorkersLeftType DEF TypeOK
<1>1. ASSUME VisitFails \/ VisitExcluded PROVE Left' < Left
  <2>1. at = "walk" /\ next' = next + 1 /\ UNCHANGED <<at, workCh, pc, cancelled>>
    BY <1>1 DEF VisitFails, VisitExcluded, Pass, pool
  <2>2. MainLeft' = MainLeft - 5
    BY <1>0, <2>1, Ranks DEF MainLeft, Closed
  <2>3. WorkersLeft' = WorkersLeft
    BY <2>1 DEF WorkersLeft, WorkersAt
  <2>. QED
    BY <1>0, <2>1, <2>2, <2>3 DEF Left
<1>2. ASSUME Send PROVE Left' < Left
  <2>1. /\ at = "send" /\ at' = "walk" /\ next' = next + 1 /\ next \in Files
        /\ workCh' = Append(workCh, next) /\ UNCHANGED <<pc, cancelled>>
    BY <1>2 DEF Send, StageInv, pool
  <2>2. MainLeft' = MainLeft - 4
    BY <1>0, <2>1, Ranks DEF MainLeft, Closed
  <2>3. Len(workCh') = Len(workCh) + 1
    BY <2>1, ChannelLen DEF TypeOK
  <2>4. WorkersLeft' = WorkersLeft
    BY <2>1 DEF WorkersLeft, WorkersAt
  <2>. QED
    BY <1>0, <2>1, <2>2, <2>3, <2>4 DEF Left
<1>3. ASSUME Visit \/ SendCancelled \/ WalkEnds \/ WaitEnds \/ Retain \/ Decide
      PROVE  Left' < Left
  <2>1. UNCHANGED <<next, workCh, pc, cancelled>>
    BY <1>3 DEF Visit, SendCancelled, WalkEnds, WaitEnds, Retain, Decide, pool
  <2>2. \/ at = "walk" /\ at' \in {"send", "wait"}
        \/ at = "send" /\ at' = "wait" /\ next \in Files
        \/ at = "wait" /\ at' \in {"retain", "decide"}
        \/ at = "retain" /\ at' = "decide"
        \/ at = "decide" /\ at' = "returned"
    BY <1>3 DEF Visit, SendCancelled, WalkEnds, WaitEnds, Retain, Decide, StageInv
  <2>3. next \in Files => NumFiles + 1 - next \in Nat \ {0}
    BY <1>0 DEF Files
  <2>4. MainLeft' < MainLeft /\ MainLeft' \in Nat
    <3>. DEFINE d == NumFiles + 1 - next
    <3>1. d \in Nat /\ (next \in Files => d > 0) /\ d' = d
      BY <1>0, <2>1, <2>3
    <3>2. /\ MainLeft = Rank[at] + (IF Closed THEN 0 ELSE 5 * d)
          /\ MainLeft' = Rank[at'] + (IF Closed' THEN 0 ELSE 5 * d)
      BY <3>1 DEF MainLeft
    <3>. HIDE DEF d
    <3>3. /\ at = "walk" => MainLeft = 4 + 5 * d
          /\ at = "send" => MainLeft = 3 + 5 * d
          /\ at = "wait" => MainLeft = 3
          /\ at = "retain" => MainLeft = 2
          /\ at = "decide" => MainLeft = 1
      BY <3>1, <3>2, Ranks DEF Closed
    <3>4. /\ at' = "send" => MainLeft' = 3 + 5 * d
          /\ at' = "wait" => MainLeft' = 3
          /\ at' = "retain" => MainLeft' = 2
          /\ at' = "decide" => MainLeft' = 1
          /\ at' = "returned" => MainLeft' = 0
      BY <3>1, <3>2, Ranks DEF Closed
    <3>. QED
      BY <2>2, <3>1, <3>3, <3>4
  <2>5. WorkersLeft' = WorkersLeft
    BY <2>1 DEF WorkersLeft, WorkersAt
  <2>. QED
    BY <1>0, <2>1, <2>4, <2>5 DEF Left
<1>4. ASSUME Stop PROVE Left' < Left
  <2>1. cancelled = FALSE /\ cancelled' = TRUE /\ UNCHANGED <<at, next, workCh, pc>>
    BY <1>4 DEF Stop, TypeOK, walker, pool
  <2>2. MainLeft' = MainLeft /\ WorkersLeft' = WorkersLeft
    BY <2>1 DEF MainLeft, Closed, WorkersLeft, WorkersAt
  <2>. QED
    BY <1>0, <2>1, <2>2 DEF Left
<1>5. ASSUME NEW w \in Workers, Receive(w) PROVE Left' < Left
  <2>1. /\ pc[w] = "ready" /\ pc' = [pc EXCEPT ![w] = "received"] /\ workCh # <<>>
        /\ workCh' = Tail(workCh) /\ UNCHANGED <<at, next, cancelled>>
    BY <1>5 DEF Receive, walker
  <2>2. WorkersLeft' = WorkersLeft + 2
    BY <2>1, WorkerMoves
  <2>3. Len(workCh') = Len(workCh) - 1
    BY <2>1, ChannelLen DEF TypeOK
  <2>4. MainLeft' = MainLeft
    BY <2>1 DEF MainLeft, Closed
  <2>. QED
    BY <1>0, <2>1, <2>2, <2>3, <2>4 DEF Left
<1>6. ASSUME NEW w \in Workers,
             Connect(w) \/ ConnectFails(w) \/ RangeEnds(w) \/ Begin(w) \/ End(w)
      PROVE  Left' < Left
  <2>1. /\ UNCHANGED <<at, next, workCh, cancelled>>
        /\ \/ pc[w] = "connecting" /\ pc' = [pc EXCEPT ![w] = "ready"]
           \/ pc[w] = "connecting" /\ pc' = [pc EXCEPT ![w] = "gone"]
           \/ pc[w] = "ready" /\ pc' = [pc EXCEPT ![w] = "gone"]
           \/ pc[w] = "received" /\ pc' = [pc EXCEPT ![w] = "ready"]
           \/ pc[w] = "received" /\ pc' = [pc EXCEPT ![w] = "processing"]
           \/ pc[w] = "processing" /\ pc' = [pc EXCEPT ![w] = "ready"]
    BY <1>6 DEF Connect, ConnectFails, RangeEnds, Begin, End, walker
  <2>2. WorkersLeft' = WorkersLeft - 1 \/ WorkersLeft' = WorkersLeft - 2
    BY <2>1, WorkerMoves
  <2>3. MainLeft' = MainLeft
    BY <2>1 DEF MainLeft, Closed
  <2>. QED
    BY <1>0, <2>1, <2>2, <2>3 DEF Left
<1>. QED
  BY <1>1, <1>2, <1>3, <1>4, <1>5, <1>6 DEF Next, Main, Work

\* Every step of a run brings its end nearer, whatever the order in which the
\* walk, the workers and Stop come: with RunStuckOnlyStarved, a run one of whose
\* workers got a connection, or that is stopped, returns (RunReturns).
THEOREM RunComesToAnEnd == Spec => [](Left \in Nat) /\ [][Left' < Left]_vars
<1>1. PoolInv => Left \in Nat
  BY LeftType DEF PoolInv
<1>2. PoolInv /\ [Next]_vars => [Left' < Left]_vars
  BY LeftStep
<1>. QED
  BY <1>1, <1>2, PoolInvariant, PTL DEF Spec
=============================================================================
