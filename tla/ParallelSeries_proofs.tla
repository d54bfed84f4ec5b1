------------------------ MODULE ParallelSeries_proofs ------------------------
(***************************************************************************)
(* For every number of threads and of terms the multi-threaded sum has     *)
(* exactly the terms of the single-threaded one, each once.                *)
(***************************************************************************)
EXTENDS ParallelSeries, TLAPS

\* Where the ranges lie: they start at 0, follow each other, end at ITERATIONS.
LEMMA RangeBounds ==
    /\ \A w \in 0 .. threadCount : lowerRange(w) \in Nat
    /\ \A w \in Workers : /\ upperRange(w) = lowerRange(w + 1)
                          /\ lowerRange(w) <= upperRange(w)
                          /\ upperRange(w) \in Nat
    /\ lowerRange(0) = 0
    /\ lowerRange(threadCount) = ITERATIONS
<1> DEFINE C == ITERATIONS \div threadCount
<1>1. C \in Nat /\ ITERATIONS = threadCount * C
  BY RangesAssumption
<1> HIDE DEF C
<1>2. ASSUME NEW w \in 0 .. threadCount PROVE w * C \in Nat
  BY <1>1, ThreadCountAssumption
<1>3. ASSUME NEW w \in Nat PROVE (w + 1) * C = w * C + C
  BY <1>1
<1>4. 0 * C = 0
  BY <1>1
<1>5. \A w : lowerRange(w) = w * C /\ upperRange(w) = (w + 1) * C
  BY DEF lowerRange, upperRange, C
<1> QED
  BY <1>1, <1>2, <1>3, <1>4, <1>5, ThreadCountAssumption DEF Workers

\* Ranges of terms are sums, grow term by term, and join end to end.
LEMMA SumRangeType == \A a, b \in Int : SumRange(a, b) \in Sums
  BY DEF SumRange, Sums, Terms

LEMMA SumRangeEmpty == \A a \in Int : SumRange(a, a) = Zero
  BY DEF SumRange, Zero, Terms

LEMMA SumRangeGrows ==
    ASSUME NEW a \in Nat, NEW b \in Nat, a <= b
    PROVE  AddTerm(SumRange(a, b), b) = SumRange(a, b + 1)
<1> DEFINE before == SumRange(a, b)
           after == SumRange(a, b + 1)
<1>1. /\ before = [k \in Terms |-> before[k]]
      /\ \A k \in Terms : before[k] = IF a <= k /\ k < b THEN 1 ELSE 0
  BY DEF SumRange
<1>2. /\ after = [k \in Terms |-> after[k]]
      /\ \A k \in Terms : after[k] = IF a <= k /\ k < b + 1 THEN 1 ELSE 0
  BY DEF SumRange
<1> HIDE DEF before, after
<1>3. AddTerm(before, b) = [k \in Terms |-> IF k = b THEN before[k] + 1 ELSE before[k]]
  BY <1>1 DEF AddTerm
<1>4. \A k \in Terms : after[k] = IF k = b THEN before[k] + 1 ELSE before[k]
  BY <1>1, <1>2 DEF Terms
<1>5. AddTerm(before, b) = after
  BY <1>2, <1>3, <1>4
<1> QED
  BY <1>5 DEF before, after

LEMMA SumRangeJoins ==
    ASSUME NEW a \in Nat, NEW b \in Nat, NEW c \in Nat, a <= b, b <= c
    PROVE  AddSums(SumRange(a, b), SumRange(b, c)) = SumRange(a, c)
  BY DEF SumRange, AddSums, Terms

-----------------------------------------------------------------------------
LEMMA SumsClosed ==
    /\ Zero \in Sums
    /\ \A a \in Sums, i \in Nat : AddTerm(a, i) \in Sums
    /\ \A a, b \in Sums : AddSums(a, b) \in Sums
<1>1. Zero \in Sums
  BY DEF Sums, Zero
<1>2. ASSUME NEW a \in Sums, NEW i \in Nat PROVE AddTerm(a, i) \in Sums
  <2>1. AddTerm(a, i) = [k \in Terms |-> IF k = i THEN a[k] + 1 ELSE a[k]]
    BY DEF Sums, AddTerm
  <2>2. \A k \in Terms : (IF k = i THEN a[k] + 1 ELSE a[k]) \in Nat
    BY DEF Sums
  <2> QED
    BY <2>1, <2>2 DEF Sums
<1>3. ASSUME NEW a \in Sums, NEW b \in Sums PROVE AddSums(a, b) \in Sums
  BY DEF Sums, AddSums
<1> QED
  BY <1>1, <1>2, <1>3

\* Every state of the program has the types of TypeOK.
THEOREM TypeCorrect == Spec => []TypeOK
<1> USE ThreadCountAssumption, IterationsAssumption
<1>1. Init => TypeOK
  BY SumsClosed, SpawnFailuresAssumption
     DEF Init, TypeOK, FirstSeries, Series, Operations
<1>2. TypeOK /\ [Next]_vars => TypeOK'
  <2> SUFFICES ASSUME TypeOK, [Next]_vars PROVE TypeOK'
    OBVIOUS
  <2> USE DEF TypeOK, Series, Operations, mainVars, workerVars
  <2>1. CASE SingleThread
    BY <2>1, SumRangeType DEF SingleThread, FirstSeries
  <2>2. CASE Spawn
    BY <2>2, SumsClosed DEF Spawn, Workers
  <2>3. CASE SpawnFails
    BY <2>3, SumsClosed DEF SpawnFails, Workers
  <2>4. CASE AllSpawned
    BY <2>4 DEF AllSpawned
  <2>5. CASE Join
    BY <2>5 DEF Join, Workers
  <2>6. CASE JoinGarbage
    BY <2>6 DEF JoinGarbage, Workers
  <2>7. CASE AllJoined
    BY <2>7, SumsClosed DEF AllJoined
  <2>8. CASE AddResult
    <3>1. AddSums(multi[series], result[next]) \in Sums
      BY <2>8, SumsClosed DEF AddResult
    <3>2. multi' \in [Series -> Sums]
      BY <2>8, <3>1 DEF AddResult
    <3> QED
      BY <2>8, <3>2 DEF AddResult, Workers
  <2>9. CASE AllAdded
    BY <2>9 DEF AllAdded
  <2>10. ASSUME NEW w \in Workers, WorkerStart(w) PROVE TypeOK'
    <3>1. lowerRange(w) \in Nat
      BY RangeBounds DEF Workers
    <3> QED
      BY <2>10, <3>1, SumsClosed DEF WorkerStart
  <2>11. ASSUME NEW w \in Workers, WorkerStep(w) PROVE TypeOK'
    BY <2>11, SumsClosed DEF WorkerStep
  <2>12. ASSUME NEW w \in Workers, WorkerReturn(w) PROVE TypeOK'
    BY <2>12 DEF WorkerReturn
  <2>13. CASE UNCHANGED vars
    BY <2>13 DEF vars
  <2> QED
    BY <2>1, <2>2, <2>3, <2>4, <2>5, <2>6, <2>7, <2>8, <2>9, <2>10, <2>11,
       <2>12, <2>13 DEF Next, Main, Worker, Exited
<1> QED
  BY <1>1, <1>2, PTL DEF Spec

-----------------------------------------------------------------------------
\* The inductive invariant: each part is re-established by the actions that
\* can disturb it.
LEMMA SeriesInvInit == Init => SeriesInv
<1> SUFFICES ASSUME Init PROVE SeriesInv
  OBVIOUS
<1>1. TypeOK
  BY TypeCorrect, SumsClosed, SpawnFailuresAssumption, ThreadCountAssumption
     DEF Init, TypeOK, FirstSeries, Series, Operations
<1>2. SeriesOfOperation
  BY DEF Init, SeriesOfOperation, FirstSeries, NeededSeries, Series, Operations
<1>3. SingleComplete
  BY DEF Init, SingleComplete, FirstSeries, NeededSeries, Series, Operations
<1> QED
  BY <1>1, <1>2, <1>3 DEF Init, SeriesInv, WorkerProgress, LoopProgress,
     AddingProgress, MultiComplete

LEMMA SeriesInvNext == SeriesInv /\ TypeOK' /\ [Next]_vars => SeriesInv'
<1> SUFFICES ASSUME SeriesInv, TypeOK', [Next]_vars PROVE SeriesInv'
  OBVIOUS
<1> USE ThreadCountAssumption, IterationsAssumption
    DEF mainVars, workerVars
<1>t. TypeOK
  BY DEF SeriesInv
<1> DEFINE Parts == /\ SeriesOfOperation /\ SingleComplete /\ WorkerProgress
                    /\ LoopProgress /\ AddingProgress /\ MultiComplete
<1>p. Parts
  BY DEF SeriesInv
<1>s. SUFFICES Parts'
  BY DEF SeriesInv
<1>1. CASE SingleThread
  <2>1. SingleComplete'
    <3> SUFFICES ASSUME NEW s \in NeededSeries(operation),
                        pc' # "single" \/ (s = "sen" /\ series' = "cos")
                 PROVE  single'[s] = SumRange(0, ITERATIONS)
      BY <1>1 DEF SingleThread, SingleComplete
    <3>1. s \in Series
      BY <1>t DEF TypeOK, NeededSeries, Operations, Series
    <3>2. CASE s = series
      BY <1>1, <1>t, <3>1, <3>2 DEF SingleThread, TypeOK
    <3>3. CASE s # series
      <4>1. s = "sen" /\ series = "cos" /\ operation = "tan"
        BY <1>1, <1>t, <1>p, <3>1, <3>3
           DEF SingleThread, TypeOK, NeededSeries, IsLastSeries, Operations,
               Series, SeriesOfOperation
      <4> QED
        BY <1>1, <1>t, <1>p, <3>1, <3>3, <4>1
           DEF SingleThread, TypeOK, SingleComplete
    <3> QED
      BY <3>2, <3>3
  <2>2. SeriesOfOperation'
    BY <1>1, <1>t, <1>p
       DEF SingleThread, SeriesOfOperation, TypeOK, NeededSeries, IsLastSeries,
           FirstSeries, Series, Operations
  <2>3. MultiComplete'
    BY <1>1, <1>t DEF SingleThread, MultiComplete, TypeOK, NeededSeries,
                      IsLastSeries, FirstSeries, Series, Operations
  <2> QED
    BY <1>1, <1>t, <1>p, <2>1, <2>2, <2>3
       DEF SingleThread, WorkerProgress, LoopProgress, AddingProgress, TypeOK,
           Workers
<1>2. CASE Spawn
  BY <1>2, <1>t, <1>p
     DEF Spawn, SeriesOfOperation, SingleComplete, WorkerProgress,
         LoopProgress, AddingProgress, MultiComplete, TypeOK, Workers
<1>3. CASE SpawnFails
  BY <1>3, <1>t, <1>p
     DEF SpawnFails, SeriesOfOperation, SingleComplete, WorkerProgress,
         LoopProgress, AddingProgress, MultiComplete, TypeOK, Workers
<1>4. CASE AllSpawned
  BY <1>4, <1>t, <1>p
     DEF AllSpawned, SeriesOfOperation, SingleComplete, WorkerProgress,
         LoopProgress, AddingProgress, MultiComplete, TypeOK, Workers
<1>5. CASE Join
  BY <1>5, <1>t, <1>p
     DEF Join, SeriesOfOperation, SingleComplete, WorkerProgress,
         LoopProgress, AddingProgress, MultiComplete, TypeOK, Workers
<1>6. CASE JoinGarbage
  BY <1>6, <1>t, <1>p
     DEF JoinGarbage, SeriesOfOperation, SingleComplete, WorkerProgress,
         LoopProgress, AddingProgress, MultiComplete, TypeOK, Workers
<1>7. CASE AllJoined
  BY <1>7, <1>t, <1>p, RangeBounds, SumRangeEmpty
     DEF AllJoined, SeriesOfOperation, SingleComplete, WorkerProgress,
         LoopProgress, AddingProgress, MultiComplete, TypeOK, Workers, Series
<1>8. CASE AddResult
  BY <1>8, <1>t, <1>p, RangeBounds, SumRangeJoins
     DEF AddResult, SeriesOfOperation, SingleComplete, WorkerProgress,
         LoopProgress, AddingProgress, MultiComplete, TypeOK, Workers, Series
<1>9. CASE AllAdded
  BY <1>9, <1>t, <1>p, RangeBounds
     DEF AllAdded, SeriesOfOperation, SingleComplete, WorkerProgress,
         LoopProgress, AddingProgress, MultiComplete, TypeOK, Workers,
         NeededSeries, IsLastSeries, FirstSeries, Series, Operations
<1>10. ASSUME NEW w \in Workers, WorkerStart(w) PROVE Parts'
  <2>1. /\ lowerRange(w) \in Nat
        /\ lowerRange(w) <= upperRange(w)
        /\ SumRange(lowerRange(w), lowerRange(w)) = Zero
    BY RangeBounds, SumRangeEmpty DEF Workers
  <2>2. WorkerProgress'
    BY <1>10, <1>t, <1>p, <2>1 DEF WorkerStart, WorkerProgress, TypeOK
  <2>3. LoopProgress'
    BY <1>10, <1>t, <1>p DEF WorkerStart, LoopProgress, TypeOK
  <2> QED
    BY <1>10, <1>p, <2>2, <2>3
       DEF WorkerStart, SeriesOfOperation, SingleComplete, AddingProgress,
           MultiComplete
<1>11. ASSUME NEW w \in Workers, WorkerStep(w) PROVE Parts'
  <2>1. /\ lowerRange(w) \in Nat /\ upperRange(w) \in Nat /\ term[w] \in Nat
        /\ lowerRange(w) <= term[w] /\ term[w] < upperRange(w)
        /\ result[w] = SumRange(lowerRange(w), term[w])
    BY <1>11, <1>t, <1>p, RangeBounds
       DEF WorkerStep, WorkerProgress, TypeOK, Workers
  <2>2. AddTerm(result[w], term[w]) = SumRange(lowerRange(w), term[w] + 1)
    BY <2>1, SumRangeGrows
  <2>3. term'[w] = term[w] + 1 /\ result'[w] = SumRange(lowerRange(w), term[w] + 1)
    BY <1>11, <1>t, <2>2 DEF WorkerStep, TypeOK
  <2>4. \A v \in Workers \ {w} : term'[v] = term[v] /\ result'[v] = result[v]
    BY <1>11, <1>t DEF WorkerStep, TypeOK
  <2>5. WorkerProgress'
    BY <1>11, <1>p, <2>1, <2>3, <2>4 DEF WorkerStep, WorkerProgress
  <2> QED
    BY <1>11, <1>p, <2>5
       DEF WorkerStep, SeriesOfOperation, SingleComplete, LoopProgress,
           AddingProgress, MultiComplete
<1>12. ASSUME NEW w \in Workers, WorkerReturn(w) PROVE Parts'
  <2>1. upperRange(w) \in Nat /\ term[w] \in Nat
    BY <1>t, RangeBounds DEF TypeOK
  <2>2. term[w] = upperRange(w) /\ result[w] = SumRange(lowerRange(w), term[w])
    BY <1>12, <1>p, <2>1 DEF WorkerReturn, WorkerProgress
  <2>3. /\ workerPc'[w] = "ended"
        /\ \A v \in Workers \ {w} : workerPc'[v] = workerPc[v]
        /\ term' = term /\ result' = result
    BY <1>12, <1>t DEF WorkerReturn, TypeOK
  <2>4. WorkerProgress'
    BY <1>p, <2>2, <2>3 DEF WorkerProgress
  <2>5. LoopProgress'
    BY <1>12, <1>t, <1>p, <2>3 DEF WorkerReturn, LoopProgress, TypeOK
  <2> QED
    BY <1>12, <1>p, <2>4, <2>5
       DEF WorkerReturn, SeriesOfOperation, SingleComplete, AddingProgress,
           MultiComplete
<1>13. CASE UNCHANGED vars
  BY <1>13, <1>p
     DEF vars, SeriesOfOperation, SingleComplete, WorkerProgress,
         LoopProgress, AddingProgress, MultiComplete
<1> QED
  BY <1>1, <1>2, <1>3, <1>4, <1>5, <1>6, <1>7, <1>8, <1>9, <1>10, <1>11,
     <1>12, <1>13 DEF Next, Main, Worker, Exited

\* The invariant holds in every reachable state.
THEOREM SeriesInvariant == Spec => []SeriesInv
  BY SeriesInvInit, SeriesInvNext, TypeCorrect, PTL DEF Spec

\* When no thread creation failed, the multi-threaded result has exactly the
\* terms of the single-threaded one.
THEOREM MultiMatchesSingleHolds == Spec => []MultiMatchesSingle
<1>1. SeriesInv => MultiMatchesSingle
  BY DEF SeriesInv, MultiMatchesSingle, SingleComplete, MultiComplete
<1> QED
  BY <1>1, SeriesInvariant, PTL

\* No worker runs once calculate..Multithread is past its joins.
THEOREM NoWorkerOutlivesJoinHolds == Spec => []NoWorkerOutlivesJoin
<1>1. SeriesInv => NoWorkerOutlivesJoin
  BY DEF SeriesInv, NoWorkerOutlivesJoin, LoopProgress
<1> QED
  BY <1>1, SeriesInvariant, PTL
=============================================================================
