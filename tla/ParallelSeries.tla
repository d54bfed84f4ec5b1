--------------------------- MODULE ParallelSeries ---------------------------
(***************************************************************************)
(* extra_points/main.c: the Taylor series of cos and sen (and tan as their *)
(* quotient), summed once by the main thread and once by threadCount       *)
(* threads that each sum a range of the ITERATIONS terms.                  *)
(*                                                                         *)
(* A GMP number that accumulates terms is the bag of the terms added to    *)
(* it: a function from term index to the number of times it was added.     *)
(* The value of a term depends only on its index, so two accumulators with *)
(* the same bag hold the same sum.                                         *)
(***************************************************************************)
EXTENDS Integers, FiniteSets

CONSTANTS
    ITERATIONS,        \* main.c: #define ITERATIONS 1000
    threadCount,       \* main.c: int threadCount = 4
    MaxSpawnFailures   \* bound: how many pthread_create calls may fail

ASSUME IterationsAssumption == ITERATIONS \in Nat
ASSUME ThreadCountAssumption == threadCount \in Nat \ {0}
ASSUME SpawnFailuresAssumption == MaxSpawnFailures \in Nat

\* 1000 terms and 4 threads: the integer division in the ranges loses nothing.
ASSUME RangesAssumption ==
    /\ ITERATIONS \div threadCount \in Nat
    /\ ITERATIONS = threadCount * (ITERATIONS \div threadCount)

Workers == 0 .. threadCount - 1
Terms == 0 .. ITERATIONS - 1
Series == {"cos", "sen"}
Operations == {"cos", "sen", "tan"}

Sums == [Terms -> Nat]
Zero == [k \in Terms |-> 0]                         \* mpf_set_ui(res, 0)
AddTerm(res, i) == [res EXCEPT ![i] = @ + 1]        \* mpf_add of one term
AddSums(a, b) == [k \in Terms |-> a[k] + b[k]]      \* mpf_add of two sums

\* What one call of cosFun or senFun leaves in res when nothing interrupts it.
SumRange(lower, upper) ==
    [k \in Terms |-> IF lower <= k /\ k < upper THEN 1 ELSE 0]

\* args[i].lowerRange and args[i].upperRange.
lowerRange(w) == w * (ITERATIONS \div threadCount)
upperRange(w) == (w + 1) * (ITERATIONS \div threadCount)

\* The series an operation needs, in the order main calculates them.
FirstSeries(op) == IF op = "cos" THEN "cos" ELSE "sen"
NeededSeries(op) == IF op = "tan" THEN Series ELSE {op}
IsLastSeries(op, s) == op # "tan" \/ s = "cos"

VARIABLES
    operation,  \* argv[1]
    pc,         \* where the main thread is
    series,     \* the series being calculated
    next,       \* the loop variable i of the calculate..Multithread loops
    single,     \* the sums calculated by the main thread alone
    multi,      \* the sums put together from the workers' results
    workerPc,   \* per worker: "none" until pthread_create has succeeded
    term,       \* per worker: the loop variable i of cosFun / senFun
    result,     \* per worker: args[w].result
    failures    \* how many pthread_create calls have failed

mainVars == <<operation, pc, series, next, single, multi, failures>>
workerVars == <<workerPc, term, result>>
vars == <<mainVars, workerVars>>

Init ==
    /\ operation \in Operations
    /\ pc = "single"
    /\ series = FirstSeries(operation)
    /\ next = 0
    /\ single = [s \in Series |-> Zero]
    /\ multi = [s \in Series |-> Zero]
    /\ workerPc = [w \in Workers |-> "none"]
    /\ term = [w \in Workers |-> 0]
    /\ result = [w \in Workers |-> Zero]
    /\ failures = 0

\* main: cosFun / senFun / tanFun over the whole range, on the main thread.
SingleThread ==
    /\ pc = "single"
    /\ single' = [single EXCEPT ![series] = SumRange(0, ITERATIONS)]
    /\ IF IsLastSeries(operation, series)
       THEN pc' = "spawn" /\ series' = FirstSeries(operation)
       ELSE pc' = "single" /\ series' = "cos"
    /\ UNCHANGED <<operation, next, multi, failures, workerVars>>

\* Iteration `next` of the creation loop: mpf_init and pthread_create.
Spawn ==
    /\ pc = "spawn"
    /\ next \in Workers
    /\ workerPc' = [workerPc EXCEPT ![next] = "start"]
    /\ result' = [result EXCEPT ![next] = Zero]
    /\ next' = next + 1
    /\ UNCHANGED <<operation, pc, series, single, multi, term, failures>>

\* pthread_create fails: its return value is ignored and no thread runs.
SpawnFails ==
    /\ pc = "spawn"
    /\ next \in Workers
    /\ failures < MaxSpawnFailures
    /\ failures' = failures + 1
    /\ result' = [result EXCEPT ![next] = Zero]
    /\ next' = next + 1
    /\ UNCHANGED <<operation, pc, series, single, multi, workerPc, term>>

AllSpawned ==
    /\ pc = "spawn"
    /\ next = threadCount
    /\ pc' = "join"
    /\ next' = 0
    /\ UNCHANGED <<operation, series, single, multi, failures, workerVars>>

\* Mutant: pthread_join does not wait.
Join_WithoutWaiting ==
    /\ pc = "join"
    /\ next \in Workers
    /\ workerPc[next] # "none"
    /\ next' = next + 1
    /\ UNCHANGED <<operation, pc, series, single, multi, failures, workerVars>>

\* pthread_join blocks until the thread has returned.
Join ==
    /\ pc = "join"
    /\ next \in Workers
    /\ workerPc[next] = "ended"
    /\ next' = next + 1
    /\ UNCHANGED <<operation, pc, series, single, multi, failures, workerVars>>

\* Mutant: a join that fails is tried again.
JoinGarbage_Retried ==
    /\ pc = "join"
    /\ next \in Workers
    /\ workerPc[next] = "none"
    /\ UNCHANGED vars

\* handles[next] was never written: the join of an indeterminate handle
\* returns an error that is ignored, or takes the process down.
JoinGarbage ==
    /\ pc = "join"
    /\ next \in Workers
    /\ workerPc[next] = "none"
    /\ \/ next' = next + 1 /\ pc' = pc
       \/ next' = next /\ pc' = "crashed"
    /\ UNCHANGED <<operation, series, single, multi, failures, workerVars>>

\* Mutant: the accumulator keeps the single-threaded sum.
AllJoined_ResNotReset ==
    /\ pc = "join"
    /\ next = threadCount
    /\ pc' = "add"
    /\ next' = 0
    /\ multi' = [multi EXCEPT ![series] = single[series]]
    /\ UNCHANGED <<operation, series, single, failures, workerVars>>

\* After the last join the accumulator is reset: mpf_set_ui(res, 0).
AllJoined ==
    /\ pc = "join"
    /\ next = threadCount
    /\ pc' = "add"
    /\ next' = 0
    /\ multi' = [multi EXCEPT ![series] = Zero]
    /\ UNCHANGED <<operation, series, single, failures, workerVars>>

\* Iteration `next` of the adding loop.
AddResult ==
    /\ pc = "add"
    /\ next \in Workers
    /\ multi' = [multi EXCEPT ![series] = AddSums(@, result[next])]
    /\ next' = next + 1
    /\ UNCHANGED <<operation, pc, series, single, failures, workerVars>>

\* calculate..Multithread returns: its frame, with args and handles, is gone.
AllAdded ==
    /\ pc = "add"
    /\ next = threadCount
    /\ next' = 0
    /\ workerPc' = [w \in Workers |-> "none"]
    /\ IF IsLastSeries(operation, series)
       THEN pc' = "done" /\ UNCHANGED series
       ELSE pc' = "spawn" /\ series' = "cos"
    /\ UNCHANGED <<operation, single, multi, failures, term, result>>

\* A worker enters cosFun / senFun: res is reset and the loop starts.
WorkerStart(w) ==
    /\ workerPc[w] = "start"
    /\ workerPc' = [workerPc EXCEPT ![w] = "loop"]
    /\ term' = [term EXCEPT ![w] = lowerRange(w)]
    /\ result' = [result EXCEPT ![w] = Zero]
    /\ UNCHANGED mainVars

\* One iteration of the loop over the terms.
WorkerStep(w) ==
    /\ workerPc[w] = "loop"
    /\ term[w] < upperRange(w)
    /\ result' = [result EXCEPT ![w] = AddTerm(@, term[w])]
    /\ term' = [term EXCEPT ![w] = @ + 1]
    /\ UNCHANGED <<mainVars, workerPc>>

WorkerReturn(w) ==
    /\ workerPc[w] = "loop"
    /\ term[w] >= upperRange(w)
    /\ workerPc' = [workerPc EXCEPT ![w] = "ended"]
    /\ UNCHANGED <<mainVars, term, result>>

Main ==
    \/ SingleThread \/ Spawn \/ SpawnFails \/ AllSpawned
    \/ Join \/ JoinGarbage \/ AllJoined \/ AddResult \/ AllAdded

Worker(w) == WorkerStart(w) \/ WorkerStep(w) \/ WorkerReturn(w)

Exited == pc \in {"done", "crashed"} /\ UNCHANGED vars

Next == Main \/ (\E w \in Workers : Worker(w)) \/ Exited

Spec == Init /\ [][Next]_vars

\* The scheduler runs the main thread and every worker that can run.
FairSpec == Spec /\ WF_vars(Main) /\ \A w \in Workers : WF_vars(Worker(w))

-----------------------------------------------------------------------------
\* The types of main's and of the workers' variables.
TypeOK ==
    /\ operation \in Operations
    /\ pc \in {"single", "spawn", "join", "add", "done", "crashed"}
    /\ series \in Series
    /\ next \in 0 .. threadCount
    /\ single \in [Series -> Sums]
    /\ multi \in [Series -> Sums]
    /\ workerPc \in [Workers -> {"none", "start", "loop", "ended"}]
    /\ term \in [Workers -> Nat]
    /\ result \in [Workers -> Sums]
    /\ failures \in Nat

\* The frame of calculate..Multithread holds args: no worker may still be
\* using it once the main thread is past the joins, and what it then adds up
\* are finished results.
NoWorkerOutlivesJoin ==
    pc \in {"add", "done"} =>
        \A w \in Workers : workerPc[w] \notin {"start", "loop"}

\* When every thread could be created, the multi-threaded sum has exactly the
\* terms of the single-threaded one, each once: no range is lost or shared.
MultiMatchesSingle ==
    pc = "done" /\ failures = 0 =>
        \A s \in NeededSeries(operation) : multi[s] = single[s]

\* The same without the condition on pthread_create: the comment "Creating
\* all threads" claims it, but the code never looks at the result of the call.
MultiMatchesSingleAlways ==
    pc = "done" => \A s \in NeededSeries(operation) : multi[s] = single[s]

(* The inductive invariant behind MultiMatchesSingle.                      *)

\* A series whose single-threaded calculation is over has every term once.
SingleComplete ==
    \A s \in NeededSeries(operation) :
        (pc # "single" \/ (s = "sen" /\ series = "cos")) =>
            single[s] = SumRange(0, ITERATIONS)

\* A worker's accumulator holds the terms from its lower bound to its loop
\* variable; a worker that has ended holds its whole range.
WorkerProgress ==
    \A w \in Workers :
        /\ workerPc[w] = "loop" =>
              /\ lowerRange(w) <= term[w] /\ term[w] <= upperRange(w)
              /\ result[w] = SumRange(lowerRange(w), term[w])
        /\ workerPc[w] = "ended" =>
              result[w] = SumRange(lowerRange(w), upperRange(w))

\* Which workers exist, and which are known to have ended, at each loop.
LoopProgress ==
    /\ pc = "single" => next = 0
    /\ \A w \in Workers :
           /\ pc = "spawn" /\ w >= next => workerPc[w] = "none"
           /\ pc = "spawn" /\ w < next /\ failures = 0 => workerPc[w] # "none"
           /\ pc = "join" /\ failures = 0 => workerPc[w] # "none"
           /\ pc = "join" /\ w < next => workerPc[w] \in {"none", "ended"}
           /\ pc = "add" => workerPc[w] \in {"none", "ended"}
           /\ pc = "add" /\ failures = 0 => workerPc[w] = "ended"
           /\ pc \in {"single", "done"} => workerPc[w] = "none"

\* What the adding loop has put together so far.
AddingProgress ==
    pc = "add" /\ failures = 0 => multi[series] = SumRange(0, lowerRange(next))

\* A series whose multi-threaded calculation is over has every term once.
MultiComplete ==
    \A s \in NeededSeries(operation) :
        /\ failures = 0
        /\ \/ pc = "done"
           \/ pc \in {"spawn", "join", "add"} /\ s = "sen" /\ series = "cos"
        => multi[s] = SumRange(0, ITERATIONS)

SeriesOfOperation == series \in NeededSeries(operation)

SeriesInv ==
    /\ TypeOK
    /\ SeriesOfOperation
    /\ SingleComplete
    /\ WorkerProgress
    /\ LoopProgress
    /\ AddingProgress
    /\ MultiComplete

\* Every run of the program comes to its end (or dies in the bad join).
Terminates == <>(pc \in {"done", "crashed"})
=============================================================================
