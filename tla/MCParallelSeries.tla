--------------------------- MODULE MCParallelSeries ---------------------------
(* Model-checking instance of ParallelSeries: ranges of two terms or more,   *)
(* so that a range is interrupted in its middle, and three workers.          *)
EXTENDS ParallelSeries

ASSUME threadCount > 2 /\ ITERATIONS \div threadCount > 1
=============================================================================
