---------------------------- MODULE MCOptimizedPool ----------------------------
(* Instances of OptimizedPool for TLC.                                         *)
EXTENDS OptimizedPool, TLC

\* The workers are interchangeable.
WorkerSymmetry == Permutations(Workers)
================================================================================
