------------------------------ MODULE MCThreadPool -----------------------------
(* Instances of ThreadPool for TLC.                                            *)
EXTENDS ThreadPoolProperties, TLC

\* The workers are interchangeable.
WorkerSymmetry == Permutations(Workers)
================================================================================
