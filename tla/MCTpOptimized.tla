----------------------------- MODULE MCTpOptimized -----------------------------
(* Instances of TpOptimized for TLC: three classes of blocks, with one block   *)
(* of the class of messages, so that a second message comes from the heap.     *)
EXTENDS TpOptimized

Sizes == <<32, 256, 1024>>
Counts == <<1, 1, 1>>
================================================================================
