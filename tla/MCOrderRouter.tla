--------------------------- MODULE MCOrderRouter ---------------------------
(* TLC's instances of OrderRouter; the tasks are interchangeable.          *)
EXTENDS OrderRouter, TLC

TaskSymmetry == Permutations(Tasks)
=============================================================================
