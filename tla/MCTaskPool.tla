----------------------------- MODULE MCTaskPool -----------------------------
(***************************************************************************)
(* TaskPool for TLC: the main thread m and the workers w1 and w2.          *)
(***************************************************************************)
EXTENDS TaskPool

CONSTANTS m, w1, w2
=============================================================================
