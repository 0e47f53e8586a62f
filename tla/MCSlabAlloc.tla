---------------------------- MODULE MCSlabAlloc ----------------------------
(***************************************************************************)
(* SlabAlloc for TLC: two size classes, three host blocks.  With these     *)
(* headers a block of 10 bytes has two slots of the first class and one of *)
(* the second.                                                             *)
(***************************************************************************)
EXTENDS SlabAlloc, TLC

CONSTANTS t1, t2, b1, b2, b3

Sizes2 == <<2, 4>>
BlockSymmetry == Permutations(Blocks)
=============================================================================
