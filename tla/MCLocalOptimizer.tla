-------------------------- MODULE MCLocalOptimizer --------------------------
(***************************************************************************)
(* A small instance of LocalOptimizer: one-bit words, on which subtraction *)
(* and comparison still differ and a signed word can be negative.          *)
(***************************************************************************)
EXTENDS LocalOptimizer, TLC

CONSTANTS r0, r1, s0, s1

MCGeneral == {r0, r1}
MCSlot == {s0, s1}
MCWord == 0..1
MCFoldOps == {"isub", "ilt"}

MCSigned(w) == IF w = 1 THEN -1 ELSE w

MCFold ==
  [x \in MCFoldOps \X MCWord \X MCWord |->
     IF x[1] = "isub" THEN (x[2] - x[3]) % 2
     ELSE IF MCSigned(x[2]) < MCSigned(x[3]) THEN 1 ELSE 0]

MCSymmetry == Permutations(MCGeneral) \cup Permutations(MCSlot)
=============================================================================
