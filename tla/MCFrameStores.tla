---------------------------- MODULE MCFrameStores ----------------------------
(***************************************************************************)
(* Every program of three nodes and a final return over two frame words,   *)
(* with a jump or branch to each node: enough for a loop around a load and *)
(* a store, and for a store that only one of two paths reads.              *)
(***************************************************************************)
EXTENDS FrameStores

CONSTANTS s0, s1

MCSlot == {s0, s1}
MCWord == 0..1

MCNode ==
  [op : {"load", "store"}, slot : MCSlot, target : {0}]
    \cup [op : {"load_other", "other", "label", "jump_register"}, slot : {s0}, target : {0}]
    \cup [op : {"jump", "branch"}, slot : {s0}, target : 0..3]

MCPrograms ==
  {[i \in 1..4 |-> IF i = 4 THEN [op |-> "ret", slot |-> s0, target |-> 0] ELSE body[i]] :
     body \in [1..3 -> MCNode]}
=============================================================================
