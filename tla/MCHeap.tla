------------------------------- MODULE MCHeap -------------------------------
(* Instances of Heap for TLC.                                              *)
EXTENDS Heap

CONSTANTS a, zero, junk

MCData == {a}
=============================================================================
