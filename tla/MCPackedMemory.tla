--------------------------- MODULE MCPackedMemory ---------------------------
(* Instances of PackedMemory for TLC.                                      *)
EXTENDS PackedMemory

CONSTANTS zero, one

Ones == [k \in Lane |-> one]
Segments(offset, bytes) == [offset |-> offset, bytes |-> bytes]
MCLeftovers == {Ones}
MCStores == {[k \in 0 .. 7 |-> IF k % 2 = 0 THEN one ELSE zero], [k \in 0 .. 7 |-> zero]}
\* No data; an empty segment; one that ends inside a word; two that overlap.
MCImages ==
  {<<>>, <<Segments(2, <<>>)>>, <<Segments(0, <<one, one, one>>)>>,
   <<Segments(1, <<one, one, one>>), Segments(2, <<zero>>)>>}
=============================================================================
