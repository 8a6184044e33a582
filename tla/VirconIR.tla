------------------------------ MODULE VirconIR ------------------------------
(***************************************************************************)
(* What the passes of src/src/vircon_ir.c see of a function's frame.       *)
(***************************************************************************)
CONSTANTS
  Slot,  \* BP-relative frame words
  Word   \* values of a machine word
=============================================================================
