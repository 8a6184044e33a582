---------------------------- MODULE LinearMemory ----------------------------
(***************************************************************************)
(* Linear memory as WebAssembly defines it and docs/v32-wasm-reference.md  *)
(* restates it: bytes at byte addresses, a length in pages that only       *)
(* grows, and operations that either happen as a whole or trap.            *)
(***************************************************************************)
EXTENDS Integers, Sequences

CONSTANTS
  Byte, Zero,
  PageBytes,      \* bytes in a page
  InitialPages,   \* pages at the start
  MaxPages,       \* pages that memory.grow may reach
  Images,         \* sequences of data segments
  Addresses,      \* effective addresses of loads and stores
  Stores,         \* values that programs store, eight bytes each
  Arguments       \* operands of memory.copy, memory.fill and memory.grow

VARIABLES
  memory,   \* the bytes
  pages,    \* the length
  outcome   \* what the last operation returned

vars == <<memory, pages, outcome>>

Size(p) == p * PageBytes
Range(i, n) == i .. i + n - 1

Done == [kind |-> "done"]
Failed == [kind |-> "failed"]
Trapped == [kind |-> "trapped"]
Loaded(bytes) == [kind |-> "loaded", bytes |-> bytes]
Grown(old) == [kind |-> "grown", pages |-> old]
Sized(p) == [kind |-> "size", pages |-> p]

\* The data segments are copied in order: of two that overlap the later wins.
Covering(segments, i) ==
  {k \in DOMAIN segments : i \in Range(segments[k].offset, Len(segments[k].bytes))}

LastOf(S) == CHOOSE k \in S : \A j \in S : j <= k

Image(segments) ==
  [i \in 0 .. Size(InitialPages) - 1 |->
     LET over == Covering(segments, i)
         last == segments[LastOf(over)]
     IN IF over = {} THEN Zero ELSE last.bytes[i - last.offset + 1]]

-----------------------------------------------------------------------------

Load(i, width) ==
  /\ i + width <= Size(pages)
  /\ outcome' = Loaded([k \in 0 .. width - 1 |-> memory[i + k]])
  /\ UNCHANGED <<memory, pages>>

Store(i, width, value) ==
  /\ i + width <= Size(pages)
  /\ outcome' = Done
  /\ memory' = [j \in DOMAIN memory |->
                  IF j \in Range(i, width) THEN value[j - i] ELSE memory[j]]
  /\ UNCHANGED pages

\* All source bytes are read before any is written.
Copy(to, from, count) ==
  /\ to + count <= Size(pages) /\ from + count <= Size(pages)
  /\ outcome' = Done
  /\ memory' = [j \in DOMAIN memory |->
                  IF j \in Range(to, count) THEN memory[from + (j - to)] ELSE memory[j]]
  /\ UNCHANGED pages

Fill(to, byte, count) ==
  /\ to + count <= Size(pages)
  /\ outcome' = Done
  /\ memory' = [j \in DOMAIN memory |-> IF j \in Range(to, count) THEN byte ELSE memory[j]]
  /\ UNCHANGED pages

\* New pages are zero.
Grow(count) ==
  /\ pages + count <= MaxPages
  /\ outcome' = Grown(pages)
  /\ pages' = pages + count
  /\ memory' = [j \in 0 .. Size(pages') - 1 |-> IF j < Size(pages) THEN memory[j] ELSE Zero]

GrowFails(count) ==
  /\ pages + count > MaxPages
  /\ outcome' = Failed
  /\ UNCHANGED <<memory, pages>>

MemorySize ==
  /\ outcome' = Sized(pages)
  /\ UNCHANGED <<memory, pages>>

\* Nothing is written and execution ends.
Trap ==
  /\ outcome' = Trapped
  /\ UNCHANGED <<memory, pages>>

TrapAccess(i, width) == i + width > Size(pages) /\ Trap
TrapCopy(to, from, count) ==
  (to + count > Size(pages) \/ from + count > Size(pages)) /\ Trap
TrapFill(to, count) == to + count > Size(pages) /\ Trap

-----------------------------------------------------------------------------

Init ==
  /\ \E segments \in Images : memory = Image(segments)
  /\ pages = InitialPages
  /\ outcome = Done

Next ==
  /\ outcome # Trapped
  /\ \/ \E i \in Addresses, width \in {1, 2, 4, 8} :
          \/ Load(i, width)
          \/ \E value \in Stores : Store(i, width, value)
          \/ TrapAccess(i, width)
     \/ \E to, from, count \in Arguments :
          Copy(to, from, count) \/ TrapCopy(to, from, count)
     \/ \E to, count \in Arguments :
          TrapFill(to, count) \/ \E byte \in Byte : Fill(to, byte, count)
     \/ MemorySize
     \/ \E count \in Arguments : Grow(count) \/ GrowFails(count)

Spec == Init /\ [][Next]_vars
=============================================================================
