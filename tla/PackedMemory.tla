---------------------------- MODULE PackedMemory ----------------------------
(***************************************************************************)
(* Linear memory as the generated program keeps it (src/src/lowering.c):   *)
(* four bytes to a word of the console's RAM, between words that belong to *)
(* others, with the length in a word of its own.                           *)
(*                                                                         *)
(* Loads, stores and the startup code run as a whole; the helpers for      *)
(* memory.copy and memory.fill and the loop of memory.grow take one step   *)
(* for each pass.  Addresses of loads and stores are those that            *)
(* effective_address has checked: BoundsChecks says which accesses trap.   *)
(***************************************************************************)
EXTENDS Integers, Sequences

CONSTANTS
  Byte, Zero,
  PageWords,      \* VIRCON_WORDS_PER_WASM_PAGE
  InitialPages,   \* memory_initial_pages
  MaxPages,       \* memory_growth_limit_pages
  RamWords,       \* VIRCON_RAM_WORDS
  Base,           \* LINEAR_BASE
  Images,         \* sequences of data segments
  Addresses,      \* effective addresses of loads and stores
  Stores,         \* values that programs store, eight bytes each
  Modulus,        \* number of i32 words
  Arguments,      \* operands of memory.copy, memory.fill and memory.grow
  Leftovers,      \* what words of RAM hold before startup
  Overruns        \* may a program pass ranges to memory.copy and memory.fill
                  \* that leave linear memory and have no negative operand?

Word == 0 .. Modulus - 1
Lane == 0 .. 3
Packed == [Lane -> Byte]
Ram == 0 .. RamWords - 1
Words(p) == p * PageWords
Bytes(p) == 4 * Words(p)
Linear == Base .. Base + Words(MaxPages) - 1
Initial == Base .. Base + Words(InitialPages) - 1
Segment == [offset : Nat, bytes : Seq(Byte)]
Operation == {"idle", "forward", "backward", "fill", "clear"}

ASSUME ByteAssumption == Zero \in Byte
ASSUME LayoutAssumption ==
  /\ PageWords \in Nat \ {0} /\ InitialPages \in Nat /\ MaxPages \in Nat
  /\ InitialPages <= MaxPages
  /\ RamWords \in Nat /\ Base \in Nat /\ Base + Words(MaxPages) <= RamWords
  /\ Modulus \in Nat /\ 2 * Bytes(MaxPages) < Modulus
ASSUME ProgramAssumption ==
  /\ Images \subseteq Seq(Segment)
  /\ \A segments \in Images : \A k \in DOMAIN segments :
       segments[k].offset + Len(segments[k].bytes) <= Bytes(InitialPages)
  /\ Addresses \subseteq Nat /\ Stores \subseteq [0 .. 7 -> Byte] /\ Arguments \subseteq Word
  /\ Leftovers \subseteq Packed /\ Overruns \in BOOLEAN

VARIABLES
  ram,      \* the words of RAM
  pages,    \* the word VIRCON_WASM_MEMORY_PAGES_WORD
  task,     \* the helper or loop that runs: its operation, the words of its
            \* frame or registers, and the byte that memory.fill writes
  outcome   \* what the last operation returned

vars == <<ram, pages, task, outcome>>

Idle == [op |-> "idle", to |-> 0, from |-> 0, count |-> 0, byte |-> Zero]

Length == Bytes(pages)
Range(i, n) == i .. i + n - 1

Done == [kind |-> "done"]
Failed == [kind |-> "failed"]
Trapped == [kind |-> "trapped"]
Loaded(bytes) == [kind |-> "loaded", bytes |-> bytes]
Grown(old) == [kind |-> "grown", pages |-> old]
Sized(p) == [kind |-> "size", pages |-> p]

-----------------------------------------------------------------------------
(* Bytes in words.                                                         *)

WordOf(i) == Base + i \div 4
LaneOf(i) == i % 4

\* load_byte_at_r2
ByteAt(i) == ram[WordOf(i)][LaneOf(i)]

\* Fault: the other bytes of the word are lost.
WithByteAlone(r, i, byte) ==
  [r EXCEPT ![WordOf(i)] = [k \in Lane |-> IF k = LaneOf(i) THEN byte ELSE Zero]]

\* store_byte_at_r2
WithByte(r, i, byte) == [r EXCEPT ![WordOf(i)] = [@ EXCEPT ![LaneOf(i)] = byte]]

\* load_i32_at_r2: an unaligned word is put together from its bytes.
WordAt(i) ==
  IF LaneOf(i) = 0 THEN ram[WordOf(i)] ELSE [k \in Lane |-> ByteAt(i + k)]

\* store_i32_at_r2
WithWord(r, i, v) ==
  IF LaneOf(i) = 0
  THEN [r EXCEPT ![WordOf(i)] = v]
  ELSE WithByte(WithByte(WithByte(WithByte(r, i, v[0]), i + 1, v[1]), i + 2, v[2]), i + 3, v[3])

\* lower_load and lower_i64_load
ValueAt(i, width) ==
  CASE width = 1 -> [k \in 0 .. 0 |-> ByteAt(i)]
    [] width = 2 -> [k \in 0 .. 1 |-> ByteAt(i + k)]
    [] width = 4 -> WordAt(i)
    [] width = 8 -> [k \in 0 .. 7 |-> IF k < 4 THEN WordAt(i)[k] ELSE WordAt(i + 4)[k - 4]]

\* lower_store and lower_i64_store
WithValue(r, i, width, v) ==
  CASE width = 1 -> WithByte(r, i, v[0])
    [] width = 2 -> WithByte(WithByte(r, i, v[0]), i + 1, v[1])
    [] width = 4 -> WithWord(r, i, [k \in Lane |-> v[k]])
    [] width = 8 -> WithWord(WithWord(r, i, [k \in Lane |-> v[k]]), i + 4,
                             [k \in Lane |-> v[k + 4]])

-----------------------------------------------------------------------------
(* Startup.                                                                *)

\* The bytes of the data segments, copied in order into a cleared image.
Covering(segments, i) ==
  {k \in DOMAIN segments : i \in Range(segments[k].offset, Len(segments[k].bytes))}

LastOf(S) == CHOOSE k \in S : \A j \in S : j <= k

ImageByte(segments, i) ==
  LET over == Covering(segments, i)
      last == segments[LastOf(over)]
  IN IF over = {} THEN Zero ELSE last.bytes[i - last.offset + 1]

\* Fault: the last word of a segment is not written.
TouchedShort(segments, w) ==
  \E k \in DOMAIN segments :
    LET s == segments[k] IN
    Len(s.bytes) # 0 /\ w \in s.offset \div 4 .. (s.offset + Len(s.bytes)) \div 4 - 1

Touched(segments, w) ==
  \E k \in DOMAIN segments :
    LET s == segments[k] IN
    Len(s.bytes) # 0 /\ w \in s.offset \div 4 .. (s.offset + Len(s.bytes) - 1) \div 4

\* initialize_data: only the words of the image that a segment touches are
\* written.
Started(segments, power) ==
  [w \in Ram |->
     IF w \in Initial /\ Touched(segments, w - Base)
     THEN [k \in Lane |-> ImageByte(segments, 4 * (w - Base) + k)]
     ELSE power[w]]

\* RAM before startup: clear where linear memory begins its life.
PowerOn == {power \in [Ram -> Leftovers \cup {[k \in Lane |-> Zero]}] :
              \A w \in Initial : power[w] = [k \in Lane |-> Zero]}

-----------------------------------------------------------------------------
(* Loads and stores.                                                       *)

Ready == task = Idle /\ outcome # Trapped

Load(i, width) ==
  /\ Ready /\ i + width <= Length
  /\ outcome' = Loaded(ValueAt(i, width))
  /\ UNCHANGED <<ram, pages, task>>

Store(i, width, value) ==
  /\ Ready /\ i + width <= Length
  /\ ram' = WithValue(ram, i, width, value)
  /\ outcome' = Done
  /\ UNCHANGED <<pages, task>>

Trap ==
  /\ outcome' = Trapped
  /\ UNCHANGED <<ram, pages, task>>

TrapAccess(i, width) == Ready /\ i + width > Length /\ Trap

\* memory.size
MemorySize ==
  /\ Ready
  /\ outcome' = Sized(pages)
  /\ UNCHANGED <<ram, pages, task>>

-----------------------------------------------------------------------------
(* memory.copy and memory.fill.                                            *)

Negative(w) == 2 * w >= Modulus
Signed(w) == IF Negative(w) THEN w - Modulus ELSE w
Plus(a, b) == IF a + b < Modulus THEN a + b ELSE a + b - Modulus

\* emit_bulk_bounds_checks: R1 holds an operand and then the result of its
\* comparison with 0, which is 0 where the jump to the trap is not taken; the
\* two comparisons with the length that follow compare that result.
TargetFails(to, count) ==
  LET result == 0 IN
  \/ Negative(to) \/ result > Length
  \/ Negative(count) \/ result > Length - result

\* The last comparison is made with the count itself.
SourceFails(from, count) ==
  LET result == 0 IN
  \/ Negative(from) \/ result > Length
  \/ count > Length - result

CopyFails(to, from, count) == TargetFails(to, count) \/ SourceFails(from, count)

\* The programs under consideration.
Inside(i, count) == i + count <= Length

\* Fault: bytes are always copied from the first to the last.
BackwardNever(to, from, count) == FALSE

\* The destination starts inside the source.
Backward(to, from, count) == to > from /\ to < Signed(Plus(from, count))

CallCopy(to, from, count) ==
  /\ Ready /\ ~CopyFails(to, from, count)
  /\ (Inside(to, count) /\ Inside(from, count)) \/ Overruns
  /\ task' = IF Backward(to, from, count)
             THEN [op |-> "backward", to |-> Plus(to, count), from |-> Plus(from, count),
                   count |-> count, byte |-> Zero]
             ELSE [op |-> "forward", to |-> to, from |-> from, count |-> count, byte |-> Zero]
  /\ outcome' = Done
  /\ UNCHANGED <<ram, pages>>

TrapCopy(to, from, count) == Ready /\ CopyFails(to, from, count) /\ Trap

CallFill(to, byte, count) ==
  /\ Ready /\ ~TargetFails(to, count)
  /\ Inside(to, count) \/ Overruns
  /\ task' = [op |-> "fill", to |-> to, from |-> 0, count |-> count, byte |-> byte]
  /\ outcome' = Done
  /\ UNCHANGED <<ram, pages>>

TrapFill(to, count) == Ready /\ TargetFails(to, count) /\ Trap

Running(op) == task.op = op /\ task.count > 0

CopyForward ==
  /\ Running("forward")
  /\ {WordOf(task.to), WordOf(task.from)} \subseteq Ram
  /\ ram' = WithByte(ram, task.to, ByteAt(task.from))
  /\ task' = [task EXCEPT !.to = @ + 1, !.from = @ + 1, !.count = @ - 1]
  /\ UNCHANGED <<pages, outcome>>

CopyBackward ==
  /\ Running("backward")
  /\ {WordOf(task.to - 1), WordOf(task.from - 1)} \subseteq Ram
  /\ ram' = WithByte(ram, task.to - 1, ByteAt(task.from - 1))
  /\ task' = [task EXCEPT !.to = @ - 1, !.from = @ - 1, !.count = @ - 1]
  /\ UNCHANGED <<pages, outcome>>

FillByte ==
  /\ Running("fill")
  /\ WordOf(task.to) \in Ram
  /\ ram' = WithByte(ram, task.to, task.byte)
  /\ task' = [task EXCEPT !.to = @ + 1, !.count = @ - 1]
  /\ UNCHANGED <<pages, outcome>>

\* Fault: the loop of memory.fill has no exit.
ReturnFromCopy ==
  /\ task.op \in {"forward", "backward"} /\ task.count = 0
  /\ task' = Idle
  /\ UNCHANGED <<ram, pages, outcome>>

Return ==
  /\ task.op \in {"forward", "backward", "fill"} /\ task.count = 0
  /\ task' = Idle
  /\ UNCHANGED <<ram, pages, outcome>>

-----------------------------------------------------------------------------
(* memory.grow.                                                            *)

GrowFails(count) ==
  /\ Ready /\ (Negative(count) \/ count > MaxPages - pages)
  /\ outcome' = Failed
  /\ UNCHANGED <<ram, pages, task>>

\* Fault: the limit is not looked at.
GrowUnchecked(count) ==
  /\ Ready /\ ~Negative(count)
  /\ task' = [op |-> "clear", to |-> Base + Words(pages), from |-> pages + count,
              count |-> Words(count), byte |-> Zero]
  /\ UNCHANGED <<ram, pages, outcome>>

\* Fault: one word too many is cleared.
GrowOneMore(count) ==
  /\ Ready /\ ~Negative(count) /\ count <= MaxPages - pages
  /\ task' = [op |-> "clear", to |-> Base + Words(pages), from |-> pages + count,
              count |-> Words(count) + 1, byte |-> Zero]
  /\ UNCHANGED <<ram, pages, outcome>>

\* `to' is the word to clear next (R3) and `from' the new page count (R5).
Grow(count) ==
  /\ Ready /\ ~Negative(count) /\ count <= MaxPages - pages
  /\ task' = [op |-> "clear", to |-> Base + Words(pages), from |-> pages + count,
              count |-> Words(count), byte |-> Zero]
  /\ UNCHANGED <<ram, pages, outcome>>

\* Fault: the word is left as it was.
ClearWordNot == ram' = ram

ClearWord == ram' = [ram EXCEPT ![task.to] = [k \in Lane |-> Zero]]

Clear ==
  /\ Running("clear")
  /\ ClearWord
  /\ task' = [task EXCEPT !.to = @ + 1, !.count = @ - 1]
  /\ UNCHANGED <<pages, outcome>>

FinishGrow ==
  /\ task.op = "clear" /\ task.count = 0
  /\ pages' = task.from
  /\ outcome' = Grown(pages)
  /\ task' = Idle
  /\ UNCHANGED ram

-----------------------------------------------------------------------------
Init ==
  /\ \E segments \in Images, power \in PowerOn : ram = Started(segments, power)
  /\ pages = InitialPages
  /\ task = Idle
  /\ outcome = Done

Next ==
  \/ \E i \in Addresses, width \in {1, 2, 4, 8} :
       \/ Load(i, width)
       \/ \E value \in Stores : Store(i, width, value)
       \/ TrapAccess(i, width)
  \/ \E to, from, count \in Arguments : CallCopy(to, from, count) \/ TrapCopy(to, from, count)
  \/ \E to, count \in Arguments :
       TrapFill(to, count) \/ \E byte \in Byte : CallFill(to, byte, count)
  \/ CopyForward \/ CopyBackward \/ FillByte \/ Return
  \/ MemorySize
  \/ \E count \in Arguments : Grow(count) \/ GrowFails(count)
  \/ Clear \/ FinishGrow

Spec == Init /\ [][Next]_vars

\* The helpers and the clearing loop run on.
FairSpec == Spec /\ WF_vars(CopyForward \/ CopyBackward \/ FillByte \/ Return \/ Clear \/ FinishGrow)

-----------------------------------------------------------------------------
(* Properties.                                                             *)

TypeOK ==
  /\ ram \in [Ram -> Packed]
  /\ pages \in InitialPages .. MaxPages
  /\ task \in [op : Operation, to : Nat, from : Nat, count : Nat, byte : Byte]
  /\ outcome.kind \in {"done", "failed", "trapped", "loaded", "grown", "size"}

\* Whatever the program does with linear memory, no word of RAM outside it is
\* ever written: not by a byte store that rewrites a whole word, not by the
\* bulk helpers, not by the loop that clears new pages (store_byte_at_r2,
\* emit_memory_copy_helper, emit_memory_fill_helper, lower_memory_grow).
OutsideUntouched == [][\A w \in Ram \ Linear : ram'[w] = ram[w]]_vars

\* Every bulk operation and every memory.grow comes to its end.
HelpersReturn == task.op # "idle" ~> task.op = "idle"

\* Memory as the program will see it when the helper that runs has returned.
Finally(i) ==
  IF task.op = "forward" /\ i \in Range(task.to, task.count)
  THEN ByteAt(task.from + (i - task.to))
  ELSE IF task.op = "backward" /\ i \in Range(task.to - task.count, task.count)
  THEN ByteAt(task.from - (task.to - i))
  ELSE IF task.op = "fill" /\ i \in Range(task.to, task.count)
  THEN task.byte
  ELSE ByteAt(i)

\* The packed words behave as the bytes that WebAssembly speaks of: see
\* LinearMemory.  A copy happens, for the program, when the helper is called.
Promise == INSTANCE LinearMemory WITH
  memory <- [i \in 0 .. Length - 1 |-> Finally(i)],
  PageBytes <- 4 * PageWords
KeepsPromise == Promise!Spec
=============================================================================
