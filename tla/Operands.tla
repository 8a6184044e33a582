------------------------------ MODULE Operands ------------------------------
(***************************************************************************)
(* How the lowering (src/src/lowering.c) keeps Wasm operands: as           *)
(* immediates, as borrowed locals, in R1, in R8 for a moment, or in        *)
(* temporary slots below the locals, and what each expression does with    *)
(* the operands of the expressions around it.                              *)
(*                                                                         *)
(* A function is lowered depth first while the code it gives runs in step  *)
(* with Wasm: every operand carries the word that Wasm has for it.  Which  *)
(* function it is gets decided as the lowering asks for the next child.    *)
(* Code that a branch jumps over changes no word until its label.          *)
(***************************************************************************)
EXTENDS Integers, Sequences, SequencesExt

CONSTANTS
  Local,       \* i32 locals
  TempSlots,   \* TEMP_SLOTS
  Menus,       \* sets of kinds that a function is made of
  Size,        \* most expressions of a function
  Special      \* kinds of known miscompilation that functions may have

NoOne == 0

\* For each kind: what its children give and what it gives ("word": i32 or
\* f32; "pair": i64; "none"; "exit": none, and what follows is not reached).
Shape(children, gives) == [children |-> children, gives |-> gives]
Shapes ==
  [const |-> Shape(<<>>, "word"), get |-> Shape(<<>>, "word"), port |-> Shape(<<>>, "word"),
   size |-> Shape(<<>>, "word"), pair |-> Shape(<<>>, "pair"), nop |-> Shape(<<>>, "none"),
   unary |-> Shape(<<"word">>, "word"), cpu |-> Shape(<<"word">>, "word"),
   grow |-> Shape(<<"word">>, "word"), extract |-> Shape(<<"word">>, "word"),
   tee |-> Shape(<<"word">>, "word"), set |-> Shape(<<"word">>, "none"),
   binary |-> Shape(<<"word", "word">>, "word"), cpu2 |-> Shape(<<"word", "word">>, "word"),
   select |-> Shape(<<"word", "word", "word">>, "word"),
   wrap |-> Shape(<<"pair">>, "word"), extend |-> Shape(<<"word">>, "pair"),
   load64 |-> Shape(<<"word">>, "pair"), binary64 |-> Shape(<<"pair", "pair">>, "pair"),
   mul64 |-> Shape(<<"pair", "pair">>, "pair"), compare64 |-> Shape(<<"pair", "pair">>, "word"),
   store |-> Shape(<<"word", "word">>, "none"), store64 |-> Shape(<<"word", "pair">>, "none"),
   copy64 |-> Shape(<<"word", "word">>, "none"), packed |-> Shape(<<"word", "word", "word">>, "none"),
   bulk |-> Shape(<<"word", "word", "word">>, "none"),
   call |-> Shape(<<"word", "word">>, "word"), call64 |-> Shape(<<"word", "pair">>, "pair"),
   indirect |-> Shape(<<"word", "word">>, "word"), out |-> Shape(<<"word">>, "none"),
   ports |-> Shape(<<"word", "word">>, "none"), twoport |-> Shape(<<"word", "word">>, "none"),
   block |-> Shape(<<"none", "word">>, "word"), scope |-> Shape(<<"none", "none">>, "none"),
   ifelse |-> Shape(<<"word", "word", "word">>, "word"), if |-> Shape(<<"word", "none">>, "none"),
   br |-> Shape(<<"word">>, "exit"), brif |-> Shape(<<"word">>, "none"),
   brifvalue |-> Shape(<<"word", "word">>, "word"), table |-> Shape(<<"word">>, "exit"),
   return |-> Shape(<<"word">>, "exit"), drop |-> Shape(<<"word">>, "none"),
   function |-> Shape(<<"word">>, "word"), procedure |-> Shape(<<"none">>, "none")]
Kind == DOMAIN Shapes
Children(kind) == Shapes[kind].children
Gives(kind) == Shapes[kind].gives

\* Kinds whose code may enter other functions: R1 and R8 do not survive them.
Calling == {"call", "call64", "indirect", "bulk"}
\* The last operand may be left in R1, which the code then uses for others.
TakesLastFromR1 == {"store", "packed", "bulk"}
Specials == {"clobbered R1", "nested ports", "borrowed result"}

ASSUME OperandsAssumption ==
  /\ TempSlots \in Nat /\ Size \in Nat /\ Special \subseteq Specials
  /\ Menus \subseteq SUBSET (Kind \ {"function", "procedure"}) /\ IsFiniteSet(Local)
  /\ \A menu \in Menus : {"const", "get", "nop", "pair"} \subseteq menu

\* struct Value with its Wasm word.  at: local of a borrowed value, slot of
\* an owned one; high: slot of the high word of a pair.
Value ==
  [in : {"absent", "immediate", "borrowed", "R1", "R8", "owned"}, at : Local \cup Nat, high : Nat, word : Nat]
Absent == [in |-> "absent", at |-> 0, high |-> 0, word |-> 0]
Immediate(w) == [Absent EXCEPT !.in = "immediate", !.word = w]
Borrowed(l, w) == [Absent EXCEPT !.in = "borrowed", !.at = l, !.word = w]
InR1(w) == [Absent EXCEPT !.in = "R1", !.word = w]
Owned(slot, w) == [Absent EXCEPT !.in = "owned", !.at = slot, !.word = w]
Pair(low, high, w) == [Owned(low, w) EXCEPT !.high = high]
Words(v) == IF v.high = 0 THEN 1 ELSE 2
IsOwned(v) == v.in = "owned"

VARIABLES
  menu,     \* kinds of the function
  nodes,    \* expressions entered
  frames,   \* calls of lower_expression that have not returned, outermost first
  given,    \* what the last one that returned gave: <<>> or <<value>>
  code,     \* temp_depth, and the words the code emitted so far has left
  skip,     \* frame whose label the code has jumped to, or NoOne
  verdict   \* "lowering", "lowered" or "refused"

vars == <<menu, nodes, frames, given, code, skip, verdict>>

\* slots: the temporaries, and as many words behind them as one step may
\* ask for; wasm: the locals of Wasm; exact: all operands that have been
\* used were the words of Wasm; peak: the most temp_depth of this step.
Code ==
  [depth : Nat, peak : Nat, slots : [1 .. TempSlots + 4 -> Nat], locals : [Local -> Nat],
   wasm : [Local -> Nat], r1 : Nat, r8 : Nat, exact : BOOLEAN]

\* kept: children so far; slot: for the result; carried: the word that the
\* code jumping to its label brings; side: of an if, or of a binary operation
\* with a constant on its right.
Frame ==
  [kind : Kind, kept : Seq(Value), retain : BOOLEAN, slot : Nat, carried : Nat,
   side : {"none", "constant", "then", "else"}]

Top == Last(frames)
Index == Len(frames)
Runs == skip = NoOne

\* A word that nothing holds.
InUse ==
  {code.slots[s] : s \in DOMAIN code.slots} \cup {code.locals[l] : l \in Local}
  \cup {code.wasm[l] : l \in Local} \cup {code.r1, code.r8} \cup {v.word : v \in ToSet(given)}
  \cup UNION {{v.word : v \in ToSet(f.kept)} \cup {f.carried} : f \in ToSet(frames)}
New == CHOOSE w \in 1 .. Cardinality(InUse) + 1 : w \notin InUse

-----------------------------------------------------------------------------
(* Emitting code.                                                           *)

Read(c, v) ==
  CASE v.in = "immediate" -> v.word
    [] v.in = "borrowed" -> c.locals[v.at]
    [] v.in = "R1" -> c.r1
    [] v.in = "R8" -> c.r8
    [] v.in = "owned" -> c.slots[v.at]
    [] v.in = "absent" -> 0
Holds(c, v) == Read(c, v) = v.word /\ (v.high # 0 => c.slots[v.high] = v.word)

Allocate(c, n) ==
  [c EXCEPT !.depth = @ + n, !.peak = IF c.depth + n > @ THEN c.depth + n ELSE @]
\* Fault: every operand gives slots back.
ReleaseAnything(c, v) == [c EXCEPT !.depth = @ - Words(v)]
Release(c, v) ==
  IF IsOwned(v) /\ c.depth >= Words(v) THEN [c EXCEPT !.depth = @ - Words(v)] ELSE c
ReleaseBoth(c, u, v) == Release(Release(c, u), v)

Load(c, v) == [c EXCEPT !.r1 = Read(c, v)]
Store(c, slot, w) == [c EXCEPT !.slots[slot] = w]
\* n slots above depth are written on the way.
Spoil(c, depth, n) ==
  [c EXCEPT !.slots = [s \in DOMAIN @ |-> IF s \in depth + 1 .. depth + n THEN New ELSE @[s]]]
\* The code uses the word of v, which has to be that of Wasm.
Use(c, v) == [c EXCEPT !.exact = @ /\ Holds(c, v)]
LoadAndUse(c, v) == Load(Use(c, v), v)
Clobber(c) == [c EXCEPT !.r1 = 0]
Call(c) == [c EXCEPT !.r1 = 0, !.r8 = 0]

\* reserve_value_slot.
SlotFor(c, v) == IF IsOwned(v) THEN v.at ELSE c.depth + 1
Reserve(c, v) == IF IsOwned(v) THEN c ELSE Allocate(c, 1)
Reserved(c, v) == IF IsOwned(v) THEN v ELSE Owned(SlotFor(c, v), v.word)

\* materialize_value.
Materialize(c, v) ==
  IF IsOwned(v) THEN c
  ELSE LET loaded == Load(c, v) IN Store(Reserve(loaded, v), SlotFor(c, v), loaded.r1)

\* materialize_borrowed.
\* Fault: a borrowed local is not copied.
TransientInRegister(v) == v.in = "R1"
Transient(v) == v.in \in {"borrowed", "R1"}
MaterializeBorrowed(c, v) == IF Transient(v) THEN Materialize(c, v) ELSE c
Durable(c, v) == IF Transient(v) THEN Reserved(c, v) ELSE v

\* The result w of an operation is in R1 and slot, the last one, is for it:
\* retain_result_register, or the store.
Leave(c, w, slot, retain) ==
  IF retain THEN [Release(c, Owned(slot, w)) EXCEPT !.r1 = w]
  ELSE Store([c EXCEPT !.r1 = w], slot, w)
Left(w, slot, retain) == IF retain THEN InR1(w) ELSE Owned(slot, w)
StorePair(c, low, high, w) == Store(Store([c EXCEPT !.r1 = w], low, w), high, w)

\* emit_call_arguments.
Arguments(c, u, v) == LoadAndUse(LoadAndUse(c, u), v)

-----------------------------------------------------------------------------
(* Stepping.                                                                *)

\* The code becomes c, the calls fs have not returned, and the code has
\* jumped to to.  A full temporary area ends the lowering with a diagnostic.
Emit(c, fs, gives, to) ==
  IF c.peak > TempSlots
    THEN verdict' = "refused" /\ frames' = <<>> /\ given' = <<>> /\ UNCHANGED <<menu, code, skip>>
    ELSE /\ code' = IF Runs THEN [c EXCEPT !.peak = 0] ELSE [code EXCEPT !.depth = c.depth]
         /\ frames' = fs
         /\ given' = gives
         /\ skip' = to
         /\ UNCHANGED <<menu, verdict>>

\* The top call keeps v and goes on, or returns v.
Replaced(f) == ReplaceAt(frames, Index, f)
Keep(c, v) == Emit(c, Replaced([Top EXCEPT !.kept = Append(@, v)]), <<>>, skip) /\ UNCHANGED nodes
Return(c, v) == Emit(c, Front(frames), <<v>>, skip) /\ UNCHANGED nodes

\* What the child that has just returned gave.
Child == given[1]
Kept(n) == Top.kept[n]
\* The top call is of one of the kinds; this was its child n, or its last.
Returned(kinds, n) == given # <<>> /\ Top.kind \in kinds /\ Len(Top.kept) = n - 1
Complete(kinds) == given # <<>> /\ Top.kind \in kinds /\ Returned(kinds, Len(Children(Top.kind)))

\* preferred_result_register while the next child of f is lowered.
Retains(f) ==
  \/ f.retain
  \/ f.kind \in {"cpu", "out", "twoport", "brif"}
  \/ f.kind \in {"if", "ifelse"} /\ f.kept = <<>>
  \/ f.kind = "brifvalue" /\ Len(f.kept) = 1

\* A block and the arms of an if may end with an exit.
Arm(f) ==
  \/ f.kind \in {"block", "scope"} /\ Len(f.kept) = 1
  \/ f.kind \in {"if", "ifelse"} /\ f.kept # <<>>
Fits(kind, f) ==
  \/ Gives(kind) = Children(f.kind)[Len(f.kept) + 1]
  \/ Gives(kind) = "exit" /\ Arm(f)

\* expression_clobbers_held_platform_argument keeps calls out of the second
\* operand of two ports.  The other conjuncts leave out the functions of
\* Special, and branches without a label.
HeldInR8 == \E f \in ToSet(frames) : f.kind = "twoport" /\ Len(f.kept) = 1
Within(kind) == \E f \in ToSet(frames) : f.kind = kind
Allowed(kind, f) ==
  /\ kind \in Calling => ~HeldInR8
  /\ kind \in TakesLastFromR1 /\ Retains(f) => "clobbered R1" \in Special
  /\ kind = "twoport" /\ HeldInR8 => "nested ports" \in Special
  /\ kind = "get" /\ f.kind = "cpu2" /\ f.kept # <<>> /\ f.kept[1].in = "immediate"
       => "borrowed result" \in Special
  /\ f.kind = "binary" /\ f.kept # <<>> => ((kind = "const") <=> (f.side = "constant"))
  /\ kind \in {"br", "brifvalue"} => Within("block")
  /\ kind \in {"brif", "table"} => Within("scope")

\* Children that are still to come, one expression each at least; a frame but
\* the top one is lowering the first of its own.
Open == 1 + FoldSeq(LAMBDA f, n : n + Len(Children(f.kind)) - Len(f.kept) - 1, 0, frames)

Start == CHOOSE f \in [Local -> 1 .. Cardinality(Local)] : IsInjective(f)
NewFrame(kind, retain, slot) ==
  [kind |-> kind, kept |-> <<>>, retain |-> retain, slot |-> slot, carried |-> 0, side |-> "none"]

Init ==
  /\ menu \in Menus
  /\ nodes = 0
  /\ \E kind \in {"function", "procedure"} : frames = <<NewFrame(kind, FALSE, 0)>>
  /\ given = <<>>
  /\ code = [depth |-> 0, peak |-> 0, slots |-> [s \in 1 .. TempSlots + 4 |-> 0], locals |-> Start,
             wasm |-> Start, r1 |-> 0, r8 |-> 0, exact |-> TRUE]
  /\ skip = NoOne
  /\ verdict = "lowering"

-----------------------------------------------------------------------------
(* Entering expressions.                                                    *)

Enters(kind) ==
  /\ verdict = "lowering" /\ given = <<>> /\ kind \in menu
  /\ Fits(kind, Top) /\ Allowed(kind, Top)
  /\ nodes < Size /\ nodes + Open + Len(Children(kind)) <= Size
  /\ nodes' = nodes + 1

Gets(c, v) == Emit(c, frames, <<v>>, skip)

LowerConst == Enters("const") /\ Gets(code, Immediate(New))

LowerLocalGet == Enters("get") /\ \E l \in Local : Gets(code, Borrowed(l, code.wasm[l]))

\* memory.size and global.get of the stack pointer.
LowerSize ==
  /\ Enters("size")
  /\ LET slot == code.depth + 1 IN Gets(Leave(Allocate(code, 1), New, slot, FALSE), Owned(slot, New))

\* R0 brings the word of the port.
LowerPortRead ==
  /\ Enters("port")
  /\ LET slot == code.depth + 1 IN
       IF Retains(Top) THEN Gets([code EXCEPT !.r1 = New], InR1(New))
       ELSE Gets(Store(Allocate(code, 1), slot, New), Owned(slot, New))

\* i64.const and local.get of an i64.
LowerPair ==
  /\ Enters("pair")
  /\ LET low == code.depth + 1 IN
       Gets(StorePair(Allocate(code, 2), low, low + 1, New), Pair(low, low + 1, New))

LowerNop == Enters("nop") /\ Gets(code, Absent)

\* A block with a result reserves its slot before its children.
Descend ==
  \E kind \in Kind :
    /\ Enters(kind) /\ Children(kind) # <<>>
    /\ LET c == IF kind = "block" THEN Allocate(code, 1) ELSE code
           slot == IF kind = "block" THEN c.depth ELSE 0
       IN Emit(c, Append(frames, NewFrame(kind, Retains(Top), slot)), <<>>, skip)

-----------------------------------------------------------------------------
(* Operands kept while the next ones are lowered.                           *)

\* lower_binary: a constant on the right cannot assign a borrowed local.  The
\* slot of the result is reserved here; the operand stays where it is.
KeepLeft(constant) ==
  /\ Returned({"binary"}, 1)
  /\ LET c == IF constant THEN code ELSE MaterializeBorrowed(code, Child)
         left == IF constant THEN Child ELSE Durable(code, Child)
     IN /\ Emit(Reserve(c, left),
                Replaced([Top EXCEPT !.kept = <<left>>, !.slot = SlotFor(c, left),
                                     !.side = IF constant THEN "constant" ELSE "none"]), <<>>, skip)
        /\ UNCHANGED nodes

\* Arguments of calls and hardware imports, of stores and bulk operations,
\* and the value of a br_if: materialize_borrowed.
KeepBorrowable ==
  /\ \E n \in 1 .. 2 :
       /\ Returned({"cpu2", "store", "store64", "packed", "bulk", "call", "call64", "ports", "brifvalue"}, n)
       /\ n < Len(Children(Top.kind))
  /\ Keep(MaterializeBorrowed(code, Child), Durable(code, Child))

\* The operands of select, of indirect calls and of i64 copies.
KeepMaterialized ==
  \/ /\ Returned({"select", "indirect", "copy64"}, 1)
     /\ Keep(Materialize(code, Child), Reserved(code, Child))
  \/ /\ Returned({"select"}, 2)
     /\ Keep(MaterializeBorrowed(code, Child), Durable(code, Child))

KeepPair == Returned({"binary64", "mul64", "compare64"}, 1) /\ Keep(code, Child)

\* lower_two_port_import holds its first operand in R8.
KeepInR8 ==
  /\ Returned({"twoport"}, 1)
  /\ LET c == [Use(code, Child) EXCEPT !.r8 = Read(code, Child)]
     IN Keep(Release(c, Child), [Absent EXCEPT !.in = "R8", !.word = Child.word])

-----------------------------------------------------------------------------
(* Operations.                                                              *)

\* Unary operations and loads; the slot of the operand becomes the result's.
LowerUnary ==
  /\ Complete({"unary"})
  /\ LET c == LoadAndUse(Reserve(code, Child), Child)
         slot == SlotFor(code, Child)
     IN Return(Leave(c, New, slot, Top.retain), Left(New, slot, Top.retain))

\* Unary CPU operations, reads of RAM, memory.grow and i64 word extraction,
\* which takes one slot more for a while, leave the result in its slot.
LowerInPlace ==
  /\ Complete({"cpu", "grow", "extract"})
  /\ LET c == LoadAndUse(Reserve(code, Child), Child)
         slot == SlotFor(code, Child)
         high == Owned(c.depth + 1, 0)
         held == IF Top.kind = "extract" THEN Release(Store(Allocate(c, 1), high.at, New), high) ELSE c
     IN Return(Leave(held, New, slot, FALSE), Owned(slot, New))

\* Fault: the left operand is always loaded first.
LowerBinaryLeftFirst ==
  /\ Complete({"binary"})
  /\ LET c == Use(LoadAndUse(code, Kept(1)), Child)
     IN Return(Release(Leave(c, New, Top.slot, Top.retain), Child), Left(New, Top.slot, Top.retain))

\* R2 takes the right operand; first, if that is in R1.
LowerBinary ==
  /\ Complete({"binary"})
  /\ LET first == IF Child.in = "R1" THEN Child ELSE Kept(1)
         second == IF Child.in = "R1" THEN Kept(1) ELSE Child
         c == Use(LoadAndUse(code, first), second)
     IN Return(Release(Leave(c, New, Top.slot, Top.retain), Child), Left(New, Top.slot, Top.retain))

LowerSelect ==
  /\ Complete({"select"})
  /\ LET c == LoadAndUse(code, Child)
     IN \E taken \in {Kept(1), Kept(2)} :
          LET stored == LoadAndUse(c, taken)
          IN Return(Release(Release(Store(stored, Kept(1).at, stored.r1), Child), Kept(2)),
                    Owned(Kept(1).at, taken.word))

LowerTee ==
  /\ Complete({"tee", "set"})
  /\ \E l \in Local :
       LET loaded == LoadAndUse(code, Child)
           c == [loaded EXCEPT !.locals[l] = loaded.r1, !.wasm[l] = Child.word]
       IN IF Top.kind = "tee" THEN Return(MaterializeBorrowed(c, Child), Durable(c, Child))
          ELSE Return(Release(c, Child), Absent)

LowerDrop == Complete({"drop"}) /\ Return(Release(code, Child), Absent)

\* lower_cpu_binary: the result goes to the slot of the left operand, or of
\* the right one if the left is an immediate.
LowerCpuBinary ==
  /\ Complete({"cpu2"})
  /\ LET right == Durable(code, Child)
         spilled == IF Child.in = "R1" THEN Materialize(code, Child) ELSE code
         operand == IF Child.in = "R1" THEN right ELSE Child
         place == IF Kept(1).in # "immediate" \/ operand.in = "immediate" THEN Kept(1) ELSE operand
         c == Use(Use(Reserve(spilled, IF place.in = "borrowed" THEN Owned(0, 0) ELSE place), Kept(1)), operand)
     IN IF place.in = "borrowed"
          THEN Return([c EXCEPT !.locals[place.at] = New, !.r1 = Read(c, operand)],
                      [place EXCEPT !.word = New])
          ELSE LET slot == SlotFor(spilled, place)
                   done == Store([c EXCEPT !.r1 = Read(c, operand)], slot, New)
               IN Return(IF place = operand THEN done ELSE Release(done, operand), Owned(slot, New))

\* An import with one argument, and one with two.
LowerPortWrite == Complete({"out"}) /\ Return(Release(LoadAndUse(code, Child), Child), Absent)
LowerPortWrites ==
  /\ Complete({"ports"})
  /\ LET c == IF Child.in = "R1" THEN Materialize(code, Child) ELSE code
         last == IF Child.in = "R1" THEN Reserved(code, Child) ELSE Child
     IN Return(ReleaseBoth(Use(LoadAndUse(c, Kept(1)), last), Kept(1), last), Absent)
LowerTwoPorts ==
  /\ Complete({"twoport"})
  /\ Return(Release(Use(LoadAndUse(code, Child), Kept(1)), Child), Absent)

\* Stores: the address is computed in R2, with R1 for its bounds check.
Address(c, pointer) == Clobber(Use(c, pointer))
LowerStore ==
  /\ Complete({"store"})
  /\ Return(ReleaseBoth(LoadAndUse(Address(code, Kept(1)), Child), Kept(1), Child), Absent)
LowerPackedStore ==
  /\ Complete({"packed"})
  /\ LET low == LoadAndUse(Address(code, Kept(1)), Child)
         c == LoadAndUse(Use(low, Kept(1)), Kept(2))
     IN Return(Release(ReleaseBoth(c, Kept(1), Kept(2)), Child), Absent)
LowerPairStore ==
  /\ Complete({"store64"})
  /\ LET c == Store(Allocate(Address(code, Kept(1)), 1), code.depth + 1, New)
     IN Return(Release(ReleaseBoth(LoadAndUse(c, Child), Kept(1), Child), Owned(code.depth + 1, 0)), Absent)

\* An i64 load stored at once: both operands and two slots for addresses.
LowerPairCopy ==
  /\ Complete({"copy64"})
  /\ LET source == Reserved(code, Child)
         c == Address(Materialize(code, Child), source)
         high == c.depth + 1
         loaded == Store(Store(Allocate(c, 1), source.at, New), high, New)
         moved == Store(Allocate(Address(loaded, Kept(1)), 1), high + 1, New)
         released == ReleaseBoth(moved, Kept(1), source)
     IN Return(ReleaseBoth(released, Owned(high, 0), Owned(high + 1, 0)), Absent)

LowerBulk ==
  /\ Complete({"bulk"})
  /\ LET c == LoadAndUse(Arguments(code, Kept(1), Kept(2)), Child)
     IN Return(Call(Release(ReleaseBoth(c, Kept(1), Kept(2)), Child)), Absent)

\* Calls: the arguments are released before the result gets its slots.
Result(c, words) ==
  LET low == c.depth + 1 IN
    IF words = 1 THEN Return(Store(Allocate(c, 1), low, New), Owned(low, New))
    ELSE Return(StorePair(Allocate(c, 2), low, low + 1, New), Pair(low, low + 1, New))
LowerCall ==
  /\ Complete({"call", "call64"})
  /\ LET c == IF Child.in = "R1" THEN Materialize(code, Child) ELSE code
         last == IF Child.in = "R1" THEN Reserved(code, Child) ELSE Child
         passed == Arguments(c, Kept(1), last)
     IN Result(Call(ReleaseBoth(passed, Kept(1), last)), IF Top.kind = "call" THEN 1 ELSE 2)
LowerCallIndirect ==
  /\ Complete({"indirect"})
  /\ LET selector == Reserved(code, Child)
         c == Use(LoadAndUse(Materialize(code, Child), Kept(1)), selector)
     IN Result(Call(ReleaseBoth(c, Kept(1), selector)), 1)

-----------------------------------------------------------------------------
(* i64 operations.                                                          *)

LowerPairLoad ==
  /\ Complete({"load64"})
  /\ LET low == SlotFor(code, Child)
         c == Address(Reserve(code, Child), Child)
     IN Return(StorePair(Allocate(c, 1), low, c.depth + 1, New), Pair(low, c.depth + 1, New))

LowerExtend ==
  /\ Complete({"extend"})
  /\ LET low == SlotFor(code, Child)
         c == LoadAndUse(Materialize(code, Child), Reserved(code, Child))
     IN Return(StorePair(Allocate(c, 1), low, c.depth + 1, New), Pair(low, c.depth + 1, New))

\* i32.wrap_i64 and i64.eqz give up the slot of the high word.
LowerNarrow ==
  /\ Complete({"wrap"})
  /\ LET c == LoadAndUse(code, Child)
     IN Return([Leave(c, New, Child.at, FALSE) EXCEPT !.depth = @ - 1], Owned(Child.at, New))

\* The multiplication takes three slots for a while.
LowerPairBinary ==
  /\ Complete({"binary64", "mul64"})
  /\ LET limbs == IF Top.kind = "mul64" THEN 3 ELSE 0
         c == Use(Use(Allocate(code, limbs), Kept(1)), Child)
         spoilt == Spoil(c, code.depth, limbs)
     IN Return(Release([StorePair(spoilt, Kept(1).at, Kept(1).high, New) EXCEPT !.depth = @ - limbs], Child),
               Pair(Kept(1).at, Kept(1).high, New))

LowerPairCompare ==
  /\ Complete({"compare64"})
  /\ LET c == Release(Store(Use(Use(code, Kept(1)), Child), Kept(1).at, New), Child)
     IN Return([c EXCEPT !.depth = @ - 1, !.r1 = New], Owned(Kept(1).at, New))

-----------------------------------------------------------------------------
(* Structured control.  Where the code jumps is chosen: conditions are      *)
(* words like any other.                                                    *)

\* The frames after a jump to frame j that brings word w.
Carrying(fs, j, w) == [fs EXCEPT ![j].carried = w]

\* A child that is not the last of a block gives nothing.
NextOfBlock == Returned({"block", "scope"}, 1) /\ Keep(Release(code, Child), Absent)

\* The fallthrough value is stored before the label.
Stored(c, v, slot) ==
  IF v.in = "absent" THEN c ELSE LET loaded == LoadAndUse(c, v) IN Store(loaded, slot, loaded.r1)
EndBlock ==
  /\ Complete({"block"})
  /\ LET c == Release(Stored(code, Child, Top.slot), Child)
         word == IF skip = Index THEN Top.carried ELSE Child.word
     IN /\ Emit(c, Front(frames), <<Owned(Top.slot, word)>>, IF skip = Index THEN NoOne ELSE skip)
        /\ UNCHANGED nodes
EndScope ==
  /\ Complete({"scope"})
  /\ Emit(Release(code, Child), Front(frames), <<Absent>>, IF skip = Index THEN NoOne ELSE skip)
  /\ UNCHANGED nodes

\* The value of a br goes to the slot of its block.
Branch ==
  /\ Complete({"br"})
  /\ \E j \in 1 .. Index :
       /\ frames[j].kind = "block"
       /\ LET c == Release(Stored(code, Child, frames[j].slot), Child)
          IN IF Runs THEN Emit(c, Front(Carrying(frames, j, Child.word)), <<Absent>>, j)
             ELSE Emit(c, Front(frames), <<Absent>>, skip)
  /\ UNCHANGED nodes

BranchIf ==
  /\ Complete({"brif", "table"})
  /\ LET c == Release(LoadAndUse(code, Child), Child)
         falls == IF Top.kind = "brif" \/ ~Runs THEN {skip} ELSE {}
         jumps == IF Runs THEN {j \in 1 .. Index : frames[j].kind = "scope"} ELSE {}
     IN \E to \in falls \cup jumps : Emit(c, Front(frames), <<Absent>>, to)
  /\ UNCHANGED nodes

\* Only the code of the jump stores the value; the operand stays for the
\* code that falls through.
BranchIfWithValue ==
  /\ Complete({"brifvalue"})
  /\ LET c == LoadAndUse(code, Child)
     IN \/ Emit(Release(c, Child), Front(frames), <<Kept(1)>>, skip)
        \/ \E j \in 1 .. Index :
             /\ Runs /\ frames[j].kind = "block"
             /\ Emit(Release(Stored(c, Kept(1), frames[j].slot), Child),
                     Front(Carrying(frames, j, Kept(1).word)), <<Kept(1)>>, j)
  /\ UNCHANGED nodes

\* Fault: the slot of the result is reserved before the condition is released.
TestAfterReserving ==
  /\ Returned({"if", "ifelse"}, 1)
  /\ LET reserved == IF Top.kind = "ifelse" THEN Allocate(code, 1) ELSE code
         c == Release(LoadAndUse(reserved, Child), Child)
         slot == IF Top.kind = "ifelse" THEN reserved.depth ELSE 0
     IN \E side \in {"then", "else"} :
          Emit(c, Replaced([Top EXCEPT !.kept = <<Absent>>, !.slot = slot, !.side = side]), <<>>,
               IF Runs /\ side = "else" THEN Index ELSE skip)
  /\ UNCHANGED nodes

\* The condition is released before the slot of the result is reserved.
Test ==
  /\ Returned({"if", "ifelse"}, 1)
  /\ LET c == Release(LoadAndUse(code, Child), Child)
         reserved == IF Top.kind = "ifelse" THEN Allocate(c, 1) ELSE c
         slot == IF Top.kind = "ifelse" THEN reserved.depth ELSE 0
     IN \E side \in {"then", "else"} :
          Emit(reserved, Replaced([Top EXCEPT !.kept = <<Absent>>, !.slot = slot, !.side = side]), <<>>,
               IF Runs /\ side = "else" THEN Index ELSE skip)
  /\ UNCHANGED nodes

\* The first arm jumps over the second one.
EndArm ==
  /\ Returned({"ifelse"}, 2)
  /\ LET c == Release(Stored(code, Child, Top.slot), Child)
         kept == [Top EXCEPT !.kept = Append(@, Absent)]
     IN CASE Runs -> Emit(c, Replaced([kept EXCEPT !.carried = Child.word]), <<>>, Index)
          [] skip = Index -> Emit(c, Replaced(kept), <<>>, NoOne)
          [] OTHER -> Emit(c, Replaced(kept), <<>>, skip)
  /\ UNCHANGED nodes
EndIf ==
  /\ Complete({"if", "ifelse"})
  /\ LET c == IF Top.kind = "ifelse" THEN Stored(code, Child, Top.slot) ELSE code
         word == IF skip = Index THEN Top.carried ELSE Child.word
     IN Emit(Release(c, Child), Front(frames),
             <<IF Top.kind = "ifelse" THEN Owned(Top.slot, word) ELSE Absent>>,
             IF skip = Index THEN NoOne ELSE skip)
  /\ UNCHANGED nodes

\* return puts its operand into R0 and jumps to the end of the function.
LowerReturn ==
  /\ Complete({"return"})
  /\ Emit(Release(Use(code, Child), Child), Front(frames), <<Absent>>, IF Runs THEN 1 ELSE skip)
  /\ UNCHANGED nodes

EndFunction ==
  /\ Complete({"function", "procedure"})
  /\ verdict' = "lowered"
  /\ code' = Release(IF Runs THEN Use(code, Child) ELSE code, Child)
  /\ frames' = <<>> /\ given' = <<>> /\ skip' = NoOne
  /\ UNCHANGED <<menu, nodes>>

-----------------------------------------------------------------------------
Leaf == LowerConst \/ LowerLocalGet \/ LowerSize \/ LowerPortRead \/ LowerPair \/ LowerNop
KeepOperand ==
  \/ \E constant \in BOOLEAN : KeepLeft(constant)
  \/ KeepBorrowable
  \/ KeepMaterialized
  \/ KeepPair
  \/ KeepInR8
Operate ==
  \/ LowerUnary \/ LowerInPlace \/ LowerBinary \/ LowerSelect \/ LowerTee \/ LowerDrop
  \/ LowerCpuBinary \/ LowerPortWrite \/ LowerPortWrites \/ LowerTwoPorts
  \/ LowerStore \/ LowerPackedStore \/ LowerPairStore \/ LowerPairCopy \/ LowerBulk
  \/ LowerCall \/ LowerCallIndirect
  \/ LowerPairLoad \/ LowerExtend \/ LowerNarrow \/ LowerPairBinary \/ LowerPairCompare
Control ==
  \/ NextOfBlock \/ EndBlock \/ EndScope \/ Branch \/ BranchIf \/ BranchIfWithValue
  \/ Test \/ EndArm \/ EndIf \/ LowerReturn \/ EndFunction

Ended == verdict # "lowering" /\ UNCHANGED vars

Next == Leaf \/ Descend \/ KeepOperand \/ Operate \/ Control \/ Ended

Spec == Init /\ [][Next]_vars

-----------------------------------------------------------------------------
TypeOK ==
  /\ menu \in Menus /\ nodes \in 0 .. Size
  /\ \A f \in ToSet(frames) : f \in Frame
  /\ Len(given) <= 1 /\ \A v \in ToSet(given) : v \in Value
  /\ code \in Code
  /\ verdict = "lowering" => skip \in 0 .. Index
  /\ verdict \in {"lowering", "lowered", "refused"}

\* Whatever the operands after it do to locals, registers and slots, an
\* operand that waits for them is still the word that Wasm has for it: a
\* borrowed local is assigned only after it was copied, and R1 is saved before
\* other code uses it.  The locals are those of Wasm, and so was every word
\* that the code has stored, passed, written to a port, tested or returned.
\* (Expressions that the code has jumped out of hold nothing.)
OperandsHeld ==
  verdict = "lowering" =>
    /\ \A i \in 1 .. (IF Runs THEN Index ELSE skip) :
         \A v \in ToSet(frames[i].kept) : Holds(code, v)
    /\ Runs => \A v \in ToSet(given) : Holds(code, v)
    /\ code.locals = code.wasm
OperandsExact == OperandsHeld /\ code.exact

\* temp_depth counts just the slots of operands and results that are waiting.
\* They are stacked in the order of the calls and operands they belong to, no
\* two share one, and none is left at the end: what release gives back is what
\* was on top.
SlotsOf(v) == IF IsOwned(v) THEN {v.at, v.high} \ {0} ELSE {}
Holding(i) ==
  IF i > Index THEN UNION {SlotsOf(v) : v \in ToSet(given)}
  ELSE (UNION {SlotsOf(v) : v \in ToSet(frames[i].kept)}) \cup ({frames[i].slot} \ {0})
SlotsAccounted ==
  verdict # "refused" =>
    /\ UNION {Holding(i) : i \in 1 .. Index + 1} = 1 .. code.depth
    /\ \A i, j \in 1 .. Index + 1 : i < j => \A s \in Holding(i), t \in Holding(j) : s < t
    /\ \A i \in 1 .. Index : \A m, n \in DOMAIN frames[i].kept :
         m < n => \A s \in SlotsOf(frames[i].kept[m]), t \in SlotsOf(frames[i].kept[n]) : s < t
=============================================================================
