--------------------------- MODULE LocalOptimizer ---------------------------
(***************************************************************************)
(* vircon_ir_optimize_local (src/src/vircon_ir.c): one forward pass over   *)
(* the generated V32 nodes that removes frame copies, forwards registers   *)
(* to frame loads and folds integer constants.                             *)
(*                                                                         *)
(* The pass is modelled in lockstep with two executions of the code along  *)
(* one path: `ref' executes the nodes as the lowering appended them and    *)
(* `opt' executes the nodes the pass kept.  Each action reads one node     *)
(* (the body of the pass's loop): it executes the node on `ref', applies   *)
(* the pass's bookkeeping, and executes what was emitted, if anything, on  *)
(* `opt'.  The pass is correct when the two never differ.                  *)
(*                                                                         *)
(* A location is a register or a compiler frame word (a BP-relative word). *)
(* Nodes whose effect the pass does not interpret put an arbitrary value   *)
(* where they write, the same one in both executions.                      *)
(***************************************************************************)
EXTENDS VirconIR, Integers, FiniteSets

CONSTANTS
  General,     \* R0 to R15, the registers that may carry constant facts
  SP, BP,      \* the other two registers of the IR
  NoConstant,  \* constant_known = FALSE
  NoMove,      \* the last emitted node is not an uncommented move to a register
  FoldOps,     \* the operations fold_integer_operation evaluates
  Fold,        \* what those operations compute: Fold[<<op, left, right>>]
  FactLimit,   \* capacity of frame_values, 128 in the code
  NumberBound  \* bound on next_value, a 64-bit counter in the code

Register == General \cup {SP, BP}
Location == Register \cup Slot

ASSUME LocationsDisjoint ==
  /\ SP \notin General /\ BP \notin General /\ SP # BP
  /\ Register \cap Slot = {}
ASSUME NoConstantAssumption == NoConstant \notin Word
ASSUME NoMoveAssumption == NoMove \notin [to : Register, was : Word]
ASSUME FoldAssumption == Fold \in [FoldOps \X Word \X Word -> Word]
ASSUME NumberBoundAssumption == NumberBound \in Nat

VARIABLES
  ref,        \* the machine that executes the nodes as generated
  opt,        \* the machine that executes the nodes the pass kept
  lastMove,   \* nodes[write_index - 1], and what undoing it restores
  number,     \* register_values and FrameValueFact.value; 0 is unknown
  constant,   \* register_constants and FrameValueFact.constant, where known
  nextValue   \* next_value

vars == <<ref, opt, lastMove, number, constant, nextValue>>
facts == <<number, constant, nextValue>>

Machine == [Location -> Word]

\* The bound: a node that may need new numbers is read only when there are two.
Room == nextValue + 2 <= NumberBound

-----------------------------------------------------------------------------
(* Facts about frame words and registers.                                  *)

\* A frame word has an entry in frame_values exactly when its number is known:
\* both callers of frame_value_fact give a new entry a number at once.
Tracked == {s \in Slot : number[s] # 0}

NoFrameNumbers == [l \in Location |-> IF l \in Slot THEN 0 ELSE number[l]]
NoFrameConstants == [l \in Location |-> IF l \in Slot THEN NoConstant ELSE constant[l]]

\* frame_value_fact found no entry for s and no room for one.
TableFull(s) == s \notin Tracked /\ Cardinality(Tracked) = FactLimit

\* Fault: a full table hands out another word's entry as it is.
NumbersWithReusedEntry(s) ==
  IF TableFull(s)
  THEN LET victim == CHOOSE t \in Tracked : TRUE
       IN [number EXCEPT ![victim] = 0, ![s] = number[victim]]
  ELSE number

\* The facts once frame_value_fact has an entry for s: its callers empty the
\* table when it is full.
NumbersWithEntry(s) == IF TableFull(s) THEN NoFrameNumbers ELSE number

ConstantsWithEntry(s) == IF TableFull(s) THEN NoFrameConstants ELSE constant

\* Fault: a store through a pointer is taken to leave frame words alone.
ForgetFrameNot == UNCHANGED facts

\* clear_frame_value_facts: a store that may alias any frame word.
ForgetFrame ==
  /\ number' = NoFrameNumbers
  /\ constant' = NoFrameConstants
  /\ UNCHANGED nextValue

\* clear_value_facts: a join or an instruction that may clobber everything.
ForgetAll ==
  /\ number' = [l \in Location |-> 0]
  /\ constant' = [l \in Location |-> NoConstant]
  /\ UNCHANGED nextValue

\* find_register_holding_value: registers other than d that hold the number n.
\* The code takes the lowest one; which one it is must not matter.
Holding(n, d) == {r \in General \ {d} : n # 0 /\ number[r] = n}

ConstantFor(d, c) == IF d \in General THEN c ELSE NoConstant

-----------------------------------------------------------------------------
(* Emitting nodes.                                                         *)

Put(machine, l, w) == [machine EXCEPT ![l] = w]

\* The node is removed.
Remove == UNCHANGED <<opt, lastMove>>

\* A move to register d is emitted after the nodes `machine' has executed.  A
\* commented move is never taken back.
EmitMoveAfter(machine, d, w, commented) ==
  /\ opt' = Put(machine, d, w)
  /\ lastMove' = IF commented THEN NoMove ELSE [to |-> d, was |-> machine[d]]

EmitMove(d, w, commented) == EmitMoveAfter(opt, d, w, commented)

\* Any other node is emitted; it leaves the machine as `machine'.
EmitOther(machine) ==
  /\ opt' = machine
  /\ lastMove' = NoMove

\* mov d, immediate, where `known' is the constant d is known to hold.
EmitConstant(machine, known, d, w, commented) ==
  IF known = w
  THEN /\ opt' = machine
       /\ UNCHANGED <<lastMove, facts>>
  ELSE /\ Room
       /\ EmitMoveAfter(machine, d, w, commented)
       /\ number' = [number EXCEPT ![d] = nextValue]
       /\ constant' = [constant EXCEPT ![d] = ConstantFor(d, w)]
       /\ nextValue' = nextValue + 1

-----------------------------------------------------------------------------
(* The moves.                                                              *)

\* mov d, [BP+s]
LoadFrame(d, s, commented) ==
  LET numbers == NumbersWithEntry(s)
      n == IF numbers[s] = 0 THEN nextValue ELSE numbers[s]
  IN /\ Room
     /\ ref' = Put(ref, d, ref[s])
     /\ nextValue' = IF numbers[s] = 0 THEN nextValue + 1 ELSE nextValue
     /\ number' = [numbers EXCEPT ![s] = n, ![d] = n]
     /\ constant' = [ConstantsWithEntry(s) EXCEPT
                       ![d] = ConstantFor(d, ConstantsWithEntry(s)[s])]
     /\ \/ number[d] = n /\ Remove
        \/ /\ number[d] # n
           /\ \E source \in IF Holding(n, d) = {} THEN {s} ELSE Holding(n, d) :
                EmitMove(d, opt[source], commented)

\* mov [BP+s], r
StoreFrame(s, r) ==
  LET numbers == NumbersWithEntry(s)
      n == IF number[r] = 0 THEN nextValue ELSE number[r]
  IN /\ Room
     /\ ref' = Put(ref, s, ref[r])
     /\ nextValue' = IF number[r] = 0 THEN nextValue + 1 ELSE nextValue
     /\ number' = [numbers EXCEPT ![s] = n, ![r] = n]
     /\ constant' = [ConstantsWithEntry(s) EXCEPT ![s] = constant[r]]
     /\ IF numbers[s] = n THEN Remove ELSE EmitOther(Put(opt, s, opt[r]))

\* mov d, r
MoveRegister(d, r, commented) ==
  /\ Room
  /\ ref' = Put(ref, d, ref[r])
  /\ IF d = r \/ (number[d] # 0 /\ number[d] = number[r])
     THEN Remove /\ UNCHANGED <<number, nextValue>>
     ELSE LET n == IF number[r] = 0 THEN nextValue ELSE number[r]
          IN /\ EmitMove(d, opt[r], commented)
             /\ number' = [number EXCEPT ![r] = n, ![d] = n]
             /\ nextValue' = IF number[r] = 0 THEN nextValue + 1 ELSE nextValue
  /\ constant' = [constant EXCEPT ![d] = ConstantFor(d, constant[r])]

\* mov d, immediate
MoveImmediate(d, w, commented) ==
  /\ ref' = Put(ref, d, w)
  /\ EmitConstant(opt, constant[d], d, w, commented)

\* Fault: the register gets a new number and keeps its old constant.
FreshNumberStaleConstant(d) ==
  /\ Room
  /\ number' = [number EXCEPT ![d] = nextValue]
  /\ UNCHANGED constant
  /\ nextValue' = nextValue + 1

\* A register other than by a copy gets a value the pass does not know.
FreshNumber(d) ==
  /\ Room
  /\ number' = [number EXCEPT ![d] = nextValue]
  /\ constant' = [constant EXCEPT ![d] = NoConstant]
  /\ nextValue' = nextValue + 1

\* mov d, symbol and mov d, [other memory]: the word read is arbitrary.
LoadOther(d, w, commented) ==
  /\ ref' = Put(ref, d, w)
  /\ EmitMove(d, w, commented)
  /\ FreshNumber(d)

\* A store through a register other than BP, to an absolute address, or of an
\* immediate or symbol to a frame word.  It may hit the frame word s ...
StoreAliasing(s, w) ==
  /\ ref' = Put(ref, s, w)
  /\ EmitOther(Put(opt, s, w))
  /\ ForgetFrame

\* ... or no frame word at all.
StoreElsewhere ==
  /\ EmitOther(opt)
  /\ ForgetFrame
  /\ UNCHANGED ref

-----------------------------------------------------------------------------
(* The other nodes.                                                        *)

\* Fault: the move is taken back and its constant is still believed.
FoldOperationStaleConstant(op, d, right, known, commented) ==
  LET takeBack == lastMove # NoMove /\ lastMove.to = d
  IN /\ constant[d] # NoConstant
     /\ known # NoConstant
     /\ ref' = Put(ref, d, Fold[<<op, ref[d], right>>])
     /\ EmitConstant(IF takeBack THEN Put(opt, d, lastMove.was) ELSE opt,
                     constant[d],
                     d, Fold[<<op, constant[d], known>>], commented)

\* op d, right with both operands constant: the node becomes mov d, immediate
\* and takes back the move of a constant into d that was emitted just before.
FoldOperation(op, d, right, known, commented) ==
  LET takeBack == lastMove # NoMove /\ lastMove.to = d
  IN /\ constant[d] # NoConstant
     /\ known # NoConstant
     /\ ref' = Put(ref, d, Fold[<<op, ref[d], right>>])
     /\ EmitConstant(IF takeBack THEN Put(opt, d, lastMove.was) ELSE opt,
                     IF takeBack THEN NoConstant ELSE constant[d],
                     d, Fold[<<op, constant[d], known>>], commented)

\* op d, right where an operand is unknown.
Operate(op, d, right, optRight, known) ==
  /\ constant[d] = NoConstant \/ known = NoConstant
  /\ ref' = Put(ref, d, Fold[<<op, ref[d], right>>])
  /\ EmitOther(Put(opt, d, Fold[<<op, opt[d], optRight>>]))
  /\ FreshNumber(d)

\* Any other opcode_writes_first_register instruction: division, shifts,
\* floating point, conversions, pop, in.
OperateOpaque(d, w) ==
  /\ ref' = Put(ref, d, w)
  /\ EmitOther(Put(opt, d, w))
  /\ FreshNumber(d)

\* jt and jf not taken, out, wait: nothing the pass follows changes.
Neutral ==
  /\ EmitOther(opt)
  /\ UNCHANGED <<ref, facts>>

\* call and sets: general registers and frame words come back arbitrary.
Call(after) ==
  /\ \A l \in {SP, BP} : after[l] = ref[l]
  /\ ref' = after
  /\ EmitOther([l \in Location |-> IF l \in {SP, BP} THEN opt[l] ELSE after[l]])
  /\ ForgetAll

\* A label, a pointer node, and jmp, ret and hlt.  Execution falls through ...
Boundary ==
  /\ EmitOther(opt)
  /\ ForgetAll
  /\ UNCHANGED ref

\* ... or goes on from another jump to the next label.
Join(after) ==
  /\ ref' = after
  /\ EmitOther(after)
  /\ ForgetAll

\* Fault: the number given to SP is handed out again.
FunctionEntryReusedNumber(after) ==
  /\ Room
  /\ ref' = after
  /\ EmitOther(after)
  /\ number' = [l \in Location |-> IF l = BP THEN nextValue
                                   ELSE IF l = SP THEN nextValue + 1 ELSE 0]
  /\ constant' = [l \in Location |-> NoConstant]
  /\ nextValue' = nextValue + 1

\* The label and prologue of a function: push BP; mov BP, SP; isub SP, size.
FunctionEntry(after) ==
  /\ Room
  /\ ref' = after
  /\ EmitOther(after)
  /\ number' = [l \in Location |-> IF l = BP THEN nextValue
                                   ELSE IF l = SP THEN nextValue + 1 ELSE 0]
  /\ constant' = [l \in Location |-> NoConstant]
  /\ nextValue' = nextValue + 2

\* The return label and epilogue: mov SP, BP; pop BP; ret.
FunctionReturn(after) ==
  /\ Room
  /\ ref' = after
  /\ EmitOther(after)
  /\ number' = [l \in Location |-> 0]
  /\ constant' = [l \in Location |-> NoConstant]
  /\ nextValue' = nextValue + 2

-----------------------------------------------------------------------------
\* Fault: the first number handed out is the one that means unknown.
InitNumbersFromZero ==
  /\ ref \in Machine
  /\ opt = ref
  /\ lastMove = NoMove
  /\ number = [l \in Location |-> 0]
  /\ constant = [l \in Location |-> NoConstant]
  /\ nextValue = 0

Init ==
  /\ ref \in Machine
  /\ opt = ref
  /\ lastMove = NoMove
  /\ number = [l \in Location |-> 0]
  /\ constant = [l \in Location |-> NoConstant]
  /\ nextValue = 1

Move ==
  \E commented \in BOOLEAN, d \in General :
    \/ \E s \in Slot : LoadFrame(d, s, commented)
    \/ \E r \in Register : MoveRegister(d, r, commented)
    \/ \E w \in Word : MoveImmediate(d, w, commented)
    \/ \E w \in Word : LoadOther(d, w, commented)

Store ==
  \/ \E s \in Slot, r \in Register : StoreFrame(s, r)
  \/ \E s \in Slot, w \in Word : StoreAliasing(s, w)
  \/ StoreElsewhere

Compute ==
  \E d \in General :
    \/ \E op \in FoldOps, w \in Word, commented \in BOOLEAN :
         FoldOperation(op, d, w, w, commented)
    \/ \E op \in FoldOps, r \in Register, commented \in BOOLEAN :
         FoldOperation(op, d, ref[r], constant[r], commented)
    \/ \E op \in FoldOps, w \in Word : Operate(op, d, w, w, w)
    \/ \E op \in FoldOps, r \in Register : Operate(op, d, ref[r], opt[r], constant[r])
    \/ \E w \in Word : OperateOpaque(d, w)

Control ==
  \/ Neutral
  \/ Boundary
  \/ \E after \in Machine :
       Call(after) \/ Join(after) \/ FunctionEntry(after) \/ FunctionReturn(after)

Next == Move \/ Store \/ Compute \/ Control

Spec == Init /\ [][Next]_vars

-----------------------------------------------------------------------------
(* What is promised.                                                       *)

\* Types of the six variables.
TypeOK ==
  /\ ref \in Machine
  /\ opt \in Machine
  /\ lastMove \in [to : Register, was : Word] \cup {NoMove}
  /\ number \in [Location -> Nat]
  /\ constant \in [Location -> Word \cup {NoConstant}]
  /\ nextValue \in Nat \ {0}

\* The nodes the pass kept compute, after every node of the generated program,
\* the registers and frame words the generated program computes
\* (vircon_ir_optimize_local as a whole).
Equivalent == opt = ref

\* A number next_value has yet to hand out names no value: a fresh number never
\* makes two unrelated values look equal.
NumbersHandedOut == \A l \in Location : number[l] < nextValue

\* Two locations with the same known number hold the same word, whatever was
\* stored, clobbered or folded since either got it; this is what a removed
\* copy and a forwarded load rest on.
EqualNumbersEqualWords ==
  \A l, m \in Location : number[l] # 0 /\ number[l] = number[m] => ref[l] = ref[m]

\* A location whose constant is known holds it; this is what folding and the
\* removal of a repeated constant rest on.
KnownConstantsHold ==
  \A l \in Location : constant[l] # NoConstant => constant[l] = ref[l]
=============================================================================
