----------------------------- MODULE FrameStores -----------------------------
(***************************************************************************)
(* vircon_ir_eliminate_dead_frame_stores (src/src/vircon_ir.c): backward   *)
(* liveness of the compiler's frame words over the generated control-flow  *)
(* graph, then the removal of every store to a word that is not live after *)
(* it.                                                                     *)
(*                                                                         *)
(* First the pass runs, one node of one sweep per step.  Then one path of  *)
(* the program is executed twice: `register' and `frame' belong to the     *)
(* program as generated, `keptRegister' and `keptFrame' to the nodes that  *)
(* the pass kept.  The pass is correct when the registers always agree.    *)
(*                                                                         *)
(* One register stands for all of them.  A call keeps the frame: the       *)
(* callee has its own.                                                     *)
(***************************************************************************)
EXTENDS VirconIR, Integers, FiniteSets

CONSTANTS
  NodeCount,     \* program->count
  Programs,      \* the generated programs considered
  SlotLimit,     \* FRAME_LIVENESS_SLOT_LIMIT, 512 in the code
  AliasedLoads   \* whether a load through another register may hit the frame

Node == [op : {"load", "store", "load_other", "other", "label",
               "jump", "branch", "jump_register", "ret"},
         slot : Slot,         \* of a load or a store
         target : Nat]        \* of a jump or a branch: the node its symbol names

Index == 1..NodeCount

ASSUME NodeCountAssumption == NodeCount \in Nat \ {0}
ASSUME ProgramsAssumption == Programs \subseteq [Index -> Node]
ASSUME WordAssumption == Word # {}
ASSUME AliasedLoadsAssumption == AliasedLoads \in BOOLEAN

VARIABLES
  program,       \* program->nodes
  phase,         \* "start", "sweep", "done" once the pass has returned, "run"
  index,         \* the loop index of the current sweep
  changed,       \* whether the current sweep changed a live_in
  liveIn,        \* live_ins
  liveOut,       \* live_outs
  kept,          \* the nodes left in the program
  pc,            \* the node to execute next, in the original numbering
  register, frame,
  keptRegister, keptFrame

sets == <<liveIn, liveOut>>
machines == <<register, frame, keptRegister, keptFrame>>
frameVars == <<program, phase, index, changed, sets, kept, pc, machines>>

-----------------------------------------------------------------------------
(* The control-flow graph and the transfer function.                       *)

Op(i) == program[i].op

FallThrough(i) == IF i = NodeCount THEN {} ELSE {i + 1}

Labels == {i \in Index : Op(i) = "label"}

\* ir_successors, for a node with known successors.
Successors(i) ==
  IF Op(i) = "ret" THEN {}
  ELSE IF Op(i) = "jump" THEN {program[i].target}
  ELSE IF Op(i) = "branch" THEN {program[i].target} \cup FallThrough(i)
  ELSE FallThrough(i)

\* ir_successors returns false: the symbol names no label.
Malformed(i) == Op(i) \in {"jump", "branch"} /\ program[i].target \notin Labels

\* collect_frame_liveness_use_def
Use(i) == IF Op(i) = "load" THEN {program[i].slot} ELSE {}

\* Fault: a store marks the whole word of the bit set.
DefinitionOfAllSlots(i) == IF Op(i) = "store" THEN Slot ELSE {}

Definition(i) == IF Op(i) = "store" THEN {program[i].slot} ELSE {}

\* Fault: an indirect jump is taken to leave the function.
NewLiveOutOfKnown(i) ==
  IF Op(i) = "jump_register" THEN {} ELSE UNION {liveIn[j] : j \in Successors(i)}

\* Every frame word is live where the successors are unknown.
NewLiveOut(i) ==
  IF Op(i) = "jump_register" THEN Slot ELSE UNION {liveIn[j] : j \in Successors(i)}

NewLiveIn(i) == (NewLiveOut(i) \ Definition(i)) \cup Use(i)

Mentioned == {program[i].slot : i \in {j \in Index : Op(j) \in {"load", "store"}}}

-----------------------------------------------------------------------------
(* The pass.                                                               *)

\* The pass returns with the program as it was.
Decline ==
  /\ phase' = "done"
  /\ UNCHANGED <<program, index, changed, sets, kept, pc, machines>>

\* The table of frame words is empty or too small, or an allocation fails.
DeclineAtStart ==
  /\ phase = "start"
  /\ Decline

Start ==
  /\ phase = "start"
  /\ Mentioned # {}
  /\ Cardinality(Mentioned) <= SlotLimit
  /\ phase' = "sweep"
  /\ index' = NodeCount
  /\ changed' = FALSE
  /\ UNCHANGED <<program, sets, kept, pc, machines>>

DeclineMalformed ==
  /\ phase = "sweep"
  /\ index # 0
  /\ Malformed(index)
  /\ Decline

\* One node of a backward sweep.
VisitNode ==
  /\ phase = "sweep"
  /\ index # 0
  /\ ~Malformed(index)
  /\ liveOut' = [liveOut EXCEPT ![index] = NewLiveOut(index)]
  /\ liveIn' = [liveIn EXCEPT ![index] = NewLiveIn(index)]
  /\ changed' = (changed \/ NewLiveIn(index) # liveIn[index])
  /\ index' = index - 1
  /\ UNCHANGED <<program, phase, kept, pc, machines>>

\* Fault: the flag is not cleared for the next sweep.
SweepAgainStillChanged ==
  /\ phase = "sweep"
  /\ index = 0
  /\ changed
  /\ index' = NodeCount
  /\ UNCHANGED <<program, phase, changed, sets, kept, pc, machines>>

\* Fault: every sweep starts from empty sets.
SweepAgainFromScratch ==
  /\ phase = "sweep"
  /\ index = 0
  /\ changed
  /\ changed' = FALSE
  /\ index' = NodeCount
  /\ liveIn' = [i \in Index |-> {}]
  /\ UNCHANGED <<program, phase, liveOut, kept, pc, machines>>

\* Fault: the next sweep starts one node past the end.
SweepAgainPastEnd ==
  /\ phase = "sweep"
  /\ index = 0
  /\ changed
  /\ changed' = FALSE
  /\ index' = NodeCount + 1
  /\ UNCHANGED <<program, phase, sets, kept, pc, machines>>

\* do ... while (changed)
SweepAgain ==
  /\ phase = "sweep"
  /\ index = 0
  /\ changed
  /\ changed' = FALSE
  /\ index' = NodeCount
  /\ UNCHANGED <<program, phase, sets, kept, pc, machines>>

\* Fault: a store is judged by what is live before it.
EliminateByLiveIn ==
  /\ phase = "sweep"
  /\ index = 0
  /\ ~changed
  /\ kept' = {i \in Index : Definition(i) \subseteq liveIn[i]}
  /\ phase' = "done"
  /\ UNCHANGED <<program, index, changed, sets, pc, machines>>

\* The sweep changed nothing: the dead stores are removed and the pass returns.
Eliminate ==
  /\ phase = "sweep"
  /\ index = 0
  /\ ~changed
  /\ kept' = {i \in Index : Definition(i) \subseteq liveOut[i]}
  /\ phase' = "done"
  /\ UNCHANGED <<program, index, changed, sets, pc, machines>>

Pass == DeclineAtStart \/ Start \/ DeclineMalformed \/ VisitNode \/ SweepAgain \/ Eliminate

-----------------------------------------------------------------------------
(* One path of the program, with and without the removed stores.           *)

\* A function is entered: its frame words are whatever the stack held.
Enter ==
  /\ phase = "done"
  /\ phase' = "run"
  /\ register' \in Word
  /\ frame' \in [Slot -> Word]
  /\ keptRegister' = register'
  /\ keptFrame' = frame'
  /\ UNCHANGED <<program, index, changed, sets, kept, pc>>

At(ops) == phase = "run" /\ pc \in Index /\ Op(pc) \in ops

GoTo(target) ==
  /\ pc' = target
  /\ UNCHANGED <<program, phase, index, changed, sets, kept>>

\* mov R, [BP+slot]
Load ==
  /\ At({"load"})
  /\ register' = frame[program[pc].slot]
  /\ keptRegister' = keptFrame[program[pc].slot]
  /\ GoTo(pc + 1)
  /\ UNCHANGED <<frame, keptFrame>>

\* mov [BP+slot], R
StoreSlot ==
  /\ At({"store"})
  /\ frame' = [frame EXCEPT ![program[pc].slot] = register]
  /\ keptFrame' = IF pc \in kept
                  THEN [keptFrame EXCEPT ![program[pc].slot] = keptRegister]
                  ELSE keptFrame
  /\ GoTo(pc + 1)
  /\ UNCHANGED <<register, keptRegister>>

\* What mov R, [other register] may read, with and without the removed stores.
OtherWords ==
  {<<w, w>> : w \in Word}
    \cup IF AliasedLoads THEN {<<frame[s], keptFrame[s]>> : s \in Slot} ELSE {}

LoadOtherMemory ==
  /\ At({"load_other"})
  /\ \E words \in OtherWords : register' = words[1] /\ keptRegister' = words[2]
  /\ GoTo(pc + 1)
  /\ UNCHANGED <<frame, keptFrame>>

\* Anything else that falls through, calls included: any value is left behind.
ComputeOther ==
  /\ At({"other"})
  /\ \E w \in Word : register' = w /\ keptRegister' = w
  /\ GoTo(pc + 1)
  /\ UNCHANGED <<frame, keptFrame>>

Jump ==
  /\ \/ At({"label"}) /\ GoTo(pc + 1)
     \/ At({"jump"}) /\ program[pc].target \in Labels /\ GoTo(program[pc].target)
     \/ At({"branch"}) /\ program[pc].target \in Labels /\ GoTo(program[pc].target)
     \/ At({"branch"}) /\ GoTo(pc + 1)
     \/ At({"jump_register"}) /\ \E target \in Labels : GoTo(target)
  /\ UNCHANGED machines

Run == Enter \/ Load \/ StoreSlot \/ LoadOtherMemory \/ ComputeOther \/ Jump

-----------------------------------------------------------------------------
FrameInit ==
  /\ program \in Programs
  /\ phase = "start"
  /\ index = 0
  /\ changed = FALSE
  /\ liveIn = [i \in Index |-> {}]
  /\ liveOut = [i \in Index |-> {}]
  /\ kept = Index
  /\ pc = 1
  /\ register = CHOOSE w \in Word : TRUE
  /\ frame = [s \in Slot |-> register]
  /\ keptRegister = register
  /\ keptFrame = frame

FrameNext == Pass \/ Run

\* The pass is a sequential function: it keeps taking steps.  Nothing is
\* assumed of the program it compiles.
FrameSpec == FrameInit /\ [][FrameNext]_frameVars /\ WF_frameVars(Pass)

-----------------------------------------------------------------------------
(* What is promised.                                                       *)

\* Types of the variables.
FrameTypeOK ==
  /\ program \in [Index -> Node]
  /\ phase \in {"start", "sweep", "done", "run"}
  /\ index \in 0..NodeCount
  /\ changed \in BOOLEAN
  /\ liveIn \in [Index -> SUBSET Slot]
  /\ liveOut \in [Index -> SUBSET Slot]
  /\ kept \subseteq Index
  /\ pc \in Nat
  /\ register \in Word /\ keptRegister \in Word
  /\ frame \in [Slot -> Word] /\ keptFrame \in [Slot -> Word]

\* The program without the removed stores computes what the generated program
\* computes, along every path (vircon_ir_eliminate_dead_frame_stores: "stores
\* needed by a branch target or a later function path remain intact").
SameRegisters == keptRegister = register

\* A frame word that holds something else without the removed stores is one the
\* rest of the path overwrites before it reads: liveness at the current node
\* bounds the damage of every removal made so far.
LiveWordsAgree ==
  phase = "run" /\ pc \in Index /\ kept # Index =>
    \A s \in liveIn[pc] : keptFrame[s] = frame[s]

\* The live sets only grow while the pass sweeps, so that a sweep that changes
\* nothing has found the least solution (the do-while of the pass).
LiveSetsGrow == [][\A i \in Index : liveIn[i] \subseteq liveIn'[i]]_frameVars

\* The sweeps end: the pass returns for every program, loops included.
PassReturns == <>(phase \in {"done", "run"})
=============================================================================
