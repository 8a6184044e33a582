----------------------------- MODULE Alignment ------------------------------
(***************************************************************************)
(* The alignment analysis of the lowering (src/src/lowering.c,             *)
(* initialize_local_alignments), then an execution of the function that it *)
(* analysed.  The lowering leaves out the byte path of a load or store     *)
(* whose address the analysis calls a multiple of four.                    *)
(*                                                                         *)
(* A function is a sequence of instructions with structured brackets.  The *)
(* recursion of the analysis is the stack of the brackets that are open.   *)
(***************************************************************************)
EXTENDS Integers, Sequences, FiniteSets

CONSTANTS
  Local,      \* i32 locals and parameters
  Parameter,  \* those that the caller sets
  result,     \* the value of the last expression
  Bits,       \* width of an i32
  Programs    \* functions to analyse

Word == 0 .. 2 ^ Bits - 1
Fact == {1, 2, 4}
Place == Local \cup {result}
Facts == [Place -> Fact]

Operation == {"add", "sub", "mul", "shl", "and", "or", "xor", "select", "unknown"}
Operand == [constant : {TRUE}, of : Word] \cup [constant : {FALSE}, of : Place]
Instruction ==
  [op : {"set", "block", "loop", "if", "else", "end", "br", "br_if", "br_table", "return"},
   to : Place, by : Operation, left : Operand, right : Operand,  \* of a set
   match : Nat,           \* the end or else of an opening, the end of an else
   targets : SUBSET Nat,  \* blocks and loops that a branch names
   default : Nat]         \* of br_table

\* (The last line is what the provers do not know of powers.)
ASSUME ConstantAssumption ==
  /\ Parameter \subseteq Local /\ result \notin Local /\ Bits \in Nat /\ Bits >= 2
  /\ Place \cap Word = {}
  /\ \A n \in 0 .. Bits - 1 : 2 ^ (n + 1) = 2 * 2 ^ n

\* Brackets match and nest: an else closes the first arm of its if and opens the
\* second.
Opens(i) == i.op \in {"block", "loop", "if", "else"}
Closes(i) == i.op \in {"else", "end"}
Bracketed(p) ==
  /\ \A i \in DOMAIN p : Opens(p[i]) =>
       /\ p[i].match \in i + 1 .. Len(p)
       /\ p[p[i].match].op \in (IF p[i].op = "if" THEN {"else", "end"} ELSE {"end"})
       /\ \A j \in i + 1 .. p[i].match - 1 : Opens(p[j]) => p[j].match < p[i].match
  /\ \A j \in DOMAIN p : Closes(p[j]) => \E i \in DOMAIN p : Opens(p[i]) /\ p[i].match = j

Named(i) == i.targets \cup (IF i.op = "br_table" THEN {i.default} ELSE {})

ASSUME ProgramAssumption ==
  /\ Programs \subseteq Seq(Instruction)
  /\ \A p \in Programs : Bracketed(p) /\ \A i \in DOMAIN p : \A t \in Named(p[i]) :
       t \in 1 .. i - 1 /\ p[t].op \in {"block", "loop"} /\ i < p[t].match

VARIABLES
  program,   \* the function
  mode,      \* "analyse", then "run", then "done"
  pc,        \* the instruction that is analysed or executed next
  cur,       \* facts before it
  reachable, \* can control get there?
  frames,    \* open blocks, loops and ifs of the analysis
  recorded,  \* facts that the last walk over an instruction saw
  values     \* of the execution

vars == <<program, mode, pc, cur, reachable, frames, recorded, values>>

Frame ==
  [at : Nat, entry : Facts,
   header : Facts,           \* of a loop
   incoming : SUBSET Facts,  \* of the branches to a block or loop
   arm : SUBSET Facts,       \* what the first arm of an if leaves
   close : Nat]              \* the else or end to come

Here == program[pc]
Innermost == frames[Len(frames)]
Outer == SubSeq(frames, 1, Len(frames) - 1)

-----------------------------------------------------------------------------
(* Facts.                                                                  *)

Least(a, b) == IF a < b THEN a ELSE b
Greatest(a, b) == IF a < b THEN b ELSE a

\* merge_alignment_facts over all edges that meet.
Merge(S) ==
  [x \in Place |-> CHOOSE n \in {f[x] : f \in S} : \A f \in S : n <= f[x]]

\* Fault: the alignment of a constant is not capped.
WholeAlignment(w) == IF w % 8 = 0 THEN 8 ELSE IF w % 4 = 0 THEN 4 ELSE IF w % 2 = 0 THEN 2 ELSE 1

\* constant_word_alignment, capped at a word.
WordAlignment(w) == IF w % 4 = 0 THEN 4 ELSE IF w % 2 = 0 THEN 2 ELSE 1

FactOf(facts, operand) ==
  IF operand.constant THEN WordAlignment(operand.of) ELSE facts[operand.of]

\* Shift counts count modulo the width of a word.
Shifted(i, left) ==
  LET n == i.right.of % Bits IN
  IF ~ i.right.constant THEN left
  ELSE IF n >= 2 \/ left >= 4 \div (2 ^ n) THEN 4 ELSE left * 2 ^ n

\* binary_result_alignment, and the two values of a select.
ResultOf(i, left, right) ==
  CASE i.by \in {"add", "sub", "or", "xor", "select"} -> Least(left, right)
    [] i.by = "and" -> Greatest(left, right)
    [] i.by = "mul" -> IF left >= 4 \/ right >= 4 \/ (left >= 2 /\ right >= 2) THEN 4
                       ELSE Greatest(left, right)
    [] i.by = "shl" -> Shifted(i, left)
    [] OTHER -> 1

Fall == IF reachable THEN {cur} ELSE {}

-----------------------------------------------------------------------------
(* The analysis.                                                           *)

Continue(facts, reached, at) ==
  cur' = facts /\ reachable' = reached /\ pc' = at /\ UNCHANGED <<program, mode, values>>

Record == recorded' = [i \in DOMAIN recorded \cup {pc} |-> IF i = pc THEN cur ELSE recorded[i]]

\* Instructions that control cannot get to are not walked.
Skip ==
  /\ mode = "analyse" /\ pc \in DOMAIN program /\ ~ reachable
  /\ Here.op \notin {"else", "end"}
  /\ pc' = IF frames = <<>> THEN Len(program) + 1 ELSE Innermost.close
  /\ UNCHANGED <<program, mode, cur, reachable, frames, recorded, values>>

Walks(ops) == mode = "analyse" /\ pc \in DOMAIN program /\ Here.op \in ops

AnalyseSet ==
  /\ Walks({"set"}) /\ reachable
  /\ LET fact == ResultOf(Here, FactOf(cur, Here.left), FactOf(cur, Here.right))
     IN Continue([cur EXCEPT ![Here.to] = fact, ![result] = fact], TRUE, pc + 1)
  /\ Record /\ UNCHANGED frames

Open ==
  /\ Walks({"block", "loop", "if"}) /\ reachable
  /\ frames' = Append(frames, [at |-> pc, entry |-> cur, header |-> cur,
                               incoming |-> {}, arm |-> {}, close |-> Here.match])
  /\ Continue(cur, TRUE, pc + 1) /\ Record

\* branch_alignment_to, for the names in branch_targets.
AnalyseBranch ==
  /\ Walks({"br", "br_if", "br_table"}) /\ reachable
  /\ frames' = [k \in DOMAIN frames |->
       IF frames[k].at \in Here.targets
       THEN [frames[k] EXCEPT !.incoming = @ \cup {cur}] ELSE frames[k]]
  /\ Continue(cur, Here.op = "br_if", pc + 1) /\ Record

AnalyseReturn ==
  /\ Walks({"return"}) /\ reachable
  /\ Continue(cur, FALSE, pc + 1) /\ Record /\ UNCHANGED frames

Else ==
  /\ Walks({"else"})
  /\ frames' = Append(Outer, [Innermost EXCEPT !.arm = Fall, !.close = Here.match])
  /\ Continue(Innermost.entry, TRUE, pc + 1) /\ UNCHANGED recorded

\* The value of a block that is branched to is not looked at.
EndBlock ==
  /\ Walks({"end"}) /\ program[Innermost.at].op = "block"
  /\ LET exits == Fall \cup Innermost.incoming
         facts == [Merge(exits) EXCEPT
                     ![result] = IF Innermost.incoming # {} THEN 1 ELSE cur[result]]
     IN Continue(IF exits = {} THEN cur ELSE facts, exits # {}, pc + 1)
  /\ frames' = Outer /\ UNCHANGED recorded

\* An if without an else has no value.
EndIf ==
  /\ Walks({"end"}) /\ program[Innermost.at].op = "if"
  /\ LET both == program[Innermost.at].match # pc
         exits == Fall \cup (IF both THEN Innermost.arm ELSE {Innermost.entry})
         facts == [Merge(exits) EXCEPT ![result] = IF both THEN @ ELSE 1]
     IN Continue(IF exits = {} THEN cur ELSE facts, exits # {}, pc + 1)
  /\ frames' = Outer /\ UNCHANGED recorded

\* Fault: a branch back repeats the walk, whatever facts it brings.
RepeatsIfBranched(frame) == frame.incoming # {}

\* Fault: only the first walk is repeated.
RepeatsOnce(frame) ==
  frame.header = frame.entry /\ Merge({frame.entry} \cup frame.incoming) # frame.header

\* The header has facts that a branch back to it does not.
Repeats(frame) == Merge({frame.entry} \cup frame.incoming) # frame.header

\* The body is walked again until the header stays the same; the loop is left
\* with the facts of the last walk.
EndLoop ==
  /\ Walks({"end"}) /\ program[Innermost.at].op = "loop"
  /\ LET header == Merge({Innermost.entry} \cup Innermost.incoming) IN
     IF Repeats(Innermost)
     THEN /\ frames' = Append(Outer, [Innermost EXCEPT !.header = header, !.incoming = {}])
          /\ Continue(header, TRUE, Innermost.at + 1)
     ELSE frames' = Outer /\ Continue(cur, reachable, pc + 1)
  /\ UNCHANGED recorded

\* The function is called: parameters are anything, other locals are zero.
Finish ==
  /\ mode = "analyse" /\ pc > Len(program)
  /\ mode' = "run" /\ pc' = 1
  /\ \E arguments \in [Parameter -> Word] :
       values' = [x \in Place |-> IF x \in Parameter THEN arguments[x] ELSE 0]
  /\ UNCHANGED <<program, cur, reachable, frames, recorded>>

Analyse ==
  \/ Skip \/ AnalyseSet \/ Open \/ AnalyseBranch \/ AnalyseReturn
  \/ Else \/ EndBlock \/ EndIf \/ EndLoop \/ Finish

-----------------------------------------------------------------------------
(* The execution.                                                          *)

Bit(w, k) == (w \div 2 ^ k) % 2

BitByBit(by, x, y) ==
  CASE by = "and" -> x * y [] by = "or" -> Greatest(x, y) [] OTHER -> (x + y) % 2

\* The words that an operation may give.
Outcomes(i, a, b) ==
  CASE i.by = "add" -> {(a + b) % 2 ^ Bits}
    [] i.by = "sub" -> {(a - b) % 2 ^ Bits}
    [] i.by = "mul" -> {(a * b) % 2 ^ Bits}
    [] i.by = "shl" -> {(a * 2 ^ (b % Bits)) % 2 ^ Bits}
    [] i.by \in {"and", "or", "xor"} ->
         {w \in Word : \A k \in 0 .. Bits - 1 : Bit(w, k) = BitByBit(i.by, Bit(a, k), Bit(b, k))}
    [] i.by = "select" -> {a, b}
    [] OTHER -> Word

ValueOf(operand) == IF operand.constant THEN operand.of ELSE values[operand.of]

\* Where a branch to a block or a loop goes.
Target(p, t) == IF p[t].op = "loop" THEN t + 1 ELSE p[t].match + 1

\* Where control may go from instruction i.
Successors(p, i) ==
  CASE p[i].op = "if" -> {i + 1, p[i].match + 1}
    [] p[i].op = "else" -> {p[i].match + 1}
    [] p[i].op = "br" -> {Target(p, t) : t \in p[i].targets}
    [] p[i].op = "br_if" -> {i + 1} \cup {Target(p, t) : t \in p[i].targets}
    [] p[i].op = "br_table" -> {Target(p, t) : t \in p[i].targets \cup {p[i].default}}
    [] p[i].op = "return" -> {Len(p) + 1}
    [] OTHER -> {i + 1}

Execute ==
  /\ mode = "run" /\ pc \in DOMAIN program
  /\ pc' \in Successors(program, pc)
  /\ IF Here.op = "set"
     THEN \E w \in Outcomes(Here, ValueOf(Here.left), ValueOf(Here.right)) :
            values' = [values EXCEPT ![Here.to] = w, ![result] = w]
     ELSE UNCHANGED values
  /\ UNCHANGED <<program, mode, cur, reachable, frames, recorded>>

Leave ==
  /\ mode = "run" /\ pc > Len(program)
  /\ mode' = "done"
  /\ UNCHANGED <<program, pc, cur, reachable, frames, recorded, values>>

\* Locals other than parameters start as zero, a multiple of four.
EntryFacts == [x \in Place |-> IF x \in Parameter THEN 1 ELSE 4]

Init ==
  /\ program \in Programs /\ mode = "analyse" /\ pc = 1
  /\ cur = EntryFacts
  /\ reachable = TRUE /\ frames = <<>> /\ recorded = <<>>
  /\ values = [x \in Place |-> 0]

Next == Analyse \/ Execute \/ Leave

\* The analysis is a sequence of calls that wait for nothing.
Spec == Init /\ [][Next]_vars /\ WF_vars(Analyse)

-----------------------------------------------------------------------------
\* The types of the state; every open bracket is around the instruction.
TypeOK ==
  /\ mode \in {"analyse", "run", "done"} /\ pc \in 1 .. Len(program) + 1
  /\ cur \in Facts /\ reachable \in BOOLEAN
  /\ frames \in Seq(Frame)
  /\ mode = "analyse" => \A k \in DOMAIN frames : frames[k].at < pc /\ pc <= frames[k].close
  /\ DOMAIN recorded \subseteq DOMAIN program /\ \A i \in DOMAIN recorded : recorded[i] \in Facts
  /\ values \in [Place -> Word]

\* The facts that the analysis leaves at an instruction hold whenever control
\* gets there, around loops and over early branches: no access without a byte
\* path has an address between two words.
FactsHold ==
  mode = "run" /\ pc \in DOMAIN program /\ Here.op \notin {"else", "end"} =>
    /\ pc \in DOMAIN recorded
    /\ \A x \in Place : values[x] % recorded[pc][x] = 0

\* The fixed point is found: the analysis of every function ends.
Analysed == <>(mode # "analyse")
=============================================================================
