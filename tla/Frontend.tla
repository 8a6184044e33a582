------------------------------ MODULE Frontend ------------------------------
(***************************************************************************)
(* The driver (src/src/main.c) and the stages it runs: loading and         *)
(* normalising the module (src/src/wasm_module.c), legalising              *)
(* (src/src/legalize.c), validating (src/src/validator.c), lowering every  *)
(* reachable function (src/src/lowering.c) and writing the assembly.       *)
(*                                                                         *)
(* The body of a function is the sequence of its expressions that matter   *)
(* to the stages.  Whether the adapter can represent an expression is      *)
(* folded into the failures of Load.                                       *)
(***************************************************************************)
EXTENDS Integers, Sequences, FiniteSets

CONSTANTS
  Fn,        \* functions
  none,      \* an empty table slot, and the target of what calls nothing
  Type,      \* function types
  Entry,     \* the function exported under the name of --entry
  Inputs,    \* modules that the driver is given
  MaxPages   \* pages that fit VIRCON_LINEAR_MEMORY_BYTES

\* deep: more temporary slots are needed than are left of TEMP_SLOTS.
\* absent operand: the operand, a branch for example, leaves no value.
Kind == {"call", "indirect", "stack pointer", "helper", "unsupported", "valued loop",
         "deep", "absent operand"}

\* carried: the expression is inside the value that a br hands to its block.
Site == [kind : Kind, to : Fn \cup Type \cup {none}, carried : BOOLEAN]
Element == [at : Nat, items : Seq(Fn), active : BOOLEAN]
Segment == [at : Nat, size : Nat, constant : BOOLEAN, passive : BOOLEAN]
WasmModule ==
  [functions : SUBSET Fn, imports : SUBSET Fn, type : [Fn -> Type], body : [Fn -> Seq(Site)],
   known : SUBSET Fn,                           \* imports that the console has
   supported : SUBSET Fn,                       \* functions with a supported signature
   oversized : SUBSET Fn,                       \* functions whose frame is beyond the target
   exported : SUBSET Fn, tableExported : BOOLEAN, globalExported : BOOLEAN,
   tables : Nat, size : Nat, elements : Seq(Element),
   globals : Nat, stackPointer : BOOLEAN,       \* the global is __stack_pointer
   memory : BOOLEAN, pages : Nat, image : Seq(Segment)]

ASSUME ConstantAssumption ==
  /\ none \notin Fn \cup Type /\ Fn \cap Type = {} /\ Entry \in Fn /\ MaxPages \in Nat
  /\ IsFiniteSet(Fn)

ASSUME InputAssumption ==
  /\ Inputs \subseteq WasmModule
  /\ \A m \in Inputs :
       /\ Entry \in m.functions /\ m.imports \subseteq m.functions
       /\ \A f \in m.functions \ m.imports : \A i \in DOMAIN m.body[f] :
            m.body[f][i].kind = "call" => m.body[f][i].to \in m.functions

VARIABLES
  options,   \* what the command line asks for
  input,     \* the module in the file
  stage,     \* what main runs next
  module,    \* the WasmModule, as the stages change it
  stack,     \* calls of validate_function: the function and its next step
  reachable, \* ValidatedModule.reachable
  program,   \* the labels that the V32 program defines, the labels it calls,
             \* the functions lowered and the image it starts with
  output,    \* the file of -o
  failedAt   \* the stage that reported an error, or why lowering stopped, or "none"

vars == <<options, input, stage, module, stack, reachable, program, output, failedAt>>

Option == [validateOnly : BOOLEAN, report : BOOLEAN, optimise : BOOLEAN, output : BOOLEAN]
Stage == {"options", "load", "normalise", "legalise", "validate", "walk", "lower", "emit", "done"}

\* What stops lowering: no memory, a frame that is too large, no temporary slot
\* left, an operand without a value, or what validation should have refused.
Reason == {"memory", "frame", "slots", "operand", "unsupported"}

SitesOf(m, f) == {m.body[f][i] : i \in DOMAIN m.body[f]}
Defined(m) == m.functions \ m.imports
Uses(m, kind) == \E f \in Defined(m) : \E s \in SitesOf(m, f) : s.kind = kind

-----------------------------------------------------------------------------
(* Tables.                                                                 *)

\* Element segments that read_tables applies.
Applied(m) ==
  {k \in DOMAIN m.elements :
     /\ m.tables > 0 /\ m.elements[k].active
     /\ m.elements[k].at + Len(m.elements[k].items) <= m.size}

\* The function in slot i: the last segment that covers it wins.
Slot(m, i) ==
  LET over == {k \in Applied(m) : i \in m.elements[k].at ..
                                        m.elements[k].at + Len(m.elements[k].items) - 1}
      last == CHOOSE k \in over : \A j \in over : j <= k
  IN IF over = {} THEN none ELSE m.elements[last].items[i - m.elements[last].at + 1]

TableIsStatic(m) == Applied(m) = DOMAIN m.elements

\* The slots that a call through the table with type t can enter.
Matching(m, t) == {k \in 1 .. m.size : Slot(m, k - 1) # none /\ m.type[Slot(m, k - 1)] = t}

\* What an expression may enter when it is executed.
Targets(m, s) ==
  CASE s.kind = "call" -> {s.to}
    [] s.kind = "indirect" /\ m.tables > 0 -> {Slot(m, k - 1) : k \in Matching(m, s.to)}
    [] OTHER -> {}

-----------------------------------------------------------------------------
(* Binaryen's passes.                                                      *)

\* What the functions of S keep alive in the module: the least set around S that
\* is closed under calls.
Alive(m, S) ==
  LET Closed(T) == \A f \in T \cap Defined(m) : \A s \in SitesOf(m, f) : Targets(m, s) \subseteq T
  IN {g \in Fn : \A T \in SUBSET Fn : S \subseteq T /\ Closed(T) => g \in T}

Needs(m) ==
  \/ m.globals # 0 \/ m.tables # 0 \/ m.elements # <<>> \/ m.exported # {Entry}

WithoutFunctions(m, S) ==
  [m EXCEPT !.functions = @ \cap S, !.imports = @ \cap S, !.known = @ \cap S,
            !.supported = @ \cap S, !.exported = {Entry}]

\* remove-unused-module-elements without the memory: everything that is dead
\* may go.
Stripped(m) ==
  LET live == Alive(m, {Entry} \cup (IF m.tableExported
                                     THEN {f \in Fn : \E i \in 0 .. m.size - 1 : Slot(m, i) = f}
                                     ELSE {}))
      dead == \* functions that no kept element segment names either
        {f \in m.functions \ live : \A k \in DOMAIN m.elements :
           \A i \in DOMAIN m.elements[k].items : m.elements[k].items[i] # f}
      kept == WithoutFunctions(m, m.functions \ dead)
      bare == WithoutFunctions(m, live)
      tableDead == ~ m.tableExported /\ ~ Uses(bare, "indirect")
      globalsDead == ~ m.globalExported /\ ~ Uses(bare, "stack pointer")
      pruned == IF tableDead THEN [bare EXCEPT !.tables = 0, !.elements = <<>>] ELSE kept
  IN IF globalsDead THEN [pruned EXCEPT !.globals = 0] ELSE pruned

\* The memory, or all of its image but the first n segments, may go as well.
WithoutMemory(m) == [m EXCEPT !.memory = FALSE, !.image = <<>>]
WithImagePart(m, n) == [m EXCEPT !.image = SubSeq(@, 1, n)]
Passes(m) ==
  {WithoutMemory(Stripped(m))} \cup {WithImagePart(Stripped(m), n) : n \in 0 .. Len(m.image)}

\* restore_memory_image writes constant offsets.
WithImageOf(before, after) ==
  [after EXCEPT !.memory = TRUE, !.pages = before.pages,
     !.image = [k \in DOMAIN before.image |-> [before.image[k] EXCEPT !.constant = TRUE]]]

\* Fault: the image is put back only when the whole memory is gone.
RestoredWithMemory(before, after) ==
  IF before.memory /\ ~ after.memory
  THEN WithImageOf(before, after)
  ELSE after

\* The image returns when a pass took part of it.
Restored(before, after) ==
  IF before.memory /\ (~ after.memory \/ Len(after.image) # Len(before.image))
  THEN WithImageOf(before, after)
  ELSE after

-----------------------------------------------------------------------------
(* Legalising and the checks of the module.                                *)

WithoutUnusedTable(m) ==
  IF m.tableExported \/ Uses(m, "indirect") THEN m ELSE [m EXCEPT !.tables = 0, !.elements = <<>>]

WithoutUnusedGlobals(m) ==
  IF m.globalExported \/ Uses(m, "stack pointer")
  THEN m ELSE [m EXCEPT !.globals = 0, !.stackPointer = FALSE]

\* offset_is_i32_const is one fact about all segments.
ImageAccepted(m) ==
  \A k \in DOMAIN m.image :
    LET s == m.image[k] IN
    /\ ~ s.passive /\ \A j \in DOMAIN m.image : m.image[j].constant
    /\ s.at + s.size <= m.pages

ModuleAccepted(m) ==
  /\ m.memory /\ m.pages \in 1 .. MaxPages
  /\ m.tables <= 1 /\ (m.tables = 0 => m.elements = <<>>)
  /\ m.tables = 1 => TableIsStatic(m)
  /\ m.globals # 0 => m.globals = 1 /\ m.stackPointer
  /\ ImageAccepted(m)
  /\ m.imports \subseteq m.known
  /\ ~ m.tableExported
  /\ Entry \in Defined(m)

-----------------------------------------------------------------------------
(* Walking the bodies.                                                     *)

\* Fault: a call through the table makes nothing reachable.
CalleesOfCalls(m, s) == IF s.kind = "call" THEN <<s.to>> ELSE <<>>

\* What validate_expression looks at after the expression itself, in order: the
\* function called, or slot after slot of the table; none where it continues.
Callees(m, s) ==
  CASE s.kind = "call" -> <<s.to>>
    [] s.kind = "indirect" ->
         [k \in 1 .. m.size |-> IF Slot(m, k - 1) \in m.functions /\ k \notin Matching(m, s.to)
                               THEN none ELSE Slot(m, k - 1)]
    [] OTHER -> <<>>

\* Fault: a call through a table that is not declared is let through.
UnsupportedButTables(m, s) == s.kind = "unsupported"

\* Checks of the expression itself.
Unsupported(m, s) == s.kind = "unsupported" \/ (s.kind = "indirect" /\ m.tables = 0)

\* Checks of a function that it may enter.
Refused(m, s, g) ==
  \/ g \notin m.functions
  \/ g \in m.imports /\ (s.kind = "indirect" \/ g \notin m.known)

Program ==
  [labels : SUBSET (Fn \cup {"entry", "helper"}), calls : SUBSET (Fn \cup {"helper"}),
   lowered : SUBSET Fn, image : Seq(Segment), pages : Nat]
Idle == [labels |-> {}, calls |-> {}, lowered |-> {}, image |-> <<>>, pages |-> 0]

Stop(failure) == stage' = "done" /\ failedAt' = failure

\* Wrong options, and --report-profile, which has a pipeline of its own.
ReadOptions ==
  /\ stage = "options"
  /\ LET bad == \/ options.validateOnly /\ options.report
                \/ ~ options.validateOnly /\ ~ options.report /\ ~ options.output
                \/ (options.validateOnly \/ options.report) /\ options.output
     IN IF bad THEN Stop("options")
        ELSE IF options.report THEN Stop("none") \/ Stop("report")
        ELSE stage' = "load" /\ UNCHANGED failedAt
  /\ UNCHANGED <<options, input, module, stack, reachable, program, output>>

Load ==
  /\ stage = "load"
  /\ \/ Stop("load") /\ UNCHANGED module
     \/ /\ module' = input
        /\ stage' = IF options.optimise /\ Needs(input) THEN "normalise" ELSE "legalise"
        /\ UNCHANGED failedAt
  /\ UNCHANGED <<options, input, stack, reachable, program, output>>

\* Exports other than the entry go first; the passes run; the image returns.
Normalise ==
  /\ stage = "normalise"
  /\ \/ Stop("load") /\ UNCHANGED module
     \/ /\ \E after \in Passes(module) : module' = Restored(module, after)
        /\ stage' = "legalise" /\ UNCHANGED failedAt
  /\ UNCHANGED <<options, input, stack, reachable, program, output>>

Legalise ==
  /\ stage = "legalise"
  /\ IF Uses(module, "valued loop") THEN Stop("legalise") /\ UNCHANGED module
     ELSE /\ module' = WithoutUnusedTable(WithoutUnusedGlobals(module))
          /\ stage' = "validate" /\ UNCHANGED failedAt
  /\ UNCHANGED <<options, input, stack, reachable, program, output>>

\* A body is walked from expression to expression (at); callee is 0 before the
\* checks of the expression, then the callee that comes next.
Frame(f) == [fn |-> f, at |-> 1, callee |-> 0]

\* Fault: a function counts as reached when its walk ends.
VisitLate(f) ==
  /\ stack' = Append(stack, Frame(f))
  /\ UNCHANGED reachable

\* validate_function marks the function before it walks the body.
Visit(f) ==
  /\ stack' = Append(stack, Frame(f))
  /\ reachable' = reachable \cup {f}

\* The last check of the module is for the memory of reachable.
CheckModule ==
  /\ stage = "validate"
  /\ \/ Stop("validate") /\ UNCHANGED <<stack, reachable>>
     \/ /\ ModuleAccepted(module) /\ Entry \in module.supported
        /\ stage' = "walk" /\ UNCHANGED failedAt /\ Visit(Entry)
  /\ UNCHANGED <<options, input, module, program, output>>

Top == stack[Len(stack)]
Body == module.body[Top.fn]
Here == Body[Top.at]
\* The innermost walk goes on at callee k of expression i.
GoTo(i, k) == stack' = [stack EXCEPT ![Len(stack)] = [@ EXCEPT !.at = i, !.callee = k]]

Walking == stage = "walk" /\ stack # <<>> /\ Top.at \in DOMAIN Body

\* The expression itself.  At a br the walk turns back without a look at the value.
CheckExpression ==
  /\ Walking /\ Top.callee = 0
  /\ IF Here.carried
     THEN GoTo(Top.at + 1, 0) /\ UNCHANGED <<stage, failedAt>>
     ELSE IF Unsupported(module, Here)
     THEN Stop("validate") /\ UNCHANGED stack
     ELSE GoTo(Top.at, 1) /\ UNCHANGED <<stage, failedAt>>
  /\ UNCHANGED <<options, input, module, reachable, program, output>>

\* The next function that the expression may enter.  (Functions that are being
\* walked differ: the bound on the stack is never met.)
CheckCallee ==
  /\ Walking /\ Top.callee \in DOMAIN Callees(module, Here)
  /\ Len(stack) <= Cardinality(Fn)
  /\ LET g == Callees(module, Here)[Top.callee] IN
     IF g = none
     THEN GoTo(Top.at, Top.callee + 1) /\ UNCHANGED <<reachable, stage, failedAt>>
     ELSE IF Refused(module, Here, g)
     THEN Stop("validate") /\ UNCHANGED <<stack, reachable>>
     ELSE IF g \in module.imports \cup reachable
     THEN GoTo(Top.at, Top.callee + 1) /\ UNCHANGED <<reachable, stage, failedAt>>
     ELSE IF g \notin module.supported
     THEN Stop("validate") /\ UNCHANGED <<stack, reachable>>
     ELSE Visit(g) /\ UNCHANGED <<stage, failedAt>>
  /\ UNCHANGED <<options, input, module, program, output>>

NextExpression ==
  /\ Walking /\ Top.callee > Len(Callees(module, Here))
  /\ GoTo(Top.at + 1, 0)
  /\ UNCHANGED <<options, input, stage, module, reachable, program, output, failedAt>>

Return ==
  /\ stage = "walk" /\ stack # <<>> /\ Top.at > Len(Body)
  /\ stack' = SubSeq(stack, 1, Len(stack) - 1)
  /\ UNCHANGED <<options, input, stage, module, reachable, program, output, failedAt>>

\* Fault: --validate-only does not end the driver.
AcceptAnyway ==
  /\ stage = "walk" /\ stack = <<>>
  /\ stage' = "lower" /\ UNCHANGED failedAt
  /\ program' = [Idle EXCEPT !.labels = {"entry"}, !.calls = {Entry},
                             !.image = module.image, !.pages = module.pages]
  /\ UNCHANGED <<options, input, module, stack, reachable, output>>

\* Lowering starts with the entry code and the data.
Accept ==
  /\ stage = "walk" /\ stack = <<>>
  /\ \/ options.validateOnly /\ Stop("none") /\ UNCHANGED program
     \/ ~ options.validateOnly /\ Stop("memory") /\ UNCHANGED program
     \/ /\ ~ options.validateOnly
        /\ stage' = "lower" /\ UNCHANGED failedAt
        /\ program' = [Idle EXCEPT !.labels = {"entry"}, !.calls = {Entry},
                                   !.image = module.image, !.pages = module.pages]
  /\ UNCHANGED <<options, input, module, stack, reachable, output>>

\* lower_call writes out calls of imports in place; lower_call_indirect calls
\* the label of every function that matches, and skips slots of unknown ones.
CallsOf(m, f) ==
  {g \in m.functions : \E s \in SitesOf(m, f) :
     g \in Targets(m, s) /\ (s.kind = "call" => g \notin m.imports)}
  \cup {"helper" : s \in {t \in SitesOf(m, f) : t.kind = "helper"}}

\* Lowering has no code for it: validation has to refuse it.
NotLowered(m, s) ==
  \/ s.kind = "unsupported"
  \/ s.kind = "indirect" /\ m.tables = 0
  \/ s.kind = "call" /\ s.to \in m.imports \ m.known

\* Why an expression cannot be lowered.
Obstacle(m, s) ==
  CASE s.kind = "deep" -> "slots"
    [] s.kind = "absent operand" -> "operand"
    [] NotLowered(m, s) -> "unsupported"
    [] OTHER -> "none"

\* The frame is laid out before the body is lowered; which expression of the body
\* comes first is left open, as operands are not lowered in the walk's order.
Failures(m, f) ==
  IF f \in m.oversized THEN {"frame"}
  ELSE {Obstacle(m, s) : s \in SitesOf(m, f)} \ {"none"}

LowerFunction(f) ==
  /\ stage = "lower" /\ f \in reachable \ program.lowered
  /\ \/ \E reason \in Failures(module, f) \cup {"memory"} : Stop(reason) /\ UNCHANGED program
     \/ /\ Failures(module, f) = {}
        /\ program' = [program EXCEPT !.labels = @ \cup {f}, !.lowered = @ \cup {f},
                                      !.calls = @ \cup CallsOf(module, f)]
        /\ UNCHANGED <<stage, failedAt>>
  /\ UNCHANGED <<options, input, module, stack, reachable, output>>

\* Helpers are written when a reachable function needs them.
LowerHelpers ==
  /\ stage = "lower" /\ reachable \subseteq program.lowered
  /\ LET needed == \E f \in reachable : \E s \in SitesOf(module, f) : s.kind = "helper"
     IN \/ needed /\ Stop("memory") /\ UNCHANGED program
        \/ /\ program' = [program EXCEPT !.labels = IF needed THEN @ \cup {"helper"} ELSE @]
           /\ stage' = "emit" /\ UNCHANGED failedAt
  /\ UNCHANGED <<options, input, module, stack, reachable, output>>

\* A file that cannot be finished stays behind.
Emit ==
  /\ stage = "emit"
  /\ \/ output' = "whole" /\ Stop("none")
     \/ output' \in {"none", "partial"} /\ Stop("emit")
  /\ UNCHANGED <<options, input, module, stack, reachable, program>>

Init ==
  /\ options \in Option /\ input \in Inputs
  /\ stage = "options" /\ module = input /\ stack = <<>> /\ reachable = {}
  /\ program = Idle /\ output = "none" /\ failedAt = "none"

Next ==
  \/ ReadOptions \/ Load \/ Normalise \/ Legalise \/ CheckModule
  \/ CheckExpression \/ CheckCallee \/ NextExpression \/ Return \/ Accept
  \/ \E f \in Fn : LowerFunction(f)
  \/ LowerHelpers \/ Emit

\* main calls the stages one after another and none of them waits.
Spec == Init /\ [][Next]_vars /\ WF_vars(Next)

-----------------------------------------------------------------------------
\* The types of the driver's state, and files written only when asked for.
TypeOK ==
  /\ options \in Option /\ stage \in Stage /\ module \in WasmModule
  /\ stack \in Seq([fn : Fn, at : Nat \ {0}, callee : Nat])
  /\ reachable \subseteq module.functions \ module.imports
  /\ program \in Program /\ program.lowered \subseteq reachable
  /\ output \in {"none", "partial", "whole"} /\ (output # "none" => options.output)
  /\ failedAt \in Stage \cup Reason \cup {"none", "report"}

\* Whatever the normaliser and the legaliser dropped, every label that the
\* program calls is one it defines: the functions that validation found
\* reachable are all that lowering can call, directly or through the table.
Linked == output = "whole" => program.calls \subseteq program.labels

\* Lowering never meets an expression that it has no code for ("internal error:
\* unsupported binary operation passed validation"), in whatever order functions
\* are reached, tables dropped and imports removed.
SupportedOnly == failedAt # "unsupported"

\* The data that the program starts with is the data of the file, whatever
\* Binaryen's passes took for dead.
ImageKept ==
  output = "whole" =>
    /\ program.pages = input.pages /\ Len(program.image) = Len(input.image)
    /\ \A k \in DOMAIN input.image :
         program.image[k].at = input.image[k].at /\ program.image[k].size = input.image[k].size

\* The driver ends, recursive functions or not.
Finishes == <>(stage = "done")
=============================================================================
