--------------------------- MODULE FrontendProofs ---------------------------
(***************************************************************************)
(* For every set of modules, functions, tables and data, the driver of     *)
(* Frontend writes programs that call only labels they define and start    *)
(* with the data of the file, and lowering never meets an operation, a     *)
(* table or an import that validation should have refused.  Limits of the  *)
(* target, operands without a value and memory may still stop it.          *)
(***************************************************************************)
EXTENDS Frontend, SequenceTheorems, TLAPS

\* Nothing that the stages care about hides in the value of a br, which the
\* validator does not visit.
PlainBranches ==
  \A m \in Inputs : \A f \in Fn : \A i \in DOMAIN m.body[f] :
    m.body[f][i].carried => m.body[f][i].kind \notin {"call", "indirect", "unsupported"}

-----------------------------------------------------------------------------
(* What the stages before validation leave of a module.                    *)

\* The data that a program would start with.
SameImage(image, pages) ==
  /\ pages = input.pages /\ Len(image) = Len(input.image)
  /\ \A k \in DOMAIN input.image :
       image[k].at = input.image[k].at /\ image[k].size = input.image[k].size

LEMMA FunctionsDropped ==
  ASSUME NEW m \in WasmModule, NEW S
  PROVE  /\ WithoutFunctions(m, S) \in WasmModule
         /\ WithoutFunctions(m, S).body = m.body
         /\ WithoutFunctions(m, S).pages = m.pages
         /\ WithoutFunctions(m, S).memory = m.memory
         /\ WithoutFunctions(m, S).image = m.image
<1> DEFINE p == [m EXCEPT !.functions = @ \cap S, !.imports = @ \cap S, !.known = @ \cap S]
           Same(q) == /\ q \in WasmModule
                      /\ q.body = m.body /\ q.pages = m.pages
                      /\ q.memory = m.memory /\ q.image = m.image
<1>1. Same(p)
  BY DEF WasmModule
<1>2. WithoutFunctions(m, S) = [p EXCEPT !.supported = @ \cap S, !.exported = {Entry}]
  BY DEF WithoutFunctions, WasmModule
<1>3. Same([p EXCEPT !.supported = @ \cap S, !.exported = {Entry}])
  <2> HIDE DEF p
  <2> QED
    BY <1>1, ConstantAssumption DEF WasmModule
<1> QED
  BY <1>2, <1>3

LEMMA TablesDropped ==
  ASSUME NEW m \in WasmModule
  PROVE  LET p == [m EXCEPT !.tables = 0, !.elements = <<>>] IN
         /\ p \in WasmModule
         /\ p.body = m.body /\ p.pages = m.pages /\ p.memory = m.memory /\ p.image = m.image
  BY EmptySeq DEF WasmModule

LEMMA GlobalsDropped ==
  ASSUME NEW m \in WasmModule
  PROVE  LET p == [m EXCEPT !.globals = 0] IN
         /\ p \in WasmModule
         /\ p.body = m.body /\ p.pages = m.pages /\ p.memory = m.memory /\ p.image = m.image
  BY DEF WasmModule

\* Bodies, image and memory are what the module had.
LEMMA StrippedKeeps ==
  ASSUME NEW m \in WasmModule
  PROVE  /\ Stripped(m) \in WasmModule
         /\ Stripped(m).body = m.body /\ Stripped(m).pages = m.pages
         /\ Stripped(m).memory = m.memory /\ Stripped(m).image = m.image
<1> DEFINE live == Alive(m, {Entry} \cup (IF m.tableExported
                                          THEN {f \in Fn : \E i \in 0 .. m.size - 1 : Slot(m, i) = f}
                                          ELSE {}))
           dead == {f \in m.functions \ live : \A k \in DOMAIN m.elements :
                      \A i \in DOMAIN m.elements[k].items : m.elements[k].items[i] # f}
           kept == WithoutFunctions(m, m.functions \ dead)
           bare == WithoutFunctions(m, live)
           tableDead == ~ m.tableExported /\ ~ Uses(bare, "indirect")
           globalsDead == ~ m.globalExported /\ ~ Uses(bare, "stack pointer")
           pruned == IF tableDead THEN [bare EXCEPT !.tables = 0, !.elements = <<>>] ELSE kept
           final == IF globalsDead THEN [pruned EXCEPT !.globals = 0] ELSE pruned
           Same(p) == /\ p \in WasmModule
                      /\ p.body = m.body /\ p.pages = m.pages
                      /\ p.memory = m.memory /\ p.image = m.image
<1>1. Stripped(m) = final
  BY DEF Stripped
<1>2. Same(kept) /\ Same(bare)
  <2> HIDE DEF live, dead
  <2> QED
    BY FunctionsDropped
<1>3. Same(pruned)
  <2> HIDE DEF kept, bare, tableDead
  <2> QED
    BY <1>2, TablesDropped
<1>4. Same(final)
  <2> HIDE DEF pruned, globalsDead
  <2> QED
    BY <1>3, GlobalsDropped
<1> QED
  <2> HIDE DEF final
  <2> QED
    BY <1>1, <1>4

\* Whatever Binaryen takes for dead, bodies stay as they are, and a memory that
\* is kept starts with a part of the image.
LEMMA PassesKeep ==
  ASSUME NEW m \in WasmModule, NEW after \in Passes(m)
  PROVE  /\ after \in WasmModule
         /\ after.body = m.body /\ after.pages = m.pages
         /\ after.memory =>
              m.memory /\ \E n \in 0 .. Len(m.image) : after.image = SubSeq(m.image, 1, n)
<1> DEFINE final == Stripped(m)
<1>1. /\ final \in WasmModule
      /\ final.body = m.body /\ final.pages = m.pages
      /\ final.memory = m.memory /\ final.image = m.image
  BY StrippedKeeps
<1> HIDE DEF final
<1>2. CASE after = WithoutMemory(final)
  <2> DEFINE gone == [final EXCEPT !.memory = FALSE]
  <2>1. /\ gone \in WasmModule /\ gone.memory = FALSE
        /\ gone.body = final.body /\ gone.pages = final.pages
    BY <1>1 DEF WasmModule
  <2>2. after = [gone EXCEPT !.image = <<>>]
    BY <1>1, <1>2 DEF WithoutMemory, WasmModule
  <2> HIDE DEF gone
  <2> QED
    BY <1>1, <2>1, <2>2, EmptySeq DEF WasmModule
<1>3. ASSUME NEW n \in 0 .. Len(m.image), after = WithImagePart(final, n)
      PROVE  /\ after \in WasmModule
             /\ after.body = m.body /\ after.pages = m.pages /\ after.memory = m.memory
             /\ after.image = SubSeq(m.image, 1, n)
  <2>1. m.image \in Seq(Segment)
    BY DEF WasmModule
  <2>2. SubSeq(m.image, 1, n) \in Seq(Segment)
    BY <2>1, SubSeqProperties
  <2> QED
    BY <1>1, <1>3, <2>2 DEF WithImagePart, WasmModule
<1> QED
  BY <1>2, <1>3 DEF Passes, final

\* Binaryen's passes and restore_memory_image together: a module that has a
\* memory at the end has the image of before.
LEMMA RestoredKeeps ==
  ASSUME NEW m \in WasmModule, NEW after \in Passes(m)
  PROVE  LET p == Restored(m, after) IN
         /\ p \in WasmModule /\ p.body = m.body
         /\ p.memory => /\ p.pages = m.pages /\ Len(p.image) = Len(m.image)
                        /\ \A k \in DOMAIN m.image :
                             p.image[k].at = m.image[k].at /\ p.image[k].size = m.image[k].size
<1>1. /\ after \in WasmModule
      /\ after.body = m.body /\ after.pages = m.pages
      /\ after.memory =>
           m.memory /\ \E n \in 0 .. Len(m.image) : after.image = SubSeq(m.image, 1, n)
  BY PassesKeep
<1>2. m.image \in Seq(Segment)
  BY DEF WasmModule
<1>3. CASE m.memory /\ (~ after.memory \/ Len(after.image) # Len(m.image))
  <2> DEFINE image == [k \in DOMAIN m.image |-> [m.image[k] EXCEPT !.constant = TRUE]]
             p == [after EXCEPT !.memory = TRUE]
             q == [p EXCEPT !.pages = m.pages]
  <2>1. \A k \in DOMAIN m.image :
          /\ image[k] \in Segment
          /\ image[k].at = m.image[k].at /\ image[k].size = m.image[k].size
    <3> SUFFICES ASSUME NEW k \in DOMAIN m.image
                 PROVE  /\ image[k] \in Segment
                        /\ image[k].at = m.image[k].at /\ image[k].size = m.image[k].size
      OBVIOUS
    <3>1. m.image[k] \in Segment
      BY <1>2
    <3>2. image[k] = [m.image[k] EXCEPT !.constant = TRUE]
      OBVIOUS
    <3> QED
      BY <3>1, <3>2 DEF Segment
  <2>2. image \in Seq(Segment) /\ Len(image) = Len(m.image)
    <3> DEFINE N == Len(m.image)
    <3>1. DOMAIN m.image = 1 .. N /\ N \in Nat
      BY <1>2
    <3>2. image \in [1 .. N -> Segment]
      BY <2>1, <3>1
    <3> QED
      BY <3>1, <3>2, IsASeq, LenProperties
  <2>3. p \in WasmModule /\ p.body = m.body
    BY <1>1 DEF WasmModule
  <2>4. q \in WasmModule /\ q.body = m.body /\ q.pages = m.pages
    <3> HIDE DEF p
    <3> QED
      BY <2>3 DEF WasmModule
  <2>5. Restored(m, after) = [q EXCEPT !.image = image]
    <3> HIDE DEF image
    <3>1. Restored(m, after) = [after EXCEPT !.memory = TRUE, !.pages = m.pages, !.image = image]
      BY <1>3 DEF Restored, WithImageOf, image
    <3> QED
      BY <1>1, <3>1 DEF WasmModule
  <2> HIDE DEF q, image
  <2>6. /\ Restored(m, after) \in WasmModule /\ Restored(m, after).body = m.body
        /\ Restored(m, after).pages = m.pages /\ Restored(m, after).image = image
    BY <2>2, <2>4, <2>5 DEF WasmModule
  <2> QED
    BY <2>1, <2>2, <2>6
<1>4. CASE ~ (m.memory /\ (~ after.memory \/ Len(after.image) # Len(m.image)))
  <2>1. Restored(m, after) = after
    BY <1>4 DEF Restored
  <2>2. ASSUME after.memory
        PROVE  after.image = m.image
    <3>1. PICK n \in 0 .. Len(m.image) : after.image = SubSeq(m.image, 1, n)
      BY <1>1, <2>2
    <3>2. Len(after.image) = Len(m.image)
      BY <1>1, <1>4, <2>2
    <3>3. n = Len(m.image)
      BY <1>2, <3>1, <3>2, SubSeqProperties
    <3> QED
      BY <1>2, <3>1, <3>3, SubSeqFull
  <2> QED
    BY <1>1, <2>1, <2>2
<1> QED
  BY <1>3, <1>4

\* The legaliser looks at tables and globals only.
LEMMA LegalisedKeeps ==
  ASSUME NEW m \in WasmModule
  PROVE  LET p == WithoutUnusedTable(WithoutUnusedGlobals(m)) IN
         /\ p \in WasmModule
         /\ p.body = m.body /\ p.pages = m.pages /\ p.memory = m.memory /\ p.image = m.image
<1> DEFINE g == [m EXCEPT !.globals = 0]
           h == [g EXCEPT !.stackPointer = FALSE]
           Same(p) == /\ p \in WasmModule
                      /\ p.body = m.body /\ p.pages = m.pages
                      /\ p.memory = m.memory /\ p.image = m.image
<1>1. Same(g)
  BY GlobalsDropped
<1>2. Same(h)
  <2> HIDE DEF g
  <2> QED
    BY <1>1 DEF WasmModule
<1>3. [m EXCEPT !.globals = 0, !.stackPointer = FALSE] = h
  BY DEF WasmModule
<1>4. Same(WithoutUnusedGlobals(m))
  <2> HIDE DEF h
  <2> QED
    BY <1>2, <1>3 DEF WithoutUnusedGlobals
<1>5. ASSUME NEW p \in WasmModule, Same(p)
      PROVE  Same(WithoutUnusedTable(p))
  BY <1>5, TablesDropped DEF WithoutUnusedTable
<1> QED
  BY <1>4, <1>5

-----------------------------------------------------------------------------
(* The invariant.                                                          *)

\* The walk of f is past callee k of expression i, or past the expression itself.
Past(f, i, k) ==
  \A a \in DOMAIN stack :
    stack[a].fn = f => stack[a].at > i \/ (stack[a].at = i /\ stack[a].callee > k)

\* The callee was found in order, and it is being walked or has been.
Answered(s, k) ==
  LET g == Callees(module, s)[k]
  IN g = none \/ (~ Refused(module, s, g) /\ g \in module.imports \cup reachable)

Explored ==
  \A f \in reachable : \A i \in DOMAIN module.body[f] :
    LET s == module.body[f][i] IN
    ~ s.carried =>
      /\ Past(f, i, 0) => ~ Unsupported(module, s)
      /\ \A k \in DOMAIN Callees(module, s) : Past(f, i, k) => Answered(s, k)

\* Recursion finds a function that is being walked in reachable.
OneWalkEach ==
  /\ \A a, b \in DOMAIN stack : stack[a].fn = stack[b].fn => a = b
  /\ \A a \in DOMAIN stack : stack[a].fn \in reachable

\* Labels that the helpers have when a function needs one.
Helpers == {h \in {"helper"} : \E f \in reachable : \E s \in SitesOf(module, f) : s.kind = "helper"}

WellLowered ==
  /\ program.lowered \subseteq program.labels
  /\ SameImage(program.image, program.pages)
  /\ PlainBranches => /\ program.calls \subseteq reachable \cup Helpers
                      /\ stage = "emit" => program.calls \subseteq program.labels

Early == {"options", "load", "normalise", "legalise", "validate"}
Late == {"lower", "emit"}

ModuleKept ==
  /\ module.body = input.body
  /\ stage \in {"options", "load", "normalise"} => module = input
  /\ module.memory => SameImage(module.image, module.pages)

OptionsChecked ==
  /\ stage \notin {"options", "done"} => options.validateOnly \/ options.output
  /\ stage \in Late => ~ options.validateOnly

Inv ==
  /\ TypeOK /\ input \in Inputs
  /\ OptionsChecked /\ ModuleKept
  /\ stage # "done" => output = "none"
  /\ stage \in Early => stack = <<>> /\ reachable = {} /\ program = Idle
  /\ stage = "walk" => program = Idle
  /\ stage \in {"walk"} \cup Late => module.memory /\ Entry \in reachable /\ OneWalkEach /\ Explored
  /\ stage \in Late => stack = <<>> /\ WellLowered
  /\ ImageKept
  /\ PlainBranches => Linked /\ SupportedOnly

LEMMA InitInv == Init => Inv
<1> SUFFICES ASSUME Init
             PROVE  Inv
  OBVIOUS
<1>1. input \in WasmModule /\ module \in WasmModule /\ module = input
  BY InputAssumption DEF Init
<1>2. stack \in Seq([fn : Fn, at : Nat \ {0}, callee : Nat])
  BY EmptySeq DEF Init
<1>3. program \in Program
  BY EmptySeq DEF Init, Idle, Program
<1>4. TypeOK
  BY <1>1, <1>2, <1>3 DEF Init, TypeOK, Stage, Idle
<1>5. ModuleKept
  BY <1>1 DEF Init, ModuleKept, SameImage
<1> QED
  BY <1>4, <1>5 DEF Init, Inv, OptionsChecked, Late, Linked, ImageKept, SupportedOnly

-----------------------------------------------------------------------------
(* Stages before the walk.                                                 *)

\* A failure ends the driver, and nothing more is promised than was true.
LEMMA StopKeeps ==
  ASSUME Inv, NEW failure \in Stage \cup Reason \cup {"none", "report"}, Stop(failure),
         failure = "unsupported" => ~ PlainBranches,
         UNCHANGED <<options, input, module, stack, reachable, program, output>>,
         stage # "done"
  PROVE  Inv'
<1>1. stage' = "done" /\ failedAt' = failure /\ output = "none"
  BY DEF Stop, Inv
<1>2. TypeOK'
  BY <1>1 DEF Inv, TypeOK, Stage
<1>3. OptionsChecked' /\ ModuleKept'
  BY <1>1 DEF Inv, OptionsChecked, ModuleKept, Late, SameImage
<1> QED
  BY <1>1, <1>2, <1>3 DEF Inv, Early, Late, Linked, ImageKept, SupportedOnly, Stage

LEMMA ReadOptionsStep == Inv /\ ReadOptions => Inv'
<1> SUFFICES ASSUME Inv, ReadOptions
             PROVE  Inv'
  OBVIOUS
<1>1. stage = "options" /\ UNCHANGED <<options, input, module, stack, reachable, program, output>>
  BY DEF ReadOptions
<1>2. CASE \E failure \in {"options", "none", "report"} : Stop(failure)
  BY <1>1, <1>2, StopKeeps DEF Stage
<1>3. CASE stage' = "load" /\ UNCHANGED failedAt
  <2>1. options.validateOnly \/ options.output
    BY <1>1, <1>3 DEF ReadOptions, Stop
  <2>2. TypeOK'
    BY <1>1, <1>3 DEF Inv, TypeOK, Stage
  <2> QED
    BY <1>1, <1>3, <2>1, <2>2
       DEF Inv, OptionsChecked, ModuleKept, SameImage, Early, Late, Linked, ImageKept, SupportedOnly
<1> QED
  BY <1>2, <1>3 DEF ReadOptions

\* The module changes, and the driver goes on to another early stage.
LEMMA EarlyStep ==
  ASSUME Inv, stage \in Early \ {"options"}, stage' \in Early \ {"options", "load"},
         stage' = "normalise" => module' = input,
         module' \in WasmModule, module'.body = input.body,
         module'.memory => SameImage(module'.image, module'.pages),
         UNCHANGED <<options, input, stack, reachable, program, output, failedAt>>
  PROVE  Inv'
<1>1. TypeOK'
  BY DEF Inv, TypeOK, Stage, Early
<1>2. ModuleKept'
  BY DEF Inv, ModuleKept, Early, SameImage
<1>3. OptionsChecked'
  BY DEF Inv, OptionsChecked, Early, Late
<1> QED
  BY <1>1, <1>2, <1>3 DEF Inv, Early, Late, Linked, ImageKept, SupportedOnly

LEMMA LoadStep == Inv /\ Load => Inv'
<1> SUFFICES ASSUME Inv, Load
             PROVE  Inv'
  OBVIOUS
<1>1. stage = "load" /\ UNCHANGED <<options, input, stack, reachable, program, output>>
  BY DEF Load
<1>2. CASE Stop("load") /\ UNCHANGED module
  BY <1>1, <1>2, StopKeeps DEF Stage
<1>3. CASE module' = input /\ stage' \in {"normalise", "legalise"} /\ UNCHANGED failedAt
  <2>1. input \in WasmModule
    BY InputAssumption DEF Inv
  <2> QED
    BY <1>1, <1>3, <2>1, EarlyStep DEF Early, SameImage
<1> QED
  BY <1>2, <1>3 DEF Load

LEMMA NormaliseStep == Inv /\ Normalise => Inv'
<1> SUFFICES ASSUME Inv, Normalise
             PROVE  Inv'
  OBVIOUS
<1>1. stage = "normalise" /\ UNCHANGED <<options, input, stack, reachable, program, output>>
  BY DEF Normalise
<1>2. CASE Stop("load") /\ UNCHANGED module
  BY <1>1, <1>2, StopKeeps DEF Stage
<1>3. ASSUME NEW after \in Passes(module), module' = Restored(module, after),
             stage' = "legalise", UNCHANGED failedAt
      PROVE  Inv'
  <2>1. module = input /\ module \in WasmModule
    BY <1>1 DEF Inv, ModuleKept, TypeOK
  <2>2. /\ module' \in WasmModule /\ module'.body = input.body
        /\ module'.memory => SameImage(module'.image, module'.pages)
    BY <1>3, <2>1, RestoredKeeps DEF SameImage
  <2> QED
    BY <1>1, <1>3, <2>2, EarlyStep DEF Early
<1> QED
  BY <1>2, <1>3 DEF Normalise

LEMMA LegaliseStep == Inv /\ Legalise => Inv'
<1> SUFFICES ASSUME Inv, Legalise
             PROVE  Inv'
  OBVIOUS
<1>1. stage = "legalise" /\ UNCHANGED <<options, input, stack, reachable, program, output>>
  BY DEF Legalise
<1>2. CASE Stop("legalise") /\ UNCHANGED module
  BY <1>1, <1>2, StopKeeps DEF Stage
<1>3. CASE /\ module' = WithoutUnusedTable(WithoutUnusedGlobals(module))
           /\ stage' = "validate" /\ UNCHANGED failedAt
  <2>1. module \in WasmModule
    BY DEF Inv, TypeOK
  <2>2. /\ module' \in WasmModule
        /\ module'.body = module.body /\ module'.pages = module.pages
        /\ module'.memory = module.memory /\ module'.image = module.image
    BY <1>3, <2>1, LegalisedKeeps
  <2> QED
    BY <1>1, <1>3, <2>2, EarlyStep DEF Early, Inv, ModuleKept
<1> QED
  BY <1>2, <1>3 DEF Legalise

LEMMA CheckModuleStep == Inv /\ CheckModule => Inv'
<1> SUFFICES ASSUME Inv, CheckModule
             PROVE  Inv'
  OBVIOUS
<1>1. stage = "validate" /\ UNCHANGED <<options, input, module, program, output>>
  BY DEF CheckModule
<1>2. CASE Stop("validate") /\ UNCHANGED <<stack, reachable>>
  BY <1>1, <1>2, StopKeeps DEF Stage
<1>3. CASE ModuleAccepted(module) /\ stage' = "walk" /\ UNCHANGED failedAt /\ Visit(Entry)
  <2>1. stack = <<>> /\ reachable = {} /\ program = Idle
    BY <1>1 DEF Inv, Early
  <2>2. module.memory /\ Entry \in module.functions \ module.imports
    BY <1>3 DEF ModuleAccepted, Defined
  <2>3. stack' = <<Frame(Entry)>> /\ reachable' = {Entry}
    BY <1>3, <2>1 DEF Visit
  <2>4. stack' \in Seq([fn : Fn, at : Nat \ {0}, callee : Nat])
    BY <2>3, ConstantAssumption DEF Frame
  <2>5. TypeOK'
    BY <1>1, <1>3, <2>1, <2>2, <2>3, <2>4 DEF Inv, TypeOK, Stage, Idle
  <2>6. OneWalkEach'
    BY <2>3 DEF OneWalkEach, Frame
  <2>7. Explored'
    <3>1. \A i \in Nat \ {0}, k \in Nat : ~ Past(Entry, i, k)'
      BY <2>3 DEF Past, Frame
    <3>2. \A i \in DOMAIN module.body[Entry] :
            i \in Nat \ {0} /\ \A k \in DOMAIN Callees(module, module.body[Entry][i]) : k \in Nat
      <4>1. module.body[Entry] \in Seq(Site)
        BY ConstantAssumption DEF Inv, TypeOK, WasmModule
      <4> QED
        BY <4>1 DEF Callees
    <3> QED
      BY <1>1, <2>3, <3>1, <3>2 DEF Explored
  <2>8. OptionsChecked' /\ ModuleKept'
    BY <1>1, <1>3 DEF Inv, OptionsChecked, ModuleKept, Late, SameImage
  <2> QED
    BY <1>1, <1>3, <2>1, <2>2, <2>3, <2>5, <2>6, <2>7, <2>8
       DEF Inv, Early, Late, Linked, ImageKept, SupportedOnly
<1> QED
  BY <1>2, <1>3 DEF CheckModule

-----------------------------------------------------------------------------
(* The walk.                                                               *)

\* What a step of the walk owes to the invariant.
LEMMA WalkStep ==
  ASSUME Inv, stage = "walk",
         UNCHANGED <<options, input, stage, module, program, output, failedAt>>,
         stack' \in Seq([fn : Fn, at : Nat \ {0}, callee : Nat]),
         reachable \subseteq reachable', reachable' \subseteq module.functions \ module.imports,
         OneWalkEach', Explored'
  PROVE  Inv'
<1>1. TypeOK'
  BY DEF Inv, TypeOK, Idle
<1>2. OptionsChecked' /\ ModuleKept'
  BY DEF Inv, OptionsChecked, ModuleKept, SameImage
<1> QED
  BY <1>1, <1>2 DEF Inv, Early, Late, Linked, ImageKept, SupportedOnly

\* While the walk is inside a body, its place is in the body.
LEMMA WalkTypes ==
  ASSUME Inv, Walking
  PROVE  /\ Len(stack) \in Nat \ {0} /\ DOMAIN stack = 1 .. Len(stack)
         /\ Top \in [fn : Fn, at : Nat \ {0}, callee : Nat]
         /\ Top.fn \in reachable
         /\ Body \in Seq(Site) /\ Here = Body[Top.at] /\ Here \in Site
<1>1. stack \in Seq([fn : Fn, at : Nat \ {0}, callee : Nat]) /\ stack # <<>>
  BY DEF Inv, TypeOK, Walking
<1>2. Len(stack) \in Nat \ {0} /\ DOMAIN stack = 1 .. Len(stack)
  <2>1. Len(stack) \in Nat /\ DOMAIN stack = 1 .. Len(stack)
    BY <1>1, LenProperties
  <2>2. Len(stack) # 0
    BY <1>1, EmptySeq
  <2> QED
    BY <2>1, <2>2
<1>3. Top \in [fn : Fn, at : Nat \ {0}, callee : Nat]
  <2> DEFINE R == [fn : Fn, at : Nat \ {0}, callee : Nat]
  <2>1. stack \in Seq(R) /\ Len(stack) \in 1 .. Len(stack)
    BY <1>1, <1>2
  <2> HIDE DEF R
  <2>2. stack[Len(stack)] \in R
    BY <2>1, ElementOfSeq
  <2> QED
    BY <2>2 DEF R, Top
<1>4. Top.fn \in reachable
  BY <1>2 DEF Inv, OneWalkEach, Walking, Top
<1>5. Body \in Seq(Site)
  BY <1>3 DEF Inv, TypeOK, WasmModule, Body
<1> QED
  BY <1>2, <1>3, <1>4, <1>5 DEF Walking, Here

\* Only the innermost walk moves, and it gets past what it leaves behind.
LEMMA GoToMoves ==
  ASSUME Inv, Walking, NEW i \in Nat \ {0}, NEW k \in Nat, GoTo(i, k), UNCHANGED reachable
  PROVE  /\ stack' \in Seq([fn : Fn, at : Nat \ {0}, callee : Nat])
         /\ OneWalkEach'
         /\ \A f, j, c : Past(f, j, c)' =>
              \/ f # Top.fn /\ Past(f, j, c)
              \/ f = Top.fn /\ (i > j \/ (i = j /\ k > c))
         /\ \A j, c : Top.at > j \/ (Top.at = j /\ Top.callee > c) => Past(Top.fn, j, c)
<1>1. /\ Len(stack) \in Nat \ {0} /\ DOMAIN stack = 1 .. Len(stack)
      /\ Top \in [fn : Fn, at : Nat \ {0}, callee : Nat]
  BY WalkTypes
<1>2. stack \in Seq([fn : Fn, at : Nat \ {0}, callee : Nat])
  BY DEF Inv, TypeOK
<1> DEFINE n == Len(stack)
           top == [Top EXCEPT !.at = i, !.callee = k]
<1>3. stack' = [stack EXCEPT ![n] = top]
  BY DEF GoTo, Top
<1>4. /\ top \in [fn : Fn, at : Nat \ {0}, callee : Nat]
      /\ top.fn = Top.fn /\ top.at = i /\ top.callee = k
  BY <1>1
<1>5. /\ DOMAIN stack' = DOMAIN stack /\ stack'[n] = top /\ n \in DOMAIN stack
      /\ \A a \in DOMAIN stack : a # n => stack'[a] = stack[a]
  <2> HIDE DEF top
  <2> QED
    BY <1>1, <1>2, <1>3
<1>6. stack' \in Seq([fn : Fn, at : Nat \ {0}, callee : Nat])
  <2> HIDE DEF top
  <2> QED
    BY <1>1, <1>2, <1>3, <1>4
<1> HIDE DEF top
<1>7. \A a \in DOMAIN stack : stack'[a].fn = stack[a].fn
  BY <1>4, <1>5 DEF Top
<1>8. OneWalkEach
  BY DEF Inv, Walking
<1>9. OneWalkEach'
  BY <1>5, <1>7, <1>8 DEF OneWalkEach
<1>10. ASSUME NEW f, NEW j, NEW c, Past(f, j, c)'
       PROVE  \/ f # Top.fn /\ Past(f, j, c)
              \/ f = Top.fn /\ (i > j \/ (i = j /\ k > c))
  <2>1. CASE f = Top.fn
    BY <1>4, <1>5, <1>10, <2>1 DEF Past
  <2>2. CASE f # Top.fn
    BY <1>5, <1>10, <2>2 DEF Past, Top
  <2> QED
    BY <2>1, <2>2
<1>11. ASSUME NEW j, NEW c, Top.at > j \/ (Top.at = j /\ Top.callee > c)
       PROVE  Past(Top.fn, j, c)
  BY <1>5, <1>8, <1>11 DEF Past, OneWalkEach, Top
<1> QED
  BY <1>6, <1>9, <1>10, <1>11

\* Answers stay when more functions become reachable.
LEMMA AnswersStay ==
  ASSUME UNCHANGED module, reachable \subseteq reachable'
  PROVE  \A s, k : Answered(s, k) => Answered(s, k)'
  BY DEF Answered

\* A move of the innermost walk from the place (at, callee) to (i, k) keeps
\* Explored if what it leaves behind in between was found in order.
LEMMA MoveExplores ==
  ASSUME Inv, Walking, NEW i \in Nat \ {0}, NEW k \in Nat, GoTo(i, k),
         UNCHANGED <<module, reachable>>,
         \A j \in DOMAIN Body : \A c \in Nat :
           \/ ~ (i > j \/ (i = j /\ k > c))
           \/ Past(Top.fn, j, c)
           \/ Body[j].carried
           \/ c = 0 /\ ~ Unsupported(module, Body[j])
           \/ c # 0 /\ (c \in DOMAIN Callees(module, Body[j]) => Answered(Body[j], c))
  PROVE  Explored'
<1>1. Explored
  BY DEF Inv, Walking
<1>2. \A f, j, c : Past(f, j, c)' =>
        \/ f # Top.fn /\ Past(f, j, c)
        \/ f = Top.fn /\ (i > j \/ (i = j /\ k > c))
  BY GoToMoves
<1> SUFFICES ASSUME NEW f \in reachable, NEW j \in DOMAIN module.body[f], ~ module.body[f][j].carried
             PROVE  /\ Past(f, j, 0)' => ~ Unsupported(module, module.body[f][j])
                    /\ \A c \in DOMAIN Callees(module, module.body[f][j]) :
                         Past(f, j, c)' => Answered(module.body[f][j], c)'
  BY DEF Explored
<1>3. \A c \in DOMAIN Callees(module, module.body[f][j]) : c \in Nat \ {0}
  <2>1. module.size \in Nat
    BY DEF Inv, TypeOK, WasmModule
  <2> QED
    BY <2>1 DEF Callees
<1>4. CASE f # Top.fn
  BY <1>1, <1>2, <1>4, AnswersStay DEF Explored
<1>5. CASE f = Top.fn
  <2>1. Past(f, j, 0)' => ~ Unsupported(module, module.body[f][j])
    BY <1>1, <1>2, <1>5 DEF Explored, Body
  <2>2. ASSUME NEW c \in DOMAIN Callees(module, module.body[f][j]), Past(f, j, c)'
        PROVE  Answered(module.body[f][j], c)'
    BY <1>1, <1>2, <1>3, <1>5, <2>2, AnswersStay DEF Explored, Body
  <2> QED
    BY <2>1, <2>2
<1> QED
  BY <1>4, <1>5


LEMMA CheckExpressionStep == Inv /\ CheckExpression => Inv'
<1> SUFFICES ASSUME Inv, CheckExpression
             PROVE  Inv'
  OBVIOUS
<1>1. /\ Walking /\ Top.callee = 0 /\ stage = "walk"
      /\ UNCHANGED <<options, input, module, reachable, program, output>>
  BY DEF CheckExpression, Walking
<1>2. /\ Top \in [fn : Fn, at : Nat \ {0}, callee : Nat] /\ Here \in Site
      /\ Body = module.body[Top.fn] /\ Here = Body[Top.at] /\ Top.at \in DOMAIN Body
  BY <1>1, WalkTypes DEF Body, Here, Walking
<1>3. CASE Stop("validate") /\ UNCHANGED stack
  BY <1>1, <1>3, StopKeeps DEF Stage
<1>4. ASSUME NEW i \in Nat \ {0}, NEW k \in Nat, GoTo(i, k), UNCHANGED <<stage, failedAt>>,
             \/ i = Top.at + 1 /\ k = 0 /\ Here.carried
             \/ i = Top.at /\ k = 1 /\ ~ Unsupported(module, Here)
      PROVE  Inv'
  <2>1. ASSUME NEW j \in DOMAIN Body, NEW c \in Nat, i > j \/ (i = j /\ k > c)
        PROVE  \/ Past(Top.fn, j, c)
               \/ Body[j].carried
               \/ c = 0 /\ ~ Unsupported(module, Body[j])
    <3>1. j \in Nat
      <4>1. Body \in Seq(Site)
        BY <1>2 DEF Inv, TypeOK, WasmModule
      <4> QED
        BY <4>1, LenProperties
    <3>2. CASE j = Top.at
      BY <1>1, <1>2, <1>4, <2>1, <3>2
    <3>3. CASE j # Top.at
      <4>1. Top.at > j
        BY <1>2, <1>4, <2>1, <3>1, <3>3
      <4> QED
        BY <1>1, <1>4, <4>1, GoToMoves
    <3> QED
      BY <3>2, <3>3
  <2>2. Explored'
    BY <1>1, <1>4, <2>1, MoveExplores
  <2>3. stack' \in Seq([fn : Fn, at : Nat \ {0}, callee : Nat]) /\ OneWalkEach'
    BY <1>1, <1>4, GoToMoves
  <2>4. reachable' \subseteq module.functions \ module.imports
    BY <1>1 DEF Inv, TypeOK
  <2> QED
    BY <1>1, <1>4, <2>2, <2>3, <2>4, WalkStep
<1>5. CASE Here.carried /\ GoTo(Top.at + 1, 0) /\ UNCHANGED <<stage, failedAt>>
  BY <1>2, <1>4, <1>5
<1>6. CASE ~ Unsupported(module, Here) /\ GoTo(Top.at, 1) /\ UNCHANGED <<stage, failedAt>>
  BY <1>2, <1>4, <1>6
<1> QED
  BY <1>3, <1>5, <1>6 DEF CheckExpression

\* The callees of an expression are a sequence.
LEMMA CalleesInOrder ==
  ASSUME NEW m, m.size \in Nat, NEW s
  PROVE  /\ Len(Callees(m, s)) \in Nat
         /\ DOMAIN Callees(m, s) = 1 .. Len(Callees(m, s))
<1>1. CASE s.kind = "call"
  BY <1>1 DEF Callees
<1>2. CASE s.kind = "indirect"
  <2> DEFINE slots == {none} \cup {Slot(m, k - 1) : k \in 1 .. m.size}
  <2>1. Callees(m, s) \in [1 .. m.size -> slots]
    BY <1>2 DEF Callees
  <2>2. Callees(m, s) \in Seq(slots)
    <3> HIDE DEF slots
    <3> QED
      BY <2>1, IsASeq
  <2> QED
    BY <2>2, LenProperties
<1>3. CASE s.kind \notin {"call", "indirect"}
  BY <1>3, EmptySeq DEF Callees
<1> QED
  BY <1>1, <1>2, <1>3

\* The walk goes on in the same expression after a callee that was found in order.
LEMMA CalleePassed ==
  ASSUME Inv, Walking, Top.callee \in DOMAIN Callees(module, Here),
         Answered(Here, Top.callee), GoTo(Top.at, Top.callee + 1),
         UNCHANGED <<options, input, stage, module, reachable, program, output, failedAt>>
  PROVE  Inv'
<1>1. /\ Top.at \in Nat \ {0} /\ Top.callee \in Nat
      /\ Here = Body[Top.at] /\ Body \in Seq(Site) /\ stage = "walk"
  <2>1. stage = "walk"
    BY DEF Walking
  <2> QED
    BY <2>1, WalkTypes
<1>2. Top.callee # 0
  <2>1. module.size \in Nat
    BY DEF Inv, TypeOK, WasmModule
  <2> QED
    BY <2>1, CalleesInOrder
<1>3. ASSUME NEW j \in DOMAIN Body, NEW c \in Nat,
             Top.at > j \/ (Top.at = j /\ Top.callee + 1 > c)
      PROVE  \/ Past(Top.fn, j, c)
             \/ c # 0 /\ (c \in DOMAIN Callees(module, Body[j]) => Answered(Body[j], c))
  <2>1. CASE Top.at > j \/ (Top.at = j /\ Top.callee > c)
    BY <1>1, <2>1, GoToMoves
  <2>2. CASE Top.at = j /\ Top.callee = c
    BY <1>1, <1>2, <2>2
  <2> QED
    BY <1>1, <1>3, <2>1, <2>2
<1>4. /\ Explored' /\ OneWalkEach'
      /\ stack' \in Seq([fn : Fn, at : Nat \ {0}, callee : Nat])
  <2>1. ASSUME NEW k \in Nat, k = Top.callee + 1
        PROVE  /\ Explored' /\ OneWalkEach'
               /\ stack' \in Seq([fn : Fn, at : Nat \ {0}, callee : Nat])
    <3>1. GoTo(Top.at, k)
      BY <2>1
    <3>2. \A j \in DOMAIN Body : \A c \in Nat :
            \/ ~ (Top.at > j \/ (Top.at = j /\ k > c))
            \/ Past(Top.fn, j, c)
            \/ c # 0 /\ (c \in DOMAIN Callees(module, Body[j]) => Answered(Body[j], c))
      BY <1>3, <2>1
    <3>3. Explored'
      BY <1>1, <3>1, <3>2, MoveExplores
    <3> QED
      BY <1>1, <3>1, <3>3, GoToMoves
  <2>2. Top.callee + 1 \in Nat
    BY <1>1
  <2> QED
    BY <2>1, <2>2, Zenon
<1>5. reachable' \subseteq module.functions \ module.imports
  BY DEF Inv, TypeOK
<1> QED
  BY <1>1, <1>4, <1>5, WalkStep

\* A walk starts in a function that none was in.
LEMMA VisitStep ==
  ASSUME Inv, stage = "walk",
         NEW g \in module.functions, g \notin module.imports \cup reachable, Visit(g),
         UNCHANGED <<options, input, stage, module, program, output, failedAt>>
  PROVE  Inv'
<1> DEFINE n == Len(stack)
<1>1. stack \in Seq([fn : Fn, at : Nat \ {0}, callee : Nat])
  BY DEF Inv, TypeOK
<1>2. g \in Fn
  BY DEF Inv, TypeOK, WasmModule
<1>3. Frame(g) \in [fn : Fn, at : Nat \ {0}, callee : Nat]
  BY <1>2 DEF Frame
<1>4. stack' = Append(stack, Frame(g)) /\ reachable' = reachable \cup {g}
  BY DEF Visit
<1>5. stack' \in Seq([fn : Fn, at : Nat \ {0}, callee : Nat])
  BY <1>1, <1>3, <1>4, AppendProperties
<1>6. /\ n \in Nat /\ DOMAIN stack = 1 .. n /\ DOMAIN stack' = 1 .. n + 1
      /\ \A a \in 1 .. n : stack'[a] = stack[a]
      /\ stack'[n + 1] = Frame(g)
  <2> HIDE DEF Frame
  <2> QED
    BY <1>1, <1>3, <1>4, AppendProperties, LenProperties
<1>7. Frame(g).fn = g /\ Frame(g).at = 1 /\ Frame(g).callee = 0
  BY DEF Frame
<1>8. OneWalkEach /\ Explored
  BY DEF Inv
<1>9. \A a \in 1 .. n : stack[a].fn \in reachable
  BY <1>6, <1>8 DEF OneWalkEach
<1>10. OneWalkEach'
  <2>1. \A a \in DOMAIN stack' : stack'[a].fn \in reachable'
    BY <1>4, <1>6, <1>7, <1>9
  <2>2. ASSUME NEW a \in DOMAIN stack', NEW b \in DOMAIN stack', stack'[a].fn = stack'[b].fn
        PROVE  a = b
    <3>1. CASE a \in 1 .. n /\ b \in 1 .. n
      BY <1>6, <1>8, <2>2, <3>1 DEF OneWalkEach
    <3>2. CASE a = n + 1 \/ b = n + 1
      BY <1>6, <1>7, <1>9, <2>2, <3>2
    <3> QED
      BY <1>6, <3>1, <3>2
  <2> QED
    BY <2>1, <2>2 DEF OneWalkEach
<1>11. ASSUME NEW f, NEW i, NEW k, Past(f, i, k)'
       PROVE  Past(f, i, k) /\ (f = g => ~ (i \in Nat \ {0} /\ k \in Nat))
  <2>1. Past(f, i, k)
    BY <1>6, <1>11 DEF Past
  <2>2. f = g => 1 > i \/ (1 = i /\ 0 > k)
    BY <1>6, <1>7, <1>11 DEF Past
  <2> QED
    BY <2>1, <2>2
<1>12. Explored'
  <2> SUFFICES ASSUME NEW f \in reachable', NEW i \in DOMAIN module.body[f], ~ module.body[f][i].carried
               PROVE  /\ Past(f, i, 0)' => ~ Unsupported(module, module.body[f][i])
                      /\ \A k \in DOMAIN Callees(module, module.body[f][i]) :
                           Past(f, i, k)' => Answered(module.body[f][i], k)'
    BY DEF Explored
  <2>1. \A k \in DOMAIN Callees(module, module.body[f][i]) : k \in Nat
    BY DEF Callees
  <2>2. CASE f \in reachable
    BY <1>4, <1>8, <1>11, <2>2, AnswersStay DEF Explored
  <2>3. CASE f = g
    <3>1. module.body[g] \in Seq(Site)
      BY <1>2 DEF Inv, TypeOK, WasmModule
    <3>2. i \in Nat \ {0}
      BY <2>3, <3>1, LenProperties
    <3> QED
      BY <1>11, <2>1, <2>3, <3>2
  <2> QED
    BY <1>4, <2>2, <2>3
<1>13. reachable' \subseteq module.functions \ module.imports
  BY <1>4 DEF Inv, TypeOK
<1> QED
  BY <1>4, <1>5, <1>10, <1>12, <1>13, WalkStep

LEMMA CheckCalleeStep == Inv /\ CheckCallee => Inv'
<1> SUFFICES ASSUME Inv, CheckCallee
             PROVE  Inv'
  OBVIOUS
<1> DEFINE g == Callees(module, Here)[Top.callee]
<1>1. /\ Walking /\ Top.callee \in DOMAIN Callees(module, Here) /\ stage = "walk"
      /\ UNCHANGED <<options, input, module, program, output>>
  BY DEF CheckCallee, Walking
<1>2. CASE g = none /\ GoTo(Top.at, Top.callee + 1) /\ UNCHANGED <<reachable, stage, failedAt>>
  <2>1. Answered(Here, Top.callee)
    BY <1>2 DEF Answered
  <2> QED
    BY <1>1, <1>2, <2>1, CalleePassed
<1>3. CASE Stop("validate") /\ UNCHANGED <<stack, reachable>>
  BY <1>1, <1>3, StopKeeps DEF Stage
<1>4. CASE /\ ~ Refused(module, Here, g) /\ g \in module.imports \cup reachable
           /\ GoTo(Top.at, Top.callee + 1) /\ UNCHANGED <<reachable, stage, failedAt>>
  <2>1. Answered(Here, Top.callee)
    BY <1>4 DEF Answered
  <2> QED
    BY <1>1, <1>4, <2>1, CalleePassed
<1>5. CASE /\ ~ Refused(module, Here, g) /\ g \notin module.imports \cup reachable
           /\ Visit(g) /\ UNCHANGED <<stage, failedAt>>
  <2>1. g \in module.functions
    BY <1>5 DEF Refused
  <2> QED
    BY <1>1, <1>5, <2>1, VisitStep
<1> QED
  BY <1>2, <1>3, <1>4, <1>5 DEF CheckCallee

LEMMA NextExpressionStep == Inv /\ NextExpression => Inv'
<1> SUFFICES ASSUME Inv, NextExpression
             PROVE  Inv'
  OBVIOUS
<1>1. /\ Walking /\ Top.callee > Len(Callees(module, Here)) /\ GoTo(Top.at + 1, 0)
      /\ stage = "walk"
      /\ UNCHANGED <<options, input, stage, module, reachable, program, output, failedAt>>
  BY DEF NextExpression, Walking
<1>2. /\ Top.at \in Nat \ {0} /\ Top.callee \in Nat
      /\ Here = Body[Top.at] /\ Body \in Seq(Site)
  BY <1>1, WalkTypes
<1>3. \A c \in DOMAIN Callees(module, Here) : c \in Nat \ {0} /\ Top.callee > c
  <2>1. module.size \in Nat
    BY DEF Inv, TypeOK, WasmModule
  <2>2. /\ Len(Callees(module, Here)) \in Nat
        /\ DOMAIN Callees(module, Here) = 1 .. Len(Callees(module, Here))
    BY <2>1, CalleesInOrder
  <2> QED
    BY <1>1, <1>2, <2>2
<1>4. ASSUME NEW j \in DOMAIN Body, NEW c \in Nat,
             Top.at + 1 > j \/ (Top.at + 1 = j /\ 0 > c)
      PROVE  \/ Past(Top.fn, j, c)
             \/ c # 0 /\ (c \in DOMAIN Callees(module, Body[j]) => Answered(Body[j], c))
  <2>1. CASE Top.at > j \/ (Top.at = j /\ Top.callee > c)
    BY <1>1, <1>2, <2>1, GoToMoves
  <2>2. CASE Top.at = j /\ ~ (Top.callee > c)
    BY <1>1, <1>2, <1>3, <2>2
  <2> QED
    BY <1>2, <1>4, <2>1, <2>2
<1>5. /\ Explored' /\ OneWalkEach'
      /\ stack' \in Seq([fn : Fn, at : Nat \ {0}, callee : Nat])
  <2>1. ASSUME NEW i \in Nat \ {0}, i = Top.at + 1
        PROVE  /\ Explored' /\ OneWalkEach'
               /\ stack' \in Seq([fn : Fn, at : Nat \ {0}, callee : Nat])
    <3>1. GoTo(i, 0)
      BY <1>1, <2>1
    <3>2. \A j \in DOMAIN Body : \A c \in Nat :
            \/ ~ (i > j \/ (i = j /\ 0 > c))
            \/ Past(Top.fn, j, c)
            \/ c # 0 /\ (c \in DOMAIN Callees(module, Body[j]) => Answered(Body[j], c))
      BY <1>4, <2>1
    <3>3. Explored'
      BY <1>1, <3>1, <3>2, MoveExplores
    <3> QED
      BY <1>1, <1>2, <3>1, <3>3, GoToMoves
  <2>2. Top.at + 1 \in Nat \ {0}
    BY <1>2
  <2> QED
    BY <2>1, <2>2, Zenon
<1>6. reachable' \subseteq module.functions \ module.imports
  BY <1>1 DEF Inv, TypeOK
<1> QED
  BY <1>1, <1>5, <1>6, WalkStep


LEMMA ReturnStep == Inv /\ Return => Inv'
<1> SUFFICES ASSUME Inv, Return
             PROVE  Inv'
  OBVIOUS
<1> DEFINE R == [fn : Fn, at : Nat \ {0}, callee : Nat]
           n == Len(stack)
<1>1. /\ stage = "walk" /\ stack # <<>> /\ Top.at > Len(Body)
      /\ stack' = SubSeq(stack, 1, n - 1)
      /\ UNCHANGED <<options, input, stage, module, reachable, program, output, failedAt>>
  BY DEF Return
<1>2. stack \in Seq(R) /\ OneWalkEach /\ Explored
  BY <1>1 DEF Inv, TypeOK
<1>3. n \in Nat \ {0} /\ DOMAIN stack = 1 .. n
  <2> HIDE DEF R
  <2> QED
    BY <1>1, <1>2, EmptySeq, LenProperties
<1>4. /\ stack' \in Seq(R) /\ DOMAIN stack' = 1 .. n - 1
      /\ \A a \in 1 .. n - 1 : stack'[a] = stack[a]
  <2> HIDE DEF R
  <2> QED
    BY <1>1, <1>2, <1>3, SubSeqProperties, LenProperties
<1>5. stack[n] \in R
  <2> HIDE DEF R
  <2> QED
    BY <1>2, <1>3, ElementOfSeq
<1>6. OneWalkEach'
  <2>1. \A a \in 1 .. n - 1 : a \in DOMAIN stack
    BY <1>3
  <2>2. \A a \in DOMAIN stack' : a \in DOMAIN stack /\ stack'[a] = stack[a]
    BY <1>4, <2>1
  <2>3. \A a, b \in DOMAIN stack' : stack'[a].fn = stack'[b].fn => a = b
    BY <1>2, <2>2 DEF OneWalkEach
  <2>4. \A a \in DOMAIN stack' : stack'[a].fn \in reachable'
    BY <1>1, <1>2, <2>2 DEF OneWalkEach
  <2> QED
    BY <2>3, <2>4 DEF OneWalkEach
<1>7. ASSUME NEW f \in reachable, NEW i \in DOMAIN module.body[f], NEW k, Past(f, i, k)'
      PROVE  Past(f, i, k)
  <2>1. \A a \in 1 .. n - 1 :
          stack[a].fn = f => stack[a].at > i \/ (stack[a].at = i /\ stack[a].callee > k)
    BY <1>4, <1>7 DEF Past
  <2>2. stack[n].fn = f => stack[n].at > i
    <3>1. f \in Fn
      BY DEF Inv, TypeOK, WasmModule
    <3>2. module.body[f] \in Seq(Site)
      BY <3>1 DEF Inv, TypeOK, WasmModule
    <3>3. i \in 1 .. Len(module.body[f]) /\ Len(module.body[f]) \in Nat
      BY <3>2, LenProperties
    <3> QED
      BY <1>1, <1>5, <3>3 DEF Top, Body
  <2> QED
    BY <1>3, <2>1, <2>2 DEF Past
<1>8. Explored'
  BY <1>1, <1>2, <1>7, AnswersStay DEF Explored
<1>9. reachable' \subseteq module.functions \ module.imports
  BY <1>1 DEF Inv, TypeOK
<1> QED
  BY <1>1, <1>4, <1>6, <1>8, <1>9, WalkStep

-----------------------------------------------------------------------------
(* Lowering.                                                               *)

LEMMA AcceptStep == Inv /\ Accept => Inv'
<1> SUFFICES ASSUME Inv, Accept
             PROVE  Inv'
  OBVIOUS
<1>1. /\ stage = "walk" /\ stack = <<>>
      /\ UNCHANGED <<options, input, module, stack, reachable, output>>
  BY DEF Accept
<1>2. ASSUME NEW failure \in {"none", "memory"}, Stop(failure), UNCHANGED program
      PROVE  Inv'
  BY <1>1, <1>2, StopKeeps DEF Reason
<1>3. CASE /\ ~ options.validateOnly
           /\ stage' = "lower" /\ UNCHANGED failedAt
           /\ program' = [Idle EXCEPT !.labels = {"entry"}, !.calls = {Entry},
                                      !.image = module.image, !.pages = module.pages]
  <2>1. /\ program'.labels = {"entry"} /\ program'.calls = {Entry}
        /\ program'.lowered = {} /\ program'.image = module.image
        /\ program'.pages = module.pages
    BY <1>3 DEF Idle
  <2>2. module.image \in Seq(Segment) /\ module.pages \in Nat
    BY DEF Inv, TypeOK, WasmModule
  <2>3. program' \in Program
    BY <1>3, <2>2, ConstantAssumption DEF Idle, Program
  <2>4. TypeOK'
    BY <1>1, <1>3, <2>1, <2>3 DEF Inv, TypeOK, Stage
  <2>5. Entry \in reachable /\ module.memory /\ OneWalkEach /\ Explored
    BY <1>1 DEF Inv
  <2>6. WellLowered'
    BY <1>1, <1>3, <2>1, <2>5 DEF WellLowered, Inv, ModuleKept, SameImage
  <2>7. OneWalkEach' /\ Explored'
    BY <1>1, <2>5 DEF OneWalkEach, Explored, Past, Answered
  <2>8. OptionsChecked' /\ ModuleKept'
    BY <1>1, <1>3 DEF Inv, OptionsChecked, ModuleKept, Late, SameImage
  <2> QED
    BY <1>1, <1>3, <2>4, <2>5, <2>6, <2>7, <2>8
       DEF Inv, Early, Late, Linked, ImageKept, SupportedOnly
<1> QED
  BY <1>2, <1>3 DEF Accept

\* When no function is being walked, every expression was looked at.
LEMMA AllFound ==
  ASSUME Inv, PlainBranches, stage \in Late, NEW f \in reachable, NEW s \in SitesOf(module, f)
  PROVE  /\ ~ NotLowered(module, s)
         /\ \A g \in Targets(module, s) \cap Fn :
              g \in reachable \/ (s.kind = "call" /\ g \in module.imports)
<1>1. stack = <<>> /\ Explored /\ module.body = input.body /\ input \in Inputs
  BY DEF Inv, ModuleKept
<1>2. f \in Fn /\ module \in WasmModule
  BY DEF Inv, TypeOK, WasmModule
<1>3. PICK i \in DOMAIN module.body[f] : s = module.body[f][i]
  BY DEF SitesOf
<1>4. s \in Site
  <2>1. module.body[f] \in Seq(Site)
    BY <1>2 DEF WasmModule
  <2> QED
    BY <1>3, <2>1
<1>5. s.carried => s.kind \notin {"call", "indirect", "unsupported"}
  BY <1>1, <1>2, <1>3 DEF PlainBranches
<1>6. \A k : Past(f, i, k)
  BY <1>1 DEF Past
<1>7. ~ s.carried => /\ ~ Unsupported(module, s)
                     /\ \A k \in DOMAIN Callees(module, s) : Answered(s, k)
  BY <1>1, <1>3, <1>6 DEF Explored
<1>8. CASE s.kind = "call"
  <2>1. Callees(module, s) = <<s.to>> /\ Targets(module, s) = {s.to}
    BY <1>8 DEF Callees, Targets
  <2>2. Answered(s, 1)
    BY <1>5, <1>7, <1>8, <2>1
  <2>3. none \notin Fn /\ module.imports \subseteq Fn
    BY <1>2, ConstantAssumption DEF WasmModule
  <2> QED
    BY <1>8, <2>1, <2>2, <2>3 DEF Answered, Refused, NotLowered
<1>9. CASE s.kind = "indirect"
  <2>1. ~ Unsupported(module, s)
    BY <1>5, <1>7, <1>9
  <2>2. ASSUME NEW g \in Targets(module, s)
        PROVE  g \in reachable
    <3>1. PICK k \in Matching(module, s.to) : g = Slot(module, k - 1)
      BY <1>9, <2>2 DEF Targets
    <3>2. k \in 1 .. module.size /\ g # none
      BY <3>1 DEF Matching
    <3>3. k \in DOMAIN Callees(module, s) /\ Callees(module, s)[k] = g
      BY <1>9, <3>1, <3>2 DEF Callees
    <3>4. Answered(s, k)
      BY <1>5, <1>7, <1>9, <3>3
    <3> QED
      BY <1>9, <3>2, <3>3, <3>4 DEF Answered, Refused
  <2> QED
    BY <1>9, <2>1, <2>2 DEF NotLowered, Unsupported
<1>10. CASE s.kind \notin {"call", "indirect"}
  BY <1>5, <1>7, <1>10 DEF Targets, NotLowered, Unsupported
<1> QED
  BY <1>8, <1>9, <1>10


LEMMA LowerFunctionStep == Inv /\ (\E f \in Fn : LowerFunction(f)) => Inv'
<1> SUFFICES ASSUME Inv, NEW f \in Fn, LowerFunction(f)
             PROVE  Inv'
  OBVIOUS
<1>1. /\ stage = "lower" /\ f \in reachable \ program.lowered
      /\ UNCHANGED <<options, input, module, stack, reachable, output>>
  BY DEF LowerFunction
<1>2. ASSUME NEW reason \in Failures(module, f) \cup {"memory"}, Stop(reason), UNCHANGED program
      PROVE  Inv'
  <2>1. reason \in Reason
    BY DEF Failures, Obstacle, Reason
  <2>2. ASSUME reason = "unsupported"
        PROVE  ~ PlainBranches
    <3>1. PICK s \in SitesOf(module, f) : NotLowered(module, s)
      BY <2>2 DEF Failures, Obstacle
    <3> QED
      BY <1>1, <3>1, AllFound DEF Late
  <2> QED
    BY <1>1, <1>2, <2>1, <2>2, StopKeeps
<1>3. CASE /\ program' = [program EXCEPT !.labels = @ \cup {f}, !.lowered = @ \cup {f},
                                         !.calls = @ \cup CallsOf(module, f)]
           /\ UNCHANGED <<stage, failedAt>>
  <2>1. program \in Program /\ module \in WasmModule /\ program.lowered \subseteq reachable
    BY DEF Inv, TypeOK
  <2>2. CallsOf(module, f) \subseteq Fn \cup {"helper"}
    BY <2>1 DEF CallsOf, WasmModule
  <2>3. /\ program'.labels = program.labels \cup {f} /\ program'.lowered = program.lowered \cup {f}
        /\ program'.calls = program.calls \cup CallsOf(module, f)
        /\ program'.image = program.image /\ program'.pages = program.pages
    BY <1>3, <2>1 DEF Program
  <2>4. program' \in Program
    BY <1>1, <1>3, <2>1, <2>2 DEF Program
  <2>5. TypeOK'
    BY <1>1, <1>3, <2>1, <2>3, <2>4 DEF Inv, TypeOK
  <2>6. ASSUME PlainBranches
        PROVE  CallsOf(module, f) \subseteq reachable \cup Helpers
    <3>1. ASSUME NEW g \in module.functions, NEW s \in SitesOf(module, f),
                 g \in Targets(module, s), s.kind = "call" => g \notin module.imports
          PROVE  g \in reachable
      <4>1. g \in Fn
        BY <2>1 DEF WasmModule
      <4> QED
        BY <1>1, <2>6, <3>1, <4>1, AllFound DEF Late
    <3>2. {"helper" : s \in {t \in SitesOf(module, f) : t.kind = "helper"}} \subseteq Helpers
      BY <1>1 DEF Helpers
    <3> QED
      BY <3>1, <3>2 DEF CallsOf
  <2>7. Helpers' = Helpers
    BY <1>1 DEF Helpers
  <2>8. WellLowered /\ OneWalkEach /\ Explored
    BY <1>1 DEF Inv, Late
  <2>9. WellLowered'
    BY <1>1, <1>3, <2>3, <2>6, <2>7, <2>8 DEF WellLowered, SameImage
  <2>10. OneWalkEach' /\ Explored'
    BY <1>1, <2>8 DEF OneWalkEach, Explored, Past, Answered
  <2>11. OptionsChecked' /\ ModuleKept'
    BY <1>1, <1>3 DEF Inv, OptionsChecked, ModuleKept, Late, SameImage
  <2> QED
    BY <1>1, <1>3, <2>5, <2>9, <2>10, <2>11
       DEF Inv, Early, Late, Linked, ImageKept, SupportedOnly
<1> QED
  BY <1>2, <1>3 DEF LowerFunction

LEMMA LowerHelpersStep == Inv /\ LowerHelpers => Inv'
<1> SUFFICES ASSUME Inv, LowerHelpers
             PROVE  Inv'
  OBVIOUS
<1> DEFINE needed == \E f \in reachable : \E s \in SitesOf(module, f) : s.kind = "helper"
           labels == IF needed THEN program.labels \cup {"helper"} ELSE program.labels
<1>1. /\ stage = "lower" /\ reachable \subseteq program.lowered
      /\ UNCHANGED <<options, input, module, stack, reachable, output>>
  BY DEF LowerHelpers
<1>2. program \in Program
  BY DEF Inv, TypeOK
<1>3. CASE Stop("memory") /\ UNCHANGED program
  BY <1>1, <1>3, StopKeeps DEF Reason
<1>4. CASE /\ program' = [program EXCEPT !.labels = IF needed THEN @ \cup {"helper"} ELSE @]
           /\ stage' = "emit" /\ UNCHANGED failedAt
  <2>1. /\ program'.labels = labels /\ program'.lowered = program.lowered
        /\ program'.calls = program.calls
        /\ program'.image = program.image /\ program'.pages = program.pages
        /\ program' \in Program
    BY <1>2, <1>4 DEF Program
  <2>2. Helpers \subseteq labels
    BY DEF Helpers
  <2>3. WellLowered /\ OneWalkEach /\ Explored
    BY <1>1 DEF Inv, Late
  <2>4. WellLowered'
    <3>1. program.labels \subseteq labels
      OBVIOUS
    <3>2. reachable \subseteq labels
      BY <1>1, <2>3, <3>1 DEF WellLowered
    <3>3. Helpers' = Helpers
      BY <1>1 DEF Helpers
    <3> HIDE DEF labels
    <3> QED
      BY <1>1, <1>4, <2>1, <2>2, <2>3, <3>1, <3>2, <3>3 DEF WellLowered, SameImage
  <2>5. TypeOK'
    <3> HIDE DEF labels
    <3> QED
      BY <1>1, <1>4, <2>1 DEF Inv, TypeOK, Stage
  <2>6. OneWalkEach' /\ Explored'
    BY <1>1, <2>3 DEF OneWalkEach, Explored, Past, Answered
  <2>7. OptionsChecked' /\ ModuleKept'
    BY <1>1, <1>4 DEF Inv, OptionsChecked, ModuleKept, Late, SameImage
  <2> QED
    BY <1>1, <1>4, <2>4, <2>5, <2>6, <2>7
       DEF Inv, Early, Late, Linked, ImageKept, SupportedOnly
<1> QED
  BY <1>3, <1>4 DEF LowerHelpers

LEMMA EmitStep == Inv /\ Emit => Inv'
<1> SUFFICES ASSUME Inv, Emit
             PROVE  Inv'
  OBVIOUS
<1>1. /\ stage = "emit" /\ stage' = "done"
      /\ output' \in {"whole", "none", "partial"} /\ failedAt' \in {"none", "emit"}
      /\ UNCHANGED <<options, input, module, stack, reachable, program>>
  BY DEF Emit, Stop
<1>2. WellLowered /\ options.output
  BY <1>1 DEF Inv, Late, OptionsChecked
<1>3. TypeOK'
  BY <1>1, <1>2 DEF Inv, TypeOK, Stage
<1>4. ImageKept'
  BY <1>1, <1>2 DEF WellLowered, SameImage, ImageKept
<1>5. PlainBranches => Linked' /\ SupportedOnly'
  BY <1>1, <1>2 DEF WellLowered, Linked, SupportedOnly
<1>6. OptionsChecked' /\ ModuleKept'
  BY <1>1 DEF Inv, OptionsChecked, ModuleKept, Late, SameImage
<1> QED
  BY <1>1, <1>3, <1>4, <1>5, <1>6 DEF Inv, Early, Late

LEMMA NextInv == Inv /\ [Next]_vars => Inv'
<1> SUFFICES ASSUME Inv, [Next]_vars
             PROVE  Inv'
  OBVIOUS
<1>1. CASE UNCHANGED vars
  <2>1. TypeOK'
    BY <1>1 DEF vars, Inv, TypeOK
  <2>2. OptionsChecked' /\ ModuleKept'
    BY <1>1 DEF vars, Inv, OptionsChecked, ModuleKept, SameImage
  <2>3. (OneWalkEach /\ Explored)' <=> OneWalkEach /\ Explored
    BY <1>1 DEF vars, OneWalkEach, Explored, Past, Answered
  <2>4. WellLowered' <=> WellLowered
    BY <1>1 DEF vars, WellLowered, SameImage, Helpers
  <2>5. ImageKept' /\ (PlainBranches => Linked' /\ SupportedOnly')
    BY <1>1 DEF vars, Inv, ImageKept, Linked, SupportedOnly
  <2> QED
    BY <1>1, <2>1, <2>2, <2>3, <2>4, <2>5 DEF vars, Inv
<1> QED
  BY <1>1, ReadOptionsStep, LoadStep, NormaliseStep, LegaliseStep, CheckModuleStep,
     CheckExpressionStep, CheckCalleeStep, NextExpressionStep, ReturnStep, AcceptStep,
     LowerFunctionStep, LowerHelpersStep, EmitStep
  DEF Next

LEMMA Invariance == Spec => []Inv
  BY InitInv, NextInv, PTL DEF Spec

-----------------------------------------------------------------------------
\* Each stage leaves state of the right types behind, only functions that the
\* module defines are ever reachable or lowered, and no file is touched unless
\* -o asked for it (main).
THEOREM TypeCorrect == Spec => []TypeOK
<1>1. Inv => TypeOK
  BY DEF Inv
<1> QED
  BY <1>1, Invariance, PTL

\* Whatever Binaryen's passes take away, a program that is written starts with
\* the data and the memory of the module in the file (restore_memory_image).
THEOREM KeepsImage == Spec => []ImageKept
<1>1. Inv => ImageKept
  BY DEF Inv
<1> QED
  BY <1>1, Invariance, PTL

\* A program that is written defines every label it calls: what validate_function
\* reached covers what lower_call and lower_call_indirect call, and the helpers
\* are there when a body needs them.
THEOREM CallsWhatItDefines == PlainBranches => (Spec => []Linked)
<1>1. PlainBranches /\ Inv => Linked
  BY DEF Inv
<1> SUFFICES ASSUME PlainBranches
             PROVE  Spec => []Linked
  OBVIOUS
<1>2. Inv => Linked
  BY <1>1
<1> QED
  BY <1>2, Invariance, PTL

\* Every operation, table and import that lowering meets is one that validation
\* checked, so no "internal error: ... passed validation" ends the driver.  Nothing
\* is said of what validation does not look at: temporary slots, frames, operands
\* without a value, memory, and with a value in a br the operations inside it.
THEOREM LowersOnlySupported == PlainBranches => (Spec => []SupportedOnly)
<1>1. PlainBranches /\ Inv => SupportedOnly
  BY DEF Inv
<1> SUFFICES ASSUME PlainBranches
             PROVE  Spec => []SupportedOnly
  OBVIOUS
<1>2. Inv => SupportedOnly
  BY <1>1
<1> QED
  BY <1>2, Invariance, PTL
=============================================================================
