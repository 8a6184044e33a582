---------------------------- MODULE LoopVersions ----------------------------
(***************************************************************************)
(* Loop versions of the lowering (src/src/lowering.c): the scan that plans *)
(* a fast copy of a counted loop, the guard that chooses between the fast  *)
(* and the checked copy, and the fast copy, which leaves out the bounds    *)
(* checks that the guard stands for, follows a word pointer in R13 and     *)
(* keeps two locals in R9 and R11.                                         *)
(*                                                                         *)
(* The generated code runs in step with the Wasm loop that it was made     *)
(* from.  A body is a sequence of statements; the branch back ends it.     *)
(***************************************************************************)
EXTENDS Integers, Sequences, FiniteSets

CONSTANTS
  Local,       \* i32 locals, as indices
  none,        \* no local
  Bits,        \* width of a word
  Memory,      \* memory_bytes
  Sizes,       \* bytes of memory at run time: Memory unless memory can grow
  GroupLimit,  \* LOOP_ACCESS_GROUP_LIMIT
  Loops,       \* loops to lower
  Starts,      \* locals before the loop
  Contents     \* what memory may hold at the addresses of Slot

Words == 2 ^ Bits
Word == 0 .. Words - 1
Signed(w) == IF w >= Words \div 2 THEN w - Words ELSE w

\* Addresses of the limit and of the base that loops load.
LimitAt == 0
BaseAt == 4
Slot == {LimitAt, BaseAt}

\* A pointer is local + off, plus the word at BaseAt when loaded; tee is the
\* local that it is also assigned to.
Pointer == [loaded : BOOLEAN, local : Local, off : Int, tee : Local \cup {none}]

\* Effects: a load or store; local := at; local := anything; br_if out of the
\* loop; imports that keep memory or may write it; division helpers; other
\* calls.  guarded: the statement is inside an if.
Statement ==
  [op : {"load", "store", "set", "any", "exit", "import", "clobber", "divide", "call"},
   at : Pointer, offset : Nat, width : {1, 2, 4}, local : Local, guarded : BOOLEAN]

\* Branches back: br_if with a tee of counter - 1, or of counter + 1 < limit,
\* and br_if out with eqz of a tee of counter - 1 before a br.
Loop ==
  [body : Seq(Statement), trip : {"countdown", "increment", "exit countdown"}, counter : Local,
   bound : {"none", "constant", "local", "memory"}, value : Word \cup Local]

ASSUME ConstantAssumption ==
  /\ Local \subseteq Nat /\ none \notin Local /\ Bits \in Nat /\ Words \in Nat
  /\ Memory \in Nat /\ 8 <= Memory /\ Memory <= Words \div 2
  /\ Sizes \subseteq 8 .. Memory /\ GroupLimit \in Nat
  /\ Starts \subseteq [Local -> Word] /\ Contents \subseteq [Slot -> Word]

ASSUME LoopAssumption ==
  \A l \in Loops :
    /\ l \in Loop
    /\ \A k \in DOMAIN l.body : l.body[k].op = "set" => l.body[k].at.tee = none
    /\ (l.bound = "none") <=> (l.trip # "increment")
    /\ l.bound = "local" => l.value \in Local
    /\ l.bound = "constant" => l.value \in Word

VARIABLES
  loop,     \* the Wasm loop
  plan,     \* its LoopFastPath
  mode,     \* "guard", "fast", "checked", "done", "trapped" or "diverged"
  pc,       \* next statement
  wasm,     \* locals of the Wasm function
  machine,  \* frame slots, registers and the facts of the compiler
  memory,   \* the words at Slot
  size      \* bytes of memory

vars == <<loop, plan, mode, pc, wasm, machine, memory, size>>

-----------------------------------------------------------------------------
(* The scan.                                                               *)

Least(S) == CHOOSE n \in S : \A m \in S : n <= m
Greatest(S) == CHOOSE n \in S : \A m \in S : m <= n

Accesses(l) == {k \in DOMAIN l.body : l.body[k].op \in {"load", "store"}}
Has(l, op) == \E k \in DOMAIN l.body : l.body[k].op = op

\* Assignments to x, as statements; the branch back assigns the counter.
Assignments(l, x) ==
  {k \in DOMAIN l.body :
     (l.body[k].op \in {"set", "any"} /\ l.body[k].local = x)
       \/ (k \in Accesses(l) /\ l.body[k].at.tee = x)}
  \cup (IF x = l.counter THEN {Len(l.body) + 1} ELSE {})

\* x is assigned once, and then it is x plus a positive constant.
Strided(l, x) ==
  /\ Cardinality(Assignments(l, x)) = 1 /\ x # l.counter
  /\ \A k \in Assignments(l, x) :
       LET s == l.body[k] IN
       s.op # "any" /\ s.at.local = x /\ ~ s.at.loaded /\ s.at.off > 0

Stride(l, x) == l.body[CHOOSE k \in Assignments(l, x) : TRUE].at.off

\* Accesses through local + off with off >= 0.
Affine(l) == {k \in Accesses(l) : ~ l.body[k].at.loaded /\ l.body[k].at.off >= 0}
GroupOf(l, x) == {k \in Affine(l) : l.body[k].at.local = x}
First(l, x) == Least(GroupOf(l, x))

\* Base locals that get a group before there are too many.
Bases(l) ==
  LET all == {l.body[k].at.local : k \in Affine(l)}
  IN {x \in all : Cardinality({y \in all : First(l, y) < First(l, x)}) < GroupLimit}

Start(s, off) == off + s.offset
End(s, off) == off + s.offset + s.width
WholeWord(s, off) == s.width = 4 /\ Start(s, off) % 4 = 0

Candidates(l) ==
  {x \in Bases(l) :
     /\ Cardinality(GroupOf(l, x)) >= 2 /\ Strided(l, x)
     /\ \A k \in GroupOf(l, x) : End(l.body[k], l.body[k].at.off) <= Memory}

\* The candidate with the most accesses, the first one when there are more.
Best(l) ==
  CHOOSE x \in Candidates(l) : \A y \in Candidates(l) :
    \/ Cardinality(GroupOf(l, y)) < Cardinality(GroupOf(l, x))
    \/ Cardinality(GroupOf(l, y)) = Cardinality(GroupOf(l, x)) /\ First(l, x) <= First(l, y)

NotLoaded == [valid |-> FALSE, local |-> none, off |-> 0]

\* parse_invariant_pointer for a pointer, given the aliases found before.
LoadedPointer(aliases, at) ==
  IF at.loaded THEN [valid |-> TRUE, local |-> at.local, off |-> at.off]
  ELSE IF aliases[at.local].valid THEN [aliases[at.local] EXCEPT !.off = @ + at.off]
  ELSE NotLoaded

\* Aliases after the first k statements.
AliasesOf(l) ==
  LET after[k \in 0 .. Len(l.body)] ==
        IF k = 0 THEN [x \in Local |-> NotLoaded]
        ELSE LET s == l.body[k]
                 p == LoadedPointer(after[k - 1], s.at)
             IN IF k \in Accesses(l) /\ p.valid /\ s.at.tee # none
                THEN [after[k - 1] EXCEPT ![s.at.tee] = p] ELSE after[k - 1]
  IN after

\* The accesses whose pointer is the loaded base plus the local of the first.
LoadedGroup(l) ==
  LET pointer(k) == LoadedPointer(AliasesOf(l)[k - 1], l.body[k].at)
      all == {k \in Accesses(l) : pointer(k).valid}
      local == pointer(Least(all)).local
      group == {k \in all : pointer(k).local = local}
      starts == {Start(l.body[k], pointer(k).off) : k \in group}
      ends == {End(l.body[k], pointer(k).off) : k \in group}
  IN IF all = {} THEN [local |-> none, count |-> 0]
     ELSE [local |-> local, count |-> Cardinality(group), origin |-> Least(starts),
           span |-> Greatest(ends) - Least(starts),
           words |-> \A k \in group : WholeWord(l.body[k], pointer(k).off)]

LoadedAliases(l) == {x \in Local : AliasesOf(l)[Len(l.body)][x].valid}

\* Fault: an import that may write memory does not matter.
VersionableDespiteImports(l) ==
  /\ ~ Has(l, "call") /\ Cardinality(Assignments(l, l.counter)) = 1
  /\ l.bound = "memory" => ~ Has(l, "store")
  /\ l.bound = "local" => Assignments(l, l.value) = {}

\* What rules a loop out, whatever its accesses are.
Versionable(l) ==
  /\ ~ Has(l, "call") /\ Cardinality(Assignments(l, l.counter)) = 1
  /\ l.bound = "memory" => ~ Has(l, "store") /\ ~ Has(l, "clobber")
  /\ l.bound = "local" => Assignments(l, l.value) = {}

PrefersLoaded(l) ==
  LET g == LoadedGroup(l) IN
  /\ ~ Has(l, "store") /\ g.count >= 2 /\ g.words
  /\ Strided(l, g.local) /\ Stride(l, g.local) % 4 = 0 /\ g.span <= Memory
  /\ Candidates(l) # {} => g.count > Cardinality(GroupOf(l, Best(l)))
  /\ \A x \in LoadedAliases(l) : Cardinality(Assignments(l, x)) = 1

NoPlan == [valid |-> FALSE, promoted |-> FALSE]

\* analyze_loop_fast_path.
PlanOf(l) ==
  LET promoted == ~ Has(l, "exit") /\ ~ Has(l, "divide") /\ l.trip # "exit countdown"
      g == LoadedGroup(l)
      own == {x \in LoadedAliases(l) : AliasesOf(l)[Len(l.body)][x].local = g.local}
      alias == IF own = {} THEN none ELSE Least(own)
      members == GroupOf(l, Best(l))
      off(k) == l.body[k].at.off
      words == \A k \in members : WholeWord(l.body[k], off(k))
  IN IF ~ Versionable(l) THEN NoPlan
     ELSE IF PrefersLoaded(l)
     THEN [valid |-> TRUE, loaded |-> TRUE, base |-> g.local, stride |-> Stride(l, g.local),
           low |-> 0, high |-> g.span, origin |-> g.origin, alias |-> alias,
           aliasOff |-> IF alias = none THEN 0
                        ELSE AliasesOf(l)[Len(l.body)][alias].off - g.origin,
           word |-> TRUE, promoted |-> promoted]
     ELSE IF Candidates(l) # {}
     THEN [valid |-> TRUE, loaded |-> FALSE, base |-> Best(l), stride |-> Stride(l, Best(l)),
           low |-> Least({Start(l.body[k], off(k)) : k \in members}),
           high |-> Greatest({End(l.body[k], off(k)) : k \in members}),
           origin |-> 0, alias |-> none, aliasOff |-> 0,
           word |-> words /\ Stride(l, Best(l)) % 4 = 0, promoted |-> promoted]
     ELSE NoPlan

-----------------------------------------------------------------------------
(* The locals of the generated code.  An identity says that a local holds  *)
(* the word of another one plus a constant.                                *)

NoIdentities == [x \in Local |-> [base |-> x, off |-> 0]]

Fast == mode = "fast"
Promoted(x) == Fast /\ plan.promoted /\ x \in {plan.base, loop.counter}

Held(m, x) ==
  IF ~ Promoted(x) THEN m.frame[x] ELSE IF x = plan.base THEN m.r11 ELSE m.r9

\* assign_local_address_identity; from is an identity or NotLoaded.
Identified(ids, x, from) ==
  LET kept == [y \in Local |-> IF ids[y].base = x THEN [base |-> y, off |-> 0] ELSE ids[y]]
  IN IF from.base \in Local \ {x} THEN [kept EXCEPT ![x] = from] ELSE kept

Nothing == [base |-> none, off |-> 0]

\* local.set and local.tee; R13 follows the base.
Assigned(m, x, w, from) ==
  [m EXCEPT
     !.frame = IF Promoted(x) THEN @ ELSE [@ EXCEPT ![x] = w],
     !.r11 = IF Promoted(x) /\ x = plan.base THEN w ELSE @,
     !.r9 = IF Promoted(x) /\ x = loop.counter THEN w ELSE @,
     !.r13 = IF Fast /\ plan.word /\ x = plan.base THEN @ + plan.stride \div 4 ELSE @,
     !.ids = Identified(@, x, from)]

\* The code of a pointer: the machine after it, its word and its identity.
Lowered(m, at) ==
  LET w == (Held(m, at.local) + at.off + (IF at.loaded THEN memory[BaseAt] ELSE 0)) % Words
      id == IF at.loaded THEN Nothing
            ELSE [base |-> m.ids[at.local].base, off |-> (m.ids[at.local].off + at.off) % Words]
      after == Assigned(m, at.tee, w, id)
  IN IF at.tee = none THEN [machine |-> m, word |-> w, id |-> id]
     ELSE [machine |-> after, word |-> w, id |-> after.ids[at.tee]]

\* fast_loop_covers_access.
Covered(id, s) ==
  /\ Fast /\ id.base = plan.base
  /\ Start(s, id.off) >= plan.low /\ End(s, id.off) <= plan.high

\* parse_fast_invariant_pointer: the identity relative to R13.
FastLoaded(m, at) ==
  CASE at.loaded /\ at.local = plan.base -> [base |-> plan.base, off |-> (at.off - plan.origin) % Words]
    [] ~ at.loaded /\ at.local = plan.alias ->
         [base |-> plan.base, off |-> (plan.aliasOff + at.off) % Words]
    [] ~ at.loaded /\ at.local \notin {plan.base, plan.alias} /\ m.ids[at.local].base = plan.base ->
         [base |-> plan.base, off |-> (m.ids[at.local].off + at.off) % Words]
    [] OTHER -> Nothing

\* What make_fast_word_pointer emits, when a whole word is accessed, before
\* it knows whether the access is covered.
TriedFast(m, s) ==
  LET id == FastLoaded(m, s.at)
      known == m.ids[s.at.local]
      w == (m.frame[plan.base] + m.r12 + id.off + plan.origin) % Words
      after == [m EXCEPT !.frame = [@ EXCEPT ![s.at.tee] = w],
                         !.ids = Identified(@, s.at.tee, id)]
  IN IF Fast /\ plan.loaded /\ id # Nothing /\ WholeWord(s, id.off)
     THEN [machine |-> IF s.at.tee = none THEN m ELSE after, id |-> id, word |-> 0]
     ELSE IF /\ Fast /\ plan.word /\ s.width = 4 /\ s.at.tee # none
             /\ ~ s.at.loaded /\ s.at.off >= 0 /\ known.base = plan.base
             /\ (known.off + s.at.off + s.offset) % 4 = 0
     THEN Lowered(m, s.at)
     ELSE [machine |-> m, id |-> Nothing, word |-> 0]

\* A load or store: the machine after its pointer, the address it accesses
\* and whether it does so unchecked.
AccessOf(m, s) ==
  LET tried == TriedFast(m, s)
      p == IF Covered(tried.id, s) THEN tried ELSE Lowered(tried.machine, s.at)
      covered == Covered(p.id, s)
  IN [machine |-> p.machine, unchecked |-> covered,
      address |-> IF covered /\ plan.word /\ WholeWord(s, p.id.off)
                  THEN 4 * (p.machine.r13 + (p.id.off + s.offset) \div 4)
                  ELSE p.word + s.offset]

-----------------------------------------------------------------------------
(* The guard.                                                              *)

Limit(words, mem) ==
  CASE loop.bound = "constant" -> loop.value
    [] loop.bound = "local" -> words[loop.value]
    [] loop.bound = "memory" -> mem[LimitAt]
    [] OTHER -> 0

\* Iterations, or less than one when the guard cannot tell.
Trips(m) ==
  LET c == Signed(m.frame[loop.counter])
      n == Signed(Limit(m.frame, memory))
  IN IF loop.trip # "increment" THEN c ELSE IF c < 0 THEN 0 ELSE n - c

BaseWord(m) ==
  (m.frame[plan.base] + (IF plan.loaded THEN memory[BaseAt] + plan.origin ELSE 0)) % Words

\* Fault: the bytes that the first iteration accesses decide.
GuardOfFirst(m) ==
  LET base == BaseWord(m) IN
  /\ Trips(m) > 0 /\ (plan.word => base % 4 = 0)
  /\ plan.high <= size /\ base <= size - plan.high

\* emit_loop_fast_guard: every iteration stays inside memory.
Guard(m) ==
  LET base == BaseWord(m) IN
  /\ Trips(m) > 0 /\ (plan.word => base % 4 = 0)
  /\ plan.high <= size /\ base <= size - plan.high
  /\ Trips(m) - 1 <= (size - plan.high - base) \div plan.stride

\* lower_versioned_loop: R9 to R13, and the copy that runs.
Enter ==
  /\ mode = "guard"
  /\ LET m == machine
         bound == IF loop.trip = "increment" THEN Limit(m.frame, memory) ELSE m.r10
         loaded == IF plan.loaded THEN memory[BaseAt] ELSE m.r12
     IN IF Guard(m)
        THEN /\ mode' = "fast"
             /\ machine' = [m EXCEPT !.r9 = m.frame[loop.counter], !.r11 = m.frame[plan.base],
                                     !.r10 = bound, !.r12 = loaded, !.r13 = BaseWord(m) \div 4]
        ELSE mode' = "checked" /\ machine' = [m EXCEPT !.r10 = bound]
  /\ UNCHANGED <<loop, plan, pc, wasm, memory, size>>

-----------------------------------------------------------------------------
(* Both programs, statement by statement.                                  *)

Running == mode \in {"fast", "checked"}
Here == loop.body[pc]

PointerWord(at) ==
  (wasm[at.local] + at.off + (IF at.loaded THEN memory[BaseAt] ELSE 0)) % Words
WasmAddress == PointerWord(Here.at) + Here.offset
Teed == IF Here.at.tee = none THEN wasm ELSE [wasm EXCEPT ![Here.at.tee] = PointerWord(Here.at)]

\* After an if there is a label, where the compiler knows nothing.
Joined(m) == IF Here.guarded THEN [m EXCEPT !.ids = NoIdentities] ELSE m

\* Memory after a store of any word: it may hit a word that loops load.
Written(address, width) ==
  {mem \in Contents : \A a \in Slot :
     mem[a] # memory[a] => a < address + width /\ address < a + 4}

Access ==
  /\ Running /\ pc \in DOMAIN loop.body /\ Here.op \in {"load", "store"}
  /\ LET a == AccessOf(machine, Here) IN
     IF WasmAddress + Here.width > size
     THEN mode' = "trapped" /\ UNCHANGED <<pc, wasm, machine, memory>>
     ELSE /\ wasm' = Teed /\ machine' = Joined(a.machine)
          /\ memory' \in IF Here.op = "store" THEN Written(WasmAddress, Here.width) ELSE {memory}
          /\ pc' = pc + 1 /\ UNCHANGED mode
  /\ UNCHANGED <<loop, plan, size>>

Set ==
  /\ Running /\ pc \in DOMAIN loop.body /\ Here.op = "set"
  /\ LET p == Lowered(machine, Here.at)
     IN machine' = Joined(Assigned(p.machine, Here.local, p.word, p.id))
  /\ wasm' = [wasm EXCEPT ![Here.local] = PointerWord(Here.at)]
  /\ pc' = pc + 1 /\ UNCHANGED <<loop, plan, mode, memory, size>>

SetAny ==
  /\ Running /\ pc \in DOMAIN loop.body /\ Here.op = "any"
  /\ \E w \in {start[Here.local] : start \in Starts} :
       /\ machine' = Joined(Assigned(machine, Here.local, w, Nothing))
       /\ wasm' = [wasm EXCEPT ![Here.local] = w]
  /\ pc' = pc + 1 /\ UNCHANGED <<loop, plan, mode, memory, size>>

\* The condition of the if is false.
NotTaken ==
  /\ Running /\ pc \in DOMAIN loop.body /\ Here.guarded
  /\ machine' = Joined(machine)
  /\ pc' = pc + 1 /\ UNCHANGED <<loop, plan, mode, wasm, memory, size>>

Exit ==
  /\ Running /\ pc \in DOMAIN loop.body /\ Here.op = "exit"
  /\ \/ mode' = "done" /\ UNCHANGED pc
     \/ pc' = pc + 1 /\ UNCHANGED mode
  /\ machine' = Joined(machine)
  /\ UNCHANGED <<loop, plan, wasm, memory, size>>

\* Hardware imports; some of them write memory.
Import ==
  /\ Running /\ pc \in DOMAIN loop.body /\ Here.op \in {"import", "clobber", "divide"}
  /\ memory' \in IF Here.op = "clobber" THEN Contents ELSE {memory}
  /\ machine' = Joined(machine)
  /\ pc' = pc + 1 /\ UNCHANGED <<loop, plan, mode, wasm, size>>

\* Fault: the counter does not wrap.
CountedOn(w) == w + (IF loop.trip = "increment" THEN 1 ELSE -1)

\* The counter after the branch back.
Counted(w) == (w + (IF loop.trip = "increment" THEN 1 ELSE -1)) % Words

\* Fault: the slots of the promoted locals keep what they held.
FlushedNot(m) == m

\* The slots of the promoted locals get their words when the loop is left.
Flushed(m) == [m EXCEPT !.frame = [x \in Local |-> Held(m, x)]]

\* The checked copy reuses R10 when nothing can write the limit.
Reuses == Fast \/ (loop.bound = "memory" /\ ~ Has(loop, "store") /\ ~ Has(loop, "clobber"))

BranchBack ==
  /\ Running /\ pc > Len(loop.body)
  /\ LET count == Counted(wasm[loop.counter])
         here == Counted(Held(machine, loop.counter))
         again(w, n) == IF loop.trip = "increment" THEN Signed(w) < Signed(n) ELSE w # 0
         taken == again(count, Limit(wasm, memory))
         after == Assigned(machine, loop.counter, here, Nothing)
         jumps == again(here, IF Reuses THEN machine.r10 ELSE Limit(machine.frame, memory))
     IN /\ wasm' = [wasm EXCEPT ![loop.counter] = count]
        /\ machine' = IF jumps THEN [after EXCEPT !.ids = NoIdentities] ELSE Flushed(after)
        /\ mode' = IF taken # jumps THEN "diverged" ELSE IF jumps THEN mode ELSE "done"
        /\ pc' = IF taken /\ jumps THEN 1 ELSE pc
  /\ UNCHANGED <<loop, plan, memory, size>>

\* Loops without a plan are lowered as they are.
Init ==
  /\ loop \in {l \in Loops : PlanOf(l).valid} /\ plan = PlanOf(loop)
  /\ mode = "guard" /\ pc = 1
  /\ wasm \in Starts
  /\ machine = [frame |-> wasm, r9 |-> 0, r10 |-> 0, r11 |-> 0, r12 |-> 0, r13 |-> 0,
                ids |-> NoIdentities]
  /\ memory \in Contents /\ size \in Sizes

Next == Enter \/ Access \/ Set \/ SetAny \/ NotTaken \/ Exit \/ Import \/ BranchBack

Spec == Init /\ [][Next]_vars

-----------------------------------------------------------------------------
(* Loops that the lowering gets right: each condition leaves out a kind of *)
(* loop for which it does not keep the two invariants at the end.          *)

Copies(s) == s.op # "any" /\ ~ s.at.loaded

\* Statement j assigns to the alias the word that the plan takes it for.
TeesAlias(l, j) ==
  LET s == l.body[j]
      p == PlanOf(l)
  IN /\ j \in Accesses(l) /\ ~ s.guarded /\ p.alias \in Local /\ s.at.tee = p.alias
     /\ s.at.loaded /\ s.at.local = p.base /\ p.aliasOff = s.at.off - p.origin

\* Of a loop whose base is loaded: nothing writes the word that is kept in
\* R12; pointers assign no locals while locals are in registers; only the
\* stride reads the base without the loaded word; the alias is assigned
\* before it is used.
PlainLoads(l) ==
  LET p == PlanOf(l) IN
  /\ ~ Has(l, "clobber")
  /\ p.promoted => \A k \in Accesses(l) : l.body[k].at.tee = none
  /\ \A k \in DOMAIN l.body :
       l.body[k].op \in {"load", "store", "set"} /\ ~ l.body[k].at.loaded /\ l.body[k].at.local = p.base
         => k \in Assignments(l, p.base)
  /\ \A k \in Accesses(l) :
       ~ l.body[k].at.loaded /\ l.body[k].at.local = p.alias => \E j \in 1 .. k - 1 : TeesAlias(l, j)

\* No pointer assigns the local it is computed from, the stride comes after
\* every access, and a local is not assigned copies and other words.
PlainLoop(l) ==
  /\ \A k \in Accesses(l) : l.body[k].at.tee # l.body[k].at.local
  /\ \A k \in Accesses(l), j \in Assignments(l, PlanOf(l).base) : k < j
  /\ \A x \in Local : \A j, k \in Assignments(l, x) \cap DOMAIN l.body :
       \/ j = k
       \/ Copies(l.body[j]) /\ Copies(l.body[k])
       \/ l.body[j].op = "any" /\ l.body[k].op = "any"
  /\ PlanOf(l).loaded => PlainLoads(l)

PlainLoops == \A l \in Loops : PlanOf(l).valid => PlainLoop(l)

-----------------------------------------------------------------------------
\* The types of the state.
TypeOK ==
  /\ mode \in {"guard", "fast", "checked", "done", "trapped", "diverged"}
  /\ pc \in 1 .. Len(loop.body) + 1 /\ wasm \in [Local -> Word]
  /\ machine.frame \in [Local -> Word] /\ {machine.r9, machine.r10, machine.r11} \subseteq Word
  /\ \A x \in Local : machine.ids[x] \in [base : Local, off : Word]
  /\ memory \in [Slot -> Word] /\ size \in Sizes

\* An access of the fast copy that has no check is inside memory in every
\* iteration that the guard let through, and the word pointer in R13 names
\* the address that the Wasm program accesses.
UncheckedAccessesSafe ==
  Running /\ pc \in DOMAIN loop.body /\ Here.op \in {"load", "store"} =>
    LET a == AccessOf(machine, Here) IN
    a.unchecked => WasmAddress + Here.width <= size /\ a.address = WasmAddress

\* Locals in registers, in slots and in Wasm hold the same words while a copy
\* runs, the copy goes round as often as the Wasm loop does, and after it the
\* slots hold what Wasm's locals hold.
LocalsAgree ==
  /\ mode # "diverged"
  /\ Running => \A x \in Local : Held(machine, x) = wasm[x]
  /\ mode = "done" => machine.frame = wasm
=============================================================================
