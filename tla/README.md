# Verification of wasm2vircon

wasm2vircon translates a WebAssembly module into assembly for the Vircon32
console.  It is a batch compiler: one thread, one pass after another, no state
kept between runs.  What can go wrong is therefore not in its scheduling but in
what the generated program computes: the facts the lowering and the optimiser
carry from one instruction to the next must be true of every execution of the
code they leave behind.  The modules here model those passes together with the
execution of the code they emit, and the runtime that is linked into a program.

## Inventory

| Part | Source | State | Operations | What makes it right |
|---|---|---|---|---|
| Driver | `src/src/main.c` | options, the module, the validation result, the IR | parse arguments, run the stages in order, dispose | a later stage runs only after the earlier ones succeeded; what was built is disposed of once |
| Binaryen adapter | `src/src/wasm_module.c` | functions, expressions, tables, data, memory limits | load, normalise, decode, report | the decoded tree means what the Wasm module means; a memory image survives normalisation |
| DWARF reader | `src/src/wasm_dwarf.c` | bounded reader, line rows, function spans | filter sections, run the line program, find locations | reads stay inside their section; debug data never changes the program |
| Legaliser | `src/src/legalize.c` | uses of globals and tables, loop types | walk every function, drop unused linker artefacts | nothing that is used or exported is dropped |
| Validator | `src/src/validator.c` | reachable functions, needed features | walk from the entry, check imports and signatures | everything lowered was checked |
| Lowering | `src/src/lowering.c` | `Context`: local slots, temporary slots, control stack, checked addresses, local aliases, cached R13 pointer, loop fast path | one handler per expression kind, emitted helpers, startup code | the generated code computes what Wasm says, traps where Wasm traps, and never touches a word outside linear memory |
| V32 IR | `src/src/vircon_ir.c` | the node list | append, optimise locally, remove dead frame stores | the passes preserve the program |
| Emitter | `src/src/emitter.c` | the output file | print each node | the text is the IR |
| C API | `src/include/vircon.h` | the heap's block list, console registers | malloc, free, calloc, realloc, wrappers of imports | live allocations never overlap; freed space is reused |

The parts call one another in a line: the driver loads a module (adapter and
DWARF reader), legalises and validates it, lowers it to IR, runs the local
optimiser and then the dead-store pass, and emits text.  The validator decides
what the lowering may meet; the lowering writes the frame words that both IR
passes reason about; the optimiser's removals change which frame words are read
and therefore what the dead-store pass finds.  At run time the generated code,
the bulk-memory helpers and the heap of `vircon.h` share linear memory and the
word that holds its size in pages.

What is hard here: facts that outlive the value they describe (value numbers,
constants, checked addresses, the cached pointer in R13, a loop guard); facts
that must be dropped at a join, a call, a store or a full table; fixed points
over cyclic control flow; 32-bit wrap-around in addresses and lengths; packing
bytes into words; and long sequences of heap calls.  There are no threads, no
messages, and nothing survives a crash.

## Modules

Each component is a module, its instances are in `MC<component>.tla` with one
`.cfg` per run, and its theorems are in `<component>Proofs.tla`; those of the two
passes over the IR, which see the same frame words (`VirconIR`), are together in
`VirconIRProofs`, and those of `BoundsChecks` and `WordPairs`, which both rest on the
arithmetic of machine words, in `MachineWordsProofs`.  Two components
are refinements: `Heap` implements `Allocations`, `PackedMemory` implements
`LinearMemory`.

| Module | Code | Runs | Theorems |
|---|---|---|---|
| `LocalOptimizer` | `vircon_ir_optimize_local` | `local_optimizer` | types, value numbers, constants, equivalence |
| `FrameStores` | `vircon_ir_eliminate_dead_frame_stores` | `frame_stores` | types, equality of registers, liveness of words, growth of the sweeps |
| `BoundsChecks` | address facts of `lowering.c` | `bounds_checks`, `bounds_checks_growing`, and `bounds_checks_crossing`, which fails | types, facts, memory safety, addresses, traps |
| `PackedMemory`, `LinearMemory` | memory access, bulk helpers, growth and startup of `lowering.c` | `packed_memory` | types, other RAM untouched, refinement |
| `Heap`, `Allocations` | the allocator of `vircon.h` | `heap_blocks` | types, tiling, links, range, reuse, refinement |
| `Operands` | where `lowering.c` keeps operands, structured control, calls | `operands` | types, stack of temporary slots, operands |
| `LoopVersions` | fast copies of counted loops of `lowering.c` | `loop_versions` | types, unchecked accesses, locals |
| `Alignment` | alignment facts of `lowering.c` | `alignment` | types, facts |
| `WordPairs` | i64 and other integer helpers of `lowering.c` | `word_pairs` | results, invariant of the division |
| `Frontend` | `main.c`, `wasm_module.c`, `legalize.c`, `validator.c`, `lower_module_to_vircon_ir` | `frontend` | types, image, links, supported operations |

The modules meet where the code does.  `BoundsChecks` says which accesses are
made and where; `PackedMemory` takes checked addresses and says what the access
does to words.  `Heap` takes bytes that keep their contents for granted, which
is what `PackedMemory` shows.  `LocalOptimizer` and `FrameStores` take any node
list of the IR, and so any code that the lowering emits.  `Frontend` decides which
functions are lowered; `Operands` lowers one of them expression by expression;
`BoundsChecks`, `LoopVersions` and `Alignment` each follow one kind of fact that
this lowering carries along, and `WordPairs` says what single integer operations
compute once their operands are in place.

### LocalOptimizer

`vircon_ir_optimize_local`.  The state is the pass's own (`number` is
`register_values` and the values of the frame facts, `constant` is the known
constants, `lastMove` is what `nodes[write_index - 1]` allows to be taken back)
and two machines, `ref` and `opt`, that execute the nodes read and the nodes
kept.  One action reads one node.  A node the pass does not interpret (floating
point, a load through a pointer, a call) leaves an arbitrary value, the same on
both sides; after a label either the code before it falls through or execution
arrives from elsewhere with any state.  The prologue and the epilogue are the
only nodes that write BP and SP and are one action each.

*Bounds.*  Two general registers, BP and SP, two frame words, one-bit words (on
which subtraction and signed comparison still differ), `FactLimit` 1 so that
the table of frame facts is emptied in the middle of a region, `NumberBound` 5
so that every fact is created, copied, forgotten and created again.  General
registers and frame words are interchangeable, hence the symmetry.

*Argument.*  `Equivalent` is not inductive alone: a copy is removed because two
numbers are equal, so the invariant adds that equal numbers mean equal words
(`EqualNumbersEqualWords`), that numbers not yet handed out are not in use
(`NumbersHandedOut`), and that known constants hold (`KnownConstantsHold`).  The
theorems hold for every set of registers, frame words and words and every table
size.  The 64-bit counter of value numbers is a natural number.

### FrameStores

`vircon_ir_eliminate_dead_frame_stores`.  The pass runs first, one node of one
backward sweep per step, over an arbitrary program of loads, stores, jumps,
indirect jumps and returns; then one path of the program is executed with and
without the removed stores.  Declining (malformed branch, table of frame words
too small, failed allocation) is an action at each place where the code returns
early.

*Bounds.*  Every program of three nodes and a return over two frame words, with
a jump or a branch to each node: enough for a loop with a load and a store in
it, which needs several sweeps, and for a store that only one of two paths reads.

*Fairness.*  Weak fairness of the pass itself, a sequential function that keeps
running; nothing is assumed of the compiled program, which may stop.

*Argument.*  While a sweep has changed nothing, the nodes it has visited satisfy
their data-flow equations, so the last sweep leaves a solution; the frames
differ at most in words that are not live at the current node.

*Assumption.*  `~AliasedLoads`: a load through a register other than BP never
reads a frame word.  The lowering emits such loads for linear memory, the
imported data range and globals, which lie apart from the stack.  The comment on
`collect_frame_liveness_use_def` promises more, that unknown memory operations
count as reads; they do not, and with `AliasedLoads = TRUE` `SameRegisters` is
violated in the same instance.

### BoundsChecks

What the lowering remembers about addresses: `alias` is `local_address_bases`
and `local_address_offsets`, `checked` is `checked_addresses`, `cached` is
`target_word_address_*`.  Each action lowers one expression and executes the code
emitted for it, so belief and machine stand side by side; `pending` holds
operands that wait in temporary slots.  `record_checked_address`, whose loop
merges the new range with any number of old ones in table order, takes one step
per entry (`VisitRange`, then `InsertRange`).  A label forgets everything and
leaves the locals arbitrary (`Join`); a call leaves R13 to the callee.  Only i32
values carry an identity worth following; of the i64 operations the extraction
of a word is modelled because it inherits one, and `memory.grow` because it
changes the length.  The fast copies of versioned loops are not here.

*Bounds.*  `bounds_checks` has a memory of fixed length in i32 words modulo 8,
words of two bytes, two locals, one remembered range and one waiting operand:
addresses with the sign bit, sums that wrap, a full table, an alias and a
re-assigned base all occur.  `bounds_checks_growing` has one local, two ranges,
so that merging over gaps happens, and a memory that grows.

*Program classes.*  Four booleans name programs for which the code is wrong (see
Findings): `AssignsOperands`, `ReassignsAliases`, `InheritsIdentities` and
`CrossesEnd`.  The passing runs and the theorems are about all other programs
(`Programs` in `MachineWordsProofs`): all of its theorems about `BoundsChecks` assume
it, and `OnlyJustifiedTraps` a memory of fixed length as well; setting one of the first three
to TRUE violates `InBounds` in the instance of `bounds_checks`, the last in that of
`bounds_checks_growing`.

*Argument.*  `InBounds` needs that every remembered range is proven for the
present values of the locals, which needs that aliases and the identities of
waiting operands are the sums they claim, and that a merged range has no gap and
does not wrap (`Fits`).  `TrapsJustified` is proved, and checked, for memories of
fixed length; the code has no such property for others (see Findings).
`ExactBounds`, which says that pointer plus offset did not wrap either, is stated
but false: a check omitted because of an alias whose sum wraps lets such an access
through, with `Results = {6}` and `Literals = {2}`.

### PackedMemory and LinearMemory

`LinearMemory` is what the reference document says: bytes, a length in pages,
operations that happen as a whole or trap.  `PackedMemory` is what the generated
program does: RAM words of four bytes, stores of a byte as read, mask and write,
unaligned accesses byte by byte, i64 as two words, the page count in a word of its
own, and the helpers of `memory.copy` and `memory.fill` and the clearing loop of
`memory.grow`, which take a step for every pass of their loops.  `outcome` is what
the program sees of the last operation.

*Refinement.*  A copy happens, for the program, when the helper is called; from
then on `Finally` is the memory the program will see when the helper has
returned, and every pass of the loop leaves it as it is.  This is where the
direction of the loop matters: with `Backward` never taken the first overlapping
copy changes `Finally`.

*Environment.*  RAM words that become linear memory are clear at power-on, which
the lowering relies on where no data segment covers a word (`PowerOn`, external);
those outside hold anything.  An access outside RAM halts the console, so a
guard keeps word addresses in RAM.

*Bounds.*  One word per page, one page growing to two, one word of others before
and one behind, four data images (none, empty, ending inside a word,
overlapping), operands around every boundary, negative ones included.  An i64
that is not aligned does not fit two words; the theorem covers it.

*Fairness.*  Weak fairness of the loops of a helper: the processor runs on.

*Argument.*  The bytes a helper has still to read or write lie in linear memory
(`RestInside`), overlapping ranges are walked away from the overlap, and words
between the length and the limit need nothing because growth clears them.
*Assumption:* `~Overruns`, see Findings; each of the three theorems
makes it.

### Heap and Allocations

`Allocations` is the promise of malloc: allocations never overlap one another or
the program's own data, and what the program holds changes only when the program
writes it.  `Heap` is `vircon__heap_*`, `malloc`, `calloc`, `realloc`, `free` over
a list of headers that lie in the same memory as the payloads, so that a header
written to the wrong place destroys a payload or another header in the model as
it would in the code.  Linear memory may grow under the heap's feet
(`GrowMemory`) and the program may configure the heap's range before first use.
Addresses and sizes are in units of the alignment, which is the size of a header:
rounding and the comparisons of ends are exact in units.

*Bounds.*  Pages of two units, up to four of them in a region of five, default
and configured ranges, sizes 1 to 3, contents followed unit by unit: splits, merges
on both sides, growth by whole pages and exhaustion all happen.  Overflow of a rounded
or multiplied size near 2^32 is not reached in units.

*Argument.*  Either the heap is unused or it is in service: the list is sound
(blocks in address order, adjacent, matching links, last block ending at the
next fresh address), no two neighbours are free, and everything lies above the
static data, in memory and in range.  Every function of the code is an operator
from lists to lists, with a lemma that says what it does to a sound list.
`HonoursPromise` then follows action by action.  That `calloc` clears what it
returns is part of its action, not of `Allocations`.

### Operands

`lower_expression` and what it calls, seen from the operands.  `Value` is the
struct of that name with the word that Wasm has for it; `code` is `temp_depth`
together with the words that the code emitted so far has left in temporary slots,
locals, R1 and R8.  The recursion of the lowering is the stack `frames`, and a
function is not given but decided while it is lowered: each time the lowering asks
for a child, any kind of the menu that fits may come.  So every order in which
operands can disturb one another is a behaviour.  Where the code jumps is chosen as
well; `skip` is the frame whose label it has jumped to, and until that label is
emitted the lowering goes on while the machine stands still, which is how a value
carried out of the middle of other operands is followed.  Exceeding `TEMP_SLOTS`
refuses the function, as in the code.

*Bounds.*  Functions of up to seven expressions, four temporary slots, two locals,
nine menus of eleven to thirteen kinds.  Seven expressions are an operand that waits,
one nested two levels deep that disturbs it, and the consumer; four slots are used
up by two pairs, so that refusal happens as well.  Loops are left out: what waits
at a loop header is in slots, which a back edge finds as it left them.

*Functions left out.*  Three kinds of functions are compiled wrongly and have a
name in `Special`; the run has them all absent, and adding any of the names
violates `OperandsExact`:

- `"clobbered R1"` (`lowering.c:2497-2502`, `3050-3052`, `3139-3159`): a store, a
  packed store or a bulk operation in a block whose result is wanted in R1 gets
  its own last operand in R1, and then computes an address or passes the other
  operands through R1.
- `"nested ports"` (`lowering.c:3424-3429`): a two-port import inside the second
  argument of another one overwrites R8.
- `"borrowed result"` (`lowering.c:3350-3355`): a binary CPU operation with a
  constant on the left and a local on the right stores its result into the local.

*Proved* (`OperandsProofs`).  `TypeCorrect` and `SlotsStacked` hold of every function,
those of `Special` included; `OperandsHold` assumes `Special = {}`.  All three hold for
every number of locals and of temporary slots, every menu and every size of a function.
The inductive invariant (`IInv`) says what `SlotsAccounted` alone cannot keep up, which
word each call left where:

- `Nested`: the calls on the stack are for the children that their callers wait for,
  each with the registers its caller lets it use (`Retains`), and each has kept what
  its kind keeps of the children before (`KeptAs`: a pair in two slots, R8 only for the
  first argument of two ports, R1 or a borrowed local only beside a constant).
- `Stacked`: there are bases B, one for each call, such that its operands and its result
  slot begin right above B[i] and end at B[i + 1], and `temp_depth` is where the operand
  that was given last ends.  Releasing an operand is therefore always releasing what is
  on top, and a label that stores its value finds the slot below everything that the
  code jumped out of.
- `Ordinary`: what functions without the kinds of `Special` add: no port or call while
  R8 is held, no operand in R1 for the code that uses R1 itself, no local on the right
  of a constant.
- `Exact`: the operands up to the label that the code has jumped to hold the words of
  Wasm, and so does the slot of that label hold the word the jump carried.  The operands
  above it hold nothing, and nothing is asked of them until they are released.

Every handler has a lemma, `<action>Step`.  What they share is stated once: what storing,
releasing and loading leave alone (`Keeps`), and how keeping or returning a value, leaving
a call, jumping and landing at a label re-establish the invariant (`Keeping`, `Returning`,
`Leaving`, `Jumping`, `LeavingLabel`).

### LoopVersions

The scan of a counted loop, its plan (`LoopFastPath`), the guard before the loop
and both copies, executed in step with the Wasm loop.  `machine.frame` holds the
slots; R9 and R11 hold the counter and the base while they are promoted, R10 the
limit, R12 the loaded base and R13 the word pointer.  `mode` says which copy runs; `"diverged"`
is the machine going round when Wasm does not, or the other way.

*Bounds.*  Words of five bits, memory of 16 bytes (12 when it has not grown),
the five kinds of counting, bodies of up to four statements: two accesses through
the base with every statement between them that may change a fact (exits, imports
that write memory, divisions, aliases, conditional strides), starts at 0, in the
middle and at the last addresses, and trip counts that are zero, fit or wrap.  Memory
holds a limit of 2 or 4 and a base of 4 or 8.  The stride comes last in the bodies, as
in the loops that compilers write; other orders are in `MCMovedLoops`.

*Loops left out.*  `PlainLoop` says of a loop with a plan what the code takes for
granted and does not look for.  Each of its conditions leaves out a kind of loop that
is compiled wrongly, and for each there is a set of such loops beside the instance:
with `Loops` replaced by it the run violates `UncheckedAccessesSafe` or `LocalsAgree`.

- `MCTeedLoops`: the pointer of an access assigns the local it is computed from, as
  in a stride written as `local.tee`.  `make_fast_word_pointer`
  (`lowering.c:2325-2350`) lowers the assignment and then declines because the access
  lies outside the planned range; `lower_load` (`lowering.c:2442-2443`) lowers it once
  more.
- `MCMovedLoops`: an access behind the stride.  The scan (`lowering.c:1457-1547`) takes
  accesses in any order and the guard (`lowering.c:1821-1885`) allows for one stride
  less than there are iterations, but `fast_loop_covers_access`
  (`lowering.c:2146-2158`) asks only for the identity.
- `MCCopiedLoops`: a local that is a copy of the base and is then assigned something
  else in the same body; it keeps its identity (`lowering.c:519-526`, as in
  `ReassignsAliases` of BoundsChecks).
- `MCClobberedLoops`: an import that may write memory in a loop whose base is loaded.
  Only a limit in memory is given up for such an import (`lowering.c:1703-1707`), so R12
  and R13 outlive the word they were computed from.
- `MCEarlyAliasLoops`: an alias of the loaded base that is used before its `local.tee`,
  or without it (`lowering.c:901`, `2303-2320`); it is another word then.
- `MCPromotedAliasLoops`: an alias of a loaded base in a body whose locals are promoted.
  The word of the alias is computed from the frame slot of the base
  (`lowering.c:2303-2309`), which is stale while the base is in R11.
- `MCUnloadedLoops`: the base of a loaded pointer used as a pointer itself.  Its
  identity is that of the base, so that the range planned for the loaded pointers is
  taken to cover it (`lowering.c:1900-1912`, `2146-2158`).

The first two contradict comments of the code, see Findings.

*Proved* (`LoopVersionsProofs`).  `TypeCorrect` needs no hypothesis.
`UncheckedAccessesHold` and `LocalsHold` assume `PlainLoops`: every loop with a plan is
plain.  They hold for every number of locals and statements, every width of words with
at least 16 of them, every memory of at most half as many bytes, and every way in which
it has grown.  The inductive invariant (`Inv`) has these parts.  `Agrees`: slots and
promoted registers hold the words of Wasm, and an identity says what its local holds
relative to a local that is no copy itself.  `Sourced`: what is known as a copy was made
one by a statement of this iteration.  `LimitKept` and `LoadsKept`: R10 and R12 hold
what memory still holds.  `InMemory`, while the fast copy runs: four times R13 is the
address that the base stands for, and this address, advanced by the strides that may
still come before the last access, leaves room for the whole planned range.  The guard
establishes the last part (`EnterGuard`, from an argument about the quotient that it
computes) and each way through the body spends at most one stride of it, whether the
statement with the stride is reached or not.  That the pointer tried first
(`TriedFast`) is either the right one or none is `TriedAgrees`.

### Alignment

`initialize_local_alignments`: the recursive walk over the body with its merges at
block ends, arms and loop headers, where a loop body is walked until the facts at
its header do not fall any more.  The recursion is the stack `frames`.  When the
analysis has ended the function is executed, with any parameters; `recorded` is
what a load or store at the instruction would have been told.

*Bounds.*  i32 words of three bits, facts 1, 2 and 4, functions of eight or nine
instructions: every branch out of or back into loops in blocks, conditionals in
loops, loops in loops, and chains of assignments that need several walks.

*Fairness.*  Weak fairness of the analysis, a sequence of calls that wait for
nothing.  Nothing is assumed of the execution.

*Functions left out.*  A `br_table` whose default is none of its targets
(`MCDefaults`): `lowering.c:823-837` merges facts into the targets only, and
`FactsHold` does not hold at the default.

*Proved* (`AlignmentProofs`).  Functions are any sequences of instructions whose
brackets match and whose branches name an enclosing block or loop
(`ProgramAssumption`, which is what a tree of Wasm expressions is when it is written
down in order).  `Nested` says that the frames are exactly the brackets that are
open before `pc`, and survives what the recursion does not show at a glance: code
that is left out after a branch (`Skip`), and a loop that is walked again.
`TypeCorrect` needs no more.  `RecordedFactsHold` is the correctness of the
analysis; `Solution(F)` is its invariant: F gives the facts with which the last walk
met each instruction, and along every edge out of an instruction that F knows, the
facts after it are accounted for (`Meets`) - the other end was walked with no better
facts, or is where the walk is, or the facts wait in an open frame.  A loop that is
walked again forgets what F says of its body (`Forgotten`); that this breaks no edge
is the lemma that control enters a loop at its top only (`LoopsEntered`).  When no
frame is open any more, `Solution` has become the data-flow equations (`Solved`), and
an execution follows their edges: `OutcomesFit` shows for each operator, bit by bit
for the logical ones, that `ResultOf` promises no more than the result keeps.  The
theorem assumes that a `br_table` names its default among its targets
(`DefaultsNamed`), for the reason above.  That the fixed point is found (`Analysed`)
is liveness and stays with TLC.

### WordPairs

What the code computes for integer operations that Vircon32 lacks, as
operators over its instructions, and what Wasm says, as arithmetic.  The division
helper is a loop and takes one step per bit, with the invariant of restoring
division between the steps.  All i32 operands, and pairs of nine boundary words,
at four bits; the constants 31, 32 and 63 of the code follow the width.

*SHL.*  Two comments of the code contradict each other about right shifts:
`lowering.c:3221` says they are logical, `lowering.c:4134` that they are arithmetic.
The model takes the first; the helper of the second comment masks the bit and is
right for both.

*Left out.*  `rem_s` of the least integer by -1.  Its guard (`lowering.c:4059-4061`)
compares R3 with -1 after the comparison with 0 has overwritten R3, so it never
applies, and the operation is left to `imod`.

*Proved* (`MachineWordsProofs`).  `PairsExact` is `AgreesWithWasm` for words of 4, 8, 16
and 32 bits, every operand of the i32 operations and every pair of words for the i64
operations, where the run has one width and boundary words.  The first part says that a
word is known by its bits (`SameBits`), that every choice of bits is a word (`SomeBits`),
and that what shifts leave behind meets no bit of what is put beside it, so that OR adds
it (`Joined`).  Shifts, rotations and extensions follow from this and from quotients by
powers of two.  `WordsAgree` collects the i32 operations.  For pairs, `Assembled` gives
the two words of a number modulo the square of `Modulus`, and there is one lemma for
each operation, among them the carry and the borrow (`PairAdds`, `PairSubtracts`), the
product of four half-word products (`LimbProduct`, `LowProduct`, `PairMultiplies`), the
order on pairs (`PairOrder`) and the rotations with and without an exchange of the words
(`PairTurns`);
`PairsAgree` collects them.  `AgreesWithWasm` says nothing of R1 and R2 in the middle of
a division, so its invariant is `Divides`: R2 is still the divisor, R1 is the dividend
without the bits that were brought down, and quotient and remainder are right for
these.  One step doubles the remainder and adds a bit (`BringsDown`).  The result fits
into a word because the remainder is at most what was brought down before, which lacks a
bit of the dividend, and the biased comparison decides for divisors with the sign bit as
well (`DividesOn`).

The assumption on powers in `WordPairs`, and a like one in `Alignment`, is the law of
exponents, of which the provers know nothing; it says nothing of the code.

### Frontend

`main` and its stages.  A module is what its functions call and use, its table,
globals, memory and data.  `Normalise` may drop what Binaryen's passes take for dead
(external), then `WithImageOf` puts the memory image back as the code does;
`Legalise` drops unused tables and globals; `CheckExpression`, `CheckCallee` and
`NextExpression` are the recursive walk of the validator, one expression or one callee
of it per step; `LowerFunction` collects the labels that the code
of a function needs.  Every stage may fail where the code returns early.

Lowering fails for five reasons (`Reason`), and `failedAt` tells them apart:

- `"memory"`: an allocation fails.  The limit of the control stack
  (`lowering.c:252`) counts as memory.
- `"frame"`: locals, temporary slots and outgoing arguments are more than the target can
  address (`lowering.c:4791-4801`), before anything of the body is lowered.
- `"slots"`: an expression needs more temporary slots than are left of `TEMP_SLOTS`
  (`lowering.c:430-432`).  Here that is a kind of expression; `Operands` counts the slots.
- `"operand"`: an operand leaves no value, as a branch does, and the handler returns
  without a message, which becomes "internal compiler error" (`lowering.c:4824-4859`).
- `"unsupported"`: lowering has no code for the expression.

Validation excludes only the last, which is what `SupportedOnly` says: a function that it
accepts may still be refused for each of the others.  Which of several such expressions
of a body stops the lowering is left open.

*Bounds.*  Three functions, one of which may be an import, with up to two
expressions each, table slots that are filled, empty, of the wrong type or out of
range, element and data segments of each kind, and bodies and frames beyond each of the
limits of lowering.

*Fairness.*  `WF_vars(Next)`: the driver calls one stage after another and waits
for nothing; recursive functions make `Finishes` worth asking.

*Modules left out.*  `frontend` has no expressions inside the value of a `br`.  The
validator does not visit that value: what lowering cannot translate there is found only
by the lowering, and a function that is called only there is lowered into a call of a
label that nothing defines.  With `Inputs` replaced by `MCCarriedInputs` the run violates
`SupportedOnly` and `Linked`.  Helpers are
not concerned, the search for them visits every child of an expression.

*Proved* (`FrontendProofs`).  `TypeCorrect` and `KeepsImage` hold of every module.
`CallsWhatItDefines` and `LowersOnlySupported` assume that the value of a `br` holds
neither calls nor operations without code (`PlainBranches`).  Neither says that a
validated module is lowered: slots, frames, operands without a value and memory may stop
it.  Their invariant says
what the walk owes: every callee of a function that is reachable and not on the stack
is reachable, and for a function on the stack this holds of the expressions and
table slots behind its place in it.  Recursive functions are on the stack once
(`OneWalkEach`).

## Runs

| Run | Question |
|---|---|
| `local_optimizer` | does the optimised code compute what the original computes, and is every fact the pass uses true when it is used? |
| `frame_stores` | is every store that the pass removes one that no path reads, and does the pass return? |
| `bounds_checks` | does an access whose check was omitted stay in memory, and does one that is checked trap only outside? |
| `bounds_checks_growing` | the same for a memory that grows, with several remembered ranges |
| `packed_memory` | do packed words behave as bytes, and is the RAM beside linear memory left alone? |
| `heap_blocks` | is the block list whole after any sequence of calls, does freed space serve again, and does the program keep the contents of what it holds? |
| `operands` | is every operand the word that Wasm has when the code uses it, and are temporary slots neither lost nor shared? |
| `loop_versions` | are the accesses that a fast copy does not check in memory, and do both copies do what the Wasm loop does? |
| `alignment` | are the alignment facts true of every execution, and is their fixed point found? |
| `word_pairs` | do the sequences for integer operations compute what Wasm says? |
| `frontend` | does the driver end, with a program that calls only what it defines and starts with the data of the file, and does lowering meet only what it has code for? |
| `bounds_checks_crossing` | fails: an access over the end of a memory that can grow |

Deadlock is not checked where the modelled program may stop at any time: a
compiled program ends, a heap may have nothing to free.  Every property of a run
that passes has a mutant, a plausible slip in one definition (a dropped guard, a missing reset, a
swapped direction), under which the run violates it.

## Findings

With a run, `bounds_checks_crossing`:

- *Access over the end* (`lowering.c:2197-2205`).  In a memory that can grow the
  check overwrites the width it is about to subtract: a comparison writes its
  result into its first operand.  Only the pointer itself is compared.

Reached by changing one constant of the instance of a passing run:

- `Overruns` (`lowering.c:4150-4161`): bulk operations.  The same confusion as
  above: after `ilt R1, 0` the address is gone, so a range that starts inside and
  ends outside, or lies outside as a whole, passes.  `OutsideUntouched` is violated
  in `packed_memory`.
- `AssignsOperands` (`lowering.c:2486-2505`): the pointer of a store is lowered
  before its value; when the value assigns the local the pointer was read from,
  the pointer keeps an identity that means something else.  `InBounds` is violated in
  `bounds_checks`.
- *Values of branches* (`MCCarriedInputs`, `validator.c:302-307`).  The validator does not
  visit the value of a `br`, lowering does, and there meets operations that "passed
  validation" (`lowering.c:4089`).
- *Limits that validation does not know* (`MCLimitedInputs`, `lowering.c:430-432`).
  `--validate-only` is documented as the answer to whether the code fits the profile
  (`docs/v32-wasm-reference.md:58-61`), but the temporary slots are counted by the
  lowering only; among these inputs of `frontend` are modules that pass validation and
  end with `failedAt` equal to `"slots"`.
- `ReassignsAliases` (`lowering.c:519-526`).  `q := p` makes q an alias of p.
  Assigning q a value that is no alias leaves the old one, and later checks of q
  are omitted because p was checked.
- `TrapsJustified` in `bounds_checks_growing` (`lowering.c:2172-2177`): a constant
  address is compared with the initial length and always traps in grown memory.
- `InheritsIdentities` (`lowering.c:3069-3095`, `2541-2560`, `3184-3222`): an i64
  load, a word extraction and `memory.grow` reuse the value of their operand for
  the result and with it the operand's identity.
- `ExactBounds` (`lowering.c:2090-2095`): pointer plus offset wraps before it is
  compared when the pointer is an alias.
- `MCTeedLoops` (`lowering.c:2337`).  The comment above the line promises that the
  assignment in a pointer is executed exactly once; here it is executed twice.
- `MCMovedLoops` (`lowering.c:1880-1881`).  The comment above the guard
  (`lowering.c:1821-1823`) promises that its success proves every planned access in
  every iteration; in the last one an access behind the stride is a stride further
  than the guard looked.
- `AliasedLoads`, described under FrameStores; `Special`, `MCDefaults` and the sets
  of loops of `MCLoopVersions`, described with their modules.

Read in the code and outside the models: a packed i64 store with an offset
writes its high word at the destination plus 4, without the offset
(`lowering.c:3053`).

## What is proved and what is only checked

Every invariant that a passing run checks, the action properties `LiveSetsGrow` and
`OutsideUntouched` and the two refinements are proved for every value of the constants,
under the `ASSUME`s of the modules (sizes positive, ranges nested, two lengths of
linear memory representable in a word, brackets that match) and, where a theorem
names it, the hypothesis that its component's section explains: `PlainBranches`,
`DefaultsNamed`, `PlainLoops`, `Special = {}`, `Programs`, `~Overruns` and
`~AliasedLoads`.  Each hypothesis leaves out programs that the code does get wrong, which
are listed under Findings.

Liveness (`PassReturns`, `HelpersReturn`, `Finishes`, `Analysed`) stays with TLC like
everything that depends on fairness or ENABLED.  Induction over data is outside the
prover's reach: what a recursive function computes for every input would stay with
TLC.  Well-founded induction is used where a set of counterexamples has a
least element: `Greatest` in `PackedMemoryProofs` (a set of segment numbers has a
last one), `Powers` in `AlignmentProofs` (powers of two from the second on are
multiples of four), and in `LoopVersionsProofs` for the first access of a group and for
what the scan of a body knows of aliases behind each of its statements
(`AliasesType`), and in `MachineWordsProofs` for what holds of every number of bits
(`Induction`).

## Not modelled

Floating point (the model checker has no reals), and with it the conversions and
roundings of the lowering; the console behind the hardware imports, whose ports
are one of each kind in `Operands`; the emitter's text and the diagnostics; the
translation of the external library's tree node by node, which is folded into
whether loading fails; the DWARF reader, which reads optional sections into
positions for messages and comments and changes no program; the list of IR nodes,
which only grows; tests and examples.
