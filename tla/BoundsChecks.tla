---------------------------- MODULE BoundsChecks ----------------------------
(***************************************************************************)
(* What the lowering (src/src/lowering.c) remembers about addresses while  *)
(* it emits straight-line code: which locals are another local plus a      *)
(* constant, which byte ranges an emitted check has proven, and which word *)
(* R13 points at.  A remembered range lets it omit the bounds check of a   *)
(* later load or store; a remembered pointer lets it address a word from   *)
(* R13.                                                                    *)
(*                                                                         *)
(* Each action lowers one expression and executes the code emitted for it, *)
(* so that what the compiler believes and what the machine holds are side  *)
(* by side.  There are Words words of type i32, 2^32 in the code.  The     *)
(* fast copies of versioned loops, which replace these checks by a guard,  *)
(* are not here.                                                           *)
(***************************************************************************)
EXTENDS Integers, Sequences, FiniteSets

CONSTANTS
  Local,             \* the i32 locals of the function
  Words,             \* number of i32 words
  LinearBytes,       \* VIRCON_LINEAR_MEMORY_BYTES
  InitialBytes,      \* memory_bytes, the length the module declares
  Lengths,           \* lengths linear memory may have
  MemoryCanGrow,     \* memory_can_grow
  WordBytes,         \* bytes in a word of the target, 4 in the code
  Widths,            \* widths of loads and stores
  Offsets,           \* offset immediates of loads and stores
  Literals,          \* i32.const
  Results,           \* what other expressions, and locals elsewhere, may hold
  Foreign,           \* what other code may leave in R13
  MaxChecked,        \* capacity of checked_addresses, 16 in the code
  MaxPending,        \* bound on operands that wait for the next one
  AssignsOperands,   \* may a later operand assign a local that an earlier,
                     \* waiting operand was computed from?
  ReassignsAliases,  \* may a local that is an alias of another be assigned
                     \* a value that is not an alias?
  InheritsIdentities, \* may an i64 be loaded through a pointer with an identity
                     \* and narrowed, or memory.grow be given such a value?
  CrossesEnd,        \* may an access to a memory that can grow have its pointer
                     \* in memory, or at its end, and its last byte behind it?
  None

I32 == 0 .. Words - 1
Identity == [base : Local, offset : I32]
Range == [base : Local, offset : I32, width : Nat \ {0}, mergeable : BOOLEAN]
Value == [word : I32, identity : Identity \cup {None}, immediate : BOOLEAN]
Access == [pointer : I32, offset : Nat, width : Nat, reached : Int, trapped : BOOLEAN]

ASSUME MemoryAssumption ==
  /\ Words \in Nat /\ LinearBytes \in Nat /\ 2 * LinearBytes <= Words
  /\ Lengths \subseteq 0 .. LinearBytes /\ InitialBytes \in Lengths
  /\ MemoryCanGrow \in BOOLEAN
ASSUME WidthAssumption ==
  /\ WordBytes \in Nat \ {0} /\ Words > 0
  /\ Widths \subseteq Nat \ {0} /\ Offsets \subseteq I32 /\ Literals \subseteq I32
  /\ Results \subseteq I32 /\ Foreign \subseteq I32
ASSUME LimitAssumption == MaxChecked \in Nat \ {0} /\ MaxPending \in Nat
ASSUME ProgramAssumption ==
  /\ AssignsOperands \in BOOLEAN /\ ReassignsAliases \in BOOLEAN
  /\ InheritsIdentities \in BOOLEAN /\ CrossesEnd \in BOOLEAN
ASSUME NoneAssumption == None \notin Identity \cup Range \cup Value \cup Access

VARIABLES
  alias,      \* local_address_bases, local_address_offsets
  checked,    \* checked_addresses
  cached,     \* target_word_address_*: the address of the word R13 points at
  candidate,  \* the range record_checked_address is about to insert, or None
  unvisited,  \* the entries its loop has still to look at
  value,      \* the value just lowered, or None
  pending,    \* operands evaluated and kept in temporary slots
  locals,     \* the words the locals hold
  r13,        \* the first byte of the word R13 points at
  bytes,      \* length of linear memory
  access      \* the load or store of the last step, or None

facts == <<alias, checked, cached, candidate, unvisited>>
machine == <<locals, r13, bytes>>
vars == <<facts, value, pending, machine, access>>

-----------------------------------------------------------------------------
(* Words and identities.                                                   *)

\* i32.add
Plus(a, b) == IF a + b < Words THEN a + b ELSE a + b - Words

\* i32.sub
Minus(a, b) == IF a >= b THEN a - b ELSE a - b + Words

\* A word read as a signed number.
SignedI32(w) == IF 2 * w < Words THEN w ELSE w - Words

SmallerOf(a, b) == IF a < b THEN a ELSE b
LargerOf(a, b) == IF a > b THEN a ELSE b

\* Fault: the offset of an identity is not that of a word.
ShiftedUnwrapped(i, offset) == [base |-> i.base, offset |-> i.offset + offset]

Shifted(i, offset) == [base |-> i.base, offset |-> Plus(i.offset, offset)]

\* The address that an identity stands for.
Address(i) == Plus(locals[i.base], i.offset)

Opaque(w) == [word |-> w, identity |-> None, immediate |-> FALSE]

Self == [l \in Local |-> [base |-> l, offset |-> 0]]

-----------------------------------------------------------------------------
(* Remembered ranges.                                                      *)

\* checked_identity_range
IsMergeable(i, offset, width) ==
  i.offset + offset < Words /\ i.offset + offset + width <= Words

Candidate(i, offset, width) ==
  [base |-> i.base, offset |-> Plus(i.offset, offset), width |-> width,
   mergeable |-> IsMergeable(i, offset, width)]

Covers(e, i, offset, width) ==
  /\ e.base = i.base
  /\ \/ e.offset = Plus(i.offset, offset) /\ e.width >= width
     \/ /\ e.mergeable /\ IsMergeable(i, offset, width)
        /\ i.offset + offset >= e.offset
        /\ i.offset + offset + width <= e.offset + e.width

\* checked_address_is_reusable
Reusable(p, offset, width) ==
  p.identity # None /\ \E e \in checked : Covers(e, p.identity, offset, width)

UnionStart(e, f) == SmallerOf(e.offset, f.offset)
UnionEnd(e, f) == LargerOf(e.offset + e.width, f.offset + f.width)

\* Fault: two ranges of one base are merged whatever lies between them.
CanMergeApart(e, f) == e.mergeable /\ f.mergeable /\ e.base = f.base

CanMerge(e, f) ==
  /\ e.mergeable /\ f.mergeable /\ e.base = f.base
  /\ UnionEnd(e, f) - UnionStart(e, f) <= LinearBytes

Merged(e, f) ==
  [base |-> f.base, offset |-> UnionStart(e, f),
   width |-> UnionEnd(e, f) - UnionStart(e, f), mergeable |-> TRUE]

\* No range is being inserted, and no check has failed.
Ready == candidate = None /\ (access # None => ~access.trapped)

\* record_checked_address: an entry that can be merged is taken out, another stays.
VisitRange ==
  /\ candidate # None
  /\ \E e \in unvisited :
       /\ unvisited' = unvisited \ {e}
       /\ \/ /\ CanMerge(e, candidate)
             /\ candidate' = Merged(e, candidate)
             /\ checked' = checked \ {e}
          \/ /\ ~CanMerge(e, candidate)
             /\ UNCHANGED <<candidate, checked>>
  /\ access' = None
  /\ UNCHANGED <<alias, cached, value, pending, machine>>

\* A full table is emptied first.
InsertRange ==
  /\ candidate # None /\ unvisited = {}
  /\ checked' = IF Cardinality(checked) = MaxChecked
                THEN {candidate}
                ELSE checked \cup {candidate}
  /\ candidate' = None
  /\ access' = None
  /\ UNCHANGED <<alias, cached, unvisited, value, pending, machine>>

-----------------------------------------------------------------------------
(* Expressions that compute values and assign locals.                      *)

\* local.get
GetLocal(l) ==
  /\ Ready
  /\ value' = [word |-> locals[l], identity |-> alias[l], immediate |-> FALSE]
  /\ access' = None
  /\ UNCHANGED <<facts, pending, machine>>

\* i32.const
Constant(c) ==
  /\ Ready
  /\ value' = [word |-> c, identity |-> None, immediate |-> TRUE]
  /\ access' = None
  /\ UNCHANGED <<facts, pending, machine>>

\* i32.add and i32.sub of a value that has an identity and a literal
AddConstant(c) ==
  /\ Ready /\ value # None /\ value.identity # None
  /\ value' = [word |-> Plus(value.word, c), identity |-> Shifted(value.identity, c),
               immediate |-> FALSE]
  /\ access' = None
  /\ UNCHANGED <<facts, pending, machine>>

\* The value just lowered must survive the lowering of the next operand.
Hold ==
  /\ Ready /\ value # None /\ Len(pending) < MaxPending
  /\ pending' = Append(pending, value)
  /\ value' = None
  /\ access' = None
  /\ UNCHANGED <<facts, machine>>

\* Every other expression whose code has no label and no call: it consumes
\* some operands and its value has no identity.
Compute ==
  /\ Ready
  /\ \E n \in 0 .. Len(pending), w \in Results :
       /\ pending' = SubSeq(pending, 1, n)
       /\ value' = Opaque(w)
  /\ access' = None
  /\ UNCHANGED <<facts, machine>>

Depends(v, l) == v # None /\ v.identity # None /\ v.identity.base = l
Awaited(l) == \E i \in DOMAIN pending : Depends(pending[i], l)

\* The programs under consideration.
MayAssign(l) ==
  /\ Awaited(l) => AssignsOperands
  /\ alias[l].base # l /\ (value.identity = None \/ Depends(value, l)) => ReassignsAliases

\* Fault: what was checked of the old value of l is kept.
CheckedWithoutKept(l) == checked

CheckedWithout(l) == {e \in checked : e.base # l}

\* assign_local_address_identity
AliasesAfter(l, identity) ==
  [i \in Local |-> IF i = l /\ identity # None /\ identity.base # l THEN identity
                   ELSE IF alias[i].base = l THEN Self[i]
                   ELSE alias[i]]

\* Fault: R13 is kept when the local it was computed from is assigned.
CachedWithoutKept(l) == cached

CachedWithout(l) == IF cached # None /\ cached.base = l THEN None ELSE cached

\* local.set and local.tee: the value of a tee is what the local now is.
SetLocal(l) ==
  /\ Ready /\ value # None /\ MayAssign(l)
  /\ locals' = [locals EXCEPT ![l] = value.word]
  /\ alias' = AliasesAfter(l, value.identity)
  /\ checked' = CheckedWithout(l)
  /\ cached' = CachedWithout(l)
  /\ value' = [value EXCEPT !.identity = alias'[l]]
  /\ access' = None
  /\ UNCHANGED <<candidate, unvisited, pending, r13, bytes>>

-----------------------------------------------------------------------------
(* Calls, labels and selections.                                           *)

\* Linear memory after code that may have grown it.
MayGrow == bytes' \in {b \in Lengths : b >= bytes /\ (b # bytes => MemoryCanGrow)}

\* Fault: R13 is believed to survive a call.
ForgetPointerNot == cached' = cached

ForgetPointer == cached' = None

\* A call of a generated function, of a helper, or through a table: the callee
\* uses R13 itself and may grow memory.
Call ==
  /\ Ready
  /\ \E n \in 0 .. Len(pending), w \in Results :
       /\ pending' = SubSeq(pending, 1, n)
       /\ value' = Opaque(w)
  /\ ForgetPointer
  /\ r13' \in Foreign
  /\ MayGrow
  /\ access' = None
  /\ UNCHANGED <<alias, checked, candidate, unvisited, locals>>

\* emit_label
ForgetAll ==
  /\ alias' = Self
  /\ checked' = {}
  /\ cached' = None
  /\ UNCHANGED <<candidate, unvisited>>

\* A label reached from elsewhere, or from above: other code has run, and has
\* assigned any locals, though in the programs under consideration not those
\* that an operand still waits with.
Join ==
  /\ Ready
  /\ ForgetAll
  /\ \E words \in [Local -> Results] :
       locals' = [l \in Local |-> IF Awaited(l) /\ ~AssignsOperands THEN locals[l] ELSE words[l]]
  /\ r13' \in Foreign
  /\ MayGrow
  /\ value' = None
  /\ access' = None
  /\ UNCHANGED pending

\* A saturating conversion has labels of its own but keeps R13.
Convert ==
  /\ Ready /\ value # None
  /\ alias' = Self /\ checked' = {}
  /\ \E w \in Results : value' = Opaque(w)
  /\ access' = None
  /\ UNCHANGED <<cached, candidate, unvisited, pending, machine>>

\* select: the result has the identity that both alternatives have.
Select ==
  /\ Ready /\ value # None /\ Len(pending) >= 2
  /\ LET first == pending[Len(pending) - 1]
         second == pending[Len(pending)]
         identity == IF first.identity = second.identity THEN first.identity ELSE None
     IN \E word \in {first.word, second.word} :
          value' = [word |-> word, identity |-> identity, immediate |-> FALSE]
  /\ pending' = SubSeq(pending, 1, Len(pending) - 2)
  /\ ForgetAll
  /\ access' = None
  /\ UNCHANGED machine

-----------------------------------------------------------------------------
(* Loads and stores.  An access is made through pointer p with an offset   *)
(* immediate; `aligned' says that it is an access to a word that the       *)
(* alignment analysis has proven aligned.                                  *)

Effective(p, offset) == Plus(p.word, offset)

\* Fault: the check allows the access to start anywhere in memory.
PassesByStart(p, offset, width) == p.word + offset < bytes

\* Fault: the check refuses the last byte of memory.
PassesBelowEnd(p, offset, width) == p.word + offset + width < bytes

\* The emitted check.  A fixed memory is compared with its constant length.  One
\* that can grow is compared with its length, after negative addresses: R3 holds
\* offset + width and then the result of its comparison with the length, 0 where
\* the jump to the trap is not taken, and it is this result that is subtracted
\* from the length before the address is compared with it.
Passes(p, offset, width) ==
  IF MemoryCanGrow
  THEN LET result == 0 IN
       /\ 2 * p.word < Words
       /\ offset + width <= bytes
       /\ p.word <= bytes - result
  ELSE /\ offset + width <= InitialBytes
       /\ p.word <= InitialBytes - (offset + width)

\* find_cached_word_operand
HasCachedWord(p, offset) ==
  /\ cached # None /\ p.identity # None /\ cached.base = p.identity.base
  /\ Minus(Shifted(p.identity, offset).offset, cached.offset) % WordBytes = 0

\* The byte that an access through R13 starts at.
CachedWord(p, offset) == r13 + SignedI32(Minus(Shifted(p.identity, offset).offset, cached.offset))

Reached(p, offset, aligned) ==
  IF aligned /\ HasCachedWord(p, offset) THEN CachedWord(p, offset) ELSE Effective(p, offset)

\* jmp or jt __wasm_trap
Traps(p, offset, width) ==
  /\ access' = [pointer |-> p.word, offset |-> offset, width |-> width,
                reached |-> Effective(p, offset), trapped |-> TRUE]
  /\ UNCHANGED <<facts, r13>>

\* An access to a word, or to two, that is not proven aligned tests its alignment, with labels.
\* One that is proven aligned leaves its word in R13 if R13 did not serve.
UsePointer(p, offset, width, aligned) ==
  \/ /\ width >= WordBytes /\ ~aligned
     /\ ForgetAll
     /\ UNCHANGED r13
  \/ /\ aligned /\ p.identity # None /\ ~HasCachedWord(p, offset)
     /\ r13' = Effective(p, offset)
     /\ cached' = Shifted(p.identity, offset)
     /\ UNCHANGED <<alias, checked, candidate, unvisited>>
  \/ /\ width < WordBytes \/ aligned
     /\ aligned => p.identity = None \/ HasCachedWord(p, offset)
     /\ UNCHANGED <<facts, r13>>

\* The same after a check that is worth remembering.
UseAndRecord(p, offset, width, aligned) ==
  /\ candidate' = Candidate(p.identity, offset, width)
  /\ unvisited' = IF IsMergeable(p.identity, offset, width) THEN checked ELSE {}
  /\ UNCHANGED <<alias, checked>>
  /\ IF aligned /\ ~HasCachedWord(p, offset)
     THEN r13' = Effective(p, offset) /\ cached' = Shifted(p.identity, offset)
     ELSE UNCHANGED <<cached, r13>>

Hit(p, offset, width, aligned) ==
  access' = [pointer |-> p.word, offset |-> offset, width |-> width,
             reached |-> Reached(p, offset, aligned), trapped |-> FALSE]

\* An offset beyond what memory can ever be.
TooFar(p, offset, width, aligned) ==
  /\ offset + width > LinearBytes
  /\ Traps(p, offset, width)

\* A constant address is compared with the initial length when it is lowered.
AtConstant(p, offset, width, aligned) ==
  /\ offset + width <= LinearBytes /\ p.immediate
  /\ \/ /\ p.word + offset + width > InitialBytes
        /\ Traps(p, offset, width)
     \/ /\ p.word + offset + width <= InitialBytes
        /\ Hit(p, offset, width, aligned)
        /\ UsePointer(p, offset, width, aligned)

\* The range is one that a check has already proven.
Unchecked(p, offset, width, aligned) ==
  /\ offset + width <= LinearBytes /\ ~p.immediate
  /\ Reusable(p, offset, width)
  /\ Hit(p, offset, width, aligned)
  /\ UsePointer(p, offset, width, aligned)

Crosses(p, offset, width) ==
  MemoryCanGrow /\ p.word <= bytes /\ offset + width <= bytes
  /\ p.word + offset + width > bytes

Checked(p, offset, width, aligned) ==
  /\ offset + width <= LinearBytes /\ ~p.immediate
  /\ ~Reusable(p, offset, width)
  /\ Crosses(p, offset, width) => CrossesEnd
  /\ \/ /\ ~Passes(p, offset, width)
        /\ Traps(p, offset, width)
     \/ /\ Passes(p, offset, width)
        /\ Hit(p, offset, width, aligned)
        /\ IF p.identity = None \/ (width >= WordBytes /\ ~aligned)
           THEN UsePointer(p, offset, width, aligned)
           ELSE UseAndRecord(p, offset, width, aligned)

\* effective_address and the access that follows it
AccessThrough(p, widths) ==
  \E offset \in Offsets, width \in widths, aligned \in BOOLEAN :
    /\ aligned => width = WordBytes /\ Effective(p, offset) % WordBytes = 0
    /\ \/ TooFar(p, offset, width, aligned)
       \/ AtConstant(p, offset, width, aligned)
       \/ Unchecked(p, offset, width, aligned)
       \/ Checked(p, offset, width, aligned)

\* lower_load
Load ==
  /\ Ready /\ value # None
  /\ AccessThrough(value, Widths)
  /\ \E w \in Results : value' = Opaque(w)
  /\ UNCHANGED <<pending, locals, bytes>>

\* The result is kept where the operand was, as a value that still has the
\* identity of the operand.
Overwrite ==
  /\ value.identity # None => InheritsIdentities
  /\ \E w \in Results : value' = [value EXCEPT !.word = w, !.immediate = FALSE]

\* lower_i64_word_extract
ExtractWord ==
  /\ Ready /\ value # None
  /\ AccessThrough(value, {2 * WordBytes})
  /\ Overwrite
  /\ UNCHANGED <<pending, locals, bytes>>

\* lower_memory_grow
GrowMemory ==
  /\ Ready /\ value # None
  /\ ForgetAll
  /\ MayGrow
  /\ Overwrite
  /\ access' = None
  /\ UNCHANGED <<pending, locals, r13>>

\* lower_store: the pointer was lowered before the value.
Store ==
  /\ Ready /\ value # None /\ pending # <<>>
  /\ AccessThrough(pending[Len(pending)], Widths)
  /\ pending' = SubSeq(pending, 1, Len(pending) - 1)
  /\ value' = None
  /\ UNCHANGED <<locals, bytes>>

-----------------------------------------------------------------------------
Init ==
  /\ alias = Self
  /\ checked = {}
  /\ cached = None
  /\ candidate = None
  /\ unvisited = {}
  /\ value = None
  /\ pending = <<>>
  /\ locals \in [Local -> Results]
  /\ r13 \in Foreign
  /\ bytes = InitialBytes
  /\ access = None

Next ==
  \/ \E l \in Local : GetLocal(l) \/ SetLocal(l)
  \/ \E c \in Literals : Constant(c) \/ AddConstant(c)
  \/ Hold
  \/ Compute
  \/ Call
  \/ Join
  \/ Convert
  \/ Select
  \/ Load
  \/ ExtractWord
  \/ GrowMemory
  \/ Store
  \/ VisitRange
  \/ InsertRange

Spec == Init /\ [][Next]_vars

-----------------------------------------------------------------------------
(* Properties.                                                             *)

TypeOK ==
  /\ alias \in [Local -> Identity]
  /\ checked \in SUBSET Range
  /\ cached \in Identity \cup {None}
  /\ candidate \in Range \cup {None}
  /\ unvisited \in SUBSET Range
  /\ value \in Value \cup {None}
  /\ pending \in Seq(Value)
  /\ locals \in [Local -> I32]
  /\ r13 \in I32
  /\ bytes \in Lengths
  /\ access \in Access \cup {None}

Proven(e) == Plus(locals[e.base], e.offset) + e.width <= bytes

\* What the lowering remembers is true of the machine: an alias is the sum it
\* says (local_address_bases), every remembered range lies in linear memory as
\* the locals are now (checked_addresses), and R13 points at the word it is
\* recorded to point at (target_word_address_offset).
AliasesHold == \A l \in Local : locals[l] = Address(alias[l])
RangesHold == \A e \in checked \cup ({candidate} \ {None}) : Proven(e)
PointerHolds == cached # None => r13 = Address(cached)
FactsHold == AliasesHold /\ RangesHold /\ PointerHolds

Hits == access # None /\ ~access.trapped

\* An access that does not trap touches only bytes of linear memory, whether
\* its own check was emitted or omitted (effective_address).
InBounds == Hits => access.reached >= 0 /\ access.reached + access.width <= bytes

\* An access that does not trap starts at the byte its pointer and its offset
\* immediate add up to, through R2 or through R13 (find_cached_word_operand).
RightAddress == Hits => access.reached = Plus(access.pointer, access.offset)

\* An access traps only when its last byte lies outside linear memory: the
\* checks refuse nothing that Wasm allows (effective_address).
TrapsJustified ==
  access # None /\ access.trapped => access.pointer + access.offset + access.width > bytes

\* The effective address of an access that does not trap is the sum of its
\* pointer and its offset immediate, not that sum modulo 2^32
\* (docs/v32-wasm-reference.md on the offset immediate).
ExactBounds == Hits => access.pointer + access.offset + access.width <= bytes
=============================================================================
