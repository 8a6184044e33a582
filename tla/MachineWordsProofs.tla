------------------------- MODULE MachineWordsProofs -------------------------
(***************************************************************************)
(* What the lowering relies on when it works with i32 words of the         *)
(* machine.  Their definitions are disjoint:                               *)
(*                                                                         *)
(* - BoundsChecks: in programs that assign no local while an operand       *)
(*   computed from it waits, never assign an alias a value that is not     *)
(*   one, and neither narrow an i64 loaded through a pointer with an       *)
(*   identity nor grow memory by a value with one, every access that does  *)
(*   not trap touches only linear memory and the right bytes of it, for    *)
(*   every number of locals, every word size and every length of memory;   *)
(*                                                                         *)
(* - WordPairs: the sequences for operations that Vircon32 does not have   *)
(*   compute what Wasm says, for every width of a word, up to that of the  *)
(*   code, and every operand.                                              *)
(***************************************************************************)
EXTENDS BoundsChecks, WordPairs, WellFoundedInduction, TLAPS

-----------------------------------------------------------------------------
(* BoundsChecks: the class of programs.                                    *)

Programs ==
  /\ AssignsOperands = FALSE
  /\ ReassignsAliases = FALSE
  /\ InheritsIdentities = FALSE
  /\ CrossesEnd = FALSE

-----------------------------------------------------------------------------
(* The inductive invariant of BoundsChecks.                                *)

Holds(v) == v.identity # None => v.word = Address(v.identity)

ValuesHold ==
  /\ value # None => Holds(value)
  /\ \A i \in DOMAIN pending : Holds(pending[i])

Fits(e) == e.mergeable => e.offset + e.width <= Words

Good(e) == Proven(e) /\ Fits(e)

TableGood ==
  /\ \A e \in checked : Good(e)
  /\ candidate # None => Good(candidate)
  /\ unvisited \subseteq checked
  /\ candidate = None => unvisited = {}

PointerGood == cached # None => r13 = Address(cached) /\ r13 < bytes

LengthGood == bytes >= InitialBytes /\ (MemoryCanGrow = FALSE => bytes = InitialBytes)

AccessGood ==
  access # None =>
    IF access.trapped
    THEN MemoryCanGrow = FALSE => access.pointer + access.offset + access.width > bytes
    ELSE /\ access.reached >= 0
         /\ access.reached + access.width <= bytes
         /\ access.reached = Plus(access.pointer, access.offset)

Inv ==
  /\ TypeOK
  /\ ValuesHold
  /\ AliasesHold
  /\ TableGood
  /\ PointerGood
  /\ LengthGood
  /\ AccessGood

-----------------------------------------------------------------------------
(* Words.                                                                  *)

\* Wrapping addition stays in the words.
LEMMA PlusIsWord ==
  ASSUME NEW a \in I32, NEW b \in I32
  PROVE  Plus(a, b) \in I32
BY MemoryAssumption, WidthAssumption DEF Plus, I32

\* Adding two constants one after the other is adding their sum.
LEMMA PlusTwice ==
  ASSUME NEW a \in I32, NEW b \in I32, NEW c \in I32
  PROVE  Plus(Plus(a, b), c) = Plus(a, Plus(b, c))
BY MemoryAssumption, WidthAssumption DEF Plus, I32

\* Zero is a word that adds nothing.
LEMMA PlusZero ==
  ASSUME NEW a \in I32
  PROVE  0 \in I32 /\ Plus(a, 0) = a
BY MemoryAssumption, WidthAssumption DEF Plus, I32

LEMMA AddressIsWord ==
  ASSUME TypeOK, NEW i \in Identity
  PROVE  Address(i) \in I32
BY PlusIsWord DEF TypeOK, Address, Identity

\* A shifted identity stands for the shifted address.
LEMMA ShiftedAddress ==
  ASSUME TypeOK, NEW i \in Identity, NEW c \in I32
  PROVE  /\ Shifted(i, c) \in Identity
         /\ Address(Shifted(i, c)) = Plus(Address(i), c)
<1>1. Plus(i.offset, c) \in I32
  BY PlusIsWord DEF Identity
<1>2. i.base \in Local /\ i.offset \in I32 /\ locals[i.base] \in I32
  BY DEF Identity, TypeOK
<1>3. Shifted(i, c) \in Identity
  BY <1>1, <1>2 DEF Shifted, Identity
<1>4. Address(Shifted(i, c)) = Plus(locals[i.base], Plus(i.offset, c))
  BY DEF Shifted, Address
<1> QED
  BY <1>2, <1>3, <1>4, PlusTwice DEF Address

\* Every local stands for itself.
LEMMA SelfAddress ==
  ASSUME TypeOK, NEW l \in Local
  PROVE  Self[l] \in Identity /\ Self[l].base = l /\ Address(Self[l]) = locals[l]
<1>1. locals[l] \in I32
  BY DEF TypeOK
<1>2. Self[l] = [base |-> l, offset |-> 0]
  BY DEF Self
<1> QED
  BY <1>1, <1>2, PlusZero DEF Identity, Address

-----------------------------------------------------------------------------
(* Remembered ranges.                                                      *)

\* An access that a proven range covers lies in memory.
LEMMA CoveredIsProven ==
  ASSUME TypeOK, NEW e \in Range, Good(e),
         NEW i \in Identity, NEW offset \in I32, NEW width \in Nat,
         Covers(e, i, offset, width)
  PROVE  Plus(Address(i), offset) + width <= bytes
<1> DEFINE B == locals[e.base]
<1>1. B \in I32 /\ e.offset \in I32 /\ e.width \in Nat /\ i.offset \in I32 /\ i.base = e.base
      /\ bytes \in Nat /\ bytes <= Words /\ bytes <= LinearBytes
  BY MemoryAssumption DEF TypeOK, Range, Identity, Covers
<1>2. Plus(Address(i), offset) = Plus(B, Plus(i.offset, offset))
  BY <1>1, PlusTwice DEF Address
<1>3. Plus(B, e.offset) + e.width <= bytes
  BY DEF Good, Proven
<1>4. CASE e.offset = Plus(i.offset, offset) /\ e.width >= width
  <2> HIDE DEF B
  <2>0. Plus(B, e.offset) \in I32
    BY <1>1, PlusIsWord
  <2>1. Plus(B, e.offset) \in Nat
    BY <2>0 DEF I32
  <2> QED
    BY <1>1, <1>2, <1>3, <1>4, <2>1
<1>5. CASE /\ e.mergeable /\ IsMergeable(i, offset, width)
           /\ i.offset + offset >= e.offset
           /\ i.offset + offset + width <= e.offset + e.width
  <2> DEFINE s == i.offset + offset
  <2>1. s \in I32 /\ Plus(i.offset, offset) = s
    BY <1>1, <1>5, MemoryAssumption DEF IsMergeable, Plus, I32
  <2>2. e.offset + e.width <= Words
    BY <1>5 DEF Good, Fits
  <2>3. s >= e.offset /\ s + width <= e.offset + e.width
    BY <1>5
  <2> HIDE DEF s, B
  <2>4. Plus(B, s) + width <= bytes
    BY <1>1, <1>3, <2>1, <2>2, <2>3, MemoryAssumption DEF Plus, I32
  <2> QED
    BY <1>2, <2>1, <2>4
<1> QED
  BY <1>4, <1>5 DEF Covers

\* The union of two proven ranges that is no longer than memory can be is
\* proven: between them no sum wraps.
LEMMA MergedIsGood ==
  ASSUME TypeOK, NEW e \in Range, NEW f \in Range, Good(e), Good(f), CanMerge(e, f)
  PROVE  Merged(e, f) \in Range /\ Good(Merged(e, f))
<1> DEFINE B == locals[f.base]
           s == UnionStart(e, f)
           t == UnionEnd(e, f)
<1>1. /\ B \in I32 /\ e.offset \in I32 /\ f.offset \in I32
      /\ e.width \in Nat \ {0} /\ f.width \in Nat \ {0} /\ e.base = f.base
      /\ bytes \in Nat /\ bytes <= LinearBytes /\ f.base \in Local
  BY MemoryAssumption DEF TypeOK, Range, CanMerge
<1>2. Plus(B, e.offset) + e.width <= bytes /\ Plus(B, f.offset) + f.width <= bytes
  BY <1>1 DEF Good, Proven
<1>3. e.offset + e.width <= Words /\ f.offset + f.width <= Words
  BY DEF Good, Fits, CanMerge
<1>4. /\ s \in I32 /\ s <= e.offset /\ s <= f.offset /\ (s = e.offset \/ s = f.offset)
      /\ t \in Nat /\ t >= e.offset + e.width /\ t >= f.offset + f.width
      /\ t = e.offset + e.width \/ t = f.offset + f.width
      /\ t <= Words /\ t - s \in Nat \ {0}
  BY <1>1, <1>3, MemoryAssumption DEF UnionStart, UnionEnd, SmallerOf, LargerOf, I32
<1>5. t - s <= LinearBytes
  BY DEF CanMerge
<1>6. Plus(B, s) + (t - s) <= bytes
  <2> HIDE DEF B, s, t
  <2> QED
    BY <1>1, <1>2, <1>3, <1>4, <1>5, MemoryAssumption DEF Plus, I32
<1>7. Merged(e, f) = [base |-> f.base, offset |-> s, width |-> t - s, mergeable |-> TRUE]
  BY DEF Merged
<1> HIDE DEF B, s, t
<1>8. Merged(e, f) \in Range
  BY <1>1, <1>4, <1>7 DEF Range
<1>9. Proven(Merged(e, f))
  BY <1>6, <1>7 DEF Proven, B
<1>10. s + (t - s) <= Words
  BY <1>4 DEF I32
<1> QED
  BY <1>7, <1>8, <1>9, <1>10 DEF Good, Fits

\* A check that passed proves the range it is recorded as.
LEMMA CandidateIsGood ==
  ASSUME TypeOK, NEW i \in Identity, NEW offset \in I32, NEW width \in Nat \ {0},
         Plus(Address(i), offset) + width <= bytes
  PROVE  Candidate(i, offset, width) \in Range /\ Good(Candidate(i, offset, width))
<1> DEFINE c == Candidate(i, offset, width)
<1>1. c = [base |-> i.base, offset |-> Plus(i.offset, offset), width |-> width,
           mergeable |-> IsMergeable(i, offset, width)]
  BY DEF Candidate
<1>2. i.base \in Local /\ i.offset \in I32 /\ locals[i.base] \in I32
  BY DEF TypeOK, Identity
<1>3. Plus(i.offset, offset) \in I32
  BY <1>2, PlusIsWord
<1>4. IsMergeable(i, offset, width) \in BOOLEAN
  BY DEF IsMergeable
<1>5. c \in Range
  BY <1>1, <1>2, <1>3, <1>4 DEF Range
<1>6. Plus(locals[i.base], Plus(i.offset, offset)) = Plus(Address(i), offset)
  BY <1>2, PlusTwice DEF Address
<1>7. Proven(c)
  BY <1>1, <1>6 DEF Proven
<1>8. IsMergeable(i, offset, width) => Plus(i.offset, offset) + width <= Words
  BY <1>2, MemoryAssumption DEF IsMergeable, Plus, I32
<1> QED
  BY <1>1, <1>5, <1>7, <1>8 DEF Good, Fits

-----------------------------------------------------------------------------
(* The pointer in R13.                                                     *)

\* Two addresses in memory that differ by the difference of their offsets, as
\* words, differ by the signed difference.
LEMMA PointerReaches ==
  ASSUME NEW b \in I32, NEW from \in I32, NEW to \in I32, NEW n \in Nat, 2 * n <= Words,
         Plus(b, from) < n, Plus(b, to) < n
  PROVE  Plus(b, from) + SignedI32(Minus(to, from)) = Plus(b, to)
BY MemoryAssumption DEF Plus, Minus, SignedI32, I32

-----------------------------------------------------------------------------
(* What an action leaves alone keeps its invariant.                        *)

FactsTyped ==
  /\ alias \in [Local -> Identity] /\ checked \in SUBSET Range
  /\ cached \in Identity \cup {None} /\ candidate \in Range \cup {None}
  /\ unvisited \in SUBSET Range

MachineTyped == locals \in [Local -> I32] /\ r13 \in I32 /\ bytes \in Lengths

ValuesTyped == value \in Value \cup {None} /\ pending \in Seq(Value)

\* Everything but the values under evaluation.
Base ==
  /\ FactsTyped /\ MachineTyped /\ access \in Access \cup {None}
  /\ AliasesHold /\ TableGood /\ PointerGood /\ LengthGood /\ AccessGood

LEMMA InvParts == Inv <=> Base /\ ValuesTyped /\ ValuesHold
BY DEF Inv, Base, TypeOK, FactsTyped, MachineTyped, ValuesTyped

LEMMA InvPartsNext == Inv' <=> Base' /\ ValuesTyped' /\ ValuesHold'
BY DEF Inv, Base, TypeOK, FactsTyped, MachineTyped, ValuesTyped

\* Expressions that touch neither facts nor machine.
LEMMA BaseKept ==
  ASSUME Base, UNCHANGED <<facts, machine>>, access' = None
  PROVE  Base'
<1> USE DEF facts, machine
<1>1. FactsTyped' /\ MachineTyped' /\ (access \in Access \cup {None})'
  BY DEF Base, FactsTyped, MachineTyped
<1>2. AliasesHold'
  BY DEF Base, AliasesHold, Address
<1>3. TableGood'
  BY DEF Base, TableGood, Good, Proven, Fits
<1>4. PointerGood' /\ LengthGood' /\ AccessGood'
  BY DEF Base, PointerGood, LengthGood, AccessGood, Address
<1> QED
  BY <1>1, <1>2, <1>3, <1>4 DEF Base

\* The operands that remain when the topmost are consumed.
LEMMA Consumed ==
  ASSUME ValuesTyped, ValuesHold, NEW n \in 0 .. Len(pending),
         pending' = SubSeq(pending, 1, n), UNCHANGED locals
  PROVE  /\ pending' \in Seq(Value)
         /\ \A i \in DOMAIN pending' : Holds(pending[i])'
<1>1. pending \in Seq(Value)
  BY DEF ValuesTyped
<1>2. pending' \in Seq(Value) /\ Len(pending') = n
  BY <1>1
<1>3. ASSUME NEW i \in DOMAIN pending'
      PROVE  Holds(pending[i])'
  <2>1. i \in DOMAIN pending /\ pending'[i] = pending[i]
    BY <1>1, <1>2, <1>3
  <2> QED
    BY <2>1 DEF ValuesHold, Holds, Address
<1> QED
  BY <1>2, <1>3

\* A value without identity says nothing.
LEMMA OpaqueHolds ==
  ASSUME NEW w \in Results, value' = Opaque(w)
  PROVE  value' \in Value \cup {None} /\ (value' # None => Holds(value)')
<1>1. w \in I32
  BY WidthAssumption
<1> QED
  BY <1>1 DEF Opaque, Value, Holds

-----------------------------------------------------------------------------
(* Expressions that compute values.                                        *)

LEMMA GetLocalStep ==
  ASSUME Inv, NEW l \in Local, GetLocal(l)
  PROVE  Inv'
<1>1. Base /\ ValuesTyped /\ ValuesHold
  BY InvParts
<1>2. Base'
  BY <1>1, BaseKept DEF GetLocal
<1>3. locals[l] \in I32 /\ alias[l] \in Identity
  BY <1>1 DEF Base, FactsTyped, MachineTyped
<1>4. ValuesTyped'
  BY <1>1, <1>3 DEF GetLocal, ValuesTyped, Value
<1>5. UNCHANGED <<locals, pending>>
  BY DEF GetLocal, machine
<1>6. Holds(value)'
  BY <1>1, <1>5 DEF GetLocal, Holds, Address, Base, AliasesHold
<1>7. ValuesHold'
  BY <1>1, <1>5, <1>6 DEF ValuesHold, Holds, Address
<1> QED
  BY <1>2, <1>4, <1>7, InvPartsNext

LEMMA ConstantStep ==
  ASSUME Inv, NEW c \in Literals, Constant(c)
  PROVE  Inv'
<1>1. Base /\ ValuesTyped /\ ValuesHold
  BY InvParts
<1>2. Base'
  BY <1>1, BaseKept DEF Constant
<1>3. ValuesTyped'
  BY <1>1, WidthAssumption DEF Constant, ValuesTyped, Value
<1>4. ValuesHold'
  BY <1>1 DEF Constant, ValuesHold, Holds, Address, machine
<1> QED
  BY <1>2, <1>3, <1>4, InvPartsNext

LEMMA AddConstantStep ==
  ASSUME Inv, NEW c \in Literals, AddConstant(c)
  PROVE  Inv'
<1>1. Base /\ ValuesTyped /\ ValuesHold /\ TypeOK
  BY InvParts DEF Inv
<1>2. Base'
  BY <1>1, BaseKept DEF AddConstant
<1>3. c \in I32 /\ value \in Value /\ value.identity \in Identity
      /\ value.word = Address(value.identity)
  BY <1>1, WidthAssumption DEF AddConstant, ValuesTyped, Value, ValuesHold, Holds
<1>4. /\ Shifted(value.identity, c) \in Identity
      /\ Address(Shifted(value.identity, c)) = Plus(value.word, c)
  BY <1>1, <1>3, ShiftedAddress
<1>5. Plus(value.word, c) \in I32
  BY <1>3, PlusIsWord DEF Value
<1>6. ValuesTyped'
  BY <1>1, <1>4, <1>5 DEF AddConstant, ValuesTyped, Value
<1>7. UNCHANGED <<locals, pending>>
  BY DEF AddConstant, machine
<1>8. Holds(value)'
  BY <1>4, <1>7 DEF AddConstant, Holds, Address
<1>9. ValuesHold'
  BY <1>1, <1>7, <1>8 DEF ValuesHold, Holds, Address
<1> QED
  BY <1>2, <1>6, <1>9, InvPartsNext

LEMMA HoldStep ==
  ASSUME Inv, Hold
  PROVE  Inv'
<1>1. Base /\ ValuesTyped /\ ValuesHold
  BY InvParts
<1>2. Base'
  BY <1>1, BaseKept DEF Hold
<1>3. value \in Value /\ pending \in Seq(Value) /\ Holds(value)
  BY <1>1 DEF Hold, ValuesTyped, ValuesHold
<1>4. pending' = Append(pending, value) /\ value' = None /\ locals' = locals
  BY DEF Hold, machine
<1>5. ValuesTyped'
  BY <1>3, <1>4 DEF ValuesTyped
<1>6. ASSUME NEW i \in DOMAIN pending'
      PROVE  Holds(pending[i])'
  <2>1. (i \in DOMAIN pending /\ pending'[i] = pending[i]) \/ pending'[i] = value
    BY <1>3, <1>4
  <2> QED
    BY <1>1, <1>3, <1>4, <2>1 DEF ValuesHold, Holds, Address
<1>7. ValuesHold'
  BY <1>4, <1>6 DEF ValuesHold
<1> QED
  BY <1>2, <1>5, <1>7, InvPartsNext

LEMMA ComputeStep ==
  ASSUME Inv, Compute
  PROVE  Inv'
<1>1. Base /\ ValuesTyped /\ ValuesHold
  BY InvParts
<1>2. Base'
  BY <1>1, BaseKept DEF Compute
<1>3. PICK n \in 0 .. Len(pending), w \in Results :
        pending' = SubSeq(pending, 1, n) /\ value' = Opaque(w)
  BY DEF Compute
<1>4. locals' = locals
  BY DEF Compute, machine
<1>5. pending' \in Seq(Value) /\ \A i \in DOMAIN pending' : Holds(pending[i])'
  BY <1>1, <1>3, <1>4, Consumed
<1>6. value' \in Value \cup {None} /\ (value' # None => Holds(value)')
  BY <1>3, OpaqueHolds
<1> QED
  BY <1>2, <1>5, <1>6, InvPartsNext DEF ValuesTyped, ValuesHold

-----------------------------------------------------------------------------
(* Assignments, calls, labels and selections.                              *)

\* The assignments that the programs under consideration make.
LEMMA AllowedAssignment ==
  ASSUME Programs, NEW l \in Local, MayAssign(l), value # None
  PROVE  /\ \A i \in DOMAIN pending : pending[i] # None /\ pending[i].identity # None
                                       => pending[i].identity.base # l
         /\ alias[l].base # l => value.identity # None /\ value.identity.base # l
BY DEF Programs, MayAssign, Awaited, Depends

LEMMA SetLocalStep ==
  ASSUME Inv, Programs, NEW l \in Local, SetLocal(l)
  PROVE  Inv'
<1>1. Base /\ ValuesTyped /\ ValuesHold /\ TypeOK
  BY InvParts DEF Inv
<1>2. /\ value \in Value /\ value # None /\ MayAssign(l)
      /\ locals' = [locals EXCEPT ![l] = value.word]
      /\ alias' = AliasesAfter(l, value.identity)
      /\ checked' = CheckedWithout(l)
      /\ cached' = CachedWithout(l)
      /\ value' = [value EXCEPT !.identity = alias'[l]]
      /\ access' = None
      /\ UNCHANGED <<candidate, unvisited, pending, r13, bytes>>
      /\ candidate = None
  BY <1>1 DEF SetLocal, ValuesTyped, Ready
<1>3. /\ alias \in [Local -> Identity] /\ locals \in [Local -> I32] /\ value.word \in I32
      /\ value.identity \in Identity \cup {None}
  BY <1>1, <1>2 DEF TypeOK, Value
<1>4. locals' \in [Local -> I32] /\ locals'[l] = value.word
      /\ \A i \in Local : i # l => locals'[i] = locals[i]
  BY <1>2, <1>3
<1>5. \A i \in Identity : i.base # l => Address(i)' = Address(i)
  BY <1>4 DEF Address, Identity
<1>6. \A i \in Local : Self[i] \in Identity /\ Self[i].base = i /\ Self[i].offset = 0
  BY <1>1, SelfAddress DEF Self
<1>7. alias' \in [Local -> Identity]
  BY <1>2, <1>3, <1>6 DEF AliasesAfter
<1>8. ASSUME NEW i \in Local
      PROVE  locals'[i] = Address(alias[i])'
  <2>1. CASE i = l /\ value.identity # None /\ value.identity.base # l
    <3>1. alias'[i] = value.identity
      BY <1>2, <2>1 DEF AliasesAfter
    <3>2. value.word = Address(value.identity)
      BY <1>1, <1>2, <2>1 DEF ValuesHold, Holds
    <3>3. Plus(locals'[value.identity.base], value.identity.offset) = Address(value.identity)
      BY <1>3, <1>5, <2>1 DEF Address
    <3> QED
      BY <1>4, <2>1, <3>1, <3>2, <3>3 DEF Address
  <2>2. CASE alias[i].base = l /\ ~(i = l /\ value.identity # None /\ value.identity.base # l)
    <3>1. alias'[i] = Self[i]
      BY <1>2, <2>2 DEF AliasesAfter
    <3>2. Plus(locals'[i], 0) = locals'[i]
      BY <1>4, PlusZero
    <3> QED
      BY <1>6, <3>1, <3>2 DEF Address
  <2>3. CASE alias[i].base # l /\ ~(i = l /\ value.identity # None /\ value.identity.base # l)
    <3>1. alias'[i] = alias[i]
      BY <1>2, <2>3 DEF AliasesAfter
    <3>2. i # l
      BY <1>2, <2>3, AllowedAssignment
    <3>3. locals[i] = Address(alias[i]) /\ alias[i] \in Identity
      BY <1>1, <1>3 DEF Base, AliasesHold
    <3> QED
      BY <1>4, <1>5, <2>3, <3>1, <3>2, <3>3 DEF Address
  <2> QED
    BY <2>1, <2>2, <2>3
<1>9. AliasesHold'
  BY <1>8 DEF AliasesHold
<1>10. ASSUME NEW e \in checked'
       PROVE  e \in checked /\ Good(e)'
  <2>1. e \in checked /\ e.base # l /\ e \in Range
    BY <1>1, <1>2 DEF CheckedWithout, TypeOK
  <2>2. Good(e) /\ locals'[e.base] = locals[e.base]
    BY <1>1, <1>4, <2>1 DEF Base, TableGood, Range
  <2> QED
    BY <1>2, <2>1, <2>2 DEF Good, Proven, Fits
<1>11. TableGood'
  BY <1>1, <1>2, <1>10 DEF Base, TableGood
<1>12. PointerGood'
  <2>1. CASE cached' = None
    BY <2>1 DEF PointerGood
  <2>2. CASE cached' = cached /\ cached # None /\ cached.base # l
    <3>1. cached \in Identity
      BY <1>1, <2>2 DEF TypeOK
    <3> QED
      BY <1>1, <1>2, <1>5, <2>2, <3>1 DEF Base, PointerGood, Address
  <2> QED
    BY <1>2, <2>1, <2>2 DEF CachedWithout
<1>13. FactsTyped' /\ MachineTyped'
  BY <1>1, <1>2, <1>4, <1>7 DEF TypeOK, FactsTyped, MachineTyped, CheckedWithout, CachedWithout
<1>14. Base'
  BY <1>1, <1>2, <1>9, <1>11, <1>12, <1>13 DEF Base, LengthGood, AccessGood
<1>15. ValuesTyped'
  BY <1>1, <1>2, <1>3, <1>7 DEF ValuesTyped, Value
<1>16. Holds(value)'
  BY <1>2, <1>4, <1>8 DEF Holds, Address
<1>17. ASSUME NEW i \in DOMAIN pending
       PROVE  Holds(pending[i])'
  <2>1. pending[i] \in Value /\ Holds(pending[i])
    BY <1>1 DEF ValuesTyped, ValuesHold
  <2>2. pending[i] # None
    BY <2>1, NoneAssumption
  <2>3. pending[i].identity # None => pending[i].identity.base # l
    BY <1>2, <2>2, AllowedAssignment
  <2>4. pending[i].identity # None => pending[i].identity \in Identity
    BY <2>1 DEF Value
  <2> QED
    BY <1>2, <1>5, <2>1, <2>3, <2>4 DEF Holds, Address
<1>18. ValuesHold'
  BY <1>2, <1>16, <1>17 DEF ValuesHold
<1> QED
  BY <1>14, <1>15, <1>18, InvPartsNext

\* Memory that has grown, or not, holds what it held.
LEMMA Grown ==
  ASSUME TypeOK, LengthGood, MayGrow
  PROVE  bytes' \in Lengths /\ bytes \in Nat /\ bytes' \in Nat /\ bytes' >= bytes /\ LengthGood'
BY MemoryAssumption DEF TypeOK, LengthGood, MayGrow

LEMMA CallStep ==
  ASSUME Inv, Call
  PROVE  Inv'
<1>1. Base /\ ValuesTyped /\ ValuesHold /\ TypeOK
  BY InvParts DEF Inv
<1>2. PICK n \in 0 .. Len(pending), w \in Results :
        pending' = SubSeq(pending, 1, n) /\ value' = Opaque(w)
  BY DEF Call
<1>3. /\ UNCHANGED <<alias, checked, candidate, unvisited, locals>>
      /\ cached' = None /\ access' = None /\ r13' \in I32
  BY WidthAssumption DEF Call, ForgetPointer
<1>4. bytes' \in Lengths /\ bytes \in Nat /\ bytes' \in Nat /\ bytes' >= bytes /\ LengthGood'
  BY <1>1, Grown DEF Call, Base
<1>5. pending' \in Seq(Value) /\ \A i \in DOMAIN pending' : Holds(pending[i])'
  BY <1>1, <1>2, <1>3, Consumed
<1>6. value' \in Value \cup {None} /\ (value' # None => Holds(value)')
  BY <1>2, OpaqueHolds
<1>7. FactsTyped' /\ MachineTyped'
  BY <1>1, <1>3, <1>4 DEF TypeOK, FactsTyped, MachineTyped
<1>8. AliasesHold'
  BY <1>1, <1>3 DEF Base, AliasesHold, Address
<1>9. ASSUME NEW e \in Range, Good(e)
      PROVE  Good(e)'
  <2>1. Plus(locals[e.base], e.offset) \in I32 /\ e.width \in Nat
    BY <1>1, PlusIsWord DEF TypeOK, Range
  <2>2. Plus(locals[e.base], e.offset) \in Nat
    BY <2>1 DEF I32
  <2>3. Plus(locals[e.base], e.offset) + e.width <= bytes /\ Fits(e)
    BY <1>9 DEF Good, Proven
  <2>4. Plus(locals[e.base], e.offset) + e.width <= bytes'
    BY <1>4, <2>1, <2>2, <2>3
  <2> QED
    BY <1>3, <2>3, <2>4 DEF Good, Proven
<1>10. TableGood'
  BY <1>1, <1>3, <1>9 DEF Base, TableGood, TypeOK
<1>11. Base'
  BY <1>3, <1>4, <1>7, <1>8, <1>10 DEF Base, PointerGood, AccessGood
<1> QED
  BY <1>5, <1>6, <1>11, InvPartsNext DEF ValuesTyped, ValuesHold

\* After a label nothing is remembered.
LEMMA Forgotten ==
  ASSUME TypeOK, TableGood, candidate = None, ForgetAll, access' = None,
         MachineTyped', LengthGood'
  PROVE  Base'
<1>1. alias' = Self /\ checked' = {} /\ cached' = None /\ candidate' = None /\ unvisited' = {}
  BY DEF ForgetAll, TableGood
<1>2. \A l \in Local : Self[l] \in Identity
  BY SelfAddress
<1>3. Self \in [Local -> Identity]
  BY <1>2 DEF Self
<1>4. FactsTyped'
  BY <1>1, <1>3 DEF FactsTyped
<1>5. ASSUME NEW l \in Local
      PROVE  locals'[l] = Address(alias[l])'
  <2>1. locals'[l] \in I32 /\ alias'[l] = [base |-> l, offset |-> 0]
    BY <1>1 DEF MachineTyped, Self
  <2> QED
    BY <2>1, PlusZero DEF Address
<1>6. AliasesHold' /\ TableGood' /\ PointerGood' /\ AccessGood'
  BY <1>1, <1>5 DEF AliasesHold, TableGood, PointerGood, AccessGood
<1> QED
  BY <1>4, <1>6 DEF Base

LEMMA JoinStep ==
  ASSUME Inv, Programs, Join
  PROVE  Inv'
<1>1. Base /\ ValuesTyped /\ ValuesHold /\ TypeOK /\ TableGood /\ LengthGood
  BY InvParts DEF Inv
<1>2. PICK words \in [Local -> Results] :
        locals' = [l \in Local |-> IF Awaited(l) /\ ~AssignsOperands THEN locals[l] ELSE words[l]]
  BY DEF Join
<1>3. /\ candidate = None /\ ForgetAll /\ access' = None /\ value' = None
      /\ pending' = pending /\ r13' \in I32
  BY WidthAssumption DEF Join, Ready
<1>4. locals' \in [Local -> I32]
  BY <1>1, <1>2, WidthAssumption DEF TypeOK
<1>5. bytes' \in Lengths /\ LengthGood'
  BY <1>1, Grown DEF Join
<1>6. Base'
  BY <1>1, <1>3, <1>4, <1>5, Forgotten DEF MachineTyped
<1>7. ASSUME NEW i \in DOMAIN pending
      PROVE  Holds(pending[i])'
  <2>1. pending[i] \in Value /\ Holds(pending[i])
    BY <1>1 DEF ValuesTyped, ValuesHold
  <2>2. CASE pending[i].identity = None
    BY <1>3, <2>2 DEF Holds
  <2>3. CASE pending[i].identity # None
    <3>1. pending[i].identity.base \in Local
      BY <2>1, <2>3 DEF Value, Identity
    <3>2. Awaited(pending[i].identity.base)
      BY <2>1, <2>3, NoneAssumption DEF Awaited, Depends
    <3>3. locals'[pending[i].identity.base] = locals[pending[i].identity.base]
      BY <1>2, <3>1, <3>2 DEF Programs
    <3> QED
      BY <1>3, <2>1, <3>3 DEF Holds, Address
  <2> QED
    BY <2>2, <2>3
<1> QED
  BY <1>1, <1>3, <1>6, <1>7, InvPartsNext DEF ValuesTyped, ValuesHold

LEMMA ConvertStep ==
  ASSUME Inv, Convert
  PROVE  Inv'
<1>1. Base /\ ValuesTyped /\ ValuesHold /\ TypeOK /\ TableGood
  BY InvParts DEF Inv
<1>2. PICK w \in Results : value' = Opaque(w)
  BY DEF Convert
<1>3. /\ alias' = Self /\ checked' = {} /\ access' = None /\ candidate = None
      /\ UNCHANGED <<cached, candidate, unvisited, pending, locals, r13, bytes>>
  BY DEF Convert, machine, Ready
<1>4. \A l \in Local : Self[l] \in Identity /\ Address(Self[l]) = locals[l]
  BY <1>1, SelfAddress
<1>5. Self \in [Local -> Identity]
  BY <1>4 DEF Self
<1>6. FactsTyped' /\ MachineTyped'
  BY <1>1, <1>3, <1>5 DEF TypeOK, FactsTyped, MachineTyped
<1>7. AliasesHold'
  BY <1>3, <1>4 DEF AliasesHold, Address
<1>8. TableGood' /\ PointerGood' /\ LengthGood' /\ AccessGood'
  BY <1>1, <1>3 DEF Base, TableGood, PointerGood, LengthGood, AccessGood, Address
<1>9. Base'
  BY <1>3, <1>6, <1>7, <1>8 DEF Base
<1>10. value' \in Value \cup {None} /\ (value' # None => Holds(value)')
  BY <1>2, OpaqueHolds
<1>11. \A i \in DOMAIN pending' : Holds(pending[i])'
  BY <1>1, <1>3 DEF ValuesHold, Holds, Address
<1> QED
  BY <1>1, <1>3, <1>9, <1>10, <1>11, InvPartsNext DEF ValuesTyped, ValuesHold

LEMMA SelectStep ==
  ASSUME Inv, Select
  PROVE  Inv'
<1>1. Base /\ ValuesTyped /\ ValuesHold /\ TypeOK /\ TableGood /\ LengthGood
  BY InvParts DEF Inv
<1> DEFINE first == pending[Len(pending) - 1]
           second == pending[Len(pending)]
           identity == IF first.identity = second.identity THEN first.identity ELSE None
<1>2. PICK word \in {first.word, second.word} :
        value' = [word |-> word, identity |-> identity, immediate |-> FALSE]
  BY DEF Select
<1>3. /\ candidate = None /\ ForgetAll /\ access' = None /\ Len(pending) >= 2
      /\ pending' = SubSeq(pending, 1, Len(pending) - 2)
      /\ UNCHANGED <<locals, r13, bytes>>
  BY DEF Select, machine, Ready
<1>4. Len(pending) - 2 \in 0 .. Len(pending)
  BY <1>1, <1>3 DEF ValuesTyped
<1>5. first \in Value /\ second \in Value /\ Holds(first) /\ Holds(second)
  <2>1. Len(pending) - 1 \in DOMAIN pending /\ Len(pending) \in DOMAIN pending
    BY <1>1, <1>3 DEF ValuesTyped
  <2> QED
    BY <1>1, <2>1 DEF ValuesTyped, ValuesHold
<1>6. Base'
  <2>1. MachineTyped' /\ LengthGood'
    BY <1>1, <1>3 DEF TypeOK, MachineTyped, LengthGood
  <2> QED
    BY <1>1, <1>3, <2>1, Forgotten
<1>7. pending' \in Seq(Value) /\ \A i \in DOMAIN pending' : Holds(pending[i])'
  BY <1>1, <1>3, <1>4, Consumed
<1> HIDE DEF first, second
<1>8. value' \in Value
  BY <1>2, <1>5 DEF Value
<1>9. Holds(value)'
  BY <1>2, <1>3, <1>5 DEF Holds, Address
<1> QED
  BY <1>6, <1>7, <1>8, <1>9, InvPartsNext DEF ValuesTyped, ValuesHold

-----------------------------------------------------------------------------
(* Loads and stores.                                                       *)

\* What an access through a pointer leaves of the invariant.
AccessKeeps == FactsTyped' /\ MachineTyped' /\ (access \in Access \cup {None})'
               /\ AliasesHold' /\ TableGood' /\ PointerGood' /\ AccessGood'

\* An access that traps changes nothing else.
LEMMA TrapKeeps ==
  ASSUME Base, TypeOK, NEW v \in Value, NEW offset \in Offsets, NEW width \in Nat \ {0},
         Traps(v, offset, width), UNCHANGED <<locals, bytes>>,
         MemoryCanGrow = FALSE => v.word + offset + width > bytes
  PROVE  AccessKeeps
<1>1. UNCHANGED <<alias, checked, cached, candidate, unvisited, r13, locals, bytes>>
  BY DEF Traps, facts
<1>2. access' = [pointer |-> v.word, offset |-> offset, width |-> width,
                 reached |-> Effective(v, offset), trapped |-> TRUE]
  BY DEF Traps
<1>3. v.word \in I32 /\ offset \in I32 /\ offset \in Nat /\ width \in Nat
  BY WidthAssumption DEF Value, I32
<1>4. Effective(v, offset) \in I32
  BY <1>3, PlusIsWord DEF Effective
<1>5. access' \in Access
  BY <1>2, <1>3, <1>4 DEF Access, I32
<1>6. FactsTyped' /\ MachineTyped'
  BY <1>1 DEF TypeOK, FactsTyped, MachineTyped
<1>7. AliasesHold' /\ TableGood' /\ PointerGood'
  BY <1>1 DEF Base, AliasesHold, TableGood, PointerGood, Good, Proven, Fits, Address
<1>8. AccessGood'
  BY <1>1, <1>2 DEF AccessGood
<1> QED
  BY <1>5, <1>6, <1>7, <1>8 DEF AccessKeeps

\* An access whose bytes lie in memory reaches them, through R13 or not.
LEMMA HitReaches ==
  ASSUME Base, TypeOK, NEW v \in Value, Holds(v),
         NEW offset \in Offsets, NEW width \in Nat \ {0}, NEW aligned \in BOOLEAN,
         Effective(v, offset) + width <= bytes
  PROVE  /\ Effective(v, offset) \in I32 /\ Effective(v, offset) < bytes
         /\ Reached(v, offset, aligned) = Effective(v, offset)
<1>1. v.word \in I32 /\ offset \in I32 /\ width \in Nat \ {0} /\ bytes \in Nat
      /\ bytes <= LinearBytes
  BY WidthAssumption, MemoryAssumption DEF Value, TypeOK
<1>2. Effective(v, offset) \in I32
  BY <1>1, PlusIsWord DEF Effective
<1>3. Effective(v, offset) < bytes
  BY <1>1, <1>2 DEF I32
<1>4. CASE HasCachedWord(v, offset)
  <2> DEFINE b == locals[cached.base]
             to == Plus(v.identity.offset, offset)
  <2>1. cached \in Identity /\ v.identity \in Identity /\ v.identity.base = cached.base
    BY <1>4 DEF HasCachedWord, TypeOK, Value
  <2>2. b \in I32 /\ cached.offset \in I32 /\ v.identity.offset \in I32
    BY <2>1 DEF TypeOK, Identity
  <2>3. to \in I32
    BY <1>1, <2>2, PlusIsWord
  <2>4. r13 = Plus(b, cached.offset) /\ r13 < bytes
    BY <1>4 DEF Base, PointerGood, HasCachedWord, Address
  <2>5. v.word = Plus(b, v.identity.offset)
    BY <1>4, <2>1 DEF Holds, HasCachedWord, Address
  <2>6. Effective(v, offset) = Plus(b, to)
    BY <1>1, <2>2, <2>5, PlusTwice DEF Effective
  <2>7. CachedWord(v, offset) = r13 + SignedI32(Minus(to, cached.offset))
    BY DEF CachedWord, Shifted
  <2>8. 2 * bytes <= Words
    BY <1>1, MemoryAssumption
  <2> HIDE DEF b, to
  <2>9. CachedWord(v, offset) = Effective(v, offset)
    BY <1>1, <1>3, <2>2, <2>3, <2>4, <2>6, <2>7, <2>8, PointerReaches
  <2> QED
    BY <1>2, <1>3, <2>9 DEF Reached
<1>5. CASE ~HasCachedWord(v, offset)
  BY <1>2, <1>3, <1>5 DEF Reached
<1> QED
  BY <1>4, <1>5

\* What UsePointer and UseAndRecord may do to the facts.
LEMMA UseKeeps ==
  ASSUME Base, TypeOK, NEW v \in Value, Holds(v), candidate = None,
         NEW offset \in Offsets, NEW width \in Nat \ {0}, NEW aligned \in BOOLEAN,
         Effective(v, offset) + width <= bytes, UNCHANGED <<locals, bytes>>,
         Hit(v, offset, width, aligned),
         \/ UsePointer(v, offset, width, aligned)
         \/ v.identity # None /\ UseAndRecord(v, offset, width, aligned)
  PROVE  AccessKeeps
<1>1. /\ Effective(v, offset) \in I32 /\ Effective(v, offset) < bytes
      /\ Reached(v, offset, aligned) = Effective(v, offset)
  BY HitReaches
<1>2. v.word \in I32 /\ offset \in I32 /\ width \in Nat \ {0}
      /\ v.identity \in Identity \cup {None}
  BY WidthAssumption DEF Value
<1>3. access' = [pointer |-> v.word, offset |-> offset, width |-> width,
                 reached |-> Effective(v, offset), trapped |-> FALSE]
  BY <1>1 DEF Hit
<1>4. access' \in Access
  BY <1>1, <1>2, <1>3 DEF Access, I32
<1>5. AccessGood'
  <2>1. Effective(v, offset) = Plus(v.word, offset) /\ Effective(v, offset) >= 0
    BY <1>1 DEF Effective, I32
  <2> QED
    BY <1>3, <2>1 DEF AccessGood
<1>6. ASSUME v.identity # None
      PROVE  /\ v.identity \in Identity
             /\ Shifted(v.identity, offset) \in Identity
             /\ Address(Shifted(v.identity, offset)) = Effective(v, offset)
             /\ Plus(Address(v.identity), offset) + width <= bytes
  BY <1>2, <1>6, ShiftedAddress DEF Holds, Effective
<1>7. MachineTyped'
  BY <1>1 DEF TypeOK, MachineTyped, UsePointer, UseAndRecord, facts
<1>8. CASE ForgetAll /\ r13' = r13
  <2>1. alias' = Self /\ checked' = {} /\ cached' = None /\ candidate' = None /\ unvisited' = {}
    BY <1>8 DEF ForgetAll, Base, TableGood
  <2>2. \A l \in Local : Self[l] \in Identity /\ Address(Self[l]) = locals[l]
    BY SelfAddress
  <2>3. Self \in [Local -> Identity]
    BY <2>2 DEF Self
  <2>4. FactsTyped' /\ TableGood' /\ PointerGood'
    BY <2>1, <2>3 DEF FactsTyped, TableGood, PointerGood
  <2>5. AliasesHold'
    BY <2>1, <2>2 DEF AliasesHold, Address
  <2> QED
    BY <1>4, <1>5, <1>7, <2>4, <2>5 DEF AccessKeeps
<1>9. CASE /\ UNCHANGED <<alias, checked, candidate, unvisited>>
           /\ \/ UNCHANGED <<cached, r13>>
              \/ /\ v.identity # None /\ r13' = Effective(v, offset)
                 /\ cached' = Shifted(v.identity, offset)
  <2>1. FactsTyped'
    BY <1>6, <1>9 DEF TypeOK, FactsTyped
  <2>2. AliasesHold' /\ TableGood'
    BY <1>9 DEF Base, AliasesHold, TableGood, Good, Proven, Fits, Address
  <2>3. PointerGood'
    BY <1>1, <1>6, <1>9 DEF Base, PointerGood, Address
  <2> QED
    BY <1>4, <1>5, <1>7, <2>1, <2>2, <2>3 DEF AccessKeeps
<1>10. CASE v.identity # None /\ UseAndRecord(v, offset, width, aligned)
  <2>1. /\ candidate' = Candidate(v.identity, offset, width)
        /\ unvisited' \subseteq checked
        /\ UNCHANGED <<alias, checked>>
        /\ \/ UNCHANGED <<cached, r13>>
           \/ r13' = Effective(v, offset) /\ cached' = Shifted(v.identity, offset)
    BY <1>10 DEF UseAndRecord
  <2>2. candidate' \in Range /\ Good(Candidate(v.identity, offset, width))
    BY <1>2, <1>6, <1>10, <2>1, CandidateIsGood
  <2>3. candidate' # None
    BY <2>2, NoneAssumption
  <2>4. FactsTyped'
    BY <1>6, <1>10, <2>1, <2>2 DEF TypeOK, FactsTyped
  <2>5. AliasesHold'
    BY <2>1 DEF Base, AliasesHold, Address
  <2>6. Good(candidate)'
    BY <2>1, <2>2 DEF Good, Proven, Fits
  <2>7. TableGood'
    BY <2>1, <2>3, <2>6 DEF Base, TableGood, Good, Proven, Fits
  <2>8. PointerGood'
    BY <1>1, <1>6, <1>10, <2>1 DEF Base, PointerGood, Address
  <2> QED
    BY <1>4, <1>5, <1>7, <2>4, <2>5, <2>7, <2>8 DEF AccessKeeps
<1> QED
  BY <1>8, <1>9, <1>10 DEF UsePointer, facts

\* Whether the access is refused, reuses a check or is checked.
LEMMA AccessStep ==
  ASSUME CrossesEnd = FALSE, Base, TypeOK, NEW v \in Value, Holds(v), candidate = None,
         NEW widths \in SUBSET (Nat \ {0}),
         AccessThrough(v, widths), UNCHANGED <<locals, bytes>>
  PROVE  AccessKeeps
<1>1. PICK offset \in Offsets, width \in widths, aligned \in BOOLEAN :
        \/ TooFar(v, offset, width, aligned)
        \/ AtConstant(v, offset, width, aligned)
        \/ Unchecked(v, offset, width, aligned)
        \/ Checked(v, offset, width, aligned)
  BY DEF AccessThrough
<1>2. v.word \in I32 /\ offset \in I32 /\ width \in Nat \ {0} /\ v.word \in Nat /\ offset \in Nat
  BY WidthAssumption DEF Value, I32
<1>3. /\ bytes \in Nat /\ bytes <= LinearBytes /\ LinearBytes \in Nat /\ InitialBytes \in Nat
      /\ InitialBytes <= bytes /\ (MemoryCanGrow = FALSE => bytes = InitialBytes)
      /\ bytes <= Words /\ Words \in Nat
  BY MemoryAssumption DEF TypeOK, Base, LengthGood
<1>4. v.word + offset + width <= bytes => Effective(v, offset) + width <= bytes
  <2>1. \A a, o \in Nat, w \in Nat \ {0} : a + o + w <= bytes => a + o < Words
    BY <1>3
  <2> QED
    BY <1>2, <1>3, <2>1 DEF Effective, Plus
<1>5. CASE TooFar(v, offset, width, aligned)
  <2>1. v.word + offset + width > bytes
    BY <1>2, <1>3, <1>5 DEF TooFar
  <2> QED
    BY <1>5, <2>1, TrapKeeps DEF TooFar
<1>6. CASE AtConstant(v, offset, width, aligned)
  <2>1. CASE v.word + offset + width > InitialBytes /\ Traps(v, offset, width)
    BY <1>3, <2>1, TrapKeeps
  <2>2. CASE /\ v.word + offset + width <= InitialBytes /\ Hit(v, offset, width, aligned)
             /\ UsePointer(v, offset, width, aligned)
    <3>1. Effective(v, offset) + width <= bytes
      BY <1>2, <1>3, <1>4, <2>2
    <3> QED
      BY <2>2, <3>1, UseKeeps
  <2> QED
    BY <1>6, <2>1, <2>2 DEF AtConstant
<1>7. CASE Unchecked(v, offset, width, aligned)
  <2>1. v.identity \in Identity /\ v.word = Address(v.identity)
    BY <1>7 DEF Unchecked, Reusable, Value, Holds
  <2>2. PICK e \in checked : Covers(e, v.identity, offset, width)
    BY <1>7 DEF Unchecked, Reusable
  <2>3. e \in Range /\ Good(e)
    BY DEF TypeOK, Base, TableGood
  <2>4. Plus(Address(v.identity), offset) + width <= bytes
    BY <1>2, <2>1, <2>2, <2>3, CoveredIsProven
  <2>5. Effective(v, offset) + width <= bytes
    BY <2>1, <2>4 DEF Effective
  <2> QED
    BY <1>7, <2>5, UseKeeps DEF Unchecked
<1>8. CASE Checked(v, offset, width, aligned)
  <2>1. CASE ~Passes(v, offset, width) /\ Traps(v, offset, width)
    <3>1. MemoryCanGrow = FALSE => v.word + offset + width > bytes
      BY <1>2, <1>3, <2>1 DEF Passes
    <3> QED
      BY <2>1, <3>1, TrapKeeps
  <2>2. CASE /\ Passes(v, offset, width) /\ Hit(v, offset, width, aligned)
             /\ IF v.identity = None \/ (width >= WordBytes /\ ~aligned)
                THEN UsePointer(v, offset, width, aligned)
                ELSE UseAndRecord(v, offset, width, aligned)
    <3>0. ~Crosses(v, offset, width)
      BY <1>8 DEF Checked
    <3>1. v.word + offset + width <= bytes
      BY <1>2, <1>3, <2>2, <3>0, MemoryAssumption DEF Passes, Crosses
    <3>2. Effective(v, offset) + width <= bytes
      BY <1>4, <3>1
    <3> QED
      BY <2>2, <3>2, UseKeeps
  <2> QED
    BY <1>8, <2>1, <2>2 DEF Checked
<1> QED
  BY <1>1, <1>5, <1>6, <1>7, <1>8

LEMMA LoadStep ==
  ASSUME Inv, Programs, Load
  PROVE  Inv'
<1>1. Base /\ ValuesTyped /\ ValuesHold /\ TypeOK
  BY InvParts DEF Inv
<1>2. /\ value \in Value /\ Holds(value) /\ candidate = None /\ AccessThrough(value, Widths)
      /\ UNCHANGED <<pending, locals, bytes>>
  BY <1>1 DEF Load, Ready, ValuesTyped, ValuesHold
<1>3. AccessKeeps
  BY <1>1, <1>2, AccessStep, WidthAssumption DEF Programs
<1>4. PICK w \in Results : value' = Opaque(w)
  BY DEF Load
<1>5. value' \in Value \cup {None} /\ (value' # None => Holds(value)')
  BY <1>4, OpaqueHolds
<1>6. \A i \in DOMAIN pending' : Holds(pending[i])'
  BY <1>1, <1>2 DEF ValuesHold, Holds, Address
<1>7. Base'
  BY <1>1, <1>2, <1>3 DEF AccessKeeps, Base, LengthGood
<1> QED
  BY <1>1, <1>2, <1>5, <1>6, <1>7, InvPartsNext DEF ValuesTyped, ValuesHold

\* In the programs under consideration the operand that is overwritten has no
\* identity.
LEMMA Overwritten ==
  ASSUME Programs, value \in Value, Overwrite
  PROVE  value' \in Value /\ Holds(value)'
<1>1. PICK w \in Results : value' = [value EXCEPT !.word = w, !.immediate = FALSE]
  BY DEF Overwrite
<1>2. w \in I32
  BY WidthAssumption
<1>3. value' \in Value /\ value'.identity = None
  BY <1>1, <1>2 DEF Value, Overwrite, Programs
<1> QED
  BY <1>3 DEF Holds

LEMMA ExtractWordStep ==
  ASSUME Inv, Programs, ExtractWord
  PROVE  Inv'
<1>1. Base /\ ValuesTyped /\ ValuesHold /\ TypeOK
  BY InvParts DEF Inv
<1>2. /\ value \in Value /\ Holds(value) /\ candidate = None /\ Overwrite
      /\ AccessThrough(value, {2 * WordBytes}) /\ UNCHANGED <<pending, locals, bytes>>
  BY <1>1 DEF ExtractWord, Ready, ValuesTyped, ValuesHold
<1>3. {2 * WordBytes} \in SUBSET (Nat \ {0})
  BY WidthAssumption
<1>4. AccessKeeps
  BY <1>1, <1>2, <1>3, AccessStep DEF Programs
<1>5. value' \in Value /\ Holds(value)'
  BY <1>2, Overwritten
<1>6. \A i \in DOMAIN pending' : Holds(pending[i])'
  BY <1>1, <1>2 DEF ValuesHold, Holds, Address
<1>7. Base'
  BY <1>1, <1>2, <1>4 DEF AccessKeeps, Base, LengthGood
<1> QED
  BY <1>1, <1>2, <1>5, <1>6, <1>7, InvPartsNext DEF ValuesTyped, ValuesHold

LEMMA GrowMemoryStep ==
  ASSUME Inv, Programs, GrowMemory
  PROVE  Inv'
<1>1. Base /\ ValuesTyped /\ ValuesHold /\ TypeOK /\ TableGood /\ LengthGood
  BY InvParts DEF Inv
<1>2. /\ value \in Value /\ candidate = None /\ ForgetAll /\ Overwrite /\ access' = None
      /\ UNCHANGED <<pending, locals, r13>>
  BY <1>1 DEF GrowMemory, Ready, ValuesTyped
<1>3. bytes' \in Lengths /\ LengthGood'
  BY <1>1, Grown DEF GrowMemory
<1>4. Base'
  BY <1>1, <1>2, <1>3, Forgotten DEF MachineTyped, TypeOK
<1>5. value' \in Value /\ Holds(value)'
  BY <1>2, Overwritten
<1>6. \A i \in DOMAIN pending' : Holds(pending[i])'
  BY <1>1, <1>2 DEF ValuesHold, Holds, Address
<1> QED
  BY <1>1, <1>2, <1>4, <1>5, <1>6, InvPartsNext DEF ValuesTyped, ValuesHold

LEMMA StoreStep ==
  ASSUME Inv, Programs, Store
  PROVE  Inv'
<1>1. Base /\ ValuesTyped /\ ValuesHold /\ TypeOK
  BY InvParts DEF Inv
<1>2. /\ candidate = None /\ AccessThrough(pending[Len(pending)], Widths) /\ pending # <<>>
      /\ pending' = SubSeq(pending, 1, Len(pending) - 1)
      /\ value' = None /\ UNCHANGED <<locals, bytes>>
  BY DEF Store, Ready
<1>3. Len(pending) \in DOMAIN pending /\ Len(pending) - 1 \in 0 .. Len(pending)
  BY <1>1, <1>2 DEF ValuesTyped
<1>4. pending[Len(pending)] \in Value /\ Holds(pending[Len(pending)])
  BY <1>1, <1>3 DEF ValuesTyped, ValuesHold
<1>5. AccessKeeps
  BY <1>1, <1>2, <1>4, AccessStep, WidthAssumption DEF Programs
<1>6. pending' \in Seq(Value) /\ \A i \in DOMAIN pending' : Holds(pending[i])'
  BY <1>1, <1>2, <1>3, Consumed
<1>7. Base'
  BY <1>1, <1>2, <1>5 DEF AccessKeeps, Base, LengthGood
<1> QED
  BY <1>2, <1>6, <1>7, InvPartsNext DEF ValuesTyped, ValuesHold

-----------------------------------------------------------------------------
(* Recording a range.                                                      *)

LEMMA VisitRangeStep ==
  ASSUME Inv, VisitRange
  PROVE  Inv'
<1>1. Base /\ ValuesTyped /\ ValuesHold /\ TypeOK
  BY InvParts DEF Inv
<1>2. /\ candidate # None /\ access' = None
      /\ UNCHANGED <<alias, cached, value, pending, locals, r13, bytes>>
  BY DEF VisitRange, machine
<1>3. PICK e \in unvisited :
        /\ unvisited' = unvisited \ {e}
        /\ \/ CanMerge(e, candidate) /\ candidate' = Merged(e, candidate) /\ checked' = checked \ {e}
           \/ UNCHANGED <<candidate, checked>>
  BY DEF VisitRange
<1>4. e \in Range /\ candidate \in Range /\ Good(e) /\ Good(candidate)
  BY <1>1, <1>2 DEF TypeOK, Base, TableGood
<1>5. candidate' \in Range /\ Good(candidate')
  BY <1>1, <1>3, <1>4, MergedIsGood
<1>6. candidate' # None
  BY <1>5, NoneAssumption
<1>7. Good(candidate)'
  BY <1>2, <1>5 DEF Good, Proven, Fits
<1>8. TableGood'
  BY <1>1, <1>2, <1>3, <1>6, <1>7 DEF Base, TableGood, Good, Proven, Fits
<1>9. FactsTyped' /\ MachineTyped'
  BY <1>1, <1>2, <1>3, <1>5 DEF TypeOK, FactsTyped, MachineTyped
<1>10. AliasesHold' /\ PointerGood' /\ LengthGood' /\ AccessGood'
  BY <1>1, <1>2 DEF Base, AliasesHold, PointerGood, LengthGood, AccessGood, Address
<1>11. ValuesTyped' /\ ValuesHold'
  BY <1>1, <1>2 DEF ValuesTyped, ValuesHold, Holds, Address
<1> QED
  BY <1>2, <1>8, <1>9, <1>10, <1>11, InvPartsNext DEF Base

LEMMA InsertRangeStep ==
  ASSUME Inv, InsertRange
  PROVE  Inv'
<1>1. Base /\ ValuesTyped /\ ValuesHold /\ TypeOK
  BY InvParts DEF Inv
<1>2. /\ candidate # None /\ access' = None /\ unvisited = {} /\ candidate' = None
      /\ checked' \subseteq checked \cup {candidate}
      /\ UNCHANGED <<alias, cached, unvisited, value, pending, locals, r13, bytes>>
  BY DEF InsertRange, machine
<1>3. TableGood'
  BY <1>1, <1>2 DEF Base, TableGood, Good, Proven, Fits
<1>4. FactsTyped' /\ MachineTyped'
  BY <1>1, <1>2 DEF TypeOK, FactsTyped, MachineTyped
<1>5. AliasesHold' /\ PointerGood' /\ LengthGood' /\ AccessGood'
  BY <1>1, <1>2 DEF Base, AliasesHold, PointerGood, LengthGood, AccessGood, Address
<1>6. ValuesTyped' /\ ValuesHold'
  BY <1>1, <1>2 DEF ValuesTyped, ValuesHold, Holds, Address
<1> QED
  BY <1>2, <1>3, <1>4, <1>5, <1>6, InvPartsNext DEF Base

-----------------------------------------------------------------------------
(* The theorems.                                                           *)

LEMMA InitInv == Init => Inv
<1> SUFFICES ASSUME Init PROVE Inv
  OBVIOUS
<1> USE DEF Init
<1>1. locals \in [Local -> I32] /\ r13 \in I32 /\ bytes \in Lengths
  BY MemoryAssumption, WidthAssumption
<1>2. \A l \in Local : Self[l] \in Identity
  BY PlusZero, WidthAssumption, MemoryAssumption DEF Self, Identity, I32
<1>3. Self \in [Local -> Identity]
  BY <1>2 DEF Self
<1>4. TypeOK
  BY <1>1, <1>3 DEF TypeOK
<1>5. AliasesHold
  BY <1>4, SelfAddress DEF AliasesHold
<1>6. ValuesHold /\ TableGood /\ PointerGood /\ AccessGood
  BY DEF ValuesHold, TableGood, PointerGood, AccessGood
<1>7. LengthGood
  BY MemoryAssumption DEF LengthGood
<1> QED
  BY <1>4, <1>5, <1>6, <1>7 DEF Inv

LEMMA NextInv ==
  ASSUME Programs
  PROVE  Inv /\ [Next]_vars => Inv'
<1> SUFFICES ASSUME Inv, [Next]_vars PROVE Inv'
  OBVIOUS
<1>1. CASE \E l \in Local : GetLocal(l) \/ SetLocal(l)
  BY <1>1, GetLocalStep, SetLocalStep
<1>2. CASE \E c \in Literals : Constant(c) \/ AddConstant(c)
  BY <1>2, ConstantStep, AddConstantStep
<1>3. CASE Hold \/ Compute \/ Call \/ Join
  BY <1>3, HoldStep, ComputeStep, CallStep, JoinStep
<1>4. CASE Convert \/ Select \/ Load \/ Store
  BY <1>4, ConvertStep, SelectStep, LoadStep, StoreStep
<1>5. CASE VisitRange \/ InsertRange \/ ExtractWord \/ GrowMemory
  BY <1>5, VisitRangeStep, InsertRangeStep, ExtractWordStep, GrowMemoryStep
<1>6. CASE UNCHANGED vars
  <2> USE <1>6 DEF vars, facts, machine
  <2>1. Base /\ ValuesTyped /\ ValuesHold
    BY InvParts
  <2>2. Base'
    BY <2>1 DEF Base, FactsTyped, MachineTyped, AliasesHold, TableGood, PointerGood,
                LengthGood, AccessGood, Good, Proven, Fits, Address
  <2>3. ValuesTyped' /\ ValuesHold'
    BY <2>1 DEF ValuesTyped, ValuesHold, Holds, Address
  <2> QED
    BY <2>2, <2>3, InvPartsNext
<1> QED
  BY <1>1, <1>2, <1>3, <1>4, <1>5, <1>6 DEF Next

\* The invariant holds of every program in the class.
THEOREM Invariance ==
  ASSUME Programs
  PROVE  Spec => []Inv
<1>1. Init => Inv
  BY InitInv
<1>2. Inv /\ [Next]_vars => Inv'
  BY NextInv
<1> QED
  BY <1>1, <1>2, PTL DEF Spec

\* The facts of the lowering, the operands and the machine keep their types.
THEOREM TypeCorrect ==
  ASSUME Programs
  PROVE  Spec => []TypeOK
<1>1. Inv => TypeOK
  BY DEF Inv
<1> QED
  BY <1>1, Invariance, PTL

\* Aliases, checked ranges and the pointer in R13 are true of the machine, after
\* any sequence of assignments, calls, labels, checks and merges of checks.
THEOREM RememberedFactsHold ==
  ASSUME Programs
  PROVE  Spec => []FactsHold
<1>1. Inv => FactsHold
  BY DEF Inv, FactsHold, RangesHold, TableGood, PointerGood, PointerHolds, Good
<1> QED
  BY <1>1, Invariance, PTL

\* No load or store that the lowering leaves unchecked, or checks, touches
\* anything outside linear memory.
THEOREM MemorySafe ==
  ASSUME Programs
  PROVE  Spec => []InBounds
<1>1. Inv => InBounds
  BY DEF Inv, InBounds, AccessGood, Hits
<1> QED
  BY <1>1, Invariance, PTL

\* Loads and stores through R13 touch the bytes that the pointer names.
THEOREM AddressesRight ==
  ASSUME Programs
  PROVE  Spec => []RightAddress
<1>1. Inv => RightAddress
  BY DEF Inv, RightAddress, AccessGood, Hits
<1> QED
  BY <1>1, Invariance, PTL

\* In a memory of fixed length no check refuses what Wasm allows.
THEOREM OnlyJustifiedTraps ==
  ASSUME Programs, MemoryCanGrow = FALSE
  PROVE  Spec => []TrapsJustified
<1>1. Inv => TrapsJustified
  BY DEF Inv, TrapsJustified, AccessGood
<1> QED
  BY <1>1, Invariance, PTL

-----------------------------------------------------------------------------
(* WordPairs: powers of two.                                                *)

LEMMA Induction ==
  ASSUME NEW S, 0 \in S, \A n \in Nat : n \in S => n + 1 \in S
  PROVE  Nat \subseteq S
<1> DEFINE T == {n \in Nat : n \notin S}
           R == OpToRel(<, Nat)
<1>1. SUFFICES ASSUME T # {}
               PROVE  FALSE
  OBVIOUS
<1>2. IsWellFoundedOn(R, Nat)
  BY NatLessThanWellFounded
<1>3. \A i, j \in Nat : <<j, i>> \in R <=> j < i
  BY DEF OpToRel
<1>4. PICK n \in T : \A j \in T : <<j, n>> \notin R
  <2>1. T \subseteq Nat
    OBVIOUS
  <2> HIDE DEF T, R
  <2> QED
    BY <1>1, <1>2, <2>1, WFMin
<1>5. n \in Nat /\ n \notin S /\ n # 0
  OBVIOUS
<1>6. n - 1 \in Nat /\ n - 1 < n
  BY <1>5
<1>7. n - 1 \notin T
  <2> HIDE DEF T, R
  <2> QED
    BY <1>3, <1>4, <1>5, <1>6
<1>8. n - 1 \in S
  BY <1>6, <1>7
<1>9. (n - 1) + 1 \in S
  BY <1>6, <1>8
<1> QED
  BY <1>5, <1>9

LEMMA WordWidths ==
  /\ Bits \in {4, 8, 16, 32}
  /\ 2 * Half = Bits /\ 4 * (Bits \div 4) = Bits
  /\ Half \in Nat /\ Half >= 2 /\ Bits \div 4 \in Nat /\ Bits \div 4 >= 1
  /\ Bits \in Nat /\ Bits >= 4 /\ Bits - 1 \in Nat
<1>1. Bits \in {4, 8, 16, 32}
  <2>1. PICK k \in 2 .. 5 : Bits = 2 ^ k
    BY WordPairsAssumption
  <2>2. CASE k = 2
    BY <2>1, <2>2
  <2>3. CASE k = 3
    BY <2>1, <2>3
  <2>4. CASE k = 4
    BY <2>1, <2>4
  <2>5. CASE k = 5
    BY <2>1, <2>5
  <2>6. QED
    BY <2>2, <2>3, <2>4, <2>5
<1>2. QED
  BY <1>1 DEF Half

LEMMA PowerNat ==
  ASSUME NEW n \in 0 .. 2 * Bits
  PROVE  2 ^ n \in Nat /\ 2 ^ n >= 1
<1> DEFINE S == {i \in Nat : i <= 2 * Bits => 2 ^ i \in Nat /\ 2 ^ i >= 1}
<1>1. 0 \in S
  OBVIOUS
<1>2. \A i \in Nat : i \in S => i + 1 \in S
  <2> SUFFICES ASSUME NEW i \in Nat, i \in S, i + 1 <= 2 * Bits
               PROVE  2 ^ (i + 1) \in Nat /\ 2 ^ (i + 1) >= 1
    OBVIOUS
  <2>1. 2 ^ (i + 1) = 2 * 2 ^ i
    BY WordPairsAssumption, WordWidths
  <2>2. 2 ^ i \in Nat /\ 2 ^ i >= 1
    BY WordWidths
  <2>3. QED
    BY <2>1, <2>2
<1>3. n \in Nat
  BY WordWidths
<1>4. n \in S
  <2> HIDE DEF S
  <2>1. QED
    BY <1>1, <1>2, <1>3, Induction
<1>5. QED
  BY <1>4, WordWidths

LEMMA PowerSum ==
  ASSUME NEW m \in Nat, NEW n \in Nat, m + n <= 2 * Bits
  PROVE  2 ^ (m + n) = 2 ^ m * 2 ^ n
<1> DEFINE S == {i \in Nat : m + i <= 2 * Bits => 2 ^ (m + i) = 2 ^ m * 2 ^ i}
<1>1. 0 \in S
  <2>1. m + 0 = m /\ 2 ^ 0 = 1
    OBVIOUS
  <2>2. m + 0 <= 2 * Bits => 2 ^ m \in Nat
    BY PowerNat, WordWidths
  <2>3. QED
    BY <2>1, <2>2
<1>2. \A i \in Nat : i \in S => i + 1 \in S
  <2> SUFFICES ASSUME NEW i \in Nat, i \in S, m + (i + 1) <= 2 * Bits
               PROVE  2 ^ (m + (i + 1)) = 2 ^ m * 2 ^ (i + 1)
    OBVIOUS
  <2>1. 2 ^ ((m + i) + 1) = 2 * 2 ^ (m + i) /\ 2 ^ (i + 1) = 2 * 2 ^ i
    BY WordPairsAssumption, WordWidths
  <2>2. 2 ^ (m + i) = 2 ^ m * 2 ^ i /\ m + (i + 1) = (m + i) + 1
    BY WordWidths
  <2>3. 2 ^ m \in Nat /\ 2 ^ i \in Nat
    BY PowerNat, WordWidths
  <2>4. QED
    BY <2>1, <2>2, <2>3
<1>3. n \in S
  BY <1>1, <1>2, Induction
<1>4. QED
  BY <1>3

LEMMA PowerOrder ==
  ASSUME NEW m \in Nat, NEW n \in Nat, m < n, n <= 2 * Bits
  PROVE  2 * 2 ^ m <= 2 ^ n
<1> DEFINE a == 2 ^ m
           b == 2 ^ (n - m - 1)
           c == 2 ^ (m + 1)
<1>1. a \in Nat /\ b \in Nat /\ b >= 1 /\ c = 2 * a
  BY PowerNat, WordWidths, WordPairsAssumption
<1>2. 2 ^ n = c * b
  <2>1. m + 1 \in Nat /\ n - m - 1 \in Nat /\ n = (m + 1) + (n - m - 1)
    OBVIOUS
  <2>2. QED
    BY <2>1, PowerSum
<1> HIDE DEF a, b, c
<1>3. c * b >= c
  BY <1>1
<1>4. QED
  BY <1>1, <1>2, <1>3 DEF a

-----------------------------------------------------------------------------
(* Division.                                                                *)

LEMMA Quotient ==
  ASSUME NEW d \in Nat, d >= 1, NEW q \in Int, NEW r \in 0 .. d - 1
  PROVE  (q * d + r) \div d = q /\ (q * d + r) % d = r
<1> DEFINE a == q * d + r
           p == a \div d
           s == a % d
<1>1. a \in Int /\ p \in Int /\ s \in 0 .. d - 1 /\ a = p * d + s
  OBVIOUS
<1>2. (p - q) * d = r - s
  BY <1>1
<1> HIDE DEF p, s
<1>3. p = q
  <2> DEFINE e == p - q
  <2>1. e \in Int /\ e * d = r - s
    BY <1>1, <1>2
  <2>2. p = q + e
    BY <1>1
  <2> HIDE DEF e
  <2>3. e < 1
    BY <1>1, <2>1
  <2>4. e > -1
    BY <1>1, <2>1
  <2>5. QED
    BY <1>1, <2>1, <2>2, <2>3, <2>4
<1>4. s = r
  BY <1>1, <1>3
<1>5. QED
  BY <1>3, <1>4 DEF p, s

LEMMA Divided ==
  ASSUME NEW d \in Nat, d >= 1, NEW a \in Int
  PROVE  /\ a \div d \in Int /\ a % d \in 0 .. d - 1 /\ a = (a \div d) * d + (a % d)
         /\ a >= 0 => a \div d \in Nat
<1>0. a \div d \in Int /\ a % d \in 0 .. d - 1
  OBVIOUS
<1>1. a = (a \div d) * d + (a % d)
  OBVIOUS
<1>2. ASSUME a >= 0, a \div d <= -1
      PROVE  FALSE
  <2> DEFINE q == a \div d
             r == a % d
  <2>1. q \in Int /\ r < d /\ r \in Int /\ a = q * d + r /\ q <= -1
    BY <1>0, <1>1, <1>2
  <2> HIDE DEF q, r
  <2>2. q * d <= -d
    BY <2>1
  <2>3. QED
    BY <1>2, <2>1, <2>2
<1>3. a >= 0 => a \div d \in Nat
  <2> DEFINE q == a \div d
  <2>1. q \in Int /\ (a >= 0 => ~(q <= -1))
    BY <1>0, <1>2
  <2> HIDE DEF q
  <2>2. a >= 0 => q \in Nat
    BY <2>1
  <2>3. QED
    BY <2>2 DEF q
<1>4. QED
  BY <1>0, <1>1, <1>3, Zenon

LEMMA Small ==
  ASSUME NEW d \in Nat, d >= 1, NEW r \in 0 .. d - 1
  PROVE  r \div d = 0 /\ r % d = r
<1>1. 0 * d + r = r
  OBVIOUS
<1>2. QED
  BY <1>1, Quotient

\* d * e in place of e.
LEMMA Coarser ==
  ASSUME NEW d \in Nat, d >= 1, NEW e \in Nat, e >= 1, NEW h \in Int, NEW l \in 0 .. d - 1
  PROVE  /\ (h * d + l) \div (e * d) = h \div e
         /\ (h * d + l) % (e * d) = (h % e) * d + l
         /\ (h % e) * d + l \in 0 .. e * d - 1
         /\ e * d \in Nat /\ e * d >= 1
<1> DEFINE q == h \div e
           r == h % e
           m == e * d
           s == r * d + l
<1>1. q \in Int /\ r \in 0 .. e - 1 /\ h = q * e + r
  BY Divided
<1>2. m \in Nat /\ m >= 1
  OBVIOUS
<1>3. s \in 0 .. m - 1
  <2>1. r * d <= (e - 1) * d /\ r * d >= 0 /\ r * d \in Int
    BY <1>1
  <2>2. (e - 1) * d = m - d
    OBVIOUS
  <2> DEFINE t == r * d
  <2>3. s = t + l /\ t <= m - d /\ t >= 0 /\ t \in Int
    BY <2>1, <2>2
  <2> HIDE DEF m, s, t
  <2>4. QED
    BY <1>2, <2>3
<1>4. h * d + l = q * m + s
  <2> HIDE DEF q, r
  <2>1. h * d = (q * e) * d + r * d
    BY <1>1
  <2>2. (q * e) * d = q * m
    BY <1>1
  <2>3. QED
    BY <1>1, <2>1, <2>2
<1> HIDE DEF q, r, m, s
<1>5. (q * m + s) \div m = q /\ (q * m + s) % m = s
  BY <1>1, <1>2, <1>3, Quotient
<1>6. (h * d + l) \div m = q /\ (h * d + l) % m = s
  BY <1>4, <1>5
<1>7. QED
  BY <1>2, <1>3, <1>6 DEF q, r, m, s

LEMMA Finer ==
  ASSUME NEW d \in Nat, d >= 1, NEW e \in Int, NEW h \in Int, NEW l \in Int
  PROVE  (h * (e * d) + l) \div d = h * e + l \div d /\ (h * (e * d) + l) % d = l % d
<1> DEFINE q == l \div d
           r == l % d
           p == h * e
<1>1. q \in Int /\ r \in 0 .. d - 1 /\ l = q * d + r
  BY Divided
<1>2. p \in Int /\ h * (e * d) = p * d
  OBVIOUS
<1>3. h * (e * d) + l = (p + q) * d + r
  <2> HIDE DEF q, r, p
  <2>1. (p + q) * d = p * d + q * d
    BY <1>1, <1>2
  <2>2. QED
    BY <1>1, <1>2, <2>1
<1>4. ((p + q) * d + r) \div d = p + q /\ ((p + q) * d + r) % d = r
  <2> HIDE DEF q, r, p
  <2>1. QED
    BY <1>1, <1>2, Quotient
<1>5. QED
  BY <1>3, <1>4

-----------------------------------------------------------------------------
(* Bits.                                                                    *)

LEMMA BitType ==
  ASSUME NEW w \in Nat, NEW k \in 0 .. 2 * Bits
  PROVE  Bit(w, k) \in {0, 1}
<1> DEFINE q == w \div 2 ^ k
<1>1. q \in Int
  BY PowerNat, Divided
<1> HIDE DEF q
<1>2. q % 2 \in {0, 1}
  BY <1>1
<1>3. QED
  BY <1>2 DEF q, Bit

LEMMA HighBits ==
  ASSUME NEW n \in Nat, NEW h \in Nat, NEW l \in 0 .. 2 ^ n - 1,
         NEW k \in Nat, n <= k, k <= 2 * Bits
  PROVE  Bit(h * 2 ^ n + l, k) = Bit(h, k - n)
<1> DEFINE d == 2 ^ n
           e == 2 ^ (k - n)
<1>1. d \in Nat /\ d >= 1 /\ e \in Nat /\ e >= 1
  BY PowerNat, WordWidths
<1>2. 2 ^ k = e * d
  <2>1. k - n \in Nat /\ (k - n) + n = k
    OBVIOUS
  <2>2. QED
    BY <2>1, PowerSum
<1>3. l \in 0 .. d - 1
  OBVIOUS
<1> HIDE DEF d, e
<1>4. (h * d + l) \div (e * d) = h \div e
  BY <1>1, <1>3, Coarser
<1>5. QED
  BY <1>2, <1>4 DEF d, e, Bit

LEMMA LowBits ==
  ASSUME NEW n \in Nat, n <= 2 * Bits, NEW h \in Nat, NEW l \in Nat,
         NEW k \in Nat, k < n
  PROVE  Bit(h * 2 ^ n + l, k) = Bit(l, k)
<1> DEFINE d == 2 ^ k
           e == 2 ^ (n - k - 1)
           q == l \div d
<1>1. d \in Nat /\ d >= 1 /\ e \in Nat /\ e >= 1 /\ q \in Int
  BY PowerNat, WordWidths, Divided
<1>2. 2 ^ n = (2 * e) * d
  <2>1. n - k - 1 \in Nat /\ k + 1 \in Nat /\ (n - k - 1) + (k + 1) = n
    OBVIOUS
  <2>2. 2 ^ n = e * 2 ^ (k + 1) /\ 2 ^ (k + 1) = 2 * d
    BY <2>1, PowerSum, WordPairsAssumption, WordWidths
  <2>3. QED
    BY <1>1, <2>2
<1>3. (h * ((2 * e) * d) + l) \div d = h * (2 * e) + q
  BY <1>1, Finer
<1> HIDE DEF d, e
<1>4. (h * (2 * e) + q) % 2 = q % 2
  <2> DEFINE p == h * e
  <2>1. p \in Int /\ h * (2 * e) = 2 * p
    BY <1>1
  <2> HIDE DEF p, q
  <2>2. QED
    BY <1>1, <2>1
<1>5. QED
  BY <1>2, <1>3, <1>4 DEF d, Bit

\* The bit at n comes before the n bits below it.
LEMMA TopBit ==
  ASSUME NEW n \in Nat, n < 2 * Bits, NEW h \in {0, 1}, NEW l \in 0 .. 2 ^ n - 1
  PROVE  /\ h * 2 ^ n + l \in 0 .. 2 ^ (n + 1) - 1
         /\ Bit(h * 2 ^ n + l, n) = h
         /\ \A k \in 0 .. n - 1 : Bit(h * 2 ^ n + l, k) = Bit(l, k)
<1>1. 2 ^ n \in Nat /\ 2 ^ n >= 1 /\ 2 ^ (n + 1) = 2 * 2 ^ n
  BY PowerNat, WordPairsAssumption, WordWidths
<1>2. h * 2 ^ n + l \in 0 .. 2 ^ (n + 1) - 1
  <2> DEFINE d == 2 ^ n
  <2>1. d \in Nat /\ d >= 1 /\ l \in 0 .. d - 1
    BY <1>1
  <2> HIDE DEF d
  <2>2. h * d + l \in 0 .. 2 * d - 1
    BY <2>1
  <2>3. QED
    BY <1>1, <2>2 DEF d
<1>3. Bit(h * 2 ^ n + l, n) = Bit(h, n - n)
  <2>1. h \in Nat /\ n <= n /\ n <= 2 * Bits
    BY WordWidths
  <2>2. QED
    BY <2>1, HighBits
<1>4. Bit(h, n - n) = h
  <2>1. n - n = 0 /\ 2 ^ 0 = 1 /\ h \div 1 = h /\ h % 2 = h
    OBVIOUS
  <2>2. QED
    BY <2>1 DEF Bit
<1>5. \A k \in 0 .. n - 1 : Bit(h * 2 ^ n + l, k) = Bit(l, k)
  BY <1>1, LowBits, WordWidths
<1>6. QED
  BY <1>2, <1>3, <1>4, <1>5

LEMMA Parted ==
  ASSUME NEW n \in Nat, n < 2 * Bits, NEW x \in 0 .. 2 ^ (n + 1) - 1
  PROVE  \E h \in {0, 1}, l \in 0 .. 2 ^ n - 1 : x = h * 2 ^ n + l
<1> DEFINE d == 2 ^ n
           h == x \div d
           l == x % d
<1>1. d \in Nat /\ d >= 1 /\ 2 ^ (n + 1) = 2 * d
  BY PowerNat, WordPairsAssumption, WordWidths
<1>2. x \in 0 .. 2 * d - 1
  BY <1>1
<1>3. h \in Nat /\ l \in 0 .. d - 1 /\ x = h * d + l
  <2>1. x \in Int /\ x >= 0
    BY <1>1, <1>2
  <2> HIDE DEF d
  <2>2. QED
    BY <1>1, <2>1, Divided
<1>4. h \in {0, 1}
  <2> HIDE DEF d, h, l
  <2>1. ~(h >= 2)
    <3> SUFFICES ASSUME h >= 2
                 PROVE  FALSE
      OBVIOUS
    <3>1. h * d >= 2 * d
      BY <1>1, <1>3
    <3>2. QED
      BY <1>1, <1>2, <1>3, <3>1
  <2>2. QED
    BY <1>3, <2>1
<1> HIDE DEF h, l
<1>5. QED
  BY <1>3, <1>4

LEMMA SameBits ==
  ASSUME NEW n \in 0 .. Bits, NEW x \in 0 .. 2 ^ n - 1, NEW y \in 0 .. 2 ^ n - 1,
         \A k \in 0 .. n - 1 : Bit(x, k) = Bit(y, k)
  PROVE  x = y
<1> DEFINE S == {i \in Nat : i <= Bits =>
                   \A u, v \in 0 .. 2 ^ i - 1 : (\A k \in 0 .. i - 1 : Bit(u, k) = Bit(v, k)) => u = v}
<1>1. 0 \in S
  <2>1. 2 ^ 0 = 1
    OBVIOUS
  <2>2. \A u, v \in 0 .. 2 ^ 0 - 1 : u = v
    BY <2>1
  <2>3. QED
    BY <2>2
<1>2. \A i \in Nat : i \in S => i + 1 \in S
  <2> SUFFICES ASSUME NEW i \in Nat, i \in S
               PROVE  i + 1 \in S
    OBVIOUS
  <2> SUFFICES ASSUME i + 1 <= Bits, NEW u \in 0 .. 2 ^ (i + 1) - 1, NEW v \in 0 .. 2 ^ (i + 1) - 1,
                      \A k \in 0 .. (i + 1) - 1 : Bit(u, k) = Bit(v, k)
               PROVE  u = v
    OBVIOUS
  <2>1. i < 2 * Bits
    BY WordWidths
  <2>2. PICK g \in {0, 1}, l \in 0 .. 2 ^ i - 1 : u = g * 2 ^ i + l
    BY <2>1, Parted
  <2>3. PICK h \in {0, 1}, m \in 0 .. 2 ^ i - 1 : v = h * 2 ^ i + m
    BY <2>1, Parted
  <2>4. Bit(u, i) = g /\ \A k \in 0 .. i - 1 : Bit(u, k) = Bit(l, k)
    BY <2>1, <2>2, TopBit
  <2>5. Bit(v, i) = h /\ \A k \in 0 .. i - 1 : Bit(v, k) = Bit(m, k)
    BY <2>1, <2>3, TopBit
  <2>6. g = h
    BY <2>4, <2>5
  <2>7. \A k \in 0 .. i - 1 : Bit(l, k) = Bit(m, k)
    BY <2>4, <2>5
  <2>8. l = m
    BY <2>7, WordWidths
  <2>9. QED
    BY <2>2, <2>3, <2>6, <2>8
<1>3. n \in Nat
  BY WordWidths
<1>4. n \in S
  <2> HIDE DEF S
  <2>1. QED
    BY <1>1, <1>2, <1>3, Induction
<1>5. QED
  BY <1>4, WordWidths

LEMMA SomeBits ==
  ASSUME NEW f \in [0 .. Bits - 1 -> {0, 1}]
  PROVE  \E w \in Word : \A k \in 0 .. Bits - 1 : Bit(w, k) = f[k]
<1> DEFINE S == {i \in Nat : i <= Bits =>
                   \E w \in 0 .. 2 ^ i - 1 : \A k \in 0 .. i - 1 : Bit(w, k) = f[k]}
<1>1. 0 \in S
  <2>1. 2 ^ 0 = 1 /\ 0 \in 0 .. 1 - 1
    OBVIOUS
  <2>2. \E w \in 0 .. 2 ^ 0 - 1 : \A k \in 0 .. 0 - 1 : Bit(w, k) = f[k]
    BY <2>1
  <2>3. QED
    BY <2>2
<1>2. \A i \in Nat : i \in S => i + 1 \in S
  <2> SUFFICES ASSUME NEW i \in Nat, i \in S, i + 1 <= Bits
               PROVE  \E w \in 0 .. 2 ^ (i + 1) - 1 : \A k \in 0 .. (i + 1) - 1 : Bit(w, k) = f[k]
    OBVIOUS
  <2>1. i < 2 * Bits /\ i \in 0 .. Bits - 1 /\ i <= Bits
    BY WordWidths
  <2>2. PICK l \in 0 .. 2 ^ i - 1 : \A k \in 0 .. i - 1 : Bit(l, k) = f[k]
    BY <2>1
  <2> DEFINE w == f[i] * 2 ^ i + l
  <2>3. /\ w \in 0 .. 2 ^ (i + 1) - 1
        /\ Bit(w, i) = f[i]
        /\ \A k \in 0 .. i - 1 : Bit(w, k) = Bit(l, k)
    <3>1. f[i] \in {0, 1}
      BY <2>1
    <3>2. QED
      BY <2>1, <3>1, TopBit
  <2> HIDE DEF w
  <2>4. \A k \in 0 .. (i + 1) - 1 : Bit(w, k) = f[k]
    <3> SUFFICES ASSUME NEW k \in 0 .. (i + 1) - 1
                 PROVE  Bit(w, k) = f[k]
      OBVIOUS
    <3>1. CASE k = i
      BY <2>3, <3>1
    <3>2. CASE k # i
      <4>1. k \in 0 .. i - 1
        BY <3>2
      <4>2. QED
        BY <2>2, <2>3, <4>1
    <3>3. QED
      BY <3>1, <3>2
  <2>5. QED
    BY <2>3, <2>4
<1>3. Bits \in Nat /\ Bits <= Bits
  BY WordWidths
<1>4. Bits \in S
  <2> HIDE DEF S
  <2>1. QED
    BY <1>1, <1>2, <1>3, Induction
<1>5. QED
  BY <1>3, <1>4 DEF Word, Modulus

LEMMA Modulo ==
  /\ Modulus \in Nat /\ Modulus >= 16 /\ Sign \in Nat /\ Sign >= 8 /\ Modulus = 2 * Sign
  /\ 2 * Bits <= Sign
  /\ 2 ^ 0 = 1 /\ 2 ^ 1 = 2
<1>1. CASE Bits = 4
  BY <1>1 DEF Modulus, Sign
<1>2. CASE Bits = 8
  BY <1>2 DEF Modulus, Sign
<1>3. CASE Bits = 16
  BY <1>3 DEF Modulus, Sign
<1>4. CASE Bits = 32
  BY <1>4 DEF Modulus, Sign
<1>5. QED
  BY <1>1, <1>2, <1>3, <1>4, WordWidths

LEMMA Wraps ==
  ASSUME NEW q \in Int, NEW r \in 0 .. Modulus - 1
  PROVE  (q * Modulus + r) % Modulus = r /\ (q * Modulus + r) \div Modulus = q
<1> DEFINE m == Modulus
<1>1. m \in Nat /\ m >= 1 /\ r \in 0 .. m - 1
  BY Modulo
<1> HIDE DEF m
<1>2. (q * m + r) % m = r /\ (q * m + r) \div m = q
  BY <1>1, Quotient
<1>3. QED
  BY <1>2 DEF m

LEMMA WordBits ==
  ASSUME NEW w \in Word
  PROVE  w \in Nat /\ \A k \in 0 .. Bits - 1 : Bit(w, k) \in {0, 1}
<1>1. w \in Nat /\ \A k \in 0 .. Bits - 1 : k \in 0 .. 2 * Bits
  BY Modulo, WordWidths DEF Word
<1>2. QED
  BY <1>1, BitType

LEMMA SameWord ==
  ASSUME NEW x \in Word, NEW y \in Word, \A k \in 0 .. Bits - 1 : Bit(x, k) = Bit(y, k)
  PROVE  x = y
<1>1. Bits \in 0 .. Bits /\ x \in 0 .. 2 ^ Bits - 1 /\ y \in 0 .. 2 ^ Bits - 1
  BY WordWidths DEF Word, Modulus
<1>2. QED
  BY <1>1, SameBits

LEMMA AndBits ==
  ASSUME NEW a \in Word, NEW b \in Word
  PROVE  And(a, b) \in Word /\ \A k \in 0 .. Bits - 1 : Bit(And(a, b), k) = Bit(a, k) * Bit(b, k)
<1> DEFINE f == [k \in 0 .. Bits - 1 |-> Bit(a, k) * Bit(b, k)]
<1>1. f \in [0 .. Bits - 1 -> {0, 1}]
  BY WordBits
<1>2. \E w \in Word : \A k \in 0 .. Bits - 1 : Bit(w, k) = f[k]
  <2> HIDE DEF f
  <2>1. QED
    BY <1>1, SomeBits
<1>3. \E w \in Word : \A k \in 0 .. Bits - 1 : Bit(w, k) = Bit(a, k) * Bit(b, k)
  BY <1>2
<1>4. And(a, b) = CHOOSE w \in Word : \A k \in 0 .. Bits - 1 : Bit(w, k) = Bit(a, k) * Bit(b, k)
  BY DEF And, AndTable, Table
<1>5. QED
  BY <1>3, <1>4

LEMMA OrBits ==
  ASSUME NEW a \in Word, NEW b \in Word
  PROVE  Or(a, b) \in Word /\ \A k \in 0 .. Bits - 1 : Bit(Or(a, b), k) = Flag(Bit(a, k) + Bit(b, k) > 0)
<1> DEFINE f == [k \in 0 .. Bits - 1 |-> Flag(Bit(a, k) + Bit(b, k) > 0)]
<1>1. f \in [0 .. Bits - 1 -> {0, 1}]
  BY WordBits DEF Flag
<1>2. \E w \in Word : \A k \in 0 .. Bits - 1 : Bit(w, k) = f[k]
  <2> HIDE DEF f
  <2>1. QED
    BY <1>1, SomeBits
<1>3. \E w \in Word : \A k \in 0 .. Bits - 1 : Bit(w, k) = Flag(Bit(a, k) + Bit(b, k) > 0)
  BY <1>2
<1>4. Or(a, b) = CHOOSE w \in Word : \A k \in 0 .. Bits - 1 : Bit(w, k) = Flag(Bit(a, k) + Bit(b, k) > 0)
  BY DEF Or, OrTable, Table
<1>5. QED
  BY <1>3, <1>4

LEMMA XorBits ==
  ASSUME NEW a \in Word, NEW b \in Word
  PROVE  Xor(a, b) \in Word /\ \A k \in 0 .. Bits - 1 : Bit(Xor(a, b), k) = (Bit(a, k) + Bit(b, k)) % 2
<1> DEFINE f == [k \in 0 .. Bits - 1 |-> (Bit(a, k) + Bit(b, k)) % 2]
<1>1. f \in [0 .. Bits - 1 -> {0, 1}]
  <2>1. \A k \in 0 .. Bits - 1 : (Bit(a, k) + Bit(b, k)) % 2 \in {0, 1}
    <3> SUFFICES ASSUME NEW k \in 0 .. Bits - 1
                 PROVE  (Bit(a, k) + Bit(b, k)) % 2 \in {0, 1}
      OBVIOUS
    <3>1. Bit(a, k) + Bit(b, k) \in Nat
      BY WordBits
    <3>2. QED
      BY <3>1
  <2>2. QED
    BY <2>1
<1>2. \E w \in Word : \A k \in 0 .. Bits - 1 : Bit(w, k) = f[k]
  <2> HIDE DEF f
  <2>1. QED
    BY <1>1, SomeBits
<1>3. \E w \in Word : \A k \in 0 .. Bits - 1 : Bit(w, k) = (Bit(a, k) + Bit(b, k)) % 2
  BY <1>2
<1>4. Xor(a, b) = CHOOSE w \in Word : \A k \in 0 .. Bits - 1 : Bit(w, k) = (Bit(a, k) + Bit(b, k)) % 2
  BY DEF Xor, XorTable, Table
<1>5. QED
  BY <1>3, <1>4

LEMMA PowerRange ==
  ASSUME NEW n \in 0 .. Bits
  PROVE  /\ 2 ^ n \in Nat /\ 2 ^ n >= 1 /\ 2 ^ n <= Modulus
         /\ 2 ^ (Bits - n) \in Nat /\ 2 ^ (Bits - n) >= 1
         /\ 2 ^ (Bits - n) * 2 ^ n = Modulus /\ 2 ^ n * 2 ^ (Bits - n) = Modulus
<1>1. n \in Nat /\ Bits - n \in Nat /\ n \in 0 .. 2 * Bits /\ Bits - n \in 0 .. 2 * Bits
      /\ (Bits - n) + n = Bits /\ n + (Bits - n) = Bits /\ Bits <= 2 * Bits
  BY WordWidths
<1>2. 2 ^ n \in Nat /\ 2 ^ n >= 1 /\ 2 ^ (Bits - n) \in Nat /\ 2 ^ (Bits - n) >= 1
  BY <1>1, PowerNat
<1>3. 2 ^ (Bits - n) * 2 ^ n = Modulus /\ 2 ^ n * 2 ^ (Bits - n) = Modulus
  <2>1. 2 ^ ((Bits - n) + n) = 2 ^ (Bits - n) * 2 ^ n
    BY <1>1, PowerSum
  <2>2. 2 ^ (n + (Bits - n)) = 2 ^ n * 2 ^ (Bits - n)
    BY <1>1, PowerSum
  <2>3. QED
    BY <1>1, <2>1, <2>2 DEF Modulus
<1>4. 2 ^ n <= Modulus
  <2>1. CASE n = Bits
    BY <1>2, <2>1 DEF Modulus
  <2>2. CASE n < Bits
    <3>1. 2 * 2 ^ n <= 2 ^ Bits
      BY <1>1, <2>2, PowerOrder
    <3>2. QED
      BY <1>2, <3>1, Modulo DEF Modulus
  <2>3. QED
    BY <2>1, <2>2, WordWidths
<1>5. QED
  BY <1>2, <1>3, <1>4

LEMMA ZeroBit ==
  ASSUME NEW k \in 0 .. 2 * Bits
  PROVE  Bit(0, k) = 0
<1> DEFINE q == 0 \div 2 ^ k
<1>1. q = 0
  BY PowerNat, Small
<1> HIDE DEF q
<1>2. q % 2 = 0
  BY <1>1
<1>3. QED
  BY <1>2 DEF Bit, q

LEMMA BitsAbove ==
  ASSUME NEW n \in Nat, NEW l \in 0 .. 2 ^ n - 1, NEW k \in Nat, n <= k, k <= 2 * Bits
  PROVE  Bit(l, k) = 0
<1>1. 2 ^ n \in Nat
  BY PowerNat, WordWidths
<1>2. Bit(0 * 2 ^ n + l, k) = Bit(0, k - n)
  BY HighBits
<1>3. 0 * 2 ^ n + l = l
  BY <1>1
<1>4. Bit(0, k - n) = 0
  BY ZeroBit, WordWidths
<1>5. QED
  BY <1>2, <1>3, <1>4

LEMMA OnesBit ==
  ASSUME NEW n \in Nat, n <= 2 * Bits, NEW k \in Nat, k < n
  PROVE  Bit(2 ^ n - 1, k) = 1
<1> DEFINE d == 2 ^ k
           e == 2 ^ (n - k - 1)
           r == d - 1
           q == 2 * e - 1
<1>1. d \in Nat /\ d >= 1 /\ e \in Nat /\ e >= 1
  BY PowerNat, WordWidths
<1>2. 2 ^ n = 2 * (e * d)
  <2>1. n - k - 1 \in Nat /\ k + 1 \in Nat /\ (n - k - 1) + (k + 1) = n
    OBVIOUS
  <2>2. 2 ^ n = e * 2 ^ (k + 1) /\ 2 ^ (k + 1) = 2 * d
    BY <2>1, PowerSum, WordPairsAssumption, WordWidths
  <2>3. QED
    BY <1>1, <2>2
<1> HIDE DEF d, e
<1>3. r \in 0 .. d - 1 /\ q \in Int /\ 2 ^ n - 1 = q * d + r
  <2> DEFINE p == e * d
  <2>1. p \in Int /\ q * d = 2 * p - d
    BY <1>1
  <2> HIDE DEF p, q
  <2>2. 2 ^ n = 2 * p
    BY <1>2 DEF p
  <2>3. 2 ^ n - 1 = q * d + r
    BY <1>1, <2>1, <2>2
  <2>4. QED
    BY <1>1, <2>3 DEF q
<1>4. (q * d + r) \div d = q
  BY <1>1, <1>3, Quotient
<1>5. q % 2 = 1
  BY <1>1
<1> HIDE DEF q, r
<1>6. QED
  BY <1>3, <1>4, <1>5 DEF Bit, d

LEMMA Masked ==
  ASSUME NEW n \in 0 .. Bits, NEW a \in Word
  PROVE  And(a, 2 ^ n - 1) = a % 2 ^ n /\ a % 2 ^ n \in Word /\ a % 2 ^ n \in 0 .. 2 ^ n - 1
<1> DEFINE h == a \div 2 ^ n
           l == a % 2 ^ n
<1>1. a \in Nat
  BY WordBits
<1>2. h \in Nat /\ l \in 0 .. 2 ^ n - 1 /\ a = h * 2 ^ n + l
  <2> DEFINE d == 2 ^ n
  <2>1. d \in Nat /\ d >= 1 /\ a \in Int /\ a >= 0
    BY <1>1, PowerRange
  <2> HIDE DEF d
  <2>2. a \div d \in Nat /\ a % d \in 0 .. d - 1 /\ a = (a \div d) * d + (a % d)
    BY <2>1, Divided
  <2>3. QED
    BY <2>2 DEF d
<1>3. l \in Word /\ 2 ^ n - 1 \in Word /\ 2 ^ n - 1 \in 0 .. 2 ^ n - 1
  BY <1>2, PowerRange, Modulo DEF Word
<1> HIDE DEF h, l
<1>4. ASSUME NEW k \in 0 .. Bits - 1
      PROVE  Bit(l, k) = Bit(a, k) * Bit(2 ^ n - 1, k)
  <2>1. Bit(a, k) \in {0, 1}
    BY WordBits
  <2>2. n \in Nat /\ n <= 2 * Bits /\ k \in Nat /\ k <= 2 * Bits
    BY WordWidths
  <2>3. CASE k < n
    <3>1. Bit(2 ^ n - 1, k) = 1
      BY <2>2, <2>3, OnesBit
    <3>2. l \in Nat
      BY <1>3, Modulo DEF Word
    <3>3. Bit(a, k) = Bit(l, k)
      BY <1>2, <2>2, <2>3, <3>2, LowBits
    <3>4. QED
      BY <2>1, <3>1, <3>3
  <2>4. CASE n <= k
    <3>1. Bit(2 ^ n - 1, k) = 0 /\ Bit(l, k) = 0
      BY <1>2, <1>3, <2>2, <2>4, BitsAbove
    <3>2. QED
      BY <2>1, <3>1
  <2>5. QED
    BY <2>2, <2>3, <2>4
<1>5. And(a, 2 ^ n - 1) = l
  BY <1>3, <1>4, AndBits, SameWord
<1>6. QED
  BY <1>2, <1>3, <1>5 DEF l

LEMMA Joined ==
  ASSUME NEW n \in 0 .. Bits, NEW h \in 0 .. 2 ^ (Bits - n) - 1, NEW l \in 0 .. 2 ^ n - 1
  PROVE  /\ h * 2 ^ n + l \in Word /\ h * 2 ^ n \in Word /\ l \in Word
         /\ Or(h * 2 ^ n, l) = h * 2 ^ n + l /\ Or(l, h * 2 ^ n) = h * 2 ^ n + l
<1> DEFINE d == 2 ^ n
           e == 2 ^ (Bits - n)
           t == h * d
<1>1. d \in Nat /\ d >= 1 /\ e \in Nat /\ e >= 1 /\ e * d = Modulus /\ d <= Modulus
  BY PowerRange
<1>2. t \in Nat /\ t <= Modulus - d
  <2>1. h \in 0 .. e - 1
    OBVIOUS
  <2> HIDE DEF d, e
  <2>2. h * d <= (e - 1) * d /\ h * d \in Nat
    BY <1>1, <2>1
  <2>3. (e - 1) * d = Modulus - d
    BY <1>1
  <2>4. QED
    BY <2>2, <2>3
<1>3. t + l \in Word /\ t \in Word /\ l \in Word /\ l \in 0 .. d - 1
  <2>1. l \in 0 .. d - 1
    OBVIOUS
  <2> HIDE DEF d, t
  <2>2. QED
    BY <1>1, <1>2, <2>1, Modulo DEF Word
<1>4. ASSUME NEW k \in 0 .. Bits - 1
      PROVE  /\ Bit(t + l, k) = Flag(Bit(t, k) + Bit(l, k) > 0)
             /\ Bit(t + l, k) = Flag(Bit(l, k) + Bit(t, k) > 0)
  <2>1. Bit(t, k) \in {0, 1} /\ Bit(l, k) \in {0, 1}
    BY <1>3, WordBits
  <2>2. n \in Nat /\ n <= 2 * Bits /\ k \in Nat /\ k <= 2 * Bits /\ h \in Nat /\ l \in Nat /\ 0 \in Nat
        /\ 0 \in 0 .. d - 1 /\ k \in 0 .. 2 * Bits
    BY <1>1, WordWidths
  <2>3. h * d + 0 = t
    BY <1>2
  <2>4. CASE k < n
    <3>1. Bit(h * d + 0, k) = Bit(0, k)
      BY <2>2, <2>4, LowBits
    <3>2. Bit(t, k) = 0
      BY <2>2, <2>3, <3>1, ZeroBit
    <3>3. Bit(t + l, k) = Bit(l, k)
      BY <2>2, <2>4, LowBits
    <3>4. QED
      BY <2>1, <3>2, <3>3 DEF Flag
  <2>5. CASE n <= k
    <3>1. Bit(h * d + 0, k) = Bit(h, k - n)
      BY <2>2, <2>5, HighBits
    <3>2. Bit(t + l, k) = Bit(h, k - n)
      BY <2>2, <2>5, HighBits
    <3>3. Bit(l, k) = 0
      BY <2>2, <2>5, BitsAbove
    <3>4. QED
      BY <2>1, <2>3, <3>1, <3>2, <3>3 DEF Flag
  <2>6. QED
    BY <2>2, <2>4, <2>5
<1> HIDE DEF t
<1>5. Or(t, l) = t + l
  <2>1. Or(t, l) \in Word /\ \A k \in 0 .. Bits - 1 : Bit(Or(t, l), k) = Bit(t + l, k)
    BY <1>3, <1>4, OrBits
  <2>2. QED
    BY <1>3, <2>1, SameWord
<1>6. Or(l, t) = t + l
  <2>1. Or(l, t) \in Word /\ \A k \in 0 .. Bits - 1 : Bit(Or(l, t), k) = Bit(t + l, k)
    BY <1>3, <1>4, OrBits
  <2>2. QED
    BY <1>3, <2>1, SameWord
<1>7. QED
  BY <1>3, <1>5, <1>6 DEF t

LEMMA BiasedValue ==
  ASSUME NEW a \in Word
  PROVE  Biased(a) \in Word /\ Signed(Biased(a)) = a - Sign
<1> DEFINE n == Bits - 1
<1>1. n \in Nat /\ n + 1 = Bits /\ n < 2 * Bits
  BY WordWidths
<1>2. Sign = 2 ^ n /\ Modulus = 2 ^ (n + 1)
  BY <1>1 DEF Sign, Modulus
<1> HIDE DEF n
<1>3. a \in 0 .. 2 ^ (n + 1) - 1 /\ a \in Word /\ Sign \in Word
  BY <1>2, Modulo DEF Word
<1>4. PICK h \in {0, 1}, l \in 0 .. 2 ^ n - 1 : a = h * 2 ^ n + l
  BY <1>1, <1>3, Parted
<1>5. 1 - h \in {0, 1} /\ 0 \in 0 .. 2 ^ n - 1
  BY <1>2, Modulo
<1> DEFINE w == (1 - h) * 2 ^ n + l
<1>6. /\ w \in 0 .. 2 ^ (n + 1) - 1 /\ Bit(w, n) = 1 - h
      /\ \A k \in 0 .. n - 1 : Bit(w, k) = Bit(l, k)
  BY <1>1, <1>5, TopBit
<1>7. /\ Bit(a, n) = h /\ \A k \in 0 .. n - 1 : Bit(a, k) = Bit(l, k)
  BY <1>1, <1>4, TopBit
<1>8. /\ Bit(1 * 2 ^ n + 0, n) = 1 /\ \A k \in 0 .. n - 1 : Bit(1 * 2 ^ n + 0, k) = Bit(0, k)
  BY <1>1, <1>5, TopBit
<1>9. 1 * 2 ^ n + 0 = Sign
  BY <1>2, Modulo
<1>10. w \in Word
  BY <1>2, <1>6 DEF Word
<1>11. ASSUME NEW k \in 0 .. Bits - 1
       PROVE  Bit(w, k) = (Bit(a, k) + Bit(Sign, k)) % 2
  <2>1. CASE k = n
    BY <1>6, <1>7, <1>8, <1>9, <2>1
  <2>2. CASE k # n
    <3>1. k \in 0 .. n - 1 /\ k \in 0 .. 2 * Bits
      BY <1>1, <2>2, WordWidths
    <3>2. Bit(Sign, k) = 0 /\ Bit(w, k) = Bit(a, k)
      BY <1>6, <1>7, <1>8, <1>9, <3>1, ZeroBit
    <3>3. Bit(w, k) \in {0, 1}
      BY <1>10, WordBits
    <3>4. QED
      BY <3>2, <3>3
  <2>3. QED
    BY <2>1, <2>2
<1> HIDE DEF w
<1>12. Biased(a) = w
  <2>1. Xor(a, Sign) \in Word /\ \A k \in 0 .. Bits - 1 : Bit(Xor(a, Sign), k) = Bit(w, k)
    BY <1>3, <1>11, XorBits
  <2>2. QED
    BY <1>10, <2>1, SameWord DEF Biased
<1>13. Signed(w) = a - Sign
  <2>1. l \in 0 .. Sign - 1 /\ a = h * Sign + l /\ w = (1 - h) * Sign + l
    BY <1>2, <1>4 DEF w
  <2>2. CASE h = 0
    <3>1. w = Sign + l /\ a = l /\ w >= Sign /\ l \in Int
      BY <2>1, <2>2, Modulo
    <3>2. QED
      BY <3>1, Modulo DEF Signed
  <2>3. CASE h = 1
    <3>1. w = l /\ a = Sign + l /\ ~(w >= Sign) /\ l \in Int
      BY <2>1, <2>3, Modulo
    <3>2. QED
      BY <3>1, Modulo DEF Signed
  <2>4. QED
    BY <2>2, <2>3
<1>14. QED
  BY <1>10, <1>12, <1>13

-----------------------------------------------------------------------------
(* Shifts.                                                                  *)

LEMMA PlainCount ==
  ASSUME NEW n \in 0 .. 2 * Bits - 1
  PROVE  /\ Signed(n) = n /\ n \in Word
         /\ n # 0 => Negative(n) = Modulus - n /\ Signed(Negative(n)) = -n
         /\ n = 0 => Negative(n) = 0
<1>1. n \in Nat /\ n < Sign /\ n < Modulus
  BY WordWidths, Modulo
<1>2. Signed(n) = n /\ n \in Word
  BY <1>1, Modulo DEF Signed, Word
<1>3. ASSUME n # 0
      PROVE  Negative(n) = Modulus - n /\ Signed(Negative(n)) = -n
  <2>1. (-1) * Modulus + (Modulus - n) = 0 - n /\ Modulus - n \in 0 .. Modulus - 1
    BY <1>1, <1>3, Modulo
  <2>2. ((-1) * Modulus + (Modulus - n)) % Modulus = Modulus - n
    <3> DEFINE r == Modulus - n
               q == -1
    <3>1. r \in 0 .. Modulus - 1 /\ q \in Int
      BY <2>1
    <3> HIDE DEF r, q
    <3>2. (q * Modulus + r) % Modulus = r
      BY <3>1, Wraps
    <3>3. QED
      BY <3>2 DEF r, q
  <2>3. Negative(n) = Modulus - n
    BY <2>1, <2>2 DEF Negative, Isub
  <2>4. QED
    BY <1>1, <2>3, Modulo DEF Signed
<1>4. n = 0 => Negative(n) = 0
  <2>1. 0 % Modulus = 0 /\ 0 - 0 = 0
    BY Modulo, Small
  <2>2. QED
    BY <2>1 DEF Negative, Isub
<1>5. QED
  BY <1>2, <1>3, <1>4

LEMMA ShiftedLeft ==
  ASSUME NEW a \in Word, NEW n \in 0 .. Bits
  PROVE  Shl(a, n) = (a * 2 ^ n) % Modulus /\ Shl(a, n) = (a % 2 ^ (Bits - n)) * 2 ^ n
<1>1. Signed(n) = n /\ n >= 0 /\ n \in Nat
  BY PlainCount, WordWidths
<1>2. Shl(a, n) = (a * 2 ^ n) % Modulus
  BY <1>1 DEF Shl
<1> DEFINE d == 2 ^ n
           e == 2 ^ (Bits - n)
<1>3. d \in Nat /\ d >= 1 /\ e \in Nat /\ e >= 1 /\ e * d = Modulus /\ a \in Int
  BY PowerRange, WordBits
<1> HIDE DEF d, e
<1>4. (a * d + 0) % (e * d) = (a % e) * d + 0 /\ a * d + 0 = a * d /\ (a % e) * d + 0 = (a % e) * d
  <2>1. 0 \in 0 .. d - 1
    BY <1>3
  <2>2. (a * d + 0) % (e * d) = (a % e) * d + 0
    BY <1>3, <2>1, Coarser
  <2>3. a % e \in Int
    BY <1>3, Divided
  <2>4. QED
    BY <1>3, <2>2, <2>3
<1>5. (a * d) % Modulus = (a % e) * d
  BY <1>3, <1>4
<1>6. QED
  BY <1>2, <1>5 DEF d, e

LEMMA ShiftedRight ==
  ASSUME NEW a \in Word, NEW n \in 0 .. Bits
  PROVE  Shl(a, Negative(n)) = a \div 2 ^ n
<1>1. n \in 0 .. 2 * Bits - 1 /\ a \in Nat /\ n \in Nat
  BY WordWidths, WordBits
<1>2. CASE n # 0
  <2>1. Signed(Negative(n)) = -n /\ ~(-n >= 0) /\ -(-n) = n
    BY <1>1, <1>2, PlainCount
  <2>2. QED
    BY <2>1 DEF Shl
<1>3. CASE n = 0
  <2>1. Negative(n) = 0 /\ Signed(0) = 0 /\ 2 ^ 0 = 1 /\ 0 >= 0
    BY <1>1, <1>3, PlainCount
  <2>2. Shl(a, Negative(n)) = (a * 1) % Modulus
    BY <2>1 DEF Shl
  <2>3. a * 1 = a /\ a \div 1 = a /\ a \in 0 .. Modulus - 1
    BY <1>1 DEF Word
  <2>4. a % Modulus = a
    BY <2>3, Modulo, Small
  <2>5. QED
    BY <1>3, <2>1, <2>2, <2>3, <2>4
<1>4. QED
  BY <1>2, <1>3

\* What is left of a count when a word is subtracted from it, or it from a word.
LEMMA CountLeft ==
  ASSUME NEW n \in 0 .. 2 * Bits - 1
  PROVE  /\ n <= Bits => Isub(Bits, n) = Bits - n /\ Isub(n, Bits) = Negative(Bits - n)
         /\ n >= Bits => Isub(n, Bits) = n - Bits
<1>1. n \in Nat /\ n < Modulus /\ Bits < Modulus /\ Bits \in Nat
  BY WordWidths, Modulo
<1>2. ASSUME n <= Bits
      PROVE  Isub(Bits, n) = Bits - n /\ Isub(n, Bits) = Negative(Bits - n)
  <2>1. Bits - n \in 0 .. Modulus - 1 /\ 0 - (Bits - n) = n - Bits
    BY <1>1, <1>2, Modulo
  <2>2. QED
    BY <2>1, Modulo, Small DEF Isub, Negative
<1>3. ASSUME n >= Bits
      PROVE  Isub(n, Bits) = n - Bits
  <2>1. n - Bits \in 0 .. Modulus - 1
    BY <1>1, <1>3, Modulo
  <2>2. QED
    BY <2>1, Modulo, Small DEF Isub
<1>4. QED
  BY <1>2, <1>3

\* A word in two parts.
LEMMA Halved ==
  ASSUME NEW a \in Word, NEW n \in 0 .. Bits
  PROVE  /\ a \div 2 ^ n \in 0 .. 2 ^ (Bits - n) - 1 /\ a % 2 ^ n \in 0 .. 2 ^ n - 1
         /\ a = (a \div 2 ^ n) * 2 ^ n + (a % 2 ^ n)
<1> DEFINE d == 2 ^ n
           e == 2 ^ (Bits - n)
           h == a \div d
           l == a % d
<1>1. d \in Nat /\ d >= 1 /\ e \in Nat /\ e >= 1 /\ e * d = Modulus /\ a \in Int /\ a >= 0 /\ a < Modulus
  BY PowerRange, Modulo DEF Word
<1>2. h \in Nat /\ l \in 0 .. d - 1 /\ a = h * d + l
  <2> HIDE DEF d
  <2>1. QED
    BY <1>1, Divided
<1>3. h < e
  <2> SUFFICES ASSUME h >= e
               PROVE  FALSE
    BY <1>1, <1>2
  <2> HIDE DEF d, e, h, l
  <2>1. h * d >= e * d
    BY <1>1, <1>2
  <2>2. QED
    BY <1>1, <1>2, <2>1
<1> HIDE DEF h, l
<1>4. QED
  BY <1>1, <1>2, <1>3 DEF h, l

-----------------------------------------------------------------------------
(* Operations on words.                                                     *)

LEMMA CountMask ==
  ASSUME NEW b \in Word
  PROVE  /\ And(b, Bits - 1) = b % Bits /\ b % Bits \in 0 .. Bits - 1
         /\ And(b, 2 * Bits - 1) = b % (2 * Bits) /\ b % (2 * Bits) \in 0 .. 2 * Bits - 1
<1>1. \E j \in 0 .. Bits : j + 1 \in 0 .. Bits /\ Bits = 2 ^ j /\ 2 * Bits = 2 ^ (j + 1)
  <2>1. 4 = 2 ^ 2 /\ 8 = 2 ^ 3 /\ 16 = 2 ^ 4 /\ 32 = 2 ^ 5 /\ 64 = 2 ^ 6
    OBVIOUS
  <2>2. CASE Bits = 4
    BY <2>1, <2>2
  <2>3. CASE Bits = 8
    BY <2>1, <2>3
  <2>4. CASE Bits = 16
    BY <2>1, <2>4
  <2>5. CASE Bits = 32
    BY <2>1, <2>5
  <2>6. QED
    BY <2>2, <2>3, <2>4, <2>5, WordWidths
<1>2. PICK j \in 0 .. Bits : j + 1 \in 0 .. Bits /\ Bits = 2 ^ j /\ 2 * Bits = 2 ^ (j + 1)
  BY <1>1
<1>3. And(b, 2 ^ j - 1) = b % 2 ^ j /\ b % 2 ^ j \in 0 .. 2 ^ j - 1
  BY Masked
<1>4. And(b, 2 ^ (j + 1) - 1) = b % 2 ^ (j + 1) /\ b % 2 ^ (j + 1) \in 0 .. 2 ^ (j + 1) - 1
  BY <1>2, Masked
<1>5. QED
  BY <1>2, <1>3, <1>4

\* a turned by n bits to the left.
LEMMA Turned ==
  ASSUME NEW a \in Word, NEW n \in 0 .. Bits
  PROVE  LET t == (a % 2 ^ (Bits - n)) * 2 ^ n + a \div 2 ^ (Bits - n) IN
         /\ t \in Word
         /\ Or((a % 2 ^ (Bits - n)) * 2 ^ n, a \div 2 ^ (Bits - n)) = t
         /\ Or(a \div 2 ^ (Bits - n), (a % 2 ^ (Bits - n)) * 2 ^ n) = t
         /\ Rotated(a, n, Bits) = t
<1>1. Bits - n \in 0 .. Bits /\ Bits - (Bits - n) = n
  BY WordWidths
<1>2. a \div 2 ^ (Bits - n) \in 0 .. 2 ^ n - 1 /\ a % 2 ^ (Bits - n) \in 0 .. 2 ^ (Bits - n) - 1
  <2>1. a \div 2 ^ (Bits - n) \in 0 .. 2 ^ (Bits - (Bits - n)) - 1 /\ a % 2 ^ (Bits - n) \in 0 .. 2 ^ (Bits - n) - 1
    BY <1>1, Halved
  <2>2. QED
    BY <1>1, <2>1
<1>3. Rotated(a, n, Bits) = (a % 2 ^ (Bits - n)) * 2 ^ n + a \div 2 ^ (Bits - n)
  BY ShiftedLeft DEF Rotated, Modulus
<1>4. QED
  BY <1>2, <1>3, Joined

LEMMA RotatesLeft ==
  ASSUME NEW a \in Word, NEW n \in 0 .. Bits - 1
  PROVE  RotateLeft(a, n) = Rotated(a, n, Bits)
<1>1. n \in 0 .. Bits /\ n \in 0 .. 2 * Bits - 1 /\ Bits - n \in 0 .. Bits /\ n <= Bits
  BY WordWidths
<1>2. CASE n # 0
  <2>1. Shl(a, n) = (a % 2 ^ (Bits - n)) * 2 ^ n
    BY <1>1, ShiftedLeft
  <2>2. Shl(a, Isub(n, Bits)) = a \div 2 ^ (Bits - n)
    BY <1>1, CountLeft, ShiftedRight
  <2>3. QED
    BY <1>1, <1>2, <2>1, <2>2, Turned DEF RotateLeft
<1>3. CASE n = 0
  <2>1. Shl(a, 0) = (a * 2 ^ 0) % Modulus /\ Negative(0) = 0 /\ Shl(a, Negative(0)) = a \div 2 ^ 0
    BY <1>1, <1>3, ShiftedLeft, ShiftedRight, PlainCount
  <2>2. 2 ^ 0 = 1 /\ a \div 1 = a /\ a \in Nat
    BY WordBits
  <2>3. a \div 2 ^ (Bits - 0) = 0
    <3>1. a \div Modulus = 0 /\ Bits - 0 = Bits
      BY Modulo, Small, WordWidths DEF Word
    <3>2. QED
      BY <3>1 DEF Modulus
  <2>4. QED
    BY <1>3, <2>1, <2>2, <2>3 DEF RotateLeft, Rotated, Modulus
<1>4. QED
  BY <1>2, <1>3

LEMMA RotatesRight ==
  ASSUME NEW a \in Word, NEW n \in 0 .. Bits - 1
  PROVE  RotateRight(a, n) = Rotated(a, (Bits - n) % Bits, Bits)
<1>1. n \in 0 .. Bits /\ n \in 0 .. 2 * Bits - 1 /\ Bits - n \in 0 .. Bits /\ n <= Bits /\ Bits - (Bits - n) = n
  BY WordWidths
<1>2. CASE n # 0
  <2>1. (Bits - n) % Bits = Bits - n
    <3>1. Bits - n \in 0 .. Bits - 1
      BY <1>1, <1>2, WordWidths
    <3>2. QED
      BY <3>1, WordWidths, Small
  <2>2. Shl(a, Negative(n)) = a \div 2 ^ n
    BY <1>1, ShiftedRight
  <2>3. Shl(a, Isub(Bits, n)) = (a % 2 ^ n) * 2 ^ (Bits - n)
    <3>1. Shl(a, Bits - n) = (a % 2 ^ (Bits - (Bits - n))) * 2 ^ (Bits - n)
      BY <1>1, ShiftedLeft
    <3>2. QED
      BY <1>1, <3>1, CountLeft
  <2>4. /\ Or(a \div 2 ^ (Bits - (Bits - n)), (a % 2 ^ (Bits - (Bits - n))) * 2 ^ (Bits - n))
             = Rotated(a, Bits - n, Bits)
    BY <1>1, Turned
  <2>5. QED
    BY <1>1, <1>2, <2>1, <2>2, <2>3, <2>4 DEF RotateRight
<1>3. CASE n = 0
  <2>1. (Bits - n) % Bits = 0
    BY <1>3, WordWidths
  <2>2. RotateLeft(a, 0) = Rotated(a, 0, Bits)
    BY RotatesLeft, WordWidths
  <2>3. QED
    BY <1>3, <2>1, <2>2 DEF RotateRight, RotateLeft
<1>4. QED
  BY <1>2, <1>3

LEMMA SignedRange ==
  ASSUME NEW a \in Word
  PROVE  /\ Signed(a) \in Int /\ Signed(a) >= -Sign /\ Signed(a) < Sign
         /\ (Ilt(a, 0) = 1) <=> (a >= Sign)
         /\ a >= Sign => Signed(a) = a - Modulus
         /\ a < Sign => Signed(a) = a
<1>1. a \in Int /\ a >= 0 /\ a < Modulus
  BY Modulo DEF Word
<1>2. Signed(0) = 0
  BY Modulo DEF Signed
<1>3. QED
  BY <1>1, <1>2, Modulo DEF Signed, Ilt, Flag

\* A shift of a signed word leaves a word less 2^(Bits - n), or one as it is.
LEMMA SignedQuotient ==
  ASSUME NEW a \in Word, NEW n \in 0 .. Bits
  PROVE  /\ a < Sign => Signed(a) \div 2 ^ n = a \div 2 ^ n
         /\ a >= Sign => Signed(a) \div 2 ^ n = a \div 2 ^ n - 2 ^ (Bits - n)
         /\ Signed(a) % 2 ^ n = a % 2 ^ n
<1> DEFINE d == 2 ^ n
           e == 2 ^ (Bits - n)
           q == a \div d
           r == a % d
<1>1. /\ d \in Nat /\ d >= 1 /\ e \in Nat /\ e >= 1 /\ e * d = Modulus
      /\ q \in 0 .. e - 1 /\ r \in 0 .. d - 1 /\ a = q * d + r
  BY PowerRange, Halved
<1>2. CASE a < Sign
  BY <1>2, SignedRange, WordBits, Modulo
<1>3. CASE a >= Sign
  <2>1. Signed(a) = a - Modulus
    BY <1>3, SignedRange
  <2> HIDE DEF d, e, q, r
  <2>2. (q - e) * d = q * d - e * d /\ q - e \in Int
    BY <1>1
  <2>3. Signed(a) = (q - e) * d + r
    BY <1>1, <2>1, <2>2, Modulo
  <2>4. ((q - e) * d + r) \div d = q - e /\ ((q - e) * d + r) % d = r
    BY <1>1, <2>2, Quotient
  <2>5. Signed(a) \div d = q - e /\ Signed(a) % d = r
    BY <2>3, <2>4
  <2>6. ~(a < Sign)
    BY <1>3, WordBits, Modulo
  <2>7. QED
    BY <2>5, <2>6 DEF d, e, q, r
<1>4. QED
  BY <1>2, <1>3, WordBits, Modulo

LEMMA ShiftsSigned ==
  ASSUME NEW a \in Word, NEW n \in 0 .. Bits - 1
  PROVE  ShiftSigned(a, n) = (Signed(a) \div 2 ^ n) % Modulus
<1>1. n \in 0 .. Bits /\ n \in 0 .. 2 * Bits - 1 /\ Bits - n \in 0 .. Bits /\ n <= Bits /\ Bits - (Bits - n) = n
  BY WordWidths
<1> DEFINE d == 2 ^ n
           e == 2 ^ (Bits - n)
           q == a \div d
<1>2. /\ d \in Nat /\ d >= 1 /\ e \in Nat /\ e >= 1 /\ d * e = Modulus /\ e * d = Modulus
      /\ q \in 0 .. e - 1 /\ e <= Modulus
  BY <1>1, PowerRange, Halved
<1>3. Shl(a, Negative(n)) = q
  BY <1>1, ShiftedRight
<1>4. CASE a < Sign
  <2>1. q % Modulus = q
    <3>1. q \in 0 .. Modulus - 1
      BY <1>2, Modulo
    <3> HIDE DEF q
    <3>2. QED
      BY <3>1, Modulo, Small
  <2>2. Signed(a) \div d = q
    BY <1>1, <1>4, SignedQuotient
  <2>3. ~(Ilt(a, 0) = 1)
    BY <1>4, SignedRange, WordBits, Modulo
  <2>4. n = 0 => a = q
    <3>1. 2 ^ 0 = 1 /\ a \in Nat
      BY WordBits
    <3>2. QED
      BY <3>1
  <2>5. QED
    BY <1>3, <2>1, <2>2, <2>3, <2>4 DEF ShiftSigned
<1>5. CASE a >= Sign
  <2>1. Signed(a) \div d = q - e /\ Ilt(a, 0) = 1
    BY <1>1, <1>5, SignedQuotient, SignedRange
  <2>2. (q - e) % Modulus = q + (Modulus - e)
    <3> HIDE DEF q, e
    <3> DEFINE i == -1
               r == q + (Modulus - e)
    <3>1. i \in Int /\ r \in 0 .. Modulus - 1 /\ q - e = i * Modulus + r
      BY <1>2, Modulo
    <3> HIDE DEF i, r
    <3>2. (i * Modulus + r) % Modulus = r
      BY <3>1, Wraps
    <3>3. QED
      BY <3>1, <3>2 DEF r
  <2>3. CASE n = 0
    <3>1. d = 1 /\ a \in Nat /\ q = a /\ e = Modulus
      BY <2>3, WordBits, WordWidths DEF Modulus
    <3>2. QED
      BY <2>1, <2>2, <2>3, <3>1, Modulo DEF ShiftSigned
  <2>4. CASE n # 0
    <3>1. Ones \in Word /\ Ones = Modulus - 1
      BY Modulo DEF Ones, Word
    <3>2. Ones % d = d - 1
      <4> HIDE DEF d, e
      <4> DEFINE i == e - 1
                 r == d - 1
      <4>1. i \in Int /\ r \in 0 .. d - 1 /\ Ones = i * d + r
        BY <1>2, <3>1
      <4> HIDE DEF i, r
      <4>2. (i * d + r) % d = r
        BY <1>2, <4>1, Quotient
      <4>3. QED
        BY <4>1, <4>2 DEF r
    <3>3. Shl(Ones, Bits - n) = (Ones % 2 ^ (Bits - (Bits - n))) * 2 ^ (Bits - n)
      BY <1>1, <3>1, ShiftedLeft
    <3>4. Shl(Ones, Isub(Bits, n)) = (d - 1) * e
      BY <1>1, <3>2, <3>3, CountLeft
    <3>5. d - 1 \in 0 .. 2 ^ (Bits - (Bits - n)) - 1
      BY <1>1, <1>2
    <3>6. Or(q, (d - 1) * e) = (d - 1) * e + q
      BY <1>1, <1>2, <3>5, Joined
    <3>7. (d - 1) * e = Modulus - e
      <4> HIDE DEF d, e
      <4>1. QED
        BY <1>2
    <3>8. ShiftSigned(a, n) = (Modulus - e) + q
      BY <1>3, <2>1, <2>4, <3>4, <3>6, <3>7 DEF ShiftSigned
    <3>9. (Modulus - e) + q = q + (Modulus - e)
      <4> HIDE DEF q, e
      <4>1. QED
        BY <1>2, Modulo
    <3>10. QED
      BY <2>1, <2>2, <3>8, <3>9
  <2>5. QED
    BY <2>3, <2>4
<1>6. QED
  BY <1>4, <1>5, WordBits, Modulo

LEMMA SignTested ==
  ASSUME NEW n \in 1 .. Bits, NEW a \in 0 .. 2 ^ n - 1
  PROVE  (And(a, 2 ^ (n - 1)) = 0) <=> (a < 2 ^ (n - 1))
<1> DEFINE m == n - 1
           d == 2 ^ m
<1>1. m \in Nat /\ m + 1 = n /\ m < 2 * Bits /\ m \in 0 .. Bits - 1 /\ m \in 0 .. Bits
  BY WordWidths
<1>2. d \in Nat /\ d >= 1 /\ 2 ^ (m + 1) = 2 * d /\ 2 * d <= Modulus
  <2>1. 2 ^ (m + 1) = 2 * d
    BY <1>1, WordPairsAssumption, WordWidths
  <2>2. 2 ^ n <= Modulus
    BY PowerRange
  <2>3. QED
    BY <1>1, <2>1, <2>2, PowerRange
<1>3. a \in Word /\ d \in Word /\ 0 \in Word
  BY <1>1, <1>2, Modulo DEF Word
<1>4. PICK h \in {0, 1}, l \in 0 .. 2 ^ m - 1 : a = h * 2 ^ m + l
  BY <1>1, Parted
<1>5. Bit(a, m) = h /\ Bit(And(a, d), m) = Bit(a, m) * Bit(d, m)
  BY <1>1, <1>3, <1>4, TopBit, AndBits
<1>6. 0 \in 0 .. 2 ^ m - 1 /\ 1 * 2 ^ m + 0 = d
  BY <1>2
<1>7. Bit(d, m) = 1 /\ \A k \in 0 .. m - 1 : Bit(d, k) = 0
  <2>1. Bit(1 * 2 ^ m + 0, m) = 1 /\ \A k \in 0 .. m - 1 : Bit(1 * 2 ^ m + 0, k) = Bit(0, k)
    BY <1>1, <1>6, TopBit
  <2>2. \A k \in 0 .. m - 1 : Bit(0, k) = 0
    BY <1>1, ZeroBit, WordWidths
  <2>3. QED
    BY <1>6, <2>1, <2>2
<1>8. ASSUME h = 1
      PROVE  And(a, d) # 0 /\ ~(a < d)
  <2>1. Bit(And(a, d), m) = 1 /\ Bit(0, m) = 0
    BY <1>1, <1>5, <1>7, <1>8, ZeroBit, WordWidths
  <2>2. a = d + l /\ l >= 0 /\ l \in Int
    BY <1>2, <1>4, <1>8
  <2> HIDE DEF d
  <2>3. ~(a < d)
    BY <1>2, <2>2
  <2>4. QED
    BY <2>1, <2>3
<1>9. ASSUME h = 0
      PROVE  And(a, d) = 0 /\ a < d
  <2>1. ASSUME NEW k \in 0 .. Bits - 1
        PROVE  Bit(And(a, d), k) = Bit(0, k)
    <3>1. /\ Bit(And(a, d), k) = Bit(a, k) * Bit(d, k) /\ Bit(0, k) = 0
          /\ Bit(a, k) \in {0, 1} /\ Bit(d, k) \in {0, 1}
      BY <1>3, AndBits, ZeroBit, WordBits, WordWidths
    <3>2. CASE k = m
      BY <1>5, <1>9, <3>1, <3>2
    <3>3. CASE k # m
      <4>1. Bit(d, k) = 0
        <5>1. CASE k < m
          BY <1>1, <1>7, <5>1
        <5>2. CASE m < k
          <6>1. n \in Nat /\ n <= k /\ k <= 2 * Bits /\ k \in Nat /\ d \in 0 .. 2 ^ n - 1
            BY <1>1, <1>2, <5>2, WordWidths
          <6>2. QED
            BY <6>1, BitsAbove
        <5>3. QED
          BY <1>1, <3>3, <5>1, <5>2
      <4>2. QED
        BY <3>1, <4>1
    <3>4. QED
      BY <3>2, <3>3
  <2>2. And(a, d) = 0
    BY <1>3, <2>1, AndBits, SameWord
  <2>3. a = l
    BY <1>2, <1>4, <1>9
  <2>4. QED
    BY <1>2, <2>2, <2>3
<1>10. QED
  BY <1>4, <1>8, <1>9

LEMMA ExtendsSigned ==
  ASSUME NEW a \in Word, NEW n \in 1 .. Bits
  PROVE  ExtendSigned(a, n) = Extended(a, n) % Modulus
<1> DEFINE d == 2 ^ n
           e == 2 ^ (Bits - n)
           l == a % 2 ^ n
<1>1. n \in 0 .. Bits /\ n - 1 \in 0 .. Bits
  BY WordWidths
<1>2. /\ d \in Nat /\ d >= 1 /\ e \in Nat /\ e >= 1 /\ e * d = Modulus /\ d <= Modulus
      /\ l \in 0 .. d - 1 /\ l \in Word /\ And(a, 2 ^ n - 1) = l /\ 2 ^ (n - 1) \in Int
  BY <1>1, PowerRange, Masked
<1>3. (And(l, 2 ^ (n - 1)) = 0) <=> (l < 2 ^ (n - 1))
  BY <1>2, SignTested
<1> HIDE DEF l
<1>4. CASE l < 2 ^ (n - 1)
  <2>1. ExtendSigned(a, n) = l
    BY <1>2, <1>3, <1>4 DEF ExtendSigned
  <2>2. ~(l >= 2 ^ (n - 1))
    BY <1>2, <1>4
  <2>3. Extended(a, n) = l
    BY <2>2 DEF Extended, l
  <2>4. l % Modulus = l
    BY <1>2, Modulo, Small DEF Word
  <2>5. QED
    BY <2>1, <2>3, <2>4
<1>5. CASE ~(l < 2 ^ (n - 1))
  <2>1. ExtendSigned(a, n) = Or(l, Modulus - d)
    BY <1>2, <1>3, <1>5 DEF ExtendSigned
  <2>2. l >= 2 ^ (n - 1)
    BY <1>2, <1>5
  <2>3. Extended(a, n) = l - d
    BY <2>2 DEF Extended, l
  <2>4. (e - 1) * d = Modulus - d /\ e - 1 \in 0 .. e - 1
    <3> HIDE DEF d, e
    <3>1. QED
      BY <1>2
  <2>5. Or(l, (e - 1) * d) = (e - 1) * d + l
    BY <1>1, <1>2, <2>4, Joined
  <2>6. (l - d) % Modulus = (Modulus - d) + l
    <3> HIDE DEF d, e
    <3> DEFINE i == -1
               r == (Modulus - d) + l
    <3>1. i \in Int /\ r \in 0 .. Modulus - 1 /\ l - d = i * Modulus + r
      BY <1>2, Modulo
    <3> HIDE DEF i, r
    <3>2. (i * Modulus + r) % Modulus = r
      BY <3>1, Wraps
    <3>3. QED
      BY <3>1, <3>2 DEF r
  <2>7. QED
    BY <2>1, <2>3, <2>4, <2>5, <2>6
<1>6. QED
  BY <1>4, <1>5

LEMMA UnsignedOrder ==
  ASSUME NEW a \in Word, NEW b \in Word
  PROVE  /\ Ilt(Biased(a), Biased(b)) = Flag(a < b) /\ Ile(Biased(a), Biased(b)) = Flag(a <= b)
         /\ Igt(Biased(a), Biased(b)) = Flag(a > b) /\ Ige(Biased(a), Biased(b)) = Flag(a >= b)
<1>1. a \in Int /\ b \in Int /\ Sign \in Int
  BY WordBits, Modulo
<1>2. Signed(Biased(a)) = a - Sign /\ Signed(Biased(b)) = b - Sign
  BY BiasedValue
<1>3. /\ (a - Sign < b - Sign) <=> (a < b)
      /\ (a - Sign <= b - Sign) <=> (a <= b)
      /\ (b - Sign < a - Sign) <=> (a > b)
      /\ (b - Sign <= a - Sign) <=> (a >= b)
  BY <1>1
<1>4. QED
  BY <1>2, <1>3 DEF Ilt, Ile, Igt, Ige, Flag

\* Only the least word divided by -1 has a quotient that is not a word.
LEMMA QuotientFits ==
  ASSUME NEW a \in Word, NEW b \in Word, b # 0
  PROVE  (Truncated(Signed(a), Signed(b)) = Sign) <=> (a = Sign /\ b = Ones)
<1> DEFINE x == Signed(a)
           y == Signed(b)
           m == IF x < 0 THEN -x ELSE x
           n == IF y < 0 THEN -y ELSE y
           q == m \div n
<1>1. /\ x \in Int /\ x >= -Sign /\ x < Sign /\ y \in Int /\ y >= -Sign /\ y < Sign /\ y # 0
      /\ (x = -Sign) <=> (a = Sign)
      /\ (y = -1) <=> (b = Ones)
  BY Modulo DEF Signed, Word, Ones
<1> HIDE DEF x, y
<1>2. m \in Nat /\ m <= Sign /\ n \in Nat /\ n >= 1 /\ (m = Sign => x = -Sign) /\ (n = 1 => y = 1 \/ y = -1)
      /\ m \in Int /\ m >= 0
  BY <1>1, Modulo
<1>3. Truncated(x, y) = IF (x < 0) <=> (y < 0) THEN q ELSE -q
  BY DEF Truncated
<1>4. q \in Nat /\ m % n \in 0 .. n - 1 /\ m = q * n + (m % n)
  <2> HIDE DEF m, n
  <2>1. QED
    BY <1>2, Divided
<1>5. ASSUME a = Sign, b = Ones
      PROVE  Truncated(x, y) = Sign
  <2>0. x = -Sign /\ y = -1
    BY <1>1, <1>5
  <2>a. Sign \in Nat /\ Sign >= 8 /\ x < 0 /\ y < 0
    BY <2>0, Modulo
  <2>b. m = -x /\ n = -y
    BY <2>a
  <2>c. -(-Sign) = Sign /\ y + 1 = 0 /\ y \in Int
    BY <1>1, <2>0, <2>a
  <2>d. m = Sign
    BY <2>0, <2>b, <2>c
  <2>e. n = 1
    <3>1. -y = 1
      BY <2>c
    <3>2. QED
      BY <2>b, <3>1
  <2>1. m = Sign /\ n = 1 /\ x < 0 /\ y < 0
    BY <2>a, <2>d, <2>e
  <2>2. q = Sign
    BY <2>1, Modulo
  <2>3. QED
    BY <1>3, <2>1, <2>2, Modulo
<1>6. ASSUME Truncated(x, y) = Sign
      PROVE  a = Sign /\ b = Ones
  <2>1. q = Sign /\ ((x < 0) <=> (y < 0))
    <3> HIDE DEF q
    <3>1. QED
      BY <1>3, <1>4, <1>6, Modulo
  <2>2. n = 1 /\ m = Sign
    <3> DEFINE r == m % n
    <3>1. r \in Nat /\ m = Sign * n + r
      BY <1>4, <2>1
    <3> HIDE DEF m, n, r
    <3>2. Sign * n >= Sign /\ (n >= 2 => Sign * n >= 2 * Sign)
      BY <1>2, Modulo
    <3> DEFINE p == Sign * n
    <3>3. p >= Sign /\ (n >= 2 => p >= 2 * Sign) /\ m = p + r /\ p \in Int
      BY <1>2, <3>1, <3>2, Modulo
    <3> HIDE DEF p
    <3>4. p = Sign /\ r = 0 /\ n = 1
      BY <1>2, <3>1, <3>3, Modulo
    <3>5. QED
      BY <3>3, <3>4, Modulo
  <2>3. x = -Sign /\ y = -1
    BY <1>2, <2>1, <2>2, Modulo
  <2>4. QED
    BY <1>1, <2>3
<1>7. QED
  BY <1>5, <1>6 DEF x, y

LEMMA WordsAgree ==
  ASSUME NEW o \in WordOps, NEW a \in Word, NEW b \in Word
  PROVE  LowerWords(o, a, b) = WasmWords(o, a, b)
<1> DEFINE n == b % Bits
<1>1. /\ And(b, Bits - 1) = n /\ n \in 0 .. Bits - 1 /\ n \in 0 .. Bits /\ n \in 0 .. 2 * Bits - 1
      /\ Bits \div 4 \in 1 .. Bits /\ Half \in 1 .. Bits
  BY CountMask, WordWidths DEF Half
<1> HIDE DEF n
<1>2. CASE o = "shl"
  <2>1. Shl(a, n) = (a * 2 ^ n) % Modulus
    BY <1>1, ShiftedLeft
  <2>2. QED
    BY <1>1, <1>2, <2>1 DEF LowerWords, WasmWords, n
<1>3. CASE o = "shr_u"
  <2>1. Shl(a, Negative(n)) = a \div 2 ^ n
    BY <1>1, ShiftedRight
  <2>2. QED
    BY <1>1, <1>3, <2>1 DEF LowerWords, WasmWords, n
<1>4. CASE o = "shr_s"
  <2>1. ShiftSigned(a, n) = (Signed(a) \div 2 ^ n) % Modulus
    BY <1>1, ShiftsSigned
  <2>2. QED
    BY <1>1, <1>4, <2>1 DEF LowerWords, WasmWords, n
<1>5. CASE o = "rotl"
  <2>1. RotateLeft(a, n) = Rotated(a, n, Bits)
    BY <1>1, RotatesLeft
  <2>2. QED
    BY <1>1, <1>5, <2>1 DEF LowerWords, WasmWords, n
<1>6. CASE o = "rotr"
  <2>1. RotateRight(a, n) = Rotated(a, (Bits - n) % Bits, Bits)
    BY <1>1, RotatesRight
  <2>2. QED
    BY <1>1, <1>6, <2>1 DEF LowerWords, WasmWords, n
<1>7. CASE o \in {"extend8", "extend16"}
  <2>1. /\ ExtendSigned(a, Bits \div 4) = Extended(a, Bits \div 4) % Modulus
        /\ ExtendSigned(a, Half) = Extended(a, Half) % Modulus
    BY <1>1, ExtendsSigned
  <2>2. QED
    BY <1>7, <2>1 DEF LowerWords, WasmWords
<1>8. CASE o \in {"lt_u", "le_u", "gt_u", "ge_u"}
  BY <1>8, UnsignedOrder DEF LowerWords, WasmWords
<1>9. CASE o = "div_s"
  <2>1. CASE b = 0
    BY <1>9, <2>1 DEF LowerWords, WasmWords
  <2>2. CASE b # 0
    <3>1. (Truncated(Signed(a), Signed(b)) = Sign) <=> (a = Sign /\ b = Ones)
      BY <2>2, QuotientFits
    <3>2. WasmWords(o, a, b) = IF Truncated(Signed(a), Signed(b)) = Sign THEN Trap
                               ELSE Answer(Truncated(Signed(a), Signed(b)) % Modulus)
      BY <1>9, <2>2 DEF WasmWords
    <3>3. LowerWords(o, a, b) = IF a = Sign /\ b = Ones THEN Trap
                                ELSE Answer(Truncated(Signed(a), Signed(b)) % Modulus)
      BY <1>9, <2>2 DEF LowerWords, Idiv
    <3>4. QED
      BY <3>1, <3>2, <3>3
  <2>3. QED
    BY <2>1, <2>2
<1>10. CASE o = "rem_s"
  <2>1. CASE b = 0
    BY <1>10, <2>1 DEF LowerWords, WasmWords
  <2>2. CASE b # 0
    <3>1. WasmWords(o, a, b) = Answer(Remainder(Signed(a), Signed(b)) % Modulus)
      BY <1>10, <2>2 DEF WasmWords
    <3>2. LowerWords(o, a, b) = Answer(Imod(a, b))
      BY <1>10, <2>2 DEF LowerWords
    <3>3. QED
      BY <3>1, <3>2 DEF Imod, Remainder
  <2>3. QED
    BY <2>1, <2>2
<1>11. QED
  BY <1>2, <1>3, <1>4, <1>5, <1>6, <1>7, <1>8, <1>9, <1>10 DEF WordOps

-----------------------------------------------------------------------------
(* Operations on pairs.                                                     *)

LEMMA Assembled ==
  ASSUME NEW lo \in Word, NEW hi \in Word, NEW v, \E r \in Int : v = lo + Modulus * (hi + Modulus * r)
  PROVE  v % Modulus = lo /\ (v \div Modulus) % Modulus = hi /\ PairOf(v) = PairAnswer(lo, hi)
<1>1. lo \in 0 .. Modulus - 1 /\ hi \in 0 .. Modulus - 1 /\ Modulus \in Int /\ lo \in Int /\ hi \in Int
  BY Modulo DEF Word
<1>a. PICK r \in Int : v = lo + Modulus * (hi + Modulus * r)
  OBVIOUS
<1> DEFINE q == hi + Modulus * r
<1>2. q = r * Modulus + hi /\ q \in Int
  BY <1>1
<1>3. q % Modulus = hi
  BY <1>1, <1>2, Wraps
<1>b. v = lo + Modulus * q
  BY <1>a
<1> HIDE DEF q
<1>4. v = q * Modulus + lo
  BY <1>1, <1>2, <1>b
<1>5. (q * Modulus + lo) % Modulus = lo /\ (q * Modulus + lo) \div Modulus = q
  BY <1>1, <1>2, Wraps
<1>6. v % Modulus = lo /\ v \div Modulus = q
  BY <1>4, <1>5
<1>7. QED
  BY <1>3, <1>6 DEF PairOf

LEMMA Wrapping ==
  ASSUME NEW x \in Int
  PROVE  x % Modulus \in Word /\ \E r \in Int : x = Modulus * r + (x % Modulus)
<1> DEFINE m == Modulus
           q == x \div m
           s == x % m
<1>1. m \in Nat /\ m >= 1
  BY Modulo
<1>2. q \in Int /\ s \in 0 .. m - 1 /\ x = q * m + s
  <2> HIDE DEF m
  <2>1. QED
    BY <1>1, Divided
<1> HIDE DEF q, s
<1>3. x = m * q + s
  BY <1>1, <1>2
<1>4. QED
  BY <1>2, <1>3 DEF s, Word

\* Words that differ by a multiple of Modulus are the same.
LEMMA Unique ==
  ASSUME NEW w \in Word, NEW r \in Int, NEW x, x = Modulus * r + w
  PROVE  x % Modulus = w
<1>1. w \in 0 .. Modulus - 1 /\ Modulus * r = r * Modulus
  BY Modulo DEF Word
<1>2. (r * Modulus + w) % Modulus = w
  BY <1>1, Wraps
<1>3. QED
  BY <1>1, <1>2

LEMMA Remainders ==
  ASSUME NEW x \in Int
  PROVE  \E r \in Int, w \in Word : /\ x % Modulus = w /\ x = Modulus * r + w
                                  /\ w \in Int /\ w >= 0 /\ w < Modulus
<1> DEFINE s == x % Modulus
<1>1. s \in Word /\ \E r \in Int : x = Modulus * r + s
  BY Wrapping
<1> HIDE DEF s
<1>2. s \in Int /\ s >= 0 /\ s < Modulus
  BY <1>1, Modulo DEF Word
<1>3. QED
  BY <1>1, <1>2 DEF s

LEMMA WrapsOnce ==
  ASSUME NEW x \in Int, NEW y \in Int
  PROVE  ((x % Modulus) + y) % Modulus = (x + y) % Modulus
         /\ ((x % Modulus) - y) % Modulus = (x - y) % Modulus
<1>1. Modulus \in Int
  BY Modulo
<1>2. PICK r \in Int, s \in Word : x % Modulus = s /\ x = Modulus * r + s /\ s \in Int
  BY Remainders
<1>3. ASSUME NEW z \in Int
      PROVE  (s + z) % Modulus = (x + z) % Modulus
  <2> DEFINE v == s + z
  <2>1. v \in Int
    BY <1>2
  <2> HIDE DEF v
  <2>2. PICK u \in Int, t \in Word : v % Modulus = t /\ v = Modulus * u + t /\ t \in Int
    BY <2>1, Remainders
  <2>3. Modulus * (r + u) = Modulus * r + Modulus * u
    BY <1>1
  <2>4. x + z = Modulus * (r + u) + t
    <3>1. s + z = Modulus * u + t
      BY <2>2 DEF v
    <3>2. QED
      BY <1>1, <1>2, <2>2, <2>3, <3>1
  <2>5. (x + z) % Modulus = t
    BY <2>2, <2>4, Unique
  <2>6. QED
    BY <2>2, <2>5 DEF v
<1>4. -y \in Int /\ s + (-y) = s - y /\ x + (-y) = x - y
  BY <1>2
<1>5. (s + (-y)) % Modulus = (x + (-y)) % Modulus
  BY <1>3, <1>4
<1>6. QED
  BY <1>2, <1>3, <1>4, <1>5

LEMMA PairFields ==
  ASSUME NEW a \in WordPair
  PROVE  /\ a.low \in Word /\ a.high \in Word /\ a.low \in Int /\ a.high \in Int /\ a = P(a.low, a.high)
         /\ a.low >= 0 /\ a.low < Modulus /\ a.high >= 0 /\ a.high < Modulus
         /\ Number(a) = a.low + Modulus * a.high /\ Number(a) \in Int
         /\ SignedNumber(a) = a.low + Modulus * Signed(a.high) /\ SignedNumber(a) \in Int
<1>1. a.low \in Word /\ a.high \in Word /\ a = P(a.low, a.high)
  BY DEF WordPair, P
<1>2. /\ a.low \in Int /\ a.high \in Int /\ Modulus \in Int
      /\ a.low >= 0 /\ a.low < Modulus /\ a.high >= 0 /\ a.high < Modulus
  BY <1>1, Modulo DEF Word
<1>3. Signed(a.high) \in Int
  BY <1>1, SignedRange
<1>4. QED
  BY <1>1, <1>2, <1>3 DEF Number, SignedNumber

LEMMA PairAdds ==
  ASSUME NEW a \in WordPair, NEW b \in WordPair
  PROVE  Both(PairAdd(a, b)) = PairOf(Number(a) + Number(b))
<1> DEFINE s == a.low + b.low
           lo == Iadd(a.low, b.low)
           c == Ilt(Biased(lo), Biased(a.low))
           t == a.high + b.high
           hi == Iadd(Iadd(a.high, b.high), c)
<1>1. s \in Int /\ t \in Int /\ lo \in Word /\ lo = s % Modulus /\ lo \in Int /\ lo >= 0 /\ lo < Modulus
      /\ Modulus \in Int
  <2>1. s \in Int /\ t \in Int
    BY PairFields
  <2>2. lo = s % Modulus
    BY DEF Iadd
  <2> HIDE DEF s, t, lo
  <2>3. lo \in Word
    BY <2>1, <2>2, Wrapping
  <2>4. QED
    BY <2>1, <2>2, <2>3, Modulo DEF Word
<1>2. c = Flag(lo < a.low)
  <2> HIDE DEF lo
  <2>1. QED
    BY <1>1, PairFields, UnsignedOrder
<1> HIDE DEF lo, c
<1>3. c \in {0, 1} /\ s = lo + Modulus * c
  <2>1. CASE s < Modulus
    <3>1. s \in 0 .. Modulus - 1
      BY <1>1, <2>1, PairFields
    <3>2. lo = s
      BY <1>1, <3>1, Modulo, Small
    <3>3. ~(lo < a.low)
      BY <3>2, PairFields
    <3>4. QED
      BY <1>1, <1>2, <3>2, <3>3 DEF Flag
  <2>2. CASE ~(s < Modulus)
    <3>1. s - Modulus \in Word /\ s = Modulus * 1 + (s - Modulus)
      BY <1>1, <2>2, PairFields, Modulo DEF Word
    <3>2. lo = s - Modulus
      BY <1>1, <3>1, Unique
    <3>3. lo < a.low
      BY <1>1, <3>2, PairFields
    <3>4. QED
      BY <1>1, <1>2, <3>2, <3>3 DEF Flag
  <2>3. QED
    BY <2>1, <2>2
<1>4. hi = (t + c) % Modulus
  <2>1. c \in Int
    BY <1>3
  <2> HIDE DEF t
  <2>2. ((t % Modulus) + c) % Modulus = (t + c) % Modulus
    BY <1>1, <2>1, WrapsOnce
  <2>3. QED
    BY <2>2 DEF Iadd, t
<1>5. t + c \in Int
  BY <1>1, <1>3
<1>6. hi \in Word /\ \E r \in Int : t + c = Modulus * r + hi
  BY <1>4, <1>5, Wrapping
<1> HIDE DEF hi
<1>7. PICK r \in Int : t + c = Modulus * r + hi
  BY <1>6
<1>8. Number(a) + Number(b) = lo + Modulus * (hi + Modulus * r)
  <2>1. Number(a) + Number(b) = s + Modulus * t
    <3>1. Modulus * (a.high + b.high) = Modulus * a.high + Modulus * b.high
      BY <1>1, PairFields
    <3>2. QED
      BY <1>1, <3>1, PairFields
  <2> HIDE DEF s, t
  <2>2. Modulus * (t + c) = Modulus * t + Modulus * c
    BY <1>1, <1>3
  <2>3. s + Modulus * t = lo + Modulus * (t + c)
    BY <1>1, <1>3, <2>2
  <2>4. hi \in Int
    BY <1>6, Modulo DEF Word
  <2>5. QED
    BY <1>7, <2>1, <2>3, <2>4, <1>1
<1>9. PairOf(Number(a) + Number(b)) = PairAnswer(lo, hi)
  <2> DEFINE v == Number(a) + Number(b)
  <2>1. \E z \in Int : v = lo + Modulus * (hi + Modulus * z)
    BY <1>7, <1>8
  <2> HIDE DEF v
  <2>2. lo \in Word /\ hi \in Word
    BY <1>1, <1>6
  <2>3. PairOf(v) = PairAnswer(lo, hi)
    BY <2>1, <2>2, Assembled
  <2>4. QED
    BY <2>3 DEF v
<1>10. QED
  BY <1>9 DEF PairAdd, Both, P, lo, c, hi

LEMMA PairSubtracts ==
  ASSUME NEW a \in WordPair, NEW b \in WordPair
  PROVE  Both(PairSub(a, b)) = PairOf(Number(a) - Number(b))
<1> DEFINE s == a.low - b.low
           lo == Isub(a.low, b.low)
           c == Igt(Biased(lo), Biased(a.low))
           t == a.high - b.high
           hi == Isub(Isub(a.high, b.high), c)
<1>1. s \in Int /\ t \in Int /\ lo \in Word /\ lo = s % Modulus /\ lo \in Int /\ lo >= 0 /\ lo < Modulus
      /\ Modulus \in Int
  <2>1. s \in Int /\ t \in Int
    BY PairFields
  <2>2. lo = s % Modulus
    BY DEF Isub
  <2> HIDE DEF s, t, lo
  <2>3. lo \in Word
    BY <2>1, <2>2, Wrapping
  <2>4. QED
    BY <2>1, <2>2, <2>3, Modulo DEF Word
<1>2. c = Flag(lo > a.low)
  <2> HIDE DEF lo
  <2>1. QED
    BY <1>1, PairFields, UnsignedOrder
<1> HIDE DEF lo, c
<1>3. c \in {0, 1} /\ s = lo - Modulus * c
  <2>1. CASE s >= 0
    <3>1. s \in 0 .. Modulus - 1
      BY <1>1, <2>1, PairFields
    <3>2. lo = s
      BY <1>1, <3>1, Modulo, Small
    <3>3. ~(lo > a.low)
      BY <3>2, PairFields
    <3>4. QED
      BY <1>1, <1>2, <3>2, <3>3 DEF Flag
  <2>2. CASE ~(s >= 0)
    <3> DEFINE i == -1
    <3>1. s + Modulus \in Word /\ i \in Int /\ s = Modulus * i + (s + Modulus)
      BY <1>1, <2>2, PairFields, Modulo DEF Word
    <3> HIDE DEF i
    <3>2. lo = s + Modulus
      BY <1>1, <3>1, Unique
    <3>3. lo > a.low
      BY <1>1, <3>2, PairFields
    <3>4. QED
      BY <1>1, <1>2, <3>2, <3>3 DEF Flag
  <2>3. QED
    BY <2>1, <2>2
<1>4. hi = (t - c) % Modulus
  <2>1. c \in Int
    BY <1>3
  <2> HIDE DEF t
  <2>2. ((t % Modulus) - c) % Modulus = (t - c) % Modulus
    BY <1>1, <2>1, WrapsOnce
  <2>3. QED
    BY <2>2 DEF Isub, t
<1>5. t - c \in Int
  BY <1>1, <1>3
<1>6. hi \in Word /\ \E r \in Int : t - c = Modulus * r + hi
  BY <1>4, <1>5, Wrapping
<1> HIDE DEF hi
<1>7. PICK r \in Int : t - c = Modulus * r + hi
  BY <1>6
<1>8. Number(a) - Number(b) = lo + Modulus * (hi + Modulus * r)
  <2>1. Number(a) - Number(b) = s + Modulus * t
    <3>1. Modulus * (a.high - b.high) = Modulus * a.high - Modulus * b.high
      BY <1>1, PairFields
    <3>2. QED
      BY <1>1, <3>1, PairFields
  <2> HIDE DEF s, t
  <2>2. Modulus * (t - c) = Modulus * t - Modulus * c
    BY <1>1, <1>3
  <2>3. s + Modulus * t = lo + Modulus * (t - c)
    BY <1>1, <1>3, <2>2
  <2>4. hi \in Int
    BY <1>6, Modulo DEF Word
  <2>5. QED
    BY <1>7, <2>1, <2>3, <2>4, <1>1
<1>9. PairOf(Number(a) - Number(b)) = PairAnswer(lo, hi)
  <2> DEFINE v == Number(a) - Number(b)
  <2>1. \E z \in Int : v = lo + Modulus * (hi + Modulus * z)
    BY <1>7, <1>8
  <2> HIDE DEF v
  <2>2. lo \in Word /\ hi \in Word
    BY <1>1, <1>6
  <2>3. PairOf(v) = PairAnswer(lo, hi)
    BY <2>1, <2>2, Assembled
  <2>4. QED
    BY <2>3 DEF v
<1>10. QED
  BY <1>9 DEF PairSub, Both, P, lo, c, hi

LEMMA Wrapped ==
  ASSUME NEW x \in Int, NEW y \in Int
  PROVE  Iadd(x % Modulus, y) = (x + y) % Modulus /\ Iadd(x, y % Modulus) = (x + y) % Modulus
<1>1. ((x % Modulus) + y) % Modulus = (x + y) % Modulus /\ ((y % Modulus) + x) % Modulus = (y + x) % Modulus
  BY WrapsOnce
<1>2. PICK r \in Int, w \in Word : y % Modulus = w /\ w \in Int
  BY Remainders
<1>3. w + x = x + w /\ y + x = x + y
  BY <1>2
<1>4. QED
  BY <1>1, <1>2, <1>3 DEF Iadd

\* The limbs of a word, half a word each.
LEMMA Limb ==
  ASSUME NEW w \in Word
  PROVE  \E p \in 0 .. 2 ^ Half - 1, q \in 0 .. 2 ^ Half - 1 :
           /\ And(w, 2 ^ Half - 1) = p /\ Shl(w, Negative(Half)) = q /\ w = q * 2 ^ Half + p
           /\ p \in Word /\ q \in Word /\ And(q, 2 ^ Half - 1) = q /\ And(p, 2 ^ Half - 1) = p
<1> DEFINE d == 2 ^ Half
           e == 2 ^ (Bits - Half)
           p == w % d
           q == w \div d
<1>1. Half \in 0 .. Bits /\ Bits - Half = Half
  BY WordWidths
<1>2. d \in Nat /\ d >= 1 /\ d <= Modulus /\ e = d
  BY <1>1, PowerRange
<1>3. And(w, d - 1) = p /\ Shl(w, Negative(Half)) = q
  BY <1>1, Masked, ShiftedRight
<1>4. q \in 0 .. e - 1 /\ p \in 0 .. d - 1 /\ w = q * d + p
  BY <1>1, Halved
<1> HIDE DEF p, q, d, e
<1>5. ASSUME NEW r \in 0 .. d - 1
      PROVE  r \in Word /\ And(r, d - 1) = r
  <2>1. r \in Word
    BY <1>2, Modulo DEF Word
  <2>2. And(r, 2 ^ Half - 1) = r % 2 ^ Half
    BY <1>1, <2>1, Masked
  <2>3. r % d = r
    BY <1>2, Small
  <2>4. QED
    BY <2>1, <2>2, <2>3 DEF d
<1>6. p \in 0 .. d - 1 /\ q \in 0 .. d - 1
  BY <1>2, <1>4
<1>7. p \in Word /\ And(p, d - 1) = p /\ q \in Word /\ And(q, d - 1) = q
  BY <1>5, <1>6
<1>8. QED
  BY <1>3, <1>4, <1>6, <1>7 DEF d

\* Schoolbook multiplication, in limbs below h.
LEMMA Schoolbook ==
  ASSUME NEW h \in Int, NEW a0 \in Int, NEW a1 \in Int, NEW b0 \in Int, NEW b1 \in Int,
         NEW l0 \in Int, NEW l1 \in Int, NEW m0 \in Int, NEW m1 \in Int, NEW c0 \in Int, NEW c1 \in Int,
         a0 * b0 = l1 * h + l0, a1 * b0 + l1 = m1 * h + m0, m0 + a0 * b1 = c1 * h + c0
  PROVE  (a1 * h + a0) * (b1 * h + b0) = (h * h) * (a1 * b1 + m1 + c1) + (c0 * h + l0)
<1>1. (a1 * h + a0) * (b1 * h + b0) = (h * h) * (a1 * b1) + (a1 * b0 + a0 * b1) * h + a0 * b0
  OBVIOUS
<1>2. a1 * b0 + a0 * b1 = m1 * h + c1 * h + c0 - l1
  OBVIOUS
<1> DEFINE s == a1 * b0 + a0 * b1
           t == a1 * b1
<1>3. s * h = (m1 * h + c1 * h + c0 - l1) * h
  BY <1>2
<1>4. (m1 * h + c1 * h + c0 - l1) * h = (h * h) * m1 + (h * h) * c1 + c0 * h - l1 * h
  OBVIOUS
<1>5. (h * h) * (t + m1 + c1) = (h * h) * t + (h * h) * m1 + (h * h) * c1
  OBVIOUS
<1>6. (a1 * h + a0) * (b1 * h + b0) = (h * h) * t + s * h + (l1 * h + l0)
  BY <1>1
<1>7. QED
  BY <1>3, <1>4, <1>5, <1>6

LEMMA LimbProduct ==
  ASSUME NEW h \in Nat, h >= 1, NEW x \in 0 .. h - 1, NEW y \in 0 .. h - 1
  PROVE  x * y \in Nat /\ x * y + 2 * (h - 1) < h * h
<1> DEFINE g == h - 1
           u == g - x
           v == g - y
<1>1. u \in Nat /\ v \in Nat /\ g \in Nat /\ x \in Nat /\ y \in Nat
  OBVIOUS
<1>2. u * g \in Nat /\ v * x \in Nat /\ x * y \in Nat
  BY <1>1
<1>3. u * g + v * x = g * g - x * y
  BY <1>1
<1>4. h * h = g * g + 2 * g + 1
  OBVIOUS
<1>5. g * g \in Int
  BY <1>1
<1> HIDE DEF u, v
<1>6. QED
  BY <1>1, <1>2, <1>3, <1>4, <1>5

LEMMA LowProduct ==
  ASSUME NEW x \in Word, NEW y \in Word
  PROVE  LET Lower(w) == And(w, 2 ^ Half - 1)
             Upper(w) == Shl(w, Negative(Half))
             low == Imul(Lower(x), Lower(y))
             middle == Iadd(Imul(Lower(Upper(x)), Lower(y)), Upper(low))
             cross == Iadd(Lower(middle), Imul(Lower(x), Lower(Upper(y))))
             carried == Iadd(Iadd(Imul(Lower(Upper(x)), Lower(Upper(y))), Upper(middle)), Upper(cross))
             lo == Or(Shl(Lower(cross), Half), Lower(low))
         IN lo \in Word /\ carried \in Word /\ x * y = lo + Modulus * carried
<1> DEFINE Lower(w) == And(w, 2 ^ Half - 1)
           Upper(w) == Shl(w, Negative(Half))
           low == Imul(Lower(x), Lower(y))
           middle == Iadd(Imul(Lower(Upper(x)), Lower(y)), Upper(low))
           cross == Iadd(Lower(middle), Imul(Lower(x), Lower(Upper(y))))
           carried == Iadd(Iadd(Imul(Lower(Upper(x)), Lower(Upper(y))), Upper(middle)), Upper(cross))
           lo == Or(Shl(Lower(cross), Half), Lower(low))
           h == 2 ^ Half
<1>1. h \in Nat /\ h >= 1 /\ h * h = Modulus /\ Modulus \in Nat /\ Modulus >= 1
  <2>1. Half \in 0 .. Bits /\ Bits - Half = Half
    BY WordWidths
  <2>2. 2 ^ (Bits - Half) * 2 ^ Half = Modulus /\ 2 ^ Half \in Nat /\ 2 ^ Half >= 1
    BY <2>1, PowerRange
  <2>3. QED
    BY <2>1, <2>2, Modulo
<1>2. ASSUME NEW w \in Word
      PROVE  \E p \in 0 .. h - 1, q \in 0 .. h - 1 :
               /\ Lower(w) = p /\ Upper(w) = q /\ w = q * h + p
               /\ p \in Word /\ q \in Word /\ Lower(q) = q /\ Lower(p) = p
  BY Limb
<1>3. ASSUME NEW z \in Nat, z < Modulus
      PROVE  z % Modulus = z /\ z \in Word
  <2>1. z \in 0 .. Modulus - 1
    BY <1>1, <1>3
  <2> DEFINE m == Modulus
  <2> HIDE DEF m
  <2>2. z \in 0 .. m - 1 /\ m \in Nat /\ m >= 1
    BY <1>1, <2>1 DEF m
  <2>3. z % m = z
    BY <2>2, Small
  <2>4. QED
    BY <2>1, <2>3 DEF Word, m
<1>4. PICK a0 \in 0 .. h - 1, a1 \in 0 .. h - 1 :
        Lower(x) = a0 /\ Upper(x) = a1 /\ x = a1 * h + a0 /\ Lower(a1) = a1
  BY <1>2
<1>5. PICK b0 \in 0 .. h - 1, b1 \in 0 .. h - 1 :
        Lower(y) = b0 /\ Upper(y) = b1 /\ y = b1 * h + b0 /\ Lower(b1) = b1
  BY <1>2
<1>x. low = (a0 * b0) % Modulus
  BY <1>4, <1>5 DEF Imul
<1> HIDE DEF h
<1>6. a0 * b0 \in Nat /\ a0 * b0 + 2 * (h - 1) < h * h
  BY <1>1, LimbProduct
<1>7. low = a0 * b0 /\ low \in Word
  <2> DEFINE z == a0 * b0
  <2>1. z \in Nat /\ z < Modulus
    BY <1>1, <1>6
  <2> HIDE DEF z
  <2>2. z % Modulus = z /\ z \in Word
    BY <1>3, <2>1
  <2>3. QED
    BY <1>x, <2>2 DEF z
<1>8. PICK l0 \in 0 .. h - 1, l1 \in 0 .. h - 1 :
        Lower(low) = l0 /\ Upper(low) = l1 /\ low = l1 * h + l0 /\ l0 \in Word
  <2> HIDE DEF Lower, Upper, low
  <2>1. QED
    BY <1>2, <1>7
<1>9. a1 * b0 \in Nat /\ a1 * b0 + 2 * (h - 1) < h * h
  BY <1>1, LimbProduct
<1>10. middle = a1 * b0 + l1 /\ middle \in Word
  <2> DEFINE z == a1 * b0
             u == z + l1
  <2>1. z \in Nat /\ z < Modulus /\ u \in Nat /\ u < Modulus
    BY <1>1, <1>9
  <2>2. middle = ((z % Modulus) + l1) % Modulus
    BY <1>4, <1>5, <1>8 DEF Imul, Iadd
  <2> HIDE DEF z, u, middle
  <2>3. z % Modulus = z /\ u % Modulus = u /\ u \in Word
    BY <1>3, <2>1
  <2>4. middle = u /\ u \in Word
    BY <2>2, <2>3 DEF u
  <2>5. QED
    BY <2>4 DEF u, z
<1>11. PICK m0 \in 0 .. h - 1, m1 \in 0 .. h - 1 :
        Lower(middle) = m0 /\ Upper(middle) = m1 /\ middle = m1 * h + m0
  <2> HIDE DEF Lower, Upper, middle
  <2>1. QED
    BY <1>2, <1>10
<1>12. a0 * b1 \in Nat /\ a0 * b1 + 2 * (h - 1) < h * h
  BY <1>1, LimbProduct
<1>13. cross = m0 + a0 * b1 /\ cross \in Word
  <2> DEFINE z == a0 * b1
             u == m0 + z
  <2>1. z \in Nat /\ z < Modulus /\ u \in Nat /\ u < Modulus
    BY <1>1, <1>12
  <2>2. cross = (m0 + (z % Modulus)) % Modulus
    BY <1>4, <1>5, <1>11 DEF Imul, Iadd
  <2> HIDE DEF z, u, cross
  <2>3. z % Modulus = z /\ u % Modulus = u /\ u \in Word
    BY <1>3, <2>1
  <2>4. cross = u /\ u \in Word
    BY <2>2, <2>3 DEF u
  <2>5. QED
    BY <2>4 DEF u, z
<1>14. PICK c0 \in 0 .. h - 1, c1 \in 0 .. h - 1 :
        Lower(cross) = c0 /\ Upper(cross) = c1 /\ cross = c1 * h + c0 /\ c0 \in Word
  <2> HIDE DEF Lower, Upper, cross
  <2>1. QED
    BY <1>2, <1>13
<1>15. a1 * b1 \in Nat /\ a1 * b1 + 2 * (h - 1) < h * h
  BY <1>1, LimbProduct
<1>16. carried = a1 * b1 + m1 + c1 /\ carried \in Word
  <2> DEFINE z == a1 * b1
             t == z + m1
             u == t + c1
  <2>1. z \in Nat /\ z < Modulus /\ t \in Nat /\ t < Modulus /\ u \in Nat /\ u < Modulus
    BY <1>1, <1>15
  <2>2. carried = ((((z % Modulus) + m1) % Modulus) + c1) % Modulus
    BY <1>4, <1>5, <1>11, <1>14 DEF Imul, Iadd
  <2> HIDE DEF z, t, u, carried
  <2>3. z % Modulus = z /\ t % Modulus = t /\ u % Modulus = u /\ u \in Word
    BY <1>3, <2>1
  <2>4. carried = u /\ u \in Word
    BY <2>2, <2>3 DEF u, t
  <2>5. QED
    BY <2>4 DEF u, t, z
<1>17. lo = c0 * h + l0 /\ lo \in Word
  <2>1. lo = Or(Shl(c0, Half), l0)
    BY <1>8, <1>14
  <2>2. Half \in 0 .. Bits /\ Bits - Half = Half
    BY WordWidths
  <2>3. Shl(c0, Half) = (c0 % 2 ^ (Bits - Half)) * 2 ^ Half
    BY <1>14, <2>2, ShiftedLeft
  <2>4. Shl(c0, Half) = c0 * 2 ^ Half
    <3>1. c0 % h = c0
      BY <1>1, Small
    <3>2. QED
      BY <2>2, <2>3, <3>1 DEF h
  <2>5. c0 \in 0 .. 2 ^ (Bits - Half) - 1 /\ l0 \in 0 .. 2 ^ Half - 1
    BY <2>2 DEF h
  <2>6. Or(c0 * 2 ^ Half, l0) = c0 * 2 ^ Half + l0 /\ c0 * 2 ^ Half + l0 \in Word
    BY <2>2, <2>5, Joined
  <2>7. QED
    BY <2>1, <2>4, <2>6 DEF h
<1> HIDE DEF lo, carried, cross, middle, low
<1>18. (a1 * h + a0) * (b1 * h + b0) = (h * h) * (a1 * b1 + m1 + c1) + (c0 * h + l0)
  <2>1. /\ a0 \in Int /\ a1 \in Int /\ b0 \in Int /\ b1 \in Int /\ l0 \in Int /\ l1 \in Int
        /\ m0 \in Int /\ m1 \in Int /\ c0 \in Int /\ c1 \in Int /\ h \in Int
    BY <1>1
  <2>2. a0 * b0 = l1 * h + l0 /\ a1 * b0 + l1 = m1 * h + m0 /\ m0 + a0 * b1 = c1 * h + c0
    BY <1>7, <1>8, <1>10, <1>11, <1>13, <1>14
  <2>3. QED
    BY ONLY <2>1, <2>2, Schoolbook
<1>19. x * y = Modulus * carried + lo
  BY <1>1, <1>4, <1>5, <1>16, <1>17, <1>18
<1>20. lo \in Word /\ carried \in Word /\ x * y = lo + Modulus * carried
  <2>1. lo \in Int /\ carried \in Int
    BY <1>16, <1>17, <1>1 DEF Word
  <2>2. QED
    BY <1>1, <1>16, <1>17, <1>19, <2>1
<1>21. QED
  BY <1>20 DEF lo, carried, cross, middle, low

LEMMA PairMultiplies ==
  ASSUME NEW a \in WordPair, NEW b \in WordPair
  PROVE  Both(PairMul(a, b)) = PairOf(Number(a) * Number(b))
<1>1. PICK lo \in Word, carried \in Word :
        /\ a.low * b.low = lo + Modulus * carried
        /\ PairMul(a, b) = P(lo, Iadd(Iadd(carried, Imul(a.low, b.high)), Imul(a.high, b.low)))
  <2>1. a.low \in Word /\ b.low \in Word
    BY PairFields
  <2>2. QED
    BY <2>1, LowProduct DEF PairMul
<1> DEFINE u == a.low * b.high
           v == a.high * b.low
           z == a.high * b.high
           m == Modulus
           s == carried + u + v
           hi == Iadd(Iadd(carried, Imul(a.low, b.high)), Imul(a.high, b.low))
<1>2. u \in Int /\ v \in Int /\ z \in Int /\ s \in Int /\ lo \in Int /\ carried \in Int /\ m \in Int
  <2>1. lo \in Int /\ carried \in Int /\ m \in Int
    BY Modulo DEF Word
  <2>2. QED
    BY <2>1, PairFields
<1>3. hi = s % Modulus
  <2>1. hi = Iadd(Iadd(carried, u % Modulus), v % Modulus)
    BY DEF Imul
  <2>2. carried + u \in Int /\ (carried + u) + v = s
    BY <1>2
  <2> DEFINE t == carried + u
  <2> HIDE DEF u, v, s, hi
  <2>3. Iadd(carried, u % Modulus) = t % Modulus
    BY <1>2, Wrapped
  <2> HIDE DEF t
  <2>4. Iadd(t % Modulus, v % Modulus) = (t + v) % Modulus
    <3>1. PICK w \in Word : v % Modulus = w /\ w \in Int /\ \E r \in Int : v = Modulus * r + w
      BY <1>2, Remainders
    <3>2. t \in Int
      BY <2>2 DEF t
    <3>3. Iadd(t % Modulus, w) = (t + w) % Modulus /\ Iadd(t, v % Modulus) = (t + v) % Modulus
      BY <1>2, <3>1, <3>2, Wrapped
    <3>4. Iadd(t, w) = (t + w) % Modulus
      BY DEF Iadd
    <3>5. QED
      BY <3>1, <3>3, <3>4
  <2>5. QED
    BY <2>1, <2>2, <2>3, <2>4 DEF t
<1> HIDE DEF s, hi
<1>4. PICK r \in Int : hi \in Word /\ s = Modulus * r + hi /\ hi \in Int
  BY <1>2, <1>3, Remainders
<1> DEFINE y == r + z
           x == Number(a) * Number(b)
<1>5. y \in Int /\ x = lo + Modulus * (hi + Modulus * y)
  <2>1. x = a.low * b.low + m * (u + v) + (m * m) * z
    <3>1. (a.low + m * a.high) * (b.low + m * b.high)
             = a.low * b.low + m * (a.low * b.high + a.high * b.low) + (m * m) * (a.high * b.high)
      <4>1. \A g, h, j, k, n \in Int :
              (g + n * h) * (j + n * k) = g * j + n * (g * k + h * j) + (n * n) * (h * k)
        OBVIOUS
      <4>2. a.low \in Int /\ a.high \in Int /\ b.low \in Int /\ b.high \in Int /\ m \in Int
        BY <1>2, PairFields
      <4> HIDE DEF m
      <4>3. QED
        BY ONLY <4>1, <4>2
    <3>2. QED
      BY <3>1, PairFields
  <2>2. y \in Int
    BY <1>2, <1>4
  <2>3. m * (hi + m * y) = m * (s - m * r) + (m * m) * (r + z)
    <3>1. m * (m * y) = (m * m) * y /\ hi = s - m * r
      BY <1>2, <1>4, <2>2
    <3>2. QED
      BY <1>2, <1>4, <2>2, <3>1
  <2>4. m * (s - m * r) = m * carried + m * (u + v) - (m * m) * r /\ (m * m) * (r + z) = (m * m) * r + (m * m) * z
    <3>1. s = carried + (u + v)
      BY <1>2 DEF s
    <3>2. u + v \in Int /\ m * (carried + (u + v) - m * r) = m * carried + m * (u + v) - (m * m) * r
      BY <1>2
    <3>3. QED
      BY <1>2, <3>1, <3>2
  <2> DEFINE n == m * m
             g == m * (u + v)
  <2>5. n * z \in Int /\ n * r \in Int /\ g \in Int /\ m * carried \in Int
    BY <1>2
  <2>6. a.low * b.low = lo + m * carried
    BY <1>1
  <2>7. x = lo + m * carried + g + n * z
    BY <2>1, <2>6
  <2>8. m * (hi + m * y) = m * carried + g - n * r + (n * r + n * z)
    BY <2>3, <2>4
  <2> HIDE DEF n, g, x, y, u, v, z
  <2>9. x = lo + m * (hi + m * y)
    BY <1>2, <2>5, <2>7, <2>8
  <2>10. QED
    BY <2>2, <2>9
<1>6. PairOf(x) = PairAnswer(lo, hi)
  <2>1. \E k \in Int : x = lo + Modulus * (hi + Modulus * k)
    BY <1>5
  <2> HIDE DEF x
  <2>2. lo \in Word /\ hi \in Word
    BY <1>4
  <2>3. QED
    BY ONLY <2>1, <2>2, Assembled
<1>7. QED
  BY <1>1, <1>6 DEF Both, P, hi

\* Words with these bits are the chosen ones.
LEMMA SamePair ==
  ASSUME NEW lo \in Word, NEW hi \in Word, NEW r \in [trap : {FALSE}, low : Word, high : Word],
         \A k \in 0 .. Bits - 1 : Bit(r.low, k) = Bit(lo, k) /\ Bit(r.high, k) = Bit(hi, k)
  PROVE  r = PairAnswer(lo, hi)
<1>1. r.low \in Word /\ r.high \in Word /\ r = [trap |-> FALSE, low |-> r.low, high |-> r.high]
  OBVIOUS
<1>2. r.low = lo /\ r.high = hi
  BY <1>1, SameWord
<1>3. QED
  BY <1>1, <1>2 DEF PairAnswer

LEMMA PairAnds ==
  ASSUME NEW a \in WordPair, NEW b \in WordPair
  PROVE  LowerPairs("and", a, b) = WasmPairs("and", a, b)
<1> DEFINE lo == And(a.low, b.low)
           hi == And(a.high, b.high)
           R == [trap : {FALSE}, low : Word, high : Word]
           C == CHOOSE r \in R : \A k \in 0 .. Bits - 1 :
                  /\ Bit(r.low, k) = Bit(a.low, k) * Bit(b.low, k)
                  /\ Bit(r.high, k) = Bit(a.high, k) * Bit(b.high, k)
<1>1. /\ lo \in Word /\ hi \in Word
      /\ \A k \in 0 .. Bits - 1 : /\ Bit(lo, k) = Bit(a.low, k) * Bit(b.low, k)
                                 /\ Bit(hi, k) = Bit(a.high, k) * Bit(b.high, k)
  <2>1. a.low \in Word /\ a.high \in Word /\ b.low \in Word /\ b.high \in Word
    BY PairFields
  <2>2. /\ lo \in Word /\ hi \in Word
        /\ \A k \in 0 .. Bits - 1 : /\ Bit(lo, k) = Bit(a.low, k) * Bit(b.low, k)
                                   /\ Bit(hi, k) = Bit(a.high, k) * Bit(b.high, k)
    BY <2>1, AndBits
  <2>3. QED
    BY <2>2
<1>2. PairAnswer(lo, hi) \in R /\ PairAnswer(lo, hi).low = lo /\ PairAnswer(lo, hi).high = hi
  BY <1>1 DEF PairAnswer
<1>3. C \in R /\ \A k \in 0 .. Bits - 1 :
        /\ Bit(C.low, k) = Bit(a.low, k) * Bit(b.low, k)
        /\ Bit(C.high, k) = Bit(a.high, k) * Bit(b.high, k)
  <2> HIDE DEF lo, hi, R
  <2>1. \E r \in R : \A k \in 0 .. Bits - 1 :
          /\ Bit(r.low, k) = Bit(a.low, k) * Bit(b.low, k)
          /\ Bit(r.high, k) = Bit(a.high, k) * Bit(b.high, k)
    <3> DEFINE r == PairAnswer(lo, hi)
    <3>1. r \in R /\ r.low = lo /\ r.high = hi
      BY <1>2
    <3> HIDE DEF r
    <3>2. QED
      BY <1>1, <3>1
  <2>2. QED
    BY <2>1
<1>4. WasmPairs("and", a, b) = C
  BY DEF WasmPairs
<1>5. C = PairAnswer(lo, hi)
  <2> HIDE DEF C, lo, hi
  <2>1. \A k \in 0 .. Bits - 1 : Bit(C.low, k) = Bit(lo, k) /\ Bit(C.high, k) = Bit(hi, k)
    BY <1>1, <1>3
  <2>2. QED
    BY <1>1, <1>3, <2>1, SamePair
<1>6. LowerPairs("and", a, b) = PairAnswer(lo, hi)
  BY DEF LowerPairs, Both, PairBitwise, P, And
<1>7. QED
  BY <1>4, <1>5, <1>6

LEMMA PairOrs ==
  ASSUME NEW a \in WordPair, NEW b \in WordPair
  PROVE  LowerPairs("or", a, b) = WasmPairs("or", a, b)
<1> DEFINE lo == Or(a.low, b.low)
           hi == Or(a.high, b.high)
           R == [trap : {FALSE}, low : Word, high : Word]
           C == CHOOSE r \in R : \A k \in 0 .. Bits - 1 :
                  /\ Bit(r.low, k) = Bit(a.low, k) + Bit(b.low, k) - Bit(a.low, k) * Bit(b.low, k)
                  /\ Bit(r.high, k) = Bit(a.high, k) + Bit(b.high, k) - Bit(a.high, k) * Bit(b.high, k)
<1>1. /\ lo \in Word /\ hi \in Word
      /\ \A k \in 0 .. Bits - 1 : /\ Bit(lo, k) = Bit(a.low, k) + Bit(b.low, k) - Bit(a.low, k) * Bit(b.low, k)
                                 /\ Bit(hi, k) = Bit(a.high, k) + Bit(b.high, k) - Bit(a.high, k) * Bit(b.high, k)
  <2>1. a.low \in Word /\ a.high \in Word /\ b.low \in Word /\ b.high \in Word
    BY PairFields
  <2>a. \A i, j \in {0, 1} : i + j - i * j = Flag(i + j > 0)
    <3>1. Flag(0 + 0 > 0) = 0 /\ Flag(0 + 1 > 0) = 1 /\ Flag(1 + 0 > 0) = 1 /\ Flag(1 + 1 > 0) = 1
      BY DEF Flag
    <3>2. 0 + 0 - 0 * 0 = 0 /\ 0 + 1 - 0 * 1 = 1 /\ 1 + 0 - 1 * 0 = 1 /\ 1 + 1 - 1 * 1 = 1
      OBVIOUS
    <3>3. SUFFICES ASSUME NEW i \in {0, 1}, NEW j \in {0, 1}
                   PROVE  i + j - i * j = Flag(i + j > 0)
      OBVIOUS
    <3>4. (i = 0 /\ j = 0) \/ (i = 0 /\ j = 1) \/ (i = 1 /\ j = 0) \/ (i = 1 /\ j = 1)
      OBVIOUS
    <3>5. QED
      BY <3>1, <3>2, <3>4
  <2>2. /\ lo \in Word /\ hi \in Word
        /\ \A k \in 0 .. Bits - 1 : /\ Bit(lo, k) = Flag(Bit(a.low, k) + Bit(b.low, k) > 0)
                                   /\ Bit(hi, k) = Flag(Bit(a.high, k) + Bit(b.high, k) > 0)
    BY <2>1, OrBits
  <2>3. QED
    <3>1. /\ \A k \in 0 .. Bits - 1 : Bit(a.low, k) \in {0, 1} /\ Bit(a.high, k) \in {0, 1}
          /\ \A k \in 0 .. Bits - 1 : Bit(b.low, k) \in {0, 1} /\ Bit(b.high, k) \in {0, 1}
      BY <2>1, WordBits
    <3>2. QED
      BY <2>a, <2>2, <3>1
<1>2. PairAnswer(lo, hi) \in R /\ PairAnswer(lo, hi).low = lo /\ PairAnswer(lo, hi).high = hi
  BY <1>1 DEF PairAnswer
<1>3. C \in R /\ \A k \in 0 .. Bits - 1 :
        /\ Bit(C.low, k) = Bit(a.low, k) + Bit(b.low, k) - Bit(a.low, k) * Bit(b.low, k)
        /\ Bit(C.high, k) = Bit(a.high, k) + Bit(b.high, k) - Bit(a.high, k) * Bit(b.high, k)
  <2> HIDE DEF lo, hi, R
  <2>1. \E r \in R : \A k \in 0 .. Bits - 1 :
          /\ Bit(r.low, k) = Bit(a.low, k) + Bit(b.low, k) - Bit(a.low, k) * Bit(b.low, k)
          /\ Bit(r.high, k) = Bit(a.high, k) + Bit(b.high, k) - Bit(a.high, k) * Bit(b.high, k)
    <3> DEFINE r == PairAnswer(lo, hi)
    <3>1. r \in R /\ r.low = lo /\ r.high = hi
      BY <1>2
    <3> HIDE DEF r
    <3>2. QED
      BY <1>1, <3>1
  <2>2. QED
    BY <2>1
<1>4. WasmPairs("or", a, b) = C
  BY DEF WasmPairs
<1>5. C = PairAnswer(lo, hi)
  <2> HIDE DEF C, lo, hi
  <2>1. \A k \in 0 .. Bits - 1 : Bit(C.low, k) = Bit(lo, k) /\ Bit(C.high, k) = Bit(hi, k)
    BY <1>1, <1>3
  <2>2. QED
    BY <1>1, <1>3, <2>1, SamePair
<1>6. LowerPairs("or", a, b) = PairAnswer(lo, hi)
  BY DEF LowerPairs, Both, PairBitwise, P, Or
<1>7. QED
  BY <1>4, <1>5, <1>6

LEMMA PairXors ==
  ASSUME NEW a \in WordPair, NEW b \in WordPair
  PROVE  LowerPairs("xor", a, b) = WasmPairs("xor", a, b)
<1> DEFINE lo == Xor(a.low, b.low)
           hi == Xor(a.high, b.high)
           R == [trap : {FALSE}, low : Word, high : Word]
           C == CHOOSE r \in R : \A k \in 0 .. Bits - 1 :
                  /\ Bit(r.low, k) = (Bit(a.low, k) + Bit(b.low, k)) % 2
                  /\ Bit(r.high, k) = (Bit(a.high, k) + Bit(b.high, k)) % 2
<1>1. /\ lo \in Word /\ hi \in Word
      /\ \A k \in 0 .. Bits - 1 : /\ Bit(lo, k) = (Bit(a.low, k) + Bit(b.low, k)) % 2
                                 /\ Bit(hi, k) = (Bit(a.high, k) + Bit(b.high, k)) % 2
  <2>1. a.low \in Word /\ a.high \in Word /\ b.low \in Word /\ b.high \in Word
    BY PairFields
  <2>2. /\ lo \in Word /\ hi \in Word
        /\ \A k \in 0 .. Bits - 1 : /\ Bit(lo, k) = (Bit(a.low, k) + Bit(b.low, k)) % 2
                                   /\ Bit(hi, k) = (Bit(a.high, k) + Bit(b.high, k)) % 2
    BY <2>1, XorBits
  <2>3. QED
    BY <2>2
<1>2. PairAnswer(lo, hi) \in R /\ PairAnswer(lo, hi).low = lo /\ PairAnswer(lo, hi).high = hi
  BY <1>1 DEF PairAnswer
<1>3. C \in R /\ \A k \in 0 .. Bits - 1 :
        /\ Bit(C.low, k) = (Bit(a.low, k) + Bit(b.low, k)) % 2
        /\ Bit(C.high, k) = (Bit(a.high, k) + Bit(b.high, k)) % 2
  <2> HIDE DEF lo, hi, R
  <2>1. \E r \in R : \A k \in 0 .. Bits - 1 :
          /\ Bit(r.low, k) = (Bit(a.low, k) + Bit(b.low, k)) % 2
          /\ Bit(r.high, k) = (Bit(a.high, k) + Bit(b.high, k)) % 2
    <3> DEFINE r == PairAnswer(lo, hi)
    <3>1. r \in R /\ r.low = lo /\ r.high = hi
      BY <1>2
    <3> HIDE DEF r
    <3>2. QED
      BY <1>1, <3>1
  <2>2. QED
    BY <2>1
<1>4. WasmPairs("xor", a, b) = C
  BY DEF WasmPairs
<1>5. C = PairAnswer(lo, hi)
  <2> HIDE DEF C, lo, hi
  <2>1. \A k \in 0 .. Bits - 1 : Bit(C.low, k) = Bit(lo, k) /\ Bit(C.high, k) = Bit(hi, k)
    BY <1>1, <1>3
  <2>2. QED
    BY <1>1, <1>3, <2>1, SamePair
<1>6. LowerPairs("xor", a, b) = PairAnswer(lo, hi)
  BY DEF LowerPairs, Both, PairBitwise, P, Xor
<1>7. QED
  BY <1>4, <1>5, <1>6

LEMMA AndFlags ==
  ASSUME NEW f \in {0, 1}, NEW g \in {0, 1}
  PROVE  And(f, g) = f * g
<1>1. f \in Word
  BY Modulo DEF Word
<1>2. 2 ^ 0 - 1 = 0 /\ 2 ^ 1 - 1 = 1 /\ 0 \in 0 .. Bits /\ 1 \in 0 .. Bits
  BY WordWidths
<1>3. And(f, 2 ^ 0 - 1) = f % 2 ^ 0 /\ And(f, 2 ^ 1 - 1) = f % 2 ^ 1
  BY <1>1, <1>2, Masked
<1>4. f % 2 ^ 0 = 0 /\ f % 2 ^ 1 = f
  <2>1. 2 ^ 0 = 1 /\ 2 ^ 1 = 2
    OBVIOUS
  <2>2. f % 1 = 0 /\ f % 2 = f
    OBVIOUS
  <2>3. QED
    BY <2>1, <2>2
<1>5. And(f, 0) = 0 /\ And(f, 1) = f
  BY <1>2, <1>3, <1>4
<1>6. QED
  BY <1>5

LEMMA Lexicographic ==
  ASSUME NEW m \in Nat, NEW l \in 0 .. m - 1, NEW k \in 0 .. m - 1, NEW g \in Int, NEW h \in Int
  PROVE  /\ (l + m * g < k + m * h) <=> (g < h \/ (g = h /\ l < k))
         /\ (l + m * g = k + m * h) <=> (g = h /\ l = k)
<1>1. CASE g = h
  BY <1>1
<1>2. CASE g < h
  <2>1. m * (h - g) >= m
    <3> DEFINE n == h - g - 1
    <3>1. n \in Nat
      BY <1>2
    <3>2. m * n >= 0
      BY <3>1
    <3>3. m * (h - g) = m + m * n
      OBVIOUS
    <3>4. m * n \in Int
      BY <3>1
    <3> HIDE DEF n
    <3>5. QED
      BY <3>2, <3>3, <3>4
  <2>2. m * (h - g) = m * h - m * g
    OBVIOUS
  <2>3. m * h \in Int /\ m * g \in Int
    OBVIOUS
  <2>4. l + m * g < k + m * h
    BY <2>1, <2>2, <2>3
  <2>5. QED
    BY <1>2, <2>3, <2>4
<1>3. CASE g > h
  <2>1. m * (g - h) >= m
    <3> DEFINE n == g - h - 1
    <3>1. n \in Nat
      BY <1>3
    <3>2. m * n >= 0
      BY <3>1
    <3>3. m * (g - h) = m + m * n
      OBVIOUS
    <3>4. m * n \in Int
      BY <3>1
    <3> HIDE DEF n
    <3>5. QED
      BY <3>2, <3>3, <3>4
  <2>2. m * (g - h) = m * g - m * h
    OBVIOUS
  <2>3. m * h \in Int /\ m * g \in Int
    OBVIOUS
  <2>4. l + m * g > k + m * h
    BY <2>1, <2>2, <2>3
  <2>5. QED
    BY <1>3, <2>3, <2>4
<1>4. QED
  BY <1>1, <1>2, <1>3

LEMMA PairOrder ==
  ASSUME NEW a \in WordPair, NEW b \in WordPair
  PROVE  /\ (Number(a) < Number(b)) <=> (a.high < b.high \/ (a.high = b.high /\ a.low < b.low))
         /\ (Number(a) = Number(b)) <=> (a.high = b.high /\ a.low = b.low)
         /\ (SignedNumber(a) < SignedNumber(b))
              <=> (Signed(a.high) < Signed(b.high) \/ (Signed(a.high) = Signed(b.high) /\ a.low < b.low))
<1>1. /\ Modulus \in Nat /\ a.low \in 0 .. Modulus - 1 /\ b.low \in 0 .. Modulus - 1
      /\ a.high \in Int /\ b.high \in Int /\ Signed(a.high) \in Int /\ Signed(b.high) \in Int
  BY PairFields, Modulo, SignedRange DEF Word
<1> DEFINE m == Modulus
           k == a.low
           l == b.low
           g == a.high
           h == b.high
           i == Signed(a.high)
           j == Signed(b.high)
<1>2. /\ Number(a) = k + m * g /\ Number(b) = l + m * h
      /\ SignedNumber(a) = k + m * i /\ SignedNumber(b) = l + m * j
  BY PairFields
<1>3. m \in Nat /\ k \in 0 .. m - 1 /\ l \in 0 .. m - 1 /\ g \in Int /\ h \in Int /\ i \in Int /\ j \in Int
  BY <1>1
<1> HIDE DEF m, k, l, g, h, i, j
<1>4. /\ (k + m * g < l + m * h) <=> (g < h \/ (g = h /\ k < l))
      /\ (k + m * g = l + m * h) <=> (g = h /\ k = l)
      /\ (k + m * i < l + m * j) <=> (i < j \/ (i = j /\ k < l))
  BY <1>3, Lexicographic
<1>5. QED
  BY <1>2, <1>4 DEF k, l, g, h, i, j

LEMMA PairEquals ==
  ASSUME NEW a \in WordPair, NEW b \in WordPair
  PROVE  /\ PairEq(a, b) = Flag(Number(a) = Number(b))
         /\ Ieq(PairEq(a, b), 0) = Flag(Number(a) # Number(b))
         /\ And(Ieq(a.low, 0), Ieq(a.high, 0)) = Flag(Number(a) = 0)
<1>1. ASSUME NEW c \in WordPair
      PROVE  And(Ieq(a.low, c.low), Ieq(a.high, c.high)) = Flag(Number(a) = Number(c))
  <2> DEFINE f == Ieq(a.low, c.low)
             g == Ieq(a.high, c.high)
  <2>1. f \in {0, 1} /\ g \in {0, 1} /\ f = Flag(a.low = c.low) /\ g = Flag(a.high = c.high)
    BY DEF Ieq, Flag
  <2> HIDE DEF f, g
  <2>2. And(f, g) = f * g
    BY <2>1, AndFlags
  <2>3. f * g = Flag(a.high = c.high /\ a.low = c.low)
    <3>1. 0 * 0 = 0 /\ 0 * 1 = 0 /\ 1 * 0 = 0 /\ 1 * 1 = 1
      OBVIOUS
    <3>2. QED
      BY <2>1, <3>1 DEF Flag
  <2>4. Flag(a.high = c.high /\ a.low = c.low) = Flag(Number(a) = Number(c))
    BY PairOrder DEF Flag
  <2>5. QED
    BY <2>2, <2>3, <2>4 DEF f, g
<1>2. PairEq(a, b) = Flag(Number(a) = Number(b))
  BY <1>1 DEF PairEq
<1>3. Ieq(PairEq(a, b), 0) = Flag(Number(a) # Number(b))
  BY <1>2 DEF Ieq, Flag
<1>4. And(Ieq(a.low, 0), Ieq(a.high, 0)) = Flag(Number(a) = 0)
  <2> DEFINE z == P(0, 0)
  <2>1. z \in WordPair /\ z.low = 0 /\ z.high = 0
    BY Modulo DEF WordPair, P, Word
  <2>2. Number(z) = 0
    BY <2>1, Modulo DEF Number
  <2> HIDE DEF z
  <2>3. QED
    BY <1>1, <2>1, <2>2
<1>5. QED
  BY <1>2, <1>3, <1>4

\* The high parts i and j decide, then the low parts k and l.
LEMMA Decided ==
  ASSUME NEW i \in Int, NEW j \in Int, NEW k \in Int, NEW l \in Int, NEW x \in Int, NEW y \in Int,
         (x < y) <=> (i < j \/ (i = j /\ k < l)), (y < x) <=> (j < i \/ (j = i /\ l < k))
  PROVE  /\ Flag(x < y) = IF i < j THEN 1 ELSE IF j < i THEN 0 ELSE Flag(k < l)
         /\ Flag(x <= y) = IF i < j THEN 1 ELSE IF j < i THEN 0 ELSE Flag(k <= l)
         /\ Flag(x > y) = IF j < i THEN 1 ELSE IF i < j THEN 0 ELSE Flag(k > l)
         /\ Flag(x >= y) = IF j < i THEN 1 ELSE IF i < j THEN 0 ELSE Flag(k >= l)
<1>1. /\ (x <= y) <=> ~(y < x)
      /\ (x > y) <=> (y < x)
      /\ (x >= y) <=> ~(x < y)
      /\ (k <= l) <=> ~(l < k)
      /\ (k > l) <=> (l < k)
      /\ (k >= l) <=> ~(k < l)
  OBVIOUS
<1>2. CASE i < j
  BY <1>1, <1>2 DEF Flag
<1>3. CASE j < i
  BY <1>1, <1>3 DEF Flag
<1>4. CASE i = j
  BY <1>1, <1>4 DEF Flag
<1>5. QED
  BY <1>2, <1>3, <1>4

LEMMA Compares ==
  ASSUME NEW a \in WordPair, NEW b \in WordPair
  PROVE  /\ PairCompare("lt", TRUE, a, b) = Flag(Number(a) < Number(b))
         /\ PairCompare("le", TRUE, a, b) = Flag(Number(a) <= Number(b))
         /\ PairCompare("gt", TRUE, a, b) = Flag(Number(a) > Number(b))
         /\ PairCompare("ge", TRUE, a, b) = Flag(Number(a) >= Number(b))
         /\ PairCompare("lt", FALSE, a, b) = Flag(SignedNumber(a) < SignedNumber(b))
         /\ PairCompare("le", FALSE, a, b) = Flag(SignedNumber(a) <= SignedNumber(b))
         /\ PairCompare("gt", FALSE, a, b) = Flag(SignedNumber(a) > SignedNumber(b))
         /\ PairCompare("ge", FALSE, a, b) = Flag(SignedNumber(a) >= SignedNumber(b))
<1>1. a.low \in Word /\ b.low \in Word /\ a.high \in Word /\ b.high \in Word
  BY PairFields
<1>2. /\ Ilt(Biased(a.low), Biased(b.low)) = Flag(a.low < b.low)
      /\ Ile(Biased(a.low), Biased(b.low)) = Flag(a.low <= b.low)
      /\ Igt(Biased(a.low), Biased(b.low)) = Flag(a.low > b.low)
      /\ Ige(Biased(a.low), Biased(b.low)) = Flag(a.low >= b.low)
  BY <1>1, UnsignedOrder
<1>3. Flag(TRUE) = 1 /\ Flag(FALSE) # 1
  BY DEF Flag
<1>4. /\ (Ilt(Biased(a.high), Biased(b.high)) = 1) <=> (a.high < b.high)
      /\ (Igt(Biased(a.high), Biased(b.high)) = 1) <=> (b.high < a.high)
      /\ (Ilt(Biased(b.high), Biased(a.high)) = 1) <=> (b.high < a.high)
      /\ (Igt(Biased(b.high), Biased(a.high)) = 1) <=> (a.high < b.high)
  <2>1. /\ Ilt(Biased(a.high), Biased(b.high)) = Flag(a.high < b.high)
        /\ Ilt(Biased(b.high), Biased(a.high)) = Flag(b.high < a.high)
    BY <1>1, UnsignedOrder
  <2>2. QED
    BY <2>1, <1>3 DEF Igt, Flag
<1>5. /\ (Ilt(a.high, b.high) = 1) <=> (Signed(a.high) < Signed(b.high))
      /\ (Igt(a.high, b.high) = 1) <=> (Signed(b.high) < Signed(a.high))
      /\ (Ilt(b.high, a.high) = 1) <=> (Signed(b.high) < Signed(a.high))
      /\ (Igt(b.high, a.high) = 1) <=> (Signed(a.high) < Signed(b.high))
  BY DEF Igt, Ilt, Flag
<1> DEFINE x == Number(a)
           y == Number(b)
           sx == SignedNumber(a)
           sy == SignedNumber(b)
           g == a.high
           h == b.high
           i == Signed(a.high)
           j == Signed(b.high)
           k == a.low
           l == b.low
<1>6. /\ x \in Int /\ y \in Int /\ sx \in Int /\ sy \in Int /\ g \in Int /\ h \in Int /\ i \in Int /\ j \in Int
      /\ k \in Int /\ l \in Int
  BY PairFields, SignedRange
<1>7. /\ (x < y) <=> (g < h \/ (g = h /\ k < l))
      /\ (y < x) <=> (h < g \/ (h = g /\ l < k))
      /\ (sx < sy) <=> (i < j \/ (i = j /\ k < l))
      /\ (sy < sx) <=> (j < i \/ (j = i /\ l < k))
  BY PairOrder
<1> DEFINE ltu == IF g < h THEN 1 ELSE IF h < g THEN 0 ELSE Flag(k < l)
           leu == IF g < h THEN 1 ELSE IF h < g THEN 0 ELSE Flag(k <= l)
           gtu == IF h < g THEN 1 ELSE IF g < h THEN 0 ELSE Flag(k > l)
           geu == IF h < g THEN 1 ELSE IF g < h THEN 0 ELSE Flag(k >= l)
           lts == IF i < j THEN 1 ELSE IF j < i THEN 0 ELSE Flag(k < l)
           les == IF i < j THEN 1 ELSE IF j < i THEN 0 ELSE Flag(k <= l)
           gts == IF j < i THEN 1 ELSE IF i < j THEN 0 ELSE Flag(k > l)
           ges == IF j < i THEN 1 ELSE IF i < j THEN 0 ELSE Flag(k >= l)
<1>8. /\ PairCompare("lt", TRUE, a, b) = ltu
      /\ PairCompare("le", TRUE, a, b) = leu
      /\ PairCompare("gt", TRUE, a, b) = gtu
      /\ PairCompare("ge", TRUE, a, b) = geu
  BY <1>2, <1>4 DEF PairCompare
<1>9. /\ PairCompare("lt", FALSE, a, b) = lts
      /\ PairCompare("le", FALSE, a, b) = les
      /\ PairCompare("gt", FALSE, a, b) = gts
      /\ PairCompare("ge", FALSE, a, b) = ges
  BY <1>2, <1>5 DEF PairCompare
<1> HIDE DEF x, y, sx, sy, g, h, i, j, k, l
<1>10. /\ Flag(x < y) = ltu
       /\ Flag(x <= y) = leu
       /\ Flag(x > y) = gtu
       /\ Flag(x >= y) = geu
  BY ONLY <1>6, <1>7, Decided
<1>11. /\ Flag(sx < sy) = lts
       /\ Flag(sx <= sy) = les
       /\ Flag(sx > sy) = gts
       /\ Flag(sx >= sy) = ges
  BY ONLY <1>6, <1>7, Decided
<1> HIDE DEF ltu, leu, gtu, geu, lts, les, gts, ges
<1>12. QED
  BY <1>8, <1>9, <1>10, <1>11 DEF x, y, sx, sy

LEMMA CountTest ==
  ASSUME NEW n \in 0 .. 2 * Bits - 1
  PROVE  /\ (Ilt(n, Bits) = 1) <=> (n < Bits)
         /\ (Ilt(n, Bits) = 0) <=> ~(n < Bits)
<1>1. Bits \in 0 .. 2 * Bits - 1
  BY WordWidths
<1>2. Signed(n) = n /\ Signed(Bits) = Bits
  BY <1>1, PlainCount
<1>3. QED
  BY <1>2 DEF Ilt, Flag

\* What a shift to the left keeps of a word, and what it moves out.
LEMMA ShiftParts ==
  ASSUME NEW w \in Word, NEW n \in 0 .. Bits
  PROVE  \E l \in 0 .. 2 ^ (Bits - n) - 1, h \in 0 .. 2 ^ n - 1 :
           /\ w * 2 ^ n = l * 2 ^ n + Modulus * h /\ w = h * 2 ^ (Bits - n) + l
           /\ Shl(w, n) = l * 2 ^ n /\ Shl(w, Negative(Bits - n)) = h
           /\ w % 2 ^ (Bits - n) = l /\ w \div 2 ^ (Bits - n) = h /\ l * 2 ^ n \in Word /\ h \in Word
           /\ \A k \in 0 .. 2 ^ n - 1 : /\ l * 2 ^ n + k \in Word
                                        /\ Or(l * 2 ^ n, k) = l * 2 ^ n + k /\ Or(k, l * 2 ^ n) = l * 2 ^ n + k
<1> DEFINE d == 2 ^ n
           e == 2 ^ (Bits - n)
           l == w % e
           h == w \div e
           m == Modulus
<1>1. d \in Nat /\ d >= 1 /\ e \in Nat /\ e >= 1 /\ e * d = m /\ m \in Nat
  BY PowerRange, Modulo
<1>2. Bits - n \in 0 .. Bits /\ Bits - (Bits - n) = n
  BY WordWidths
<1>3. h \in 0 .. d - 1 /\ l \in 0 .. e - 1 /\ w = h * e + l
  <2>1. /\ w \div 2 ^ (Bits - n) \in 0 .. 2 ^ (Bits - (Bits - n)) - 1
        /\ w % 2 ^ (Bits - n) \in 0 .. 2 ^ (Bits - n) - 1
        /\ w = (w \div 2 ^ (Bits - n)) * 2 ^ (Bits - n) + (w % 2 ^ (Bits - n))
    BY <1>2, Halved
  <2>2. QED
    BY <1>2, <2>1
<1>4. Shl(w, n) = l * d /\ Shl(w, Negative(Bits - n)) = h
  BY <1>2, ShiftedLeft, ShiftedRight
<1>5. \A k \in 0 .. d - 1 : l * d + k \in Word /\ Or(l * d, k) = l * d + k /\ Or(k, l * d) = l * d + k
  <2>1. l \in 0 .. 2 ^ (Bits - n) - 1
    BY <1>3
  <2> HIDE DEF l
  <2>2. QED
    BY <2>1, Joined
<1>6. l * d \in Word /\ h \in Word
  <2>1. l \in 0 .. 2 ^ (Bits - n) - 1 /\ h \in 0 .. 2 ^ n - 1
    BY <1>3
  <2> HIDE DEF l, h
  <2>2. QED
    BY <1>1, <2>1, Joined
<1> HIDE DEF d, e, l, h, m
<1>7. w * d = l * d + m * h
  <2>1. h * e * d = h * (e * d) /\ (h * e + l) * d = h * e * d + l * d /\ h * m = m * h
    BY <1>1, <1>3
  <2>2. QED
    BY <1>1, <1>3, <2>1
<1>8. QED
  BY <1>3, <1>4, <1>5, <1>6, <1>7 DEF d, e, l, h, m

LEMMA BothOf ==
  ASSUME NEW a \in WordPair
  PROVE  Both(a) = PairOf(Number(a)) /\ Both(a) = PairOf(SignedNumber(a))
<1> DEFINE x == Number(a)
           y == SignedNumber(a)
           i == -1
<1>1. a.low \in Word /\ a.high \in Word /\ a.low \in Int /\ a.high \in Int /\ Modulus \in Int /\ i \in Int
  BY PairFields, Modulo
<1>2. x = a.low + Modulus * a.high
  BY PairFields
<1>3. x = a.low + Modulus * (a.high + Modulus * 0)
  BY <1>1, <1>2
<1>4. y = a.low + Modulus * (a.high + Modulus * 0) \/ y = a.low + Modulus * (a.high + Modulus * i)
  <2>1. y = a.low + Modulus * Signed(a.high)
    BY PairFields
  <2>2. Signed(a.high) = a.high \/ Signed(a.high) = a.high + Modulus * i
    BY <1>1 DEF Signed
  <2> HIDE DEF i, y
  <2>3. a.high + Modulus * 0 = a.high
    BY <1>1
  <2>4. QED
    BY <2>1, <2>2, <2>3
<1> HIDE DEF x, y, i
<1>5. \E r \in Int : x = a.low + Modulus * (a.high + Modulus * r)
  BY <1>3
<1>6. \E r \in Int : y = a.low + Modulus * (a.high + Modulus * r)
  <2>1. CASE y = a.low + Modulus * (a.high + Modulus * 0)
    BY <2>1
  <2>2. CASE y = a.low + Modulus * (a.high + Modulus * i)
    <3>1. i \in Int
      BY <1>1
    <3>2. QED
      BY ONLY <2>2, <3>1
  <2>3. QED
    BY <1>4, <2>1, <2>2
<1>7. a.low \in Word /\ a.high \in Word
  BY <1>1
<1>8. PairOf(x) = PairAnswer(a.low, a.high)
  BY ONLY <1>5, <1>7, Assembled
<1>9. PairOf(y) = PairAnswer(a.low, a.high)
  BY ONLY <1>6, <1>7, Assembled
<1>10. QED
  BY <1>8, <1>9 DEF Both, x, y

LEMMA PairShiftsLeft ==
  ASSUME NEW a \in WordPair, NEW n \in 0 .. 2 * Bits - 1
  PROVE  Both(PairShl(a, n)) = PairOf(Number(a) * 2 ^ n)
<1> DEFINE m == Modulus
           x == Number(a) * 2 ^ n
<1>1. a.low \in Word /\ a.high \in Word /\ a.low \in Int /\ a.high \in Int /\ m \in Int /\ Bits \in Nat /\ n \in Nat
  BY PairFields, Modulo, WordWidths
<1>2. Number(a) = a.low + m * a.high /\ Number(a) \in Int
  BY PairFields
<1>3. CASE n = 0
  <2>1. 2 ^ 0 = 1
    OBVIOUS
  <2>2. Number(a) * 2 ^ n = Number(a)
    BY <1>2, <1>3, <2>1
  <2>3. QED
    BY <1>3, <2>2, BothOf DEF PairShl
<1>4. CASE n # 0 /\ n < Bits
  <2>1. n \in 0 .. Bits
    BY <1>1, <1>4
  <2> DEFINE d == 2 ^ n
  <2>2. PICK l \in 0 .. 2 ^ (Bits - n) - 1, h \in 0 .. 2 ^ n - 1 :
          a.low * d = l * d + m * h /\ Shl(a.low, n) = l * d /\ Shl(a.low, Negative(Bits - n)) = h /\ l * d \in Word
    BY <1>1, <2>1, ShiftParts
  <2>3. PICK p \in 0 .. 2 ^ (Bits - n) - 1, q \in 0 .. 2 ^ n - 1 :
          a.high * d = p * d + m * q /\ Shl(a.high, n) = p * d /\ p * d + h \in Word /\ Or(p * d, h) = p * d + h
    BY <1>1, <2>1, <2>2, ShiftParts
  <2>4. PairShl(a, n) = P(l * d, p * d + h)
    <3>1. Isub(n, Bits) = Negative(Bits - n)
      BY <2>1, CountLeft, WordWidths
    <3>2. Ilt(n, Bits) # 0
      BY <1>4, CountTest
    <3>3. QED
      BY <1>4, <2>2, <2>3, <3>1, <3>2 DEF PairShl
  <2>5. d \in Int /\ l \in Int /\ h \in Int /\ p \in Int /\ q \in Int
    BY <2>1, PowerRange
  <2> DEFINE lo == l * d
             hi == p * d + h
  <2>6. x = lo + m * (hi + m * q)
    <3> HIDE DEF d, m
    <3>1. x = a.low * d + m * (a.high * d)
      <4>1. (a.low + m * a.high) * d = a.low * d + m * (a.high * d)
        BY <1>1, <2>5
      <4>2. QED
        BY <1>2, <4>1 DEF d
    <3>2. m * (p * d + h + m * q) = m * (p * d + m * q) + m * h
      BY <1>1, <2>5
    <3> HIDE DEF x
    <3>3. m * (p * d + m * q) \in Int /\ m * h \in Int /\ l * d \in Int
      BY <1>1, <2>5
    <3>4. QED
      BY <2>2, <2>3, <3>1, <3>2, <3>3
  <2>7. lo \in Word /\ hi \in Word
    BY <2>2, <2>3
  <2> HIDE DEF x, lo, hi
  <2>8. \E r \in Int : x = lo + Modulus * (hi + Modulus * r)
    BY <2>5, <2>6
  <2>9. PairOf(x) = PairAnswer(lo, hi)
    BY ONLY <2>7, <2>8, Assembled
  <2>10. QED
    BY <2>4, <2>9 DEF Both, P, lo, hi, x
<1>5. CASE n >= Bits
  <2> DEFINE k == n - Bits
             d == 2 ^ k
  <2>1. k \in 0 .. Bits /\ k + Bits = n
    BY <1>1, <1>5
  <2>2. PICK l \in 0 .. 2 ^ (Bits - k) - 1, h \in 0 .. 2 ^ k - 1 :
          a.low * d = l * d + m * h /\ Shl(a.low, k) = l * d /\ l * d \in Word
    <3> HIDE DEF k
    <3>1. QED
      BY <1>1, <2>1, ShiftParts
  <2>3. PairShl(a, n) = P(0, l * d)
    <3>1. Isub(n, Bits) = k
      BY <1>5, CountLeft
    <3>2. Ilt(n, Bits) = 0 /\ n # 0
      BY <1>1, <1>5, CountTest, WordWidths
    <3>3. QED
      BY <2>2, <3>1, <3>2 DEF PairShl
  <2>4. d \in Int /\ l \in Int /\ h \in Int
    <3> HIDE DEF k
    <3>1. QED
      BY <2>1, PowerRange
  <2> DEFINE lo == 0
             hi == l * d
             y == h + a.high * d
  <2>5. 2 ^ n = d * m
    <3>1. k \in Nat /\ k + Bits <= 2 * Bits
      BY <1>1, <2>1
    <3> HIDE DEF k
    <3>2. 2 ^ (k + Bits) = 2 ^ k * 2 ^ Bits
      BY <1>1, <3>1, PowerSum
    <3>3. QED
      BY <2>1, <3>2 DEF Modulus
  <2>6. x = lo + m * (hi + m * y) /\ y \in Int
    <3> HIDE DEF d, m, k
    <3>1. x = m * (a.low * d + m * (a.high * d))
      <4>1. (a.low + m * a.high) * (d * m) = m * (a.low * d + m * (a.high * d))
        BY <1>1, <2>4
      <4>2. QED
        BY <1>2, <2>5, <4>1
    <3>2. m * (h + a.high * d) = m * h + m * (a.high * d)
      BY <1>1, <2>4
    <3> DEFINE u == a.high * d
               v == a.low * d
    <3>3. u \in Int /\ v \in Int /\ hi \in Int /\ m * h \in Int /\ y \in Int
      BY <1>1, <2>4
    <3>4. v = hi + m * h
      BY <2>2
    <3> HIDE DEF x, u, v, hi
    <3>5. hi + m * (h + u) = v + m * u
      BY <1>1, <3>2, <3>3, <3>4 DEF u
    <3>6. QED
      BY <1>1, <3>1, <3>3, <3>5 DEF u, v
  <2>7. lo \in Word /\ hi \in Word
    BY <2>2, Modulo DEF Word
  <2> HIDE DEF x, lo, hi, y
  <2>8. \E r \in Int : x = lo + Modulus * (hi + Modulus * r)
    BY <2>6
  <2>9. PairOf(x) = PairAnswer(lo, hi)
    BY ONLY <2>7, <2>8, Assembled
  <2>10. QED
    BY <2>3, <2>9 DEF Both, P, lo, hi, x
<1>6. QED
  BY <1>1, <1>3, <1>4, <1>5

\* g is the value of a high word w, signed or not, and s its shift to the right.
LEMMA ShiftedHigh ==
  ASSUME NEW w \in Word, NEW n \in 0 .. Bits - 1, NEW signed \in BOOLEAN,
         NEW g, g = IF signed THEN Signed(w) ELSE w,
         NEW s, s = IF signed THEN ShiftSigned(w, n) ELSE Shl(w, Negative(n))
  PROVE  /\ g \in Int /\ s \in Word /\ g % 2 ^ n = w % 2 ^ n
         /\ g >= 0 => g \div 2 ^ n = s
         /\ g < 0 => g \div 2 ^ n = s - Modulus
         /\ (g < 0) <=> (signed /\ Ilt(w, 0) = 1)
<1> DEFINE d == 2 ^ n
           e == 2 ^ (Bits - n)
           q == w \div d
<1>1. n \in 0 .. Bits
  BY WordWidths
<1>2. /\ q \in 0 .. e - 1 /\ q \in Int /\ e \in Nat /\ e >= 1 /\ e <= Modulus /\ Modulus \in Nat /\ Modulus >= 1
      /\ w \in Int /\ w >= 0 /\ Sign \in Nat /\ d \in Nat /\ d >= 1
  <2>1. q \in 0 .. e - 1
    BY <1>1, Halved
  <2>2. e \in Nat /\ e >= 1 /\ e <= Modulus
    <3>1. Bits - n \in 0 .. Bits
      BY <1>1, WordWidths
    <3>2. QED
      BY <3>1, PowerRange
  <2>3. d \in Nat /\ d >= 1
    BY <1>1, PowerRange
  <2>4. QED
    BY <2>1, <2>2, <2>3, Modulo DEF Word
<1>3. q \in Word /\ q % Modulus = q
  <2>1. q \in 0 .. Modulus - 1
    BY <1>2
  <2> DEFINE m == Modulus
  <2> HIDE DEF q, m
  <2>2. q % m = q
    <3>1. m \in Nat /\ m >= 1 /\ q \in 0 .. m - 1
      BY <1>2, <2>1 DEF m
    <3>2. QED
      BY <3>1, Small
  <2>3. QED
    BY <2>1, <2>2 DEF Word, m
<1>4. CASE ~signed
  <2>1. g = w /\ s = q
    BY <1>1, <1>4, ShiftedRight
  <2>2. QED
    BY <1>2, <1>3, <1>4, <2>1
<1>5. CASE signed
  <2>1. g = Signed(w) /\ s = (g \div d) % Modulus
    BY <1>5, ShiftsSigned
  <2>2. /\ w < Sign => g \div d = q
        /\ w >= Sign => g \div d = q - e
        /\ g % d = w % d
    BY <1>1, <2>1, SignedQuotient
  <2>3. /\ g \in Int /\ g >= -Sign /\ g < Sign
        /\ (Ilt(w, 0) = 1) <=> (w >= Sign)
        /\ w >= Sign => g = w - Modulus
        /\ w < Sign => g = w
    <3>1. (Ilt(w, 0) = 1) <=> (w >= Sign)
      BY SignedRange
    <3>2. Signed(w) \in Int /\ Signed(w) >= -Sign /\ Signed(w) < Sign
      BY SignedRange
    <3>3. w >= Sign => Signed(w) = w - Modulus
      BY SignedRange
    <3>4. w < Sign => Signed(w) = w
      BY SignedRange
    <3>5. QED
      BY <2>1, <3>1, <3>2, <3>3, <3>4
  <2>4. CASE w < Sign
    <3>1. g = w /\ g \div d = q /\ s = q
      BY <1>3, <2>1, <2>2, <2>3, <2>4
    <3>2. QED
      BY <1>2, <1>3, <1>5, <2>2, <2>3, <2>4, <3>1
  <2>5. CASE w >= Sign
    <3> DEFINE t == q - e
               u == t + Modulus
               i == -1
    <3>1. u \in Word /\ t = Modulus * i + u /\ i \in Int
      BY <1>2 DEF Word
    <3> HIDE DEF t, u, i
    <3>2. t % Modulus = u
      BY <3>1, Unique
    <3>3. s = u /\ g \div d = t
      BY <2>1, <2>2, <2>5, <3>2 DEF t
    <3>4. t \in Int /\ t = u - Modulus
      BY <1>2 DEF t, u
    <3>5. g < 0
      BY <1>2, <2>3, <2>5 DEF Word
    <3>6. QED
      BY <1>2, <1>5, <2>2, <2>3, <2>5, <3>1, <3>3, <3>4, <3>5
  <2>6. QED
    BY <1>2, <2>4, <2>5
<1>6. QED
  BY <1>4, <1>5

LEMMA PairShiftsRight ==
  ASSUME NEW a \in WordPair, NEW n \in 0 .. 2 * Bits - 1, NEW signed \in BOOLEAN,
         NEW g, g = IF signed THEN Signed(a.high) ELSE a.high
  PROVE  Both(PairShr(a, n, signed)) = PairOf((a.low + Modulus * g) \div 2 ^ n)
<1> DEFINE m == Modulus
           v == a.low + m * g
           x == v \div 2 ^ n
<1>1. /\ a.low \in Word /\ a.high \in Word /\ a.low \in Int /\ a.high \in Int /\ m \in Nat /\ m >= 1
      /\ Bits \in Nat /\ Bits >= 1 /\ n \in Nat /\ a.low \in 0 .. m - 1
  BY PairFields, Modulo, WordWidths DEF Word
<1>2. g \in Int /\ v \in Int
  BY <1>1, SignedRange
<1>3. CASE n = 0
  <2>1. 2 ^ 0 = 1
    OBVIOUS
  <2>2. x = v
    <3> HIDE DEF v
    <3>1. v \div 1 = v
      BY <1>2
    <3>2. QED
      BY <1>3, <2>1, <3>1
  <2>3. v = Number(a) \/ v = SignedNumber(a)
    BY PairFields
  <2>4. PairOf(v) = Both(a)
    BY <2>3, BothOf
  <2>5. QED
    BY <1>3, <2>2, <2>4 DEF PairShr
<1>4. CASE n # 0 /\ n < Bits
  <2>1. n \in 0 .. Bits - 1 /\ n \in 0 .. Bits /\ Bits - n \in 0 .. Bits /\ Bits - (Bits - n) = n
    BY <1>1, <1>4
  <2> DEFINE d == 2 ^ n
             e == 2 ^ (Bits - n)
             q == a.low \div d
             s == IF signed THEN ShiftSigned(a.high, n) ELSE Shl(a.high, Negative(n))
             f == g \div d
  <2>2. d \in Nat /\ d >= 1 /\ e \in Nat /\ e >= 1 /\ e * d = m
    BY <2>1, PowerRange
  <2>3. /\ s \in Word /\ g % d = a.high % d
        /\ g >= 0 => f = s
        /\ g < 0 => f = s - Modulus
    <3> HIDE DEF s
    <3>1. s = IF signed THEN ShiftSigned(a.high, n) ELSE Shl(a.high, Negative(n))
      BY DEF s
    <3>2. /\ g \in Int /\ s \in Word /\ g % 2 ^ n = a.high % 2 ^ n
          /\ g >= 0 => g \div 2 ^ n = s
          /\ g < 0 => g \div 2 ^ n = s - Modulus
      BY <1>1, <2>1, <3>1, ShiftedHigh
    <3>3. QED
      BY <3>2
  <2>4. q \in 0 .. e - 1 /\ q \in Int
    BY <1>1, <2>1, Halved
  <2> DEFINE p == a.high % d
  <2>5. /\ p \in 0 .. d - 1 /\ p \in Int /\ p * e + q \in Word
        /\ Shl(a.high, Bits - n) = p * e /\ Or(q, p * e) = p * e + q
    <3>1. PICK l \in 0 .. 2 ^ (Bits - (Bits - n)) - 1, h \in 0 .. 2 ^ (Bits - n) - 1 :
            /\ Shl(a.high, Bits - n) = l * 2 ^ (Bits - n) /\ a.high % 2 ^ (Bits - (Bits - n)) = l
            /\ \A k \in 0 .. 2 ^ (Bits - n) - 1 :
                 /\ l * 2 ^ (Bits - n) + k \in Word
                 /\ Or(k, l * 2 ^ (Bits - n)) = l * 2 ^ (Bits - n) + k
      <4> DEFINE j == Bits - n
      <4>1. j \in 0 .. Bits
        BY <2>1
      <4> HIDE DEF j
      <4>2. \E l \in 0 .. 2 ^ (Bits - j) - 1, h \in 0 .. 2 ^ j - 1 :
              /\ Shl(a.high, j) = l * 2 ^ j /\ a.high % 2 ^ (Bits - j) = l
              /\ \A k \in 0 .. 2 ^ j - 1 : l * 2 ^ j + k \in Word /\ Or(k, l * 2 ^ j) = l * 2 ^ j + k
        BY <1>1, <4>1, ShiftParts, ZenonT(30)
      <4>3. QED
        BY <4>2 DEF j
    <3>2. p = l /\ p \in 0 .. d - 1
      BY <2>1, <3>1
    <3>3. l * e + q \in Word /\ Or(q, l * e) = l * e + q
      BY <2>4, <3>1
    <3>4. Shl(a.high, Bits - n) = l * e
      BY <3>1
    <3> HIDE DEF p, q, e, d
    <3>5. QED
      BY <2>2, <3>2, <3>3, <3>4
  <2>6. PairShr(a, n, signed) = P(p * e + q, s)
    <3>1. Isub(Bits, n) = Bits - n /\ Shl(a.low, Negative(n)) = q
      BY <1>1, <2>1, CountLeft, ShiftedRight, WordWidths
    <3>2. Ilt(n, Bits) # 0
      BY <1>4, CountTest
    <3>3. PairShr(a, n, signed) = P(Or(Shl(a.low, Negative(n)), Shl(a.high, Isub(Bits, n))), s)
      BY <1>4, <3>2 DEF PairShr
    <3> HIDE DEF s, p, q, e
    <3>4. QED
      BY <2>5, <3>1, <3>3
  <2>7. x = p * e + q + m * f
    <3> HIDE DEF d, e, p, q, f
    <3>1. g = f * d + p /\ f \in Int
      <4>1. g = (g \div d) * d + (g % d) /\ g \div d \in Int
        BY <1>2, <2>2, Divided
      <4>2. QED
        BY <2>3, <4>1 DEF f, p
    <3>2. (g * (e * d) + a.low) \div d = g * e + q
      <4> DEFINE y == a.low
      <4>1. y \in Int /\ q = y \div d
        BY <1>1 DEF q
      <4> HIDE DEF y
      <4>2. (g * (e * d) + y) \div d = g * e + q
        BY <1>2, <2>2, <4>1, Finer
      <4>3. QED
        BY <4>2 DEF y
    <3>3. g * (e * d) + a.low = v
      BY <1>1, <1>2, <2>2
    <3>4. g * e = p * e + m * f
      <4>1. (f * d + p) * e = p * e + (e * d) * f
        BY <2>2, <2>5, <3>1
      <4>2. QED
        BY <2>2, <3>1, <4>1
    <3>5. x = v \div d
      BY DEF d
    <3> HIDE DEF v, x
    <3>6. x = g * e + q
      BY <3>2, <3>3, <3>5
    <3>7. p * e \in Int /\ m * f \in Int /\ q \in Int
      BY <1>1, <2>2, <2>4, <2>5, <3>1
    <3>8. QED
      BY ONLY <3>4, <3>6, <3>7
  <2> DEFINE lo == p * e + q
             i == -1
  <2>8. lo \in Word /\ s \in Word
    BY <2>3, <2>5
  <2>9. \E r \in Int : x = lo + Modulus * (s + Modulus * r)
    <3>1. x = lo + m * f /\ lo \in Int
      <4>1. lo \in Int
        BY <2>8, Modulo DEF Word
      <4>2. QED
        BY <2>7, <4>1
    <3>2. s \in Int
      <4> HIDE DEF s
      <4>1. QED
        BY <2>8, Modulo DEF Word
    <3>3. f = s + m * 0 \/ f = s + m * i
      <4> HIDE DEF s, f
      <4>1. QED
        BY <1>1, <1>2, <2>3, <3>2
    <3>4. 0 \in Int /\ i \in Int
      OBVIOUS
    <3> HIDE DEF x, lo, f, s, i
    <3>5. QED
      BY <3>1, <3>3, <3>4
  <2> HIDE DEF x, lo, s
  <2>10. PairOf(x) = PairAnswer(lo, s)
    BY ONLY <2>8, <2>9, Assembled
  <2>11. QED
    BY <2>6, <2>10 DEF Both, P, lo, x
<1>5. CASE n >= Bits
  <2> DEFINE k == n - Bits
             d == 2 ^ k
             s == IF signed THEN ShiftSigned(a.high, k) ELSE Shl(a.high, Negative(k))
             hi == IF signed /\ Ilt(a.high, 0) = 1 THEN Ones ELSE 0
             f == g \div d
  <2>1. k \in 0 .. Bits - 1 /\ k + Bits = n /\ k \in Nat
    BY <1>1, <1>5
  <2>2. d \in Nat /\ d >= 1
    <3>1. k \in 0 .. Bits
      BY <1>1, <2>1
    <3> HIDE DEF k
    <3>2. QED
      BY <3>1, PowerRange
  <2>3. /\ s \in Word
        /\ g >= 0 => f = s
        /\ g < 0 => f = s - Modulus
        /\ (g < 0) <=> (signed /\ Ilt(a.high, 0) = 1)
    <3> HIDE DEF s, k
    <3>1. s = IF signed THEN ShiftSigned(a.high, k) ELSE Shl(a.high, Negative(k))
      BY DEF s
    <3>2. /\ g \in Int /\ s \in Word
          /\ g >= 0 => g \div 2 ^ k = s
          /\ g < 0 => g \div 2 ^ k = s - Modulus
          /\ (g < 0) <=> (signed /\ Ilt(a.high, 0) = 1)
      BY <1>1, <2>1, <3>1, ShiftedHigh
    <3>3. QED
      BY <3>2
  <2>4. PairShr(a, n, signed) = P(s, hi)
    <3>1. Isub(n, Bits) = k
      BY <1>5, CountLeft
    <3>2. Ilt(n, Bits) = 0 /\ n # 0
      BY <1>1, <1>5, CountTest
    <3>3. QED
      BY <3>1, <3>2 DEF PairShr
  <2>5. x = f
    <3>1. 2 ^ (k + Bits) = 2 ^ k * 2 ^ Bits
      <4>1. k \in Nat /\ k + Bits <= 2 * Bits
        BY <1>1, <2>1
      <4> HIDE DEF k
      <4>2. QED
        BY <1>1, <4>1, PowerSum
    <3>2. 2 ^ n = d * m
      BY <2>1, <3>1 DEF Modulus
    <3>3. v = g * m + a.low
      BY <1>1, <1>2
    <3> HIDE DEF d, m
    <3>4. (g * m + a.low) \div (d * m) = g \div d
      BY <1>1, <1>2, <2>2, Coarser
    <3>5. QED
      BY <3>2, <3>3, <3>4
  <2>6. hi \in Word /\ s \in Word
    <3>1. 0 \in Word /\ Ones \in Word
      BY Modulo DEF Word, Ones
    <3>2. QED
      BY <2>3, <3>1
  <2>7. \E r \in Int : x = s + Modulus * (hi + Modulus * r)
    <3> DEFINE i == -1
    <3>1. s \in Int /\ i \in Int /\ 0 \in Int
      <4> HIDE DEF s
      <4>1. QED
        BY <2>6, Modulo DEF Word
    <3>2. CASE g >= 0
      <4>1. hi = 0 /\ f = s
        BY <1>2, <2>3, <3>2
      <4> HIDE DEF x, f, s, hi
      <4>2. x = s + Modulus * (hi + Modulus * 0)
        BY <1>1, <2>5, <3>1, <4>1
      <4>3. QED
        BY <3>1, <4>2
    <3>3. CASE g < 0
      <4>1. hi = Ones /\ f = s - Modulus
        BY <1>2, <2>3, <3>3
      <4>2. hi + Modulus * i = i
        BY <1>1, <4>1 DEF Ones
      <4>3. Modulus * i = -Modulus
        BY <1>1
      <4> HIDE DEF x, f, s, hi, i
      <4>4. x = s + Modulus * (hi + Modulus * i)
        BY <1>1, <2>5, <3>1, <4>1, <4>2, <4>3
      <4>5. QED
        BY <3>1, <4>4
    <3>4. QED
      BY <1>2, <3>2, <3>3
  <2> HIDE DEF x, hi, s
  <2>8. PairOf(x) = PairAnswer(s, hi)
    BY ONLY <2>6, <2>7, Assembled
  <2>9. QED
    BY <2>4, <2>8 DEF Both, P, x
<1>6. QED
  BY <1>1, <1>3, <1>4, <1>5

\* A word turned to the left, with the high bits of another coming in.
Spun(w, other, n) == (w % 2 ^ (Bits - n)) * 2 ^ n + other \div 2 ^ (Bits - n)

LEMMA SpunPair ==
  ASSUME NEW a \in WordPair, NEW n \in 0 .. Bits - 1
  PROVE  /\ PairOf(Rotated(Number(a), n, 2 * Bits)) = PairAnswer(Spun(a.low, a.high, n), Spun(a.high, a.low, n))
         /\ PairOf(Rotated(Number(a), Bits + n, 2 * Bits)) = PairAnswer(Spun(a.high, a.low, n), Spun(a.low, a.high, n))
<1> DEFINE m == Modulus
           d == 2 ^ n
           e == 2 ^ (Bits - n)
           x == a.low
           y == a.high
           v == x + m * y
<1>1. x \in Word /\ y \in Word /\ x \in 0 .. m - 1 /\ x \in Int /\ y \in Int /\ m \in Nat /\ m >= 1 /\ Number(a) = v
  BY PairFields, Modulo DEF Word
<1>2. n \in 0 .. Bits /\ n \in Nat /\ Bits \in Nat /\ Bits - n \in Nat
  BY WordWidths
<1>3. d \in Nat /\ d >= 1 /\ e \in Nat /\ e >= 1 /\ e * d = m /\ d * e = m
  BY <1>2, PowerRange
<1>4. PICK l \in 0 .. e - 1, h \in 0 .. d - 1 :
        /\ x * d = l * d + m * h /\ x % e = l /\ x \div e = h
        /\ \A k \in 0 .. d - 1 : l * d + k \in Word
  <2> HIDE DEF x
  <2>1. QED
    BY <1>1, <1>2, ShiftParts
<1>5. PICK p \in 0 .. e - 1, q \in 0 .. d - 1 :
        /\ y * d = p * d + m * q /\ y % e = p /\ y \div e = q
        /\ \A k \in 0 .. d - 1 : p * d + k \in Word
  <2> HIDE DEF y
  <2>1. QED
    BY <1>1, <1>2, ShiftParts
<1> DEFINE lo == l * d + q
           hi == p * d + h
           s == l * d
           u == s + m * hi
           mm == m * m
<1>6. lo = Spun(x, y, n) /\ hi = Spun(y, x, n)
  BY <1>4, <1>5 DEF Spun
<1>7. lo \in Word /\ hi \in Word
  BY <1>4, <1>5
<1>8. s \in 0 .. m - 1 /\ lo \in Int /\ hi \in 0 .. m - 1 /\ lo = s + q
  <2>1. s + 0 \in Word
    <3>1. 0 \in 0 .. d - 1
      BY <1>3
    <3> HIDE DEF d
    <3>2. QED
      BY <1>4, <3>1
  <2>2. s \in Nat
    BY <1>3
  <2> HIDE DEF lo, hi, s
  <2>3. lo \in Int /\ hi \in 0 .. m - 1 /\ s \in 0 .. m - 1
    BY <1>1, <1>7, <2>1, <2>2 DEF Word
  <2>4. QED
    BY <2>3 DEF lo, s
<1>9. 2 ^ (2 * Bits) = mm /\ 2 ^ (2 * Bits - n) = e * m /\ 2 ^ (Bits + n) = d * m /\ 2 * Bits - (Bits + n) = Bits - n
  <2>1. 2 ^ (Bits + Bits) = 2 ^ Bits * 2 ^ Bits /\ Bits + Bits = 2 * Bits
    BY <1>2, PowerSum
  <2>2. 2 ^ ((Bits - n) + Bits) = 2 ^ (Bits - n) * 2 ^ Bits /\ (Bits - n) + Bits = 2 * Bits - n
    <3> DEFINE k == Bits - n
    <3>1. k \in Nat /\ k + Bits <= 2 * Bits /\ k + Bits = 2 * Bits - n
      BY <1>2
    <3> HIDE DEF k
    <3>2. 2 ^ (k + Bits) = 2 ^ k * 2 ^ Bits
      BY <1>2, <3>1, PowerSum
    <3>3. QED
      BY <3>1, <3>2 DEF k
  <2>3. 2 ^ (n + Bits) = 2 ^ n * 2 ^ Bits /\ n + Bits = Bits + n
    BY <1>2, PowerSum
  <2>4. 2 * Bits - (Bits + n) = Bits - n
    BY <1>2
  <2>5. QED
    BY <2>1, <2>2, <2>3, <2>4 DEF Modulus
<1>10. mm \in Nat /\ mm >= 1 /\ u \in 0 .. mm - 1 /\ u \in Int /\ s * m \in 0 .. mm - 1
  <2> HIDE DEF s, hi, m
  <2>1. mm \in Nat /\ mm >= 1
    BY <1>1
  <2> DEFINE g == m - 1 - hi
             j == m - 1 - s
  <2>2. g \in Nat /\ j \in Nat /\ m * g \in Nat /\ m * hi \in Nat /\ j * m \in Nat /\ s * m \in Nat
    BY <1>1, <1>8
  <2>3. m * g = mm - m - m * hi /\ j * m = mm - m - s * m
    BY <1>1, <1>8
  <2> HIDE DEF g, j, mm
  <2>4. QED
    BY <1>1, <1>8, <2>1, <2>2, <2>3
<1>11. v * d = q * mm + u
  <2> HIDE DEF m, d, x, y
  <2>1. v * d = x * d + m * (y * d)
    BY <1>1, <1>3
  <2>2. m * (p * d + m * q) + m * h = m * (p * d + h) + (m * m) * q
    BY <1>1, <1>3
  <2>3. x * d + m * (y * d) = l * d + m * h + m * (p * d + m * q)
    BY <1>4, <1>5
  <2>4. l * d \in Int /\ m * h \in Int /\ m * (p * d + m * q) \in Int /\ m * (p * d + h) \in Int /\ (m * m) * q \in Int
    BY <1>1, <1>3
  <2>5. l * d + m * h + m * (p * d + m * q) = l * d + m * (p * d + h) + (m * m) * q
    BY ONLY <2>2, <2>4
  <2>6. (m * m) * q = q * (m * m)
    BY <1>1
  <2>7. l * d + m * (p * d + h) + (m * m) * q = q * (m * m) + (l * d + m * (p * d + h))
    BY ONLY <2>4, <2>6
  <2>8. QED
    BY <2>1, <2>3, <2>5, <2>7
<1>12. v \div (e * m) = q /\ v \div e = m * q + hi
  <2>1. v = y * m + x /\ v = y * (d * e) + x
    BY <1>1, <1>3
  <2> HIDE DEF m, d, e, x, y
  <2>2. (y * m + x) \div (e * m) = y \div e
    BY <1>1, <1>3, Coarser
  <2>3. (y * (d * e) + x) \div e = y * d + x \div e
    <3>1. e \in Nat /\ e >= 1 /\ d \in Int /\ y \in Int /\ x \in Int
      BY <1>1, <1>3
    <3>2. QED
      BY ONLY <3>1, Finer
  <2>4. p * d + m * q + h = m * q + (p * d + h)
    BY <1>1, <1>3
  <2> HIDE DEF v
  <2>5. QED
    BY <1>4, <1>5, <2>1, <2>2, <2>3, <2>4
<1> HIDE DEF x, y
<1>13. lo \in Word /\ hi \in Word /\ 0 \in Int
  BY <1>7
<1>14. PairOf(Rotated(v, n, 2 * Bits)) = PairAnswer(lo, hi)
  <2> DEFINE w == Rotated(v, n, 2 * Bits)
  <2>1. w = ((v * d) % mm) + v \div (e * m)
    BY <1>9 DEF Rotated
  <2> HIDE DEF w, v, mm, u, d, e, m, s, lo, hi
  <2>2. (q * mm + u) % mm = u
    <3>1. q \in Int
      BY <1>3
    <3>2. QED
      BY <1>10, <3>1, Quotient
  <2>3. w = u + q
    BY <1>11, <1>12, <2>1, <2>2
  <2>4. w = lo + m * (hi + m * 0)
    <3>1. u = s + m * hi
      BY DEF u
    <3>2. m * hi \in Int /\ q \in Int /\ hi + m * 0 = hi
      BY <1>1, <1>3, <1>8
    <3>3. QED
      BY <1>8, <2>3, <3>1, <3>2
  <2>5. \E r \in Int : w = lo + Modulus * (hi + Modulus * r)
    BY <2>4 DEF m
  <2>6. PairOf(w) = PairAnswer(lo, hi)
    BY ONLY <1>13, <2>5, Assembled
  <2>7. QED
    BY <2>6 DEF w
<1>15. PairOf(Rotated(v, Bits + n, 2 * Bits)) = PairAnswer(hi, lo)
  <2> DEFINE w == Rotated(v, Bits + n, 2 * Bits)
             z == q * m + hi
  <2>1. w = ((v * (d * m)) % mm) + v \div e
    BY <1>9 DEF Rotated
  <2> HIDE DEF v, d, e, m, s, lo, hi
  <2>2. (z * mm + s * m) % mm = s * m
    <3>1. z \in Int
      BY <1>1, <1>3, <1>8
    <3> HIDE DEF z, mm
    <3> DEFINE t == s * m
    <3>2. t \in 0 .. mm - 1
      BY <1>10
    <3> HIDE DEF t
    <3>3. (z * mm + t) % mm = t
      BY <1>10, <3>1, <3>2, Quotient
    <3>4. QED
      BY <3>3 DEF t
  <2>3. v * (d * m) = z * mm + s * m
    <3>1. v \in Int
      BY <1>1 DEF v
    <3>2. v * (d * m) = (v * d) * m
      BY <1>1, <1>3, <3>1
    <3>3. (q * mm + (s + m * hi)) * m = (q * m + hi) * mm + s * m
      BY <1>1, <1>3, <1>8
    <3>4. QED
      BY <1>11, <3>2, <3>3
  <2>4. w = s * m + (m * q + hi)
    BY <1>12, <2>1, <2>2, <2>3
  <2>5. s * m + (m * q + hi) = hi + m * (lo + m * 0)
    <3>1. m * (s + q) = s * m + m * q /\ lo + m * 0 = s + q
      BY <1>1, <1>3, <1>8
    <3>2. s * m \in Int /\ m * q \in Int
      BY <1>1, <1>3, <1>8
    <3>3. QED
      BY <1>8, <3>1, <3>2
  <2> HIDE DEF w
  <2>6. \E r \in Int : w = hi + Modulus * (lo + Modulus * r)
    BY <2>4, <2>5 DEF m
  <2>7. PairOf(w) = PairAnswer(hi, lo)
    BY ONLY <1>13, <2>6, Assembled
  <2>8. QED
    BY <2>7 DEF w
<1>16. QED
  BY <1>1, <1>6, <1>14, <1>15 DEF x, y

LEMMA Mixes ==
  ASSUME NEW w \in Word, NEW other \in Word
  PROVE  /\ Spun(w, other, 0) = w
         /\ \A n \in 1 .. Bits - 1 :
              /\ Or(Shl(w, n), Shl(other, Isub(n, Bits))) = Spun(w, other, n)
              /\ Or(Shl(w, Negative(n)), Shl(other, Isub(Bits, n))) = Spun(other, w, Bits - n)
<1>1. ASSUME NEW n \in 0 .. Bits
      PROVE  Or(Shl(w, n), Shl(other, Negative(Bits - n))) = Spun(w, other, n)
  <2> DEFINE d == 2 ^ n
             e == 2 ^ (Bits - n)
  <2>1. PICK l \in 0 .. e - 1, h \in 0 .. d - 1 :
          /\ Shl(w, n) = l * d /\ w % e = l
          /\ \A k \in 0 .. d - 1 : Or(l * d, k) = l * d + k
    <3>1. \E l \in 0 .. 2 ^ (Bits - n) - 1, h \in 0 .. 2 ^ n - 1 :
           /\ w * 2 ^ n = l * 2 ^ n + Modulus * h /\ w = h * 2 ^ (Bits - n) + l
           /\ Shl(w, n) = l * 2 ^ n /\ Shl(w, Negative(Bits - n)) = h
           /\ w % 2 ^ (Bits - n) = l /\ w \div 2 ^ (Bits - n) = h /\ l * 2 ^ n \in Word /\ h \in Word
           /\ \A k \in 0 .. 2 ^ n - 1 : /\ l * 2 ^ n + k \in Word
                                        /\ Or(l * 2 ^ n, k) = l * 2 ^ n + k /\ Or(k, l * 2 ^ n) = l * 2 ^ n + k
      BY ShiftParts
    <3>2. QED
      BY <3>1
  <2>2. PICK p \in 0 .. e - 1, q \in 0 .. d - 1 : Shl(other, Negative(Bits - n)) = q /\ other \div e = q
    BY ShiftParts
  <2>3. Or(l * d, q) = l * d + q
    BY <2>1, <2>2
  <2>4. QED
    BY <2>1, <2>2, <2>3 DEF Spun
<1>2. Spun(w, other, 0) = w
  <2>1. 0 \in 0 .. Bits /\ Bits - 0 = Bits /\ 2 ^ 0 = 1
    BY WordWidths
  <2>2. w \in 0 .. Modulus - 1 /\ other \in 0 .. Modulus - 1 /\ Modulus \in Nat /\ Modulus >= 1 /\ w \in Int
    BY Modulo DEF Word
  <2>3. w % Modulus = w /\ other \div Modulus = 0
    <3> DEFINE m == Modulus
    <3> HIDE DEF m
    <3>1. m \in Nat /\ m >= 1 /\ w \in 0 .. m - 1 /\ other \in 0 .. m - 1
      BY <2>2 DEF m
    <3>2. w % m = w /\ other \div m = 0
      BY <3>1, Small
    <3>3. QED
      BY <3>2 DEF m
  <2>4. Spun(w, other, 0) = (w % Modulus) * 1 + other \div Modulus
    BY <2>1 DEF Spun, Modulus
  <2>5. QED
    BY <2>2, <2>3, <2>4
<1>3. ASSUME NEW n \in 1 .. Bits - 1
      PROVE  /\ Or(Shl(w, n), Shl(other, Isub(n, Bits))) = Spun(w, other, n)
             /\ Or(Shl(w, Negative(n)), Shl(other, Isub(Bits, n))) = Spun(other, w, Bits - n)
  <2>1. n \in 0 .. Bits /\ n \in 0 .. 2 * Bits - 1 /\ n <= Bits /\ Bits - n \in 0 .. Bits /\ Bits - (Bits - n) = n
    BY WordWidths
  <2>2. Isub(n, Bits) = Negative(Bits - n) /\ Isub(Bits, n) = Bits - n
    BY <2>1, CountLeft
  <2>3. Or(Shl(w, n), Shl(other, Isub(n, Bits))) = Spun(w, other, n)
    BY <1>1, <2>1, <2>2
  <2> DEFINE k == Bits - n
             d == 2 ^ k
             e == 2 ^ (Bits - k)
  <2> HIDE DEF k
  <2>4. k \in 0 .. Bits /\ Bits - k = n
    BY <2>1 DEF k
  <2>5. PICK l \in 0 .. e - 1, h \in 0 .. d - 1 :
          /\ Shl(other, k) = l * d /\ other % e = l
          /\ \A j \in 0 .. d - 1 : Or(j, l * d) = l * d + j
    BY <2>4, ShiftParts
  <2>6. PICK p \in 0 .. e - 1, q \in 0 .. d - 1 : Shl(w, Negative(Bits - k)) = q /\ w \div e = q
    BY <2>4, ShiftParts
  <2>7. Or(q, l * d) = l * d + q
    BY <2>5, <2>6
  <2>8. Or(Shl(w, Negative(n)), Shl(other, k)) = Spun(other, w, k)
    BY <2>4, <2>5, <2>6, <2>7 DEF Spun
  <2>9. QED
    BY <2>2, <2>3, <2>8 DEF k
<1>4. QED
  BY <1>2, <1>3

LEMMA PairTurns ==
  ASSUME NEW a \in WordPair, NEW c \in 0 .. 2 * Bits - 1
  PROVE  /\ Both(PairRotate(a, c, TRUE)) = PairOf(Rotated(Number(a), c, 2 * Bits))
         /\ Both(PairRotate(a, c, FALSE)) = PairOf(Rotated(Number(a), (2 * Bits - c) % (2 * Bits), 2 * Bits))
<1> DEFINE x == a.low
           y == a.high
           n == IF c < Bits THEN c ELSE c - Bits
           b == IF c < Bits THEN a ELSE P(y, x)
           Left(w, other) == Or(Shl(w, n), Shl(other, Isub(n, Bits)))
           Right(w, other) == Or(Shl(w, Negative(n)), Shl(other, Isub(Bits, n)))
           back == (2 * Bits - c) % (2 * Bits)
<1>1. x \in Word /\ y \in Word /\ Bits \in Nat /\ Bits >= 1 /\ a = P(x, y)
  BY PairFields, WordWidths
<1>2. n \in 0 .. Bits - 1 /\ (c < Bits => n = c) /\ (~(c < Bits) => n = c - Bits /\ c = Bits + n)
  BY <1>1
<1>3. /\ PairRotate(a, c, TRUE) = IF n = 0 THEN b ELSE P(Left(b.low, b.high), Left(b.high, b.low))
      /\ PairRotate(a, c, FALSE) = IF n = 0 THEN b ELSE P(Right(b.low, b.high), Right(b.high, b.low))
  <2>1. (Ilt(c, Bits) = 1) <=> (c < Bits)
    BY CountTest
  <2>2. c >= Bits => Isub(c, Bits) = c - Bits
    BY CountLeft
  <2>3. (IF Ilt(c, Bits) = 1 THEN c ELSE Isub(c, Bits)) = n
    BY <1>1, <2>1, <2>2
  <2>4. (IF Ilt(c, Bits) = 1 THEN a ELSE P(a.high, a.low)) = b
    BY <2>1
  <2> HIDE DEF n, b
  <2>5. QED
    BY <2>3, <2>4 DEF PairRotate
<1>4. b.low = (IF c < Bits THEN x ELSE y) /\ b.high = (IF c < Bits THEN y ELSE x) /\ b = P(b.low, b.high)
  BY <1>1 DEF P
<1>5. ASSUME NEW k \in 0 .. Bits - 1
      PROVE  /\ PairOf(Rotated(Number(a), k, 2 * Bits)) = PairAnswer(Spun(x, y, k), Spun(y, x, k))
             /\ PairOf(Rotated(Number(a), Bits + k, 2 * Bits)) = PairAnswer(Spun(y, x, k), Spun(x, y, k))
  BY SpunPair
<1>6. /\ c = 0 => back = 0
      /\ c # 0 => back = 2 * Bits - c
  <2> DEFINE t == 2 * Bits
             j == t - c
  <2>1. t \in Nat /\ t >= 1 /\ 0 \in 0 .. t - 1 /\ (c # 0 => j \in 0 .. t - 1) /\ c \in 0 .. t - 1
    BY <1>1
  <2>2. c # 0 => j % t = j
    <3> HIDE DEF t, j
    <3>1. QED
      BY <2>1, Small
  <2>3. c = 0 => j % t = 0
    <3>1. ASSUME c = 0
          PROVE  j = 1 * t + 0
      BY <2>1, <3>1
    <3> HIDE DEF t, j
    <3>2. (1 * t + 0) % t = 0
      <4>1. 1 \in Int
        OBVIOUS
      <4>2. QED
        BY <2>1, <4>1, Quotient
    <3>3. QED
      BY <3>1, <3>2
  <2>4. QED
    BY <2>2, <2>3
<1> HIDE DEF back, b
<1>7. CASE n = 0
  <2>1. Spun(x, y, 0) = x /\ Spun(y, x, 0) = y
    <3> HIDE DEF x, y
    <3>1. QED
      BY <1>1, Mixes
  <2>2. 0 \in 0 .. Bits - 1 /\ Bits + 0 = Bits
    BY <1>1
  <2>3. PairOf(Rotated(Number(a), 0, 2 * Bits)) = PairAnswer(x, y)
        /\ PairOf(Rotated(Number(a), Bits, 2 * Bits)) = PairAnswer(y, x)
    BY <1>5, <2>1, <2>2
  <2>4. Both(PairRotate(a, c, TRUE)) = PairAnswer(b.low, b.high) /\ Both(PairRotate(a, c, FALSE)) = PairAnswer(b.low, b.high)
    BY <1>3, <1>7 DEF Both
  <2>5. CASE c < Bits
    <3>1. c = 0 /\ back = 0
      BY <1>2, <1>6, <1>7, <2>5
    <3>2. b.low = x /\ b.high = y
      BY <1>4, <2>5
    <3> HIDE DEF x, y
    <3>3. QED
      BY <2>3, <2>4, <3>1, <3>2 DEF back
  <2>6. CASE ~(c < Bits)
    <3>1. c = Bits
      BY <1>1, <1>2, <1>7, <2>6
    <3>2. back = Bits
      BY <1>1, <1>6, <3>1
    <3>3. b.low = y /\ b.high = x
      BY <1>4, <2>6
    <3> HIDE DEF x, y
    <3>4. QED
      BY <2>3, <2>4, <3>1, <3>2, <3>3 DEF back
  <2>7. QED
    BY <2>5, <2>6
<1>8. CASE n # 0
  <2>1. n \in 1 .. Bits - 1
    BY <1>1, <1>2, <1>8
  <2>2. b.low \in Word /\ b.high \in Word
    BY <1>1, <1>4
  <2> DEFINE p == b.low
             q == b.high
             k == Bits - n
  <2>3. /\ Left(p, q) = Spun(p, q, n) /\ Left(q, p) = Spun(q, p, n)
        /\ Right(p, q) = Spun(q, p, k) /\ Right(q, p) = Spun(p, q, k)
    <3>1. p \in Word /\ q \in Word
      BY <2>2
    <3> HIDE DEF p, q, n
    <3>2. QED
      BY <2>1, <3>1, Mixes
  <2>4. /\ Both(PairRotate(a, c, TRUE)) = PairAnswer(Spun(p, q, n), Spun(q, p, n))
        /\ Both(PairRotate(a, c, FALSE)) = PairAnswer(Spun(q, p, k), Spun(p, q, k))
    <3>1. /\ PairRotate(a, c, TRUE) = P(Left(p, q), Left(q, p))
          /\ PairRotate(a, c, FALSE) = P(Right(p, q), Right(q, p))
      BY <1>3, <1>8
    <3>2. \A u, v : Both(P(u, v)) = PairAnswer(u, v)
      BY DEF Both, P
    <3> HIDE DEF n, k, Left, Right, p, q
    <3>3. QED
      BY <2>3, <3>1, <3>2
  <2>5. k \in 0 .. Bits - 1 /\ k = Bits - n
    BY <1>1, <2>1
  <2>6. CASE c < Bits
    <3>1. c = n /\ back = Bits + k
      BY <1>1, <1>2, <1>6, <1>8, <2>6
    <3>2. p = x /\ q = y
      BY <1>4, <2>6
    <3> HIDE DEF x, y, p, q, n, k
    <3>3. /\ PairOf(Rotated(Number(a), n, 2 * Bits)) = PairAnswer(Spun(x, y, n), Spun(y, x, n))
          /\ PairOf(Rotated(Number(a), Bits + k, 2 * Bits)) = PairAnswer(Spun(y, x, k), Spun(x, y, k))
      BY <1>2, <1>5, <2>5
    <3>4. QED
      BY <2>4, <3>1, <3>2, <3>3 DEF back
  <2>7. CASE ~(c < Bits)
    <3>1. c = Bits + n /\ back = k
      BY <1>1, <1>2, <1>6, <2>7
    <3>2. p = y /\ q = x
      BY <1>4, <2>7
    <3> HIDE DEF x, y, p, q, n, k
    <3>3. /\ PairOf(Rotated(Number(a), Bits + n, 2 * Bits)) = PairAnswer(Spun(y, x, n), Spun(x, y, n))
          /\ PairOf(Rotated(Number(a), k, 2 * Bits)) = PairAnswer(Spun(x, y, k), Spun(y, x, k))
      BY <1>2, <1>5, <2>5
    <3>4. QED
      BY <2>4, <3>1, <3>2, <3>3 DEF back
  <2>8. QED
    BY <2>6, <2>7
<1>9. QED
  BY <1>7, <1>8

LEMMA Narrows ==
  ASSUME NEW a \in WordPair
  PROVE  Number(a) % Modulus = a.low
<1>1. /\ a.low \in Word /\ a.high \in Word /\ a.low \in Int /\ a.high \in Int /\ Modulus \in Int
      /\ Number(a) = a.low + Modulus * a.high
  BY PairFields, Modulo
<1> DEFINE x == Number(a)
           w == a.low
           g == a.high
<1>2. w \in Word /\ g \in Int /\ x = Modulus * g + w
  <2>1. w \in Int
    BY <1>1
  <2>2. x = w + Modulus * g
    BY <1>1
  <2>3. w \in Word /\ g \in Int
    BY <1>1
  <2> HIDE DEF x, w, g
  <2>4. QED
    BY <1>1, <2>1, <2>2, <2>3
<1> HIDE DEF x, w, g
<1>3. x % Modulus = w
  BY <1>2, Unique
<1>4. QED
  BY <1>3 DEF x, w

LEMMA Extracts ==
  ASSUME NEW a \in WordPair, NEW n \in 0 .. 2 * Bits - 1
  PROVE  ExtractedWord(a, n) = (Number(a) \div 2 ^ n) % Modulus
<1> DEFINE v == Number(a) \div 2 ^ n
<1>1. a.low \in Word /\ a.high \in Word /\ a.high \in Int /\ Bits \in Nat /\ Bits >= 1 /\ n \in Nat
  BY PairFields, WordWidths
<1>2. PairShr(a, n, FALSE).low = v % Modulus
  <2>1. Number(a) = a.low + Modulus * a.high
    BY PairFields
  <2> DEFINE g == a.high
  <2>2. g = IF FALSE THEN Signed(a.high) ELSE a.high
    OBVIOUS
  <2> HIDE DEF g
  <2>3. FALSE \in BOOLEAN
    OBVIOUS
  <2>4. Both(PairShr(a, n, FALSE)) = PairOf((a.low + Modulus * g) \div 2 ^ n)
    BY <2>2, <2>3, PairShiftsRight
  <2>5. Both(PairShr(a, n, FALSE)) = PairOf(v)
    BY <2>1, <2>4 DEF g
  <2>6. /\ Both(PairShr(a, n, FALSE)).low = PairShr(a, n, FALSE).low
        /\ PairOf(v).low = v % Modulus
    BY DEF Both, PairOf, PairAnswer
  <2>7. QED
    BY <2>5, <2>6
<1>3. CASE n = 0
  <2>1. PairShr(a, n, FALSE) = a
    BY <1>3 DEF PairShr
  <2>2. n \notin 1 .. Bits - 1 /\ n # Bits /\ ~(n > Bits)
    BY <1>1, <1>3
  <2>3. ExtractedWord(a, n) = a.low
    BY <1>3, <2>2 DEF ExtractedWord
  <2>4. QED
    BY <1>2, <2>1, <2>3
<1>4. CASE n # 0 /\ n < Bits
  <2>1. Ilt(n, Bits) # 0 /\ Isub(Bits, n) = Bits - n
    BY <1>1, <1>4, CountTest, CountLeft
  <2>2. PairShr(a, n, FALSE).low = Or(Shl(a.low, Negative(n)), Shl(a.high, Bits - n))
    BY <1>4, <2>1 DEF PairShr, P
  <2>3. n \in 1 .. Bits - 1 /\ n # 0 /\ n # Bits /\ ~(n > Bits)
    BY <1>1, <1>4
  <2>4. ExtractedWord(a, n) = Or(Shl(a.low, Negative(n)), Shl(a.high, Bits - n))
    BY <2>3 DEF ExtractedWord
  <2>5. QED
    BY <1>2, <2>2, <2>4
<1>5. CASE n >= Bits
  <2>1. Ilt(n, Bits) = 0 /\ n # 0 /\ Isub(n, Bits) = n - Bits
    BY <1>1, <1>5, CountTest, CountLeft
  <2>2. PairShr(a, n, FALSE).low = Shl(a.high, Negative(n - Bits))
    BY <2>1 DEF PairShr, P
  <2>3. CASE n = Bits
    <3>1. Shl(a.high, Negative(0)) = a.high \div 2 ^ 0 /\ 2 ^ 0 = 1 /\ a.high \div 1 = a.high /\ n - Bits = 0
      <4>1. 0 \in 0 .. Bits
        BY <1>1
      <4>2. Shl(a.high, Negative(0)) = a.high \div 2 ^ 0
        BY <1>1, <4>1, ShiftedRight
      <4>3. QED
        BY <1>1, <2>3, <4>2
    <3>2. ExtractedWord(a, n) = a.high
      BY <1>1, <2>3 DEF ExtractedWord
    <3>3. PairShr(a, n, FALSE).low = a.high
      BY <2>2, <3>1
    <3>4. QED
      BY <1>2, <3>2, <3>3
  <2>4. CASE n # Bits
    <3>1. n \notin 1 .. Bits - 1 /\ n > Bits /\ n # 0
      BY <1>1, <1>5, <2>4
    <3>2. ExtractedWord(a, n) = Shl(a.high, Negative(n - Bits))
      BY <2>4, <3>1 DEF ExtractedWord
    <3>3. QED
      BY <1>2, <2>2, <3>2
  <2>5. QED
    BY <2>3, <2>4
<1>6. QED
  BY <1>1, <1>3, <1>4, <1>5

LEMMA Extends ==
  ASSUME NEW w \in Word
  PROVE  /\ PairAnswer(w, IF Ilt(w, 0) = 1 THEN Ones ELSE 0) = PairOf(Signed(w))
         /\ PairAnswer(w, 0) = PairOf(w)
<1> DEFINE i == -1
<1>1. /\ w \in Int /\ w >= 0 /\ 0 \in Word /\ Ones \in Word /\ Ones = Modulus - 1
      /\ Modulus \in Int /\ i \in Int /\ 0 \in Int
  BY Modulo DEF Word, Ones
<1>2. PairOf(w) = PairAnswer(w, 0)
  <2>1. w = w + Modulus * (0 + Modulus * 0)
    BY <1>1
  <2>2. \E r \in Int : w = w + Modulus * (0 + Modulus * r)
    BY <1>1, <2>1
  <2>3. w \in Word /\ 0 \in Word
    BY <1>1
  <2>4. QED
    BY ONLY <2>2, <2>3, Assembled
<1>3. CASE w < Sign
  <2>1. Signed(w) = w /\ Ilt(w, 0) # 1
    <3>1. (Ilt(w, 0) = 1) <=> (w >= Sign)
      BY SignedRange
    <3>2. ~(w >= Sign)
      BY <1>1, <1>3, Modulo
    <3>3. QED
      BY <3>1, <3>2 DEF Signed
  <2>2. QED
    BY <1>2, <2>1
<1>4. CASE w >= Sign
  <2> DEFINE v == Signed(w)
             o == Ones
  <2>1. v = w - Modulus /\ Ilt(w, 0) = 1
    <3>1. (Ilt(w, 0) = 1) <=> (w >= Sign)
      BY SignedRange
    <3>2. QED
      BY <1>4, <3>1 DEF Signed
  <2>2. o + Modulus * i = i /\ Modulus * i = -Modulus
    BY <1>1
  <2> HIDE DEF v, o, i
  <2>3. v = w + Modulus * (o + Modulus * i)
    BY <1>1, <2>1, <2>2
  <2>4. \E r \in Int : v = w + Modulus * (o + Modulus * r)
    BY <1>1, <2>3
  <2>5. w \in Word /\ o \in Word
    BY <1>1 DEF o
  <2>6. PairOf(v) = PairAnswer(w, o)
    BY ONLY <2>4, <2>5, Assembled
  <2>7. QED
    BY <1>2, <2>1, <2>6 DEF v, o
<1>5. QED
  BY <1>1, <1>3, <1>4, Modulo

LEMMA PairsAgree ==
  ASSUME NEW o \in PairOps, NEW a \in WordPair, NEW b \in WordPair
  PROVE  LowerPairs(o, a, b) = WasmPairs(o, a, b)
<1> DEFINE n == b.low % (2 * Bits)
<1>1. a.low \in Word /\ a.high \in Word /\ n \in 0 .. 2 * Bits - 1 /\ And(b.low, 2 * Bits - 1) = n
  BY PairFields, CountMask
<1>2. CASE o \in {"add", "sub", "mul"}
  BY <1>2, PairAdds, PairSubtracts, PairMultiplies DEF LowerPairs, WasmPairs
<1>3. CASE o \in {"and", "or", "xor"}
  BY <1>3, PairAnds, PairOrs, PairXors
<1>4. CASE o \in {"eq", "ne", "eqz"}
  BY <1>4, PairEquals DEF LowerPairs, WasmPairs
<1>5. CASE o \in {"lt", "le", "gt", "ge"}
  <2>1. CASE o = "lt"
    <3>1. LowerPairs(o, a, b) = Answer(PairCompare("lt", FALSE, a, b))
      BY <2>1 DEF LowerPairs
    <3>2. WasmPairs(o, a, b) = Answer(Flag(SignedNumber(a) < SignedNumber(b)))
      BY <2>1 DEF WasmPairs
    <3>3. QED
      BY <3>1, <3>2, Compares
  <2>2. CASE o = "le"
    <3>1. LowerPairs(o, a, b) = Answer(PairCompare("le", FALSE, a, b))
      BY <2>2 DEF LowerPairs
    <3>2. WasmPairs(o, a, b) = Answer(Flag(SignedNumber(a) <= SignedNumber(b)))
      BY <2>2 DEF WasmPairs
    <3>3. QED
      BY <3>1, <3>2, Compares
  <2>3. CASE o = "gt"
    <3>1. LowerPairs(o, a, b) = Answer(PairCompare("gt", FALSE, a, b))
      BY <2>3 DEF LowerPairs
    <3>2. WasmPairs(o, a, b) = Answer(Flag(SignedNumber(a) > SignedNumber(b)))
      BY <2>3 DEF WasmPairs
    <3>3. QED
      BY <3>1, <3>2, Compares
  <2>4. CASE o = "ge"
    <3>1. LowerPairs(o, a, b) = Answer(PairCompare("ge", FALSE, a, b))
      BY <2>4 DEF LowerPairs
    <3>2. WasmPairs(o, a, b) = Answer(Flag(SignedNumber(a) >= SignedNumber(b)))
      BY <2>4 DEF WasmPairs
    <3>3. QED
      BY <3>1, <3>2, Compares
  <2>5. QED
    BY <1>5, <2>1, <2>2, <2>3, <2>4
<1>6. CASE o \in {"ltu", "leu", "gtu", "geu"}
  BY <1>6, Compares DEF LowerPairs, WasmPairs
<1>7. CASE o = "shl64"
  <2>1. Both(PairShl(a, n)) = PairOf(Number(a) * 2 ^ n)
    BY <1>1, PairShiftsLeft
  <2>2. LowerPairs(o, a, b) = Both(PairShl(a, n))
    BY <1>1, <1>7 DEF LowerPairs
  <2>3. WasmPairs(o, a, b) = PairOf(Number(a) * 2 ^ n)
    BY <1>7 DEF WasmPairs
  <2>4. QED
    BY <2>1, <2>2, <2>3
<1>8. CASE o \in {"shru64", "shrs64"}
  <2>1. ASSUME NEW signed \in BOOLEAN, NEW g, g = IF signed THEN Signed(a.high) ELSE a.high
        PROVE  Both(PairShr(a, n, signed)) = PairOf((a.low + Modulus * g) \div 2 ^ n)
    <3> HIDE DEF n
    <3>1. QED
      BY <1>1, <2>1, PairShiftsRight
  <2>2. Number(a) = a.low + Modulus * a.high /\ SignedNumber(a) = a.low + Modulus * Signed(a.high)
    BY PairFields
  <2>3. Both(PairShr(a, n, TRUE)) = PairOf(SignedNumber(a) \div 2 ^ n)
    <3> DEFINE g == Signed(a.high)
    <3>1. g = IF TRUE THEN Signed(a.high) ELSE a.high
      OBVIOUS
    <3> HIDE DEF g
    <3>2. Both(PairShr(a, n, TRUE)) = PairOf((a.low + Modulus * g) \div 2 ^ n)
      BY <2>1, <3>1
    <3>3. QED
      BY <2>2, <3>2 DEF g
  <2>4. Both(PairShr(a, n, FALSE)) = PairOf(Number(a) \div 2 ^ n)
    <3> DEFINE g == a.high
    <3>1. g = IF FALSE THEN Signed(a.high) ELSE a.high
      OBVIOUS
    <3> HIDE DEF g
    <3>2. Both(PairShr(a, n, FALSE)) = PairOf((a.low + Modulus * g) \div 2 ^ n)
      BY <2>1, <3>1
    <3>3. QED
      BY <2>2, <3>2 DEF g
  <2>5. CASE o = "shru64"
    <3>1. LowerPairs(o, a, b) = Both(PairShr(a, n, FALSE))
      BY <1>1, <2>5 DEF LowerPairs
    <3>2. WasmPairs(o, a, b) = PairOf(Number(a) \div 2 ^ n)
      BY <2>5 DEF WasmPairs
    <3>3. QED
      BY <2>4, <3>1, <3>2
  <2>6. CASE o = "shrs64"
    <3>1. LowerPairs(o, a, b) = Both(PairShr(a, n, TRUE))
      BY <1>1, <2>6 DEF LowerPairs
    <3>2. WasmPairs(o, a, b) = PairOf(SignedNumber(a) \div 2 ^ n)
      BY <2>6 DEF WasmPairs
    <3>3. QED
      BY <2>3, <3>1, <3>2
  <2>7. QED
    BY <1>8, <2>5, <2>6
<1>9. CASE o \in {"rotl64", "rotr64"}
  <2>1. /\ Both(PairRotate(a, n, TRUE)) = PairOf(Rotated(Number(a), n, 2 * Bits))
        /\ Both(PairRotate(a, n, FALSE)) = PairOf(Rotated(Number(a), (2 * Bits - n) % (2 * Bits), 2 * Bits))
    <3> HIDE DEF n
    <3>1. QED
      BY <1>1, PairTurns
  <2>2. CASE o = "rotl64"
    <3>1. LowerPairs(o, a, b) = Both(PairRotate(a, n, TRUE))
      BY <1>1, <2>2 DEF LowerPairs
    <3>2. WasmPairs(o, a, b) = PairOf(Rotated(Number(a), n, 2 * Bits))
      BY <2>2 DEF WasmPairs
    <3>3. QED
      BY <2>1, <3>1, <3>2
  <2>3. CASE o = "rotr64"
    <3>1. LowerPairs(o, a, b) = Both(PairRotate(a, n, FALSE))
      BY <1>1, <2>3 DEF LowerPairs
    <3>2. WasmPairs(o, a, b) = PairOf(Rotated(Number(a), (2 * Bits - n) % (2 * Bits), 2 * Bits))
      BY <2>3 DEF WasmPairs
    <3>3. QED
      BY <2>1, <3>1, <3>2
  <2>4. QED
    BY <1>9, <2>2, <2>3
<1>10. CASE o = "wrap"
  <2>1. LowerPairs(o, a, b) = Answer(a.low)
    BY <1>10 DEF LowerPairs
  <2>2. WasmPairs(o, a, b) = Answer(Number(a) % Modulus)
    BY <1>10 DEF WasmPairs
  <2>3. QED
    BY <2>1, <2>2, Narrows
<1>11. CASE o \in {"extends", "extendu"}
  BY <1>1, <1>11, Extends DEF LowerPairs, WasmPairs
<1>12. CASE o = "extract"
  <2>1. ExtractedWord(a, n) = (Number(a) \div 2 ^ n) % Modulus
    BY <1>1, Extracts
  <2>2. LowerPairs(o, a, b) = Answer(ExtractedWord(a, n))
    BY <1>1, <1>12 DEF LowerPairs
  <2>3. WasmPairs(o, a, b) = Answer((Number(a) \div 2 ^ n) % Modulus)
    BY <1>12 DEF WasmPairs
  <2>4. QED
    BY <2>1, <2>2, <2>3
<1>13. QED
  BY <1>2, <1>3, <1>4, <1>5, <1>6, <1>7, <1>8, <1>9, <1>10, <1>11, <1>12 DEF PairOps

-----------------------------------------------------------------------------
(* The division helper.                                                     *)

\* One bit of the dividend a comes down: d is 2 ^ k, q the part of a above it.
LEMMA BringsDown ==
  ASSUME NEW a \in Word, NEW k \in 0 .. Bits - 1
  PROVE  LET bit == And(Shl((a * 2 ^ (Bits - (k + 1))) % Modulus, Negative(Bits - 1)), 1) IN
         /\ bit \in {0, 1} /\ a \div 2 ^ k = 2 * (a \div 2 ^ (k + 1)) + bit
         /\ a \div 2 ^ (k + 1) \in 0 .. 2 ^ (Bits - 1) - 1
         /\ Shl((a * 2 ^ (Bits - (k + 1))) % Modulus, 1) = (a * 2 ^ (Bits - k)) % Modulus
<1> DEFINE d == 2 ^ k
           e == 2 ^ (k + 1)
           j == Bits - (k + 1)
           f == 2 ^ j
           t == a % e
           q == a \div e
           r == (a * f) % Modulus
           top == 2 ^ (Bits - 1)
           c == t \div d
<1>1. /\ k \in Nat /\ k + 1 \in 0 .. Bits /\ j \in 0 .. Bits /\ Bits - j = k + 1 /\ Bits - (Bits - 1) = 1
      /\ k + j = Bits - 1 /\ Bits - 1 \in 0 .. Bits /\ Bits - k = j + 1 /\ j + 1 <= Bits /\ k \in 0 .. Bits
  BY WordWidths
<1>2. d \in Nat /\ d >= 1 /\ e = d * 2 /\ e \in Nat /\ e >= 1 /\ f \in Nat /\ f >= 1 /\ top = d * f /\ top >= 1 /\ top \in Nat
  <2>1. 2 ^ (k + 1) = 2 * 2 ^ k
    BY <1>1, WordWidths, WordPairsAssumption
  <2>2. d \in Nat /\ d >= 1 /\ f \in Nat /\ f >= 1 /\ top \in Nat /\ top >= 1
    <3> HIDE DEF j
    <3>1. QED
      BY <1>1, PowerRange
  <2>3. top = d * f
    <3>1. 2 ^ (k + j) = 2 ^ k * 2 ^ j
      <4>1. j \in Nat /\ k \in Nat /\ k + j <= 2 * Bits
        BY <1>1, WordWidths
      <4> HIDE DEF j
      <4>2. QED
        BY <4>1, PowerSum
    <3>2. QED
      BY <1>1, <3>1
  <2>4. e = d * 2
    BY <2>1, <2>2
  <2>5. QED
    BY <2>2, <2>3, <2>4
<1>3. q \in 0 .. 2 ^ (Bits - (k + 1)) - 1 /\ t \in 0 .. e - 1 /\ a = q * e + t /\ q \in Int /\ t \in Int /\ a \in Int
  <2>1. q \in 0 .. 2 ^ (Bits - (k + 1)) - 1 /\ t \in 0 .. e - 1 /\ a = q * e + t
    BY <1>1, Halved
  <2>2. a \in Int
    BY Modulo DEF Word
  <2>3. QED
    BY <1>2, <2>1, <2>2
<1>4. r = t * f /\ r \in Word
  <2>1. r = (a % 2 ^ (Bits - j)) * 2 ^ j
    <3> HIDE DEF j
    <3>1. QED
      BY <1>1, ShiftedLeft
  <2>2. r = t * f
    BY <1>1, <2>1
  <2>3. a * f \in Int
    BY <1>2, <1>3
  <2>4. r \in Word
    <3> DEFINE z == a * f
    <3>1. z \in Int
      BY <2>3
    <3> HIDE DEF z
    <3>2. z % Modulus \in Word
      BY <3>1, Wrapping
    <3>3. QED
      BY <3>2 DEF z
  <2>5. QED
    BY <2>2, <2>4
<1> HIDE DEF r
<1>5. c \in {0, 1} /\ a \div d = q * 2 + c
  <2> HIDE DEF d, e, t, q
  <2>1. (q * (2 * d) + t) \div d = q * 2 + t \div d
    <3>1. d \in Nat /\ d >= 1 /\ 2 \in Int /\ q \in Int /\ t \in Int
      BY <1>2, <1>3
    <3>2. QED
      BY ONLY <3>1, Finer
  <2>2. q * (2 * d) + t = a
    BY <1>2, <1>3
  <2>3. c \in Int /\ t = c * d + (t % d) /\ t % d \in 0 .. d - 1
    BY <1>2, <1>3, Divided
  <2>4. c \in {0, 1}
    <3> DEFINE s == t % d
    <3>1. t = c * d + s /\ s \in 0 .. d - 1
      BY <2>3
    <3> HIDE DEF s, c
    <3>2. t >= 0 /\ t <= 2 * d - 1
      BY <1>2, <1>3
    <3>3. c <= 1
      <4>1. SUFFICES ASSUME c >= 2
                     PROVE  FALSE
        BY <2>3
      <4>2. c - 2 \in Nat
        BY <2>3, <4>1
      <4>3. (c - 2) * d \in Nat /\ (c - 2) * d = c * d - 2 * d
        BY <1>2, <2>3, <4>2
      <4>4. c * d \in Int
        BY <1>2, <2>3
      <4>5. QED
        BY <1>2, <3>1, <3>2, <4>3, <4>4
    <3>4. c >= 0
      <4>1. SUFFICES ASSUME c <= -1
                     PROVE  FALSE
        BY <2>3
      <4>2. (-1) - c \in Nat
        BY <2>3, <4>1
      <4>3. ((-1) - c) * d \in Nat /\ ((-1) - c) * d = -d - c * d
        BY <1>2, <2>3, <4>2
      <4>4. c * d \in Int
        BY <1>2, <2>3
      <4>5. QED
        BY <1>2, <3>1, <3>2, <4>3, <4>4
    <3>5. QED
      BY <2>3, <3>3, <3>4
  <2>5. QED
    BY <2>1, <2>2, <2>4
<1>6. r \div top = c
  <2> HIDE DEF d, f, t, top, q
  <2>1. (t * f + 0) \div (d * f) = t \div d
    <3>1. f \in Nat /\ f >= 1 /\ d \in Nat /\ d >= 1 /\ t \in Int /\ 0 \in 0 .. f - 1
      BY <1>2, <1>3
    <3>2. QED
      BY ONLY <3>1, Coarser
  <2>2. t * f + 0 = r
    BY <1>2, <1>3, <1>4
  <2>3. QED
    BY <1>2, <2>1, <2>2
<1>7. And(Shl(r, Negative(Bits - 1)), 1) = c
  <2>1. Shl(r, Negative(Bits - 1)) = r \div 2 ^ (Bits - 1)
    BY <1>1, <1>4, ShiftedRight
  <2>2. Shl(r, Negative(Bits - 1)) = c
    BY <1>6, <2>1
  <2> HIDE DEF c
  <2>3. And(c, 1) = c * 1
    BY <1>5, AndFlags
  <2>4. c * 1 = c
    BY <1>5
  <2>5. QED
    BY <2>2, <2>3, <2>4
<1>8. q \in 0 .. top - 1
  <2>1. f <= top
    <3> DEFINE g == d - 1
    <3>1. g \in Nat
      BY <1>2
    <3> HIDE DEF d, f, top
    <3>2. g * f \in Nat /\ g * f = d * f - f
      BY <1>2, <3>1
    <3>3. d * f \in Int
      BY <1>2
    <3>4. QED
      BY <1>2, <3>2, <3>3
  <2>2. q \in 0 .. f - 1
    BY <1>3
  <2> HIDE DEF q, f, top
  <2>3. QED
    BY <1>2, <2>1, <2>2
<1>9. Shl(r, 1) = (a * 2 ^ (Bits - k)) % Modulus
  <2>1. Shl(r, 1) = (r * 2 ^ 1) % Modulus /\ 2 ^ 1 = 2
    <3>1. 1 \in 0 .. Bits
      BY WordWidths
    <3>2. Shl(r, 1) = (r * 2 ^ 1) % Modulus
      BY <1>4, <3>1, ShiftedLeft
    <3>3. QED
      BY <3>2, Modulo
  <2>2. 2 ^ (Bits - k) = 2 * f
    <3>1. j \in 0 .. 2 * Bits - 1
      BY <1>1, WordWidths
    <3> HIDE DEF j
    <3>2. 2 ^ (j + 1) = 2 * 2 ^ j
      BY <3>1, WordPairsAssumption
    <3>3. QED
      BY <1>1, <3>2
  <2> DEFINE z == a * f
             y == r * 2
             x == a * (2 * f)
  <2>3. z \in Int /\ y \in Int /\ x = z * 2 /\ x \in Int
    <3>1. r \in Int
      BY <1>4, Modulo DEF Word
    <3> HIDE DEF f
    <3>2. QED
      BY <1>2, <1>3, <3>1
  <2>4. PICK g \in Int : z = Modulus * g + r
    <3> HIDE DEF z
    <3>1. r = z % Modulus
      BY DEF r, z
    <3>2. QED
      BY <2>3, <3>1, Wrapping
  <2>5. PICK h \in Int, w \in Word : y % Modulus = w /\ y = Modulus * h + w /\ w \in Int
    <3> HIDE DEF y
    <3>1. QED
      BY <2>3, Remainders
  <2>6. x = Modulus * (2 * g + h) + w
    <3>1. Modulus \in Int /\ r \in Int
      BY <1>4, Modulo DEF Word
    <3>2. Modulus * (2 * g + h) = (Modulus * g) * 2 + Modulus * h
      BY <3>1
    <3>3. Modulus * g \in Int /\ Modulus * h \in Int
      BY <3>1
    <3> HIDE DEF x, z
    <3>4. QED
      BY <2>3, <2>4, <2>5, <3>1, <3>2, <3>3
  <2>7. x % Modulus = w
    <3> DEFINE i == 2 * g + h
    <3>1. i \in Int /\ x = Modulus * i + w
      BY <2>6
    <3> HIDE DEF i, x
    <3>2. QED
      BY <3>1, Unique
  <2>8. QED
    BY <2>1, <2>2, <2>5, <2>7
<1>10. QED
  <2>1. q * 2 + c = 2 * q + c
    BY <1>3
  <2>2. QED
    BY <1>5, <1>7, <1>8, <1>9, <2>1 DEF r

\* What DivisionStep makes of remainder and quotient of q, for the part 2 * q + bit.
LEMMA DividesOn ==
  ASSUME NEW q \in 0 .. 2 ^ (Bits - 1) - 1, NEW bit \in {0, 1}, NEW b \in Word, b # 0
  PROVE  LET rest == Or(Shl(q % b, 1), bit)
             fits == Ige(Biased(rest), Biased(b))
         IN /\ (2 * q + bit) \div b = Or(Shl(q \div b, 1), fits)
            /\ (2 * q + bit) % b = IF fits = 1 THEN Isub(rest, b) ELSE rest
            /\ q \div b \in Word /\ q % b \in Word
<1> DEFINE p == q \div b
           s == q % b
           rest == Or(Shl(s, 1), bit)
           fits == Ige(Biased(rest), Biased(b))
           top == 2 ^ (Bits - 1)
           x == 2 * q + bit
<1>1. /\ b \in Int /\ b >= 1 /\ b < Modulus /\ Modulus \in Nat /\ Modulus = 2 * top /\ top \in Nat
      /\ q \in Int /\ q >= 0 /\ q < top /\ b \in Nat /\ 1 \in 0 .. Bits
  BY Modulo, WordWidths DEF Word, Sign
<1>2. p \in Nat /\ s \in 0 .. b - 1 /\ q = p * b + s /\ s \in Nat
  <2>1. p \in Nat /\ s \in 0 .. b - 1 /\ q = p * b + s
    BY <1>1, Divided
  <2>2. QED
    BY <1>1, <2>1
<1>3. p <= q /\ s <= q
  <2> HIDE DEF p, s
  <2> DEFINE g == b - 1
  <2>1. g \in Nat /\ p * g \in Nat /\ p * g = p * b - p /\ p * b \in Nat
    BY <1>1, <1>2
  <2> HIDE DEF g
  <2>2. QED
    BY <1>1, <1>2, <2>1
<1> HIDE DEF p, s
<1>4. ASSUME NEW w \in Nat, w <= q, NEW i \in {0, 1}
      PROVE  Or(Shl(w, 1), i) = 2 * w + i /\ 2 * w + i \in Word /\ w \in Word
  <2>1. w \in Word /\ i \in 0 .. 2 ^ 1 - 1 /\ w \in 0 .. 2 ^ (Bits - 1) - 1
    <3>1. w \in 0 .. top - 1
      BY <1>1, <1>4
    <3>2. 2 ^ 1 = 2
      OBVIOUS
    <3> HIDE DEF top
    <3>3. w \in Word
      BY <1>1, <3>1 DEF Word
    <3>4. i \in 0 .. 2 ^ 1 - 1
      BY <3>2
    <3>5. QED
      BY <3>1, <3>3, <3>4 DEF top
  <2>2. Shl(w, 1) = (w % 2 ^ (Bits - 1)) * 2 ^ 1
    BY <1>1, <2>1, ShiftedLeft
  <2>3. w % top = w
    <3>1. top >= 1 /\ w \in 0 .. top - 1
      BY <1>1, <1>4
    <3> HIDE DEF top
    <3>2. QED
      BY <1>1, <3>1, Small
  <2>4. Or(w * 2 ^ 1, i) = w * 2 ^ 1 + i /\ w * 2 ^ 1 + i \in Word
    BY <1>1, <2>1, Joined
  <2>5. w * 2 ^ 1 = 2 * w
    BY Modulo
  <2>6. QED
    BY <2>1, <2>2, <2>3, <2>4, <2>5
<1>5. rest = 2 * s + bit /\ rest \in Word /\ s \in Word /\ rest \in Nat
  <2>1. rest = 2 * s + bit /\ rest \in Word /\ s \in Word
    BY <1>2, <1>3, <1>4
  <2>2. 2 * s + bit \in Nat
    BY <1>2
  <2>3. QED
    BY <2>1, <2>2
<1>6. fits = Flag(rest >= b)
  <2> HIDE DEF rest
  <2>1. QED
    BY <1>5, UnsignedOrder
<1> HIDE DEF fits, rest
<1>7. fits \in {0, 1} /\ (fits = 1 => rest >= b) /\ (fits # 1 => ~(rest >= b))
  BY <1>6 DEF Flag
<1>8. Or(Shl(p, 1), fits) = 2 * p + fits /\ p \in Word
  BY <1>2, <1>3, <1>4, <1>7
<1> DEFINE t == IF fits = 1 THEN Isub(rest, b) ELSE rest
<1>9. t = rest - fits * b /\ t \in 0 .. b - 1
  <2>1. CASE fits = 1
    <3> DEFINE u == rest - b
    <3>1. u \in 0 .. b - 1 /\ u \in 0 .. Modulus - 1
      BY <1>1, <1>2, <1>5, <1>7, <2>1
    <3>2. Isub(rest, b) = u
      <4> DEFINE m == Modulus
      <4> HIDE DEF u, m
      <4>1. m \in Nat /\ m >= 1 /\ u \in 0 .. m - 1
        BY <1>1, <3>1 DEF m
      <4>2. u % m = u
        BY <4>1, Small
      <4>3. QED
        BY <4>2 DEF Isub, u, m
    <3>3. t = u /\ rest - fits * b = u
      BY <1>1, <1>5, <2>1, <3>2
    <3>4. QED
      BY <3>1, <3>3
  <2>2. CASE fits = 0
    <3>1. t = rest /\ rest < b
      BY <1>1, <1>5, <1>7, <2>2
    <3>2. QED
      BY <1>1, <1>5, <2>2, <3>1
  <2>3. QED
    BY <1>7, <2>1, <2>2
<1> HIDE DEF t
<1>10. x = (2 * p + fits) * b + t
  <2>1. (2 * p + fits) * b = 2 * (p * b) + fits * b
    BY <1>1, <1>2, <1>7
  <2>2. p * b \in Int /\ fits * b \in Int /\ t \in Int
    BY <1>1, <1>2, <1>7, <1>9
  <2>3. x = 2 * (p * b + s) + bit
    BY <1>2
  <2> HIDE DEF x
  <2>4. QED
    BY <1>2, <1>5, <1>9, <2>1, <2>2, <2>3
<1>11. x \div b = 2 * p + fits /\ x % b = t
  <2> DEFINE g == 2 * p + fits
  <2>1. g \in Int /\ x = g * b + t
    BY <1>2, <1>7, <1>10
  <2> HIDE DEF g, x
  <2>2. (g * b + t) \div b = g /\ (g * b + t) % b = t
    BY <1>1, <1>9, <2>1, Quotient
  <2>3. QED
    BY <2>1, <2>2 DEF g
<1>12. QED
  BY <1>5, <1>8, <1>11 DEF t, p, s, rest, fits

-----------------------------------------------------------------------------
(* The inductive invariant of WordPairs.                                    *)

OperandTypes ==
  /\ op \in WordOps \cup DivisionOps \cup PairOps
  /\ op \in WordOps \cup DivisionOps => left \in Word /\ right \in Word
  /\ op \in PairOps => left \in WordPair /\ right \in WordPair

Answers ==
  answer # <<>> => answer[1] = IF op \in PairOps THEN WasmPairs(op, left, right) ELSE WasmWords(op, left, right)

\* The registers while the division goes on, for what is brought down.
Divides ==
  answer = <<>> /\ regs # Idle =>
    LET down == left \div 2 ^ regs.r5 IN
    /\ op \in DivisionOps /\ right # 0 /\ regs.r2 = right /\ regs.r5 \in 0 .. Bits
    /\ regs = [r1 |-> regs.r1, r2 |-> regs.r2, r3 |-> regs.r3, r4 |-> regs.r4, r5 |-> regs.r5]
    /\ regs.r1 = (left * 2 ^ (Bits - regs.r5)) % Modulus
    /\ regs.r3 = down \div right /\ regs.r4 = down % right

PairsInv == OperandTypes /\ Answers /\ Divides

LEMMA OpsApart ==
  \A o : ~(o \in PairOps /\ o \in WordOps) /\ ~(o \in PairOps /\ o \in DivisionOps) /\ ~(o \in WordOps /\ o \in DivisionOps)
BY DEF PairOps, WordOps, DivisionOps

LEMMA PairsStart == PairsInit => PairsInv
<1> SUFFICES ASSUME PairsInit
             PROVE  PairsInv
  OBVIOUS
<1>1. OperandTypes
  <2>1. CASE op \in WordOps \cup DivisionOps /\ left \in Word /\ right \in Word
    BY <2>1, OpsApart DEF OperandTypes
  <2>2. CASE op \in PairOps /\ left \in [low : Samples, high : Samples] /\ right \in [low : Samples, high : Samples]
    <3>1. left \in WordPair /\ right \in WordPair
      BY <2>2, WordPairsAssumption DEF WordPair
    <3>2. QED
      BY <2>2, <3>1, OpsApart DEF OperandTypes
  <2>3. QED
    BY <2>1, <2>2 DEF PairsInit
<1>2. answer = <<>> /\ regs = Idle
  BY DEF PairsInit
<1>3. QED
  BY <1>1, <1>2 DEF PairsInv, Answers, Divides

LEMMA DivisionStarts ==
  ASSUME PairsInv, StartDivision
  PROVE  PairsInv'
<1>1. /\ answer = <<>> /\ op \in DivisionOps /\ op' = op /\ left' = left /\ right' = right
      /\ left \in Word /\ right \in Word /\ op \notin PairOps
  BY OpsApart DEF StartDivision, PairsInv, OperandTypes
<1>2. OperandTypes'
  BY <1>1 DEF PairsInv, OperandTypes
<1>3. CASE right = 0
  <2>1. answer' = <<Trap>> /\ regs' = regs
    BY <1>3 DEF StartDivision
  <2>2. WasmWords(op, left, right) = Trap
    BY <1>1, <1>3 DEF WasmWords, DivisionOps
  <2>3. answer'[1] = WasmWords(op, left, right)
    BY <2>1, <2>2
  <2>4. Answers'
    BY <1>1, <2>3 DEF Answers
  <2>5. answer' # <<>>
    BY <2>1
  <2>6. Divides'
    BY <2>5 DEF Divides
  <2>7. QED
    BY <1>2, <2>4, <2>6 DEF PairsInv
<1>4. CASE right # 0
  <2>1. answer' = <<>> /\ regs' = [r1 |-> left, r2 |-> right, r3 |-> 0, r4 |-> 0, r5 |-> Bits]
    BY <1>1, <1>4 DEF StartDivision
  <2>2. left * 2 ^ (Bits - Bits) = left /\ left % Modulus = left /\ left \div 2 ^ Bits = 0
    <3>1. left \in 0 .. Modulus - 1 /\ Modulus \in Nat /\ Modulus >= 1 /\ left \in Int
      BY <1>1, Modulo DEF Word
    <3>2. Bits - Bits = 0 /\ 2 ^ 0 = 1
      BY WordWidths
    <3> DEFINE m == Modulus
    <3>3. left % m = left /\ left \div m = 0
      <4> HIDE DEF m
      <4>1. m \in Nat /\ m >= 1 /\ left \in 0 .. m - 1
        BY <3>1 DEF m
      <4>2. QED
        BY <4>1, Small
    <3>4. left * 2 ^ (Bits - Bits) = left
      <4> DEFINE z == Bits - Bits
      <4>1. z = 0
        BY <3>2
      <4> HIDE DEF z
      <4>2. 2 ^ z = 1 /\ left * 1 = left
        BY <3>1, <3>2, <4>1
      <4>3. QED
        BY <4>2 DEF z
    <3>5. QED
      BY <3>3, <3>4 DEF Modulus
  <2>3. 0 \div right = 0 /\ 0 % right = 0
    <3>1. right \in Nat /\ right >= 1 /\ 0 \in 0 .. right - 1
      BY <1>1, <1>4, Modulo DEF Word
    <3>2. QED
      BY <3>1, Small
  <2>4. Answers'
    BY <2>1 DEF Answers
  <2>5. Divides'
    <3>1. /\ regs'.r1 = left /\ regs'.r2 = right /\ regs'.r3 = 0 /\ regs'.r4 = 0 /\ regs'.r5 = Bits
          /\ regs' = [r1 |-> regs'.r1, r2 |-> regs'.r2, r3 |-> regs'.r3, r4 |-> regs'.r4, r5 |-> regs'.r5]
      BY <2>1
    <3>2. left' \div 2 ^ regs'.r5 = 0
      BY <1>1, <2>2, <3>1
    <3>3. regs'.r1 = (left' * 2 ^ (Bits - regs'.r5)) % Modulus
      BY <1>1, <2>2, <3>1
    <3>4. regs'.r3 = (left' \div 2 ^ regs'.r5) \div right' /\ regs'.r4 = (left' \div 2 ^ regs'.r5) % right'
      BY <1>1, <2>3, <3>1, <3>2
    <3>5. op' \in DivisionOps /\ right' # 0 /\ regs'.r2 = right' /\ regs'.r5 \in 0 .. Bits
      BY <1>1, <1>4, <3>1, WordWidths
    <3>6. QED
      BY <3>1, <3>3, <3>4, <3>5 DEF Divides
  <2>6. QED
    BY <1>2, <2>4, <2>5 DEF PairsInv
<1>5. QED
  BY <1>3, <1>4

LEMMA DivisionSteps ==
  ASSUME PairsInv, DivisionStep
  PROVE  PairsInv'
<1> DEFINE k == regs.r5 - 1
           down == left \div 2 ^ (k + 1)
           bit == And(Shl(regs.r1, Negative(Bits - 1)), 1)
           rest == Or(Shl(regs.r4, 1), bit)
           fits == Ige(Biased(rest), Biased(regs.r2))
           next == 2 * down + bit
<1>1. answer = <<>> /\ regs.r5 > 0 /\ op' = op /\ left' = left /\ right' = right /\ answer' = answer
  BY DEF DivisionStep
<1>2. regs # Idle
  BY <1>1 DEF Idle
<1>3. /\ op \in DivisionOps /\ right # 0 /\ regs.r2 = right /\ regs.r5 \in 0 .. Bits
      /\ regs = [r1 |-> regs.r1, r2 |-> regs.r2, r3 |-> regs.r3, r4 |-> regs.r4, r5 |-> regs.r5]
      /\ regs.r1 = (left * 2 ^ (Bits - regs.r5)) % Modulus
      /\ regs.r3 = (left \div 2 ^ regs.r5) \div right /\ regs.r4 = (left \div 2 ^ regs.r5) % right
  BY <1>1, <1>2 DEF PairsInv, Divides
<1>4. left \in Word /\ right \in Word
  BY <1>3 DEF PairsInv, OperandTypes
<1>5. k \in 0 .. Bits - 1 /\ k + 1 = regs.r5
  <2> DEFINE r == regs.r5
  <2>1. r > 0 /\ r \in 0 .. Bits
    BY <1>1, <1>3
  <2> HIDE DEF r
  <2>2. r - 1 \in 0 .. Bits - 1 /\ (r - 1) + 1 = r
    BY <2>1, WordWidths
  <2>3. QED
    BY <2>2 DEF r
<1>6. /\ bit \in {0, 1} /\ left \div 2 ^ k = next /\ down \in 0 .. 2 ^ (Bits - 1) - 1
      /\ Shl(regs.r1, 1) = (left * 2 ^ (Bits - k)) % Modulus
  <2>1. regs.r1 = (left * 2 ^ (Bits - (k + 1))) % Modulus
    BY <1>3, <1>5
  <2> HIDE DEF k
  <2>2. LET i == And(Shl((left * 2 ^ (Bits - (k + 1))) % Modulus, Negative(Bits - 1)), 1) IN
         /\ i \in {0, 1} /\ left \div 2 ^ k = 2 * (left \div 2 ^ (k + 1)) + i
         /\ left \div 2 ^ (k + 1) \in 0 .. 2 ^ (Bits - 1) - 1
         /\ Shl((left * 2 ^ (Bits - (k + 1))) % Modulus, 1) = (left * 2 ^ (Bits - k)) % Modulus
    BY <1>4, <1>5, BringsDown
  <2>3. QED
    BY <2>1, <2>2
<1>7. regs.r3 = down \div right /\ regs.r4 = down % right
  BY <1>3, <1>5
<1>8. /\ next \div right = Or(Shl(regs.r3, 1), fits)
      /\ next % right = IF fits = 1 THEN Isub(rest, regs.r2) ELSE rest
  <2> HIDE DEF down, bit
  <2>1. LET t == Or(Shl(down % right, 1), bit)
            i == Ige(Biased(t), Biased(right))
        IN /\ (2 * down + bit) \div right = Or(Shl(down \div right, 1), i)
           /\ (2 * down + bit) % right = IF i = 1 THEN Isub(t, right) ELSE t
    BY <1>3, <1>4, <1>6, DividesOn
  <2>2. QED
    BY <1>3, <1>7, <2>1
<1>9. /\ regs'.r1 = Shl(regs.r1, 1) /\ regs'.r2 = regs.r2 /\ regs'.r5 = k
      /\ regs'.r4 = (IF fits = 1 THEN Isub(rest, regs.r2) ELSE rest)
      /\ regs'.r3 = Or(Shl(regs.r3, 1), fits)
      /\ regs' = [r1 |-> regs'.r1, r2 |-> regs'.r2, r3 |-> regs'.r3, r4 |-> regs'.r4, r5 |-> regs'.r5]
  <2>1. regs' = [regs EXCEPT !.r1 = Shl(@, 1), !.r5 = @ - 1,
                             !.r4 = IF fits = 1 THEN Isub(rest, regs.r2) ELSE rest,
                             !.r3 = Or(Shl(@, 1), fits)]
    BY DEF DivisionStep
  <2> HIDE DEF fits, rest
  <2>2. QED
    BY <1>3, <2>1
<1> HIDE DEF next, bit, rest, fits, down, k
<1>10. OperandTypes'
  BY <1>1 DEF PairsInv, OperandTypes
<1>11. Answers'
  BY <1>1 DEF Answers
<1>12. Divides'
  <2>1. left' \div 2 ^ regs'.r5 = next
    BY <1>1, <1>6, <1>9
  <2>2. regs'.r3 = (left' \div 2 ^ regs'.r5) \div right' /\ regs'.r4 = (left' \div 2 ^ regs'.r5) % right'
    BY <1>1, <1>8, <1>9, <2>1
  <2>3. regs'.r1 = (left' * 2 ^ (Bits - regs'.r5)) % Modulus
    BY <1>1, <1>6, <1>9
  <2>4. op' \in DivisionOps /\ right' # 0 /\ regs'.r2 = right' /\ regs'.r5 \in 0 .. Bits
    BY <1>1, <1>3, <1>5, <1>9, WordWidths
  <2>5. QED
    BY <1>9, <2>2, <2>3, <2>4 DEF Divides
<1>13. QED
  BY <1>10, <1>11, <1>12 DEF PairsInv

LEMMA DivisionEnds ==
  ASSUME PairsInv, EndDivision
  PROVE  PairsInv'
<1> DEFINE q == regs.r3
           result == IF op = "div_u" THEN regs.r3 ELSE Isub(left, Imul(regs.r3, regs.r2))
<1>1. /\ answer = <<>> /\ op \in DivisionOps /\ regs # Idle /\ regs.r5 = 0
      /\ answer' = <<Answer(result)>>
      /\ op' = op /\ left' = left /\ right' = right /\ op \notin PairOps
  BY OpsApart DEF EndDivision
<1>2. left \in Word /\ right \in Word
  BY <1>1 DEF PairsInv, OperandTypes
<1>3. /\ right # 0 /\ regs.r2 = right
      /\ q = (left \div 2 ^ 0) \div right
  BY <1>1 DEF PairsInv, Divides
<1>4. /\ left \in 0 .. Modulus - 1 /\ left \in Nat /\ right \in Nat /\ right >= 1 /\ Modulus \in Nat /\ Modulus >= 1
      /\ left \in Int
  BY <1>2, <1>3, Modulo DEF Word
<1>5. q = left \div right
  <2>1. 2 ^ 0 = 1
    OBVIOUS
  <2>2. left \div 1 = left
    BY <1>4
  <2>3. QED
    BY <1>3, <2>1, <2>2
<1>6. Isub(left, Imul(q, right)) = left % right
  <2> DEFINE s == left % right
             p == q * right
             m == Modulus
  <2>1. q \in Nat /\ s \in 0 .. right - 1 /\ left = p + s
    <3>1. left \in Int /\ left >= 0 /\ right \in Nat /\ right >= 1
      BY <1>4
    <3>2. left \div right \in Nat /\ left % right \in 0 .. right - 1 /\ left = (left \div right) * right + (left % right)
      BY <3>1, Divided
    <3>3. QED
      BY <1>5, <3>2
  <2>2. p \in Nat
    BY <1>4, <2>1
  <2> HIDE DEF s, p, m, q
  <2>3. m \in Nat /\ m >= 1 /\ p \in 0 .. m - 1 /\ s \in 0 .. m - 1 /\ left - p = s
    BY <1>4, <2>1, <2>2 DEF m
  <2>4. p % m = p /\ s % m = s
    BY <2>3, Small
  <2>5. Isub(left, Imul(q, right)) = (left - (p % m)) % m
    BY DEF Isub, Imul, p, m
  <2>6. QED
    BY <2>3, <2>4, <2>5 DEF s
<1>7. Answer(result) = WasmWords(op, left, right)
  <2>1. CASE op = "div_u"
    <3>1. WasmWords(op, left, right) = Answer(left \div right)
      BY <1>3, <2>1 DEF WasmWords
    <3>2. QED
      BY <1>5, <2>1, <3>1
  <2>2. CASE op = "rem_u"
    <3>1. WasmWords(op, left, right) = Answer(left % right)
      BY <1>3, <2>2 DEF WasmWords
    <3>2. result = left % right
      BY <1>3, <1>6, <2>2
    <3>3. QED
      BY <3>1, <3>2
  <2>3. QED
    BY <1>1, <2>1, <2>2 DEF DivisionOps
<1> HIDE DEF result
<1>8. answer' # <<>> /\ answer'[1] = Answer(result)
  BY <1>1
<1>9. Answers'
  BY <1>1, <1>7, <1>8 DEF Answers
<1>10. Divides'
  BY <1>8 DEF Divides
<1>11. OperandTypes'
  BY <1>1 DEF PairsInv, OperandTypes
<1>12. QED
  BY <1>9, <1>10, <1>11 DEF PairsInv

LEMMA PairsStep == PairsInv /\ [PairsNext]_pairVars => PairsInv'
<1> SUFFICES ASSUME PairsInv, [PairsNext]_pairVars
             PROVE  PairsInv'
  OBVIOUS
<1>1. CASE DoWords
  <2>1. /\ op \in WordOps /\ op \notin PairOps /\ answer' = <<LowerWords(op, left, right)>>
        /\ op' = op /\ left' = left /\ right' = right
    BY <1>1, OpsApart DEF DoWords
  <2>2. left \in Word /\ right \in Word
    BY <2>1 DEF PairsInv, OperandTypes
  <2>3. LowerWords(op, left, right) = WasmWords(op, left, right)
    BY <2>1, <2>2, WordsAgree
  <2>4. answer' # <<>> /\ answer'[1] = WasmWords(op, left, right)
    BY <2>1, <2>3
  <2>5. Answers' /\ Divides' /\ OperandTypes'
    BY <2>1, <2>4 DEF Answers, Divides, PairsInv, OperandTypes
  <2>6. QED
    BY <2>5 DEF PairsInv
<1>2. CASE DoPairs
  <2>1. /\ op \in PairOps /\ answer' = <<LowerPairs(op, left, right)>>
        /\ op' = op /\ left' = left /\ right' = right
    BY <1>2 DEF DoPairs
  <2>2. left \in WordPair /\ right \in WordPair
    BY <2>1 DEF PairsInv, OperandTypes
  <2>3. LowerPairs(op, left, right) = WasmPairs(op, left, right)
    BY <2>1, <2>2, PairsAgree
  <2>4. answer' # <<>> /\ answer'[1] = WasmPairs(op, left, right)
    BY <2>1, <2>3
  <2>5. Answers' /\ Divides' /\ OperandTypes'
    BY <2>1, <2>4 DEF Answers, Divides, PairsInv, OperandTypes
  <2>6. QED
    BY <2>5 DEF PairsInv
<1>3. CASE StartDivision
  BY <1>3, DivisionStarts
<1>4. CASE DivisionStep
  BY <1>4, DivisionSteps
<1>5. CASE EndDivision
  BY <1>5, DivisionEnds
<1>6. CASE UNCHANGED pairVars
  BY <1>6 DEF pairVars, PairsInv, OperandTypes, Answers, Divides
<1>7. QED
  BY <1>1, <1>2, <1>3, <1>4, <1>5, <1>6 DEF PairsNext

\* For every width of a word and all words and pairs that the code can meet, it
\* gives what Wasm says or traps where Wasm traps, and the division helper is
\* right between its steps for the bits it has brought down.
THEOREM PairsExact == PairsSpec => []AgreesWithWasm
<1>1. PairsInit => PairsInv
  BY PairsStart
<1>2. PairsInv /\ [PairsNext]_pairVars => PairsInv'
  BY PairsStep
<1>3. PairsInv => AgreesWithWasm
  <2>1. ASSUME PairsInv
        PROVE  AgreesWithWasm
    BY <2>1 DEF PairsInv, Answers, Divides, AgreesWithWasm
  <2>2. QED
    BY <2>1
<1>4. QED
  BY <1>1, <1>2, <1>3, PTL DEF PairsSpec
=============================================================================
