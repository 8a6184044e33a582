--------------------------- MODULE VirconIRProofs ---------------------------
(***************************************************************************)
(* The two passes of src/src/vircon_ir.c over the generated program: for   *)
(* every program, every number of registers, frame words and nodes, and    *)
(* every table size, the nodes that they keep compute what the program     *)
(* computes.  LocalOptimizer comes first and FrameStores second, as in the *)
(* compiler; their definitions are disjoint.                               *)
(***************************************************************************)
EXTENDS LocalOptimizer, FrameStores, TLAPS

-----------------------------------------------------------------------------
(* vircon_ir_optimize_local.                                                *)


\* The inductive invariant: removing a copy is right because equal numbers
\* mean equal words, which stays right because fresh numbers are unused; and
\* folding is right because known constants hold.
Inv ==
  /\ TypeOK
  /\ Equivalent
  /\ NumbersHandedOut
  /\ EqualNumbersEqualWords
  /\ KnownConstantsHold

USE DEF Register, Location, Machine

LEMMA InitInv == Init => Inv
  BY DEF Init, Inv, TypeOK, Equivalent, NumbersHandedOut,
         EqualNumbersEqualWords, KnownConstantsHold

\* Emptying the frame table, or adding an entry to it, keeps what the facts say.
LEMMA EntrySound ==
  ASSUME Inv, NEW s \in Slot
  PROVE  /\ NumbersWithEntry(s) \in [Location -> Nat]
         /\ ConstantsWithEntry(s) \in [Location -> Word \cup {NoConstant}]
         /\ \A l \in Location : NumbersWithEntry(s)[l] \in {0, number[l]}
         /\ \A l \in Location : ConstantsWithEntry(s)[l] \in {NoConstant, constant[l]}
         /\ \A r \in Register : NumbersWithEntry(s)[r] = number[r]
  BY LocationsDisjoint
     DEF Inv, TypeOK, NumbersWithEntry, ConstantsWithEntry, NoFrameNumbers, NoFrameConstants

\* One location d gets a word, a fresh number and possibly the constant it
\* now holds: the facts stay sound.
LEMMA FreshSound ==
  ASSUME Inv, NEW d \in Location, NEW w \in Word, NEW c \in {NoConstant, w},
         ref' = Put(ref, d, w),
         opt' = Put(opt, d, w),
         lastMove' \in [to : Register, was : Word] \cup {NoMove},
         number' = [number EXCEPT ![d] = nextValue],
         constant' = [constant EXCEPT ![d] = c],
         nextValue' = nextValue + 1
  PROVE  Inv'
<1>1. TypeOK'
  BY DEF Inv, TypeOK, Put
<1>2. Equivalent'
  BY DEF Inv, Equivalent, Put
<1>3. NumbersHandedOut'
  BY DEF Inv, TypeOK, NumbersHandedOut
<1>4. EqualNumbersEqualWords'
  BY DEF Inv, TypeOK, NumbersHandedOut, EqualNumbersEqualWords, Put
<1>5. KnownConstantsHold'
  BY DEF Inv, TypeOK, KnownConstantsHold, Put
<1>6. QED
  BY <1>1, <1>2, <1>3, <1>4, <1>5 DEF Inv

\* Facts only get forgotten and both machines take the same step: sound when
\* every location a fact is kept about is left alone.
LEMMA ForgettingSound ==
  ASSUME Inv,
         ref' \in Machine, opt' = ref',
         lastMove' \in [to : Register, was : Word] \cup {NoMove},
         number' \in [Location -> Nat],
         constant' \in [Location -> Word \cup {NoConstant}],
         nextValue' \in Nat, nextValue' >= nextValue,
         \A l \in Location : number'[l] = 0 \/ (number'[l] = number[l] /\ ref'[l] = ref[l]),
         \A l \in Location : \/ constant'[l] = NoConstant
                             \/ constant'[l] = constant[l] /\ ref'[l] = ref[l]
  PROVE  Inv'
<1>1. TypeOK'
  BY DEF Inv, TypeOK
<1>2. NumbersHandedOut'
  BY DEF Inv, TypeOK, NumbersHandedOut
<1>3. EqualNumbersEqualWords'
  BY DEF Inv, TypeOK, EqualNumbersEqualWords
<1>4. KnownConstantsHold'
  BY DEF Inv, TypeOK, KnownConstantsHold
<1>5. QED
  BY <1>1, <1>2, <1>3, <1>4 DEF Inv, Equivalent

\* A copy from one location to another, whose facts may first have been
\* weakened: both get the same number and the copy may take the constant.
LEMMA CopySound ==
  ASSUME Inv,
         NEW from \in Location, NEW to \in Location,
         NEW numbers \in [Location -> Nat],
         NEW constants \in [Location -> Word \cup {NoConstant}],
         \A l \in Location : numbers[l] \in {0, number[l]},
         \A l \in Location : constants[l] \in {NoConstant, constant[l]},
         NEW n, n = IF numbers[from] = 0 THEN nextValue ELSE numbers[from],
         NEW c \in {NoConstant, constants[from]},
         ref' = Put(ref, to, ref[from]), opt' = ref',
         lastMove' \in [to : Register, was : Word] \cup {NoMove},
         number' = [numbers EXCEPT ![from] = n, ![to] = n],
         constant' = [constants EXCEPT ![to] = c],
         nextValue' = IF numbers[from] = 0 THEN nextValue + 1 ELSE nextValue
  PROVE  Inv'
<1>1. TypeOK'
  BY DEF Inv, TypeOK, Put
<1>2. NumbersHandedOut'
  BY DEF Inv, TypeOK, NumbersHandedOut
<1>3. EqualNumbersEqualWords'
  <2> SUFFICES ASSUME NEW l \in Location, NEW m \in Location,
                      number'[l] # 0, number'[l] = number'[m]
               PROVE  ref'[l] = ref'[m]
    BY DEF EqualNumbersEqualWords
  <2>1. \A k \in {from, to} : number'[k] = n /\ ref'[k] = ref[from]
    BY DEF Inv, TypeOK, Put
  <2>2. \A k \in Location \ {from, to} :
          number'[k] \in {0, number[k]} /\ ref'[k] = ref[k]
    BY DEF Inv, TypeOK, Put
  <2>3. \A k \in Location \ {from, to} : number'[k] = n /\ n # 0 => ref[k] = ref[from]
    BY <2>2 DEF Inv, TypeOK, NumbersHandedOut, EqualNumbersEqualWords
  <2>4. CASE l \in {from, to} /\ m \in {from, to}
    BY <2>1, <2>4
  <2>5. CASE l \in {from, to} /\ m \notin {from, to}
    BY <2>1, <2>2, <2>3, <2>5
  <2>6. CASE l \notin {from, to} /\ m \in {from, to}
    BY <2>1, <2>2, <2>3, <2>6
  <2>7. CASE l \notin {from, to} /\ m \notin {from, to}
    BY <2>2, <2>7 DEF Inv, EqualNumbersEqualWords
  <2> QED
    BY <2>4, <2>5, <2>6, <2>7
<1>4. KnownConstantsHold'
  BY DEF Inv, TypeOK, KnownConstantsHold, Put
<1>5. QED
  BY <1>1, <1>2, <1>3, <1>4 DEF Inv, Equivalent

-----------------------------------------------------------------------------
(* One lemma per node.                                                     *)

\* What an emitted move leaves in lastMove.
LEMMA LastMoveType ==
  ASSUME NEW machine \in Machine, NEW d \in General, NEW w, NEW commented \in BOOLEAN,
         EmitMoveAfter(machine, d, w, commented)
  PROVE  lastMove' \in [to : Register, was : Word] \cup {NoMove}
  BY DEF EmitMoveAfter

LEMMA LoadFrameStep ==
  ASSUME Inv, NEW d \in General, NEW s \in Slot, NEW commented \in BOOLEAN,
         LoadFrame(d, s, commented)
  PROVE  Inv'
<1> DEFINE numbers == NumbersWithEntry(s)
           constants == ConstantsWithEntry(s)
           n == IF numbers[s] = 0 THEN nextValue ELSE numbers[s]
<1>1. /\ numbers \in [Location -> Nat]
      /\ constants \in [Location -> Word \cup {NoConstant}]
      /\ \A l \in Location : numbers[l] \in {0, number[l]}
      /\ \A l \in Location : constants[l] \in {NoConstant, constant[l]}
  BY EntrySound
<1>2. ref' = Put(ref, d, ref[s]) /\ d \in Location /\ s \in Location
  BY DEF LoadFrame
<1>3. opt' = ref' /\ lastMove' \in [to : Register, was : Word] \cup {NoMove}
  <2>1. CASE number[d] = n /\ Remove
    <3>1. n # nextValue
      BY <2>1 DEF Inv, TypeOK, NumbersHandedOut
    <3>2. number[d] = number[s] /\ number[d] # 0
      BY <1>1, <2>1, <3>1
    <3>3. ref[d] = ref[s]
      BY <3>2 DEF Inv, EqualNumbersEqualWords
    <3> QED
      BY <1>2, <2>1, <3>3 DEF Remove, Put, Inv, TypeOK, Equivalent
  <2>2. CASE number[d] # n
    <3>1. PICK source \in IF Holding(n, d) = {} THEN {s} ELSE Holding(n, d) :
            EmitMove(d, opt[source], commented)
      BY <2>2 DEF LoadFrame
    <3>2. source \in Location /\ ref[source] = ref[s]
      BY <1>1, <3>1 DEF Holding, Inv, TypeOK, NumbersHandedOut, EqualNumbersEqualWords
    <3>3. opt' = ref'
      BY <1>2, <3>1, <3>2 DEF EmitMove, EmitMoveAfter, Inv, Equivalent
    <3> QED
      BY <3>1, <3>3, LastMoveType DEF EmitMove, Inv, TypeOK
  <2> QED
    BY <2>1, <2>2 DEF LoadFrame
<1>4. ConstantFor(d, constants[s]) \in {NoConstant, constants[s]}
  BY DEF ConstantFor
<1>5. number' = [numbers EXCEPT ![s] = n, ![d] = n]
  BY DEF LoadFrame
<1>6. constant' = [constants EXCEPT ![d] = ConstantFor(d, constants[s])]
  BY DEF LoadFrame
<1>7. nextValue' = IF numbers[s] = 0 THEN nextValue + 1 ELSE nextValue
  BY DEF LoadFrame
<1> HIDE DEF numbers, constants
<1>8. QED
  BY <1>1, <1>2, <1>3, <1>4, <1>5, <1>6, <1>7, CopySound

LEMMA StoreFrameStep ==
  ASSUME Inv, NEW s \in Slot, NEW r \in Register, StoreFrame(s, r)
  PROVE  Inv'
<1> DEFINE numbers == NumbersWithEntry(s)
           constants == ConstantsWithEntry(s)
           n == IF numbers[r] = 0 THEN nextValue ELSE numbers[r]
<1>1. /\ numbers \in [Location -> Nat]
      /\ constants \in [Location -> Word \cup {NoConstant}]
      /\ \A l \in Location : numbers[l] \in {0, number[l]}
      /\ \A l \in Location : constants[l] \in {NoConstant, constant[l]}
      /\ numbers[r] = number[r]
  BY EntrySound
<1>2. ref' = Put(ref, s, ref[r]) /\ r \in Location /\ s \in Location
  BY DEF StoreFrame
<1>3. opt' = ref' /\ lastMove' \in [to : Register, was : Word] \cup {NoMove}
  <2>1. CASE numbers[s] = n
    <3>1. numbers[s] = number[r] /\ number[r] # 0 /\ number[s] = number[r]
      BY <1>1, <2>1 DEF Inv, TypeOK, NumbersHandedOut
    <3>2. ref[s] = ref[r]
      BY <3>1 DEF Inv, EqualNumbersEqualWords
    <3> QED
      BY <1>1, <1>2, <2>1, <3>2 DEF StoreFrame, Remove, Put, Inv, TypeOK, Equivalent
  <2>2. CASE numbers[s] # n
    BY <1>1, <1>2, <2>2 DEF StoreFrame, EmitOther, Inv, Equivalent
  <2> QED
    BY <2>1, <2>2
<1>4. constant' = [constants EXCEPT ![s] = constant[r]]
  BY DEF StoreFrame
<1>5. constants[r] = constant[r]
  BY LocationsDisjoint DEF ConstantsWithEntry, NoFrameConstants
<1>6. number' = [numbers EXCEPT ![r] = n, ![s] = n]
  BY <1>1 DEF StoreFrame
<1>7. nextValue' = IF numbers[r] = 0 THEN nextValue + 1 ELSE nextValue
  BY <1>1 DEF StoreFrame
<1> HIDE DEF numbers, constants
<1>8. QED
  BY <1>1, <1>2, <1>3, <1>4, <1>5, <1>6, <1>7, CopySound

LEMMA MoveRegisterStep ==
  ASSUME Inv, NEW d \in General, NEW r \in Register, NEW commented \in BOOLEAN,
         MoveRegister(d, r, commented)
  PROVE  Inv'
<1> DEFINE c == ConstantFor(d, constant[r])
<1>1. c \in {NoConstant, constant[r]} /\ constant' = [constant EXCEPT ![d] = c]
  BY DEF MoveRegister, ConstantFor
<1>2. CASE d = r
  <2>1. UNCHANGED <<ref, opt, lastMove, number, nextValue>>
    BY <1>2 DEF MoveRegister, Remove, Put, Inv, TypeOK
  <2> HIDE DEF c
  <2>2. \A l \in Location : constant'[l] \in {NoConstant, constant[l]}
    BY <1>1, <1>2 DEF Inv, TypeOK
  <2>3. constant' \in [Location -> Word \cup {NoConstant}]
    BY <1>1 DEF Inv, TypeOK
  <2> QED
    BY <2>1, <2>2, <2>3, ForgettingSound DEF Inv, TypeOK, Equivalent
<1>3. CASE d # r /\ number[d] # 0 /\ number[d] = number[r]
  <2>1. UNCHANGED <<opt, lastMove, number, nextValue>>
    BY <1>3 DEF MoveRegister, Remove
  <2>2. ref' = Put(ref, d, ref[r]) /\ ref[d] = ref[r]
    BY <1>3 DEF MoveRegister, Inv, EqualNumbersEqualWords
  <2>3. opt' = ref'
    BY <2>1, <2>2 DEF Put, Inv, TypeOK, Equivalent
  <2>4. number' = [number EXCEPT ![r] = number[r], ![d] = number[r]]
    BY <1>3, <2>1 DEF Inv, TypeOK
  <2>5. /\ number[r] = IF number[r] = 0 THEN nextValue ELSE number[r]
        /\ nextValue' = IF number[r] = 0 THEN nextValue + 1 ELSE nextValue
    BY <1>3, <2>1
  <2>6. /\ number \in [Location -> Nat]
        /\ constant \in [Location -> Word \cup {NoConstant}]
        /\ lastMove' \in [to : Register, was : Word] \cup {NoMove}
    BY <2>1 DEF Inv, TypeOK
  <2> HIDE DEF c
  <2> QED
    BY <1>1, <2>2, <2>3, <2>4, <2>5, <2>6, CopySound
<1>4. CASE d # r /\ ~(number[d] # 0 /\ number[d] = number[r])
  <2> DEFINE n == IF number[r] = 0 THEN nextValue ELSE number[r]
  <2>1. /\ EmitMove(d, opt[r], commented)
        /\ ref' = Put(ref, d, ref[r])
        /\ number' = [number EXCEPT ![r] = n, ![d] = n]
        /\ nextValue' = IF number[r] = 0 THEN nextValue + 1 ELSE nextValue
    BY <1>4 DEF MoveRegister
  <2>2. opt' = ref'
    BY <2>1 DEF EmitMove, EmitMoveAfter, Inv, Equivalent
  <2>3. lastMove' \in [to : Register, was : Word] \cup {NoMove}
    BY <2>1, LastMoveType DEF EmitMove, Inv, TypeOK
  <2> HIDE DEF c
  <2> QED
    BY <1>1, <2>1, <2>2, <2>3, CopySound DEF Inv, TypeOK
<1> QED
  BY <1>2, <1>3, <1>4

\* A constant move, whether or not the move before it was taken back: `machine'
\* differs from the generated program's machine in d at most, and knows no more
\* of d than the facts do.
LEMMA EmitConstantSound ==
  ASSUME Inv, NEW d \in General, NEW w \in Word, NEW commented \in BOOLEAN,
         NEW machine \in Machine, NEW known \in Word \cup {NoConstant},
         Put(machine, d, w) = Put(opt, d, w),
         known = NoConstant \/ (known = constant[d] /\ machine = opt),
         ref' = Put(ref, d, w),
         EmitConstant(machine, known, d, w, commented)
  PROVE  Inv'
<1>1. CASE known = w
  <2>1. constant[d] = w /\ machine = opt /\ opt' = opt
    BY <1>1, NoConstantAssumption DEF EmitConstant
  <2>2. ref[d] = w
    BY <2>1, NoConstantAssumption DEF Inv, KnownConstantsHold
  <2>3. UNCHANGED <<ref, opt, lastMove, number, constant, nextValue>>
    BY <1>1, <2>1, <2>2 DEF EmitConstant, facts, Put, Inv, TypeOK
  <2> QED
    BY <2>3 DEF Inv, TypeOK, Equivalent, NumbersHandedOut, EqualNumbersEqualWords,
                KnownConstantsHold
<1>2. CASE known # w
  <2>1. opt' = Put(opt, d, w)
    BY <1>2 DEF EmitConstant, EmitMoveAfter
  <2>2. lastMove' \in [to : Register, was : Word] \cup {NoMove}
    BY <1>2, LastMoveType DEF EmitConstant
  <2>3. ConstantFor(d, w) \in {NoConstant, w}
    BY DEF ConstantFor
  <2>4. /\ number' = [number EXCEPT ![d] = nextValue]
        /\ constant' = [constant EXCEPT ![d] = ConstantFor(d, w)]
        /\ nextValue' = nextValue + 1
    BY <1>2 DEF EmitConstant
  <2> QED
    BY <2>1, <2>2, <2>3, <2>4, FreshSound
<1> QED
  BY <1>1, <1>2

LEMMA MoveImmediateStep ==
  ASSUME Inv, NEW d \in General, NEW w \in Word, NEW commented \in BOOLEAN,
         MoveImmediate(d, w, commented)
  PROVE  Inv'
  BY EmitConstantSound DEF MoveImmediate, Inv, TypeOK

LEMMA LoadOtherStep ==
  ASSUME Inv, NEW d \in General, NEW w \in Word, NEW commented \in BOOLEAN,
         LoadOther(d, w, commented)
  PROVE  Inv'
<1>1. opt' = Put(opt, d, w) /\ lastMove' \in [to : Register, was : Word] \cup {NoMove}
  BY LastMoveType DEF LoadOther, EmitMove, EmitMoveAfter, Inv, TypeOK
<1> QED
  BY <1>1, FreshSound DEF LoadOther, FreshNumber

LEMMA StoreOtherStep ==
  ASSUME Inv, \/ \E s \in Slot, w \in Word : StoreAliasing(s, w)
              \/ StoreElsewhere
  PROVE  Inv'
<1>1. /\ ref' \in Machine /\ opt' = ref' /\ lastMove' = NoMove
      /\ \A r \in Register : ref'[r] = ref[r]
  BY LocationsDisjoint
     DEF StoreAliasing, StoreElsewhere, EmitOther, Put, Inv, TypeOK, Equivalent
<1>2. ForgetFrame
  BY DEF StoreAliasing, StoreElsewhere
<1>3. /\ number' \in [Location -> Nat]
      /\ constant' \in [Location -> Word \cup {NoConstant}]
      /\ nextValue' \in Nat /\ nextValue' >= nextValue
  BY <1>2 DEF ForgetFrame, NoFrameNumbers, NoFrameConstants, Inv, TypeOK
<1>4. \A l \in Location : \/ number'[l] = 0 /\ constant'[l] = NoConstant
                          \/ /\ number'[l] = number[l] /\ constant'[l] = constant[l]
                             /\ ref'[l] = ref[l]
  BY <1>1, <1>2 DEF ForgetFrame, NoFrameNumbers, NoFrameConstants
<1> QED
  BY <1>1, <1>3, <1>4, ForgettingSound

LEMMA FoldOperationStep ==
  ASSUME Inv, NEW op \in FoldOps, NEW d \in General, NEW right \in Word,
         NEW known \in {NoConstant, right}, NEW commented \in BOOLEAN,
         FoldOperation(op, d, right, known, commented)
  PROVE  Inv'
<1> DEFINE takeBack == lastMove # NoMove /\ lastMove.to = d
           machine == IF takeBack THEN Put(opt, d, lastMove.was) ELSE opt
           believed == IF takeBack THEN NoConstant ELSE constant[d]
           w == Fold[<<op, constant[d], known>>]
<1>1. known = right /\ constant[d] = ref[d] /\ ref[d] \in Word
  BY DEF FoldOperation, Inv, TypeOK, KnownConstantsHold
<1>2. w \in Word
  BY <1>1, FoldAssumption
<1>3. machine \in Machine /\ believed \in Word \cup {NoConstant}
  BY DEF Put, Inv, TypeOK
<1>4. Put(machine, d, w) = Put(opt, d, w)
  BY DEF Put, Inv, TypeOK
<1>5. believed = NoConstant \/ (believed = constant[d] /\ machine = opt)
  OBVIOUS
<1>6. ref' = Put(ref, d, w) /\ EmitConstant(machine, believed, d, w, commented)
  BY <1>1 DEF FoldOperation
<1> HIDE DEF machine, believed, w
<1> QED
  BY <1>2, <1>3, <1>4, <1>5, <1>6, EmitConstantSound

LEMMA OperateStep ==
  ASSUME Inv, NEW op \in FoldOps, NEW d \in General, NEW right \in Word, NEW known,
         Operate(op, d, right, right, known)
  PROVE  Inv'
<1>1. Fold[<<op, ref[d], right>>] \in Word /\ opt[d] = ref[d]
  BY FoldAssumption DEF Inv, TypeOK, Equivalent
<1>2. /\ ref' = Put(ref, d, Fold[<<op, ref[d], right>>])
      /\ opt' = Put(opt, d, Fold[<<op, ref[d], right>>])
      /\ lastMove' = NoMove
  BY <1>1 DEF Operate, EmitOther
<1> QED
  BY <1>1, <1>2, FreshSound DEF Operate, FreshNumber

LEMMA OperateOpaqueStep ==
  ASSUME Inv, NEW d \in General, NEW w \in Word, OperateOpaque(d, w)
  PROVE  Inv'
  BY FreshSound DEF OperateOpaque, EmitOther, FreshNumber

LEMMA ControlStep ==
  ASSUME Inv, Control
  PROVE  Inv'
<1>1. CASE Neutral
  BY <1>1, ForgettingSound DEF Neutral, EmitOther, facts, Inv, TypeOK, Equivalent
<1>2. CASE Boundary
  BY <1>2, ForgettingSound DEF Boundary, EmitOther, ForgetAll, Inv, TypeOK, Equivalent
<1>3. ASSUME NEW after \in Machine, Call(after)
      PROVE  Inv'
  <2>1. opt' = ref' /\ ref' \in Machine /\ lastMove' = NoMove
    BY <1>3 DEF Call, EmitOther, Inv, TypeOK, Equivalent
  <2> QED
    BY <1>3, <2>1, ForgettingSound DEF Call, ForgetAll, Inv, TypeOK
<1>4. ASSUME NEW after \in Machine, Join(after)
      PROVE  Inv'
  BY <1>4, ForgettingSound DEF Join, EmitOther, ForgetAll, Inv, TypeOK
<1>5. ASSUME NEW after \in Machine, FunctionEntry(after)
      PROVE  Inv'
  <2>1. /\ ref' = after /\ opt' = after /\ lastMove' = NoMove
        /\ number' = [l \in Location |-> IF l = BP THEN nextValue
                                         ELSE IF l = SP THEN nextValue + 1 ELSE 0]
        /\ constant' = [l \in Location |-> NoConstant]
        /\ nextValue' = nextValue + 2
    BY <1>5 DEF FunctionEntry, EmitOther
  <2>2. TypeOK'
    BY <2>1 DEF Inv, TypeOK
  <2>3. NumbersHandedOut'
    BY <2>1 DEF Inv, TypeOK, NumbersHandedOut
  <2>4. EqualNumbersEqualWords'
    BY <2>1 DEF Inv, TypeOK, EqualNumbersEqualWords
  <2> QED
    BY <2>1, <2>2, <2>3, <2>4 DEF Inv, Equivalent, KnownConstantsHold
<1>6. ASSUME NEW after \in Machine, FunctionReturn(after)
      PROVE  Inv'
  BY <1>6, ForgettingSound DEF FunctionReturn, EmitOther, Inv, TypeOK
<1> QED
  BY <1>1, <1>2, <1>3, <1>4, <1>5, <1>6 DEF Control

-----------------------------------------------------------------------------
(* The theorems.                                                           *)

\* Inv is inductive.
LEMMA StepInv == Inv /\ [Next]_vars => Inv'
<1> SUFFICES ASSUME Inv, [Next]_vars
             PROVE  Inv'
  OBVIOUS
<1>1. \A r \in Register : ref[r] \in Word /\ opt[r] = ref[r]
                          /\ constant[r] \in {NoConstant, ref[r]}
  BY DEF Inv, TypeOK, Equivalent, KnownConstantsHold
<1>2. CASE Move
  BY <1>2, LoadFrameStep, MoveRegisterStep, MoveImmediateStep, LoadOtherStep DEF Move
<1>3. CASE Store
  BY <1>3, StoreFrameStep, StoreOtherStep DEF Store
<1>4. CASE Compute
  <2>1. ASSUME NEW d \in General, NEW op \in FoldOps, NEW w \in Word,
               NEW commented \in BOOLEAN, FoldOperation(op, d, w, w, commented)
        PROVE  Inv'
    BY <2>1, FoldOperationStep
  <2>2. ASSUME NEW d \in General, NEW op \in FoldOps, NEW r \in Register,
               NEW commented \in BOOLEAN,
               FoldOperation(op, d, ref[r], constant[r], commented)
        PROVE  Inv'
    BY <1>1, <2>2, FoldOperationStep
  <2>3. ASSUME NEW d \in General, NEW op \in FoldOps, NEW w \in Word,
               Operate(op, d, w, w, w)
        PROVE  Inv'
    BY <2>3, OperateStep
  <2>4. ASSUME NEW d \in General, NEW op \in FoldOps, NEW r \in Register,
               Operate(op, d, ref[r], opt[r], constant[r])
        PROVE  Inv'
    BY <1>1, <2>4, OperateStep
  <2>5. ASSUME NEW d \in General, NEW w \in Word, OperateOpaque(d, w)
        PROVE  Inv'
    BY <2>5, OperateOpaqueStep
  <2> QED
    BY <1>4, <2>1, <2>2, <2>3, <2>4, <2>5 DEF Compute
<1>5. CASE Control
  BY <1>5, ControlStep
<1>6. CASE UNCHANGED vars
  BY <1>6 DEF vars, Inv, TypeOK, Equivalent, NumbersHandedOut,
              EqualNumbersEqualWords, KnownConstantsHold
<1> QED
  BY <1>2, <1>3, <1>4, <1>5, <1>6 DEF Next

\* Every variable of the pass and of both executions keeps its type.
THEOREM TypeCorrect == Spec => []TypeOK
  BY InitInv, StepInv, PTL DEF Spec, Inv

\* Registers and frame words that the pass gives the same number
\* (register_values, the frame_values table) hold the same word after every
\* node: what is copied, forgotten and numbered anew never says too much.
THEOREM NumbersMeanWords == Spec => []EqualNumbersEqualWords
  BY InitInv, StepInv, PTL DEF Spec, Inv

\* A register whose constant the pass remembers (register_constants) holds that
\* constant after every node.
THEOREM ConstantsHold == Spec => []KnownConstantsHold
  BY InitInv, StepInv, PTL DEF Spec, Inv

\* vircon_ir_optimize_local preserves the program: what it emits computes the
\* registers and frame words of what it read, for any number of registers and
\* frame words, any word size, any capacity of the frame table and whichever
\* register a load is forwarded from.
THEOREM PreservesProgram == Spec => []Equivalent
  BY InitInv, StepInv, PTL DEF Spec, Inv

-----------------------------------------------------------------------------
(* vircon_ir_eliminate_dead_frame_stores.                                   *)


\* The data-flow equations of one node.
Solved(i) == liveOut[i] = NewLiveOut(i) /\ liveIn[i] = NewLiveIn(i)

\* While no node of the current sweep has changed, the nodes it has visited
\* satisfy their equations: nothing they depend on has moved.
SweepSolves ==
  phase = "sweep" /\ ~changed => \A i \in Index : i > index => Solved(i)

\* The pass left the program alone or solved the equations first.
KeptNodes ==
  \/ kept = Index
  \/ /\ phase \in {"done", "run"}
     /\ \A i \in Index : Solved(i)
     /\ kept = {i \in Index : Definition(i) \subseteq liveOut[i]}

\* Frames differ at most where the current node says so.
FramesAgree ==
  /\ kept = Index \/ phase # "run" => keptFrame = frame
  /\ phase = "run" /\ pc \in Index => \A s \in liveIn[pc] : keptFrame[s] = frame[s]

FrameInv ==
  /\ FrameTypeOK
  /\ SameRegisters
  /\ SweepSolves
  /\ KeptNodes
  /\ FramesAgree

LEMMA FrameInitInv == FrameInit => FrameInv
<1> SUFFICES ASSUME FrameInit
             PROVE  FrameInv
  OBVIOUS
<1>1. register \in Word
  BY WordAssumption DEF FrameInit
<1>2. FrameTypeOK
  <2>1. program \in [Index -> Node]
    BY ProgramsAssumption DEF FrameInit
  <2>2. index \in 0..NodeCount
    BY NodeCountAssumption DEF FrameInit
  <2> QED
    BY <1>1, <2>1, <2>2 DEF FrameInit, FrameTypeOK
<1>3. KeptNodes
  BY DEF FrameInit, KeptNodes
<1>4. SweepSolves /\ FramesAgree /\ SameRegisters
  BY DEF FrameInit, SweepSolves, FramesAgree, SameRegisters
<1> QED
  BY <1>2, <1>3, <1>4 DEF FrameInv

\* What a live set may hold.
LEMMA LiveSetTypes ==
  ASSUME program \in [Index -> Node], liveIn \in [Index -> SUBSET Slot],
         NEW i \in Index, ~Malformed(i)
  PROVE  /\ Successors(i) \subseteq Index
         /\ NewLiveOut(i) \subseteq Slot
         /\ NewLiveIn(i) \subseteq Slot
<1>1. program[i] \in Node
  OBVIOUS
<1>2. Successors(i) \subseteq Index
  BY <1>1, NodeCountAssumption
     DEF Successors, Malformed, Labels, FallThrough, Index, Op
<1>3. NewLiveOut(i) \subseteq Slot
  BY <1>2 DEF NewLiveOut
<1>4. Use(i) \subseteq Slot
  BY <1>1 DEF Use, Node
<1> QED
  BY <1>2, <1>3, <1>4 DEF NewLiveIn

\* The equations of a node depend on the program and on live_ins alone.
LEMMA EquationsUnchanged ==
  ASSUME UNCHANGED <<program, liveIn>>, NEW i \in Index
  PROVE  /\ NewLiveOut(i)' = NewLiveOut(i)
         /\ NewLiveIn(i)' = NewLiveIn(i)
         /\ Definition(i)' = Definition(i)
  BY DEF NewLiveOut, NewLiveIn, Successors, FallThrough, Use, Definition, Op

LEMMA PassStep == FrameInv /\ Pass => FrameInv'
<1> SUFFICES ASSUME FrameInv, Pass
             PROVE  FrameInv'
  OBVIOUS
<1> USE DEF FrameInv
<1>1. ASSUME Decline, phase \in {"start", "sweep"}
      PROVE  FrameInv'
  <2>5. keptFrame = frame
    BY <1>1 DEF FramesAgree
  <2>1. UNCHANGED <<program, liveIn, liveOut, kept>> /\ phase' = "done"
    BY <1>1 DEF Decline, sets
  <2>2. KeptNodes'
    BY <2>1, EquationsUnchanged DEF KeptNodes, Solved
  <2>3. FrameTypeOK'
    BY <1>1 DEF Decline, sets, machines, FrameTypeOK
  <2>4. FramesAgree'
    BY <1>1, <2>5 DEF Decline, machines, FramesAgree
  <2> QED
    BY <1>1, <2>2, <2>3, <2>4 DEF Decline, machines, SameRegisters, SweepSolves
<1>2. CASE Start
  <2>1. FrameTypeOK'
    <3>1. index' \in 0..NodeCount
      BY <1>2, NodeCountAssumption DEF Start
    <3> QED
      BY <1>2, <3>1 DEF Start, sets, machines, FrameTypeOK
  <2>2. SweepSolves'
    BY <1>2, NodeCountAssumption DEF Start, SweepSolves, Index
  <2>3. kept' = Index /\ phase' = "sweep" /\ UNCHANGED machines
    BY <1>2 DEF Start, KeptNodes
  <2>4. KeptNodes'
    BY <2>3 DEF KeptNodes
  <2>5. FramesAgree' /\ SameRegisters'
    BY <2>3, <1>2 DEF Start, machines, SameRegisters, FramesAgree
  <2> QED
    BY <2>1, <2>2, <2>4, <2>5
<1>3. CASE VisitNode
  <2>1. index \in Index /\ ~Malformed(index)
    BY <1>3 DEF VisitNode, FrameTypeOK, Index
  <2>2. FrameTypeOK'
    BY <1>3, <2>1, LiveSetTypes, NodeCountAssumption DEF VisitNode, machines, FrameTypeOK, Index
  <2>3. SweepSolves'
    <3> SUFFICES ASSUME ~changed', NEW i \in Index, i > index'
                 PROVE  Solved(i)'
      BY DEF SweepSolves
    <3>1. ~changed /\ NewLiveIn(index) = liveIn[index]
      BY <1>3 DEF VisitNode, FrameTypeOK
    <3>2. UNCHANGED <<program, liveIn>>
      BY <1>3, <3>1 DEF VisitNode, FrameTypeOK
    <3>3. CASE i = index
      BY <1>3, <3>1, <3>2, <3>3, EquationsUnchanged DEF VisitNode, Solved, FrameTypeOK
    <3>4. CASE i > index
      <4>1. Solved(i) /\ liveOut'[i] = liveOut[i]
        BY <1>3, <3>1, <3>4 DEF VisitNode, SweepSolves, FrameTypeOK, Index
      <4> QED
        BY <3>2, <4>1, EquationsUnchanged DEF Solved
    <3> QED
      BY <1>3, <3>3, <3>4 DEF VisitNode, FrameTypeOK, Index
  <2> QED
    BY <1>3, <2>2, <2>3 DEF VisitNode, machines, SameRegisters, KeptNodes, FramesAgree
<1>4. CASE SweepAgain
  <2>1. FrameTypeOK'
    <3>1. index' \in 0..NodeCount
      BY <1>4, NodeCountAssumption DEF SweepAgain
    <3> QED
      BY <1>4, <3>1 DEF SweepAgain, sets, machines, FrameTypeOK
  <2>2. SweepSolves'
    BY <1>4, NodeCountAssumption DEF SweepAgain, SweepSolves, Index
  <2>3. kept' = Index /\ phase' = "sweep" /\ UNCHANGED machines
    BY <1>4 DEF SweepAgain, KeptNodes
  <2>4. KeptNodes'
    BY <2>3 DEF KeptNodes
  <2>5. FramesAgree' /\ SameRegisters'
    BY <2>3, <1>4 DEF SweepAgain, machines, SameRegisters, FramesAgree
  <2> QED
    BY <2>1, <2>2, <2>4, <2>5
<1>5. CASE Eliminate
  <2>1. \A i \in Index : Solved(i)
    BY <1>5 DEF Eliminate, SweepSolves, Index
  <2>2. UNCHANGED <<program, liveIn, liveOut>> /\ phase' = "done"
        /\ kept' = {i \in Index : Definition(i) \subseteq liveOut[i]}
    BY <1>5 DEF Eliminate, sets
  <2>3. KeptNodes'
    BY <2>1, <2>2, EquationsUnchanged DEF KeptNodes, Solved
  <2> QED
    BY <1>5, <2>3 DEF Eliminate, sets, machines, FrameTypeOK, SameRegisters, SweepSolves, FramesAgree
<1> QED
  BY <1>1, <1>2, <1>3, <1>4, <1>5 DEF Pass, DeclineAtStart, DeclineMalformed

\* The sets of live words do not move while the program runs.
LEMMA RunKeepsPass ==
  ASSUME KeptNodes, UNCHANGED <<program, phase, liveIn, liveOut, kept>>
  PROVE  KeptNodes'
  BY EquationsUnchanged DEF KeptNodes, Solved

\* The words live at a successor of the current node are live after it, so a
\* step that keeps the frames equal on them keeps FramesAgree.
LEMMA LiveAfter ==
  ASSUME FrameInv, kept # Index, phase = "run", pc \in Index,
         NEW j \in Index,
         j \in Successors(pc) \/ Op(pc) = "jump_register"
  PROVE  /\ liveIn[j] \subseteq liveOut[pc]
         /\ liveOut[pc] \ Definition(pc) \subseteq liveIn[pc]
         /\ Use(pc) \subseteq liveIn[pc]
<1>1. liveIn[j] \subseteq Slot
  BY DEF FrameInv, FrameTypeOK
<1>2. liveOut[pc] = NewLiveOut(pc) /\ liveIn[pc] = NewLiveIn(pc)
  BY DEF FrameInv, KeptNodes, Solved
<1>3. liveIn[j] \subseteq NewLiveOut(pc)
  BY <1>1 DEF NewLiveOut
<1> QED
  BY <1>2, <1>3 DEF NewLiveIn

\* A step to j that leaves both frames alone keeps what they agree on.
LEMMA FramesKept ==
  ASSUME FrameInv, phase = "run", pc \in Index, Definition(pc) = {},
         NEW j, pc' = j,
         j \in Index => j \in Successors(pc) \/ Op(pc) = "jump_register",
         UNCHANGED <<phase, liveIn, kept, frame, keptFrame>>
  PROVE  FramesAgree'
<1>1. CASE kept = Index
  BY <1>1 DEF FrameInv, FramesAgree
<1>2. CASE kept # Index
  BY <1>2, LiveAfter DEF FrameInv, FramesAgree
<1> QED
  BY <1>1, <1>2

\* The next node is a successor of a node that is neither a jump nor a return.
LEMMA NextIsSuccessor ==
  ASSUME pc \in Index, Op(pc) \notin {"ret", "jump"}, pc + 1 \in Index
  PROVE  pc + 1 \in Successors(pc)
  BY NodeCountAssumption DEF Successors, FallThrough, Index

LEMMA RunStep == ~AliasedLoads /\ FrameInv /\ Run => FrameInv'
<1> SUFFICES ASSUME ~AliasedLoads, FrameInv, Run
             PROVE  FrameInv'
  OBVIOUS
<1>1. CASE Enter
  <2>1. KeptNodes'
    BY <1>1, EquationsUnchanged DEF Enter, sets, FrameInv, KeptNodes, Solved
  <2> QED
    BY <1>1, <2>1
       DEF Enter, sets, FrameInv, FrameTypeOK, SameRegisters, SweepSolves, FramesAgree
<1> SUFFICES ASSUME ~Enter, NEW j, GoTo(j)
             PROVE  FrameInv'
  BY <1>1 DEF Run, Load, StoreSlot, LoadOtherMemory, ComputeOther, Jump
<1>2. phase = "run" /\ pc \in Index /\ pc \in Nat
  BY DEF Run, Load, StoreSlot, LoadOtherMemory, ComputeOther, Jump, At, FrameInv, FrameTypeOK
<1>3. UNCHANGED <<program, phase, index, changed, liveIn, liveOut, kept>> /\ pc' = j
  BY DEF GoTo, sets
<1>4. KeptNodes' /\ SweepSolves'
  BY <1>2, <1>3, RunKeepsPass DEF FrameInv, SweepSolves
<1>5. program[pc] \in Node
  BY <1>2 DEF FrameInv, FrameTypeOK
<1>6. CASE Load
  <2>1. pc' = pc + 1 /\ Op(pc) = "load" /\ UNCHANGED <<frame, keptFrame>>
    BY <1>6 DEF Load, At, GoTo
  <2>2. program[pc].slot \in Slot
    BY <1>5 DEF Node
  <2>3. keptFrame[program[pc].slot] = frame[program[pc].slot]
    <3>1. CASE kept = Index
      BY <3>1 DEF FrameInv, FramesAgree
    <3>2. CASE kept # Index
      <4>1. program[pc].slot \in liveIn[pc]
        BY <1>2, <2>1, <3>2 DEF FrameInv, KeptNodes, Solved, NewLiveIn, Use
      <4> QED
        BY <1>2, <4>1 DEF FrameInv, FramesAgree
    <3> QED
      BY <3>1, <3>2
  <2>4. SameRegisters'
    BY <1>6, <2>3 DEF Load, SameRegisters
  <2>5. FrameTypeOK'
    BY <1>2, <1>3, <1>6, <2>1, <2>2 DEF Load, FrameInv, FrameTypeOK
  <2>6. FramesAgree'
    BY <1>2, <1>3, <2>1, NextIsSuccessor, FramesKept DEF Definition
  <2> QED
    BY <1>4, <2>4, <2>5, <2>6 DEF FrameInv
<1>7. CASE StoreSlot
  <2>1. pc' = pc + 1 /\ Op(pc) = "store" /\ UNCHANGED <<register, keptRegister>>
    BY <1>7 DEF StoreSlot, At, GoTo
  <2> DEFINE s == program[pc].slot
  <2>2. s \in Slot /\ Definition(pc) = {s}
    BY <1>5, <2>1 DEF Node, Definition
  <2>3. /\ frame' = [frame EXCEPT ![s] = register]
        /\ keptFrame' = IF pc \in kept THEN [keptFrame EXCEPT ![s] = keptRegister]
                                       ELSE keptFrame
    BY <1>7 DEF StoreSlot
  <2>4. FrameTypeOK'
    BY <1>2, <1>3, <2>1, <2>2, <2>3 DEF FrameInv, FrameTypeOK
  <2>5. FramesAgree'
    <3>1. CASE kept = Index
      BY <1>2, <1>3, <2>3, <3>1 DEF FrameInv, FramesAgree, SameRegisters
    <3>2. CASE kept # Index
      <4> SUFFICES ASSUME pc' \in Index, NEW t \in liveIn[pc']
                   PROVE  keptFrame'[t] = frame'[t]
        BY <1>2, <1>3, <3>2 DEF FramesAgree
      <4>1. pc' \in Successors(pc)
        BY <1>2, <2>1, NextIsSuccessor
      <4>2. t \in Slot /\ t \in liveOut[pc] /\ (t # s => t \in liveIn[pc])
        BY <1>2, <2>2, <3>2, <4>1, LiveAfter DEF FrameInv, FrameTypeOK
      <4>3. CASE t = s
        <5>1. pc \in kept
          BY <1>2, <2>2, <3>2, <4>2, <4>3 DEF FrameInv, KeptNodes
        <5> QED
          BY <2>3, <4>2, <4>3, <5>1 DEF FrameInv, FrameTypeOK, SameRegisters
      <4>4. CASE t # s
        <5>1. keptFrame[t] = frame[t]
          BY <1>2, <4>2, <4>4 DEF FrameInv, FramesAgree
        <5> QED
          BY <2>3, <4>2, <4>4, <5>1 DEF FrameInv, FrameTypeOK
      <4> QED
        BY <4>3, <4>4
    <3> QED
      BY <3>1, <3>2
  <2> QED
    BY <1>4, <2>1, <2>4, <2>5 DEF FrameInv, SameRegisters
<1>8. CASE ComputeOther
  <2>1. /\ pc' = pc + 1 /\ Op(pc) = "other"
        /\ UNCHANGED <<frame, keptFrame>>
        /\ register' \in Word /\ keptRegister' = register'
    BY <1>8 DEF ComputeOther, At, GoTo
  <2>2. FramesAgree'
    BY <1>2, <1>3, <2>1, NextIsSuccessor, FramesKept DEF Definition
  <2> QED
    BY <1>2, <1>3, <1>4, <2>1, <2>2 DEF FrameInv, FrameTypeOK, SameRegisters
<1>9. CASE Jump
  <2>1. UNCHANGED <<register, keptRegister, frame, keptFrame>> /\ Definition(pc) = {}
    BY <1>9 DEF Jump, At, machines, Definition
  <2>2. pc' \in Nat /\ (pc' \in Index => pc' \in Successors(pc) \/ Op(pc) = "jump_register")
    <3>1. CASE At({"label"}) /\ GoTo(pc + 1)
      BY <1>2, <3>1, NextIsSuccessor DEF At, GoTo
    <3>2. CASE At({"jump"}) /\ program[pc].target \in Labels /\ GoTo(program[pc].target)
      BY <3>2, NodeCountAssumption DEF At, GoTo, Labels, Successors, Index
    <3>3. CASE At({"branch"}) /\ program[pc].target \in Labels /\ GoTo(program[pc].target)
      BY <3>3, NodeCountAssumption DEF At, GoTo, Labels, Successors, Index
    <3>4. CASE At({"branch"}) /\ GoTo(pc + 1)
      BY <1>2, <3>4, NextIsSuccessor DEF At, GoTo
    <3>5. CASE At({"jump_register"}) /\ \E target \in Labels : GoTo(target)
      BY <3>5, NodeCountAssumption DEF At, GoTo, Labels, Index
    <3> QED
      BY <1>9, <3>1, <3>2, <3>3, <3>4, <3>5 DEF Jump
  <2>3. FramesAgree'
    BY <1>2, <1>3, <2>1, <2>2, FramesKept
  <2> QED
    BY <1>3, <1>4, <2>1, <2>2, <2>3 DEF FrameInv, FrameTypeOK, SameRegisters
<1>10. CASE LoadOtherMemory
  <2>1. /\ pc' = pc + 1 /\ Op(pc) = "load_other"
        /\ UNCHANGED <<frame, keptFrame>>
        /\ register' \in Word /\ keptRegister' = register'
    BY <1>10 DEF LoadOtherMemory, OtherWords, At, GoTo
  <2>2. FramesAgree'
    BY <1>2, <1>3, <2>1, NextIsSuccessor, FramesKept DEF Definition
  <2> QED
    BY <1>2, <1>3, <1>4, <2>1, <2>2 DEF FrameInv, FrameTypeOK, SameRegisters
<1> QED
  BY <1>6, <1>7, <1>8, <1>9, <1>10 DEF Run

LEMMA FrameStepInv == ~AliasedLoads /\ FrameInv /\ [FrameNext]_frameVars => FrameInv'
<1> SUFFICES ASSUME ~AliasedLoads, FrameInv, UNCHANGED frameVars
             PROVE  FrameInv'
  BY PassStep, RunStep DEF FrameNext
<1>1. UNCHANGED <<program, phase, index, changed, liveIn, liveOut, kept, pc>>
      /\ UNCHANGED machines
  BY DEF frameVars, sets
<1>2. KeptNodes' /\ SweepSolves'
  BY <1>1, EquationsUnchanged DEF FrameInv, KeptNodes, SweepSolves, Solved
<1> QED
  BY <1>1, <1>2 DEF machines, FrameInv, FrameTypeOK, SameRegisters, FramesAgree

\* Every variable keeps its type: the sets hold frame words of the program and
\* the sweep index stays inside it.
THEOREM FrameTypeCorrect ==
  ASSUME ~AliasedLoads
  PROVE  FrameSpec => []FrameTypeOK
<1>1. FrameInv /\ [FrameNext]_frameVars => FrameInv'
  BY FrameStepInv
<1>2. FrameInv => FrameTypeOK
  BY DEF FrameInv
<1> QED
  BY FrameInitInv, <1>1, <1>2, PTL DEF FrameSpec

\* vircon_ir_eliminate_dead_frame_stores preserves the program: along every
\* path, through every loop and indirect jump, the registers hold what they
\* hold in the generated program, provided loads through other registers do
\* not read the frame.
THEOREM FramePreservesProgram ==
  ASSUME ~AliasedLoads
  PROVE  FrameSpec => []SameRegisters
<1>1. FrameInv /\ [FrameNext]_frameVars => FrameInv'
  BY FrameStepInv
<1>2. FrameInv => SameRegisters
  BY DEF FrameInv
<1> QED
  BY FrameInitInv, <1>1, <1>2, PTL DEF FrameSpec

\* The removals made by vircon_ir_eliminate_dead_frame_stores damage only frame
\* words that are not live at the current node: the rest of the path writes them
\* before it reads them.
THEOREM DamageBoundedByLiveness ==
  ASSUME ~AliasedLoads
  PROVE  FrameSpec => []LiveWordsAgree
<1>1. FrameInv /\ [FrameNext]_frameVars => FrameInv'
  BY FrameStepInv
<1>2. FrameInv => LiveWordsAgree
  BY DEF FrameInv, FramesAgree, LiveWordsAgree
<1> QED
  BY FrameInitInv, <1>1, <1>2, PTL DEF FrameSpec

-----------------------------------------------------------------------------
(* The sweeps only ever add to a live set: each set lies below what its own *)
(* equation gives, and equations are monotone.                              *)

BelowEquations ==
  phase = "sweep" => \A i \in Index : ~Malformed(i) => liveIn[i] \subseteq NewLiveIn(i)

\* Before the first sweep all sets are empty.
EmptyAtStart == phase = "start" => \A i \in Index : liveIn[i] = {}

\* The types of what the pass itself works on, whatever is executed later.
PassTypes ==
  /\ program \in [Index -> Node]
  /\ liveIn \in [Index -> SUBSET Slot]
  /\ index \in 0 .. NodeCount

GrowthInv == PassTypes /\ EmptyAtStart /\ BelowEquations

\* Larger sets at the successors give a larger set at the node.
LEMMA EquationsMonotone ==
  ASSUME PassTypes, UNCHANGED program,
         NEW i \in Index, ~Malformed(i),
         \A j \in Index : liveIn[j] \subseteq liveIn'[j]
  PROVE  NewLiveIn(i) \subseteq NewLiveIn(i)'
<1>1. /\ Successors(i)' = Successors(i) /\ Definition(i)' = Definition(i)
      /\ Use(i)' = Use(i) /\ Op(i)' = Op(i)
  BY DEF Successors, FallThrough, Use, Definition, Op
<1>2. Successors(i) \subseteq Index
  BY LiveSetTypes DEF PassTypes
<1>3. NewLiveOut(i) \subseteq NewLiveOut(i)'
  BY <1>1, <1>2 DEF NewLiveOut
<1> QED
  BY <1>1, <1>3 DEF NewLiveIn

LEMMA GrowthInit == FrameInit => GrowthInv
  BY ProgramsAssumption, NodeCountAssumption
     DEF FrameInit, GrowthInv, PassTypes, EmptyAtStart, BelowEquations

\* A visited node adds to its live set and takes nothing away.
LEMMA VisitGrows ==
  ASSUME GrowthInv, VisitNode
  PROVE  /\ GrowthInv'
         /\ \A i \in Index : liveIn[i] \subseteq liveIn'[i]
<1>1. index \in Index /\ ~Malformed(index) /\ phase = "sweep" /\ phase' = "sweep"
  BY DEF VisitNode, GrowthInv, PassTypes, Index
<1>2. liveIn' = [liveIn EXCEPT ![index] = NewLiveIn(index)] /\ UNCHANGED program
  BY DEF VisitNode
<1>3. NewLiveIn(index) \subseteq Slot
  BY <1>1, LiveSetTypes DEF GrowthInv, PassTypes
<1>4. \A i \in Index : liveIn[i] \subseteq liveIn'[i]
  BY <1>1, <1>2 DEF GrowthInv, PassTypes, BelowEquations
<1>5. PassTypes'
  BY <1>1, <1>2, <1>3, NodeCountAssumption DEF VisitNode, GrowthInv, PassTypes, Index
<1>6. BelowEquations'
  <2> SUFFICES ASSUME NEW i \in Index, ~Malformed(i)
               PROVE  liveIn'[i] \subseteq NewLiveIn(i)'
    BY <1>2 DEF BelowEquations, Malformed, Op, Labels
  <2>1. NewLiveIn(i) \subseteq NewLiveIn(i)'
    BY <1>2, <1>4, EquationsMonotone DEF GrowthInv
  <2>2. liveIn'[i] \subseteq NewLiveIn(i)
    BY <1>1, <1>2 DEF GrowthInv, PassTypes, BelowEquations
  <2> QED
    BY <2>1, <2>2
<1> QED
  BY <1>1, <1>4, <1>5, <1>6 DEF GrowthInv, EmptyAtStart

\* Every other step leaves the sets and the program alone, and a sweep begins
\* with sets that are empty or those of the sweep before.
LEMMA OthersKeepSets ==
  ASSUME GrowthInv, [FrameNext]_frameVars, ~VisitNode
  PROVE  /\ UNCHANGED <<program, liveIn>>
         /\ phase' = phase \/ phase' # "start"
         /\ phase' = "sweep" => phase \in {"start", "sweep"}
         /\ index' \in 0 .. NodeCount
  BY NodeCountAssumption
     DEF GrowthInv, PassTypes, FrameNext, Pass, DeclineAtStart, Decline, Start, DeclineMalformed,
         SweepAgain, Eliminate, Run, Enter, Load, StoreSlot, LoadOtherMemory, ComputeOther, Jump, GoTo, At,
         frameVars, sets, machines

LEMMA GrowthStep ==
  ASSUME GrowthInv, [FrameNext]_frameVars
  PROVE  /\ GrowthInv'
         /\ \A i \in Index : liveIn[i] \subseteq liveIn'[i]
<1>1. CASE VisitNode
  BY <1>1, VisitGrows
<1>2. CASE ~VisitNode
  <2>1. /\ UNCHANGED <<program, liveIn>>
        /\ phase' = phase \/ phase' # "start"
        /\ phase' = "sweep" => phase \in {"start", "sweep"}
        /\ index' \in 0 .. NodeCount
    BY <1>2, OthersKeepSets
  <2>2. PassTypes' /\ EmptyAtStart'
    BY <2>1 DEF GrowthInv, PassTypes, EmptyAtStart
  <2>3. BelowEquations'
    <3> SUFFICES ASSUME phase' = "sweep", NEW i \in Index, ~Malformed(i)
                 PROVE  liveIn'[i] \subseteq NewLiveIn(i)'
      BY <2>1 DEF BelowEquations, Malformed, Op, Labels
    <3>1. NewLiveIn(i)' = NewLiveIn(i)
      BY <2>1, EquationsUnchanged
    <3> QED
      BY <2>1, <3>1 DEF GrowthInv, EmptyAtStart, BelowEquations
  <2> QED
    BY <2>1, <2>2, <2>3 DEF GrowthInv
<1> QED
  BY <1>1, <1>2

\* No sweep of vircon_ir_eliminate_dead_frame_stores takes a frame word out of a
\* live set again, for any program and whatever is executed later: so the
\* do-while of the pass has at most as many rounds as there are words to add.
THEOREM SweepsOnlyGrow == FrameSpec => LiveSetsGrow
<1>1. GrowthInv /\ [FrameNext]_frameVars => GrowthInv'
  BY GrowthStep
<1>2. GrowthInv /\ [FrameNext]_frameVars => [\A i \in Index : liveIn[i] \subseteq liveIn'[i]]_frameVars
  BY GrowthStep
<1> QED
  BY GrowthInit, <1>1, <1>2, PTL DEF FrameSpec, LiveSetsGrow
=============================================================================
