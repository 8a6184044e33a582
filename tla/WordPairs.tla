----------------------------- MODULE WordPairs ------------------------------
(***************************************************************************)
(* Integer operations of the lowering (src/src/lowering.c) for which       *)
(* Vircon32 has no instruction: i64 operations on pairs of words, shifts,  *)
(* rotations and extensions of i32, unsigned comparisons, and the helper   *)
(* that divides unsigned words, next to what Wasm says they give.          *)
(*                                                                         *)
(* A word has Bits bits: 32 in the code, where 31, 32, 63 and 16 are       *)
(* Bits - 1, Bits, 2 * Bits - 1 and Bits \div 2.                           *)
(***************************************************************************)
EXTENDS Integers

CONSTANTS
  Bits,    \* width of a word
  Samples  \* words that the pairs of i64 operands are made of

Modulus == 2 ^ Bits
Word == 0 .. Modulus - 1
Half == Bits \div 2
Sign == 2 ^ (Bits - 1)
Ones == Modulus - 1

\* (The last line is what the provers do not know of powers.)
ASSUME WordPairsAssumption ==
  /\ Bits \in {2 ^ k : k \in 2 .. 5}
  /\ Samples \subseteq Word
  /\ \A n \in 0 .. 2 * Bits - 1 : 2 ^ (n + 1) = 2 * 2 ^ n

WordPair == [low : Word, high : Word]
P(low, high) == [low |-> low, high |-> high]

-----------------------------------------------------------------------------
(* Instructions of Vircon32.  Comparisons are signed and give 1 or 0; a     *)
(* negative count of SHL shifts right, and zeros come in.                   *)

Signed(w) == IF w >= Sign THEN w - Modulus ELSE w
Flag(condition) == IF condition THEN 1 ELSE 0
Bit(w, k) == (w \div 2 ^ k) % 2
Table(Of(_, _)) ==
  [p \in Word \X Word |->
     CHOOSE w \in Word : \A k \in 0 .. Bits - 1 : Bit(w, k) = Of(Bit(p[1], k), Bit(p[2], k))]
AndTable == Table(LAMBDA x, y : x * y)
OrTable == Table(LAMBDA x, y : Flag(x + y > 0))
XorTable == Table(LAMBDA x, y : (x + y) % 2)
And(a, b) == AndTable[<<a, b>>]
Or(a, b) == OrTable[<<a, b>>]
Xor(a, b) == XorTable[<<a, b>>]
Iadd(a, b) == (a + b) % Modulus
Isub(a, b) == (a - b) % Modulus
Imul(a, b) == (a * b) % Modulus
Shl(a, count) ==
  IF Signed(count) >= 0 THEN (a * 2 ^ Signed(count)) % Modulus ELSE a \div 2 ^ (-Signed(count))
Ieq(a, b) == Flag(a = b)
Ilt(a, b) == Flag(Signed(a) < Signed(b))
Igt(a, b) == Ilt(b, a)
Ile(a, b) == Flag(Signed(a) <= Signed(b))
Ige(a, b) == Ile(b, a)
Truncated(x, y) == IF (x < 0) <=> (y < 0) THEN (IF x < 0 THEN -x ELSE x) \div (IF y < 0 THEN -y ELSE y)
                   ELSE -((IF x < 0 THEN -x ELSE x) \div (IF y < 0 THEN -y ELSE y))
Idiv(a, b) == Truncated(Signed(a), Signed(b)) % Modulus
Imod(a, b) == (Signed(a) - Signed(b) * Truncated(Signed(a), Signed(b))) % Modulus

Negative(a) == Isub(0, a)
\* Unsigned order becomes signed order.
Biased(a) == Xor(a, Sign)

-----------------------------------------------------------------------------
(* i32 operations, in R1 and R2.                                            *)

Answer(low) == [trap |-> FALSE, low |-> low, high |-> 0]
PairAnswer(low, high) == [trap |-> FALSE, low |-> low, high |-> high]
Trap == [trap |-> TRUE, low |-> 0, high |-> 0]

\* emit_i32_shr_s for a count below Bits: ones for the bits that the sign
\* leaves behind.
ShiftSigned(a, n) ==
  IF n = 0 THEN a
  ELSE IF Ilt(a, 0) = 1 THEN Or(Shl(a, Negative(n)), Shl(Ones, Isub(Bits, n)))
  ELSE Shl(a, Negative(n))

\* emit_i32_rotate.
RotateLeft(a, n) == IF n = 0 THEN a ELSE Or(Shl(a, n), Shl(a, Isub(n, Bits)))
RotateRight(a, n) == IF n = 0 THEN a ELSE Or(Shl(a, Negative(n)), Shl(a, Isub(Bits, n)))

\* emit_i32_extend_s.
ExtendSigned(a, bits) ==
  LET kept == And(a, 2 ^ bits - 1)
  IN IF And(kept, 2 ^ (bits - 1)) = 0 THEN kept ELSE Or(kept, Modulus - 2 ^ bits)

WordOps ==
  {"shl", "shr_u", "shr_s", "rotl", "rotr", "extend8", "extend16", "lt_u", "le_u", "gt_u", "ge_u",
   "div_s", "rem_s"}

\* lower_binary and the extensions of lower_expression_impl.  The minimum is
\* not divided by -1.
LowerWords(op, a, b) ==
  LET n == And(b, Bits - 1) IN
  CASE op = "shl" -> Answer(Shl(a, n))
    [] op = "shr_u" -> Answer(Shl(a, Negative(n)))
    [] op = "shr_s" -> Answer(ShiftSigned(a, n))
    [] op = "rotl" -> Answer(RotateLeft(a, n))
    [] op = "rotr" -> Answer(RotateRight(a, n))
    [] op = "extend8" -> Answer(ExtendSigned(a, Bits \div 4))
    [] op = "extend16" -> Answer(ExtendSigned(a, Half))
    [] op = "lt_u" -> Answer(Ilt(Biased(a), Biased(b)))
    [] op = "le_u" -> Answer(Ile(Biased(a), Biased(b)))
    [] op = "gt_u" -> Answer(Igt(Biased(a), Biased(b)))
    [] op = "ge_u" -> Answer(Ige(Biased(a), Biased(b)))
    [] op = "div_s" -> IF b = 0 \/ (a = Sign /\ b = Ones) THEN Trap ELSE Answer(Idiv(a, b))
    [] op = "rem_s" -> IF b = 0 THEN Trap ELSE Answer(Imod(a, b))

-----------------------------------------------------------------------------
(* i64 operations.                                                          *)

\* Fault: the carry of the low words is dropped.
PairAddWithoutCarry(a, b) == P(Iadd(a.low, b.low), Iadd(a.high, b.high))

\* The carry or borrow shows in the low word.
PairAdd(a, b) ==
  LET low == Iadd(a.low, b.low)
  IN P(low, Iadd(Iadd(a.high, b.high), Ilt(Biased(low), Biased(a.low))))
PairSub(a, b) ==
  LET low == Isub(a.low, b.low)
  IN P(low, Isub(Isub(a.high, b.high), Igt(Biased(low), Biased(a.low))))

\* Products of limbs of half a word fit into a word.
PairMul(a, b) ==
  LET Lower(w) == And(w, 2 ^ Half - 1)
      Upper(w) == Shl(w, Negative(Half))
      low == Imul(Lower(a.low), Lower(b.low))
      middle == Iadd(Imul(Lower(Upper(a.low)), Lower(b.low)), Upper(low))
      cross == Iadd(Lower(middle), Imul(Lower(a.low), Lower(Upper(b.low))))
      carried == Iadd(Iadd(Imul(Lower(Upper(a.low)), Lower(Upper(b.low))), Upper(middle)), Upper(cross))
  IN P(Or(Shl(Lower(cross), Half), Lower(low)),
       Iadd(Iadd(carried, Imul(a.low, b.high)), Imul(a.high, b.low)))

PairBitwise(table, a, b) == P(table[<<a.low, b.low>>], table[<<a.high, b.high>>])
PairEq(a, b) == And(Ieq(a.low, b.low), Ieq(a.high, b.high))

\* The high words decide unless they are equal; the low ones are unsigned.
PairCompare(op, unsigned, a, b) ==
  LET High(w) == IF unsigned THEN Biased(w) ELSE w
      Prefers(x, y) == IF op \in {"lt", "le"} THEN Ilt(x, y) ELSE Igt(x, y)
      Low(x, y) == CASE op = "lt" -> Ilt(x, y) [] op = "le" -> Ile(x, y)
                     [] op = "gt" -> Igt(x, y) [] op = "ge" -> Ige(x, y)
  IN IF Prefers(High(a.high), High(b.high)) = 1 THEN 1
     ELSE IF Prefers(High(b.high), High(a.high)) = 1 THEN 0
     ELSE Low(Biased(a.low), Biased(b.low))

\* Counts of a word and more move one word to the other.
PairShl(a, n) ==
  IF n = 0 THEN a
  ELSE IF Ilt(n, Bits) = 0 THEN P(0, Shl(a.low, Isub(n, Bits)))
  ELSE P(Shl(a.low, n), Or(Shl(a.high, n), Shl(a.low, Isub(n, Bits))))
PairShr(a, n, signed) ==
  LET Shift(w, k) == IF signed THEN ShiftSigned(w, k) ELSE Shl(w, Negative(k))
  IN IF n = 0 THEN a
     ELSE IF Ilt(n, Bits) = 0
       THEN P(Shift(a.high, Isub(n, Bits)), IF signed /\ Ilt(a.high, 0) = 1 THEN Ones ELSE 0)
     ELSE P(Or(Shl(a.low, Negative(n)), Shl(a.high, Isub(Bits, n))), Shift(a.high, n))

\* emit_i64_rotate swaps the words first.
PairRotate(a, count, leftward) ==
  LET swapped == IF Ilt(count, Bits) = 1 THEN a ELSE P(a.high, a.low)
      n == IF Ilt(count, Bits) = 1 THEN count ELSE Isub(count, Bits)
      Mixed(w, other) ==
        IF leftward THEN Or(Shl(w, n), Shl(other, Isub(n, Bits)))
        ELSE Or(Shl(w, Negative(n)), Shl(other, Isub(Bits, n)))
  IN IF n = 0 THEN swapped ELSE P(Mixed(swapped.low, swapped.high), Mixed(swapped.high, swapped.low))

\* extract_i64_word: the low word after a constant logical shift.
ExtractedWord(a, shift) ==
  CASE shift = 0 -> a.low
    [] shift \in 1 .. Bits - 1 -> Or(Shl(a.low, Negative(shift)), Shl(a.high, Bits - shift))
    [] shift = Bits -> a.high
    [] shift > Bits -> Shl(a.high, Negative(shift - Bits))

PairOps ==
  {"add", "sub", "mul", "and", "or", "xor", "eq", "ne", "lt", "le", "gt", "ge", "ltu", "leu", "gtu", "geu",
   "shl64", "shru64", "shrs64", "rotl64", "rotr64", "eqz", "wrap", "extends", "extendu", "extract"}

Both(p) == PairAnswer(p.low, p.high)
\* lower_i64_binary, lower_i64_eqz, lower_i32_wrap_i64, lower_i64_extend_i32
\* and lower_i64_word_extract, by the low word of b.
LowerPairs(op, a, b) ==
  LET n == And(b.low, 2 * Bits - 1) IN
  CASE op = "add" -> Both(PairAdd(a, b))
    [] op = "sub" -> Both(PairSub(a, b))
    [] op = "mul" -> Both(PairMul(a, b))
    [] op = "and" -> Both(PairBitwise(AndTable, a, b))
    [] op = "or" -> Both(PairBitwise(OrTable, a, b))
    [] op = "xor" -> Both(PairBitwise(XorTable, a, b))
    [] op = "eq" -> Answer(PairEq(a, b))
    [] op = "ne" -> Answer(Ieq(PairEq(a, b), 0))
    [] op \in {"lt", "le", "gt", "ge"} -> Answer(PairCompare(op, FALSE, a, b))
    [] op = "ltu" -> Answer(PairCompare("lt", TRUE, a, b))
    [] op = "leu" -> Answer(PairCompare("le", TRUE, a, b))
    [] op = "gtu" -> Answer(PairCompare("gt", TRUE, a, b))
    [] op = "geu" -> Answer(PairCompare("ge", TRUE, a, b))
    [] op = "shl64" -> Both(PairShl(a, n))
    [] op = "shru64" -> Both(PairShr(a, n, FALSE))
    [] op = "shrs64" -> Both(PairShr(a, n, TRUE))
    [] op = "rotl64" -> Both(PairRotate(a, n, TRUE))
    [] op = "rotr64" -> Both(PairRotate(a, n, FALSE))
    [] op = "eqz" -> Answer(And(Ieq(a.low, 0), Ieq(a.high, 0)))
    [] op = "wrap" -> Answer(a.low)
    [] op = "extends" -> PairAnswer(a.low, IF Ilt(a.low, 0) = 1 THEN Ones ELSE 0)
    [] op = "extendu" -> PairAnswer(a.low, 0)
    [] op = "extract" -> Answer(ExtractedWord(a, n))

-----------------------------------------------------------------------------
(* What Wasm says.                                                          *)

Number(p) == p.low + Modulus * p.high
SignedNumber(p) == p.low + Modulus * Signed(p.high)
PairOf(v) == PairAnswer(v % Modulus, (v \div Modulus) % Modulus)
\* Rotation of v, which has width bits, to the left.
Rotated(v, n, width) == ((v * 2 ^ n) % 2 ^ width) + v \div 2 ^ (width - n)
\* The low bits of v as a signed number.
Extended(v, bits) == LET kept == v % 2 ^ bits IN IF kept >= 2 ^ (bits - 1) THEN kept - 2 ^ bits ELSE kept
Remainder(x, y) == x - y * Truncated(x, y)

WasmWords(op, a, b) ==
  LET n == b % Bits IN
  CASE op = "shl" -> Answer((a * 2 ^ n) % Modulus)
    [] op = "shr_u" -> Answer(a \div 2 ^ n)
    [] op = "shr_s" -> Answer((Signed(a) \div 2 ^ n) % Modulus)
    [] op = "rotl" -> Answer(Rotated(a, n, Bits))
    [] op = "rotr" -> Answer(Rotated(a, (Bits - n) % Bits, Bits))
    [] op = "extend8" -> Answer(Extended(a, Bits \div 4) % Modulus)
    [] op = "extend16" -> Answer(Extended(a, Half) % Modulus)
    [] op = "lt_u" -> Answer(Flag(a < b))
    [] op = "le_u" -> Answer(Flag(a <= b))
    [] op = "gt_u" -> Answer(Flag(a > b))
    [] op = "ge_u" -> Answer(Flag(a >= b))
    [] op \in {"div_s", "rem_s", "div_u", "rem_u"} /\ b = 0 -> Trap
    [] op = "div_s" /\ b # 0 ->
         LET quotient == Truncated(Signed(a), Signed(b))
         IN IF quotient = Sign THEN Trap ELSE Answer(quotient % Modulus)
    [] op = "rem_s" /\ b # 0 -> Answer(Remainder(Signed(a), Signed(b)) % Modulus)
    [] op = "div_u" /\ b # 0 -> Answer(a \div b)
    [] op = "rem_u" /\ b # 0 -> Answer(a % b)

WasmPairs(op, a, b) ==
  LET n == b.low % (2 * Bits)
      x == Number(a)
      y == Number(b)
      sx == SignedNumber(a)
      sy == SignedNumber(b)
      Bitwise64(Of(_, _)) ==
        CHOOSE r \in [trap : {FALSE}, low : Word, high : Word] :
          \A k \in 0 .. Bits - 1 : /\ Bit(r.low, k) = Of(Bit(a.low, k), Bit(b.low, k))
                                   /\ Bit(r.high, k) = Of(Bit(a.high, k), Bit(b.high, k))
  IN
  CASE op = "add" -> PairOf(x + y)
    [] op = "sub" -> PairOf(x - y)
    [] op = "mul" -> PairOf(x * y)
    [] op = "and" -> Bitwise64(LAMBDA i, j : i * j)
    [] op = "or" -> Bitwise64(LAMBDA i, j : i + j - i * j)
    [] op = "xor" -> Bitwise64(LAMBDA i, j : (i + j) % 2)
    [] op = "eq" -> Answer(Flag(x = y))
    [] op = "ne" -> Answer(Flag(x # y))
    [] op = "lt" -> Answer(Flag(sx < sy))
    [] op = "le" -> Answer(Flag(sx <= sy))
    [] op = "gt" -> Answer(Flag(sx > sy))
    [] op = "ge" -> Answer(Flag(sx >= sy))
    [] op = "ltu" -> Answer(Flag(x < y))
    [] op = "leu" -> Answer(Flag(x <= y))
    [] op = "gtu" -> Answer(Flag(x > y))
    [] op = "geu" -> Answer(Flag(x >= y))
    [] op = "shl64" -> PairOf(x * 2 ^ n)
    [] op = "shru64" -> PairOf(x \div 2 ^ n)
    [] op = "shrs64" -> PairOf(sx \div 2 ^ n)
    [] op = "rotl64" -> PairOf(Rotated(x, n, 2 * Bits))
    [] op = "rotr64" -> PairOf(Rotated(x, (2 * Bits - n) % (2 * Bits), 2 * Bits))
    [] op = "eqz" -> Answer(Flag(x = 0))
    [] op = "wrap" -> Answer(x % Modulus)
    [] op = "extends" -> PairOf(Signed(a.low))
    [] op = "extendu" -> PairOf(a.low)
    [] op = "extract" -> Answer((x \div 2 ^ n) % Modulus)

-----------------------------------------------------------------------------
VARIABLES
  op, left, right,  \* the operation and its operands: words or pairs
  regs,      \* R1 to R5 of the division helper
  answer     \* <<>>, or what the code gives

pairVars == <<op, left, right, regs, answer>>

DivisionOps == {"div_u", "rem_u"}
\* dividend, divisor, quotient, remainder, and the count of steps left.
Registers == [r1 : Word, r2 : Word, r3 : Word, r4 : Word, r5 : 0 .. Bits]
Idle == [r1 |-> 0, r2 |-> 0, r3 |-> 0, r4 |-> 0, r5 |-> 0]

PairsInit ==
  /\ \/ op \in WordOps \cup DivisionOps /\ left \in Word /\ right \in Word
     \/ op \in PairOps /\ left \in [low : Samples, high : Samples] /\ right \in [low : Samples, high : Samples]
  /\ op = "rem_s" => ~(left = Sign /\ right = Ones)
  /\ regs = Idle
  /\ answer = <<>>

DoWords ==
  /\ answer = <<>> /\ op \in WordOps
  /\ answer' = <<LowerWords(op, left, right)>>
  /\ UNCHANGED <<op, left, right, regs>>
DoPairs ==
  /\ answer = <<>> /\ op \in PairOps
  /\ answer' = <<LowerPairs(op, left, right)>>
  /\ UNCHANGED <<op, left, right, regs>>

\* __wasm_i32_div_u.
StartDivision ==
  /\ answer = <<>> /\ op \in DivisionOps /\ regs = Idle
  /\ IF right = 0 THEN answer' = <<Trap>> /\ UNCHANGED regs
     ELSE /\ regs' = [r1 |-> left, r2 |-> right, r3 |-> 0, r4 |-> 0, r5 |-> Bits]
          /\ UNCHANGED answer
  /\ UNCHANGED <<op, left, right>>

\* Fault: the remainder is compared as a signed word.
DivisionStepSigned ==
  /\ answer = <<>> /\ regs.r5 > 0
  /\ LET bit == And(Shl(regs.r1, Negative(Bits - 1)), 1)
         rest == Or(Shl(regs.r4, 1), bit)
         fits == Ige(rest, regs.r2)
     IN regs' = [regs EXCEPT !.r1 = Shl(@, 1), !.r5 = @ - 1,
                             !.r4 = IF fits = 1 THEN Isub(rest, regs.r2) ELSE rest,
                             !.r3 = Or(Shl(@, 1), fits)]
  /\ UNCHANGED <<op, left, right, answer>>

\* Restoring division brings down one bit of the dividend.
DivisionStep ==
  /\ answer = <<>> /\ regs.r5 > 0
  /\ LET bit == And(Shl(regs.r1, Negative(Bits - 1)), 1)
         rest == Or(Shl(regs.r4, 1), bit)
         fits == Ige(Biased(rest), Biased(regs.r2))
     IN regs' = [regs EXCEPT !.r1 = Shl(@, 1), !.r5 = @ - 1,
                             !.r4 = IF fits = 1 THEN Isub(rest, regs.r2) ELSE rest,
                             !.r3 = Or(Shl(@, 1), fits)]
  /\ UNCHANGED <<op, left, right, answer>>

\* The quotient, or the dividend less the product with it.
EndDivision ==
  /\ answer = <<>> /\ op \in DivisionOps /\ regs # Idle /\ regs.r5 = 0
  /\ answer' = <<Answer(IF op = "div_u" THEN regs.r3 ELSE Isub(left, Imul(regs.r3, regs.r2)))>>
  /\ UNCHANGED <<op, left, right, regs>>

PairsNext == DoWords \/ DoPairs \/ StartDivision \/ DivisionStep \/ EndDivision

PairsSpec == PairsInit /\ [][PairsNext]_pairVars

-----------------------------------------------------------------------------
\* The code gives what Wasm says or traps where Wasm traps, and between its
\* steps the division is right for the bits that it has brought down.
AgreesWithWasm ==
  /\ answer # <<>> => answer[1] = IF op \in PairOps THEN WasmPairs(op, left, right) ELSE WasmWords(op, left, right)
  /\ answer = <<>> /\ regs # Idle =>
       LET down == left \div 2 ^ regs.r5
       IN regs.r3 = down \div right /\ regs.r4 = down % right
=============================================================================
