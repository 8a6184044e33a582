-------------------------- MODULE AlignmentProofs ---------------------------
(***************************************************************************)
(* For every function, any number of locals and any width of a word, the   *)
(* facts that the analysis of Alignment leaves at an instruction are true  *)
(* of every execution that gets there.                                     *)
(***************************************************************************)
EXTENDS Alignment, SequenceTheorems, WellFoundedInduction, TLAPS

-----------------------------------------------------------------------------
(* Multiples of 1, 2 and 4.                                                *)

LEMMA Factor ==
  ASSUME NEW a \in Int, NEW d \in Fact, a % d = 0
  PROVE  \E q \in Int : a = d * q
  BY DEF Fact

LEMMA Multiple ==
  ASSUME NEW q \in Int, NEW d \in Fact
  PROVE  (d * q) % d = 0
  BY DEF Fact

LEMMA Remainder ==
  ASSUME NEW a \in Int, NEW m \in Int, m > 0
  PROVE  \E k \in Int : a = k * m + (a % m)
  OBVIOUS

\* Wrapping at a multiple of d keeps multiples of d.
LEMMA Wrapped ==
  ASSUME NEW a \in Int, NEW m \in Nat \ {0}, NEW d \in Fact, m % d = 0, a % d = 0
  PROVE  (a % m) % d = 0
<1>1. PICK k \in Int : a = k * m + (a % m)
  BY Remainder, m \in Int /\ m > 0
<1>2. PICK q \in Int : m = d * q
  BY Factor
<1>3. PICK r \in Int : a = d * r
  BY Factor
<1>4. d \in Int
  BY DEF Fact
<1>5. a % m = d * (r - k * q) /\ r - k * q \in Int
  <2> DEFINE p == k * q
             w == a % m
  <2>1. k * m = d * p
    BY <1>2, <1>4
  <2>2. p \in Int /\ w \in Int
    OBVIOUS
  <2>3. d * r = d * p + w
    BY <1>1, <1>3, <2>1
  <2> HIDE DEF p, w
  <2>4. w = d * (r - p)
    BY <1>4, <2>2, <2>3
  <2> QED
    BY <2>2, <2>4 DEF p, w
<1> QED
  BY <1>5, Multiple

LEMMA Sums ==
  ASSUME NEW a \in Int, NEW b \in Int, NEW d \in Fact, a % d = 0, b % d = 0
  PROVE  (a + b) % d = 0 /\ (a - b) % d = 0
  BY DEF Fact

LEMMA Products ==
  ASSUME NEW a \in Int, NEW b \in Int, NEW d \in Fact, a % d = 0
  PROVE  (a * b) % d = 0 /\ (b * a) % d = 0
<1>1. PICK q \in Int : a = d * q
  BY Factor
<1> DEFINE p == q * b
<1>2. a * b = d * p /\ b * a = d * p /\ p \in Int
  BY <1>1 DEF Fact
<1> HIDE DEF p
<1>3. (d * p) % d = 0
  BY <1>2, Multiple
<1> QED
  BY <1>2, <1>3

LEMMA EvenProducts ==
  ASSUME NEW a \in Int, NEW b \in Int, a % 2 = 0, b % 2 = 0
  PROVE  (a * b) % 4 = 0
<1>1. PICK q \in Int : a = 2 * q
  BY Factor DEF Fact
<1>2. PICK r \in Int : b = 2 * r
  BY Factor DEF Fact
<1> DEFINE x == q * b
           y == q * r
           z == a * b
<1>3. z = 2 * x /\ x \in Int
  BY <1>1
<1>4. x = 2 * y /\ y \in Int
  BY <1>2
<1> HIDE DEF x, y
<1>5. z = 4 * y
  <2> HIDE DEF z
  <2> QED
    BY <1>3, <1>4
<1> QED
  BY <1>4, <1>5, Multiple DEF Fact

\* 2 ^ n is a positive integer, and a multiple of 4 from n = 2 on.
LEMMA Powers ==
  \A n \in 0 .. Bits : 2 ^ n \in Nat \ {0} /\ (n >= 2 => 2 ^ n % 4 = 0)
<1> DEFINE P(n) == 2 ^ n \in Nat \ {0} /\ (n >= 2 => 2 ^ n % 4 = 0)
           T == {n \in Nat : n <= Bits /\ ~ P(n)}
           R == OpToRel(<, Nat)
<1>1. SUFFICES ASSUME T # {}
               PROVE  FALSE
  <2> HIDE DEF P
  <2>1. \A n \in 0 .. Bits : n \in Nat /\ n <= Bits
    BY ConstantAssumption
  <2>2. ASSUME T = {}
        PROVE  \A n \in 0 .. Bits : P(n)
    BY <2>1, <2>2
  <2> QED
    BY <2>2 DEF P
<1>2. IsWellFoundedOn(R, Nat)
  BY NatLessThanWellFounded
<1>3. \A i, j \in Nat : <<j, i>> \in R <=> j < i
  BY DEF OpToRel
<1>4. PICK n \in T : \A j \in T : <<j, n>> \notin R
  <2>1. T \subseteq Nat
    OBVIOUS
  <2> HIDE DEF T, R
  <2> QED
    BY <1>1, <1>2, <2>1, WFMin
<1>5. n \in Nat /\ n <= Bits /\ ~ P(n)
  OBVIOUS
<1>6. CASE n = 0
  BY <1>5, <1>6
<1>7. CASE n = 1
  BY <1>5, <1>7
<1>8. CASE n >= 2
  <2> DEFINE j == n - 1
  <2>1. j \in Nat /\ j <= Bits /\ j < n /\ j \in 0 .. Bits - 1 /\ n = j + 1
    BY <1>5, <1>8, ConstantAssumption
  <2>2. j \notin T
    <3> HIDE DEF T, R
    <3> QED
      BY <1>3, <1>4, <1>5, <2>1
  <2>3. P(j)
    BY <2>1, <2>2
  <2>4. 2 ^ n = 2 * 2 ^ j
    <3> HIDE DEF j
    <3> QED
      BY <2>1, ConstantAssumption
  <2>5. n = 2 => 2 ^ j = 2
    BY <1>5
  <2> HIDE DEF j
  <2>6. n > 2 => 2 ^ j % 4 = 0
    BY <2>1, <2>3
  <2> DEFINE x == 2 ^ j
             y == 2 ^ n
  <2>7. y = 2 * x /\ x \in Nat \ {0} /\ (n = 2 => x = 2) /\ (n > 2 => x % 4 = 0)
    BY <2>3, <2>4, <2>5, <2>6
  <2> HIDE DEF x, y
  <2>8. y \in Nat \ {0} /\ y % 4 = 0
    BY <1>5, <1>8, <2>7
  <2> QED
    BY <1>5, <2>8 DEF y
<1> QED
  BY <1>5, <1>6, <1>7, <1>8

\* Words wrap at a multiple of every fact.
LEMMA WordSize ==
  /\ 2 ^ Bits \in Nat \ {0} /\ \A d \in Fact : 2 ^ Bits % d = 0
  /\ Word \subseteq Nat
<1>1. 2 ^ Bits \in Nat \ {0} /\ 2 ^ Bits % 4 = 0
  BY Powers, ConstantAssumption
<1> DEFINE m == 2 ^ Bits
<1>2. m \in Nat \ {0} /\ m % 4 = 0
  BY <1>1
<1> HIDE DEF m
<1>3. \A d \in Fact : m % d = 0
  BY <1>2 DEF Fact
<1> QED
  BY <1>2, <1>3 DEF m, Word

LEMMA WrappedWord ==
  ASSUME NEW a \in Int
  PROVE  a % 2 ^ Bits \in Word /\ \A d \in Fact : a % d = 0 => (a % 2 ^ Bits) % d = 0
<1> DEFINE m == 2 ^ Bits
<1>1. m \in Nat \ {0} /\ \A d \in Fact : m % d = 0
  BY WordSize
<1>2. a % m \in 0 .. m - 1
  <2> HIDE DEF m
  <2> QED
    BY <1>1
<1>3. \A d \in Fact : a % d = 0 => (a % m) % d = 0
  <2> HIDE DEF m
  <2> QED
    BY <1>1, Wrapped
<1> QED
  BY <1>2, <1>3 DEF Word

\* The two lowest bits decide.
LEMMA LowBits ==
  ASSUME NEW w \in Word
  PROVE  /\ \A k \in {0, 1} : Bit(w, k) \in {0, 1}
         /\ w % 2 = 0 <=> Bit(w, 0) = 0
         /\ w % 4 = 0 <=> Bit(w, 0) = 0 /\ Bit(w, 1) = 0
<1>1. w \in Nat
  BY WordSize
<1>2. 2 ^ 0 = 1 /\ 2 ^ 1 = 2
  OBVIOUS
<1>3. Bit(w, 0) = w % 2 /\ Bit(w, 1) = (w \div 2) % 2
  BY <1>1, <1>2 DEF Bit
<1> QED
  BY <1>1, <1>3


-----------------------------------------------------------------------------
(* Facts.                                                                  *)

\* ResultOf is what the operation keeps of the alignment of its operands.
LEMMA OutcomesFit ==
  ASSUME NEW i \in Instruction, NEW a \in Word, NEW b \in Word,
         NEW left \in Fact, NEW right \in Fact, a % left = 0, b % right = 0,
         i.right.constant => b = i.right.of,
         NEW w \in Outcomes(i, a, b)
  PROVE  w \in Word /\ w % ResultOf(i, left, right) = 0
<1>1. a \in Nat /\ b \in Nat /\ a \in Int /\ b \in Int /\ 4 \in Fact
  BY WordSize DEF Fact
<1>2. CASE i.by \in {"add", "sub"}
  <2> DEFINE least == Least(left, right)
  <2>1. least \in Fact /\ a % least = 0 /\ b % least = 0
    BY <1>1 DEF Fact, Least
  <2> HIDE DEF least
  <2>2. (a + b) % least = 0 /\ (a - b) % least = 0
    BY <1>1, <2>1, Sums, Zenon
  <2>3. w \in {(a + b) % 2 ^ Bits, (a - b) % 2 ^ Bits}
    BY <1>2 DEF Outcomes
  <2>4. ResultOf(i, left, right) = least
    BY <1>2 DEF ResultOf, least
  <2> QED
    BY <1>1, <2>1, <2>2, <2>3, <2>4, WrappedWord
<1>3. CASE i.by = "mul"
  <2>1. w = (a * b) % 2 ^ Bits /\ a * b \in Int
    <3>1. w = (a * b) % 2 ^ Bits
      BY <1>3 DEF Outcomes
    <3> QED
      BY <1>1, <3>1
  <2>2. ResultOf(i, left, right) =
          IF left >= 4 \/ right >= 4 \/ (left >= 2 /\ right >= 2) THEN 4 ELSE Greatest(left, right)
    BY <1>3 DEF ResultOf
  <2>3. CASE left = 4 \/ right = 4
    <3>1. a % 4 = 0 \/ b % 4 = 0
      BY <2>3
    <3>2. (a * b) % 4 = 0
      BY <1>1, <3>1, Products, Zenon
    <3> QED
      BY <2>1, <2>2, <2>3, <3>2, WrappedWord DEF Fact
  <2>4. CASE left = 2 /\ right = 2
    <3>1. (a * b) % 4 = 0
      <4>1. a % 2 = 0 /\ b % 2 = 0
        BY <2>4
      <4> QED
        BY <1>1, <4>1, EvenProducts, Zenon
    <3> QED
      BY <2>1, <2>2, <2>4, <3>1, WrappedWord DEF Fact
  <2>5. CASE left = 1 /\ right \in {1, 2}
    <3>1. (a * b) % right = 0
      BY <1>1, Products, Zenon
    <3>2. Greatest(left, right) = right
      BY <2>5 DEF Greatest
    <3> QED
      BY <2>1, <2>2, <2>5, <3>1, <3>2, WrappedWord
  <2>6. CASE left = 2 /\ right = 1
    <3>1. (a * b) % left = 0
      BY <1>1, Products, Zenon
    <3>2. Greatest(left, right) = left
      BY <2>6 DEF Greatest
    <3> QED
      BY <2>1, <2>2, <2>6, <3>1, <3>2, WrappedWord
  <2> QED
    BY <2>3, <2>4, <2>5, <2>6 DEF Fact
<1>4. CASE i.by = "shl"
  <2> DEFINE n == b % Bits
             power == 2 ^ n
  <2>1. n \in 0 .. Bits - 1
    BY <1>1, ConstantAssumption
  <2>2. w = (a * power) % 2 ^ Bits
    BY <1>4 DEF Outcomes
  <2>3. power \in Nat \ {0} /\ (n >= 2 => power % 4 = 0) /\ (n = 1 => power = 2) /\ (n = 0 => power = 1)
    <3>1. n \in 0 .. Bits
      BY <2>1, ConstantAssumption
    <3>2. 2 ^ 0 = 1 /\ 2 ^ 1 = 2
      OBVIOUS
    <3> HIDE DEF n
    <3> QED
      BY <3>1, <3>2, Powers
  <2>4. ResultOf(i, left, right) = Shifted(i, left)
    BY <1>4 DEF ResultOf
  <2>5. Shifted(i, left) =
          IF ~ i.right.constant THEN left
          ELSE IF n >= 2 \/ left >= 4 \div power THEN 4 ELSE left * power
    BY DEF Shifted
  <2> HIDE DEF n, power
  <2>6. a * power \in Int /\ (a * power) % left = 0
    <3>1. power \in Int /\ a * power \in Int
      BY <1>1, <2>3
    <3> QED
      BY <1>1, <3>1, Products, Zenon
  <2>7. CASE ~ i.right.constant
    BY <2>2, <2>4, <2>5, <2>6, <2>7, WrappedWord
  <2>8. CASE i.right.constant /\ n >= 2
    <3>1. (a * power) % 4 = 0
      <4>1. power \in Int /\ power % 4 = 0
        BY <2>3, <2>8
      <4> QED
        BY <1>1, <4>1, Products, Zenon
    <3> QED
      BY <2>2, <2>4, <2>5, <2>6, <2>8, <3>1, WrappedWord DEF Fact
  <2>9. CASE i.right.constant /\ n = 1
    <3>1. power = 2 /\ a * power = a * 2 /\ 4 \div power = 2
      BY <2>3, <2>9
    <3>2. ResultOf(i, left, right) = IF left >= 2 THEN 4 ELSE left * 2
      BY <2>4, <2>5, <2>9, <3>1
    <3>3. ResultOf(i, left, right) \in Fact /\ (a * 2) % ResultOf(i, left, right) = 0
      BY <1>1, <3>2 DEF Fact
    <3> QED
      BY <2>2, <2>6, <3>1, <3>3, WrappedWord
  <2>10. CASE i.right.constant /\ n = 0
    <3>1. power = 1 /\ a * power = a /\ 4 \div power = 4
      BY <1>1, <2>3, <2>10
    <3>2. ResultOf(i, left, right) = left
      BY <2>4, <2>5, <2>10, <3>1 DEF Fact
    <3> QED
      BY <2>2, <2>6, <3>2, WrappedWord
  <2> QED
    BY <2>1, <2>7, <2>8, <2>9, <2>10
<1>5. CASE i.by \in {"and", "or", "xor"}
  <2>1. /\ w \in Word
        /\ \A k \in {0, 1} :
             /\ i.by = "and" => Bit(w, k) = Bit(a, k) * Bit(b, k)
             /\ i.by = "or" => Bit(w, k) = Greatest(Bit(a, k), Bit(b, k))
             /\ i.by = "xor" => Bit(w, k) = (Bit(a, k) + Bit(b, k)) % 2
    <3>1. \A k \in {0, 1} : k \in 0 .. Bits - 1
      BY ConstantAssumption
    <3> QED
      BY <1>5, <3>1 DEF Outcomes, BitByBit
  <2>2. w \in Nat
    BY <2>1, WordSize
  <2>3. CASE i.by = "and"
    <3>1. \A k \in {0, 1} : Bit(a, k) = 0 \/ Bit(b, k) = 0 => Bit(w, k) = 0
      BY <2>1, <2>3, LowBits
    <3>2. ResultOf(i, left, right) = Greatest(left, right)
      BY <2>3 DEF ResultOf
    <3>3. (left = 4 \/ right = 4 => w % 4 = 0) /\ (left = 2 \/ right = 2 => w % 2 = 0)
      BY <2>1, <3>1, LowBits
    <3> QED
      BY <2>1, <2>2, <3>2, <3>3 DEF Fact, Greatest
  <2>4. CASE i.by \in {"or", "xor"}
    <3>1. \A k \in {0, 1} : Bit(a, k) = 0 /\ Bit(b, k) = 0 => Bit(w, k) = 0
      BY <2>1, <2>4 DEF Greatest
    <3>2. ResultOf(i, left, right) = Least(left, right)
      BY <2>4 DEF ResultOf
    <3>3. /\ left = 4 /\ right = 4 => w % 4 = 0
          /\ left \in {2, 4} /\ right \in {2, 4} => w % 2 = 0
      <4>1. left = 4 => a % 2 = 0
        BY <1>1
      <4>2. right = 4 => b % 2 = 0
        BY <1>1
      <4> QED
        BY <2>1, <3>1, <4>1, <4>2, LowBits
    <3> QED
      BY <2>1, <2>2, <3>2, <3>3 DEF Fact, Least
  <2> QED
    BY <1>5, <2>3, <2>4
<1>6. CASE i.by = "select"
  <2>1. w \in {a, b} /\ ResultOf(i, left, right) = Least(left, right)
    BY <1>6 DEF Outcomes, ResultOf
  <2> QED
    BY <1>1, <2>1 DEF Fact, Least
<1>7. CASE i.by \notin {"add", "sub", "mul", "shl", "and", "or", "xor", "select"}
  <2>1. w \in Word /\ ResultOf(i, left, right) = 1
    BY <1>7 DEF Outcomes, ResultOf
  <2>2. w \in Int
    BY <2>1, WordSize
  <2>3. w % 1 = 0
    BY <2>2
  <2> QED
    BY <2>1, <2>3
<1> QED
  BY <1>2, <1>3, <1>4, <1>5, <1>6, <1>7

\* What is known after a set is a fact again.
LEMMA ResultTypes ==
  ASSUME NEW i \in Instruction, NEW left \in Fact, NEW right \in Fact
  PROVE  ResultOf(i, left, right) \in Fact
<1>1. CASE i.by # "shl"
  BY <1>1 DEF ResultOf, Fact, Least, Greatest
<1>2. CASE i.by = "shl" /\ ~ i.right.constant
  BY <1>2 DEF ResultOf, Shifted
<1>3. CASE i.by = "shl" /\ i.right.constant
  <2> DEFINE n == i.right.of % Bits
             power == 2 ^ n
  <2>1. ResultOf(i, left, right) = IF n >= 2 \/ left >= 4 \div power THEN 4 ELSE left * power
    BY <1>3 DEF ResultOf, Shifted
  <2>2. n \in 0 .. Bits - 1
    <3>1. i.right \in Operand /\ i.right.constant
      BY <1>3 DEF Instruction
    <3>2. i.right.of \in Nat
      BY <3>1, WordSize DEF Operand
    <3> QED
      BY <3>2, ConstantAssumption
  <2>3. (n = 0 => power = 1) /\ (n = 1 => power = 2)
    <3>1. 2 ^ 0 = 1 /\ 2 ^ 1 = 2
      OBVIOUS
    <3> HIDE DEF n
    <3> QED
      BY <3>1
  <2> HIDE DEF n, power
  <2> QED
    BY <2>1, <2>2, <2>3 DEF Fact
<1> QED
  BY <1>1, <1>2, <1>3

Below(f, g) == \A x \in Place : f[x] <= g[x]

LEMMA BelowItself ==
  ASSUME NEW f \in Facts
  PROVE  Below(f, f)
  BY DEF Below, Facts, Fact

LEMMA BelowChain ==
  ASSUME NEW f \in Facts, NEW g \in Facts, NEW h \in Facts, Below(f, g), Below(g, h)
  PROVE  Below(f, h)
  BY DEF Below, Facts, Fact

\* Facts that meet leave what all of them have.
LEMMA Merged ==
  ASSUME NEW S \in SUBSET Facts, S # {}
  PROVE  Merge(S) \in Facts /\ \A f \in S : Below(Merge(S), f)
<1>1. ASSUME NEW x \in Place
      PROVE  \E n \in {f[x] : f \in S} : \A f \in S : n <= f[x]
  <2> DEFINE V == {f[x] : f \in S}
  <2>1. V \subseteq {1, 2, 4} /\ V # {}
    BY DEF Facts, Fact
  <2>2. \E n \in V : \A m \in V : n <= m
    <3> HIDE DEF V
    <3>1. CASE 1 \in V
      BY <2>1, <3>1
    <3>2. CASE 1 \notin V /\ 2 \in V
      BY <2>1, <3>2
    <3>3. CASE 1 \notin V /\ 2 \notin V
      <4>1. V = {4}
        BY <2>1, <3>3
      <4> QED
        BY <4>1
    <3> QED
      BY <3>1, <3>2, <3>3
  <2> QED
    BY <2>2
<1>2. ASSUME NEW x \in Place
      PROVE  Merge(S)[x] \in {f[x] : f \in S} /\ \A f \in S : Merge(S)[x] <= f[x]
  BY <1>1 DEF Merge
<1>3. \A x \in Place : Merge(S)[x] \in Fact
  BY <1>2 DEF Facts
<1> QED
  BY <1>2, <1>3 DEF Merge, Facts, Below


-----------------------------------------------------------------------------
(* Brackets and frames.                                                    *)

\* The bracket that a frame waits for the close of: its if, or the else after it.
Opener(p, frame) == IF p[frame.at].match = frame.close THEN frame.at ELSE p[frame.at].match

\* The frames are the brackets that are open before instruction c, from the
\* outermost to the innermost.
Nested(p, open, c) ==
  /\ \A k \in DOMAIN open : LET q == Opener(p, open[k]) IN
       /\ open[k].at \in DOMAIN p /\ p[open[k].at].op \in {"block", "loop", "if"}
       /\ q \in DOMAIN p /\ Opens(p[q]) /\ p[q].match = open[k].close
       /\ open[k].at <= q /\ q < c /\ c <= open[k].close
       /\ p[open[k].at].op # "if" => q = open[k].at
  /\ \A j, k \in DOMAIN open : j < k => Opener(p, open[j]) < open[k].at
  /\ \A q \in DOMAIN p : Opens(p[q]) /\ q < c /\ c <= p[q].match =>
       \E k \in DOMAIN open : Opener(p, open[k]) = q

LEMMA Brackets ==
  ASSUME NEW p \in Programs
  PROVE  /\ Len(p) \in Nat /\ DOMAIN p = 1 .. Len(p)
         /\ \A i \in DOMAIN p : p[i] \in Instruction /\ p[i].match \in Nat
         /\ \A i \in DOMAIN p : Opens(p[i]) =>
              /\ p[i].match \in DOMAIN p /\ i < p[i].match /\ Closes(p[p[i].match])
              /\ p[p[i].match].op = "else" => p[i].op = "if"
              /\ \A j \in DOMAIN p :
                   i < j /\ j < p[i].match /\ Opens(p[j]) => p[j].match < p[i].match
         /\ \A j \in DOMAIN p : Closes(p[j]) => \E i \in DOMAIN p : Opens(p[i]) /\ p[i].match = j
<1>1. p \in Seq(Instruction) /\ Bracketed(p)
  BY ProgramAssumption
<1>2. Len(p) \in Nat /\ DOMAIN p = 1 .. Len(p)
  BY <1>1, LenProperties
<1>3. \A i \in DOMAIN p : p[i] \in Instruction /\ p[i].match \in Nat
  <2>1. \A i \in DOMAIN p : p[i] \in Instruction
    BY <1>1, <1>2, ElementOfSeq
  <2> QED
    BY <2>1 DEF Instruction
<1>4. ASSUME NEW i \in DOMAIN p, Opens(p[i])
      PROVE  /\ p[i].match \in DOMAIN p /\ i < p[i].match /\ Closes(p[p[i].match])
             /\ p[p[i].match].op = "else" => p[i].op = "if"
             /\ \A j \in DOMAIN p :
                  i < j /\ j < p[i].match /\ Opens(p[j]) => p[j].match < p[i].match
  <2>1. /\ p[i].match \in i + 1 .. Len(p)
        /\ p[p[i].match].op \in (IF p[i].op = "if" THEN {"else", "end"} ELSE {"end"})
        /\ \A j \in i + 1 .. p[i].match - 1 : Opens(p[j]) => p[j].match < p[i].match
    BY <1>1, <1>4 DEF Bracketed
  <2> QED
    BY <1>2, <1>3, <2>1 DEF Closes
<1> QED
  BY <1>1, <1>2, <1>3, <1>4 DEF Bracketed

\* A closing bracket closes the innermost frame.
LEMMA ClosesInnermost ==
  ASSUME NEW p \in Programs, NEW open \in Seq(Frame), NEW c \in DOMAIN p,
         Nested(p, open, c), Closes(p[c])
  PROVE  /\ Len(open) \in DOMAIN open /\ open[Len(open)].close = c
         /\ p[c].op = "else" => p[open[Len(open)].at].op = "if" /\ p[open[Len(open)].at].match = c
<1> DEFINE n == Len(open)
<1>1. n \in Nat /\ DOMAIN open = 1 .. n
  BY LenProperties
<1>2. PICK q \in DOMAIN p : Opens(p[q]) /\ p[q].match = c
  BY Brackets
<1>3. q < c
  BY <1>2, Brackets
<1>4. PICK k \in DOMAIN open : Opener(p, open[k]) = q
  <2>1. c <= p[q].match
    BY <1>2, Brackets
  <2> QED
    BY <1>2, <1>3, <2>1 DEF Nested
<1>5. n \in DOMAIN open /\ k <= n
  BY <1>1
<1>6. k = n
  <2>1. SUFFICES ASSUME k < n
                 PROVE  FALSE
    BY <1>1, <1>5
  <2> DEFINE r == Opener(p, open[n])
  <2>2. /\ r \in DOMAIN p /\ Opens(p[r]) /\ p[r].match = open[n].close
        /\ open[n].at \in DOMAIN p /\ open[n].at <= r /\ r < c /\ c <= open[n].close
        /\ q < open[n].at
    BY <1>4, <1>5, <2>1 DEF Nested
  <2> HIDE DEF r
  <2>3. p[r].match < c
    BY <1>2, <2>2, Brackets
  <2> QED
    BY <2>2, <2>3, Brackets
<1>7. open[n].close = c
  BY <1>2, <1>4, <1>5, <1>6 DEF Nested
<1>8. ASSUME p[c].op = "else"
      PROVE  p[open[n].at].op = "if" /\ p[open[n].at].match = c
  <2>1. p[q].op = "if"
    BY <1>2, <1>8, Brackets
  <2>2. /\ open[n].at \in DOMAIN p /\ p[open[n].at].op \in {"block", "loop", "if"}
        /\ p[open[n].at].op # "if" => q = open[n].at
    BY <1>4, <1>5, <1>6 DEF Nested
  <2>3. p[open[n].at].op = "if"
    BY <2>1, <2>2
  <2>4. q = open[n].at \/ q = p[open[n].at].match
    BY <1>4, <1>6 DEF Opener
  <2>5. Opens(p[open[n].at])
    BY <2>3 DEF Opens
  <2>6. q # p[open[n].at].match
    BY <2>1, <2>2, <2>5, Brackets DEF Closes
  <2> QED
    BY <1>2, <2>3, <2>4, <2>6
<1> QED
  BY <1>5, <1>7, <1>8

\* A frame that replaces the innermost one.
LEMMA Replaced ==
  ASSUME NEW open \in Seq(Frame), Len(open) \in DOMAIN open, NEW frame \in Frame
  PROVE  LET new == Append(SubSeq(open, 1, Len(open) - 1), frame) IN
         /\ new \in Seq(Frame) /\ DOMAIN new = DOMAIN open
         /\ new[Len(open)] = frame
         /\ \A k \in DOMAIN open : k # Len(open) => new[k] = open[k]
<1> DEFINE new == Append(SubSeq(open, 1, Len(open) - 1), frame)
           n == Len(open)
           rest == SubSeq(open, 1, n - 1)
<1>1. n \in Nat /\ DOMAIN open = 1 .. n /\ n \in 1 .. n
  BY LenProperties
<1>2. rest \in Seq(Frame) /\ Len(rest) = n - 1 /\ \A k \in 1 .. n - 1 : rest[k] = open[k]
  BY <1>1, SubSeqProperties
<1>3. new = Append(rest, frame)
  OBVIOUS
<1> HIDE DEF new, rest, n
<1>4. /\ new \in Seq(Frame) /\ Len(new) = n /\ new[n] = frame
      /\ \A k \in 1 .. n - 1 : new[k] = rest[k]
  <2>1. /\ Len(new) = Len(rest) + 1 /\ new[Len(rest) + 1] = frame
        /\ \A k \in 1 .. Len(rest) : new[k] = rest[k]
        /\ new \in Seq(Frame)
    BY <1>2, <1>3, AppendProperties
  <2>2. Len(rest) + 1 = n
    BY <1>1, <1>2
  <2> QED
    BY <1>2, <2>1, <2>2
<1>5. DOMAIN new = 1 .. n
  BY <1>4, LenProperties
<1>6. \A k \in 1 .. n : k # n => k \in 1 .. n - 1
  BY <1>1
<1> QED
  BY <1>1, <1>2, <1>4, <1>5, <1>6 DEF n, new

LEMMA Dropped ==
  ASSUME NEW open \in Seq(Frame), Len(open) \in DOMAIN open,
         NEW new, new = SubSeq(open, 1, Len(open) - 1)
  PROVE  /\ new \in Seq(Frame) /\ DOMAIN new = DOMAIN open \ {Len(open)}
         /\ \A k \in DOMAIN new : new[k] = open[k]
<1> DEFINE n == Len(open)
<1>1. n \in Nat /\ DOMAIN open = 1 .. n /\ n \in 1 .. n
  BY LenProperties
<1>2. new \in Seq(Frame) /\ Len(new) = n - 1 /\ \A k \in 1 .. n - 1 : new[k] = open[k]
  BY <1>1, SubSeqProperties
<1>3. DOMAIN new = 1 .. n - 1
  BY <1>2, LenProperties
<1> QED
  BY <1>1, <1>2, <1>3

LEMMA Pushed ==
  ASSUME NEW open \in Seq(Frame), NEW frame \in Frame, NEW new, new = Append(open, frame)
  PROVE  /\ new \in Seq(Frame) /\ Len(open) + 1 \notin DOMAIN open
         /\ DOMAIN new = DOMAIN open \cup {Len(open) + 1}
         /\ new[Len(open) + 1] = frame
         /\ \A k \in DOMAIN open : new[k] = open[k] /\ k < Len(open) + 1
<1> DEFINE n == Len(open)
<1>1. n \in Nat /\ DOMAIN open = 1 .. n
  BY LenProperties
<1>2. /\ new \in Seq(Frame) /\ Len(new) = n + 1 /\ new[n + 1] = frame
      /\ \A k \in 1 .. n : new[k] = open[k]
  BY <1>1, AppendProperties
<1>3. DOMAIN new = 1 .. n + 1
  BY <1>2, LenProperties
<1> QED
  BY <1>1, <1>2, <1>3

\* Only the places of the frames and what they wait for matter.
LEMMA NestedSame ==
  ASSUME NEW p, NEW open, NEW c, Nested(p, open, c), NEW new, DOMAIN new = DOMAIN open,
         \A k \in DOMAIN open : new[k].at = open[k].at /\ new[k].close = open[k].close
  PROVE  Nested(p, new, c)
<1>1. \A k \in DOMAIN open : Opener(p, new[k]) = Opener(p, open[k])
  BY DEF Opener
<1> QED
  BY <1>1 DEF Nested

LEMMA NestedPlain ==
  ASSUME NEW p \in Programs, NEW open \in Seq(Frame), NEW c \in DOMAIN p, Nested(p, open, c),
         ~ Opens(p[c]), ~ Closes(p[c])
  PROVE  Nested(p, open, c + 1)
<1>1. ASSUME NEW k \in DOMAIN open
      PROVE  Opener(p, open[k]) < c + 1 /\ c + 1 <= open[k].close
  <2> DEFINE q == Opener(p, open[k])
  <2>1. /\ q \in DOMAIN p /\ Opens(p[q]) /\ p[q].match = open[k].close
        /\ q < c /\ c <= open[k].close
    BY DEF Nested
  <2> HIDE DEF q
  <2>2. open[k].close \in DOMAIN p /\ open[k].close # c
    BY <2>1, Brackets
  <2>3. q < c + 1 /\ c + 1 <= open[k].close
    BY <2>1, <2>2, Brackets
  <2> QED
    BY <2>3 DEF q
<1>2. ASSUME NEW q \in DOMAIN p, Opens(p[q]), q < c + 1, c + 1 <= p[q].match
      PROVE  q < c /\ c <= p[q].match
  <2>1. q # c
    BY <1>2
  <2> QED
    BY <1>2, <2>1, Brackets
<1> QED
  BY <1>1, <1>2 DEF Nested

LEMMA NestedOpen ==
  ASSUME NEW p \in Programs, NEW open \in Seq(Frame), NEW c \in DOMAIN p, Nested(p, open, c),
         p[c].op \in {"block", "loop", "if"}, NEW frame \in Frame,
         frame.at = c, frame.close = p[c].match
  PROVE  Nested(p, Append(open, frame), c + 1)
<1> DEFINE new == Append(open, frame)
           n == Len(open)
<1>1. /\ n + 1 \notin DOMAIN open /\ DOMAIN new = DOMAIN open \cup {n + 1}
      /\ new[n + 1] = frame
      /\ \A k \in DOMAIN open : new[k] = open[k] /\ k < n + 1
      /\ n \in Nat /\ DOMAIN open \subseteq Nat
  BY Pushed, LenProperties
<1> HIDE DEF new
<1>2. Opens(p[c])
  BY DEF Opens
<1>3. Opener(p, frame) = c
  BY DEF Opener
<1>4. c < p[c].match /\ p[c].match \in DOMAIN p
  BY <1>2, Brackets
<1>5. ASSUME NEW k \in DOMAIN open
      PROVE  Opener(p, open[k]) < c /\ c + 1 <= open[k].close
  <2> DEFINE q == Opener(p, open[k])
  <2>1. /\ q \in DOMAIN p /\ Opens(p[q]) /\ p[q].match = open[k].close
        /\ q < c /\ c <= open[k].close
    BY DEF Nested
  <2> HIDE DEF q
  <2>2. open[k].close \in DOMAIN p /\ open[k].close # c
    BY <1>2, <2>1, Brackets DEF Opens, Closes
  <2>3. q < c /\ c + 1 <= open[k].close
    BY <2>1, <2>2, Brackets
  <2> QED
    BY <2>3 DEF q
<1>6. ASSUME NEW k \in DOMAIN new
      PROVE  LET q == Opener(p, new[k]) IN
             /\ new[k].at \in DOMAIN p /\ p[new[k].at].op \in {"block", "loop", "if"}
             /\ q \in DOMAIN p /\ Opens(p[q]) /\ p[q].match = new[k].close
             /\ new[k].at <= q /\ q < c + 1 /\ c + 1 <= new[k].close
             /\ p[new[k].at].op # "if" => q = new[k].at
  <2>1. CASE k = n + 1
    <3>1. c <= c /\ c < c + 1 /\ c + 1 <= p[c].match
      BY <1>4, Brackets
    <3> QED
      BY <1>1, <1>2, <1>3, <1>4, <2>1, <3>1
  <2>2. CASE k \in DOMAIN open
    <3>1. Opener(p, open[k]) < c + 1
      <4>1. Opener(p, open[k]) \in DOMAIN p
        BY <2>2 DEF Nested
      <4> QED
        BY <1>5, <2>2, <4>1, Brackets
    <3> QED
      BY <1>1, <1>5, <2>2, <3>1 DEF Nested
  <2> QED
    BY <1>1, <2>1, <2>2
<1>7. ASSUME NEW j \in DOMAIN new, NEW k \in DOMAIN new, j < k
      PROVE  Opener(p, new[j]) < new[k].at
  <2>1. j \in DOMAIN open
    BY <1>1, <1>7
  <2> QED
    BY <1>1, <1>5, <1>7, <2>1 DEF Nested
<1>8. ASSUME NEW q \in DOMAIN p, Opens(p[q]), q < c + 1, c + 1 <= p[q].match
      PROVE  \E k \in DOMAIN new : Opener(p, new[k]) = q
  <2>1. q = c \/ (q < c /\ c <= p[q].match)
    BY <1>8, Brackets
  <2> QED
    BY <1>1, <1>3, <1>8, <2>1 DEF Nested
<1> QED
  BY <1>6, <1>7, <1>8 DEF Nested, new


\* Frames around another one close after it.
LEMMA OuterCloses ==
  ASSUME NEW p \in Programs, NEW open \in Seq(Frame), NEW c \in Nat, Nested(p, open, c),
         NEW k \in DOMAIN open, k # Len(open)
  PROVE  /\ Len(open) \in DOMAIN open /\ k < Len(open)
         /\ open[Len(open)].close < open[k].close
<1> DEFINE n == Len(open)
<1>1. n \in DOMAIN open /\ k \in DOMAIN open /\ k < n
  BY LenProperties
<1> DEFINE q == Opener(p, open[k])
           r == Opener(p, open[n])
<1>2. /\ q \in DOMAIN p /\ Opens(p[q]) /\ p[q].match = open[k].close
      /\ r \in DOMAIN p /\ Opens(p[r]) /\ p[r].match = open[n].close
      /\ open[n].at \in DOMAIN p /\ open[n].at <= r /\ q < open[n].at /\ r < c
      /\ c <= open[k].close
  BY <1>1 DEF Nested
<1> HIDE DEF q, r, n
<1>3. q < r /\ r < p[q].match
  <2>1. DOMAIN p \subseteq Nat /\ p[q].match \in Nat
    BY <1>2, Brackets
  <2>2. q \in Nat /\ r \in Nat /\ open[n].at \in Nat
    BY <1>2, <2>1
  <2>3. q < r
    BY <1>2, <2>2
  <2>4. r < p[q].match
    BY <1>2, <2>1, <2>2
  <2> QED
    BY <2>3, <2>4
<1> QED
  BY <1>1, <1>2, <1>3, Brackets DEF n


LEMMA NestedEnd ==
  ASSUME NEW p \in Programs, NEW open \in Seq(Frame), NEW c \in DOMAIN p, Nested(p, open, c),
         p[c].op = "end"
  PROVE  Nested(p, SubSeq(open, 1, Len(open) - 1), c + 1)
<1> DEFINE new == SubSeq(open, 1, Len(open) - 1)
           n == Len(open)
<1>1. n \in DOMAIN open /\ open[n].close = c /\ Closes(p[c]) /\ ~ Opens(p[c]) /\ c \in Nat
  BY ClosesInnermost, Brackets DEF Closes, Opens
<1>2. DOMAIN new = DOMAIN open \ {n} /\ \A k \in DOMAIN new : new[k] = open[k]
  BY <1>1, Dropped
<1> HIDE DEF new
<1>3. ASSUME NEW k \in DOMAIN new
      PROVE  Opener(p, open[k]) < c + 1 /\ c + 1 <= open[k].close
  <2> DEFINE q == Opener(p, open[k])
  <2>1. q \in DOMAIN p /\ q < c /\ p[q].match = open[k].close
    BY <1>2 DEF Nested
  <2>2. c < open[k].close
    BY <1>1, <1>2, OuterCloses
  <2> HIDE DEF q
  <2>3. q < c + 1 /\ c + 1 <= open[k].close
    BY <1>1, <2>1, <2>2, Brackets
  <2> QED
    BY <2>3 DEF q
<1>4. ASSUME NEW q \in DOMAIN p, Opens(p[q]), q < c + 1, c + 1 <= p[q].match
      PROVE  \E k \in DOMAIN new : Opener(p, new[k]) = q
  <2>1. q < c /\ c <= p[q].match /\ p[q].match # c
    BY <1>1, <1>4, Brackets
  <2>2. PICK k \in DOMAIN open : Opener(p, open[k]) = q
    BY <1>4, <2>1 DEF Nested
  <2>3. k # n
    BY <1>1, <2>1, <2>2 DEF Nested
  <2> QED
    BY <1>2, <2>2, <2>3
<1> QED
  BY <1>2, <1>3, <1>4 DEF Nested, new

LEMMA NestedElse ==
  ASSUME NEW p \in Programs, NEW open \in Seq(Frame), NEW c \in DOMAIN p, Nested(p, open, c),
         p[c].op = "else", NEW frame \in Frame,
         frame.at = open[Len(open)].at, frame.close = p[c].match
  PROVE  Nested(p, Append(SubSeq(open, 1, Len(open) - 1), frame), c + 1)
<1> DEFINE new == Append(SubSeq(open, 1, Len(open) - 1), frame)
           n == Len(open)
<1>1. /\ n \in DOMAIN open /\ open[n].close = c /\ Closes(p[c]) /\ Opens(p[c]) /\ c \in Nat
      /\ p[open[n].at].op = "if" /\ p[open[n].at].match = c
  BY ClosesInnermost, Brackets DEF Closes, Opens
<1>2. /\ DOMAIN new = DOMAIN open /\ new[n] = frame
      /\ \A k \in DOMAIN open : k # n => new[k] = open[k]
  <2>1. Len(open) \in DOMAIN open
    BY <1>1
  <2> QED
    BY <2>1, Replaced
<1> HIDE DEF new
<1>3. c < p[c].match /\ p[c].match \in DOMAIN p
  BY <1>1, Brackets
<1>4. Opener(p, frame) = c
  BY <1>1, <1>3, Brackets DEF Opener
<1>5. ASSUME NEW k \in DOMAIN open, k # n
      PROVE  Opener(p, open[k]) < c + 1 /\ c + 1 <= open[k].close
  <2> DEFINE q == Opener(p, open[k])
  <2>1. q \in DOMAIN p /\ q < c /\ p[q].match = open[k].close
    BY DEF Nested
  <2>2. c < open[k].close
    BY <1>1, <1>5, OuterCloses
  <2> HIDE DEF q
  <2>3. q < c + 1 /\ c + 1 <= open[k].close
    BY <1>1, <2>1, <2>2, Brackets
  <2> QED
    BY <2>3 DEF q
<1>6. open[n].at \in DOMAIN p /\ open[n].at < c /\ Opener(p, open[n]) = open[n].at
  BY <1>1, Brackets DEF Nested, Opener
<1>7. ASSUME NEW k \in DOMAIN new
      PROVE  LET q == Opener(p, new[k]) IN
             /\ new[k].at \in DOMAIN p /\ p[new[k].at].op \in {"block", "loop", "if"}
             /\ q \in DOMAIN p /\ Opens(p[q]) /\ p[q].match = new[k].close
             /\ new[k].at <= q /\ q < c + 1 /\ c + 1 <= new[k].close
             /\ p[new[k].at].op # "if" => q = new[k].at
  <2>1. CASE k = n
    <3>1. c < c + 1 /\ c + 1 <= p[c].match /\ open[n].at <= c
      BY <1>1, <1>3, <1>6, Brackets
    <3> QED
      BY <1>1, <1>2, <1>3, <1>4, <1>6, <2>1, <3>1
  <2>2. CASE k # n
    BY <1>2, <1>5, <2>2 DEF Nested
  <2> QED
    BY <2>1, <2>2
<1>8. ASSUME NEW j \in DOMAIN new, NEW k \in DOMAIN new, j < k
      PROVE  Opener(p, new[j]) < new[k].at
  <2>1. j # n
    BY <1>2, <1>8, LenProperties
  <2> QED
    BY <1>2, <1>8, <2>1 DEF Nested
<1>9. ASSUME NEW q \in DOMAIN p, Opens(p[q]), q < c + 1, c + 1 <= p[q].match
      PROVE  \E k \in DOMAIN new : Opener(p, new[k]) = q
  <2>1. CASE q = c
    BY <1>1, <1>2, <1>4, <2>1
  <2>2. CASE q # c
    <3>1. q < c /\ c <= p[q].match /\ p[q].match # c
      BY <1>1, <1>9, <2>2, Brackets
    <3>2. PICK k \in DOMAIN open : Opener(p, open[k]) = q
      BY <1>9, <3>1 DEF Nested
    <3>3. k # n
      BY <1>1, <1>6, <3>1, <3>2
    <3> QED
      BY <1>2, <3>2, <3>3
  <2> QED
    BY <2>1, <2>2
<1> QED
  BY <1>7, <1>8, <1>9 DEF Nested, new

\* The rest of the innermost bracket is skipped, or the rest of the function.
LEMMA NestedSkip ==
  ASSUME NEW p \in Programs, NEW open \in Seq(Frame), NEW c \in DOMAIN p, Nested(p, open, c)
  PROVE  /\ open = <<>> => Nested(p, open, Len(p) + 1)
         /\ open # <<>> => /\ Len(open) \in DOMAIN open /\ open[Len(open)].close \in DOMAIN p
                           /\ c <= open[Len(open)].close
                           /\ Nested(p, open, open[Len(open)].close)
<1> DEFINE n == Len(open)
<1>1. CASE open = <<>>
  <2>1. DOMAIN open = {}
    BY <1>1
  <2>2. \A q \in DOMAIN p : Opens(p[q]) => ~ (Len(p) + 1 <= p[q].match)
    BY Brackets
  <2> QED
    BY <1>1, <2>1, <2>2 DEF Nested
<1>2. CASE open # <<>>
  <2> DEFINE r == Opener(p, open[n])
             d == open[n].close
  <2>1. n \in DOMAIN open
    <3>1. n \in Nat /\ DOMAIN open = 1 .. n /\ n # 0
      BY <1>2, LenProperties, EmptySeq
    <3> QED
      BY <3>1
  <2>2. r \in DOMAIN p /\ Opens(p[r]) /\ p[r].match = d /\ r < c /\ c <= d
    BY <2>1 DEF Nested
  <2> HIDE DEF r, d, n
  <2>3. d \in DOMAIN p /\ r < d /\ d \in Nat /\ c \in Nat /\ r \in Nat
    BY <2>2, Brackets
  <2>4. ASSUME NEW k \in DOMAIN open
        PROVE  Opener(p, open[k]) < d /\ d <= open[k].close
    <3> DEFINE q == Opener(p, open[k])
    <3>1. q \in DOMAIN p /\ q < c /\ p[q].match = open[k].close
      BY DEF Nested
    <3>2. d <= open[k].close
      <4>1. CASE k = n
        BY <2>3, <4>1 DEF d
      <4>2. CASE k # n
        <5>1. d < open[k].close
          BY <2>3, <4>2, OuterCloses DEF d, n
        <5> QED
          BY <2>3, <3>1, <5>1, Brackets
      <4> QED
        BY <4>1, <4>2
    <3> HIDE DEF q
    <3>3. q < d
      BY <2>2, <2>3, <3>1, Brackets
    <3> QED
      BY <3>2, <3>3 DEF q
  <2>5. ASSUME NEW q \in DOMAIN p, Opens(p[q]), q < d, d <= p[q].match
        PROVE  \E k \in DOMAIN open : Opener(p, open[k]) = q
    <3>1. ~ (r < q)
      BY <2>2, <2>3, <2>5, Brackets
    <3>2. q < c /\ c <= p[q].match
      BY <2>2, <2>3, <2>5, <3>1, Brackets
    <3> QED
      BY <2>5, <3>2 DEF Nested
  <2>6. Nested(p, open, d)
    BY <2>4, <2>5 DEF Nested
  <2> QED
    BY <1>2, <2>1, <2>2, <2>3, <2>6 DEF d, n
<1> QED
  BY <1>1, <1>2

\* A loop is walked again.
LEMMA NestedRepeat ==
  ASSUME NEW p \in Programs, NEW open \in Seq(Frame), NEW c \in DOMAIN p, Nested(p, open, c),
         p[c].op = "end", p[open[Len(open)].at].op = "loop", NEW frame \in Frame,
         frame.at = open[Len(open)].at, frame.close = open[Len(open)].close
  PROVE  Nested(p, Append(SubSeq(open, 1, Len(open) - 1), frame), frame.at + 1)
<1> DEFINE new == Append(SubSeq(open, 1, Len(open) - 1), frame)
           n == Len(open)
           d == frame.at
<1>1. n \in DOMAIN open /\ open[n].close = c /\ Closes(p[c]) /\ c \in Nat
  BY ClosesInnermost, Brackets DEF Closes
<1>2. /\ DOMAIN new = DOMAIN open /\ new[n] = frame
      /\ \A k \in DOMAIN open : k # n => new[k] = open[k]
  <2>1. Len(open) \in DOMAIN open
    BY <1>1
  <2> QED
    BY <2>1, Replaced
<1> HIDE DEF new
<1>3. /\ d \in DOMAIN p /\ Opens(p[d]) /\ p[d].match = c /\ d < c
      /\ Opener(p, frame) = d /\ Opener(p, open[n]) = d
  BY <1>1 DEF Nested, Opener
<1>4. d \in Nat /\ d + 1 <= c
  BY <1>1, <1>3, Brackets
<1>5. ASSUME NEW k \in DOMAIN open, k # n
      PROVE  Opener(p, open[k]) < d + 1 /\ d + 1 <= open[k].close
  <2> DEFINE q == Opener(p, open[k])
  <2>1. q \in DOMAIN p /\ q < d /\ p[q].match = open[k].close
    <3>1. k < n
      BY <1>1, <1>5, OuterCloses
    <3> QED
      BY <1>1, <3>1 DEF Nested
  <2>2. c < open[k].close
    BY <1>1, <1>5, OuterCloses
  <2> HIDE DEF q
  <2>3. q < d + 1 /\ d + 1 <= open[k].close
    BY <1>1, <1>4, <2>1, <2>2, Brackets
  <2> QED
    BY <2>3 DEF q
<1>6. ASSUME NEW k \in DOMAIN new
      PROVE  LET q == Opener(p, new[k]) IN
             /\ new[k].at \in DOMAIN p /\ p[new[k].at].op \in {"block", "loop", "if"}
             /\ q \in DOMAIN p /\ Opens(p[q]) /\ p[q].match = new[k].close
             /\ new[k].at <= q /\ q < d + 1 /\ d + 1 <= new[k].close
             /\ p[new[k].at].op # "if" => q = new[k].at
  <2>1. CASE k = n
    BY <1>1, <1>2, <1>3, <1>4, <2>1
  <2>2. CASE k # n
    BY <1>2, <1>5, <2>2 DEF Nested
  <2> QED
    BY <2>1, <2>2
<1>7. ASSUME NEW j \in DOMAIN new, NEW k \in DOMAIN new, j < k
      PROVE  Opener(p, new[j]) < new[k].at
  <2>1. j # n
    BY <1>2, <1>7, LenProperties
  <2> QED
    BY <1>2, <1>7, <2>1 DEF Nested
<1>8. ASSUME NEW q \in DOMAIN p, Opens(p[q]), q < d + 1, d + 1 <= p[q].match
      PROVE  \E k \in DOMAIN new : Opener(p, new[k]) = q
  <2>1. CASE q = d
    BY <1>1, <1>2, <1>3, <2>1
  <2>2. CASE q # d
    <3>1. q < d /\ d < p[q].match
      BY <1>4, <1>8, <2>2, Brackets
    <3>2. c < p[q].match
      BY <1>3, <1>8, <3>1, Brackets
    <3>3. q < c /\ c <= p[q].match
      BY <1>1, <1>3, <1>4, <3>1, <3>2, Brackets
    <3>4. PICK k \in DOMAIN open : Opener(p, open[k]) = q
      BY <1>8, <3>3 DEF Nested
    <3>5. k # n
      BY <1>3, <2>2, <3>4
    <3> QED
      BY <1>2, <3>4, <3>5
  <2> QED
    BY <2>1, <2>2
<1> QED
  BY <1>6, <1>7, <1>8 DEF Nested, new


-----------------------------------------------------------------------------
(* Edges.                                                                  *)

LEMMA NamedOpen ==
  ASSUME NEW p \in Programs, NEW i \in DOMAIN p, NEW t \in Named(p[i])
  PROVE  /\ t \in DOMAIN p /\ t < i /\ i < p[t].match
         /\ p[t].op \in {"block", "loop"} /\ Opens(p[t])
<1>1. t \in 1 .. i - 1 /\ p[t].op \in {"block", "loop"} /\ i < p[t].match
  BY ProgramAssumption
<1> QED
  BY <1>1, Brackets DEF Opens

LEMMA SuccessorKinds ==
  ASSUME NEW p \in Programs, NEW i \in DOMAIN p, NEW j \in Successors(p, i)
  PROVE  \/ j = i + 1 \/ j = Len(p) + 1
         \/ Opens(p[i]) /\ j = p[i].match + 1
         \/ \E t \in Named(p[i]) : j = Target(p, t)
<1>1. CASE p[i].op \in {"if", "else", "return"}
  BY <1>1 DEF Successors, Opens
<1>2. CASE p[i].op \in {"br", "br_if", "br_table"}
  BY <1>2 DEF Successors, Named
<1>3. CASE p[i].op \notin {"if", "else", "return", "br", "br_if", "br_table"}
  BY <1>3 DEF Successors
<1> QED
  BY <1>1, <1>2, <1>3

\* Control enters a loop at its top only.
LEMMA LoopsEntered ==
  ASSUME NEW p \in Programs, NEW h \in DOMAIN p, p[h].op = "loop",
         NEW i \in DOMAIN p, i <= h, NEW j \in Successors(p, i) \cap DOMAIN p,
         h < j, j <= p[h].match
  PROVE  i = h /\ j = h + 1
<1>1. Opens(p[h]) /\ ~ Closes(p[h])
  BY DEF Opens, Closes
<1>2. /\ h \in Nat /\ i \in Nat /\ j \in Nat /\ p[h].match \in DOMAIN p /\ p[h].match \in Nat
      /\ Closes(p[p[h].match])
  BY <1>1, Brackets
<1>3. CASE j = i + 1
  BY <1>2, <1>3
<1>4. j # Len(p) + 1
  BY Brackets
<1>5. ASSUME NEW q \in DOMAIN p, q <= h, Opens(p[q]), j = p[q].match + 1
      PROVE  FALSE
  <2>1. p[q].match \in DOMAIN p /\ p[q].match \in Nat /\ Closes(p[p[q].match])
    BY <1>5, Brackets
  <2>2. h <= p[q].match /\ p[q].match # h
    BY <1>1, <1>2, <1>5, <2>1
  <2>3. q # h
    BY <1>2, <1>5, <2>1
  <2>4. q < h /\ h < p[q].match
    BY <1>2, <1>5, <2>1, <2>2, <2>3, Brackets
  <2>5. p[h].match < p[q].match
    BY <1>1, <1>5, <2>4, Brackets
  <2> QED
    BY <1>2, <1>5, <2>1, <2>5
<1>6. ASSUME NEW t \in Named(p[i]), j = Target(p, t)
      PROVE  FALSE
  <2>1. t \in DOMAIN p /\ t < i /\ p[t].op \in {"block", "loop"} /\ Opens(p[t])
    BY NamedOpen
  <2>2. t \in Nat /\ t <= h
    BY <1>2, <2>1, Brackets
  <2>3. CASE p[t].op = "loop"
    BY <1>2, <1>6, <2>1, <2>2, <2>3 DEF Target
  <2>4. CASE p[t].op = "block"
    BY <1>5, <1>6, <2>1, <2>2, <2>4 DEF Target
  <2> QED
    BY <2>1, <2>3, <2>4
<1> QED
  BY <1>3, <1>4, <1>5, <1>6, SuccessorKinds

-----------------------------------------------------------------------------
(* What the analysis has solved so far.                                    *)

\* Facts after an instruction that finds facts f.
Transfer(i, f) ==
  IF i.op = "set"
  THEN LET fact == ResultOf(i, FactOf(f, i.left), FactOf(f, i.right))
       IN [f EXCEPT ![i.to] = fact, ![result] = fact]
  ELSE f

\* What an open bracket keeps for instruction j.
Waiting(p, frame, j) ==
  IF p[frame.at].op = "block" THEN (IF j = frame.close + 1 THEN frame.incoming ELSE {})
  ELSE IF p[frame.at].op = "loop" THEN (IF j = frame.at + 1 THEN frame.incoming ELSE {})
  ELSE IF j # frame.close + 1 THEN {}
  ELSE IF p[frame.at].match = frame.close THEN {frame.entry} ELSE frame.arm

\* Facts out that reach instruction j are accounted for: j was walked with no
\* better ones, the walk is at j with no better ones, or they are waiting.
Meets(F, j, out) ==
  \/ j \in DOMAIN F /\ Below(F[j], out)
  \/ j = pc /\ reachable /\ Below(cur, out)
  \/ \E k \in DOMAIN frames : \E g \in Waiting(program, frames[k], j) : Below(g, out)

\* A loop is walked with the facts of its header.
Anchored(F, frame) ==
  /\ frame.at \in DOMAIN F /\ F[frame.at] = frame.entry
  /\ program[frame.at].op = "loop" =>
       /\ Below(frame.header, frame.entry)
       /\ IF pc = frame.at + 1 THEN reachable /\ cur = frame.header
          ELSE frame.at + 1 \in DOMAIN F /\ F[frame.at + 1] = frame.header

\* F is what the last walk found at the instructions it walked.
Solution(F) ==
  /\ F \in [DOMAIN F -> Facts] /\ DOMAIN F \subseteq DOMAIN program
  /\ \A i \in DOMAIN F :
       /\ i < pc
       /\ ~ Closes(program[i]) => i \in DOMAIN recorded /\ recorded[i] = F[i]
       /\ \A j \in Successors(program, i) \cap DOMAIN program :
            Meets(F, j, Transfer(program[i], F[i]))
  /\ IF pc = 1 THEN reachable /\ cur = EntryFacts ELSE 1 \in DOMAIN F /\ F[1] = EntryFacts
  /\ \A k \in DOMAIN frames : Anchored(F, frames[k])

LEMMA TransferTypes ==
  ASSUME NEW i \in Instruction, NEW f \in Facts
  PROVE  Transfer(i, f) \in Facts
<1>1. ASSUME NEW o \in Operand
      PROVE  FactOf(f, o) \in Fact
  BY DEF FactOf, WordAlignment, Operand, Facts, Fact
<1>2. ResultOf(i, FactOf(f, i.left), FactOf(f, i.right)) \in Fact
  <2>1. i.left \in Operand /\ i.right \in Operand
    BY DEF Instruction
  <2> QED
    BY <1>1, <2>1, ResultTypes
<1> QED
  BY <1>2 DEF Transfer, Facts

LEMMA WaitingTypes ==
  ASSUME NEW p, NEW frame \in Frame, NEW j
  PROVE  Waiting(p, frame, j) \subseteq Facts
  BY DEF Waiting, Frame

\* Facts that meet better facts are met.
LEMMA MeetsChain ==
  ASSUME NEW F, F \in [DOMAIN F -> Facts], NEW j, NEW g \in Facts, NEW out \in Facts,
         Below(g, out), cur' \in Facts, frames' \in Seq(Frame), Meets(F, j, g)'
  PROVE  Meets(F, j, out)'
<1>1. CASE j \in DOMAIN F /\ Below(F[j], g)
  BY <1>1, BelowChain DEF Meets
<1>2. CASE j = pc' /\ reachable' /\ Below(cur', g)
  <2>1. Below(cur', out)
    BY <1>2, BelowChain
  <2> QED
    BY <1>2, <2>1 DEF Meets
<1>3. ASSUME NEW k \in DOMAIN frames', NEW h \in Waiting(program', frames'[k], j), Below(h, g)
      PROVE  Meets(F, j, out)'
  <2>1. frames'[k] \in Frame
    BY LenProperties, ElementOfSeq
  <2>2. h \in Facts
    BY <2>1, WaitingTypes
  <2>3. Below(h, out)
    BY <1>3, <2>2, BelowChain
  <2> QED
    BY <1>3, <2>3 DEF Meets
<1> QED
  BY <1>1, <1>2, <1>3 DEF Meets

\* Instruction pc is behind the walk now.
Extended(F) == IF reachable THEN [i \in DOMAIN F \cup {pc} |-> IF i = pc THEN cur ELSE F[i]] ELSE F

LEMMA ExtendedBy ==
  ASSUME program \in Programs, pc \in DOMAIN program, cur \in Facts, NEW F, Solution(F)
  PROVE  /\ Extended(F) \in [DOMAIN Extended(F) -> Facts]
         /\ DOMAIN Extended(F) \subseteq DOMAIN program
         /\ \A i \in DOMAIN F : i # pc /\ i \in DOMAIN Extended(F) /\ Extended(F)[i] = F[i]
         /\ \A i \in DOMAIN Extended(F) : i # pc => i \in DOMAIN F
         /\ pc \in DOMAIN Extended(F) => reachable
         /\ reachable => pc \in DOMAIN Extended(F) /\ Extended(F)[pc] = cur
<1>1. \A i \in DOMAIN F : i \in DOMAIN program /\ i < pc /\ i # pc
  BY Brackets DEF Solution
<1>2. F \in [DOMAIN F -> Facts] /\ pc \notin DOMAIN F
  BY <1>1 DEF Solution
<1> QED
  BY <1>1, <1>2 DEF Extended

\* A frame whose loop is not walked again stays anchored.
LEMMA AnchoredOn ==
  ASSUME program \in Programs, pc \in DOMAIN program, pc' \in Nat, pc < pc', cur \in Facts,
         UNCHANGED program,
         NEW F, Solution(F), NEW G, G = Extended(F),
         NEW frame, Anchored(F, frame), frame.at < pc, frame.at \in DOMAIN program,
         NEW new, new.at = frame.at, new.entry = frame.entry, new.header = frame.header
  PROVE  Anchored(G, new)'
<1>1. frame.at \in Nat /\ pc \in Nat
  BY Brackets
<1>2. pc' # frame.at + 1 /\ frame.at # pc
  BY <1>1
<1>3. /\ \A i \in DOMAIN F : i # pc /\ i \in DOMAIN G /\ G[i] = F[i]
      /\ reachable => pc \in DOMAIN G /\ G[pc] = cur
  BY ExtendedBy
<1>4. frame.at \in DOMAIN G /\ G[frame.at] = frame.entry
  BY <1>3 DEF Anchored
<1>5. ASSUME program[frame.at].op = "loop"
      PROVE  /\ Below(frame.header, frame.entry)
             /\ frame.at + 1 \in DOMAIN G /\ G[frame.at + 1] = frame.header
  BY <1>3, <1>5 DEF Anchored
<1> QED
  BY <1>2, <1>4, <1>5 DEF Anchored

\* The walk goes past instruction pc.
LEMMA Walked ==
  ASSUME program \in Programs, pc \in DOMAIN program, pc' \in Nat, pc < pc',
         cur \in Facts, cur' \in Facts, frames \in Seq(Frame), frames' \in Seq(Frame),
         UNCHANGED program,
         reachable /\ ~ Closes(Here) => Record,
         ~ reachable \/ Closes(Here) => UNCHANGED recorded,
         NEW F, Solution(F), NEW G, G = Extended(F),
         \A k \in DOMAIN frames : \A j \in DOMAIN program :
           \A g \in Waiting(program, frames[k], j) : Meets(G, j, g)',
         reachable =>
           \A out : out = Transfer(Here, cur) =>
             \A j \in Successors(program, pc) \cap DOMAIN program : Meets(G, j, out)',
         \A k \in DOMAIN frames' : \A frame : frame = frames'[k] => Anchored(G, frame)'
  PROVE  Solution(G)'
<1>1. /\ G \in [DOMAIN G -> Facts] /\ DOMAIN G \subseteq DOMAIN program
      /\ \A i \in DOMAIN F : i # pc /\ i \in DOMAIN G /\ G[i] = F[i]
      /\ \A i \in DOMAIN G : i # pc => i \in DOMAIN F
      /\ pc \in DOMAIN G => reachable
      /\ reachable => pc \in DOMAIN G /\ G[pc] = cur
  BY ExtendedBy
<1>2. DOMAIN program \subseteq Nat /\ \A i \in DOMAIN program : program[i] \in Instruction
  BY Brackets
<1>3. ASSUME NEW i \in DOMAIN G
      PROVE  i < pc'
  <2>1. i = pc \/ i < pc
    BY <1>1 DEF Solution
  <2> QED
    BY <1>1, <1>2, <2>1
<1>4. ASSUME NEW i \in DOMAIN G, ~ Closes(program[i])
      PROVE  i \in DOMAIN recorded' /\ recorded'[i] = G[i]
  <2>1. CASE i = pc
    <3>1. reachable /\ G[i] = cur /\ Record
      BY <1>1, <1>4, <2>1 DEF Here
    <3> QED
      BY <2>1, <3>1 DEF Record
  <2>2. CASE i # pc
    <3>1. i \in DOMAIN recorded /\ recorded[i] = G[i]
      BY <1>1, <1>4, <2>2 DEF Solution
    <3>2. Record \/ UNCHANGED recorded
      OBVIOUS
    <3> QED
      BY <2>2, <3>1, <3>2 DEF Record
  <2> QED
    BY <2>1, <2>2
<1>5. ASSUME NEW i \in DOMAIN G, NEW j \in Successors(program, i) \cap DOMAIN program,
             NEW out, out = Transfer(program[i], G[i])
      PROVE  Meets(G, j, out)'
  <2>1. CASE i = pc
    BY <1>1, <1>5, <2>1 DEF Here
  <2>2. CASE i # pc
    <3>1. i \in DOMAIN F /\ G[i] = F[i] /\ i \in DOMAIN program
      BY <1>1, <2>2
    <3>2. out \in Facts
      BY <1>1, <1>2, <1>5, <3>1, TransferTypes
    <3>3. Meets(F, j, out)
      BY <1>5, <3>1 DEF Solution
    <3>4. CASE j \in DOMAIN F /\ Below(F[j], out)
      BY <1>1, <3>4 DEF Meets
    <3>5. CASE j = pc /\ reachable /\ Below(cur, out)
      BY <1>1, <3>5 DEF Meets
    <3>6. ASSUME NEW k \in DOMAIN frames, NEW g \in Waiting(program, frames[k], j), Below(g, out)
          PROVE  Meets(G, j, out)'
      <4>1. Meets(G, j, g)'
        OBVIOUS
      <4>2. g \in Facts
        BY LenProperties, ElementOfSeq, WaitingTypes
      <4> QED
        BY <1>1, <3>2, <3>6, <4>1, <4>2, MeetsChain
    <3> QED
      BY <3>3, <3>4, <3>5, <3>6 DEF Meets
  <2> QED
    BY <2>1, <2>2
<1>6. pc' # 1 /\ 1 \in DOMAIN G /\ G[1] = EntryFacts
  <2>1. pc \in Nat /\ 1 <= pc
    BY Brackets
  <2>2. CASE pc = 1
    BY <1>1, <2>1, <2>2 DEF Solution
  <2>3. CASE pc # 1
    BY <1>1, <2>1, <2>3 DEF Solution
  <2> QED
    BY <2>1, <2>2, <2>3
<1>7. EntryFacts' = EntryFacts
  BY DEF EntryFacts
<1>8. \A k \in DOMAIN frames' : Anchored(G, frames[k])'
  BY DEF Anchored
<1>9. \A i \in DOMAIN G : \A j \in Successors(program, i) \cap DOMAIN program :
        Meets(G, j, Transfer(program[i], G[i]))'
  BY <1>5 DEF Meets
<1> QED
  BY <1>1, <1>3, <1>4, <1>6, <1>7, <1>8, <1>9 DEF Solution

-----------------------------------------------------------------------------
(* The types of the state, and the brackets that are open.                 *)

Shape ==
  /\ program \in Programs
  /\ mode \in {"analyse", "run", "done"} /\ pc \in 1 .. Len(program) + 1
  /\ cur \in Facts /\ reachable \in BOOLEAN
  /\ frames \in Seq(Frame)
  /\ DOMAIN recorded \subseteq DOMAIN program /\ \A i \in DOMAIN recorded : recorded[i] \in Facts
  /\ values \in [Place -> Word]
  /\ mode = "analyse" => Nested(program, frames, pc)

LEMMA Enclosing ==
  ASSUME Shape, mode = "analyse", NEW k \in DOMAIN frames
  PROVE  /\ frames[k] \in Frame /\ frames[k].at \in DOMAIN program
         /\ frames[k].at < pc /\ pc <= frames[k].close /\ frames[k].close \in DOMAIN program
<1>1. frames[k] \in Frame
  BY LenProperties, ElementOfSeq DEF Shape
<1> DEFINE q == Opener(program, frames[k])
<1>2. /\ frames[k].at \in DOMAIN program /\ frames[k].at <= q /\ q < pc /\ pc <= frames[k].close
      /\ q \in DOMAIN program /\ Opens(program[q]) /\ program[q].match = frames[k].close
  BY DEF Shape, Nested
<1> HIDE DEF q
<1>3. frames[k].at \in Nat /\ q \in Nat /\ pc \in Nat /\ frames[k].close \in DOMAIN program
  BY <1>2, Brackets DEF Shape
<1> QED
  BY <1>1, <1>2, <1>3

\* Here is an instruction, and pc can go past it.
LEMMA Present ==
  ASSUME Shape, pc \in DOMAIN program
  PROVE  /\ Here \in Instruction /\ pc \in Nat /\ pc + 1 \in 1 .. Len(program) + 1
         /\ Here.match \in Nat /\ Here.to \in Place /\ Here.left \in Operand /\ Here.right \in Operand
<1>1. Len(program) \in Nat /\ DOMAIN program = 1 .. Len(program) /\ Here \in Instruction
  BY Brackets DEF Shape, Here
<1> QED
  BY <1>1 DEF Instruction

\* A closing bracket has the innermost frame to close.
LEMMA Closing ==
  ASSUME Shape, mode = "analyse", pc \in DOMAIN program, Closes(Here)
  PROVE  /\ Len(frames) \in DOMAIN frames /\ Innermost \in Frame /\ Innermost.close = pc
         /\ Innermost.at \in DOMAIN program /\ Innermost.at < pc
         /\ Innermost.entry \in Facts /\ Innermost.header \in Facts
         /\ Innermost.incoming \subseteq Facts /\ Innermost.arm \subseteq Facts
         /\ Here.op = "else" =>
              program[Innermost.at].op = "if" /\ program[Innermost.at].match = pc
         /\ Outer \in Seq(Frame) /\ DOMAIN Outer = DOMAIN frames \ {Len(frames)}
         /\ \A k \in DOMAIN Outer : Outer[k] = frames[k]
<1>1. /\ Len(frames) \in DOMAIN frames /\ Innermost.close = pc
      /\ Here.op = "else" =>
           program[Innermost.at].op = "if" /\ program[Innermost.at].match = pc
  BY ClosesInnermost DEF Shape, Here, Innermost
<1>2. Innermost \in Frame /\ Innermost.at \in DOMAIN program /\ Innermost.at < pc
  BY <1>1, Enclosing DEF Innermost
<1>3. /\ Outer \in Seq(Frame) /\ DOMAIN Outer = DOMAIN frames \ {Len(frames)}
      /\ \A k \in DOMAIN Outer : Outer[k] = frames[k]
  BY <1>1, Dropped DEF Shape, Outer
<1> QED
  BY <1>1, <1>2, <1>3 DEF Frame

LEMMA RecordTypes ==
  ASSUME Shape, pc \in DOMAIN program, Record \/ UNCHANGED recorded, UNCHANGED program
  PROVE  /\ DOMAIN recorded' \subseteq DOMAIN program'
         /\ \A i \in DOMAIN recorded' : recorded'[i] \in Facts
  BY DEF Shape, Record

LEMMA ShapeStart ==
  ASSUME Init
  PROVE  Shape
<1>1. EntryFacts \in Facts /\ 0 \in Word
  BY WordSize DEF EntryFacts, Facts, Fact, Word
<1>2. Len(program) \in Nat /\ 1 \in 1 .. Len(program) + 1
  BY Brackets DEF Init
<1>3. DOMAIN frames = {} /\ DOMAIN recorded = {} /\ frames \in Seq(Frame)
  BY EmptySeq DEF Init
<1>4. Nested(program, frames, 1)
  <2>1. \A q \in DOMAIN program : ~ (q < 1)
    BY Brackets DEF Init
  <2> QED
    BY <1>3, <2>1 DEF Nested
<1> QED
  BY <1>1, <1>2, <1>3, <1>4 DEF Init, Shape

LEMMA ShapeSkip ==
  ASSUME Shape, Skip
  PROVE  Shape'
<1>1. ~ Closes(Here) /\ pc \in DOMAIN program /\ mode = "analyse"
  BY DEF Skip, Closes
<1>2. Nested(program, frames, pc')
  BY <1>1, NestedSkip DEF Skip, Shape, Innermost
<1>3. pc' \in 1 .. Len(program) + 1
  <2>1. Len(program) \in Nat /\ DOMAIN program = 1 .. Len(program)
    BY Brackets DEF Shape
  <2>2. frames # <<>> => Innermost.close \in DOMAIN program
    BY <1>1, NestedSkip DEF Shape, Innermost
  <2> QED
    BY <2>1, <2>2 DEF Skip
<1> QED
  BY <1>1, <1>2, <1>3 DEF Skip, Shape

LEMMA ShapeSet ==
  ASSUME Shape, AnalyseSet
  PROVE  Shape'
<1>1. /\ pc \in DOMAIN program /\ mode = "analyse" /\ Here.op = "set"
      /\ pc' = pc + 1 /\ cur' = Transfer(Here, cur) /\ reachable' = TRUE
      /\ UNCHANGED <<program, mode, values, frames>> /\ Record
  BY DEF AnalyseSet, Walks, Continue, Transfer
<1>2. Nested(program, frames, pc + 1)
  BY <1>1, NestedPlain DEF Shape, Here, Opens, Closes
<1>3. cur' \in Facts
  BY <1>1, Present, TransferTypes DEF Shape
<1> QED
  BY <1>1, <1>2, <1>3, Present, RecordTypes DEF Shape

\* What a branch to the bracket of a frame changes in it.
LEMMA Received ==
  ASSUME NEW frame \in Frame, NEW facts \in Facts
  PROVE  LET new == [frame EXCEPT !.incoming = @ \cup {facts}] IN
         /\ new \in Frame /\ new.at = frame.at /\ new.close = frame.close
         /\ new.entry = frame.entry /\ new.header = frame.header /\ new.arm = frame.arm
         /\ new.incoming = frame.incoming \cup {facts}
  BY DEF Frame

LEMMA ShapeBranch ==
  ASSUME Shape, AnalyseBranch
  PROVE  /\ Shape'
         /\ DOMAIN frames' = DOMAIN frames
         /\ \A k \in DOMAIN frames :
              /\ frames'[k].at = frames[k].at /\ frames'[k].close = frames[k].close
              /\ frames'[k].entry = frames[k].entry /\ frames'[k].header = frames[k].header
              /\ frames'[k].arm = frames[k].arm
              /\ frames'[k].incoming =
                   frames[k].incoming \cup (IF frames[k].at \in Here.targets THEN {cur} ELSE {})
<1>1. /\ pc \in DOMAIN program /\ mode = "analyse" /\ Here.op \in {"br", "br_if", "br_table"}
      /\ pc' = pc + 1 /\ cur' = cur /\ reachable' \in BOOLEAN
      /\ UNCHANGED <<program, mode, values>> /\ Record
  BY DEF AnalyseBranch, Walks, Continue
<1>2. Nested(program, frames, pc + 1)
  BY <1>1, NestedPlain DEF Shape, Here, Opens, Closes
<1>3. DOMAIN frames' = DOMAIN frames
  BY DEF AnalyseBranch
<1>4. ASSUME NEW k \in DOMAIN frames
      PROVE  /\ frames'[k].at = frames[k].at /\ frames'[k].close = frames[k].close
             /\ frames'[k].entry = frames[k].entry /\ frames'[k].header = frames[k].header
             /\ frames'[k].arm = frames[k].arm
             /\ frames'[k].incoming =
                  frames[k].incoming \cup (IF frames[k].at \in Here.targets THEN {cur} ELSE {})
             /\ frames'[k] \in Frame
  <2>1. frames[k] \in Frame
    BY <1>1, Enclosing
  <2>2. frames'[k] = IF frames[k].at \in Here.targets
                     THEN [frames[k] EXCEPT !.incoming = @ \cup {cur}] ELSE frames[k]
    BY DEF AnalyseBranch
  <2>3. cur \in Facts
    BY DEF Shape
  <2>4. CASE frames[k].at \in Here.targets
    BY <2>1, <2>2, <2>3, <2>4, Received
  <2>5. CASE frames[k].at \notin Here.targets
    BY <2>1, <2>2, <2>5
  <2> QED
    BY <2>4, <2>5
<1>5. frames' \in Seq(Frame)
  <2>1. Len(frames) \in Nat /\ DOMAIN frames = 1 .. Len(frames)
    BY LenProperties DEF Shape
  <2>2. frames' = [k \in 1 .. Len(frames) |-> frames'[k]]
    BY <2>1 DEF AnalyseBranch
  <2>3. \A k \in 1 .. Len(frames) : frames'[k] \in Frame
    BY <1>4, <2>1
  <2> QED
    BY <2>1, <2>2, <2>3, IsASeq
<1>6. Nested(program, frames', pc + 1)
  BY <1>2, <1>3, <1>4, NestedSame
<1> QED
  BY <1>1, <1>3, <1>4, <1>5, <1>6, Present, RecordTypes DEF Shape

LEMMA ShapeReturn ==
  ASSUME Shape, AnalyseReturn
  PROVE  Shape'
<1>1. /\ pc \in DOMAIN program /\ mode = "analyse" /\ Here.op = "return"
      /\ pc' = pc + 1 /\ cur' = cur /\ reachable' = FALSE
      /\ UNCHANGED <<program, mode, values, frames>> /\ Record
  BY DEF AnalyseReturn, Walks, Continue
<1>2. Nested(program, frames, pc + 1)
  BY <1>1, NestedPlain DEF Shape, Here, Opens, Closes
<1> QED
  BY <1>1, <1>2, Present, RecordTypes DEF Shape

\* A frame for the bracket that the walk enters.
Entered == [at |-> pc, entry |-> cur, header |-> cur, incoming |-> {}, arm |-> {}, close |-> Here.match]

LEMMA ShapeOpen ==
  ASSUME Shape, Open
  PROVE  /\ Shape'
         /\ Len(frames) + 1 \notin DOMAIN frames
         /\ DOMAIN frames' = DOMAIN frames \cup {Len(frames) + 1}
         /\ frames'[Len(frames) + 1] = Entered
         /\ \A k \in DOMAIN frames : frames'[k] = frames[k]
<1>1. /\ pc \in DOMAIN program /\ mode = "analyse" /\ Here.op \in {"block", "loop", "if"}
      /\ pc' = pc + 1 /\ cur' = cur /\ reachable' = TRUE
      /\ UNCHANGED <<program, mode, values>> /\ Record
      /\ frames' = Append(frames, Entered)
  BY DEF Open, Walks, Continue, Entered
<1>2. Entered \in Frame /\ Entered.at = pc /\ Entered.close = Here.match
  BY <1>1, Present DEF Entered, Frame, Shape
<1>3. Nested(program, frames', pc + 1)
  BY <1>1, <1>2, NestedOpen DEF Shape, Here
<1>4. /\ frames' \in Seq(Frame) /\ Len(frames) + 1 \notin DOMAIN frames
      /\ DOMAIN frames' = DOMAIN frames \cup {Len(frames) + 1}
      /\ frames'[Len(frames) + 1] = Entered
      /\ \A k \in DOMAIN frames : frames'[k] = frames[k]
  BY <1>1, <1>2, Pushed DEF Shape
<1> QED
  BY <1>1, <1>3, <1>4, Present, RecordTypes DEF Shape

LEMMA ShapeElse ==
  ASSUME Shape, Else
  PROVE  /\ Shape'
         /\ DOMAIN frames' = DOMAIN frames
         /\ frames'[Len(frames)] = [Innermost EXCEPT !.arm = Fall, !.close = Here.match]
         /\ \A k \in DOMAIN frames : k # Len(frames) => frames'[k] = frames[k]
<1> DEFINE frame == [Innermost EXCEPT !.arm = Fall, !.close = Here.match]
<1>1. /\ pc \in DOMAIN program /\ mode = "analyse" /\ Here.op = "else" /\ Closes(Here)
      /\ pc' = pc + 1 /\ cur' = Innermost.entry /\ reachable' = TRUE
      /\ UNCHANGED <<program, mode, values, recorded>>
      /\ frames' = Append(Outer, frame)
  BY DEF Else, Walks, Continue, Closes
<1>2. Innermost \in Frame /\ Len(frames) \in DOMAIN frames /\ Innermost.entry \in Facts
  BY <1>1, Closing
<1>3. frame \in Frame /\ frame.at = Innermost.at /\ frame.close = Here.match
  BY <1>1, <1>2, Present DEF Frame, Fall, Shape
<1> HIDE DEF frame
<1>4. Nested(program, frames', pc + 1)
  BY <1>1, <1>3, NestedElse DEF Shape, Here, Innermost, Outer
<1>5. /\ frames' \in Seq(Frame) /\ DOMAIN frames' = DOMAIN frames
      /\ frames'[Len(frames)] = frame
      /\ \A k \in DOMAIN frames : k # Len(frames) => frames'[k] = frames[k]
  BY <1>1, <1>2, <1>3, Replaced DEF Shape, Outer
<1> QED
  BY <1>1, <1>2, <1>4, <1>5, Present DEF Shape, frame

\* The end of a block, an if or the last walk of a loop: the innermost frame goes.
LEMMA ShapeEnd ==
  ASSUME Shape, mode = "analyse", pc \in DOMAIN program, Here.op = "end", frames' = Outer,
         cur' \in Facts, reachable' \in BOOLEAN, pc' = pc + 1,
         UNCHANGED <<program, mode, values, recorded>>
  PROVE  Shape'
<1>1. Nested(program, frames', pc + 1)
  BY NestedEnd DEF Shape, Here, Outer
<1>2. frames' \in Seq(Frame)
  BY Closing DEF Closes
<1> QED
  BY <1>1, <1>2, Present DEF Shape

\* Facts whose fact of the last value is taken from elsewhere.
LEMMA WithResult ==
  ASSUME NEW f \in Facts, NEW g \in Facts, NEW n \in Fact, n <= g[result], Below(f, g)
  PROVE  [f EXCEPT ![result] = n] \in Facts /\ Below([f EXCEPT ![result] = n], g)
  BY DEF Facts, Below, Place

LEMMA ResultTyped ==
  ASSUME NEW f \in Facts
  PROVE  /\ f[result] \in Fact /\ 1 \in Fact /\ 1 <= f[result]
         /\ \A n \in Fact : [f EXCEPT ![result] = n] \in Facts
  BY DEF Facts, Fact, Place

LEMMA ShapeEndBlock ==
  ASSUME Shape, EndBlock
  PROVE  Shape'
<1> DEFINE exits == Fall \cup Innermost.incoming
           n == IF Innermost.incoming # {} THEN 1 ELSE cur[result]
           facts == [Merge(exits) EXCEPT ![result] = n]
<1>1. /\ pc \in DOMAIN program /\ mode = "analyse" /\ Here.op = "end" /\ Closes(Here)
      /\ pc' = pc + 1 /\ cur' = (IF exits = {} THEN cur ELSE facts) /\ reachable' = (exits # {})
      /\ UNCHANGED <<program, mode, values, recorded>> /\ frames' = Outer
  BY DEF EndBlock, Walks, Continue, Closes
<1>2. exits \in SUBSET Facts /\ cur \in Facts
  BY <1>1, Closing DEF Fall, Shape
<1>3. n \in Fact
  BY <1>2, ResultTyped
<1> HIDE DEF exits, n
<1>4. exits # {} => facts \in Facts
  BY <1>2, <1>3, Merged, ResultTyped
<1> QED
  BY <1>1, <1>2, <1>4, ShapeEnd

LEMMA ShapeEndIf ==
  ASSUME Shape, EndIf
  PROVE  Shape'
<1> DEFINE both == program[Innermost.at].match # pc
           exits == Fall \cup (IF both THEN Innermost.arm ELSE {Innermost.entry})
           facts == [Merge(exits) EXCEPT ![result] = IF both THEN @ ELSE 1]
<1>1. /\ pc \in DOMAIN program /\ mode = "analyse" /\ Here.op = "end" /\ Closes(Here)
      /\ pc' = pc + 1 /\ cur' = (IF exits = {} THEN cur ELSE facts) /\ reachable' = (exits # {})
      /\ UNCHANGED <<program, mode, values, recorded>> /\ frames' = Outer
  BY DEF EndIf, Walks, Continue, Closes
<1>2. exits \in SUBSET Facts /\ cur \in Facts
  BY <1>1, Closing DEF Fall, Shape
<1> HIDE DEF exits, both
<1>3. exits # {} => facts \in Facts
  <2>1. exits # {} => Merge(exits) \in Facts
    BY <1>2, Merged
  <2> QED
    BY <2>1, ResultTyped
<1> QED
  BY <1>1, <1>2, <1>3, ShapeEnd

\* The frame of a loop that is walked again.
Again == [Innermost EXCEPT !.header = Merge({Innermost.entry} \cup Innermost.incoming),
                           !.incoming = {}]

LEMMA ShapeEndLoop ==
  ASSUME Shape, EndLoop
  PROVE  /\ Shape'
         /\ Repeats(Innermost) =>
              /\ DOMAIN frames' = DOMAIN frames /\ frames'[Len(frames)] = Again
              /\ \A k \in DOMAIN frames : k # Len(frames) => frames'[k] = frames[k]
<1> DEFINE S == {Innermost.entry} \cup Innermost.incoming
           header == Merge(S)
<1>1. /\ pc \in DOMAIN program /\ mode = "analyse" /\ Here.op = "end" /\ Closes(Here)
      /\ program[Innermost.at].op = "loop"
      /\ UNCHANGED <<program, mode, values, recorded>>
  BY DEF EndLoop, Walks, Continue, Closes
<1>2. CASE ~ Repeats(Innermost)
  <2>1. frames' = Outer /\ cur' = cur /\ reachable' = reachable /\ pc' = pc + 1
    BY <1>2 DEF EndLoop, Continue
  <2>2. cur \in Facts /\ reachable \in BOOLEAN
    BY DEF Shape
  <2> QED
    BY <1>1, <1>2, <2>1, <2>2, ShapeEnd
<1>3. CASE Repeats(Innermost)
  <2>1. /\ frames' = Append(Outer, Again) /\ cur' = header /\ reachable' = TRUE
        /\ pc' = Innermost.at + 1
    BY <1>3 DEF EndLoop, Continue, Again
  <2>2. /\ Innermost \in Frame /\ Len(frames) \in DOMAIN frames /\ Innermost.at \in DOMAIN program
        /\ Innermost.at < pc
        /\ S \in SUBSET Facts /\ S # {}
    BY <1>1, Closing
  <2>3. header \in Facts
    BY <2>2, Merged
  <2>4. Again \in Frame /\ Again.at = Innermost.at /\ Again.close = Innermost.close
    BY <2>2, <2>3 DEF Frame, Again
  <2>5. Nested(program, frames', Innermost.at + 1)
    BY <1>1, <2>1, <2>4, NestedRepeat DEF Shape, Here, Innermost, Outer
  <2>6. /\ frames' \in Seq(Frame) /\ DOMAIN frames' = DOMAIN frames
        /\ frames'[Len(frames)] = Again
        /\ \A k \in DOMAIN frames : k # Len(frames) => frames'[k] = frames[k]
    BY <2>1, <2>2, <2>4, Replaced DEF Shape, Outer
  <2>7. Innermost.at + 1 \in 1 .. Len(program) + 1
    BY <2>2, Brackets DEF Shape
  <2> QED
    BY <1>1, <1>3, <2>1, <2>3, <2>5, <2>6, <2>7 DEF Shape
<1> QED
  BY <1>2, <1>3

LEMMA ShapeFinish ==
  ASSUME Shape, Finish
  PROVE  Shape'
<1>1. 0 \in Word
  BY WordSize DEF Word
<1>2. values' \in [Place -> Word]
  BY <1>1 DEF Finish
<1>3. 1 \in 1 .. Len(program) + 1
  BY Brackets DEF Shape
<1> QED
  BY <1>2, <1>3 DEF Finish, Shape

LEMMA SuccessorTypes ==
  ASSUME NEW p \in Programs, NEW i \in DOMAIN p, NEW j \in Successors(p, i)
  PROVE  j \in 1 .. Len(p) + 1
<1>1. Len(p) \in Nat /\ DOMAIN p = 1 .. Len(p)
  BY Brackets
<1>2. ASSUME NEW q \in DOMAIN p, Opens(p[q])
      PROVE  p[q].match + 1 \in 1 .. Len(p) + 1
  BY <1>1, <1>2, Brackets
<1>3. ASSUME NEW t \in Named(p[i])
      PROVE  Target(p, t) \in 1 .. Len(p) + 1
  <2>1. t \in DOMAIN p /\ Opens(p[t])
    BY NamedOpen
  <2> QED
    BY <1>1, <1>2, <2>1 DEF Target
<1> QED
  BY <1>1, <1>2, <1>3, SuccessorKinds

\* The words that an instruction leaves.
LEMMA OutcomeTypes ==
  ASSUME Shape, pc \in DOMAIN program, Here.op = "set",
         NEW w \in Outcomes(Here, ValueOf(Here.left), ValueOf(Here.right))
  PROVE  w \in Word
<1>1. \A o \in Operand : ValueOf(o) \in Word
  BY DEF ValueOf, Operand, Shape
<1>2. Here \in Instruction /\ Here.left \in Operand /\ Here.right \in Operand
  BY Present
<1>3. ValueOf(Here.left) % 1 = 0 /\ ValueOf(Here.right) % 1 = 0 /\ 1 \in Fact
  <2>1. \A n \in Nat : n % 1 = 0
    OBVIOUS
  <2> QED
    BY <1>1, <1>2, <2>1, WordSize DEF Fact
<1>4. Here.right.constant => ValueOf(Here.right) = Here.right.of
  BY DEF ValueOf
<1> QED
  BY <1>1, <1>2, <1>3, <1>4, OutcomesFit

LEMMA ShapeExecute ==
  ASSUME Shape, Execute
  PROVE  Shape'
<1>1. pc' \in 1 .. Len(program) + 1
  BY SuccessorTypes DEF Execute, Shape
<1>2. values' \in [Place -> Word]
  <2>1. CASE Here.op = "set"
    <3>1. PICK w \in Outcomes(Here, ValueOf(Here.left), ValueOf(Here.right)) :
                 values' = [values EXCEPT ![Here.to] = w, ![result] = w]
      BY <2>1 DEF Execute
    <3>2. w \in Word
      BY <2>1, OutcomeTypes DEF Execute
    <3> QED
      BY <3>1, <3>2 DEF Shape
  <2>2. CASE Here.op # "set"
    BY <2>2 DEF Execute, Shape
  <2> QED
    BY <2>1, <2>2
<1> QED
  BY <1>1, <1>2 DEF Execute, Shape

LEMMA ShapeStep ==
  ASSUME Shape, [Next]_vars
  PROVE  Shape'
<1>1. CASE Leave
  BY <1>1 DEF Leave, Shape
<1>2. CASE UNCHANGED vars
  BY <1>2 DEF vars, Shape
<1> QED
  BY <1>1, <1>2, ShapeSkip, ShapeSet, ShapeOpen, ShapeBranch, ShapeReturn, ShapeElse,
     ShapeEndBlock, ShapeEndIf, ShapeEndLoop, ShapeFinish, ShapeExecute DEF Next, Analyse

LEMMA ShapeHolds ==
  Spec => []Shape
<1>1. Init => Shape
  BY ShapeStart
<1>2. Shape /\ [Next]_vars => Shape'
  BY ShapeStep
<1> QED
  BY <1>1, <1>2, PTL DEF Spec

\* The state of the analysis and of the execution keeps its types, and the
\* analysis is between the brackets of every frame it has open: the recursion of
\* initialize_local_alignments is in balance on every path, also where it leaves
\* out code after a branch or walks a loop again.
THEOREM TypeCorrect ==
  Spec => []TypeOK
<1>1. Shape => TypeOK
  <2> SUFFICES ASSUME Shape
               PROVE  TypeOK
    OBVIOUS
  <2>1. mode = "analyse" => \A k \in DOMAIN frames : frames[k].at < pc /\ pc <= frames[k].close
    BY Enclosing
  <2> QED
    BY <2>1 DEF Shape, TypeOK
<1> QED
  BY <1>1, ShapeHolds, PTL

-----------------------------------------------------------------------------
(* The analysis keeps a solution.                                          *)

\* lowering.c:823-837 merges facts into the targets of a br_table only: its
\* default is one of them.
DefaultsNamed ==
  \A p \in Programs : \A i \in DOMAIN p : p[i].op = "br_table" => p[i].default \in p[i].targets

\* Walked, for a step that leaves every frame that stays the place, the entry and
\* the header that it has.
LEMMA WalkedOn ==
  ASSUME Shape, Shape', mode = "analyse", pc \in DOMAIN program, pc < pc',
         UNCHANGED program,
         reachable /\ ~ Closes(Here) => Record,
         ~ reachable \/ Closes(Here) => UNCHANGED recorded,
         NEW F, Solution(F), NEW G, G = Extended(F),
         \A k \in DOMAIN frames : \A j \in DOMAIN program :
           \A g \in Waiting(program, frames[k], j) : Meets(G, j, g)',
         reachable =>
           \A out : out = Transfer(Here, cur) =>
             \A j \in Successors(program, pc) \cap DOMAIN program : Meets(G, j, out)',
         \A k \in DOMAIN frames' : \E m \in DOMAIN frames :
           /\ frames'[k].at = frames[m].at /\ frames'[k].entry = frames[m].entry
           /\ frames'[k].header = frames[m].header
  PROVE  Solution(G)'
<1>1. ASSUME NEW k \in DOMAIN frames', NEW new, new = frames'[k]
      PROVE  Anchored(G, new)'
  <2>1. PICK m \in DOMAIN frames :
               /\ new.at = frames[m].at /\ new.entry = frames[m].entry
               /\ new.header = frames[m].header
    BY <1>1
  <2>2. PICK frame : frame = frames[m]
    OBVIOUS
  <2>3. frame.at \in DOMAIN program /\ frame.at < pc
    BY <2>2, Enclosing
  <2>4. Anchored(F, frame)
    BY <2>2 DEF Solution
  <2>5. cur \in Facts /\ pc' \in Nat /\ program \in Programs
    BY Brackets DEF Shape
  <2> QED
    BY <2>1, <2>2, <2>3, <2>4, <2>5, AnchoredOn
<1>2. /\ program \in Programs /\ cur \in Facts /\ cur' \in Facts
      /\ frames \in Seq(Frame) /\ frames' \in Seq(Frame) /\ pc' \in Nat
  BY Brackets DEF Shape
<1> QED
  BY <1>1, <1>2, Walked

\* What waits in a frame that stays as it is.
LEMMA StillWaiting ==
  ASSUME Shape, mode = "analyse", UNCHANGED program, NEW G,
         NEW k \in DOMAIN frames, k \in DOMAIN frames', frames'[k] = frames[k],
         NEW j, NEW g \in Waiting(program, frames[k], j)
  PROVE  Meets(G, j, g)'
<1>1. g \in Facts
  BY Enclosing, WaitingTypes
<1>2. Below(g, g)
  BY <1>1, BelowItself
<1> QED
  BY <1>2 DEF Meets

LEMMA SolvedStart ==
  ASSUME Init
  PROVE  \E F : Solution(F)
<1>1. DOMAIN frames = {} /\ DOMAIN <<>> = {}
  BY DEF Init
<1>2. Solution(<<>>)
  BY <1>1 DEF Init, Solution
<1> QED
  BY <1>2

LEMMA SolvedSkip ==
  ASSUME Shape, Shape', Skip, NEW F, Solution(F)
  PROVE  \E G : Solution(G)'
<1>1. /\ pc \in DOMAIN program /\ mode = "analyse" /\ ~ Closes(Here) /\ ~ reachable
      /\ UNCHANGED <<program, recorded, frames>>
  BY DEF Skip, Closes
<1>2. pc < pc'
  <2>1. CASE frames = <<>>
    BY <1>1, <2>1, Brackets DEF Shape, Skip
  <2>2. CASE frames # <<>>
    <3>1. Len(frames) \in DOMAIN frames
      BY <1>1, <2>2, NestedSkip DEF Shape
    <3>2. pc <= Innermost.close /\ Innermost.close \in DOMAIN program /\ pc' = Innermost.close
      BY <1>1, <2>2, <3>1, Enclosing DEF Skip, Innermost
    <3>3. Closes(program[Innermost.close])
      <4>1. Nested(program, frames, pc)
        BY <1>1 DEF Shape
      <4> QED
        BY <3>1, <4>1, Brackets DEF Shape, Nested, Innermost
    <3> QED
      BY <1>1, <3>2, <3>3, Brackets DEF Shape, Here
  <2> QED
    BY <2>1, <2>2
<1>3. PICK G : G = Extended(F)
  OBVIOUS
<1>4. ASSUME NEW k \in DOMAIN frames, NEW j \in DOMAIN program,
             NEW g \in Waiting(program, frames[k], j)
      PROVE  Meets(G, j, g)'
  BY <1>1, StillWaiting
<1>5. Solution(G)'
  BY <1>1, <1>2, <1>3, <1>4, WalkedOn
<1> QED
  BY <1>5

LEMMA SolvedSet ==
  ASSUME Shape, Shape', AnalyseSet, NEW F, Solution(F)
  PROVE  \E G : Solution(G)'
<1>1. /\ pc \in DOMAIN program /\ mode = "analyse" /\ ~ Closes(Here) /\ Here.op = "set"
      /\ Record /\ pc' = pc + 1 /\ cur' = Transfer(Here, cur) /\ reachable /\ reachable'
      /\ UNCHANGED <<program, frames>> /\ pc \in Nat /\ pc < pc'
  BY Present DEF AnalyseSet, Walks, Continue, Transfer, Closes
<1>2. PICK G : G = Extended(F)
  OBVIOUS
<1>3. ASSUME NEW k \in DOMAIN frames, NEW j \in DOMAIN program,
             NEW g \in Waiting(program, frames[k], j)
      PROVE  Meets(G, j, g)'
  BY <1>1, StillWaiting
<1>4. ASSUME NEW out, out = Transfer(Here, cur), NEW j \in Successors(program, pc)
      PROVE  Meets(G, j, out)'
  <2>1. j = pc'
    BY <1>1 DEF Successors, Here
  <2>2. Below(cur', out)
    BY <1>1, <1>4, BelowItself DEF Shape
  <2> QED
    BY <1>1, <2>1, <2>2 DEF Meets
<1>5. Solution(G)'
  BY <1>1, <1>2, <1>3, <1>4, WalkedOn
<1> QED
  BY <1>5

LEMMA SolvedReturn ==
  ASSUME Shape, Shape', AnalyseReturn, NEW F, Solution(F)
  PROVE  \E G : Solution(G)'
<1>1. /\ pc \in DOMAIN program /\ mode = "analyse" /\ ~ Closes(Here) /\ Here.op = "return"
      /\ Record /\ pc' = pc + 1 /\ UNCHANGED <<program, frames>> /\ pc \in Nat /\ pc < pc'
      /\ reachable
  BY Present DEF AnalyseReturn, Walks, Continue, Closes
<1>2. PICK G : G = Extended(F)
  OBVIOUS
<1>3. ASSUME NEW k \in DOMAIN frames, NEW j \in DOMAIN program,
             NEW g \in Waiting(program, frames[k], j)
      PROVE  Meets(G, j, g)'
  BY <1>1, StillWaiting
<1>4. Successors(program, pc) \cap DOMAIN program = {}
  BY <1>1, Brackets DEF Successors, Here, Shape
<1>5. Solution(G)'
  BY <1>1, <1>2, <1>3, <1>4, WalkedOn
<1> QED
  BY <1>5

LEMMA SolvedOpen ==
  ASSUME Shape, Shape', Open, NEW F, Solution(F)
  PROVE  \E G : Solution(G)'
<1> DEFINE n == Len(frames) + 1
<1>1. /\ pc \in DOMAIN program /\ mode = "analyse" /\ Here.op \in {"block", "loop", "if"}
      /\ Record /\ pc' = pc + 1 /\ cur' = cur /\ reachable /\ reachable'
      /\ UNCHANGED program /\ pc \in Nat /\ pc < pc' /\ ~ Closes(Here) /\ cur \in Facts
  BY Present DEF Open, Walks, Continue, Closes, Shape
<1>2. /\ n \notin DOMAIN frames /\ DOMAIN frames' = DOMAIN frames \cup {n} /\ frames'[n] = Entered
      /\ \A k \in DOMAIN frames : frames'[k] = frames[k]
  BY ShapeOpen
<1> HIDE DEF n
<1>3. PICK G : G = Extended(F)
  OBVIOUS
<1>4. ASSUME NEW k \in DOMAIN frames, NEW j \in DOMAIN program,
             NEW g \in Waiting(program, frames[k], j)
      PROVE  Meets(G, j, g)'
  BY <1>1, <1>2, StillWaiting
<1>5. ASSUME NEW out, out = Transfer(Here, cur), NEW j \in Successors(program, pc)
      PROVE  Meets(G, j, out)'
  <2>1. out = cur /\ Below(cur', out)
    BY <1>1, <1>5, BelowItself DEF Transfer
  <2>2. CASE j = pc'
    BY <1>1, <2>1, <2>2 DEF Meets
  <2>3. CASE Here.op = "if" /\ j = Here.match + 1
    <3>1. Waiting(program', frames'[n], j) = {cur}
      BY <1>1, <1>2, <2>3 DEF Waiting, Entered, Here
    <3> QED
      BY <1>1, <1>2, <2>1, <3>1 DEF Meets
  <2> QED
    BY <1>1, <2>2, <2>3 DEF Successors, Here
<1>6. ASSUME NEW k \in DOMAIN frames', NEW new, new = frames'[k]
      PROVE  Anchored(G, new)'
  <2>1. CASE k = n
    <3>1. new.at = pc /\ new.entry = cur /\ new.header = cur
      BY <1>2, <1>6, <2>1 DEF Entered
    <3>2. pc \in DOMAIN G /\ G[pc] = cur
      BY <1>1, <1>3, ExtendedBy DEF Shape
    <3> QED
      BY <1>1, <3>1, <3>2, BelowItself DEF Anchored
  <2>2. CASE k \in DOMAIN frames
    <3>1. new = frames[k] /\ new.at \in DOMAIN program /\ new.at < pc
      BY <1>1, <1>2, <1>6, <2>2, Enclosing
    <3>2. Anchored(F, new)
      BY <2>2, <3>1 DEF Solution
    <3> QED
      BY <1>1, <1>3, <3>1, <3>2, AnchoredOn DEF Shape
  <2> QED
    BY <1>2, <2>1, <2>2
<1>7. program \in Programs /\ cur' \in Facts /\ frames \in Seq(Frame) /\ frames' \in Seq(Frame)
  BY <1>1 DEF Shape
<1>8. Solution(G)'
  BY <1>1, <1>3, <1>4, <1>5, <1>6, <1>7, Walked
<1> QED
  BY <1>8

\* The bracket that a branch names is open.
LEMMA NamedWaits ==
  ASSUME Shape, mode = "analyse", pc \in DOMAIN program, NEW t \in Named(Here)
  PROVE  \E k \in DOMAIN frames : /\ frames[k].at = t /\ frames[k].close = program[t].match
                                  /\ program[t].op \in {"block", "loop"}
<1>1. /\ t \in DOMAIN program /\ t < pc /\ pc < program[t].match
      /\ program[t].op \in {"block", "loop"} /\ Opens(program[t]) /\ ~ Closes(program[t])
  BY NamedOpen DEF Shape, Here, Closes
<1>2. Nested(program, frames, pc) /\ pc \in Nat /\ program[t].match \in Nat
  BY <1>1, Brackets DEF Shape
<1>3. PICK k \in DOMAIN frames : Opener(program, frames[k]) = t
  BY <1>1, <1>2 DEF Nested
<1>4. /\ frames[k].at \in DOMAIN program /\ program[frames[k].at].op \in {"block", "loop", "if"}
      /\ program[t].match = frames[k].close
      /\ program[frames[k].at].op # "if" => t = frames[k].at
  BY <1>2, <1>3 DEF Nested
<1>5. ASSUME program[frames[k].at].op = "if"
      PROVE  t = frames[k].at
  <2>1. Closes(program[program[frames[k].at].match])
    BY <1>4, <1>5, Brackets DEF Shape, Opens
  <2> QED
    BY <1>1, <1>3, <2>1 DEF Opener
<1> QED
  BY <1>1, <1>4, <1>5

LEMMA SolvedBranch ==
  ASSUME DefaultsNamed, Shape, Shape', AnalyseBranch, NEW F, Solution(F)
  PROVE  \E G : Solution(G)'
<1>1. /\ pc \in DOMAIN program /\ mode = "analyse" /\ Here.op \in {"br", "br_if", "br_table"}
      /\ Record /\ pc' = pc + 1 /\ cur' = cur /\ reachable /\ reachable' = (Here.op = "br_if")
      /\ UNCHANGED program /\ pc \in Nat /\ pc < pc' /\ ~ Closes(Here) /\ cur \in Facts
  BY Present DEF AnalyseBranch, Walks, Continue, Closes, Shape
<1>2. /\ DOMAIN frames' = DOMAIN frames
      /\ \A k \in DOMAIN frames :
           /\ frames'[k].at = frames[k].at /\ frames'[k].close = frames[k].close
           /\ frames'[k].entry = frames[k].entry /\ frames'[k].header = frames[k].header
           /\ frames'[k].arm = frames[k].arm
           /\ frames'[k].incoming =
                frames[k].incoming \cup (IF frames[k].at \in Here.targets THEN {cur} ELSE {})
  BY ShapeBranch
<1>3. PICK G : G = Extended(F)
  OBVIOUS
<1>4. ASSUME NEW k \in DOMAIN frames, NEW j \in DOMAIN program,
             NEW g \in Waiting(program, frames[k], j)
      PROVE  Meets(G, j, g)'
  <2>1. g \in Waiting(program', frames'[k], j)
    BY <1>1, <1>2, <1>4 DEF Waiting
  <2>2. Below(g, g)
    BY <1>1, Enclosing, WaitingTypes, BelowItself
  <2> QED
    BY <1>2, <2>1, <2>2 DEF Meets
<1>5. ASSUME NEW out, out = Transfer(Here, cur), NEW j \in Successors(program, pc)
      PROVE  Meets(G, j, out)'
  <2>1. out = cur /\ Below(cur, out)
    BY <1>1, <1>5, BelowItself DEF Transfer
  <2>2. CASE j = pc' /\ Here.op = "br_if"
    BY <1>1, <2>1, <2>2 DEF Meets
  <2>3. ASSUME NEW t \in Here.targets, j = Target(program, t)
        PROVE  Meets(G, j, out)'
    <3>1. PICK k \in DOMAIN frames : /\ frames[k].at = t /\ frames[k].close = program[t].match
                                     /\ program[t].op \in {"block", "loop"}
      BY <1>1, NamedWaits DEF Named
    <3>2. cur \in Waiting(program', frames'[k], j)
      BY <1>1, <1>2, <2>3, <3>1 DEF Waiting, Target
    <3> QED
      BY <1>2, <2>1, <3>2 DEF Meets
  <2>4. Here.op = "br_table" => Here.default \in Here.targets
    BY <1>1 DEF DefaultsNamed, Shape, Here
  <2> QED
    BY <1>1, <2>2, <2>3, <2>4 DEF Successors, Here
<1>6. Solution(G)'
  BY <1>1, <1>2, <1>3, <1>4, <1>5, WalkedOn
<1> QED
  BY <1>6

LEMMA SolvedElse ==
  ASSUME Shape, Shape', Else, NEW F, Solution(F)
  PROVE  \E G : Solution(G)'
<1> DEFINE n == Len(frames)
           new == [Innermost EXCEPT !.arm = Fall, !.close = Here.match]
<1>1. /\ pc \in DOMAIN program /\ mode = "analyse" /\ Here.op = "else" /\ Closes(Here)
      /\ pc' = pc + 1 /\ cur' = Innermost.entry /\ reachable'
      /\ UNCHANGED <<program, recorded>> /\ pc \in Nat /\ pc < pc' /\ cur \in Facts
  BY Present DEF Else, Walks, Continue, Closes, Shape
<1>2. /\ DOMAIN frames' = DOMAIN frames /\ frames'[n] = new
      /\ \A k \in DOMAIN frames : k # n => frames'[k] = frames[k]
  BY ShapeElse
<1>3. /\ n \in DOMAIN frames /\ Innermost \in Frame /\ Innermost.close = pc
      /\ Innermost.entry \in Facts /\ Innermost = frames[n]
      /\ program[Innermost.at].op = "if" /\ program[Innermost.at].match = pc
  BY <1>1, Closing DEF Innermost
<1>4. /\ new.at = Innermost.at /\ new.entry = Innermost.entry /\ new.header = Innermost.header
      /\ new.close = Here.match /\ new.arm = Fall
  BY <1>3 DEF Frame
<1>5. Here.match \in Nat /\ pc < Here.match
  BY <1>1, Brackets DEF Shape, Here, Opens
<1> HIDE DEF n, new
<1>6. PICK G : G = Extended(F)
  OBVIOUS
<1>7. ASSUME NEW k \in DOMAIN frames, NEW j \in DOMAIN program,
             NEW g \in Waiting(program, frames[k], j)
      PROVE  Meets(G, j, g)'
  <2>1. CASE k = n
    <3>1. j = pc' /\ g = cur'
      BY <1>1, <1>3, <1>7, <2>1 DEF Waiting
    <3> QED
      BY <1>1, <1>3, <3>1, BelowItself DEF Meets
  <2>2. CASE k # n
    BY <1>1, <1>2, <2>2, StillWaiting
  <2> QED
    BY <2>1, <2>2
<1>8. ASSUME reachable, NEW out, out = Transfer(Here, cur), NEW j \in Successors(program, pc)
      PROVE  Meets(G, j, out)'
  <2>1. out = cur /\ Below(cur, out) /\ j = Here.match + 1
    BY <1>1, <1>8, BelowItself DEF Transfer, Successors, Here
  <2>2. Waiting(program', frames'[n], j) = {cur}
    BY <1>1, <1>2, <1>3, <1>4, <1>5, <1>8, <2>1 DEF Waiting, Fall
  <2> QED
    BY <1>2, <1>3, <2>1, <2>2 DEF Meets
<1>9. ASSUME NEW k \in DOMAIN frames'
      PROVE  \E m \in DOMAIN frames :
               /\ frames'[k].at = frames[m].at /\ frames'[k].entry = frames[m].entry
               /\ frames'[k].header = frames[m].header
  BY <1>2, <1>3, <1>4
<1>10. Solution(G)'
  BY <1>1, <1>6, <1>7, <1>8, <1>9, WalkedOn
<1> QED
  BY <1>10

\* The innermost frame goes, and the facts after it are no better than what waits
\* in it and what the walk brings.
LEMMA SolvedEnd ==
  ASSUME Shape, Shape', mode = "analyse", pc \in DOMAIN program, Here.op = "end",
         pc' = pc + 1, frames' = Outer, UNCHANGED <<program, recorded>>,
         NEW F, Solution(F), NEW G, G = Extended(F),
         \A j \in DOMAIN program : \A g \in Waiting(program, Innermost, j) : Meets(G, j, g)',
         reachable => reachable' /\ Below(cur', cur)
  PROVE  Solution(G)'
<1>1. /\ Closes(Here) /\ DOMAIN Outer = DOMAIN frames \ {Len(frames)}
      /\ \A k \in DOMAIN Outer : Outer[k] = frames[k]
  BY Closing DEF Closes
<1>2. pc \in Nat /\ pc < pc'
  BY Present
<1>3. ASSUME NEW k \in DOMAIN frames, NEW j \in DOMAIN program,
             NEW g \in Waiting(program, frames[k], j)
      PROVE  Meets(G, j, g)'
  <2>1. CASE k = Len(frames)
    BY <2>1 DEF Innermost
  <2>2. CASE k # Len(frames)
    BY <1>1, <2>2, StillWaiting
  <2> QED
    BY <2>1, <2>2
<1>4. ASSUME reachable, NEW out, out = Transfer(Here, cur), NEW j \in Successors(program, pc)
      PROVE  Meets(G, j, out)'
  BY <1>4 DEF Transfer, Successors, Here, Meets
<1>5. \A k \in DOMAIN frames' : \E m \in DOMAIN frames :
        /\ frames'[k].at = frames[m].at /\ frames'[k].entry = frames[m].entry
        /\ frames'[k].header = frames[m].header
  BY <1>1
<1> QED
  BY <1>1, <1>2, <1>3, <1>4, <1>5, WalkedOn

LEMMA SolvedEndBlock ==
  ASSUME Shape, Shape', EndBlock, NEW F, Solution(F)
  PROVE  \E G : Solution(G)'
<1> DEFINE exits == Fall \cup Innermost.incoming
           n == IF Innermost.incoming # {} THEN 1 ELSE cur[result]
           facts == [Merge(exits) EXCEPT ![result] = n]
<1>1. /\ pc \in DOMAIN program /\ mode = "analyse" /\ Here.op = "end" /\ Closes(Here)
      /\ pc' = pc + 1 /\ cur' = (IF exits = {} THEN cur ELSE facts) /\ reachable' = (exits # {})
      /\ UNCHANGED <<program, recorded>> /\ frames' = Outer
      /\ program[Innermost.at].op = "block" /\ cur \in Facts
  BY DEF EndBlock, Walks, Continue, Closes, Shape
<1>2. exits \in SUBSET Facts /\ Innermost.close = pc
  BY <1>1, Closing DEF Fall, Shape
<1>3. ASSUME NEW g \in exits
      PROVE  reachable' /\ Below(cur', g)
  <2>1. g \in Facts /\ exits # {} /\ Merge(exits) \in Facts /\ Below(Merge(exits), g)
    BY <1>2, Merged
  <2>2. n \in Fact /\ n <= g[result]
    <3>1. CASE Innermost.incoming # {}
      BY <2>1, <3>1, ResultTyped
    <3>2. CASE Innermost.incoming = {}
      <4>1. g = cur /\ n = cur[result] /\ cur[result] \in Fact
        BY <1>1, <3>2, ResultTyped DEF Fall
      <4> QED
        BY <4>1 DEF Fact
    <3> QED
      BY <3>1, <3>2
  <2> HIDE DEF exits, n
  <2> QED
    BY <1>1, <2>1, <2>2, WithResult
<1>4. PICK G : G = Extended(F)
  OBVIOUS
<1>5. ASSUME NEW j \in DOMAIN program, NEW g \in Waiting(program, Innermost, j)
      PROVE  Meets(G, j, g)'
  <2>1. j = pc' /\ g \in exits
    BY <1>1, <1>2, <1>5 DEF Waiting
  <2> QED
    BY <1>3, <2>1 DEF Meets
<1>6. reachable => reachable' /\ Below(cur', cur)
  BY <1>3 DEF Fall
<1>7. Solution(G)'
  BY <1>1, <1>4, <1>5, <1>6, SolvedEnd
<1> QED
  BY <1>7

LEMMA SolvedEndIf ==
  ASSUME Shape, Shape', EndIf, NEW F, Solution(F)
  PROVE  \E G : Solution(G)'
<1> DEFINE both == program[Innermost.at].match # pc
           exits == Fall \cup (IF both THEN Innermost.arm ELSE {Innermost.entry})
           facts == [Merge(exits) EXCEPT ![result] = IF both THEN @ ELSE 1]
<1>1. /\ pc \in DOMAIN program /\ mode = "analyse" /\ Here.op = "end" /\ Closes(Here)
      /\ pc' = pc + 1 /\ cur' = (IF exits = {} THEN cur ELSE facts) /\ reachable' = (exits # {})
      /\ UNCHANGED <<program, recorded>> /\ frames' = Outer
      /\ program[Innermost.at].op = "if" /\ cur \in Facts
  BY DEF EndIf, Walks, Continue, Closes, Shape
<1>2. exits \in SUBSET Facts /\ Innermost.close = pc
  BY <1>1, Closing DEF Fall, Shape
<1>3. ASSUME NEW g \in exits
      PROVE  reachable' /\ Below(cur', g)
  <2>1. g \in Facts /\ exits # {} /\ Merge(exits) \in Facts /\ Below(Merge(exits), g)
    BY <1>2, Merged
  <2>2. 1 \in Fact /\ 1 <= g[result]
    BY <2>1, ResultTyped
  <2>3. Below([Merge(exits) EXCEPT ![result] = 1], g)
    BY <2>1, <2>2, WithResult
  <2>4. [Merge(exits) EXCEPT ![result] = @] = Merge(exits)
    BY <2>1 DEF Facts
  <2> HIDE DEF exits, both
  <2> QED
    BY <1>1, <2>1, <2>3, <2>4
<1>4. PICK G : G = Extended(F)
  OBVIOUS
<1>5. ASSUME NEW j \in DOMAIN program, NEW g \in Waiting(program, Innermost, j)
      PROVE  Meets(G, j, g)'
  <2>1. j = pc' /\ g \in exits
    BY <1>1, <1>2, <1>5 DEF Waiting
  <2> QED
    BY <1>3, <2>1 DEF Meets
<1>6. reachable => reachable' /\ Below(cur', cur)
  BY <1>3 DEF Fall
<1>7. Solution(G)'
  BY <1>1, <1>4, <1>5, <1>6, SolvedEnd
<1> QED
  BY <1>7

LEMMA SolvedLeaveLoop ==
  ASSUME Shape, Shape', EndLoop, ~ Repeats(Innermost), NEW F, Solution(F)
  PROVE  \E G : Solution(G)'
<1> DEFINE S == {Innermost.entry} \cup Innermost.incoming
           at == Innermost.at
<1>1. /\ pc \in DOMAIN program /\ mode = "analyse" /\ Here.op = "end" /\ Closes(Here)
      /\ pc' = pc + 1 /\ cur' = cur /\ reachable' = reachable
      /\ UNCHANGED <<program, recorded>> /\ frames' = Outer
      /\ program[at].op = "loop" /\ cur \in Facts
  BY DEF EndLoop, Walks, Continue, Closes, Shape
<1>2. S \in SUBSET Facts /\ S # {} /\ Merge(S) = Innermost.header /\ Innermost = frames[Len(frames)]
      /\ Len(frames) \in DOMAIN frames
  BY <1>1, Closing DEF Repeats, Innermost
<1>3. Anchored(F, Innermost)
  BY <1>2 DEF Solution
<1>4. PICK G : G = Extended(F)
  OBVIOUS
<1>5. at + 1 \in DOMAIN G /\ G[at + 1] = Innermost.header
  <2>1. /\ \A i \in DOMAIN F : i \in DOMAIN G /\ G[i] = F[i]
        /\ reachable => pc \in DOMAIN G /\ G[pc] = cur
    BY <1>1, <1>4, ExtendedBy DEF Shape
  <2> QED
    BY <1>1, <1>3, <2>1 DEF Anchored
<1>6. ASSUME NEW j \in DOMAIN program, NEW g \in Waiting(program, Innermost, j)
      PROVE  Meets(G, j, g)'
  <2>1. j = at + 1 /\ g \in S
    BY <1>1, <1>6 DEF Waiting
  <2>2. Below(Innermost.header, g)
    BY <1>2, <2>1, Merged
  <2> QED
    BY <1>5, <2>1, <2>2 DEF Meets
<1>7. reachable => reachable' /\ Below(cur', cur)
  BY <1>1, BelowItself
<1>8. Solution(G)'
  BY <1>1, <1>4, <1>6, <1>7, SolvedEnd
<1> QED
  BY <1>8

\* What was found in a loop that is walked again is forgotten.
Forgotten(F, at) == [i \in {i \in DOMAIN F : i <= at} |-> F[i]]

LEMMA SolvedRepeatLoop ==
  ASSUME Shape, Shape', EndLoop, Repeats(Innermost), NEW F, Solution(F)
  PROVE  \E G : Solution(G)'
<1> DEFINE S == {Innermost.entry} \cup Innermost.incoming
           n == Len(frames)
<1>1. /\ pc \in DOMAIN program /\ mode = "analyse" /\ Here.op = "end" /\ Closes(Here)
      /\ pc' = Innermost.at + 1 /\ cur' = Merge(S) /\ reachable'
      /\ UNCHANGED <<program, recorded>>
      /\ program[Innermost.at].op = "loop" /\ program \in Programs
  BY DEF EndLoop, Walks, Continue, Closes, Shape
<1>2. /\ n \in DOMAIN frames /\ Innermost = frames[n] /\ Innermost \in Frame
      /\ Innermost.at \in DOMAIN program /\ Innermost.at < pc /\ Innermost.close = pc
      /\ S \in SUBSET Facts /\ S # {}
  BY <1>1, Closing DEF Innermost
<1>3. /\ DOMAIN frames' = DOMAIN frames /\ frames'[n] = Again
      /\ \A k \in DOMAIN frames : k # n => frames'[k] = frames[k]
  BY ShapeEndLoop
<1>4. /\ Again.at = Innermost.at /\ Again.entry = Innermost.entry /\ Again.header = Merge(S)
      /\ Again.incoming = {}
  BY <1>2 DEF Again, Frame
<1>5. Merge(S) \in Facts /\ Below(Merge(S), Innermost.entry)
  BY <1>2, Merged
<1>6. Nested(program, frames, pc)
  BY <1>1 DEF Shape
<1>7. Anchored(F, Innermost)
  BY <1>2 DEF Solution
<1>8. PICK at : at = Innermost.at
  OBVIOUS
<1>9. /\ at \in Nat /\ at \in DOMAIN program /\ at < pc /\ pc \in Nat /\ pc' = at + 1
      /\ program[at].op = "loop" /\ Opens(program[at])
  BY <1>1, <1>2, <1>8, Brackets DEF Opens
<1>10. program[at].match = pc
  BY <1>2, <1>6, <1>8, <1>9 DEF Nested
<1> HIDE DEF n
<1>11. PICK G : G = Forgotten(F, at)
  OBVIOUS
<1>12. /\ G \in [DOMAIN G -> Facts] /\ F \in [DOMAIN F -> Facts]
       /\ DOMAIN G = {i \in DOMAIN F : i <= at} /\ \A i \in DOMAIN G : G[i] = F[i]
       /\ DOMAIN F \subseteq DOMAIN program /\ DOMAIN program \subseteq Nat
  BY <1>1, <1>11, Brackets DEF Solution, Forgotten
<1>13. at \in DOMAIN G /\ G[at] = Innermost.entry
  BY <1>7, <1>8, <1>9, <1>12 DEF Anchored
<1>14. ASSUME NEW k \in DOMAIN frames, k # n
       PROVE  /\ frames[k].at \in Nat /\ frames[k].at < at
              /\ frames[k].close \in Nat /\ pc < frames[k].close /\ frames'[k] = frames[k]
  <2>1. frames[k].at \in DOMAIN program /\ frames[k].close \in DOMAIN program
    BY <1>1, Enclosing
  <2>2. k < n
    BY <1>2, <1>9, <1>14, <1>6, OuterCloses DEF Shape, n
  <2>3. pc < frames[k].close
    BY <1>1, <1>2, <1>9, <1>14, <1>6, OuterCloses DEF Shape, n
  <2>4. frames[k].at <= Opener(program, frames[k]) /\ Opener(program, frames[k]) < at
    BY <1>2, <1>6, <1>8, <2>2 DEF Nested
  <2>5. Opener(program, frames[k]) \in DOMAIN program
    BY <1>6 DEF Nested
  <2> QED
    BY <1>3, <1>9, <1>12, <1>14, <2>1, <2>3, <2>4, <2>5
<1>15. ASSUME NEW i \in DOMAIN G, NEW j \in Successors(program, i) \cap DOMAIN program,
              NEW out, out = Transfer(program[i], G[i])
       PROVE  Meets(G, j, out)'
  <2>1. /\ i \in DOMAIN F /\ i \in DOMAIN program /\ i <= at /\ i \in Nat /\ j \in Nat
        /\ out = Transfer(program[i], F[i])
    BY <1>12, <1>15
  <2>2. CASE i = at /\ j = at + 1
    <3>1. out = Innermost.entry
      BY <1>9, <1>13, <1>15, <2>2 DEF Transfer
    <3> QED
      BY <1>1, <1>5, <1>9, <2>2, <3>1 DEF Meets
  <2>3. CASE ~ (i = at /\ j = at + 1)
    <3>1. j <= at \/ pc < j
      BY <1>1, <1>9, <1>10, <1>15, <2>1, <2>3, LoopsEntered
    <3>2. Meets(F, j, out)
      BY <1>15, <2>1 DEF Solution
    <3>3. CASE j \in DOMAIN F /\ Below(F[j], out)
      <4>1. j < pc
        BY <3>3 DEF Solution
      <4> QED
        BY <1>9, <1>12, <2>1, <3>1, <3>3, <4>1 DEF Meets
    <3>4. j # pc
      BY <1>9, <2>1, <3>1
    <3>5. ASSUME NEW k \in DOMAIN frames, NEW g \in Waiting(program, frames[k], j), Below(g, out)
          PROVE  Meets(G, j, out)'
      <4>1. k # n
        BY <1>1, <1>2, <1>8, <1>9, <2>1, <3>1, <3>5 DEF Waiting
      <4>2. g \in Waiting(program', frames'[k], j)
        BY <1>1, <1>14, <3>5, <4>1
      <4> QED
        BY <1>3, <3>5, <4>2 DEF Meets
    <3> QED
      BY <3>2, <3>3, <3>4, <3>5 DEF Meets
  <2> QED
    BY <2>2, <2>3
<1>16. ASSUME NEW k \in DOMAIN frames'
       PROVE  Anchored(G, frames[k])'
  <2>1. CASE k = n
    BY <1>1, <1>3, <1>4, <1>5, <1>8, <1>9, <1>13, <2>1 DEF Anchored
  <2>2. CASE k # n
    <3>1. /\ frames[k].at \in Nat /\ frames[k].at < at /\ frames'[k] = frames[k]
          /\ k \in DOMAIN frames
      BY <1>3, <1>14, <2>2
    <3>2. Anchored(F, frames[k])
      BY <3>1 DEF Solution
    <3>3. frames[k].at \in DOMAIN G /\ G[frames[k].at] = F[frames[k].at]
      BY <1>9, <1>12, <3>1, <3>2 DEF Anchored
    <3>4. pc # frames[k].at + 1 /\ pc' # frames[k].at + 1
      BY <1>9, <3>1
    <3>5. ASSUME program[frames[k].at].op = "loop"
          PROVE  /\ Below(frames[k].header, frames[k].entry)
                 /\ frames[k].at + 1 \in DOMAIN G /\ G[frames[k].at + 1] = frames[k].header
      <4>1. /\ Below(frames[k].header, frames[k].entry)
            /\ frames[k].at + 1 \in DOMAIN F /\ F[frames[k].at + 1] = frames[k].header
        BY <3>2, <3>4, <3>5 DEF Anchored
      <4> QED
        BY <1>9, <1>12, <3>1, <4>1
    <3> QED
      BY <1>1, <3>1, <3>2, <3>3, <3>4, <3>5 DEF Anchored
  <2> QED
    BY <2>1, <2>2
<1>17. \A i \in DOMAIN G : \A j \in Successors(program, i) \cap DOMAIN program :
         Meets(G, j, Transfer(program[i], G[i]))'
  BY <1>1, <1>15 DEF Meets
<1>18. \A i \in DOMAIN G : i < pc' /\ (~ Closes(program[i]) => i \in DOMAIN recorded /\ recorded[i] = G[i])
  BY <1>9, <1>12 DEF Solution
<1>19. pc' # 1 /\ 1 \in DOMAIN G /\ G[1] = EntryFacts /\ EntryFacts' = EntryFacts
  <2>1. 1 <= at
    BY <1>1, <1>9, Brackets
  <2>2. 1 \in DOMAIN F /\ F[1] = EntryFacts
    BY <1>9, <2>1 DEF Solution
  <2> QED
    BY <1>9, <1>12, <2>1, <2>2 DEF EntryFacts
<1>20. Solution(G)'
  BY <1>1, <1>12, <1>16, <1>17, <1>18, <1>19 DEF Solution
<1> QED
  BY <1>20

-----------------------------------------------------------------------------
(* The execution keeps to the facts.                                       *)

\* What is left of a solution when nothing is waiting any more.
Solved(F) ==
  /\ F \in [DOMAIN F -> Facts] /\ DOMAIN F \subseteq DOMAIN program
  /\ \A i \in DOMAIN F :
       /\ ~ Closes(program[i]) => i \in DOMAIN recorded /\ recorded[i] = F[i]
       /\ \A j \in Successors(program, i) \cap DOMAIN program :
            j \in DOMAIN F /\ Below(F[j], Transfer(program[i], F[i]))
  /\ 1 \in DOMAIN program => 1 \in DOMAIN F /\ F[1] = EntryFacts

Fit(words, f) == \A x \in Place : words[x] % f[x] = 0

Fitting ==
  \E F : Solved(F) /\ (pc \in DOMAIN program => pc \in DOMAIN F /\ Fit(values, F[pc]))

\* Weaker facts still fit.
LEMMA FitBelow ==
  ASSUME NEW words \in [Place -> Word], NEW f \in Facts, NEW g \in Facts, Fit(words, f), Below(g, f)
  PROVE  Fit(words, g)
<1>1. ASSUME NEW x \in Place
      PROVE  words[x] % g[x] = 0
  <2>1. words[x] \in Nat /\ f[x] \in {1, 2, 4} /\ g[x] \in {1, 2, 4} /\ g[x] <= f[x]
    BY WordSize DEF Facts, Fact, Below
  <2>2. words[x] % f[x] = 0
    BY DEF Fit
  <2> QED
    BY <2>1, <2>2
<1> QED
  BY <1>1 DEF Fit

LEMMA FittingFinish ==
  ASSUME Shape, Finish, NEW F, Solution(F)
  PROVE  Fitting'
<1>1. /\ pc > Len(program) /\ mode = "analyse" /\ pc' = 1 /\ UNCHANGED <<program, recorded>>
      /\ Len(program) \in Nat /\ DOMAIN program = 1 .. Len(program) /\ pc = Len(program) + 1
  BY Brackets DEF Finish, Shape
<1>2. DOMAIN frames = {}
  <2>1. ASSUME NEW k \in DOMAIN frames
        PROVE  FALSE
    BY <1>1, Enclosing
  <2> QED
    BY <2>1
<1>3. ASSUME NEW i \in DOMAIN F, NEW j \in Successors(program, i) \cap DOMAIN program
      PROVE  j \in DOMAIN F /\ Below(F[j], Transfer(program[i], F[i]))
  <2>1. Meets(F, j, Transfer(program[i], F[i]))
    BY DEF Solution
  <2> QED
    BY <1>1, <1>2, <2>1 DEF Meets
<1>4. 1 \in DOMAIN program => 1 \in DOMAIN F /\ F[1] = EntryFacts
  BY <1>1 DEF Solution
<1>5. EntryFacts' = EntryFacts
  BY DEF EntryFacts
<1>6. Solved(F)'
  BY <1>1, <1>3, <1>4, <1>5 DEF Solved, Solution
<1>7. Fit(values', EntryFacts)
  <2>1. PICK arguments \in [Parameter -> Word] :
               values' = [x \in Place |-> IF x \in Parameter THEN arguments[x] ELSE 0]
    BY DEF Finish
  <2>2. ASSUME NEW x \in Place
        PROVE  values'[x] % EntryFacts[x] = 0
    <3>1. CASE x \in Parameter
      <4>1. arguments[x] \in Nat /\ values'[x] = arguments[x] /\ EntryFacts[x] = 1
        BY <2>1, <3>1, WordSize DEF EntryFacts
      <4> QED
        BY <4>1
    <3>2. CASE x \notin Parameter
      BY <2>1, <3>2 DEF EntryFacts
    <3> QED
      BY <3>1, <3>2
  <2> QED
    BY <2>2 DEF Fit
<1> QED
  BY <1>1, <1>4, <1>6, <1>7 DEF Fitting

\* An instruction leaves words that fit the facts after it.
LEMMA TransferFits ==
  ASSUME Shape, pc \in DOMAIN program, Execute, NEW f \in Facts, Fit(values, f)
  PROVE  Fit(values', Transfer(Here, f))
<1>1. CASE Here.op # "set"
  BY <1>1 DEF Execute, Transfer
<1>2. CASE Here.op = "set"
  <2> DEFINE a == ValueOf(Here.left)
             b == ValueOf(Here.right)
             left == FactOf(f, Here.left)
             right == FactOf(f, Here.right)
  <2>1. PICK w \in Outcomes(Here, a, b) : values' = [values EXCEPT ![Here.to] = w, ![result] = w]
    BY <1>2 DEF Execute
  <2>2. ASSUME NEW o \in Operand
        PROVE  ValueOf(o) \in Word /\ FactOf(f, o) \in Fact /\ ValueOf(o) % FactOf(f, o) = 0
    <3>1. CASE o.constant
      <4>1. o.of \in Word /\ o.of \in Nat
        BY <3>1, WordSize DEF Operand
      <4> QED
        BY <3>1, <4>1 DEF ValueOf, FactOf, WordAlignment, Fact
    <3>2. CASE ~ o.constant
      BY <3>2 DEF ValueOf, FactOf, Operand, Facts, Fit, Shape
    <3> QED
      BY <3>1, <3>2
  <2>3. /\ Here \in Instruction /\ Here.left \in Operand /\ Here.right \in Operand
        /\ Here.to \in Place
    BY Present
  <2>4. a \in Word /\ b \in Word /\ left \in Fact /\ right \in Fact /\ a % left = 0 /\ b % right = 0
    BY <2>2, <2>3
  <2>5. Here.right.constant => b = Here.right.of
    BY DEF ValueOf
  <2> HIDE DEF a, b, left, right
  <2>6. w % ResultOf(Here, left, right) = 0
    BY <2>3, <2>4, <2>5, OutcomesFit
  <2>7. Transfer(Here, f) = [f EXCEPT ![Here.to] = ResultOf(Here, left, right),
                                      ![result] = ResultOf(Here, left, right)]
    BY <1>2 DEF Transfer, left, right
  <2>8. values \in [Place -> Word]
    BY DEF Shape
  <2> DEFINE r == ResultOf(Here, left, right)
  <2> HIDE DEF r
  <2>9. ASSUME NEW x \in Place
        PROVE  values'[x] % Transfer(Here, f)[x] = 0
    <3>1. CASE x \in {Here.to, result}
      <4>1. values'[x] = w /\ Transfer(Here, f)[x] = r
        BY <2>1, <2>7, <2>8, <3>1 DEF Facts, r
      <4> QED
        BY <2>6, <4>1 DEF r
    <3>2. CASE x \notin {Here.to, result}
      <4>1. values'[x] = values[x] /\ Transfer(Here, f)[x] = f[x]
        BY <2>1, <2>7, <2>8, <3>2 DEF Facts
      <4> QED
        BY <4>1 DEF Fit
    <3> QED
      BY <3>1, <3>2
  <2> QED
    BY <2>9 DEF Fit
<1> QED
  BY <1>1, <1>2

LEMMA FittingExecute ==
  ASSUME Shape, Shape', Execute, Fitting
  PROVE  Fitting'
<1>1. /\ pc \in DOMAIN program /\ pc' \in Successors(program, pc)
      /\ UNCHANGED <<program, recorded>>
  BY DEF Execute
<1>2. PICK F : Solved(F) /\ pc \in DOMAIN F /\ Fit(values, F[pc])
  BY <1>1 DEF Fitting
<1>3. F \in [DOMAIN F -> Facts] /\ F[pc] \in Facts /\ Here \in Instruction
  BY <1>1, <1>2, Present DEF Solved
<1>4. Fit(values', Transfer(Here, F[pc])) /\ Transfer(Here, F[pc]) \in Facts
  BY <1>1, <1>2, <1>3, TransferFits, TransferTypes
<1>5. ASSUME pc' \in DOMAIN program
      PROVE  pc' \in DOMAIN F /\ Fit(values', F[pc'])
  <2>1. pc' \in DOMAIN F /\ Below(F[pc'], Transfer(Here, F[pc]))
    BY <1>1, <1>2, <1>5 DEF Solved, Here
  <2> QED
    BY <1>3, <1>4, <2>1, FitBelow DEF Shape
<1>6. Solved(F)'
  <2>1. EntryFacts' = EntryFacts
    BY DEF EntryFacts
  <2> QED
    BY <1>1, <1>2, <2>1 DEF Solved
<1> QED
  BY <1>1, <1>5, <1>6 DEF Fitting

Sound ==
  /\ mode = "analyse" => \E F : Solution(F)
  /\ mode = "run" => Fitting

LEMMA SoundStep ==
  ASSUME DefaultsNamed, Shape, Shape', Sound, [Next]_vars
  PROVE  Sound'
<1>1. CASE /\ Skip \/ AnalyseSet \/ Open \/ AnalyseBranch \/ AnalyseReturn
              \/ Else \/ EndBlock \/ EndIf \/ EndLoop
  <2>1. mode = "analyse" /\ mode' = "analyse"
    BY <1>1 DEF Skip, AnalyseSet, Open, AnalyseBranch, AnalyseReturn, Else, EndBlock, EndIf,
                EndLoop, Walks, Continue
  <2>2. PICK F : Solution(F)
    BY <2>1 DEF Sound
  <2>3. \E G : Solution(G)'
    BY <1>1, <2>2, SolvedSkip, SolvedSet, SolvedOpen, SolvedBranch, SolvedReturn, SolvedElse,
       SolvedEndBlock, SolvedEndIf, SolvedLeaveLoop, SolvedRepeatLoop
  <2> QED
    BY <2>1, <2>3 DEF Sound
<1>2. CASE Finish
  <2>1. mode = "analyse" /\ mode' = "run"
    BY <1>2 DEF Finish
  <2> QED
    BY <1>2, <2>1, FittingFinish DEF Sound
<1>3. CASE Execute
  <2>1. mode = "run" /\ mode' = "run"
    BY <1>3 DEF Execute
  <2> QED
    BY <1>3, <2>1, FittingExecute DEF Sound
<1>4. CASE Leave
  BY <1>4 DEF Leave, Sound
<1>5. CASE UNCHANGED vars
  <2>1. EntryFacts' = EntryFacts
    BY DEF EntryFacts
  <2>2. ASSUME NEW F, Solution(F)
        PROVE  Solution(F)'
    BY <1>5, <2>1, <2>2 DEF vars, Solution, Meets, Anchored
  <2>3. ASSUME NEW F, Solved(F)
        PROVE  Solved(F)'
    BY <1>5, <2>1, <2>3 DEF vars, Solved
  <2> QED
    BY <1>5, <2>2, <2>3 DEF vars, Sound, Fitting
<1> QED
  BY <1>1, <1>2, <1>3, <1>4, <1>5 DEF Next, Analyse

\* The facts that initialize_local_alignments leaves at an instruction hold of
\* every word that a place has whenever control gets there: no load or store
\* that was lowered without its byte path has an address between two words.  For
\* every function, number of locals and width of a word; a br_table names its
\* default among the targets that the analysis looks at.
THEOREM RecordedFactsHold ==
  DefaultsNamed => (Spec => []FactsHold)
<1> SUFFICES ASSUME DefaultsNamed
             PROVE  Spec => []FactsHold
  OBVIOUS
<1>1. Init => Shape /\ Sound
  <2>1. Init => mode = "analyse"
    BY DEF Init
  <2> QED
    BY <2>1, ShapeStart, SolvedStart DEF Sound
<1>2. Shape /\ Sound /\ [Next]_vars => Shape' /\ Sound'
  BY ShapeStep, SoundStep
<1>3. Shape /\ Sound => FactsHold
  <2> SUFFICES ASSUME Shape, Sound, mode = "run", pc \in DOMAIN program,
                      Here.op \notin {"else", "end"}
               PROVE  pc \in DOMAIN recorded /\ \A x \in Place : values[x] % recorded[pc][x] = 0
    BY DEF FactsHold
  <2>1. PICK F : Solved(F) /\ pc \in DOMAIN F /\ Fit(values, F[pc])
    BY DEF Sound, Fitting
  <2>2. ~ Closes(program[pc])
    BY DEF Closes, Here
  <2> QED
    BY <2>1, <2>2 DEF Solved, Fit
<1> QED
  BY <1>1, <1>2, <1>3, PTL DEF Spec
=============================================================================
