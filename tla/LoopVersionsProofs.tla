------------------------- MODULE LoopVersionsProofs -------------------------
(***************************************************************************)
(* For every loop that PlainLoop does not leave out, any width of a word   *)
(* and any size of memory, the fast copy of LoopVersions accesses what the *)
(* Wasm loop accesses, and stays inside memory without a check.            *)
(***************************************************************************)
EXTENDS LoopVersions, FiniteSetTheorems, WellFoundedInduction, TLAPS

-----------------------------------------------------------------------------
(* Numbers.                                                                *)

LEMMA Minimum ==
  ASSUME NEW T, T \subseteq Nat, T # {}
  PROVE  \E n \in T : \A j \in T : n <= j
<1> DEFINE R == OpToRel(<, Nat)
<1>1. IsWellFoundedOn(R, Nat)
  BY NatLessThanWellFounded
<1>2. \A i, j \in Nat : <<j, i>> \in R <=> j < i
  BY DEF OpToRel
<1> HIDE DEF R
<1>3. PICK n \in T : \A j \in T : <<j, n>> \notin R
  BY <1>1, WFMin
<1>4. \A j \in T : ~ (j < n) /\ j \in Nat /\ n \in Nat
  BY <1>2, <1>3
<1>5. \A j \in T : n <= j
  BY <1>4
<1> QED
  BY <1>5

LEMMA WordsFacts == Words \in Nat \ {0} /\ Word = 0 .. Words - 1
<1> HIDE DEF Words
<1>1. Words \in Nat /\ Words \div 2 >= 8
  BY ConstantAssumption
<1> QED
  BY <1>1 DEF Word

LEMMA NoMultiple ==
  ASSUME NEW k \in Int, NEW m \in Nat \ {0}, NEW d \in Int, k * m = d, - m < d, d < m
  PROVE  k = 0
<1> DEFINE p == k * m
<1>1. k >= 1 => p >= m
  OBVIOUS
<1>2. k <= -1 => p <= - m
  OBVIOUS
<1> QED
  BY <1>1, <1>2

LEMMA Remainder ==
  ASSUME NEW a \in Int, NEW m \in Int, m > 0
  PROVE  \E k \in Int : a = k * m + (a % m)
  OBVIOUS

\* Wrapping early or late is the same.
LEMMA WrapSums ==
  ASSUME NEW a \in Int, NEW c \in Int, NEW m \in Nat \ {0}
  PROVE  ((a % m) + c) % m = (a + c) % m
<1> DEFINE r == a % m
           x == r + c
           y == a + c
<1>0. m \in Int /\ m > 0
  OBVIOUS
<1>1. PICK q \in Int : a = q * m + r
  BY <1>0, Remainder
<1>2. r \in Int /\ x \in Int /\ y \in Int
  OBVIOUS
<1> DEFINE s == x % m
           t == y % m
<1>3. PICK u \in Int : x = u * m + s
  <2> HIDE DEF x
  <2> QED
    BY <1>0, <1>2, Remainder
<1>4. PICK v \in Int : y = v * m + t
  <2> HIDE DEF y
  <2> QED
    BY <1>0, <1>2, Remainder
<1>5. s \in 0 .. m - 1 /\ t \in 0 .. m - 1
  <2> HIDE DEF x, y
  <2> QED
    BY <1>2
<1>6. (v - u - q) * m = s - t
  <2> DEFINE um == u * m
             vm == v * m
             qm == q * m
  <2>1. (v - u - q) * m = vm - um - qm
    OBVIOUS
  <2>2. um \in Int /\ vm \in Int /\ qm \in Int
    OBVIOUS
  <2>3. a = qm + r /\ x = um + s /\ y = vm + t /\ x = r + c /\ y = a + c
    BY <1>1, <1>3, <1>4
  <2> HIDE DEF um, vm, qm, s, t, x, y, r
  <2>4. vm - um - qm = s - t
    BY <1>2, <1>5, <2>2, <2>3
  <2> QED
    BY <2>1, <2>4
<1>7. v - u - q = 0
  <2> HIDE DEF s, t
  <2>1. s - t \in Int /\ - m < s - t /\ s - t < m
    BY <1>5
  <2> QED
    BY <1>6, <2>1, NoMultiple
<1>8. s = t
  <2> HIDE DEF s, t
  <2> QED
    BY <1>5, <1>6, <1>7
<1> QED
  BY <1>8

LEMMA Wraps ==
  /\ \A a \in Int : a % Words \in Word
  /\ \A a \in Word : a % Words = a /\ a \in Nat
  /\ \A a, c \in Int : ((a % Words) + c) % Words = (a + c) % Words
<1>1. \A m \in Nat \ {0} :
        /\ \A a \in Int : a % m \in 0 .. m - 1
        /\ \A a \in 0 .. m - 1 : a % m = a /\ a \in Nat
  OBVIOUS
<1> QED
  BY <1>1, WordsFacts, WrapSums

LEMMA WordNumbers == \A a \in Word : a \in Nat /\ a \in Int
  BY Wraps

LEMMA WrapsIn == \A a \in Int : a % Words \in Word /\ a % Words \in Int
  BY Wraps, WordNumbers

\* Wrapping inside of a sum.
LEMMA WrapsInside ==
  ASSUME NEW a \in Int, NEW b \in Int, NEW c \in Int
  PROVE  (((a + b) % Words) + c) % Words = (a + ((b + c) % Words)) % Words
<1> DEFINE r == (b + c) % Words
<1>1. a + b \in Int /\ b + c \in Int
  OBVIOUS
<1>2. (((a + b) % Words) + c) % Words = ((a + b) + c) % Words
  BY <1>1, Wraps
<1>3. (r + a) % Words = ((b + c) + a) % Words
  BY <1>1, Wraps
<1>4. r \in Int
  BY <1>1, WrapsIn
<1> HIDE DEF r
<1>5. r + a = a + r /\ (a + b) + c = (b + c) + a
  BY <1>4
<1>6. (((a + b) % Words) + c) % Words = (a + r) % Words
  BY <1>2, <1>3, <1>5
<1> QED
  BY <1>6 DEF r

-----------------------------------------------------------------------------
(* Least and greatest.                                                     *)

LEMMA LeastOf ==
  ASSUME NEW S, \E n \in S : \A m \in S : n <= m
  PROVE  Least(S) \in S /\ \A m \in S : Least(S) <= m
  BY DEF Least

LEMMA GreatestOf ==
  ASSUME NEW S, \E n \in S : \A m \in S : m <= n
  PROVE  Greatest(S) \in S /\ \A m \in S : m <= Greatest(S)
  BY DEF Greatest

\* Numbers given to some of the indices of a sequence have a least.
LEMMA LeastNumber ==
  ASSUME NEW n \in Nat, NEW G, G \subseteq 1 .. n, G # {}, NEW f, \A k \in G : f[k] \in Int
  PROVE  \E g \in G : \A h \in G : f[g] <= f[h]
<1> DEFINE Upto(m) == G \cap (1 .. m)
           HasLeast(m) == \E g \in Upto(m) : \A h \in Upto(m) : f[g] <= f[h]
           T == {m \in Nat : Upto(m) # {} /\ ~ HasLeast(m)}
<1>1. Upto(n) = G
  OBVIOUS
<1>2. SUFFICES T = {}
  <2> HIDE DEF Upto
  <2> QED
    BY <1>1
<1>3. SUFFICES ASSUME T # {}
               PROVE  FALSE
  OBVIOUS
<1>4. PICK m \in T : \A j \in T : m <= j
  <2>1. T \subseteq Nat
    OBVIOUS
  <2> HIDE DEF T
  <2> QED
    BY <1>3, <2>1, Minimum
<1>5. m \in Nat /\ Upto(m) # {} /\ ~ HasLeast(m)
  OBVIOUS
<1>6. m # 0
  BY <1>5
<1> DEFINE j == m - 1
<1>7. j \in Nat /\ j < m
  BY <1>5, <1>6
<1>8. Upto(j) = {} \/ HasLeast(j)
  <2> HIDE DEF T, Upto, HasLeast
  <2>1. j \notin T
    BY <1>4, <1>5, <1>7
  <2> QED
    BY <1>7, <2>1 DEF T
<1>9. Upto(m) \subseteq Upto(j) \cup {m} /\ Upto(j) \subseteq Upto(m)
  BY <1>5, <1>7
<1>10. \A k \in Upto(m) : f[k] \in Int
  OBVIOUS
<1>11. m \in Upto(m)
  <2>1. CASE Upto(j) = {}
    BY <1>5, <1>9, <2>1
  <2>2. CASE HasLeast(j) /\ m \notin Upto(m)
    <3>1. Upto(m) = Upto(j)
      BY <1>9, <2>2
    <3> HIDE DEF Upto
    <3> QED
      BY <1>5, <2>2, <3>1
  <2> QED
    BY <1>8, <2>1, <2>2
<1> HIDE DEF Upto
<1>12. CASE Upto(j) = {}
  <2>1. Upto(m) = {m}
    BY <1>9, <1>11, <1>12
  <2> QED
    BY <1>5, <1>10, <2>1
<1>13. CASE HasLeast(j)
  <2>1. PICK g \in Upto(j) : \A h \in Upto(j) : f[g] <= f[h]
    BY <1>13
  <2>2. CASE f[g] <= f[m]
    BY <1>5, <1>9, <2>1, <2>2
  <2>3. CASE f[m] < f[g]
    <3>1. \A h \in Upto(m) : f[m] <= f[h]
      BY <1>9, <1>10, <1>11, <2>1, <2>3
    <3> QED
      BY <1>5, <1>11, <3>1
  <2> QED
    BY <1>9, <1>10, <1>11, <2>1, <2>2, <2>3
<1> QED
  BY <1>8, <1>12, <1>13

LEMMA GreatestNumber ==
  ASSUME NEW n \in Nat, NEW G, G \subseteq 1 .. n, G # {}, NEW f, \A k \in G : f[k] \in Int
  PROVE  \E g \in G : \A h \in G : f[h] <= f[g]
<1> DEFINE e == [k \in G |-> - f[k]]
<1>1. \A k \in G : e[k] \in Int /\ f[k] \in Int /\ e[k] = - f[k]
  OBVIOUS
<1> HIDE DEF e
<1>2. PICK g \in G : \A h \in G : e[g] <= e[h]
  BY <1>1, LeastNumber
<1>3. \A h \in G : f[h] <= f[g]
  BY <1>1, <1>2
<1> QED
  BY <1>3

-----------------------------------------------------------------------------
(* The scan.                                                               *)

Known == [valid : BOOLEAN, local : Local \cup {none}, off : Int]

LEMMA LoopFacts ==
  ASSUME NEW l \in Loops
  PROVE  /\ l.body \in Seq(Statement) /\ Len(l.body) \in Nat /\ DOMAIN l.body = 1 .. Len(l.body)
         /\ \A k \in DOMAIN l.body : l.body[k] \in Statement
         /\ l.counter \in Local /\ l.trip \in {"countdown", "increment", "exit countdown"}
<1>1. l \in Loop
  BY LoopAssumption
<1>2. /\ l.body \in Seq(Statement)
      /\ l.counter \in Local /\ l.trip \in {"countdown", "increment", "exit countdown"}
  BY <1>1 DEF Loop
<1> DEFINE b == l.body
<1>3. b \in Seq(Statement)
  BY <1>2
<1> HIDE DEF b
<1>4. Len(b) \in Nat /\ DOMAIN b = 1 .. Len(b) /\ \A k \in 1 .. Len(b) : b[k] \in Statement
  BY <1>3
<1> QED
  BY <1>2, <1>4 DEF b

LEMMA StatementFacts ==
  ASSUME NEW s \in Statement
  PROVE  /\ s.at.loaded \in BOOLEAN /\ s.at.local \in Local /\ s.at.off \in Int
         /\ s.at.tee \in Local \cup {none} /\ s.at \in Pointer
         /\ s.offset \in Nat /\ s.width \in Nat /\ s.width > 0 /\ s.local \in Local
         /\ s.guarded \in BOOLEAN
  BY DEF Statement, Pointer

LEMMA LoadedPointerType ==
  ASSUME NEW a \in [Local -> Known], NEW at \in Pointer
  PROVE  LoadedPointer(a, at) \in Known
  BY DEF LoadedPointer, Known, NotLoaded, Pointer

\* The aliases after one more statement.
AliasesWith(l, before, k) ==
  LET s == l.body[k]
      p == LoadedPointer(before, s.at)
  IN IF k \in Accesses(l) /\ p.valid /\ s.at.tee # none
     THEN [before EXCEPT ![s.at.tee] = p] ELSE before

LEMMA AliasesWithType ==
  ASSUME NEW l \in Loops, NEW a \in [Local -> Known], NEW k \in DOMAIN l.body
  PROVE  AliasesWith(l, a, k) \in [Local -> Known]
<1>1. l.body[k] \in Statement
  BY LoopFacts
<1>2. LoadedPointer(a, l.body[k].at) \in Known /\ l.body[k].at.tee \in Local \cup {none}
  BY <1>1, StatementFacts, LoadedPointerType
<1> QED
  BY <1>2 DEF AliasesWith

\* What the scan knows about aliases is defined after every statement.
LEMMA AliasesType ==
  ASSUME NEW l \in Loops
  PROVE  AliasesOf(l) \in [0 .. Len(l.body) -> [Local -> Known]]
<1> DEFINE n == Len(l.body)
           None == [x \in Local |-> NotLoaded]
           With(g, k) == IF k = 0 THEN None ELSE AliasesWith(l, g[k - 1], k)
           Table == [Local -> Known]
           Good(m) == \E g \in [0 .. m -> Table] : \A k \in 0 .. m : g[k] = With(g, k)
           T == {m \in Nat : m <= n /\ ~ Good(m)}
<1>1. None \in Table
  BY DEF NotLoaded, Known
<1>2. \A a \in Table, k \in 1 .. n : AliasesWith(l, a, k) \in Table
  BY AliasesWithType, LoopFacts
<1>3. n \in Nat
  BY LoopFacts
<1>4. T = {}
  <2>1. SUFFICES ASSUME T # {}
                 PROVE  FALSE
    OBVIOUS
  <2>2. PICK m \in T : \A j \in T : m <= j
    <3>1. T \subseteq Nat
      OBVIOUS
    <3> HIDE DEF T
    <3> QED
      BY <2>1, <3>1, Minimum
  <2>3. m \in Nat /\ m <= n /\ ~ Good(m)
    OBVIOUS
  <2> HIDE DEF Table, None
  <2>4. CASE m = 0
    <3> DEFINE g == [k \in 0 .. 0 |-> None]
    <3>1. g \in [0 .. 0 -> Table] /\ \A k \in 0 .. 0 : g[k] = With(g, k)
      BY <1>1
    <3> HIDE DEF g, With
    <3>2. Good(0)
      BY <3>1
    <3> QED
      BY <2>3, <2>4, <3>2
  <2>5. CASE m # 0
    <3> DEFINE j == m - 1
    <3>1. j \in Nat /\ j < m /\ j <= n /\ m \in 1 .. n /\ m = j + 1
      BY <1>3, <2>3, <2>5
    <3>2. Good(j)
      <4> HIDE DEF Good
      <4>1. j \notin T
        <5> HIDE DEF T
        <5> QED
          BY <2>2, <2>3, <3>1
      <4> QED
        BY <3>1, <4>1
    <3>3. PICK g \in [0 .. j -> Table] : \A k \in 0 .. j : g[k] = With(g, k)
      BY <3>2
    <3> DEFINE h == [k \in 0 .. m |-> IF k = m THEN AliasesWith(l, g[j], m) ELSE g[k]]
    <3> HIDE DEF j
    <3>4. \A k \in 0 .. m : k = m \/ k \in 0 .. j
      BY <2>3, <3>1
    <3>5. h \in [0 .. m -> Table]
      BY <1>2, <3>1, <3>3, <3>4
    <3>6. \A k \in 0 .. j : h[k] = g[k] /\ (k # 0 => k - 1 \in 0 .. j)
      BY <2>3, <3>1
    <3>7. h[m] = AliasesWith(l, h[j], m) /\ m - 1 = j /\ m # 0
      BY <2>3, <3>1, <3>6
    <3>8. \A k \in 0 .. m : h[k] = With(h, k)
      <4> SUFFICES ASSUME NEW k \in 0 .. m
                   PROVE  h[k] = With(h, k)
        OBVIOUS
      <4> HIDE DEF h
      <4>1. CASE k = m
        BY <3>7, <4>1
      <4>2. CASE k \in 0 .. j
        BY <3>3, <3>6, <4>2
      <4> QED
        BY <3>4, <4>1, <4>2
    <3> HIDE DEF h, With
    <3>9. Good(m)
      BY <3>5, <3>8
    <3> QED
      BY <2>3, <3>9
  <2> QED
    BY <2>4, <2>5
<1>5. \E h : h = [k \in 0 .. n |-> With(h, k)]
  <2>1. Good(n)
    <3> HIDE DEF Good
    <3> QED
      BY <1>3, <1>4
  <2>2. PICK g \in [0 .. n -> Table] : \A k \in 0 .. n : g[k] = With(g, k)
    BY <2>1
  <2>3. g = [k \in 0 .. n |-> With(g, k)]
    <3> HIDE DEF With, Table
    <3> QED
      BY <2>2
  <2> QED
    BY <2>3
<1>6. AliasesOf(l) = CHOOSE h : h = [k \in 0 .. n |-> With(h, k)]
  BY DEF AliasesOf, AliasesWith
<1> DEFINE a == AliasesOf(l)
<1>7. a = [k \in 0 .. n |-> With(a, k)]
  <2> HIDE DEF With, n
  <2> QED
    BY <1>5, <1>6
<1>8. \A k \in 0 .. n : a[k] = With(a, k)
  <2> HIDE DEF With, a
  <2> QED
    BY <1>7
<1>9. \A k \in 0 .. n : a[k] \in Table
  <2> DEFINE U == {k \in 0 .. n : a[k] \notin Table}
  <2>1. SUFFICES ASSUME U # {}
                 PROVE  FALSE
    OBVIOUS
  <2>2. U \subseteq Nat
    BY <1>3
  <2>3. PICK k \in U : \A j \in U : k <= j
    <3> HIDE DEF U
    <3> QED
      BY <2>1, <2>2, Minimum
  <2>4. k \in 0 .. n /\ a[k] \notin Table
    OBVIOUS
  <2> HIDE DEF Table, a, None
  <2>5. CASE k = 0
    BY <1>1, <1>8, <2>4, <2>5
  <2>6. CASE k # 0
    <3>1. k - 1 \in 0 .. n /\ k \in 1 .. n /\ ~(k <= k - 1)
      BY <1>3, <2>4, <2>6
    <3>2. k - 1 \notin U
      <4> HIDE DEF U
      <4> QED
        BY <2>3, <3>1
    <3>3. a[k - 1] \in Table
      BY <3>1, <3>2
    <3>4. a[k] = AliasesWith(l, a[k - 1], k)
      BY <1>8, <2>4, <2>6
    <3> QED
      BY <1>2, <2>4, <3>1, <3>3, <3>4
  <2> QED
    BY <2>5, <2>6
<1> QED
  <2> HIDE DEF a, With, Table
  <2>1. a \in [0 .. n -> Table]
    BY <1>7, <1>9
  <2> QED
    BY <2>1 DEF a, Table

LEMMA IndicesFinite ==
  ASSUME NEW n \in Nat, NEW S, S \subseteq 1 .. n
  PROVE  IsFiniteSet(S) /\ Cardinality(S) \in Nat /\ (S # {} => \E k \in S : \A j \in S : k <= j)
<1>1. IsFiniteSet(1 .. n)
  BY FS_Interval
<1>2. IsFiniteSet(S)
  BY <1>1, FS_Subset
<1>3. Cardinality(S) \in Nat
  BY <1>2, FS_CardinalityType
<1>4. S \subseteq Nat
  OBVIOUS
<1> QED
  BY <1>2, <1>3, <1>4, Minimum

LEMMA AssignmentsAre ==
  ASSUME NEW l \in Loops, NEW x, Cardinality(Assignments(l, x)) = 1
  PROVE  \E j : Assignments(l, x) = {j}
<1>1. Assignments(l, x) \subseteq 1 .. Len(l.body) + 1 /\ Len(l.body) + 1 \in Nat
  <2> DEFINE n == Len(l.body)
  <2>1. n \in Nat /\ DOMAIN l.body = 1 .. n
    BY LoopFacts
  <2>2. Assignments(l, x) \subseteq DOMAIN l.body \cup {n + 1}
    BY DEF Assignments, Accesses
  <2> HIDE DEF n
  <2>3. Assignments(l, x) \subseteq 1 .. n + 1 /\ n + 1 \in Nat
    BY <2>1, <2>2
  <2> QED
    BY <2>3 DEF n
<1>2. IsFiniteSet(Assignments(l, x))
  BY <1>1, IndicesFinite
<1> QED
  BY <1>2, FS_Singleton

\* The stride is one statement of the body.
LEMMA StrideFacts ==
  ASSUME NEW l \in Loops, NEW x, Strided(l, x)
  PROVE  /\ x \in Local /\ x # l.counter
         /\ \E j \in DOMAIN l.body :
              /\ Assignments(l, x) = {j}
              /\ l.body[j].op # "any" /\ l.body[j].at.local = x /\ ~ l.body[j].at.loaded
              /\ Stride(l, x) = l.body[j].at.off
         /\ Stride(l, x) \in Nat \ {0}
<1>1. PICK j : Assignments(l, x) = {j}
  BY AssignmentsAre DEF Strided
<1>2. x # l.counter
  BY DEF Strided
<1>3. j \in DOMAIN l.body
  BY <1>1, <1>2 DEF Assignments, Accesses
<1>4. /\ l.body[j].op # "any" /\ l.body[j].at.local = x /\ ~ l.body[j].at.loaded
      /\ l.body[j].at.off > 0
  BY <1>1 DEF Strided
<1>5. Stride(l, x) = l.body[j].at.off
  BY <1>1 DEF Stride
<1>6. l.body[j].at.local \in Local /\ l.body[j].at.off \in Int
  BY <1>3, LoopFacts, StatementFacts
<1> QED
  BY <1>1, <1>2, <1>3, <1>4, <1>5, <1>6

LEMMA GroupFacts ==
  ASSUME NEW l \in Loops, NEW x
  PROVE  /\ GroupOf(l, x) \subseteq DOMAIN l.body
         /\ Cardinality(GroupOf(l, x)) \in Nat
         /\ GroupOf(l, x) # {} => First(l, x) \in GroupOf(l, x)
<1>1. GroupOf(l, x) \subseteq 1 .. Len(l.body) /\ Len(l.body) \in Nat /\ DOMAIN l.body = 1 .. Len(l.body)
  BY LoopFacts DEF GroupOf, Affine, Accesses
<1>2. /\ Cardinality(GroupOf(l, x)) \in Nat
      /\ GroupOf(l, x) # {} => \E k \in GroupOf(l, x) : \A j \in GroupOf(l, x) : k <= j
  BY <1>1, IndicesFinite
<1> QED
  BY <1>1, <1>2, LeastOf DEF First

\* There is a best candidate.
LEMMA BestFacts ==
  ASSUME NEW l \in Loops, Candidates(l) # {}
  PROVE  Best(l) \in Candidates(l)
<1> DEFINE n == Len(l.body)
           base(k) == l.body[k].at.local
           G == {k \in Affine(l) : base(k) \in Candidates(l)}
           count == [k \in G |-> Cardinality(GroupOf(l, base(k)))]
           first == [k \in G |-> First(l, base(k))]
<1>1. n \in Nat /\ G \subseteq 1 .. n /\ DOMAIN l.body = 1 .. n
  BY LoopFacts DEF Affine, Accesses
<1>2. \A x \in Candidates(l) : \E k \in G : base(k) = x
  BY DEF Candidates, Bases
<1>3. G # {}
  <2> HIDE DEF G
  <2> QED
    BY <1>2
<1>4. \A k \in G : /\ count[k] = Cardinality(GroupOf(l, base(k))) /\ count[k] \in Int
                   /\ first[k] = First(l, base(k)) /\ first[k] \in Int
  <2> SUFFICES ASSUME NEW k \in G
               PROVE  /\ Cardinality(GroupOf(l, base(k))) \in Int
                      /\ First(l, base(k)) \in Int
    OBVIOUS
  <2>1. k \in GroupOf(l, base(k))
    BY DEF GroupOf
  <2>2. /\ GroupOf(l, base(k)) \subseteq 1 .. n /\ Cardinality(GroupOf(l, base(k))) \in Nat
        /\ GroupOf(l, base(k)) # {} => First(l, base(k)) \in GroupOf(l, base(k))
    BY <1>1, GroupFacts
  <2> HIDE DEF n, base
  <2> QED
    BY <1>1, <2>1, <2>2
<1> HIDE DEF G, count, first, n
<1>5. PICK g \in G : \A k \in G : count[k] <= count[g]
  BY <1>1, <1>3, <1>4, GreatestNumber
<1> DEFINE H == {k \in G : count[k] = count[g]}
<1>6. PICK h \in H : \A k \in H : first[h] <= first[k]
  <2>1. H \subseteq 1 .. n /\ H # {} /\ \A k \in H : first[k] \in Int
    BY <1>1, <1>4
  <2> HIDE DEF H
  <2> QED
    BY <1>1, <2>1, LeastNumber
<1>7. \A k \in G : count[k] < count[h] \/ (count[k] = count[h] /\ first[h] <= first[k])
  BY <1>4, <1>5, <1>6
<1>8. base(h) \in Candidates(l)
  BY <1>6 DEF G
<1>9. \A y \in Candidates(l) :
        \/ Cardinality(GroupOf(l, y)) < Cardinality(GroupOf(l, base(h)))
        \/ /\ Cardinality(GroupOf(l, y)) = Cardinality(GroupOf(l, base(h)))
           /\ First(l, base(h)) <= First(l, y)
  <2> SUFFICES ASSUME NEW y \in Candidates(l)
               PROVE  \/ Cardinality(GroupOf(l, y)) < Cardinality(GroupOf(l, base(h)))
                      \/ /\ Cardinality(GroupOf(l, y)) = Cardinality(GroupOf(l, base(h)))
                         /\ First(l, base(h)) <= First(l, y)
    OBVIOUS
  <2>1. PICK k \in G : base(k) = y
    BY <1>2
  <2> QED
    BY <1>4, <1>6, <1>7, <2>1
<1> QED
  BY <1>8, <1>9 DEF Best

LEMMA ImageEnds ==
  ASSUME NEW n \in Nat, NEW G, G \subseteq 1 .. n, G # {}, NEW f, \A k \in G : f[k] \in Int
  PROVE  Least({f[k] : k \in G}) \in Int /\ Greatest({f[k] : k \in G}) \in Int
<1>1. \E g \in G : \A h \in G : f[g] <= f[h]
  BY LeastNumber
<1>2. \E g \in G : \A h \in G : f[h] <= f[g]
  BY GreatestNumber
<1> DEFINE S == {f[k] : k \in G}
<1>3. S \subseteq Int
  OBVIOUS
<1>4. \E m \in S : \A j \in S : m <= j
  BY <1>1
<1>5. \E m \in S : \A j \in S : j <= m
  BY <1>2
<1> HIDE DEF S
<1>6. Least(S) \in S /\ Greatest(S) \in S
  BY <1>4, <1>5, LeastOf, GreatestOf
<1> QED
  BY <1>3, <1>6 DEF S

LEMMA CandidateFacts ==
  ASSUME NEW l \in Loops, NEW x \in Candidates(l)
  PROVE  /\ Strided(l, x)
         /\ Greatest({End(l.body[k], l.body[k].at.off) : k \in GroupOf(l, x)}) \in Int
<1> DEFINE n == Len(l.body)
           G == GroupOf(l, x)
           f == [k \in G |-> End(l.body[k], l.body[k].at.off)]
<1>1. n \in Nat /\ DOMAIN l.body = 1 .. n
  BY LoopFacts
<1>2. G \subseteq 1 .. n
  BY <1>1, GroupFacts
<1>3. G # {}
  <2>1. Cardinality(G) >= 2
    BY DEF Candidates
  <2> QED
    BY <2>1, FS_EmptySet
<1>4. \A k \in G : f[k] \in Int /\ f[k] = End(l.body[k], l.body[k].at.off)
  <2> SUFFICES ASSUME NEW k \in G
               PROVE  End(l.body[k], l.body[k].at.off) \in Int
    OBVIOUS
  <2>1. l.body[k] \in Statement
    BY <1>1, <1>2, LoopFacts
  <2>2. l.body[k].at.off \in Int /\ l.body[k].offset \in Int /\ l.body[k].width \in Int
    BY <2>1, StatementFacts
  <2> QED
    BY <2>2 DEF End
<1>5. {f[k] : k \in G} = {End(l.body[k], l.body[k].at.off) : k \in G}
  BY <1>4
<1> HIDE DEF n, G, f
<1>6. Greatest({f[k] : k \in G}) \in Int
  BY <1>1, <1>2, <1>3, <1>4, ImageEnds
<1> QED
  BY <1>5, <1>6 DEF G, Candidates

\* The accesses through the loaded base have a first and a last byte.
LEMMA LoadedGroupFacts ==
  ASSUME NEW l \in Loops, LoadedGroup(l).count >= 2
  PROVE  LoadedGroup(l).origin \in Int /\ LoadedGroup(l).span \in Int
<1> DEFINE n == Len(l.body)
           pointer(k) == LoadedPointer(AliasesOf(l)[k - 1], l.body[k].at)
           all == {k \in Accesses(l) : pointer(k).valid}
           local == pointer(Least(all)).local
           G == {k \in all : pointer(k).local = local}
           start == [k \in G |-> Start(l.body[k], pointer(k).off)]
           end == [k \in G |-> End(l.body[k], pointer(k).off)]
<1>1. n \in Nat /\ DOMAIN l.body = 1 .. n
  BY LoopFacts
<1>2. \A k \in 1 .. n : pointer(k).off \in Int
  <2> SUFFICES ASSUME NEW k \in 1 .. n
               PROVE  pointer(k).off \in Int
    OBVIOUS
  <2>1. k - 1 \in 0 .. n
    BY <1>1
  <2>2. AliasesOf(l)[k - 1] \in [Local -> Known]
    BY <2>1, AliasesType
  <2>3. pointer(k) \in Known
    BY <1>1, <2>2, LoopFacts, StatementFacts, LoadedPointerType
  <2> QED
    BY <2>3 DEF Known
<1>3. G \subseteq 1 .. n
  BY <1>1 DEF Accesses
<1>4. \A k \in G : /\ start[k] = Start(l.body[k], pointer(k).off) /\ start[k] \in Int
                   /\ end[k] = End(l.body[k], pointer(k).off) /\ end[k] \in Int
  <2> SUFFICES ASSUME NEW k \in G
               PROVE  /\ Start(l.body[k], pointer(k).off) \in Int
                      /\ End(l.body[k], pointer(k).off) \in Int
    OBVIOUS
  <2>1. k \in 1 .. n
    BY <1>3
  <2>2. pointer(k).off \in Int
    BY <1>2, <2>1
  <2>3. l.body[k] \in Statement
    BY <1>1, <2>1, LoopFacts
  <2>4. l.body[k].offset \in Int /\ l.body[k].width \in Int
    <3>1. l.body[k].offset \in Nat /\ l.body[k].width \in Nat
      BY <2>3, StatementFacts
    <3> HIDE DEF G, start, end, n
    <3> QED
      BY <3>1
  <2> HIDE DEF pointer
  <2> QED
    BY <2>2, <2>4 DEF Start, End
<1>5. LoadedGroup(l) = IF all = {} THEN [local |-> none, count |-> 0]
        ELSE [local |-> local, count |-> Cardinality(G),
              origin |-> Least({Start(l.body[k], pointer(k).off) : k \in G}),
              span |-> Greatest({End(l.body[k], pointer(k).off) : k \in G})
                         - Least({Start(l.body[k], pointer(k).off) : k \in G}),
              words |-> \A k \in G : WholeWord(l.body[k], pointer(k).off)]
  BY DEF LoadedGroup
<1>6. /\ {start[k] : k \in G} = {Start(l.body[k], pointer(k).off) : k \in G}
      /\ {end[k] : k \in G} = {End(l.body[k], pointer(k).off) : k \in G}
  BY <1>4
<1> HIDE DEF pointer, all, local, G, start, end, n
<1>7. all # {}
  BY <1>5
<1>8. Cardinality(G) >= 2 /\ LoadedGroup(l).origin = Least({start[k] : k \in G})
      /\ LoadedGroup(l).span = Greatest({end[k] : k \in G}) - Least({start[k] : k \in G})
  <2> DEFINE o == Least({start[k] : k \in G})
             h == Greatest({end[k] : k \in G})
             c == Cardinality(G)
             w == \A k \in G : WholeWord(l.body[k], pointer(k).off)
  <2>1. LoadedGroup(l) = [local |-> local, count |-> c, origin |-> o, span |-> h - o, words |-> w]
    BY <1>5, <1>6, <1>7
  <2> HIDE DEF o, h, c, w
  <2>2. c >= 2 /\ LoadedGroup(l).origin = o /\ LoadedGroup(l).span = h - o
    BY <2>1
  <2> QED
    BY <2>2 DEF o, h, c
<1>9. G # {}
  BY <1>8, FS_EmptySet
<1>10. Least({start[k] : k \in G}) \in Int /\ Greatest({end[k] : k \in G}) \in Int
  BY <1>1, <1>3, <1>4, <1>9, ImageEnds
<1> QED
  BY <1>8, <1>10

\* What the proofs use of a plan.
LEMMA PlanFacts ==
  ASSUME NEW l \in Loops, PlanOf(l).valid
  PROVE  LET p == PlanOf(l) IN
         /\ Versionable(l) /\ Strided(l, p.base) /\ p.stride = Stride(l, p.base)
         /\ p.high \in Int /\ {p.loaded, p.promoted, p.word} \subseteq BOOLEAN
         /\ p.word => p.stride % 4 = 0
         /\ p.promoted => ~ Has(l, "exit") /\ ~ Has(l, "divide")
         /\ p.loaded => p.word /\ p.origin \in Int /\ ~ Has(l, "store")
<1> DEFINE p == PlanOf(l)
           g == LoadedGroup(l)
<1>1. Versionable(l)
  BY DEF PlanOf, NoPlan
<1>2. CASE PrefersLoaded(l)
  <2>1. /\ p.loaded /\ p.base = g.local /\ p.stride = Stride(l, g.local)
        /\ p.high = g.span /\ p.origin = g.origin /\ p.word
        /\ p.promoted = (~ Has(l, "exit") /\ ~ Has(l, "divide") /\ l.trip # "exit countdown")
        /\ p.loaded = TRUE /\ p.word = TRUE
    BY <1>1, <1>2 DEF PlanOf
  <2>2. /\ g.count >= 2 /\ ~ Has(l, "store") /\ Strided(l, g.local) /\ Stride(l, g.local) % 4 = 0
    BY <1>2 DEF PrefersLoaded
  <2>3. g.origin \in Int /\ g.span \in Int
    BY <2>2, LoadedGroupFacts
  <2> QED
    BY <1>1, <2>1, <2>2, <2>3
<1>3. CASE ~ PrefersLoaded(l)
  <2> DEFINE x == Best(l)
             words == \A k \in GroupOf(l, x) : WholeWord(l.body[k], l.body[k].at.off)
  <2>1. Candidates(l) # {}
    BY <1>1, <1>3 DEF PlanOf, NoPlan
  <2>2. /\ p.loaded = FALSE /\ p.base = x /\ p.stride = Stride(l, x)
        /\ p.high = Greatest({End(l.body[k], l.body[k].at.off) : k \in GroupOf(l, x)})
        /\ p.word = (words /\ Stride(l, x) % 4 = 0)
        /\ p.promoted = (~ Has(l, "exit") /\ ~ Has(l, "divide") /\ l.trip # "exit countdown")
    BY <1>1, <1>3, <2>1 DEF PlanOf
  <2>3. x \in Candidates(l)
    BY <2>1, BestFacts
  <2>4. Strided(l, x) /\ p.high \in Int
    BY <2>2, <2>3, CandidateFacts
  <2> HIDE DEF x
  <2> QED
    BY <1>1, <2>2, <2>4
<1> QED
  BY <1>2, <1>3

\* What the proofs use of the alias of a loaded base.
LEMMA AliasFacts ==
  ASSUME NEW l \in Loops, PlanOf(l).valid, PlanOf(l).loaded
  PROVE  /\ PlanOf(l).alias \in Local \cup {none} /\ PlanOf(l).aliasOff \in Int
         /\ PlanOf(l).alias \in Local => Cardinality(Assignments(l, PlanOf(l).alias)) = 1
<1> DEFINE g == LoadedGroup(l)
           last == AliasesOf(l)[Len(l.body)]
           own == {x \in LoadedAliases(l) : last[x].local = g.local}
           alias == IF own = {} THEN none ELSE Least(own)
<1>1. Versionable(l) /\ PrefersLoaded(l)
  BY DEF PlanOf, NoPlan
<1>2. /\ PlanOf(l).alias = alias
      /\ PlanOf(l).aliasOff = IF alias = none THEN 0 ELSE last[alias].off - g.origin
  BY <1>1 DEF PlanOf
<1>3. own \subseteq Local
  BY DEF LoadedAliases
<1>4. CASE own = {}
  BY <1>2, <1>4, ConstantAssumption
<1>5. CASE own # {}
  <2>1. own \subseteq Nat
    BY <1>3, ConstantAssumption
  <2>2. Least(own) \in own
    <3> HIDE DEF own
    <3>1. \E n \in own : \A j \in own : n <= j
      BY <1>5, <2>1, Minimum
    <3> QED
      BY <3>1, LeastOf
  <2>3. alias = Least(own)
    BY <1>5
  <2> HIDE DEF alias
  <2>4. alias \in Local /\ alias \in LoadedAliases(l)
    BY <1>3, <2>2, <2>3
  <2> HIDE DEF own
  <2>5. Cardinality(Assignments(l, alias)) = 1
    BY <1>1, <2>4 DEF PrefersLoaded
  <2>6. last[alias].off \in Int
    <3>1. Len(l.body) \in 0 .. Len(l.body)
      <4> DEFINE n == Len(l.body)
      <4>1. n \in Nat
        BY LoopFacts
      <4> HIDE DEF n
      <4>2. n \in 0 .. n
        BY <4>1
      <4> QED
        BY <4>2 DEF n
    <3>2. last \in [Local -> Known]
      BY <3>1, AliasesType
    <3> HIDE DEF last
    <3>3. last[alias] \in Known
      BY <2>4, <3>2
    <3> QED
      BY <3>3 DEF Known
  <2>7. g.origin \in Int
    BY <1>1, LoadedGroupFacts DEF PrefersLoaded
  <2> HIDE DEF last, g
  <2>8. PlanOf(l).aliasOff \in Int
    BY <1>2, <2>6, <2>7
  <2> QED
    BY <1>2, <2>4, <2>5, <2>8
<1> QED
  BY <1>4, <1>5

-----------------------------------------------------------------------------
(* The loop that is lowered.                                               *)

Settled == loop \in Loops /\ plan = PlanOf(loop) /\ plan.valid

LEMMA Planned ==
  ASSUME Settled
  PROVE  /\ Len(loop.body) \in Nat /\ DOMAIN loop.body = 1 .. Len(loop.body)
         /\ \A k \in DOMAIN loop.body : loop.body[k] \in Statement
         /\ loop.counter \in Local /\ plan.base \in Local /\ plan.base # loop.counter
         /\ plan.stride \in Nat \ {0} /\ plan.high \in Int
         /\ {plan.loaded, plan.promoted, plan.word} \subseteq BOOLEAN
         /\ plan.word => plan.stride % 4 = 0
         /\ plan.loaded => plan.word /\ plan.origin \in Int /\ plan.aliasOff \in Int
<1>1. loop \in Loops /\ plan = PlanOf(loop) /\ PlanOf(loop).valid
  BY DEF Settled
<1>2. /\ Strided(loop, plan.base) /\ plan.stride = Stride(loop, plan.base) /\ plan.high \in Int
      /\ {plan.loaded, plan.promoted, plan.word} \subseteq BOOLEAN
      /\ plan.word => plan.stride % 4 = 0
      /\ plan.loaded => plan.word /\ plan.origin \in Int
  BY <1>1, PlanFacts
<1>3. /\ plan.base \in Local /\ plan.base # loop.counter /\ plan.stride \in Nat \ {0}
  BY <1>1, <1>2, StrideFacts
<1>4. plan.loaded => plan.aliasOff \in Int
  BY <1>1, AliasFacts
<1> QED
  BY <1>1, <1>2, <1>3, <1>4, LoopFacts

LEMMA StrideIs ==
  ASSUME Settled
  PROVE  \E j \in DOMAIN loop.body :
           /\ Assignments(loop, plan.base) = {j}
           /\ loop.body[j].op # "any" /\ loop.body[j].at.local = plan.base
           /\ ~ loop.body[j].at.loaded /\ loop.body[j].at.off = plan.stride
  BY PlanFacts, StrideFacts DEF Settled

\* The counter is assigned by the branch back only, a local limit not at all.
LEMMA CounterKept ==
  ASSUME Settled, NEW k \in DOMAIN loop.body
  PROVE  /\ k \notin Assignments(loop, loop.counter)
         /\ loop.bound = "local" => k \notin Assignments(loop, loop.value) /\ loop.value # loop.counter
<1> DEFINE n == Len(loop.body)
<1>1. Versionable(loop)
  BY PlanFacts DEF Settled
<1>2. loop \in Loops /\ Cardinality(Assignments(loop, loop.counter)) = 1
  BY <1>1 DEF Versionable, Settled
<1>3. PICK j : Assignments(loop, loop.counter) = {j}
  BY <1>2, AssignmentsAre
<1>4. n + 1 \in Assignments(loop, loop.counter)
  BY DEF Assignments
<1>5. k # n + 1
  BY Planned
<1> QED
  BY <1>1, <1>3, <1>4, <1>5 DEF Versionable

-----------------------------------------------------------------------------
(* What the generated code and the compiler know of the locals.            *)

Identity == [base : Local, off : Word]

Machine ==
  [frame : [Local -> Word], r9 : Word, r10 : Word, r11 : Word, r12 : Int, r13 : Int,
   ids : [Local -> Identity]]

Self(x) == [base |-> x, off |-> 0]

\* What an identity with base x counts from: in the fast copy of a loop whose
\* base is loaded, identities of the base count from the address in R13.
Meaning(m, words, x) ==
  words[x] + (IF Fast /\ plan.loaded /\ x = plan.base THEN m.r12 + plan.origin ELSE 0)

\* The word that an identity stands for.
Means(m, words, id) == (Meaning(m, words, id.base) + id.off) % Words

\* The generated code holds the words of the Wasm locals, and what the
\* compiler knows of them is true.
Agrees(m, words) ==
  /\ \A x \in Local : Held(m, x) = words[x]
  /\ \A x \in Local : m.ids[m.ids[x].base] = Self(m.ids[x].base)
  /\ \A x \in Local : m.ids[x].base # x => words[x] = Means(m, words, m.ids[x])
  /\ Fast => m.ids[plan.base].base = plan.base

LEMMA MachineFields ==
  ASSUME NEW m \in Machine
  PROVE  /\ m.frame \in [Local -> Word] /\ m.r9 \in Word /\ m.r10 \in Word /\ m.r11 \in Word
         /\ m.r12 \in Int /\ m.r13 \in Int /\ m.ids \in [Local -> Identity]
  BY DEF Machine

LEMMA MeaningType ==
  ASSUME Settled, NEW m \in Machine, NEW words \in [Local -> Word], NEW x \in Local
  PROVE  Meaning(m, words, x) \in Int
<1>1. words[x] \in Int
  BY Wraps
<1>2. plan.loaded => plan.origin \in Int /\ m.r12 \in Int
  BY Planned, MachineFields
<1> QED
  BY <1>1, <1>2 DEF Meaning

LEMMA MeansType ==
  ASSUME Settled, NEW m \in Machine, NEW words \in [Local -> Word], NEW id \in Identity
  PROVE  Means(m, words, id) \in Word
<1>1. id.base \in Local /\ id.off \in Int
  BY Wraps DEF Identity
<1>2. Meaning(m, words, id.base) + id.off \in Int
  BY <1>1, MeaningType
<1> QED
  BY <1>2, Wraps DEF Means

\* An identity, or none.
Source == [base : Local \cup {none}, off : Word]

LEMMA SourceFacts ==
  /\ Nothing \in Source /\ Nothing.base \notin Local
  /\ \A id \in Source : id.base \in Local => id \in Identity
  /\ \A id \in Identity : id \in Source /\ id.base \in Local
<1>1. 0 \in Word
  BY WordsFacts
<1> QED
  BY <1>1, ConstantAssumption DEF Source, Identity, Nothing

\* An identity has a base that stands for itself.
Rooted(ids, from) == from.base \in Local => ids[from.base] = Self(from.base)

LEMMA IdentifiedFacts ==
  ASSUME NEW ids \in [Local -> Identity], NEW y \in Local, NEW from \in Source
  PROVE  /\ Identified(ids, y, from) \in [Local -> Identity]
         /\ Identified(ids, y, from)[y] =
              IF from.base \in Local \ {y} THEN from
              ELSE IF ids[y].base = y THEN Self(y) ELSE ids[y]
         /\ \A x \in Local \ {y} :
              Identified(ids, y, from)[x] = IF ids[x].base = y THEN Self(x) ELSE ids[x]
<1> DEFINE kept == [x \in Local |-> IF ids[x].base = y THEN Self(x) ELSE ids[x]]
<1>1. Identified(ids, y, from) =
        IF from.base \in Local \ {y} THEN [kept EXCEPT ![y] = from] ELSE kept
  BY DEF Identified, Self
<1>2. 0 \in Word
  BY WordsFacts
<1>3. kept \in [Local -> Identity]
  BY <1>2 DEF Identity, Self
<1>4. from.base \in Local => from \in Identity
  BY SourceFacts
<1> QED
  BY <1>1, <1>3, <1>4

\* Every field after an assignment.
LEMMA AssignedFields ==
  ASSUME Settled, NEW m \in Machine, NEW y \in Local, NEW w \in Word, NEW from \in Source
  PROVE  LET a == Assigned(m, y, w, from) IN
         /\ a \in Machine
         /\ a.frame = IF Promoted(y) THEN m.frame ELSE [m.frame EXCEPT ![y] = w]
         /\ a.r11 = IF Promoted(y) /\ y = plan.base THEN w ELSE m.r11
         /\ a.r9 = IF Promoted(y) /\ y = loop.counter THEN w ELSE m.r9
         /\ a.r13 = IF Fast /\ plan.word /\ y = plan.base THEN m.r13 + plan.stride \div 4 ELSE m.r13
         /\ a.ids = Identified(m.ids, y, from)
         /\ a.r10 = m.r10 /\ a.r12 = m.r12
<1> DEFINE a == Assigned(m, y, w, from)
           f == IF Promoted(y) THEN m.frame ELSE [m.frame EXCEPT ![y] = w]
           b == IF Promoted(y) /\ y = plan.base THEN w ELSE m.r11
           c == IF Promoted(y) /\ y = loop.counter THEN w ELSE m.r9
           d == IF Fast /\ plan.word /\ y = plan.base THEN m.r13 + plan.stride \div 4 ELSE m.r13
           i == Identified(m.ids, y, from)
<1>1. a = [m EXCEPT !.frame = f, !.r11 = b, !.r9 = c, !.r13 = d, !.ids = i]
  BY DEF Assigned, Machine
<1>2. /\ f \in [Local -> Word] /\ b \in Word /\ c \in Word /\ d \in Int
  BY Planned, MachineFields
<1>3. i \in [Local -> Identity]
  BY MachineFields, IdentifiedFacts
<1> HIDE DEF f, b, c, d, i
<1>4. /\ a \in Machine /\ a.frame = f /\ a.r11 = b /\ a.r9 = c /\ a.r13 = d /\ a.ids = i
      /\ a.r10 = m.r10 /\ a.r12 = m.r12
  BY <1>1, <1>2, <1>3 DEF Machine
<1> QED
  BY <1>4 DEF f, b, c, d, i

LEMMA AssignedIds ==
  ASSUME Settled, NEW m \in Machine, NEW y \in Local, NEW w \in Word, NEW from \in Source
  PROVE  /\ Assigned(m, y, w, from).ids = Identified(m.ids, y, from)
         /\ Assigned(m, y, w, from).r10 = m.r10 /\ Assigned(m, y, w, from).r12 = m.r12
         /\ Assigned(m, y, w, from).r13 =
              IF Fast /\ plan.word /\ y = plan.base THEN m.r13 + plan.stride \div 4 ELSE m.r13
<1> DEFINE a == Assigned(m, y, w, from)
           f == IF Promoted(y) THEN m.frame ELSE [m.frame EXCEPT ![y] = w]
           b == IF Promoted(y) /\ y = plan.base THEN w ELSE m.r11
           c == IF Promoted(y) /\ y = loop.counter THEN w ELSE m.r9
           d == IF Fast /\ plan.word /\ y = plan.base THEN m.r13 + plan.stride \div 4 ELSE m.r13
           i == Identified(m.ids, y, from)
<1>1. a = [m EXCEPT !.frame = f, !.r11 = b, !.r9 = c, !.r13 = d, !.ids = i]
  BY DEF Assigned, Machine
<1> HIDE DEF f, b, c, d, i
<1>2. a.ids = i /\ a.r10 = m.r10 /\ a.r12 = m.r12 /\ a.r13 = d
  BY <1>1 DEF Machine
<1> QED
  BY <1>2 DEF i, d

LEMMA AssignedHeld ==
  ASSUME Settled, NEW m \in Machine, NEW y \in Local, NEW w \in Word, NEW from \in Source,
         NEW x \in Local
  PROVE  Held(Assigned(m, y, w, from), x) = IF x = y THEN w ELSE Held(m, x)
<1> DEFINE a == Assigned(m, y, w, from)
<1>1. /\ a.frame = IF Promoted(y) THEN m.frame ELSE [m.frame EXCEPT ![y] = w]
      /\ a.r11 = IF Promoted(y) /\ y = plan.base THEN w ELSE m.r11
      /\ a.r9 = IF Promoted(y) /\ y = loop.counter THEN w ELSE m.r9
  BY AssignedFields
<1>2. m.frame \in [Local -> Word] /\ plan.base # loop.counter
  BY MachineFields, Planned
<1> SUFFICES Held(a, x) = IF x = y THEN w ELSE Held(m, x)
  OBVIOUS
<1> HIDE DEF a
<1>3. CASE Promoted(y)
  BY <1>1, <1>2, <1>3 DEF Held, Promoted, Fast
<1>4. CASE ~ Promoted(y)
  <2>1. a.frame = [m.frame EXCEPT ![y] = w] /\ a.r11 = m.r11 /\ a.r9 = m.r9
    BY <1>1, <1>4
  <2>2. CASE x = y
    BY <1>2, <1>4, <2>1, <2>2 DEF Held, Promoted, Fast
  <2>3. CASE x # y
    <3>1. a.frame[x] = m.frame[x]
      BY <1>2, <2>1, <2>3
    <3> QED
      BY <2>1, <2>3, <3>1 DEF Held, Promoted, Fast
  <2> QED
    BY <2>2, <2>3
<1> QED
  BY <1>3, <1>4

\* After an assignment the generated code still agrees with Wasm, unless an
\* identity of the local stays that stands for its old word.
LEMMA AssignedAgrees ==
  ASSUME Settled, NEW m \in Machine, NEW words \in [Local -> Word], Agrees(m, words),
         NEW y \in Local, NEW w \in Word, NEW from \in Source, Rooted(m.ids, from),
         from.base \in Local \ {y} => w = Means(m, words, from),
         from.base \notin Local \ {y} => m.ids[y].base = y \/ w = words[y],
         Fast /\ y = plan.base => from.base = y
  PROVE  Agrees(Assigned(m, y, w, from), [words EXCEPT ![y] = w])
<1> DEFINE a == Assigned(m, y, w, from)
           after == [words EXCEPT ![y] = w]
<1>1. from.base \in Local => from \in Identity /\ m.ids[from.base] = Self(from.base)
  BY SourceFacts DEF Rooted
<1>2. m.ids \in [Local -> Identity] /\ \A x \in Local : m.ids[x].base \in Local
  BY MachineFields DEF Identity
<1>3. a.ids = Identified(m.ids, y, from) /\ a.r12 = m.r12
  BY AssignedIds
<1>4. /\ a.ids[y] = IF from.base \in Local \ {y} THEN from
                    ELSE IF m.ids[y].base = y THEN Self(y) ELSE m.ids[y]
      /\ \A x \in Local \ {y} : a.ids[x] = IF m.ids[x].base = y THEN Self(x) ELSE m.ids[x]
  BY <1>2, <1>3, IdentifiedFacts
<1>5. after \in [Local -> Word] /\ after[y] = w /\ \A x \in Local \ {y} : after[x] = words[x]
  OBVIOUS
<1>6. \A x \in Local : Held(a, x) = after[x]
  BY <1>1, <1>5, AssignedHeld DEF Agrees
<1>7. \A x \in Local : m.ids[m.ids[x].base] = Self(m.ids[x].base)
  BY DEF Agrees
<1>8. \A x : Self(x).base = x
  BY DEF Self
\* The roots of the identities are roots.
<1>9. \A x \in Local : a.ids[x].base = y \/ a.ids[x].base = x \/ m.ids[a.ids[x].base] = Self(a.ids[x].base)
  <2> SUFFICES ASSUME NEW x \in Local, a.ids[x].base # x
               PROVE  m.ids[a.ids[x].base] = Self(a.ids[x].base)
    OBVIOUS
  <2> HIDE DEF a
  <2>1. CASE x = y
    BY <1>1, <1>4, <1>7, <1>8, <2>1
  <2>2. CASE x # y
    BY <1>4, <1>7, <1>8, <2>2
  <2> QED
    BY <2>1, <2>2
<1>10. \A x \in Local : a.ids[x].base \in Local /\ (a.ids[x].base = y => x = y)
  <2> HIDE DEF a
  <2> QED
    BY <1>1, <1>2, <1>4, <1>8
<1>11. \A x \in Local : a.ids[x].base = x => a.ids[x] = Self(x)
  <2> SUFFICES ASSUME NEW x \in Local, a.ids[x].base = x
               PROVE  a.ids[x] = Self(x)
    OBVIOUS
  <2> HIDE DEF a
  <2>1. m.ids[x].base = x => m.ids[x] = Self(x)
    BY <1>7
  <2> QED
    BY <1>4, <1>8, <2>1
<1>12. \A x \in Local : a.ids[a.ids[x].base] = Self(a.ids[x].base)
  <2> SUFFICES ASSUME NEW x \in Local
               PROVE  a.ids[a.ids[x].base] = Self(a.ids[x].base)
    OBVIOUS
  <2> DEFINE b == a.ids[x].base
  <2> HIDE DEF a
  <2>1. CASE b = x
    BY <1>11, <2>1
  <2>2. CASE b # x
    <3>1. b \in Local /\ b # y /\ m.ids[b] = Self(b)
      BY <1>9, <1>10, <2>2
    <3> QED
      BY <1>4, <1>8, <3>1
  <2> QED
    BY <2>1, <2>2
<1>13. \A x \in Local : a.ids[x].base # x => after[x] = Means(a, after, a.ids[x])
  <2> SUFFICES ASSUME NEW x \in Local, a.ids[x].base # x
               PROVE  after[x] = Means(a, after, a.ids[x])
    OBVIOUS
  <2> DEFINE i == a.ids[x]
  <2>1. i.base \in Local /\ i.base # y
    BY <1>10
  <2>2. Means(a, after, i) = Means(m, words, i)
    <3> HIDE DEF a, after, i
    <3> QED
      BY <1>3, <1>5, <2>1 DEF Means, Meaning
  <2>3. after[x] = Means(m, words, i)
    <3> HIDE DEF a, after
    <3>1. CASE x # y
      <4>1. i = m.ids[x] /\ m.ids[x].base # x
        BY <1>4, <1>8, <3>1
      <4> QED
        BY <1>5, <3>1, <4>1 DEF Agrees
    <3>2. CASE x = y /\ from.base \in Local \ {y}
      BY <1>4, <1>5, <3>2
    <3>3. CASE x = y /\ from.base \notin Local \ {y}
      <4>1. i = m.ids[y] /\ m.ids[y].base # y /\ w = words[y]
        BY <1>4, <1>8, <3>3
      <4> QED
        BY <1>5, <3>3, <4>1 DEF Agrees
    <3> QED
      BY <3>1, <3>2, <3>3
  <2> QED
    BY <2>2, <2>3
<1>14. Fast => a.ids[plan.base].base = plan.base
  <2> SUFFICES ASSUME Fast
               PROVE  a.ids[plan.base].base = plan.base
    OBVIOUS
  <2> HIDE DEF a
  <2>1. plan.base \in Local /\ m.ids[plan.base].base = plan.base
    BY Planned DEF Agrees
  <2> QED
    BY <1>4, <1>8, <2>1
<1> QED
  BY <1>6, <1>12, <1>13, <1>14 DEF Agrees

\* An assignment makes copies of no other local.
LEMMA IdentifiedSources ==
  ASSUME NEW ids \in [Local -> Identity], NEW y \in Local, NEW from \in Source, NEW x \in Local,
         Identified(ids, y, from)[x].base # x
  PROVE  ids[x].base # x \/ (x = y /\ from.base \in Local \ {y})
<1> DEFINE i == Identified(ids, y, from)
<1>1. \A z : Self(z).base = z
  BY DEF Self
<1>2. /\ i[y] = IF from.base \in Local \ {y} THEN from
               ELSE IF ids[y].base = y THEN Self(y) ELSE ids[y]
      /\ \A z \in Local \ {y} : i[z] = IF ids[z].base = y THEN Self(z) ELSE ids[z]
  BY IdentifiedFacts
<1>3. i[x].base # x
  OBVIOUS
<1> HIDE DEF i
<1> QED
  BY <1>1, <1>2, <1>3

LEMMA AssignedSources ==
  ASSUME Settled, NEW m \in Machine, NEW y \in Local, NEW w \in Word, NEW from \in Source,
         NEW x \in Local,
         Assigned(m, y, w, from).ids[x].base # x
  PROVE  m.ids[x].base # x \/ (x = y /\ from.base \in Local \ {y})
<1>1. m.ids \in [Local -> Identity]
  BY MachineFields
<1>2. Assigned(m, y, w, from).ids = Identified(m.ids, y, from)
  BY AssignedIds
<1> QED
  BY <1>1, <1>2, IdentifiedSources

-----------------------------------------------------------------------------
(* Pointers.                                                               *)

\* The word that a pointer has in Wasm.
Value(words, at) ==
  (words[at.local] + at.off + (IF at.loaded THEN memory[BaseAt] ELSE 0)) % Words

After(words, at) == IF at.tee = none THEN words ELSE [words EXCEPT ![at.tee] = Value(words, at)]

\* Words and memory have their types.
Typed == memory \in [Slot -> Word]

LEMMA ValueType ==
  ASSUME Typed, NEW words \in [Local -> Word], NEW at \in Pointer
  PROVE  Value(words, at) \in Word /\ After(words, at) \in [Local -> Word]
<1>1. words[at.local] \in Int /\ at.off \in Int /\ memory[BaseAt] \in Int /\ at.tee \in Local \cup {none}
  BY Wraps DEF Pointer, Typed, Slot
<1>2. words[at.local] + at.off + (IF at.loaded THEN memory[BaseAt] ELSE 0) \in Int
  BY <1>1
<1>3. Value(words, at) \in Word
  BY <1>2, Wraps DEF Value
<1> QED
  BY <1>1, <1>3 DEF After

\* The identity of an unloaded pointer stands for its word.
LEMMA PointerMeans ==
  ASSUME Settled, Typed, NEW m \in Machine, NEW words \in [Local -> Word], Agrees(m, words),
         NEW at \in Pointer, ~ at.loaded,
         Fast /\ plan.loaded => at.local # plan.base
  PROVE  LET id == [base |-> m.ids[at.local].base, off |-> (m.ids[at.local].off + at.off) % Words] IN
         /\ id \in Identity /\ Rooted(m.ids, id) /\ Value(words, at) = Means(m, words, id)
<1> DEFINE x == at.local
           b == m.ids[x].base
           o == m.ids[x].off
           id == [base |-> b, off |-> (o + at.off) % Words]
           M == Meaning(m, words, b)
<1>1. x \in Local /\ at.off \in Int /\ words[x] \in Int
  BY Wraps DEF Pointer
<1>2. b \in Local /\ o \in Int
  <2>1. m.ids[x] \in Identity
    BY <1>1, MachineFields
  <2>2. b \in Local /\ o \in Word
    BY <2>1 DEF Identity
  <2> QED
    BY <2>2, WordNumbers
<1>3. m.ids[b] = Self(b)
  BY <1>1 DEF Agrees
<1>4. M \in Int
  BY <1>2, MeaningType
<1>5. words[x] = (M + o) % Words
  <2>1. CASE b # x
    BY <1>1, <2>1 DEF Agrees, Means
  <2>2. CASE b = x
    <3>1. o = 0
      BY <1>3, <2>2 DEF Self
    <3>2. M = words[x]
      BY <1>1, <2>2 DEF Meaning
    <3> QED
      BY <1>1, <3>1, <3>2, Wraps
  <2> QED
    BY <2>1, <2>2
<1>6. Value(words, at) = (words[x] + at.off) % Words
  BY <1>1 DEF Value
<1>7. (words[x] + at.off) % Words = (M + ((o + at.off) % Words)) % Words
  <2> HIDE DEF M, o
  <2> QED
    BY <1>1, <1>2, <1>4, <1>5, WrapsInside
<1>8. id \in Identity /\ id.base = b /\ id.off = (o + at.off) % Words
  <2>1. o + at.off \in Int
    BY <1>1, <1>2
  <2>2. (o + at.off) % Words \in Word
    BY <2>1, Wraps
  <2> QED
    BY <1>2, <2>2 DEF Identity
<1>9. Rooted(m.ids, id)
  BY <1>3, <1>8 DEF Rooted
<1> HIDE DEF id
<1>10. Means(m, words, id) = (M + ((o + at.off) % Words)) % Words
  <2> DEFINE q == (o + at.off) % Words
  <2>1. Means(m, words, id) = (Meaning(m, words, id.base) + id.off) % Words
    BY DEF Means
  <2>2. id.base = b /\ id.off = q
    BY <1>8
  <2> HIDE DEF q, b
  <2>3. Means(m, words, id) = (Meaning(m, words, b) + q) % Words
    BY <2>1, <2>2
  <2> QED
    BY <2>3 DEF q
<1> QED
  BY <1>6, <1>7, <1>8, <1>9, <1>10 DEF id

\* The word of a local is what its identity stands for.
LEMMA LocalMeans ==
  ASSUME Settled, NEW m \in Machine, NEW words \in [Local -> Word], Agrees(m, words),
         NEW x \in Local, Fast /\ plan.loaded => x # plan.base
  PROVE  /\ m.ids[x] \in Identity /\ Rooted(m.ids, m.ids[x])
         /\ words[x] = Means(m, words, m.ids[x])
<1> DEFINE id == m.ids[x]
<1>1. id \in Identity
  BY MachineFields
<1>2. m.ids[id.base] = Self(id.base)
  BY DEF Agrees
<1>3. CASE id.base # x
  BY <1>1, <1>2, <1>3 DEF Agrees, Rooted
<1>4. CASE id.base = x
  <2>1. id = Self(x)
    BY <1>2, <1>4
  <2> HIDE DEF id
  <2>2. id.base = x /\ id.off = 0
    BY <2>1 DEF Self
  <2>3. Meaning(m, words, x) = words[x]
    <3>1. Meaning(m, words, x) = words[x] + 0
      BY DEF Meaning
    <3>2. words[x] \in Int
      BY WordNumbers
    <3> QED
      BY <3>1, <3>2
  <2>4. Means(m, words, id) = (words[x] + 0) % Words
    BY <2>2, <2>3 DEF Means
  <2>5. words[x] + 0 = words[x] /\ words[x] % Words = words[x]
    BY Wraps
  <2>6. Means(m, words, id) = words[x]
    BY <2>4, <2>5
  <2> QED
    BY <1>1, <1>2, <2>6 DEF Rooted, id
<1> QED
  BY <1>3, <1>4

\* The word that a pointer without the loaded word has is known.
LEMMA HeldValue ==
  ASSUME NEW m \in Machine, NEW words \in [Local -> Word], Agrees(m, words), NEW at \in Pointer
  PROVE  (Held(m, at.local) + at.off + (IF at.loaded THEN memory[BaseAt] ELSE 0)) % Words
           = Value(words, at)
<1>1. at.local \in Local
  BY DEF Pointer
<1>2. Held(m, at.local) = words[at.local]
  BY <1>1 DEF Agrees
<1> QED
  BY <1>2 DEF Value

\* The identity that a pointer gives to the local that it is assigned to.
GivenBy(m, at) ==
  IF at.loaded THEN Nothing
  ELSE [base |-> m.ids[at.local].base, off |-> (m.ids[at.local].off + at.off) % Words]

LEMMA GivenType ==
  ASSUME NEW m \in Machine, NEW at \in Pointer
  PROVE  GivenBy(m, at) \in Source
<1> DEFINE id == m.ids[at.local]
<1>1. at.local \in Local /\ at.off \in Int
  BY DEF Pointer
<1>2. id \in Identity
  BY <1>1, MachineFields
<1>3. id.base \in Local /\ id.off \in Int
  BY <1>2, WordNumbers DEF Identity
<1> HIDE DEF id
<1>4. id.off + at.off \in Int
  BY <1>1, <1>3
<1>5. (id.off + at.off) % Words \in Word
  BY <1>4, WrapsIn
<1>6. [base |-> id.base, off |-> (id.off + at.off) % Words] \in Source
  BY <1>3, <1>5 DEF Source
<1> QED
  BY <1>6, SourceFacts DEF GivenBy, id

\* Code that agrees with Wasm still does after a pointer, whose word and
\* identity it gets right.
LEMMA LoweredAgrees ==
  ASSUME Settled, Typed, NEW m \in Machine, NEW words \in [Local -> Word], Agrees(m, words),
         NEW at \in Pointer, at.tee # at.local,
         at.loaded /\ at.tee \in Local => m.ids[at.tee].base = at.tee \/ Value(words, at) = words[at.tee],
         Fast => at.tee # plan.base,
         Fast /\ plan.loaded /\ ~ at.loaded => at.local # plan.base
  PROVE  LET p == Lowered(m, at) IN
         /\ p.machine \in Machine /\ p.word = Value(words, at)
         /\ Agrees(p.machine, After(words, at))
         /\ p.id \in Source /\ Rooted(p.machine.ids, p.id)
         /\ p.id.base \in Local => Value(words, at) = Means(p.machine, After(words, at), p.id)
<1> DEFINE w == (Held(m, at.local) + at.off + (IF at.loaded THEN memory[BaseAt] ELSE 0)) % Words
           id == GivenBy(m, at)
           after == Assigned(m, at.tee, w, id)
<1>1. w = Value(words, at)
  BY HeldValue
<1>2. /\ at.tee = none => Lowered(m, at) = [machine |-> m, word |-> w, id |-> id]
      /\ at.tee # none => Lowered(m, at) = [machine |-> after, word |-> w, id |-> after.ids[at.tee]]
  BY DEF Lowered, GivenBy
<1>3. id \in Source /\ at.tee \in Local \cup {none}
  BY GivenType DEF Pointer
<1>4. ~ at.loaded => Rooted(m.ids, id) /\ Value(words, at) = Means(m, words, id)
  <2>1. at.loaded \in BOOLEAN
    BY DEF Pointer
  <2> QED
    BY <2>1, PointerMeans DEF GivenBy
<1>5. at.loaded => id = Nothing
  BY DEF GivenBy
<1>6. Nothing.base \notin Local
  BY SourceFacts
<1>7. Value(words, at) \in Word /\ After(words, at) \in [Local -> Word]
  BY ValueType
<1> HIDE DEF w, id, after
<1>8. CASE at.tee = none
  <2>1. After(words, at) = words
    BY <1>8 DEF After
  <2>2. Rooted(m.ids, id) /\ (id.base \in Local => Value(words, at) = Means(m, words, id))
    BY <1>4, <1>5, <1>6 DEF Rooted
  <2> QED
    BY <1>1, <1>2, <1>3, <1>8, <2>1, <2>2
<1>9. CASE at.tee # none
  <2> DEFINE y == at.tee
  <2>1. y \in Local
    BY <1>3, <1>9
  <2>2. After(words, at) = [words EXCEPT ![y] = w]
    BY <1>1, <1>9 DEF After
  <2>3. after \in Machine
    BY <1>1, <1>3, <1>7, <2>1, AssignedFields DEF after
  <2>4. Rooted(m.ids, id)
    BY <1>4, <1>5, <1>6 DEF Rooted
  <2>5. id.base \in Local \ {y} => w = Means(m, words, id)
    BY <1>1, <1>4, <1>5, <1>6
  <2>6. id.base \notin Local \ {y} => m.ids[y].base = y \/ w = words[y]
    <3>1. CASE at.loaded
      BY <1>1, <2>1, <3>1
    <3>2. CASE ~ at.loaded
      <4>1. id.base \in Local
        BY <3>2, MachineFields DEF id, GivenBy, Identity, Pointer
      <4>2. m.ids[id.base] = Self(id.base)
        BY <2>4, <4>1 DEF Rooted
      <4> QED
        BY <4>1, <4>2 DEF Self
    <3> QED
      BY <3>1, <3>2
  <2>7. Agrees(after, [words EXCEPT ![y] = w])
    BY <1>1, <1>3, <1>7, <2>1, <2>4, <2>5, <2>6, AssignedAgrees DEF after
  <2>8. Agrees(after, After(words, at))
    BY <2>2, <2>7
  <2>9. /\ after.ids[y] \in Identity /\ Rooted(after.ids, after.ids[y])
        /\ After(words, at)[y] = Means(after, After(words, at), after.ids[y])
    BY <1>7, <2>1, <2>3, <2>8, LocalMeans
  <2>10. After(words, at)[y] = Value(words, at)
    BY <1>1, <2>1, <2>2
  <2>11. after.ids[y] \in Source
    BY <2>9, SourceFacts
  <2>12. /\ Lowered(m, at).machine = after /\ Lowered(m, at).word = w
         /\ Lowered(m, at).id = after.ids[y]
    BY <1>2, <1>9
  <2> QED
    BY <1>1, <2>3, <2>8, <2>9, <2>10, <2>11, <2>12
<1> QED
  BY <1>8, <1>9

\* What pointers leave alone.
LEMMA LoweredType ==
  ASSUME Settled, Typed, NEW m \in Machine, NEW at \in Pointer
  PROVE  LET p == Lowered(m, at) IN
         /\ p.machine \in Machine /\ p.word \in Word /\ p.id \in Source
         /\ p.machine.r10 = m.r10 /\ p.machine.r12 = m.r12
         /\ (Fast => at.tee # plan.base) => p.machine.r13 = m.r13
<1> DEFINE w == (Held(m, at.local) + at.off + (IF at.loaded THEN memory[BaseAt] ELSE 0)) % Words
           id == GivenBy(m, at)
           after == Assigned(m, at.tee, w, id)
<1>1. /\ at.tee = none => Lowered(m, at) = [machine |-> m, word |-> w, id |-> id]
      /\ at.tee # none => Lowered(m, at) = [machine |-> after, word |-> w, id |-> after.ids[at.tee]]
  BY DEF Lowered, GivenBy
<1>2. id \in Source /\ at.tee \in Local \cup {none}
  BY GivenType DEF Pointer
<1>3. w \in Word
  <2>1. Held(m, at.local) \in Word
    BY MachineFields DEF Held, Pointer
  <2>2. Held(m, at.local) \in Int /\ at.off \in Int /\ memory[BaseAt] \in Int
    BY <2>1, WordNumbers DEF Pointer, Typed, Slot
  <2>3. Held(m, at.local) + at.off + (IF at.loaded THEN memory[BaseAt] ELSE 0) \in Int
    BY <2>2
  <2> QED
    BY <2>3, WrapsIn
<1> HIDE DEF w, id, after
<1>4. CASE at.tee = none
  BY <1>1, <1>2, <1>3, <1>4
<1>5. CASE at.tee # none
  <2>1. /\ Lowered(m, at).machine = after /\ Lowered(m, at).word = w
        /\ Lowered(m, at).id = after.ids[at.tee]
    BY <1>1, <1>5
  <2>2. at.tee \in Local
    BY <1>2, <1>5
  <2>3. after \in Machine
    BY <1>2, <1>3, <2>2, AssignedFields DEF after
  <2>5. /\ after.r10 = m.r10 /\ after.r12 = m.r12
        /\ after.r13 = IF Fast /\ plan.word /\ at.tee = plan.base THEN m.r13 + plan.stride \div 4 ELSE m.r13
    BY <1>2, <1>3, <2>2, AssignedIds DEF after
  <2>4. after.ids[at.tee] \in Source
    BY <2>2, <2>3, MachineFields, SourceFacts
  <2> QED
    BY <1>3, <2>1, <2>3, <2>4, <2>5
<1> QED
  BY <1>4, <1>5

-----------------------------------------------------------------------------
(* Accesses.                                                               *)

\* What the proofs assume of a statement: the conditions of PlainLoop and
\* what is known before it.
Ready(m, words, s) ==
  /\ s.at.tee # s.at.local
  /\ s.at.loaded /\ s.at.tee \in Local => m.ids[s.at.tee].base = s.at.tee
  /\ Fast => s.at.tee # plan.base
  /\ Fast /\ plan.loaded =>
       /\ plan.promoted => s.at.tee = none
       /\ ~ s.at.loaded => s.at.local # plan.base
       /\ ~ s.at.loaded /\ s.at.local = plan.alias =>
            words[plan.alias] = Means(m, words, [base |-> plan.base, off |-> plan.aliasOff])
       /\ m.r12 = memory[BaseAt]

\* The word that an identity of the base stands for in the fast copy.
LEMMA BaseMeans ==
  ASSUME Settled, Fast, plan.loaded, NEW m \in Machine, NEW words \in [Local -> Word], NEW o
  PROVE  Means(m, words, [base |-> plan.base, off |-> o]) = (words[plan.base] + (m.r12 + plan.origin) + o) % Words
  BY DEF Means, Meaning

\* The identities that accesses through R13 compute.
LEMMA FastLoadedMeans ==
  ASSUME Settled, Typed, NEW m \in Machine, NEW words \in [Local -> Word], Agrees(m, words),
         NEW s \in Statement, Ready(m, words, s), Fast, plan.loaded,
         FastLoaded(m, s.at) # Nothing
  PROVE  LET id == FastLoaded(m, s.at) IN
         /\ id \in Identity /\ id.base = plan.base /\ Value(words, s.at) = Means(m, words, id)
<1> DEFINE at == s.at
           id == FastLoaded(m, at)
           b == words[plan.base]
           r == m.r12 + plan.origin
<1>1. at \in Pointer /\ at.local \in Local /\ at.off \in Int /\ at.loaded \in BOOLEAN
  BY StatementFacts
<1>2. plan.base \in Local /\ plan.origin \in Int /\ plan.aliasOff \in Int /\ m.r12 \in Int
  BY Planned, MachineFields
<1>3. b \in Int /\ r \in Int
  BY <1>2, WordNumbers
<1>4. CASE at.loaded /\ at.local = plan.base
  <2> DEFINE o == (at.off - plan.origin) % Words
  <2>1. id = [base |-> plan.base, off |-> o]
    BY <1>4 DEF FastLoaded
  <2>2. at.off - plan.origin \in Int /\ b + r \in Int
    BY <1>1, <1>2, <1>3
  <2>3. o \in Word /\ o \in Int
    BY <2>2, WrapsIn
  <2>4. Means(m, words, id) = (b + r + o) % Words
    BY <2>1, BaseMeans
  <2>5. (o + (b + r)) % Words = ((at.off - plan.origin) + (b + r)) % Words
    BY <2>2, Wraps
  <2>6. Value(words, at) = (b + at.off + m.r12) % Words
    BY <1>4 DEF Value, Ready
  <2>7. b + r + o = o + (b + r) /\ b + at.off + m.r12 = (at.off - plan.origin) + (b + r)
    <3> HIDE DEF o, b
    <3> QED
      BY <1>1, <1>2, <1>3, <2>3
  <2>8. Means(m, words, id) = Value(words, at)
    <3> HIDE DEF o, b, r
    <3> QED
      BY <2>4, <2>5, <2>6, <2>7
  <2>9. id \in Identity /\ id.base = plan.base
    BY <1>2, <2>1, <2>3 DEF Identity
  <2> QED
    BY <2>8, <2>9
<1>5. CASE ~ at.loaded /\ at.local = plan.alias
  <2> DEFINE o == (plan.aliasOff + at.off) % Words
  <2>1. id = [base |-> plan.base, off |-> o]
    BY <1>5 DEF FastLoaded
  <2>2. plan.aliasOff + at.off \in Int /\ b + r \in Int
    BY <1>1, <1>2, <1>3
  <2>3. o \in Word
    BY <2>2, WrapsIn
  <2>4. Means(m, words, id) = (b + r + o) % Words
    BY <2>1, BaseMeans
  <2>5. words[at.local] = (b + r + plan.aliasOff) % Words
    BY <1>5, BaseMeans DEF Ready
  <2>6. Value(words, at) = (words[at.local] + at.off) % Words
    <3>1. words[at.local] \in Int
      BY <1>1, WordNumbers
    <3> QED
      BY <1>1, <1>5, <3>1 DEF Value
  <2>7. (((b + r + plan.aliasOff) % Words) + at.off) % Words = (b + r + o) % Words
    <3> DEFINE c == b + r
    <3>1. c \in Int
      BY <2>2
    <3> HIDE DEF c, b, r
    <3>2. (((c + plan.aliasOff) % Words) + at.off) % Words = (c + ((plan.aliasOff + at.off) % Words)) % Words
      BY <1>1, <1>2, <3>1, WrapsInside
    <3> QED
      BY <3>2 DEF c, o
  <2>8. id \in Identity /\ id.base = plan.base
    BY <1>2, <2>1, <2>3 DEF Identity
  <2> QED
    BY <2>4, <2>5, <2>6, <2>7, <2>8
<1>6. CASE ~ (at.loaded /\ at.local = plan.base) /\ ~ (~ at.loaded /\ at.local = plan.alias)
  <2>1. /\ ~ at.loaded /\ at.local \notin {plan.base, plan.alias} /\ m.ids[at.local].base = plan.base
        /\ id = [base |-> plan.base, off |-> (m.ids[at.local].off + at.off) % Words]
    BY <1>6 DEF FastLoaded
  <2> QED
    BY <1>1, <2>1, PointerMeans
<1> QED
  BY <1>4, <1>5, <1>6

\* A statement that is ready may be lowered, also a second time.
LEMMA ReadyLowers ==
  ASSUME Settled, Typed, NEW m \in Machine, NEW words \in [Local -> Word], Agrees(m, words),
         NEW s \in Statement, Ready(m, words, s)
  PROVE  LET p == Lowered(m, s.at) IN
         /\ p.machine \in Machine /\ p.word = Value(words, s.at)
         /\ Agrees(p.machine, After(words, s.at))
         /\ p.id \in Source /\ Rooted(p.machine.ids, p.id)
         /\ p.id.base \in Local => Value(words, s.at) = Means(p.machine, After(words, s.at), p.id)
  BY LoweredAgrees, StatementFacts DEF Ready

\* Once the local of a pointer is assigned, nothing changes when it is
\* assigned again.
LEMMA AgainValue ==
  ASSUME Typed, NEW words \in [Local -> Word], NEW at \in Pointer, at.tee # at.local
  PROVE  /\ After(words, at) \in [Local -> Word]
         /\ Value(After(words, at), at) = Value(words, at)
         /\ After(After(words, at), at) = After(words, at)
         /\ at.tee \in Local => After(words, at)[at.tee] = Value(words, at)
<1> DEFINE again == After(words, at)
<1>1. at.local \in Local /\ at.tee \in Local \cup {none} /\ none \notin Local
  BY ConstantAssumption DEF Pointer
<1>2. Value(words, at) \in Word /\ again \in [Local -> Word]
  BY ValueType
<1>3. CASE at.tee = none
  BY <1>1, <1>2, <1>3 DEF After
<1>4. CASE at.tee # none
  <2>1. again = [words EXCEPT ![at.tee] = Value(words, at)]
    BY <1>4 DEF After
  <2>2. again[at.local] = words[at.local] /\ again[at.tee] = Value(words, at)
    BY <1>1, <1>4, <2>1
  <2> HIDE DEF again
  <2>3. Value(again, at) = Value(words, at)
    BY <2>2 DEF Value
  <2>4. After(again, at) = [again EXCEPT ![at.tee] = Value(words, at)]
    BY <1>4, <2>3 DEF After
  <2>5. After(again, at) = again
    BY <1>2, <2>2, <2>4
  <2> QED
    BY <1>2, <2>2, <2>3, <2>5 DEF again
<1> QED
  BY <1>3, <1>4

LEMMA SecondLowers ==
  ASSUME Settled, Typed, NEW m \in Machine, NEW words \in [Local -> Word],
         NEW s \in Statement, s.at.tee # s.at.local, Fast => s.at.tee # plan.base,
         Fast /\ plan.loaded /\ ~ s.at.loaded => s.at.local # plan.base,
         Agrees(m, After(words, s.at))
  PROVE  LET p == Lowered(m, s.at) IN
         /\ p.machine \in Machine /\ p.word = Value(words, s.at)
         /\ Agrees(p.machine, After(words, s.at))
         /\ p.id \in Source /\ Rooted(p.machine.ids, p.id)
         /\ p.id.base \in Local => Value(words, s.at) = Means(p.machine, After(words, s.at), p.id)
<1> DEFINE again == After(words, s.at)
<1>1. s.at \in Pointer
  BY StatementFacts
<1>2. /\ again \in [Local -> Word] /\ Value(again, s.at) = Value(words, s.at)
      /\ After(again, s.at) = again /\ (s.at.tee \in Local => again[s.at.tee] = Value(words, s.at))
  BY <1>1, AgainValue
<1> HIDE DEF again
<1>3. Agrees(m, again)
  BY DEF again
<1>4. LET p == Lowered(m, s.at) IN
      /\ p.machine \in Machine /\ p.word = Value(again, s.at)
      /\ Agrees(p.machine, After(again, s.at))
      /\ p.id \in Source /\ Rooted(p.machine.ids, p.id)
      /\ p.id.base \in Local => Value(again, s.at) = Means(p.machine, After(again, s.at), p.id)
  BY <1>1, <1>2, <1>3, LoweredAgrees
<1> QED
  BY <1>2, <1>4 DEF again

\* The three ways to try the word pointer.
TriedSlot(m, s) ==
  LET id == FastLoaded(m, s.at)
      w == (m.frame[plan.base] + m.r12 + id.off + plan.origin) % Words
  IN [m EXCEPT !.frame = [@ EXCEPT ![s.at.tee] = w], !.ids = Identified(@, s.at.tee, id)]

LEMMA TriedWays ==
  ASSUME NEW m, NEW s
  PROVE  \/ /\ Fast /\ plan.loaded /\ FastLoaded(m, s.at) # Nothing
            /\ WholeWord(s, FastLoaded(m, s.at).off)
            /\ TriedFast(m, s) = [machine |-> IF s.at.tee = none THEN m ELSE TriedSlot(m, s),
                                  id |-> FastLoaded(m, s.at), word |-> 0]
         \/ TriedFast(m, s) = Lowered(m, s.at)
         \/ TriedFast(m, s) = [machine |-> m, id |-> Nothing, word |-> 0]
  BY DEF TriedFast, TriedSlot

LEMMA FastLoadedType ==
  ASSUME Settled, plan.loaded, NEW m \in Machine, NEW at \in Pointer
  PROVE  FastLoaded(m, at) \in Source
<1>1. at.local \in Local /\ at.off \in Int /\ plan.base \in Local
  BY Planned DEF Pointer
<1>2. plan.origin \in Int /\ plan.aliasOff \in Int
  BY Planned
<1> DEFINE o == m.ids[at.local].off
<1>3. o \in Int
  <2>1. m.ids[at.local] \in Identity
    BY <1>1, MachineFields
  <2> QED
    BY <2>1, WordNumbers DEF Identity
<1> HIDE DEF o
<1>4. at.off - plan.origin \in Int /\ plan.aliasOff + at.off \in Int /\ o + at.off \in Int
  BY <1>1, <1>2, <1>3
<1>5. /\ (at.off - plan.origin) % Words \in Word /\ (plan.aliasOff + at.off) % Words \in Word
      /\ (o + at.off) % Words \in Word
  BY <1>4, WrapsIn
<1>6. /\ [base |-> plan.base, off |-> (at.off - plan.origin) % Words] \in Source
      /\ [base |-> plan.base, off |-> (plan.aliasOff + at.off) % Words] \in Source
      /\ [base |-> plan.base, off |-> (o + at.off) % Words] \in Source
  BY <1>1, <1>5 DEF Source
<1>7. \/ FastLoaded(m, at) = Nothing
      \/ FastLoaded(m, at) = [base |-> plan.base, off |-> (at.off - plan.origin) % Words]
      \/ FastLoaded(m, at) = [base |-> plan.base, off |-> (plan.aliasOff + at.off) % Words]
      \/ FastLoaded(m, at) = [base |-> plan.base, off |-> (o + at.off) % Words]
  BY DEF FastLoaded, o
<1> QED
  BY <1>6, <1>7, SourceFacts

LEMMA TriedSlotType ==
  ASSUME Settled, plan.loaded, NEW m \in Machine, NEW s \in Statement, s.at.tee # none
  PROVE  /\ TriedSlot(m, s) \in Machine
         /\ TriedSlot(m, s).r10 = m.r10 /\ TriedSlot(m, s).r12 = m.r12 /\ TriedSlot(m, s).r13 = m.r13
         /\ TriedSlot(m, s).r9 = m.r9 /\ TriedSlot(m, s).r11 = m.r11
         /\ TriedSlot(m, s).ids = Identified(m.ids, s.at.tee, FastLoaded(m, s.at))
         /\ TriedSlot(m, s).frame =
              [m.frame EXCEPT ![s.at.tee] =
                 (m.frame[plan.base] + m.r12 + FastLoaded(m, s.at).off + plan.origin) % Words]
<1> DEFINE id == FastLoaded(m, s.at)
           y == s.at.tee
           w == (m.frame[plan.base] + m.r12 + id.off + plan.origin) % Words
           f == [m.frame EXCEPT ![y] = w]
           i == Identified(m.ids, y, id)
<1>1. y \in Local /\ id \in Source
  BY StatementFacts, FastLoadedType
<1>2. w \in Word
  <2>1. m.frame[plan.base] \in Int /\ m.r12 \in Int /\ plan.origin \in Int
    BY Planned, MachineFields, WordNumbers
  <2>2. id.off \in Int
    BY <1>1, WordNumbers DEF Source
  <2> HIDE DEF id
  <2>3. m.frame[plan.base] + m.r12 + id.off + plan.origin \in Int
    BY <2>1, <2>2
  <2> QED
    BY <2>3, WrapsIn
<1>3. f \in [Local -> Word] /\ i \in [Local -> Identity]
  BY <1>1, <1>2, MachineFields, IdentifiedFacts
<1>4. TriedSlot(m, s) = [m EXCEPT !.frame = f, !.ids = i]
  BY DEF TriedSlot, Machine
<1> HIDE DEF f, i
<1>5. /\ TriedSlot(m, s) \in Machine
      /\ TriedSlot(m, s).r10 = m.r10 /\ TriedSlot(m, s).r12 = m.r12 /\ TriedSlot(m, s).r13 = m.r13
      /\ TriedSlot(m, s).r9 = m.r9 /\ TriedSlot(m, s).r11 = m.r11
      /\ TriedSlot(m, s).ids = i /\ TriedSlot(m, s).frame = f
  BY <1>3, <1>4 DEF Machine
<1> QED
  BY <1>5 DEF f, i

LEMMA TriedType ==
  ASSUME Settled, Typed, NEW m \in Machine, NEW s \in Statement
  PROVE  LET t == TriedFast(m, s) IN
         /\ t.machine \in Machine
         /\ t.machine.r10 = m.r10 /\ t.machine.r12 = m.r12
         /\ (Fast => s.at.tee # plan.base) => t.machine.r13 = m.r13
<1> DEFINE t == TriedFast(m, s)
<1>1. CASE t = Lowered(m, s.at)
  BY <1>1, LoweredType, StatementFacts
<1>2. CASE t = [machine |-> m, id |-> Nothing, word |-> 0]
  BY <1>2
<1>3. CASE /\ plan.loaded
           /\ t = [machine |-> IF s.at.tee = none THEN m ELSE TriedSlot(m, s),
                   id |-> FastLoaded(m, s.at), word |-> 0]
  <2>1. t.machine = IF s.at.tee = none THEN m ELSE TriedSlot(m, s)
    BY <1>3
  <2> HIDE DEF t
  <2>2. CASE s.at.tee = none
    BY <2>1, <2>2 DEF t
  <2>3. CASE s.at.tee # none
    <3>1. /\ TriedSlot(m, s) \in Machine /\ TriedSlot(m, s).r10 = m.r10
          /\ TriedSlot(m, s).r12 = m.r12 /\ TriedSlot(m, s).r13 = m.r13
      BY <1>3, <2>3, TriedSlotType
    <3>2. t.machine = TriedSlot(m, s)
      BY <2>1, <2>3
    <3> QED
      BY <3>1, <3>2 DEF t
  <2> QED
    BY <2>2, <2>3
<1> QED
  BY <1>1, <1>2, <1>3, TriedWays

\* The slot that a pointer through R13 assigns gets the right word.
LEMMA TriedSlotAgrees ==
  ASSUME Settled, Typed, NEW m \in Machine, NEW words \in [Local -> Word], Agrees(m, words),
         NEW s \in Statement, Ready(m, words, s), Fast, plan.loaded, s.at.tee # none,
         FastLoaded(m, s.at) # Nothing
  PROVE  /\ Agrees(TriedSlot(m, s), After(words, s.at))
         /\ Value(words, s.at) = Means(TriedSlot(m, s), After(words, s.at), FastLoaded(m, s.at))
<1> DEFINE id == FastLoaded(m, s.at)
           y == s.at.tee
           w == Value(words, s.at)
           t == TriedSlot(m, s)
           a == Assigned(m, y, w, id)
           b == plan.base
<1>1. s.at \in Pointer /\ y \in Local /\ y # b /\ ~ plan.promoted
  BY StatementFacts DEF Ready
<1>2. id \in Identity /\ id.base = b /\ w = Means(m, words, id)
  BY FastLoadedMeans
<1>3. w \in Word /\ b \in Local /\ id \in Source /\ plan.word /\ plan.origin \in Int /\ plan.base # loop.counter
  BY <1>1, <1>2, ValueType, Planned, SourceFacts
<1>4. \A x \in Local : ~ Promoted(x) /\ Held(m, x) = m.frame[x] /\ Held(t, x) = t.frame[x] /\ Held(a, x) = a.frame[x]
  BY <1>1 DEF Promoted, Held
<1>5. m.frame[b] = words[b]
  BY <1>3, <1>4 DEF Agrees
<1>6. (m.frame[b] + m.r12 + id.off + plan.origin) % Words = w
  <2> DEFINE o == id.off
             c == m.frame[b]
  <2>1. o \in Int /\ c \in Int /\ m.r12 \in Int
    BY <1>2, <1>3, MachineFields, WordNumbers DEF Identity
  <2>2. id = [base |-> plan.base, off |-> o]
    BY <1>2 DEF Identity
  <2> HIDE DEF id, w
  <2>3. w = (words[b] + (m.r12 + plan.origin) + o) % Words
    BY <1>2, <2>2, BaseMeans
  <2> HIDE DEF o, c, b
  <2>4. c + m.r12 + o + plan.origin = c + (m.r12 + plan.origin) + o
    BY <1>3, <2>1
  <2> QED
    BY <1>5, <2>3, <2>4 DEF o, c
<1>7. /\ t \in Machine /\ t.r10 = m.r10 /\ t.r12 = m.r12 /\ t.r13 = m.r13 /\ t.r9 = m.r9 /\ t.r11 = m.r11
      /\ t.ids = Identified(m.ids, y, id)
      /\ t.frame = [m.frame EXCEPT ![y] = (m.frame[b] + m.r12 + id.off + plan.origin) % Words]
  BY <1>1, TriedSlotType
<1>8. t.frame = [m.frame EXCEPT ![y] = w]
  <2> HIDE DEF t, w, id
  <2> QED
    BY <1>6, <1>7
<1>9. /\ a.ids = Identified(m.ids, y, id) /\ a.r10 = m.r10 /\ a.r12 = m.r12 /\ a.r13 = m.r13
  <2> HIDE DEF w, id
  <2> QED
    BY <1>1, <1>3, AssignedIds
<1>10. /\ a \in Machine /\ a.frame = [m.frame EXCEPT ![y] = w] /\ a.r11 = m.r11 /\ a.r9 = m.r9
  <2> HIDE DEF w, id
  <2> QED
    BY <1>1, <1>3, <1>4, AssignedFields
<1>11. t = a
  <2> HIDE DEF t, a, w, id, y
  <2> QED
    BY <1>7, <1>8, <1>9, <1>10 DEF Machine
<1>12. Rooted(m.ids, id)
  <2>1. m.ids[b].base = b /\ m.ids[m.ids[b].base] = Self(m.ids[b].base)
    BY <1>3 DEF Agrees
  <2> QED
    BY <1>2, <2>1 DEF Rooted
<1>13. Agrees(a, [words EXCEPT ![y] = w])
  <2> HIDE DEF w, id, a
  <2>1. id.base \in Local \ {y}
    BY <1>1, <1>2, <1>3
  <2>2. Agrees(Assigned(m, y, w, id), [words EXCEPT ![y] = w])
    BY <1>1, <1>2, <1>3, <1>12, <2>1, AssignedAgrees
  <2> QED
    BY <2>2 DEF a
<1>14. After(words, s.at) = [words EXCEPT ![y] = w]
  BY <1>1 DEF After
<1>15. Means(t, After(words, s.at), id) = Means(m, words, id)
  <2>1. After(words, s.at)[b] = words[b]
    BY <1>1, <1>3, <1>14
  <2> HIDE DEF t, id, w
  <2> QED
    BY <1>2, <1>7, <2>1 DEF Means, Meaning
<1> HIDE DEF t, a, w, id
<1> QED
  BY <1>2, <1>11, <1>13, <1>14, <1>15 DEF t, w, id

\* The word pointer is tried without harm, and what it finds is right.
LEMMA TriedAgrees ==
  ASSUME Settled, Typed, NEW m \in Machine, NEW words \in [Local -> Word], Agrees(m, words),
         NEW s \in Statement, Ready(m, words, s)
  PROVE  LET t == TriedFast(m, s)
             v == Value(words, s.at)
             after == After(words, s.at)
         IN /\ t.machine \in Machine /\ (t.machine = m \/ Agrees(t.machine, after))
            /\ t.id.base \in Local =>
                 /\ Agrees(t.machine, after) /\ v = Means(t.machine, after, t.id) /\ t.id \in Source
                 /\ t.word = v \/ (plan.word /\ WholeWord(s, t.id.off))
<1> DEFINE t == TriedFast(m, s)
           v == Value(words, s.at)
           after == After(words, s.at)
           p == Lowered(m, s.at)
           id == FastLoaded(m, s.at)
           slot == TriedSlot(m, s)
<1>1. t.machine \in Machine
  BY TriedType
<1>2. CASE t = p
  <2>1. /\ p.word = v /\ Agrees(p.machine, after) /\ p.id \in Source
        /\ p.id.base \in Local => v = Means(p.machine, after, p.id)
    BY ReadyLowers
  <2> HIDE DEF t, v, after, p
  <2>2. t.machine \in Machine
    BY <1>1 DEF t
  <2> QED
    BY <1>2, <2>1, <2>2 DEF t, v, after, p
<1>3. CASE t = [machine |-> m, id |-> Nothing, word |-> 0]
  <2>1. t.machine = m /\ t.id.base \notin Local
    BY <1>3, SourceFacts
  <2> QED
    BY <1>1, <2>1
<1>4. CASE /\ Fast /\ plan.loaded /\ id # Nothing /\ WholeWord(s, id.off)
           /\ t = [machine |-> IF s.at.tee = none THEN m ELSE slot, id |-> id, word |-> 0]
  <2>1. id \in Identity /\ id.base = plan.base /\ v = Means(m, words, id) /\ plan.word /\ id \in Source
    BY <1>4, FastLoadedMeans, Planned, SourceFacts
  <2>2. t.id = id
    BY <1>4
  <2>3. t.machine = IF s.at.tee = none THEN m ELSE slot
    BY <1>4
  <2>4. CASE s.at.tee = none
    <3>1. after = words
      BY <2>4 DEF After
    <3> HIDE DEF t, v, after, id
    <3>2. t.machine = m /\ Agrees(m, after) /\ v = Means(m, after, id)
      BY <2>1, <2>3, <2>4, <3>1
    <3>3. t.machine \in Machine
      BY <1>1 DEF t
    <3> QED
      BY <1>4, <2>1, <2>2, <3>2, <3>3 DEF t, v, after
  <2>5. CASE s.at.tee # none
    <3>1. Agrees(slot, after) /\ v = Means(slot, after, id)
      BY <1>4, <2>5, TriedSlotAgrees
    <3> HIDE DEF t, v, after, id, slot
    <3>2. t.machine = slot
      BY <2>3, <2>5
    <3>3. t.machine \in Machine
      BY <1>1 DEF t
    <3> QED
      BY <1>4, <2>1, <2>2, <3>1, <3>2, <3>3 DEF t, v, after
  <2> QED
    BY <2>4, <2>5
<1> HIDE DEF t, p, id, slot
<1>5. (t = p) \/ (t = [machine |-> m, id |-> Nothing, word |-> 0])
        \/ /\ Fast /\ plan.loaded /\ id # Nothing /\ WholeWord(s, id.off)
           /\ t = [machine |-> IF s.at.tee = none THEN m ELSE slot, id |-> id, word |-> 0]
  BY TriedWays DEF t, p, id, slot
<1> QED
  BY <1>2, <1>3, <1>4, <1>5

\* The pointer that an access uses.
Pointed(m, s) ==
  IF Covered(TriedFast(m, s).id, s) THEN TriedFast(m, s) ELSE Lowered(TriedFast(m, s).machine, s.at)

LEMMA AccessIs ==
  ASSUME NEW m, NEW s
  PROVE  /\ AccessOf(m, s).machine = Pointed(m, s).machine
         /\ AccessOf(m, s).unchecked = Covered(Pointed(m, s).id, s)
         /\ AccessOf(m, s).address =
              IF Covered(Pointed(m, s).id, s) /\ plan.word /\ WholeWord(s, Pointed(m, s).id.off)
              THEN 4 * (Pointed(m, s).machine.r13 + (Pointed(m, s).id.off + s.offset) \div 4)
              ELSE Pointed(m, s).word + s.offset
  BY DEF AccessOf, Pointed

LEMMA AccessType ==
  ASSUME Settled, Typed, NEW m \in Machine, NEW s \in Statement
  PROVE  /\ AccessOf(m, s).machine \in Machine
         /\ AccessOf(m, s).machine.r10 = m.r10 /\ AccessOf(m, s).machine.r12 = m.r12
         /\ (Fast => s.at.tee # plan.base) => AccessOf(m, s).machine.r13 = m.r13
<1> DEFINE t == TriedFast(m, s)
<1>1. /\ t.machine \in Machine
      /\ t.machine.r10 = m.r10 /\ t.machine.r12 = m.r12
      /\ (Fast => s.at.tee # plan.base) => t.machine.r13 = m.r13
  BY TriedType
<1>2. s.at \in Pointer
  BY StatementFacts
<1> HIDE DEF t
<1> DEFINE p == Lowered(t.machine, s.at)
<1>3. /\ p.machine \in Machine
      /\ p.machine.r10 = t.machine.r10 /\ p.machine.r12 = t.machine.r12
      /\ (Fast => s.at.tee # plan.base) => p.machine.r13 = t.machine.r13
  BY <1>1, <1>2, LoweredType
<1>4. AccessOf(m, s).machine = t.machine \/ AccessOf(m, s).machine = p.machine
  BY AccessIs DEF Pointed, t
<1> HIDE DEF p
<1> QED
  BY <1>1, <1>3, <1>4

\* After an access the code agrees with Wasm, and an access without a check
\* is at the word of its pointer, which is in the range that the guard stands
\* for.
LEMMA AccessAgrees ==
  ASSUME Settled, Typed, NEW m \in Machine, NEW words \in [Local -> Word], Agrees(m, words),
         NEW s \in Statement, Ready(m, words, s)
  PROVE  LET p == Pointed(m, s)
             v == Value(words, s.at)
             after == After(words, s.at)
         IN /\ Agrees(p.machine, after)
            /\ p.id.base \in Local => v = Means(p.machine, after, p.id) /\ p.id \in Source
            /\ p.id.base \in Local => p.word = v \/ (plan.word /\ WholeWord(s, p.id.off))
<1> DEFINE t == TriedFast(m, s)
           v == Value(words, s.at)
           after == After(words, s.at)
           p == Pointed(m, s)
           q == Lowered(t.machine, s.at)
<1>1. /\ t.machine \in Machine /\ (t.machine = m \/ Agrees(t.machine, after))
      /\ t.id.base \in Local =>
           /\ Agrees(t.machine, after) /\ v = Means(t.machine, after, t.id) /\ t.id \in Source
           /\ t.word = v \/ (plan.word /\ WholeWord(s, t.id.off))
  BY TriedAgrees
<1>2. CASE Covered(t.id, s)
  <2>1. p = t
    BY <1>2 DEF Pointed
  <2>2. t.id.base \in Local
    BY <1>2, Planned DEF Covered
  <2> HIDE DEF p, t, v, after
  <2> QED
    BY <1>1, <2>1, <2>2 DEF p, v, after
<1>3. CASE ~ Covered(t.id, s)
  <2>1. p = q
    BY <1>3 DEF Pointed
  <2>2. /\ q.word = v /\ Agrees(q.machine, after)
        /\ q.id \in Source
        /\ q.id.base \in Local => v = Means(q.machine, after, q.id)
    <3>1. CASE t.machine = m
      <4>1. q = Lowered(m, s.at)
        BY <3>1
      <4> HIDE DEF q, v, after
      <4> QED
        BY <4>1, ReadyLowers DEF v, after
    <3>2. CASE Agrees(t.machine, after)
      <4> HIDE DEF t
      <4> QED
        BY <1>1, <3>2, SecondLowers DEF Ready
    <3> QED
      BY <1>1, <3>1, <3>2
  <2> HIDE DEF p, q, v, after
  <2> QED
    BY <2>1, <2>2 DEF p, v, after
<1> QED
  BY <1>2, <1>3

-----------------------------------------------------------------------------
(* The inductive invariant.                                                *)

\* A local that is known as a copy has been assigned in this iteration.
Sourced(ids, k) ==
  \A x \in Local : ids[x].base # x =>
    \E j \in Assignments(loop, x) \cap DOMAIN loop.body : j < k /\ loop.body[j].op # "any"

\* The base of this iteration, whether the stride is behind, and the
\* iterations that are left, with the present one.
Address == Meaning(machine, wasm, plan.base) % Words
Strode == \E j \in Assignments(loop, plan.base) : j < pc
Left ==
  IF loop.trip = "increment" THEN Signed(machine.r10) - Signed(wasm[loop.counter])
  ELSE Signed(wasm[loop.counter])
\* Strides that are still to come before the last access.
Ahead == IF Strode THEN Left - 2 ELSE Left - 1

\* The accesses that are left stay inside memory, and R13 is the base.
InMemory ==
  /\ Left >= 1 /\ (loop.trip = "increment" => Signed(wasm[loop.counter]) >= 0)
  /\ plan.high > 0 /\ Ahead >= 0 =>
       /\ Address + Ahead * plan.stride + plan.high <= size
       /\ plan.word => 4 * machine.r13 = Address

\* The loaded word is still the one in memory, and the alias that a statement
\* behind assigns counts from R13.
LoadsKept ==
  plan.loaded =>
    /\ machine.r12 = memory[BaseAt]
    /\ ~ Strode => \A j \in 1 .. pc - 1 :
         TeesAlias(loop, j) =>
           wasm[plan.alias] = Means(machine, wasm, [base |-> plan.base, off |-> plan.aliasOff])

LimitKept == loop.trip = "increment" /\ Reuses => machine.r10 = Limit(wasm, memory)

Types == Settled /\ machine \in Machine /\ TypeOK

Inv ==
  /\ Types
  /\ mode = "guard" => pc = 1 /\ machine.frame = wasm /\ machine.ids = NoIdentities
  /\ Running => Agrees(machine, wasm) /\ Sourced(machine.ids, pc) /\ LimitKept
  /\ Fast => InMemory /\ LoadsKept
  /\ LocalsAgree

LEMMA TypesFacts ==
  ASSUME Types
  PROVE  /\ Settled /\ Typed /\ machine \in Machine /\ wasm \in [Local -> Word]
         /\ memory \in [Slot -> Word] /\ size \in Sizes /\ size \in Nat /\ pc \in Nat
         /\ pc \in 1 .. Len(loop.body) + 1
<1>1. Settled /\ machine \in Machine /\ wasm \in [Local -> Word] /\ memory \in [Slot -> Word]
      /\ size \in Sizes /\ pc \in 1 .. Len(loop.body) + 1
  BY DEF Types, TypeOK
<1>2. size \in Nat
  BY <1>1, ConstantAssumption
<1>3. pc \in Nat
  <2>1. Len(loop.body) \in Nat
    BY <1>1, Planned
  <2> QED
    BY <1>1, <2>1
<1> QED
  BY <1>1, <1>2, <1>3 DEF Typed

LEMMA PlainFacts ==
  ASSUME PlainLoops, Settled
  PROVE  PlainLoop(loop) /\ (plan.loaded => PlainLoads(loop))
  BY DEF PlainLoops, PlainLoop, Settled

\* An access finds the machine ready for it.
LEMMA AccessReady ==
  ASSUME PlainLoops, Inv, Running, pc \in Accesses(loop)
  PROVE  Ready(machine, wasm, Here)
<1>1. Settled /\ pc \in Nat /\ pc \in DOMAIN loop.body
  BY TypesFacts DEF Inv, Accesses
<1>2. Here \in Statement /\ Here.op \in {"load", "store"}
  BY <1>1, Planned DEF Here, Accesses
<1>3. PlainLoop(loop) /\ (plan.loaded => PlainLoads(loop)) /\ plan = PlanOf(loop)
  BY <1>1, PlainFacts DEF Settled
<1>4. Here.at.tee # Here.at.local
  BY <1>3 DEF PlainLoop, Here
<1>5. \A j \in Assignments(loop, plan.base) : pc < j
  BY <1>3 DEF PlainLoop
<1>6. pc \notin Assignments(loop, plan.base)
  BY <1>1, <1>5
<1>7. \A x \in Local : Here.at.tee = x => pc \in Assignments(loop, x)
  BY <1>1 DEF Assignments, Here
<1>8. Here.at.loaded /\ Here.at.tee \in Local => machine.ids[Here.at.tee].base = Here.at.tee
  <2> SUFFICES ASSUME Here.at.loaded, NEW x \in Local, Here.at.tee = x, machine.ids[x].base # x
               PROVE  FALSE
    OBVIOUS
  <2>1. PICK j \in Assignments(loop, x) \cap DOMAIN loop.body : j < pc /\ loop.body[j].op # "any"
    BY DEF Inv, Sourced
  <2>2. pc \in Assignments(loop, x) \cap DOMAIN loop.body
    BY <1>1, <1>7
  <2>3. j # pc
    BY <1>1, <2>1
  <2>4. ~ Copies(loop.body[pc])
    BY DEF Copies, Here
  <2> QED
    BY <1>2, <1>3, <2>1, <2>2, <2>3, <2>4 DEF PlainLoop, Here
<1>9. Here.at.tee # plan.base
  BY <1>1, <1>6, <1>7, Planned
<1>10. ASSUME Fast, plan.loaded
       PROVE  /\ plan.promoted => Here.at.tee = none
              /\ ~ Here.at.loaded => Here.at.local # plan.base
              /\ machine.r12 = memory[BaseAt]
  BY <1>1, <1>2, <1>3, <1>6, <1>10 DEF PlainLoads, Here, Inv, LoadsKept
<1>11. ASSUME Fast, plan.loaded, ~ Here.at.loaded, Here.at.local = plan.alias
       PROVE  wasm[plan.alias] = Means(machine, wasm, [base |-> plan.base, off |-> plan.aliasOff])
  <2>1. PICK j \in 1 .. pc - 1 : TeesAlias(loop, j)
    BY <1>3, <1>11 DEF PlainLoads, Here
  <2>2. ~ Strode
    <3> SUFFICES ASSUME NEW i \in Assignments(loop, plan.base), i < pc
                 PROVE  FALSE
      BY DEF Strode
    <3>1. pc < i
      BY <1>5
    <3>2. i \in Int
      BY <1>1, StrideIs, Planned
    <3> QED
      BY <1>1, <3>1, <3>2
  <2> QED
    BY <1>11, <2>1, <2>2 DEF Inv, LoadsKept
<1> QED
  BY <1>4, <1>8, <1>9, <1>10, <1>11 DEF Ready

LEMMA SizeFacts ==
  ASSUME Types
  PROVE  size \in Nat /\ size < Words
<1>1. size \in Sizes
  BY TypesFacts
<1>2. Words \in Nat \ {0} /\ size \in Nat /\ size <= Memory /\ Memory <= Words \div 2 /\ Memory \in Nat
  BY <1>1, ConstantAssumption, WordsFacts
<1> HIDE DEF Words
<1>3. Words \div 2 < Words /\ Words \div 2 \in Nat
  BY <1>2
<1> QED
  BY <1>2, <1>3

LEMMA AddressType ==
  ASSUME Types
  PROVE  Address \in Word /\ Address \in Nat /\ Meaning(machine, wasm, plan.base) \in Int
<1>1. Meaning(machine, wasm, plan.base) \in Int
  BY TypesFacts, Planned, MeaningType
<1> QED
  BY <1>1, WrapsIn, WordNumbers DEF Address

LEMMA WordOf ==
  /\ \A x \in Local, m \in [Local -> Word] : m[x] \in Word
  OBVIOUS

LEMMA SignedFacts ==
  ASSUME NEW w \in Word
  PROVE  /\ Signed(w) \in Int /\ (Signed(w) >= 0 => Signed(w) = w /\ w < Words \div 2)
         /\ (w < Words \div 2 => Signed(w) = w)
<1>1. Words \in Nat \ {0} /\ w \in 0 .. Words - 1
  BY WordsFacts
<1>2. Words \div 2 \in Nat
  BY <1>1
<1> HIDE DEF Words
<1> QED
  BY <1>1, <1>2 DEF Signed

LEMMA LeftType ==
  ASSUME Types
  PROVE  Left \in Int /\ Ahead \in Int
<1>1. machine.r10 \in Word /\ wasm[loop.counter] \in Word
  BY TypesFacts, MachineFields, Planned
<1>2. Signed(machine.r10) \in Int /\ Signed(wasm[loop.counter]) \in Int
  BY <1>1, SignedFacts
<1>3. Left \in Int
  BY <1>2 DEF Left
<1> QED
  BY <1>3 DEF Ahead

LEMMA Products ==
  ASSUME NEW n \in Nat, NEW s \in Nat \ {0}
  PROVE  n * s \in Nat
  OBVIOUS

\* An access that the guard stands for is inside memory, where R13 says.
LEMMA UncheckedSafe ==
  ASSUME PlainLoops, Inv
  PROVE  UncheckedAccessesSafe
<1> SUFFICES ASSUME Running, pc \in DOMAIN loop.body, Here.op \in {"load", "store"},
                    AccessOf(machine, Here).unchecked
             PROVE  /\ WasmAddress + Here.width <= size
                    /\ AccessOf(machine, Here).address = WasmAddress
  BY DEF UncheckedAccessesSafe
<1> DEFINE p == Pointed(machine, Here)
           v == Value(wasm, Here.at)
           o == p.id.off
           M == Meaning(machine, wasm, plan.base)
           s == Here
<1>1. Types /\ Settled /\ Typed /\ machine \in Machine /\ wasm \in [Local -> Word]
  BY TypesFacts DEF Inv
<1>2. pc \in Accesses(loop) /\ s \in Statement
  BY <1>1, Planned DEF Accesses, Here
<1>3. Ready(machine, wasm, s)
  BY <1>2, AccessReady
<1>4. Agrees(machine, wasm)
  BY DEF Inv
<1>5. Covered(p.id, s)
  BY AccessIs
<1>6. Fast /\ p.id.base = plan.base /\ o + s.offset + s.width <= plan.high /\ plan.base \in Local
  BY <1>1, <1>5, Planned DEF Covered, End
<1>7. v = Means(p.machine, After(wasm, s.at), p.id) /\ p.id \in Source
      /\ (p.word = v \/ (plan.word /\ WholeWord(s, o)))
  BY <1>1, <1>2, <1>3, <1>4, <1>6, AccessAgrees
<1>8. /\ p.machine.r12 = machine.r12 /\ p.machine.r13 = machine.r13 /\ s.at.tee # plan.base
  <2>1. s.at.tee # plan.base
    BY <1>3, <1>6 DEF Ready
  <2>2. AccessOf(machine, s).machine = p.machine
    BY AccessIs
  <2> HIDE DEF p, s
  <2>3. /\ AccessOf(machine, s).machine.r12 = machine.r12
        /\ AccessOf(machine, s).machine.r13 = machine.r13
    BY <1>1, <1>2, <2>1, AccessType
  <2> QED
    BY <2>1, <2>2, <2>3
<1>9. v = (M + o) % Words
  <2>1. After(wasm, s.at)[plan.base] = wasm[plan.base]
    BY <1>1, <1>6, <1>8 DEF After
  <2>2. Meaning(p.machine, After(wasm, s.at), plan.base) = M
    <3> HIDE DEF p, s
    <3> QED
      BY <1>8, <2>1 DEF Meaning
  <2>3. v = (Meaning(p.machine, After(wasm, s.at), p.id.base) + o) % Words
    <3> HIDE DEF p, v, s
    <3> QED
      BY <1>7 DEF Means
  <2> HIDE DEF p, v, o, M, s
  <2> QED
    BY <1>6, <2>2, <2>3
<1>10. o \in Word /\ o \in Nat /\ s.offset \in Nat /\ s.width \in Nat /\ s.width > 0
  BY <1>2, <1>7, StatementFacts, WordNumbers DEF Source
<1>11. M \in Int /\ Address = M % Words /\ Address \in Nat
  BY <1>1, AddressType DEF Address
<1> HIDE DEF p, v, o, M, s
<1>12. v = (Address + o) % Words
  BY <1>9, <1>10, <1>11, Wraps
<1>13. ~ Strode
  <2>1. PlainLoop(loop) /\ plan = PlanOf(loop)
    BY <1>1, PlainFacts DEF Settled
  <2>2. \A j \in Assignments(loop, plan.base) : pc < j /\ j \in Int
    BY <1>1, <1>2, <2>1, StrideIs, Planned DEF PlainLoop
  <2>3. pc \in Nat
    BY <1>1, TypesFacts
  <2> QED
    BY <2>2, <2>3 DEF Strode
<1>14. Left >= 1 /\ Left \in Int /\ Ahead = Left - 1 /\ InMemory
  BY <1>1, <1>6, <1>13, LeftType DEF Inv, InMemory, Ahead
<1>15. Ahead >= 0 /\ Ahead \in Nat
  BY <1>14
<1>16. plan.high > 0 /\ plan.high \in Int
  BY <1>1, <1>6, <1>10, Planned
<1>17. Address + Ahead * plan.stride + plan.high <= size /\ (plan.word => 4 * machine.r13 = Address)
  BY <1>14, <1>15, <1>16 DEF InMemory
<1> DEFINE n == Ahead * plan.stride
<1>18. n \in Nat
  BY <1>1, <1>15, Planned, Products
<1> HIDE DEF n
<1>19. Address + o + s.offset + s.width <= size
  BY <1>6, <1>10, <1>11, <1>16, <1>17, <1>18, <1>1, SizeFacts DEF n
<1>20. v = Address + o
  <2>1. size \in Nat /\ size < Words /\ Words \in Nat \ {0}
    BY <1>1, SizeFacts, WordsFacts
  <2> HIDE DEF Words
  <2>2. Address + o \in 0 .. Words - 1
    BY <1>10, <1>11, <1>19, <2>1
  <2>3. (Address + o) % Words = Address + o
    BY <2>2, Wraps, WordsFacts
  <2> QED
    BY <1>12, <2>3
<1>21. WasmAddress = v + s.offset
  BY DEF WasmAddress, PointerWord, Value, v, s
<1>22. WasmAddress + s.width <= size
  BY <1>10, <1>11, <1>19, <1>20, <1>21
<1>23. AccessOf(machine, s).address = WasmAddress
  <2>1. CASE plan.word /\ WholeWord(s, o)
    <3>1. AccessOf(machine, s).address = 4 * (p.machine.r13 + (o + s.offset) \div 4)
      BY <1>5, <2>1, AccessIs DEF p, o, s
    <3>2. (o + s.offset) % 4 = 0
      BY <2>1 DEF WholeWord, Start
    <3>3. machine.r13 \in Int /\ 4 * machine.r13 = Address
      BY <1>1, <1>17, <2>1, MachineFields
    <3>4. 4 * (machine.r13 + (o + s.offset) \div 4) = Address + o + s.offset
      BY <1>10, <1>11, <3>2, <3>3
    <3> QED
      BY <1>8, <1>20, <1>21, <3>1, <3>4
  <2>2. CASE ~ (plan.word /\ WholeWord(s, o))
    <3>1. p.word = v
      BY <1>7, <2>2
    <3>2. AccessOf(machine, s).address = p.word + s.offset
      BY <1>5, <2>2, AccessIs DEF p, o, s
    <3> QED
      BY <1>21, <3>1, <3>2
  <2> QED
    BY <2>1, <2>2
<1> QED
  BY <1>22, <1>23 DEF s

-----------------------------------------------------------------------------
(* Types.                                                                  *)

LEMMA TypesBack ==
  ASSUME Settled, UNCHANGED <<loop, plan>>,
         mode' \in {"guard", "fast", "checked", "done", "trapped", "diverged"},
         pc' \in 1 .. Len(loop.body) + 1, wasm' \in [Local -> Word], machine' \in Machine,
         memory' \in [Slot -> Word], size' \in Sizes
  PROVE  Types'
<1>1. Settled'
  BY DEF Settled
<1>2. /\ machine'.frame \in [Local -> Word] /\ {machine'.r9, machine'.r10, machine'.r11} \subseteq Word
      /\ \A x \in Local : machine'.ids[x] \in Identity
  BY DEF Machine
<1>3. TypeOK'
  BY <1>2 DEF TypeOK, Identity
<1> QED
  BY <1>1, <1>3 DEF Types

LEMMA NoIdentitiesType ==
  /\ NoIdentities \in [Local -> Identity]
  /\ \A x \in Local : NoIdentities[x] = Self(x) /\ NoIdentities[x].base = x
<1>1. 0 \in Word
  BY WordsFacts
<1> QED
  BY <1>1 DEF NoIdentities, Identity, Self

Forgotten(m) == [m EXCEPT !.ids = NoIdentities]

LEMMA ForgottenFacts ==
  ASSUME NEW m \in Machine
  PROVE  /\ Forgotten(m) \in Machine /\ Forgotten(m).frame = m.frame
         /\ Forgotten(m).r9 = m.r9 /\ Forgotten(m).r10 = m.r10 /\ Forgotten(m).r11 = m.r11
         /\ Forgotten(m).r12 = m.r12 /\ Forgotten(m).r13 = m.r13
         /\ Forgotten(m).ids = NoIdentities
  BY NoIdentitiesType DEF Forgotten, Machine

LEMMA JoinedIs ==
  ASSUME NEW m
  PROVE  Joined(m) = m \/ Joined(m) = Forgotten(m)
  BY DEF Joined, Forgotten

LEMMA JoinedType ==
  ASSUME NEW m \in Machine
  PROVE  /\ Joined(m) \in Machine /\ Joined(m).frame = m.frame
         /\ Joined(m).r10 = m.r10 /\ Joined(m).r12 = m.r12 /\ Joined(m).r13 = m.r13
  BY JoinedIs, ForgottenFacts

LEMMA FlushedType ==
  ASSUME NEW m \in Machine
  PROVE  /\ Flushed(m) \in Machine /\ Flushed(m).frame = [x \in Local |-> Held(m, x)]
         /\ Flushed(m).r10 = m.r10 /\ Flushed(m).r12 = m.r12 /\ Flushed(m).r13 = m.r13
<1> DEFINE f == [x \in Local |-> Held(m, x)]
<1>1. f \in [Local -> Word]
  BY MachineFields DEF Held
<1>2. Flushed(m) = [m EXCEPT !.frame = f]
  BY DEF Flushed
<1> HIDE DEF f
<1>3. /\ Flushed(m) \in Machine /\ Flushed(m).frame = f
      /\ Flushed(m).r10 = m.r10 /\ Flushed(m).r12 = m.r12 /\ Flushed(m).r13 = m.r13
  BY <1>1, <1>2 DEF Machine
<1> QED
  BY <1>3 DEF f

LEMMA LimitType ==
  ASSUME Settled, NEW words \in [Local -> Word], NEW mem \in [Slot -> Word]
  PROVE  Limit(words, mem) \in Word
<1>1. 0 \in Word /\ LimitAt \in Slot
  BY WordsFacts DEF Slot
<1>2. /\ loop.bound = "local" => loop.value \in Local
      /\ loop.bound = "constant" => loop.value \in Word
  BY LoopAssumption DEF Settled
<1> QED
  BY <1>1, <1>2 DEF Limit

LEMMA BaseWordType ==
  ASSUME Types
  PROVE  BaseWord(machine) \in Word /\ BaseWord(machine) \in Int
<1>1. machine.frame[plan.base] \in Int /\ memory[BaseAt] \in Int
  BY TypesFacts, Planned, MachineFields, WordNumbers DEF Slot
<1>2. plan.loaded => plan.origin \in Int
  BY TypesFacts, Planned
<1>3. machine.frame[plan.base] + (IF plan.loaded THEN memory[BaseAt] + plan.origin ELSE 0) \in Int
  BY <1>1, <1>2
<1> QED
  BY <1>3, WrapsIn DEF BaseWord

\* The registers that a loop version starts with.
Fresh(m) ==
  [m EXCEPT !.r9 = m.frame[loop.counter], !.r11 = m.frame[plan.base],
            !.r10 = IF loop.trip = "increment" THEN Limit(m.frame, memory) ELSE m.r10,
            !.r12 = IF plan.loaded THEN memory[BaseAt] ELSE m.r12,
            !.r13 = BaseWord(m) \div 4]

FreshLimit(m) ==
  [m EXCEPT !.r10 = IF loop.trip = "increment" THEN Limit(m.frame, memory) ELSE m.r10]

LEMMA EnterIs ==
  ASSUME Enter
  PROVE  /\ mode = "guard" /\ UNCHANGED <<loop, plan, pc, wasm, memory, size>>
         /\ \/ Guard(machine) /\ mode' = "fast" /\ machine' = Fresh(machine)
            \/ ~ Guard(machine) /\ mode' = "checked" /\ machine' = FreshLimit(machine)
  BY DEF Enter, Fresh, FreshLimit

LEMMA FreshFacts ==
  ASSUME Types
  PROVE  /\ Fresh(machine) \in Machine /\ FreshLimit(machine) \in Machine
         /\ Fresh(machine).frame = machine.frame /\ FreshLimit(machine).frame = machine.frame
         /\ Fresh(machine).ids = machine.ids /\ FreshLimit(machine).ids = machine.ids
         /\ Fresh(machine).r9 = machine.frame[loop.counter]
         /\ Fresh(machine).r11 = machine.frame[plan.base]
         /\ plan.loaded => Fresh(machine).r12 = memory[BaseAt]
         /\ Fresh(machine).r13 = BaseWord(machine) \div 4
         /\ loop.trip = "increment" =>
              /\ Fresh(machine).r10 = Limit(machine.frame, memory)
              /\ FreshLimit(machine).r10 = Limit(machine.frame, memory)
<1> DEFINE b == IF loop.trip = "increment" THEN Limit(machine.frame, memory) ELSE machine.r10
           c == machine.frame[loop.counter]
           d == machine.frame[plan.base]
           e == IF plan.loaded THEN memory[BaseAt] ELSE machine.r12
           f == BaseWord(machine) \div 4
<1>1. Settled /\ machine \in Machine /\ memory \in [Slot -> Word]
  BY TypesFacts
<1>2. b \in Word
  BY <1>1, MachineFields, LimitType
<1>3. c \in Word /\ d \in Word
  BY <1>1, Planned, MachineFields
<1>4. e \in Int
  BY <1>1, MachineFields, WordNumbers DEF Slot
<1>5. f \in Int
  <2> DEFINE w == BaseWord(machine)
  <2>1. w \in Int
    BY BaseWordType
  <2> HIDE DEF w
  <2>2. w \div 4 \in Int
    BY <2>1
  <2> QED
    BY <2>2 DEF w
<1>6. /\ Fresh(machine) = [machine EXCEPT !.r9 = c, !.r11 = d, !.r10 = b, !.r12 = e, !.r13 = f]
      /\ FreshLimit(machine) = [machine EXCEPT !.r10 = b]
  BY DEF Fresh, FreshLimit
<1>7. (loop.trip = "increment" => b = Limit(machine.frame, memory)) /\ (plan.loaded => e = memory[BaseAt])
  OBVIOUS
<1> HIDE DEF b, c, d, e, f
<1>8. /\ Fresh(machine) \in Machine /\ FreshLimit(machine) \in Machine
      /\ Fresh(machine).frame = machine.frame /\ FreshLimit(machine).frame = machine.frame
      /\ Fresh(machine).ids = machine.ids /\ FreshLimit(machine).ids = machine.ids
      /\ Fresh(machine).r9 = c /\ Fresh(machine).r11 = d /\ Fresh(machine).r12 = e
      /\ Fresh(machine).r13 = f /\ Fresh(machine).r10 = b /\ FreshLimit(machine).r10 = b
  BY <1>1, <1>2, <1>3, <1>4, <1>5, <1>6 DEF Machine
<1> QED
  BY <1>7, <1>8 DEF c, d, f

LEMMA HereFacts ==
  ASSUME Types, pc \in DOMAIN loop.body
  PROVE  /\ Here \in Statement /\ Here.at \in Pointer /\ pc + 1 \in 1 .. Len(loop.body) + 1
         /\ Value(wasm, Here.at) \in Word /\ After(wasm, Here.at) \in [Local -> Word]
         /\ PointerWord(Here.at) = Value(wasm, Here.at) /\ Teed = After(wasm, Here.at)
<1>1. Settled /\ Typed /\ wasm \in [Local -> Word] /\ pc \in Nat
  BY TypesFacts
<1>2. Here \in Statement
  BY <1>1, Planned DEF Here
<1>3. Here.at \in Pointer
  BY <1>2, StatementFacts
<1>4. pc + 1 \in 1 .. Len(loop.body) + 1
  <2>1. Len(loop.body) \in Nat /\ pc \in 1 .. Len(loop.body)
    BY <1>1, Planned
  <2> QED
    BY <2>1
<1> QED
  BY <1>1, <1>2, <1>3, <1>4, ValueType DEF PointerWord, Value, Teed, After

\* Access, when it does not trap.
LEMMA AccessSteps ==
  ASSUME Access
  PROVE  /\ Running /\ pc \in DOMAIN loop.body /\ Here.op \in {"load", "store"}
         /\ UNCHANGED <<loop, plan, size>>
         /\ \/ mode' = "trapped" /\ UNCHANGED <<pc, wasm, machine, memory>>
            \/ /\ wasm' = Teed /\ machine' = Joined(AccessOf(machine, Here).machine)
               /\ memory' \in IF Here.op = "store" THEN Written(WasmAddress, Here.width) ELSE {memory}
               /\ pc' = pc + 1 /\ UNCHANGED mode
  BY DEF Access

\* The counter after the branch back, and whether each program goes round.
Here0 == Counted(Held(machine, loop.counter))
Count == Counted(wasm[loop.counter])
Again(w, n) == IF loop.trip = "increment" THEN Signed(w) < Signed(n) ELSE w # 0
Taken == Again(Count, Limit(wasm, memory))
Jumps == Again(Here0, IF Reuses THEN machine.r10 ELSE Limit(machine.frame, memory))
BackAt == Assigned(machine, loop.counter, Here0, Nothing)

LEMMA BranchIs ==
  ASSUME BranchBack
  PROVE  /\ Running /\ pc > Len(loop.body) /\ UNCHANGED <<loop, plan, memory, size>>
         /\ wasm' = [wasm EXCEPT ![loop.counter] = Count]
         /\ machine' = IF Jumps THEN Forgotten(BackAt) ELSE Flushed(BackAt)
         /\ mode' = IF Taken # Jumps THEN "diverged" ELSE IF Jumps THEN mode ELSE "done"
         /\ pc' = IF Taken /\ Jumps THEN 1 ELSE pc
  BY DEF BranchBack, Here0, Count, Again, Taken, Jumps, BackAt, Forgotten

LEMMA CountedType ==
  ASSUME NEW w \in Word
  PROVE  Counted(w) \in Word
<1>1. w \in Int
  BY WordNumbers
<1>2. w + (IF loop.trip = "increment" THEN 1 ELSE -1) \in Int
  BY <1>1
<1> QED
  BY <1>2, WrapsIn DEF Counted

LEMMA BackFacts ==
  ASSUME Types
  PROVE  /\ Count \in Word /\ Here0 \in Word /\ BackAt \in Machine
         /\ BackAt.r10 = machine.r10 /\ BackAt.r12 = machine.r12 /\ BackAt.r13 = machine.r13
<1>1. Settled /\ machine \in Machine /\ wasm \in [Local -> Word] /\ loop.counter \in Local
      /\ plan.base # loop.counter
  BY TypesFacts, Planned
<1>2. Held(machine, loop.counter) \in Word
  BY <1>1, MachineFields DEF Held
<1>3. Count \in Word /\ Here0 \in Word
  BY <1>1, <1>2, CountedType DEF Count, Here0
<1>4. BackAt \in Machine
  BY <1>1, <1>3, SourceFacts, AssignedFields DEF BackAt
<1>5. BackAt.r10 = machine.r10 /\ BackAt.r12 = machine.r12 /\ BackAt.r13 = machine.r13
  BY <1>1, <1>3, SourceFacts, AssignedIds DEF BackAt
<1> QED
  BY <1>3, <1>4, <1>5

LEMMA TypesInit ==
  ASSUME Init
  PROVE  Types
<1>1. Settled /\ mode = "guard" /\ pc = 1 /\ wasm \in Starts /\ memory \in Contents /\ size \in Sizes
      /\ machine = [frame |-> wasm, r9 |-> 0, r10 |-> 0, r11 |-> 0, r12 |-> 0, r13 |-> 0,
                    ids |-> NoIdentities]
  BY DEF Init, Settled
<1>2. wasm \in [Local -> Word] /\ memory \in [Slot -> Word]
  BY <1>1, ConstantAssumption
<1>3. 0 \in Word
  BY WordsFacts
<1>4. machine \in Machine
  BY <1>1, <1>2, <1>3, NoIdentitiesType DEF Machine
<1>5. pc \in 1 .. Len(loop.body) + 1
  <2>1. Len(loop.body) \in Nat
    BY <1>1, Planned
  <2> QED
    BY <1>1, <2>1
<1>6. /\ machine.frame \in [Local -> Word] /\ {machine.r9, machine.r10, machine.r11} \subseteq Word
      /\ \A x \in Local : machine.ids[x] \in Identity
  BY <1>4, MachineFields
<1> QED
  BY <1>1, <1>2, <1>4, <1>5, <1>6 DEF Types, TypeOK, Identity

LEMMA TypesNext ==
  ASSUME Types, [Next]_vars
  PROVE  Types'
<1>1. /\ Settled /\ Typed /\ machine \in Machine /\ wasm \in [Local -> Word]
      /\ memory \in [Slot -> Word] /\ size \in Sizes /\ pc \in 1 .. Len(loop.body) + 1
  BY TypesFacts
<1>2. mode \in {"guard", "fast", "checked", "done", "trapped", "diverged"}
  BY DEF Types, TypeOK
<1>3. Contents \subseteq [Slot -> Word] /\ Starts \subseteq [Local -> Word]
  BY ConstantAssumption
<1>4. CASE Enter
  <2>1. machine' \in Machine /\ mode' \in {"fast", "checked"} /\ UNCHANGED <<loop, plan, pc, wasm, memory, size>>
    BY <1>4, EnterIs, FreshFacts
  <2> QED
    BY <1>1, <2>1, TypesBack
<1>5. CASE Access
  <2>1. pc \in DOMAIN loop.body /\ UNCHANGED <<loop, plan, size>>
    BY <1>5, AccessSteps
  <2>2. Here \in Statement /\ Teed \in [Local -> Word] /\ pc + 1 \in 1 .. Len(loop.body) + 1
    BY <2>1, HereFacts
  <2>3. AccessOf(machine, Here).machine \in Machine
    BY <1>1, <2>2, AccessType
  <2>4. Joined(AccessOf(machine, Here).machine) \in Machine
    BY <2>3, JoinedType
  <2>5. memory' \in [Slot -> Word]
    BY <1>1, <1>3, <1>5, AccessSteps DEF Written
  <2>6. /\ mode' \in {"guard", "fast", "checked", "done", "trapped", "diverged"}
        /\ pc' \in 1 .. Len(loop.body) + 1 /\ wasm' \in [Local -> Word] /\ machine' \in Machine
    BY <1>1, <1>2, <1>5, <2>2, <2>4, AccessSteps
  <2> QED
    BY <1>1, <2>1, <2>5, <2>6, TypesBack
<1>6. CASE Set
  <2> DEFINE p == Lowered(machine, Here.at)
  <2>1. /\ pc \in DOMAIN loop.body /\ UNCHANGED <<loop, plan, mode, memory, size>> /\ pc' = pc + 1
        /\ machine' = Joined(Assigned(p.machine, Here.local, p.word, p.id))
        /\ wasm' = [wasm EXCEPT ![Here.local] = PointerWord(Here.at)]
    BY <1>6 DEF Set
  <2>2. /\ Here \in Statement /\ Here.at \in Pointer /\ pc + 1 \in 1 .. Len(loop.body) + 1
        /\ PointerWord(Here.at) \in Word /\ Here.local \in Local
    BY <2>1, HereFacts, StatementFacts
  <2>3. p.machine \in Machine /\ p.word \in Word /\ p.id \in Source
    BY <1>1, <2>2, LoweredType
  <2> HIDE DEF p
  <2>4. Assigned(p.machine, Here.local, p.word, p.id) \in Machine
    BY <1>1, <2>2, <2>3, AssignedFields
  <2>5. machine' \in Machine /\ wasm' \in [Local -> Word]
    BY <1>1, <2>1, <2>2, <2>4, JoinedType
  <2> QED
    BY <1>1, <1>2, <2>1, <2>2, <2>5, TypesBack
<1>7. CASE SetAny
  <2>1. /\ pc \in DOMAIN loop.body /\ UNCHANGED <<loop, plan, mode, memory, size>> /\ pc' = pc + 1
    BY <1>7 DEF SetAny
  <2>2. PICK w \in {start[Here.local] : start \in Starts} :
          /\ machine' = Joined(Assigned(machine, Here.local, w, Nothing))
          /\ wasm' = [wasm EXCEPT ![Here.local] = w]
    BY <1>7 DEF SetAny
  <2>3. Here.local \in Local /\ pc + 1 \in 1 .. Len(loop.body) + 1
    BY <2>1, HereFacts, StatementFacts
  <2>4. w \in Word
    BY <1>3, <2>2, <2>3
  <2>5. Assigned(machine, Here.local, w, Nothing) \in Machine
    BY <1>1, <2>3, <2>4, SourceFacts, AssignedFields
  <2>6. machine' \in Machine /\ wasm' \in [Local -> Word]
    BY <1>1, <2>2, <2>3, <2>4, <2>5, JoinedType
  <2> QED
    BY <1>1, <1>2, <2>1, <2>3, <2>6, TypesBack
<1>8. CASE NotTaken \/ Exit \/ Import
  <2>1. /\ pc \in DOMAIN loop.body /\ UNCHANGED <<loop, plan, wasm, size>> /\ pc' \in {pc, pc + 1}
        /\ mode' \in {mode, "done"} /\ machine' = Joined(machine) /\ memory' \in Contents \cup {memory}
    BY <1>8 DEF NotTaken, Exit, Import
  <2>2. pc + 1 \in 1 .. Len(loop.body) + 1
    BY <2>1, HereFacts
  <2>3. machine' \in Machine
    BY <1>1, <2>1, JoinedType
  <2>4. memory' \in [Slot -> Word]
    BY <1>1, <1>3, <2>1
  <2> QED
    BY <1>1, <1>2, <2>1, <2>2, <2>3, <2>4, TypesBack
<1>9. CASE BranchBack
  <2>1. Count \in Word /\ BackAt \in Machine /\ loop.counter \in Local
    BY <1>1, BackFacts, Planned
  <2>2. machine' \in Machine
    BY <1>9, <2>1, BranchIs, ForgottenFacts, FlushedType
  <2>3. wasm' \in [Local -> Word] /\ UNCHANGED <<loop, plan, memory, size>>
    BY <1>1, <1>9, <2>1, BranchIs
  <2>4. mode' \in {mode, "done", "diverged"} /\ pc' \in {1, pc}
    BY <1>9, BranchIs
  <2>5. 1 \in 1 .. Len(loop.body) + 1
    <3>1. Len(loop.body) \in Nat
      BY <1>1, Planned
    <3> QED
      BY <3>1
  <2> QED
    BY <1>1, <1>2, <2>2, <2>3, <2>4, <2>5, TypesBack
<1>10. CASE UNCHANGED vars
  BY <1>10 DEF vars, Types, Settled, TypeOK
<1> QED
  BY <1>4, <1>5, <1>6, <1>7, <1>8, <1>9, <1>10 DEF Next

\* The state keeps its types: the frame slots, the registers and what the
\* compiler knows of locals, whatever the loop is.
THEOREM TypeCorrect == Spec => []TypeOK
<1>1. Init => Types
  BY TypesInit
<1>2. Types /\ [Next]_vars => Types'
  BY TypesNext
<1>3. Types => TypeOK
  BY DEF Types
<1> QED
  BY <1>1, <1>2, <1>3, PTL DEF Spec

-----------------------------------------------------------------------------
(* Steps of the body.                                                      *)

LEMMA ForgottenAgrees ==
  ASSUME Settled, NEW m \in Machine, NEW words \in [Local -> Word], Agrees(m, words)
  PROVE  Agrees(Forgotten(m), words)
<1>1. \A x \in Local : Held(Forgotten(m), x) = Held(m, x)
  BY ForgottenFacts DEF Held
<1>2. Forgotten(m).ids = NoIdentities /\ plan.base \in Local
  BY ForgottenFacts, Planned
<1>3. \A x \in Local : Forgotten(m).ids[x].base = x /\ Forgotten(m).ids[x] = Self(x)
  BY <1>2, NoIdentitiesType
<1> QED
  BY <1>1, <1>2, <1>3 DEF Agrees

LEMMA JoinedAgrees ==
  ASSUME Settled, NEW m \in Machine, NEW words \in [Local -> Word], Agrees(m, words)
  PROVE  Agrees(Joined(m), words)
  BY JoinedIs, ForgottenAgrees

\* After a join less is known.
LEMMA JoinedSourced ==
  ASSUME NEW m \in Machine, NEW k, Sourced(m.ids, k)
  PROVE  Sourced(Joined(m).ids, k)
<1>1. Sourced(NoIdentities, k)
  BY NoIdentitiesType DEF Sourced
<1> QED
  BY <1>1, JoinedIs, ForgottenFacts

LEMMA LaterSourced ==
  ASSUME NEW ids, Sourced(ids, pc), Types
  PROVE  Sourced(ids, pc + 1)
<1> SUFFICES ASSUME NEW x \in Local, ids[x].base # x
             PROVE  \E j \in Assignments(loop, x) \cap DOMAIN loop.body :
                      j < pc + 1 /\ loop.body[j].op # "any"
  BY DEF Sourced
<1>1. PICK j \in Assignments(loop, x) \cap DOMAIN loop.body : j < pc /\ loop.body[j].op # "any"
  BY DEF Sourced
<1>2. pc \in Nat /\ j \in Int
  BY TypesFacts, Planned
<1>3. j < pc + 1
  BY <1>1, <1>2
<1> QED
  BY <1>1, <1>3

LEMMA SameAgrees ==
  ASSUME UNCHANGED <<loop, plan, mode>>, Agrees(machine', wasm')
  PROVE  Agrees(machine, wasm)'
  BY DEF Agrees, Held, Promoted, Fast, Means, Meaning, Self

LEMMA SameSourced ==
  ASSUME UNCHANGED loop, Sourced(machine'.ids, pc')
  PROVE  Sourced(machine.ids, pc)'
  BY DEF Sourced, Assignments, Accesses

\* A step inside of a running copy keeps the invariant when it keeps its parts.
LEMMA InvBack ==
  ASSUME Inv, Types', Running, UNCHANGED <<loop, plan, mode>>,
         Agrees(machine', wasm'), Sourced(machine'.ids, pc'), LimitKept',
         Fast => InMemory' /\ LoadsKept'
  PROVE  Inv'
<1>1. Agrees(machine, wasm)' /\ Sourced(machine.ids, pc)'
  BY SameAgrees, SameSourced
<1>2. mode' = mode /\ mode \in {"fast", "checked"} /\ (Fast' <=> Fast)
  BY DEF Running, Fast
<1>3. LocalsAgree'
  BY <1>1, <1>2 DEF LocalsAgree, Agrees
<1> QED
  BY <1>1, <1>2, <1>3 DEF Inv

\* What a statement of the body does to the state.
BodyStep ==
  /\ Running /\ pc \in DOMAIN loop.body
  /\ UNCHANGED <<loop, plan, mode, size>> /\ pc' = pc + 1
  /\ machine'.r10 = machine.r10 /\ machine'.r12 = machine.r12
  /\ \A x \in Local : wasm'[x] # wasm[x] => pc \in Assignments(loop, x)
  /\ memory' # memory => Here.op \in {"store", "clobber"}

LEMMA BodyMemory ==
  ASSUME PlainLoops, Inv, BodyStep
  PROVE  /\ Fast /\ plan.loaded => memory' = memory
         /\ loop.bound = "memory" /\ Reuses => memory' = memory
<1>1. Settled
  BY TypesFacts DEF Inv
<1>2. memory' # memory => Has(loop, "store") \/ Has(loop, "clobber")
  BY DEF BodyStep, Has, Here
<1>3. Versionable(loop) /\ (plan.loaded => ~ Has(loop, "store"))
  BY <1>1, PlanFacts DEF Settled
<1>4. plan.loaded => ~ Has(loop, "clobber")
  BY <1>1, PlainFacts DEF PlainLoads
<1>5. loop.bound = "memory" => ~ Has(loop, "store") /\ ~ Has(loop, "clobber")
  BY <1>3 DEF Versionable
<1> QED
  BY <1>2, <1>3, <1>4, <1>5

LEMMA BodyLimit ==
  ASSUME PlainLoops, Inv, BodyStep
  PROVE  LimitKept'
<1>1. Settled /\ pc \in DOMAIN loop.body /\ wasm \in [Local -> Word]
  BY TypesFacts DEF Inv, BodyStep
<1>2. UNCHANGED <<loop, plan, mode>> /\ machine'.r10 = machine.r10 /\ Running
  BY DEF BodyStep
<1>3. Reuses' <=> Reuses
  BY <1>2 DEF Reuses, Fast, Has
<1>4. loop.bound = "local" => wasm'[loop.value] = wasm[loop.value]
  <2>1. loop.bound = "local" => loop.value \in Local /\ pc \notin Assignments(loop, loop.value)
    BY <1>1, CounterKept, LoopAssumption DEF Settled
  <2> QED
    BY <2>1 DEF BodyStep
<1>5. Reuses => Limit(wasm, memory)' = Limit(wasm, memory)
  BY <1>2, <1>4, BodyMemory DEF Limit
<1> QED
  BY <1>2, <1>3, <1>5 DEF LimitKept, Inv

LEMMA BodyLeft ==
  ASSUME PlainLoops, Inv, BodyStep
  PROVE  Left' = Left /\ wasm'[loop.counter] = wasm[loop.counter]
<1>1. Settled /\ pc \in DOMAIN loop.body
  BY TypesFacts DEF Inv, BodyStep
<1>2. loop.counter \in Local /\ pc \notin Assignments(loop, loop.counter)
  BY <1>1, CounterKept, Planned
<1>3. loop' = loop /\ machine'.r10 = machine.r10 /\ wasm'[loop.counter] = wasm[loop.counter]
  BY <1>2 DEF BodyStep
<1> QED
  BY <1>3 DEF Left, Signed

\* The address of the next iteration and what is in front of it stay.
Stays ==
  /\ Fast => pc \notin Assignments(loop, plan.base) /\ machine'.r13 = machine.r13
  /\ Fast /\ plan.loaded /\ TeesAlias(loop, pc) =>
       wasm'[plan.alias] = Means(machine', wasm', [base |-> plan.base, off |-> plan.aliasOff])

LEMMA BodyAddress ==
  ASSUME PlainLoops, Inv, BodyStep, Stays, Fast
  PROVE  Address' = Address /\ Ahead' = Ahead /\ (Strode' <=> Strode)
<1>1. Settled /\ pc \in DOMAIN loop.body /\ pc \in Nat /\ plan.base \in Local
  BY TypesFacts, Planned DEF Inv, BodyStep
<1>2. wasm'[plan.base] = wasm[plan.base]
  BY <1>1 DEF BodyStep, Stays
<1>3. UNCHANGED <<loop, plan, mode>> /\ machine'.r12 = machine.r12 /\ pc' = pc + 1
  BY DEF BodyStep
<1>4. Address' = Address
  BY <1>2, <1>3 DEF Address, Meaning, Fast
<1>5. Strode' <=> Strode
  <2>1. Assignments(loop, plan.base)' = Assignments(loop, plan.base)
    BY <1>3 DEF Assignments, Accesses
  <2>2. \A j \in Assignments(loop, plan.base) : j \in Int /\ j # pc
    BY <1>1, StrideIs, Planned DEF Stays
  <2>3. \A j \in Assignments(loop, plan.base) : j < pc + 1 <=> j < pc
    BY <1>1, <2>2
  <2> QED
    BY <1>3, <2>1, <2>3 DEF Strode
<1> QED
  BY <1>4, <1>5, BodyLeft DEF Ahead

LEMMA BodyGuard ==
  ASSUME PlainLoops, Inv, BodyStep, Stays, Fast
  PROVE  InMemory' /\ LoadsKept'
<1>1. Settled /\ pc \in DOMAIN loop.body /\ pc \in Nat
  BY TypesFacts DEF Inv, BodyStep
<1>2. UNCHANGED <<loop, plan, mode, size>> /\ machine'.r12 = machine.r12 /\ pc' = pc + 1
      /\ machine'.r13 = machine.r13 /\ Running
  BY DEF BodyStep, Stays
<1>3. InMemory /\ LoadsKept
  BY DEF Inv
<1>4. InMemory'
  <2>1. Signed(wasm[loop.counter])' = Signed(wasm[loop.counter])
    BY <1>2, BodyLeft DEF Signed
  <2> QED
    BY <1>2, <1>3, <2>1, BodyAddress, BodyLeft DEF InMemory
<1>5. LoadsKept'
  <2> SUFFICES ASSUME plan.loaded
               PROVE  /\ machine'.r12 = memory'[BaseAt]
                      /\ ~ Strode => \A j \in 1 .. pc : TeesAlias(loop, j) =>
                           wasm'[plan.alias] = Means(machine', wasm', [base |-> plan.base, off |-> plan.aliasOff])
    <3>1. pc' - 1 = pc
      BY <1>1, <1>2
    <3>2. \A j : TeesAlias(loop, j)' <=> TeesAlias(loop, j)
      BY <1>2 DEF TeesAlias
    <3>3. Means(machine, wasm, [base |-> plan.base, off |-> plan.aliasOff])'
            = Means(machine', wasm', [base |-> plan.base, off |-> plan.aliasOff])
      BY <1>2 DEF Means, Meaning, Fast
    <3> QED
      BY <1>2, <3>1, <3>2, <3>3, BodyAddress DEF LoadsKept
  <2>1. machine'.r12 = memory'[BaseAt]
    BY <1>2, <1>3, BodyMemory DEF LoadsKept
  <2>2. ASSUME ~ Strode, NEW j \in 1 .. pc, TeesAlias(loop, j)
        PROVE  wasm'[plan.alias] = Means(machine', wasm', [base |-> plan.base, off |-> plan.aliasOff])
    <3>1. CASE j = pc
      BY <2>2, <3>1 DEF Stays
    <3>2. CASE j # pc
      <4>1. j \in 1 .. pc - 1
        BY <1>1, <3>2
      <4>2. wasm[plan.alias] = Means(machine, wasm, [base |-> plan.base, off |-> plan.aliasOff])
        BY <1>3, <2>2, <4>1 DEF LoadsKept
      <4>3. plan.alias \in Local /\ j \in Assignments(loop, plan.alias)
        BY <1>1, <2>2 DEF TeesAlias, Assignments, Settled, Accesses
      <4>4. pc \notin Assignments(loop, plan.alias)
        <5>1. Cardinality(Assignments(loop, plan.alias)) = 1 /\ loop \in Loops
          BY <1>1, <4>3, AliasFacts DEF Settled
        <5>2. PICK i : Assignments(loop, plan.alias) = {i}
          BY <5>1, AssignmentsAre
        <5> QED
          BY <3>2, <4>3, <5>2
      <4>5. wasm'[plan.alias] = wasm[plan.alias] /\ wasm'[plan.base] = wasm[plan.base]
        BY <1>1, <4>3, <4>4, Planned DEF BodyStep, Stays
      <4>6. Means(machine', wasm', [base |-> plan.base, off |-> plan.aliasOff])
              = Means(machine, wasm, [base |-> plan.base, off |-> plan.aliasOff])
        BY <1>2, <4>5 DEF Means, Meaning
      <4> QED
        BY <4>2, <4>5, <4>6
    <3> QED
      BY <3>1, <3>2
  <2> QED
    BY <2>1, <2>2
<1> QED
  BY <1>4, <1>5

\* A statement of the body that is not the stride.
LEMMA BodyKeeps ==
  ASSUME PlainLoops, Inv, Types', BodyStep, Stays,
         Agrees(machine', wasm'), Sourced(machine'.ids, pc')
  PROVE  Inv'
  BY InvBack, BodyLimit, BodyGuard DEF BodyStep

-----------------------------------------------------------------------------
(* Which locals become copies.                                             *)

LEMMA LoweredSources ==
  ASSUME Settled, Typed, NEW m \in Machine, NEW at \in Pointer, NEW x \in Local,
         Lowered(m, at).machine.ids[x].base # x
  PROVE  m.ids[x].base # x \/ x = at.tee
<1>1. CASE at.tee = none
  BY <1>1 DEF Lowered
<1>2. CASE at.tee # none
  <2>1. Lowered(m, at).machine = Assigned(m, at.tee, Lowered(m, at).word, GivenBy(m, at))
    BY <1>2 DEF Lowered, GivenBy
  <2>2. Lowered(m, at).word \in Word /\ GivenBy(m, at) \in Source /\ at.tee \in Local
    BY <1>2, LoweredType, GivenType DEF Pointer
  <2> DEFINE w == Lowered(m, at).word
             from == GivenBy(m, at)
  <2> HIDE DEF w, from
  <2>3. Assigned(m, at.tee, w, from).ids[x].base # x
    BY <2>1 DEF w, from
  <2> QED
    BY <2>2, <2>3, AssignedSources DEF w, from
<1> QED
  BY <1>1, <1>2

LEMMA TriedSources ==
  ASSUME Settled, Typed, NEW m \in Machine, NEW s \in Statement, NEW x \in Local,
         TriedFast(m, s).machine.ids[x].base # x
  PROVE  m.ids[x].base # x \/ x = s.at.tee
<1> DEFINE t == TriedFast(m, s)
           p == Lowered(m, s.at)
           slot == TriedSlot(m, s)
           id == FastLoaded(m, s.at)
<1>1. s.at \in Pointer /\ s.at.tee \in Local \cup {none}
  BY StatementFacts
<1>2. t.machine.ids[x].base # x
  OBVIOUS
<1>3. CASE t = p
  <2>1. p.machine.ids[x].base # x
    BY <1>2, <1>3
  <2> QED
    BY <1>1, <2>1, LoweredSources
<1> HIDE DEF t, slot, id
<1>4. CASE t = [machine |-> m, id |-> Nothing, word |-> 0]
  BY <1>2, <1>4
<1>5. CASE plan.loaded /\ t = [machine |-> IF s.at.tee = none THEN m ELSE slot, id |-> id, word |-> 0]
  <2>1. t.machine = IF s.at.tee = none THEN m ELSE slot
    BY <1>5
  <2>2. CASE s.at.tee = none
    BY <1>2, <2>1, <2>2
  <2>3. CASE s.at.tee # none
    <3>1. slot.ids = Identified(m.ids, s.at.tee, id)
      BY <1>5, <2>3, TriedSlotType DEF slot, id
    <3>2. id \in Source /\ m.ids \in [Local -> Identity] /\ s.at.tee \in Local
      BY <1>1, <1>5, <2>3, FastLoadedType, MachineFields DEF id
    <3>3. Identified(m.ids, s.at.tee, id)[x].base # x
      BY <1>2, <2>1, <2>3, <3>1
    <3> QED
      BY <3>2, <3>3, IdentifiedSources
  <2> QED
    BY <2>2, <2>3
<1>6. t = p \/ t = [machine |-> m, id |-> Nothing, word |-> 0]
        \/ (plan.loaded /\ t = [machine |-> IF s.at.tee = none THEN m ELSE slot, id |-> id, word |-> 0])
  BY TriedWays DEF t, p, slot, id
<1> QED
  BY <1>3, <1>4, <1>5, <1>6

LEMMA AccessSources ==
  ASSUME Settled, Typed, NEW m \in Machine, NEW s \in Statement, NEW x \in Local,
         AccessOf(m, s).machine.ids[x].base # x
  PROVE  m.ids[x].base # x \/ x = s.at.tee
<1> DEFINE t == TriedFast(m, s).machine
<1>1. t \in Machine /\ s.at \in Pointer
  BY TriedType, StatementFacts
<1>2. t.ids[x].base # x => m.ids[x].base # x \/ x = s.at.tee
  BY TriedSources
<1>3. AccessOf(m, s).machine = t \/ AccessOf(m, s).machine = Lowered(t, s.at).machine
  BY AccessIs DEF Pointed
<1> HIDE DEF t
<1>4. Lowered(t, s.at).machine.ids[x].base # x => t.ids[x].base # x \/ x = s.at.tee
  BY <1>1, LoweredSources
<1> QED
  BY <1>2, <1>3, <1>4

\* An access keeps the invariant.
LEMMA AccessKeeps ==
  ASSUME PlainLoops, Inv, Types', Access
  PROVE  Inv'
<1> DEFINE a == AccessOf(machine, Here).machine
           s == Here
<1>1. /\ Settled /\ Typed /\ machine \in Machine /\ wasm \in [Local -> Word] /\ pc \in Nat
      /\ memory \in [Slot -> Word] /\ Types
  BY TypesFacts DEF Inv
<1>2. Running /\ pc \in DOMAIN loop.body /\ s.op \in {"load", "store"} /\ UNCHANGED <<loop, plan, size>>
  BY AccessSteps
<1>3. CASE mode' = "trapped"
  <2>1. ~ Running' /\ ~ Fast' /\ mode' \notin {"guard", "done", "diverged"}
    BY <1>3 DEF Running, Fast
  <2> QED
    BY <2>1 DEF Inv, LocalsAgree
<1>4. CASE /\ wasm' = Teed /\ machine' = Joined(a)
           /\ memory' \in IF Here.op = "store" THEN Written(WasmAddress, Here.width) ELSE {memory}
           /\ pc' = pc + 1 /\ UNCHANGED mode
  <2>1. /\ s \in Statement /\ s.at \in Pointer /\ Teed = After(wasm, s.at)
        /\ After(wasm, s.at) \in [Local -> Word] /\ pc \in Accesses(loop)
        /\ Value(wasm, s.at) \in Word
    BY <1>1, <1>2, HereFacts DEF Accesses, Here
  <2>2. Ready(machine, wasm, s) /\ Agrees(machine, wasm)
    BY <1>2, <2>1, AccessReady DEF Inv
  <2>3. a \in Machine /\ a.r10 = machine.r10 /\ a.r12 = machine.r12
        /\ (Fast => s.at.tee # plan.base) /\ (Fast => a.r13 = machine.r13)
    BY <1>1, <2>1, <2>2, AccessType DEF Ready
  <2>4. a = Pointed(machine, s).machine
    BY AccessIs
  <2>5. Agrees(a, After(wasm, s.at))
    BY <1>1, <2>1, <2>2, <2>4, AccessAgrees
  <2>6. \A x \in Local : a.ids[x].base # x => machine.ids[x].base # x \/ x = s.at.tee
    BY <1>1, <2>1, AccessSources
  <2> HIDE DEF a, s
  <2>7. Agrees(machine', wasm')
    BY <1>1, <1>4, <2>1, <2>3, <2>5, JoinedAgrees
  <2>8. \A x \in Local : x = s.at.tee => pc \in Assignments(loop, x)
    BY <1>2, <2>1 DEF Assignments, Here, s
  <2>9. Sourced(a.ids, pc')
    <3> SUFFICES ASSUME NEW x \in Local, a.ids[x].base # x
                 PROVE  \E j \in Assignments(loop, x) \cap DOMAIN loop.body :
                          j < pc + 1 /\ loop.body[j].op # "any"
      BY <1>4 DEF Sourced
    <3>1. CASE machine.ids[x].base # x
      BY <1>1, <1>2, <3>1, LaterSourced DEF Inv, Sourced
    <3>2. CASE x = s.at.tee
      <4>1. pc \in Assignments(loop, x) \cap DOMAIN loop.body /\ pc < pc + 1
        BY <1>1, <1>2, <2>8, <3>2
      <4>2. loop.body[pc].op # "any"
        BY <1>2 DEF s, Here
      <4> QED
        BY <4>1, <4>2
    <3> QED
      BY <2>6, <3>1, <3>2
  <2>10. Sourced(machine'.ids, pc')
    BY <1>4, <2>3, <2>9, JoinedSourced
  <2>11. \A x \in Local : wasm'[x] # wasm[x] => x = s.at.tee
    BY <1>1, <1>4, <2>1 DEF After
  <2>12. BodyStep
    <3>1. machine'.r10 = machine.r10 /\ machine'.r12 = machine.r12
      BY <1>4, <2>3, JoinedType
    <3>2. memory' # memory => Here.op \in {"store", "clobber"}
      BY <1>4
    <3> QED
      BY <1>2, <1>4, <2>8, <2>11, <3>1, <3>2 DEF BodyStep
  <2>13. Stays
    <3>1. ASSUME Fast
          PROVE  pc \notin Assignments(loop, plan.base) /\ machine'.r13 = machine.r13
      <4>1. \A j \in Assignments(loop, plan.base) : pc < j
        BY <1>1, <2>1, PlainFacts DEF PlainLoop, Settled
      <4>2. pc \notin Assignments(loop, plan.base)
        BY <1>1, <4>1
      <4> QED
        BY <1>4, <2>3, <3>1, <4>2, JoinedType
    <3>2. ASSUME Fast, plan.loaded, TeesAlias(loop, pc)
          PROVE  wasm'[plan.alias] = Means(machine', wasm', [base |-> plan.base, off |-> plan.aliasOff])
      <4>1. /\ plan.alias \in Local /\ s.at.tee = plan.alias /\ s.at.loaded /\ s.at.local = plan.base
            /\ plan.aliasOff = s.at.off - plan.origin
        BY <1>1, <3>2 DEF TeesAlias, Settled, s, Here
      <4>2. plan.alias # none
        BY <4>1, ConstantAssumption
      <4>3. wasm' = [wasm EXCEPT ![s.at.tee] = Value(wasm, s.at)]
        BY <1>4, <2>1, <4>1, <4>2 DEF After
      <4>4. wasm'[plan.alias] = Value(wasm, s.at) /\ wasm'[plan.base] = wasm[plan.base]
        BY <1>1, <2>3, <3>2, <4>1, <4>3, Planned
      <4>5. Value(wasm, s.at) = (wasm[plan.base] + s.at.off + memory[BaseAt]) % Words
        BY <4>1 DEF Value
      <4>6. machine'.r12 = memory[BaseAt] /\ machine' \in Machine
        BY <1>4, <2>3, <3>2, JoinedType DEF Inv, LoadsKept
      <4>7. Means(machine', wasm', [base |-> plan.base, off |-> plan.aliasOff])
              = (wasm'[plan.base] + (machine'.r12 + plan.origin) + plan.aliasOff) % Words
        BY <3>2 DEF Means, Meaning
      <4>8. /\ wasm[plan.base] \in Int /\ s.at.off \in Int /\ memory[BaseAt] \in Int
            /\ plan.origin \in Int /\ plan.aliasOff \in Int
        BY <1>1, <2>1, <3>2, Planned, StatementFacts, WordNumbers DEF Slot
      <4>9. wasm[plan.base] + s.at.off + memory[BaseAt]
              = wasm[plan.base] + (memory[BaseAt] + plan.origin) + plan.aliasOff
        BY <4>1, <4>8
      <4> QED
        BY <4>4, <4>5, <4>6, <4>7, <4>9
    <3> QED
      BY <3>1, <3>2 DEF Stays
  <2> QED
    BY <2>7, <2>10, <2>12, <2>13, BodyKeeps
<1> QED
  BY <1>3, <1>4, AccessSteps

-----------------------------------------------------------------------------
(* Assignments.                                                            *)

\* A local that is assigned something else than a copy is no copy before.
LEMMA NoCopyBefore ==
  ASSUME PlainLoops, Inv, Running, pc \in DOMAIN loop.body, NEW x \in Local,
         pc \in Assignments(loop, x), ~ Copies(Here)
  PROVE  machine.ids[x].base = x
<1> SUFFICES ASSUME machine.ids[x].base # x
             PROVE  FALSE
  OBVIOUS
<1>1. Settled /\ pc \in Nat
  BY TypesFacts DEF Inv
<1>2. PICK j \in Assignments(loop, x) \cap DOMAIN loop.body : j < pc /\ loop.body[j].op # "any"
  BY DEF Inv, Sourced
<1>3. j # pc
  BY <1>1, <1>2
<1> QED
  BY <1>1, <1>2, <1>3, PlainFacts DEF PlainLoop, Here

\* The parts of a set statement.
SetMachine == Assigned(machine, Here.local, Value(wasm, Here.at), GivenBy(machine, Here.at))

LEMMA SetIs ==
  ASSUME Inv, Set
  PROVE  /\ Running /\ pc \in DOMAIN loop.body /\ Here.op = "set"
         /\ UNCHANGED <<loop, plan, mode, memory, size>> /\ pc' = pc + 1
         /\ machine' = Joined(SetMachine)
         /\ wasm' = [wasm EXCEPT ![Here.local] = Value(wasm, Here.at)]
         /\ Here.local \in Local /\ pc \in Assignments(loop, Here.local)
<1> DEFINE p == Lowered(machine, Here.at)
<1>1. /\ Running /\ pc \in DOMAIN loop.body /\ Here.op = "set"
      /\ UNCHANGED <<loop, plan, mode, memory, size>> /\ pc' = pc + 1
      /\ machine' = Joined(Assigned(p.machine, Here.local, p.word, p.id))
      /\ wasm' = [wasm EXCEPT ![Here.local] = PointerWord(Here.at)]
  BY DEF Set
<1>2. Types /\ Settled /\ machine \in Machine /\ wasm \in [Local -> Word] /\ Agrees(machine, wasm)
  BY <1>1, TypesFacts DEF Inv
<1>3. Here.at \in Pointer /\ Here.local \in Local /\ PointerWord(Here.at) = Value(wasm, Here.at)
  BY <1>1, <1>2, HereFacts, StatementFacts
<1>4. Here.at.tee = none
  BY <1>1, <1>2, LoopAssumption DEF Settled, Here
<1>5. p.machine = machine /\ p.word = Value(wasm, Here.at) /\ p.id = GivenBy(machine, Here.at)
  <2> DEFINE w == (Held(machine, Here.at.local) + Here.at.off + (IF Here.at.loaded THEN memory[BaseAt] ELSE 0)) % Words
  <2>1. w = Value(wasm, Here.at)
    BY <1>2, <1>3, HeldValue
  <2>2. p = [machine |-> machine, word |-> w, id |-> GivenBy(machine, Here.at)]
    BY <1>4 DEF Lowered, GivenBy
  <2> HIDE DEF w, p
  <2> QED
    BY <2>1, <2>2 DEF p
<1>6. pc \in Assignments(loop, Here.local)
  BY <1>1 DEF Assignments, Here
<1> HIDE DEF p
<1> QED
  BY <1>1, <1>3, <1>5, <1>6 DEF SetMachine

LEMMA SetAgrees ==
  ASSUME PlainLoops, Inv, Types', Set
  PROVE  /\ SetMachine \in Machine /\ SetMachine.r10 = machine.r10 /\ SetMachine.r12 = machine.r12
         /\ SetMachine.r13 = IF Fast /\ plan.word /\ Here.local = plan.base
                             THEN machine.r13 + plan.stride \div 4 ELSE machine.r13
         /\ Agrees(machine', wasm') /\ Sourced(machine'.ids, pc') /\ BodyStep
<1> DEFINE y == Here.local
           at == Here.at
           v == Value(wasm, at)
           from == GivenBy(machine, at)
<1>1. /\ Settled /\ Typed /\ machine \in Machine /\ wasm \in [Local -> Word] /\ pc \in Nat /\ Types
  BY TypesFacts DEF Inv
<1>2. /\ Running /\ pc \in DOMAIN loop.body /\ Here.op = "set"
      /\ UNCHANGED <<loop, plan, mode, memory, size>> /\ pc' = pc + 1
      /\ machine' = Joined(SetMachine)
      /\ wasm' = [wasm EXCEPT ![y] = v]
      /\ y \in Local /\ pc \in Assignments(loop, y)
  BY SetIs
<1>3. at \in Pointer /\ v \in Word /\ from \in Source /\ at.local \in Local /\ at.loaded \in BOOLEAN
  BY <1>1, <1>2, HereFacts, GivenType DEF Pointer
<1>4. Agrees(machine, wasm) /\ Sourced(machine.ids, pc)
  BY <1>2 DEF Inv
<1>5. at.loaded => from = Nothing /\ from.base \notin Local
  BY SourceFacts DEF GivenBy
<1>6. ~ at.loaded => from.base = machine.ids[at.local].base /\ from.base \in Local
                     /\ machine.ids[from.base] = Self(from.base)
  <2>1. machine.ids[at.local] \in Identity
    BY <1>1, <1>3, MachineFields
  <2>2. ~ at.loaded => from.base = machine.ids[at.local].base
    BY DEF GivenBy
  <2> HIDE DEF from, at
  <2> QED
    BY <1>3, <1>4, <2>1, <2>2 DEF Agrees, Identity
<1>7. Rooted(machine.ids, from)
  BY <1>3, <1>5, <1>6 DEF Rooted
<1>8. ASSUME y = plan.base
      PROVE  ~ at.loaded /\ at.local = plan.base
  BY <1>1, <1>2, <1>8, StrideIs DEF Here
<1>9. ASSUME Fast, plan.loaded, ~ at.loaded, at.local = plan.base
      PROVE  y = plan.base
  <2>1. pc \in Assignments(loop, plan.base)
    BY <1>1, <1>2, <1>9, PlainFacts DEF PlainLoads, Here, Settled
  <2>2. plan.base # loop.counter
    BY <1>1, Planned
  <2> QED
    BY <1>2, <2>1, <2>2 DEF Assignments, Here, Accesses
<1>10. Fast /\ y = plan.base => from.base = y
  BY <1>4, <1>6, <1>8 DEF Agrees
<1>11. from.base \in Local \ {y} => v = Means(machine, wasm, from)
  <2> SUFFICES ASSUME from.base \in Local \ {y}
               PROVE  v = Means(machine, wasm, from)
    OBVIOUS
  <2>1. ~ at.loaded
    BY <1>3, <1>5
  <2>2. Fast /\ plan.loaded => at.local # plan.base
    BY <1>9, <1>10, <2>1
  <2>3. from = [base |-> machine.ids[at.local].base, off |-> (machine.ids[at.local].off + at.off) % Words]
    BY <2>1 DEF GivenBy
  <2> HIDE DEF v, at, from
  <2>4. v = Means(machine, wasm, [base |-> machine.ids[at.local].base, off |-> (machine.ids[at.local].off + at.off) % Words])
    BY <1>1, <1>3, <1>4, <2>1, <2>2, PointerMeans DEF v
  <2> QED
    BY <2>3, <2>4
<1>12. from.base \notin Local \ {y} => machine.ids[y].base = y
  <2>1. CASE at.loaded
    <3>1. ~ Copies(Here)
      BY <2>1 DEF Copies
    <3> QED
      BY <1>2, <3>1, NoCopyBefore
  <2>2. CASE ~ at.loaded
    BY <1>6, <2>2 DEF Self
  <2> QED
    BY <1>3, <2>1, <2>2
<1> HIDE DEF v, from, at, y
<1>13. /\ SetMachine \in Machine /\ SetMachine.r10 = machine.r10 /\ SetMachine.r12 = machine.r12
       /\ SetMachine.r13 = IF Fast /\ plan.word /\ Here.local = plan.base
                           THEN machine.r13 + plan.stride \div 4 ELSE machine.r13
  <2>1. SetMachine = Assigned(machine, y, v, from)
    BY DEF SetMachine, y, v, from, at
  <2>2. Assigned(machine, y, v, from) \in Machine
    BY <1>1, <1>2, <1>3, AssignedFields
  <2>3. /\ Assigned(machine, y, v, from).r10 = machine.r10 /\ Assigned(machine, y, v, from).r12 = machine.r12
        /\ Assigned(machine, y, v, from).r13 = IF Fast /\ plan.word /\ y = plan.base
                           THEN machine.r13 + plan.stride \div 4 ELSE machine.r13
    BY <1>1, <1>2, <1>3, AssignedIds
  <2> QED
    BY <2>1, <2>2, <2>3 DEF y
<1>14. Agrees(SetMachine, wasm')
  <2>1. Agrees(Assigned(machine, y, v, from), [wasm EXCEPT ![y] = v])
    BY <1>1, <1>2, <1>3, <1>4, <1>7, <1>10, <1>11, <1>12, AssignedAgrees
  <2> QED
    BY <1>2, <2>1 DEF SetMachine, y, v, from, at
<1>15. wasm' \in [Local -> Word]
  BY <1>1, <1>2, <1>3
<1>16. Agrees(machine', wasm')
  BY <1>1, <1>2, <1>13, <1>14, <1>15, JoinedAgrees
<1>17. Sourced(SetMachine.ids, pc')
  <2> SUFFICES ASSUME NEW x \in Local, SetMachine.ids[x].base # x
               PROVE  \E j \in Assignments(loop, x) \cap DOMAIN loop.body :
                        j < pc + 1 /\ loop.body[j].op # "any"
    BY <1>2 DEF Sourced
  <2>1. Assigned(machine, y, v, from).ids[x].base # x
    BY DEF SetMachine, y, v, from, at
  <2>2. machine.ids[x].base # x \/ x = y
    BY <1>1, <1>2, <1>3, <2>1, AssignedSources
  <2>3. CASE machine.ids[x].base # x
    BY <1>1, <1>4, <2>3, LaterSourced DEF Sourced
  <2>4. CASE x = y
    <3>1. pc < pc + 1 /\ loop.body[pc].op # "any"
      BY <1>1, <1>2 DEF Here
    <3> QED
      BY <1>2, <2>4, <3>1
  <2> QED
    BY <2>2, <2>3, <2>4
<1>18. Sourced(machine'.ids, pc')
  BY <1>2, <1>13, <1>17, JoinedSourced
<1>19. BodyStep
  <2>1. machine'.r10 = machine.r10 /\ machine'.r12 = machine.r12
    BY <1>2, <1>13, JoinedType
  <2>2. \A x \in Local : wasm'[x] # wasm[x] => x = y
    BY <1>1, <1>2
  <2> QED
    BY <1>2, <2>1, <2>2 DEF BodyStep
<1> QED
  BY <1>13, <1>16, <1>18, <1>19

\* One stride less is to come.
LEMMA StrideSums ==
  ASSUME NEW n \in Nat, NEW s \in Nat \ {0}
  PROVE  (n + 1) * s = n * s + s /\ n * s \in Nat
  OBVIOUS

\* The stride takes the base to the next address, and R13 follows it.
LEMMA StrideKeeps ==
  ASSUME PlainLoops, Inv, Types', Set, Fast, pc \in Assignments(loop, plan.base)
  PROVE  InMemory' /\ LoadsKept'
<1> DEFINE b == wasm[plan.base]
           r == IF plan.loaded THEN machine.r12 + plan.origin ELSE 0
           n == Left - 2
<1>1. /\ Settled /\ Typed /\ machine \in Machine /\ wasm \in [Local -> Word] /\ pc \in Nat /\ Types
      /\ size \in Nat /\ size < Words /\ InMemory /\ LoadsKept
  BY TypesFacts, SizeFacts DEF Inv
<1>2. /\ Running /\ pc \in DOMAIN loop.body /\ Here.op = "set"
      /\ UNCHANGED <<loop, plan, mode, memory, size>> /\ pc' = pc + 1
      /\ machine' = Joined(SetMachine)
      /\ wasm' = [wasm EXCEPT ![Here.local] = Value(wasm, Here.at)]
  BY SetIs
<1>3. /\ plan.base \in Local /\ plan.base # loop.counter /\ plan.stride \in Nat \ {0} /\ plan.high \in Int
      /\ (plan.word => plan.stride % 4 = 0) /\ (plan.loaded => plan.origin \in Int)
  BY <1>1, Planned
<1>4. Here.local = plan.base
  BY <1>2, <1>3 DEF Assignments, Accesses, Here
<1>5. Assignments(loop, plan.base) = {pc} /\ ~ Here.at.loaded /\ Here.at.local = plan.base
      /\ Here.at.off = plan.stride
  BY <1>1, StrideIs DEF Here
<1>6. ~ Strode /\ Strode'
  <2>1. Assignments(loop, plan.base)' = Assignments(loop, plan.base)
    BY <1>2 DEF Assignments, Accesses
  <2> QED
    BY <1>1, <1>2, <1>5, <2>1 DEF Strode
<1>7. BodyStep
  BY SetAgrees
<1>8. Left' = Left /\ wasm'[loop.counter] = wasm[loop.counter] /\ Left \in Int
  BY <1>1, <1>7, BodyLeft, LeftType
<1>9. Ahead = n + 1 /\ Ahead' = n /\ n \in Int
  BY <1>6, <1>8 DEF Ahead
<1>10. machine'.r12 = machine.r12 /\ machine' \in Machine
       /\ (plan.word => machine'.r13 = machine.r13 + plan.stride \div 4)
  <2>1. /\ SetMachine \in Machine /\ SetMachine.r12 = machine.r12
        /\ SetMachine.r13 = IF Fast /\ plan.word /\ Here.local = plan.base
                            THEN machine.r13 + plan.stride \div 4 ELSE machine.r13
    BY SetAgrees
  <2> QED
    BY <1>2, <1>4, <2>1, JoinedType
<1>11. wasm'[plan.base] = (b + plan.stride) % Words
  <2>1. Value(wasm, Here.at) = (b + plan.stride + 0) % Words
    BY <1>5 DEF Value
  <2>2. b \in Int
    BY <1>1, <1>3, WordNumbers
  <2> HIDE DEF b
  <2>3. b + plan.stride + 0 = b + plan.stride
    BY <1>3, <2>2
  <2> QED
    BY <1>1, <1>2, <1>3, <1>4, <2>1, <2>3
<1>12. b \in Int /\ r \in Int /\ Address = (b + r) % Words /\ Address \in Nat
  <2>1. b \in Int /\ machine.r12 \in Int
    BY <1>1, <1>3, WordNumbers, MachineFields
  <2>2. Address = (b + r) % Words
    BY DEF Address, Meaning
  <2> QED
    BY <1>1, <1>3, <2>1, <2>2, AddressType
<1>13. Address' = (wasm'[plan.base] + r) % Words
  BY <1>2, <1>10 DEF Address, Meaning, Fast
<1> HIDE DEF b, r, n
<1>14. Address' = (Address + plan.stride) % Words
  <2>1. Address' = ((b + plan.stride) + r) % Words
    <3>1. b + plan.stride \in Int
      BY <1>3, <1>12
    <3> QED
      BY <1>11, <1>12, <1>13, <3>1, Wraps
  <2>2. ((((b + r) % Words) + plan.stride)) % Words = ((b + r) + plan.stride) % Words
    <3>1. b + r \in Int /\ plan.stride \in Int
      BY <1>3, <1>12
    <3> QED
      BY <3>1, Wraps
  <2>3. (b + plan.stride) + r = (b + r) + plan.stride
    BY <1>3, <1>12
  <2> QED
    BY <1>12, <2>1, <2>2, <2>3
<1>15. ASSUME plan.high > 0, n >= 0
       PROVE  /\ Address' + n * plan.stride + plan.high <= size
              /\ plan.word => 4 * machine'.r13 = Address'
  <2>1. n \in Nat /\ Ahead >= 0
    BY <1>9, <1>15
  <2>2. Address + (n + 1) * plan.stride + plan.high <= size /\ (plan.word => 4 * machine.r13 = Address)
    BY <1>1, <1>9, <1>15, <2>1 DEF InMemory
  <2> DEFINE q == n * plan.stride
             q1 == (n + 1) * plan.stride
  <2>3. q1 = q + plan.stride /\ q \in Nat
    BY <1>3, <2>1, StrideSums
  <2> HIDE DEF q, q1
  <2>4. Address + q + plan.stride + plan.high <= size
    BY <1>3, <1>12, <2>2, <2>3 DEF q1
  <2>5. Address + plan.stride < Words /\ Address + plan.stride \in Nat
    <3>1. Words \in Nat
      BY WordsFacts
    <3> HIDE DEF Words
    <3> QED
      BY <1>1, <1>3, <1>12, <1>15, <2>3, <2>4, <3>1
  <2>6. Address' = Address + plan.stride
    <3>1. Words \in Nat \ {0} /\ Word = 0 .. Words - 1
      BY WordsFacts
    <3> HIDE DEF Words
    <3>2. Address + plan.stride \in Word
      BY <2>5, <3>1
    <3> QED
      BY <1>14, <3>2, Wraps
  <2>7. Address' + q + plan.high <= size
    BY <1>3, <1>12, <2>3, <2>4, <2>6
  <2>8. plan.word => 4 * machine'.r13 = Address'
    <3> SUFFICES ASSUME plan.word
                 PROVE  4 * machine'.r13 = Address'
      OBVIOUS
    <3>1. machine'.r13 = machine.r13 + plan.stride \div 4 /\ plan.stride % 4 = 0 /\ machine.r13 \in Int
          /\ 4 * machine.r13 = Address
      BY <1>1, <1>3, <1>10, <2>2, MachineFields
    <3> QED
      BY <1>3, <2>6, <3>1
  <2> QED
    BY <2>7, <2>8 DEF q
<1>16. InMemory'
  <2>1. Signed(wasm[loop.counter])' = Signed(wasm[loop.counter])
    BY <1>2, <1>8 DEF Signed
  <2> QED
    BY <1>1, <1>2, <1>8, <1>9, <1>15, <2>1 DEF InMemory
<1>17. LoadsKept'
  BY <1>1, <1>2, <1>6, <1>10 DEF LoadsKept
<1> QED
  BY <1>16, <1>17

\* An assignment keeps the invariant.
LEMMA SetKeeps ==
  ASSUME PlainLoops, Inv, Types', Set
  PROVE  Inv'
<1>1. /\ SetMachine \in Machine
      /\ SetMachine.r13 = IF Fast /\ plan.word /\ Here.local = plan.base
                          THEN machine.r13 + plan.stride \div 4 ELSE machine.r13
      /\ Agrees(machine', wasm') /\ Sourced(machine'.ids, pc') /\ BodyStep
  BY SetAgrees
<1>2. Running /\ UNCHANGED <<loop, plan, mode>> /\ machine' = Joined(SetMachine)
      /\ Here.local \in Local /\ pc \in Assignments(loop, Here.local) /\ Here.op = "set"
      /\ pc \in DOMAIN loop.body
  BY SetIs
<1>3. CASE Fast /\ pc \in Assignments(loop, plan.base)
  BY <1>1, <1>2, <1>3, StrideKeeps, BodyLimit, InvBack
<1>4. CASE ~ (Fast /\ pc \in Assignments(loop, plan.base))
  <2>1. Stays
    <3>1. Fast => pc \notin Assignments(loop, plan.base) /\ machine'.r13 = machine.r13
      BY <1>1, <1>2, <1>4, JoinedType
    <3>2. ~ TeesAlias(loop, pc)
      BY <1>2 DEF TeesAlias, Accesses, Here
    <3> QED
      BY <3>1, <3>2 DEF Stays
  <2> QED
    BY <1>1, <2>1, BodyKeeps
<1> QED
  BY <1>3, <1>4

LEMMA SetAnyKeeps ==
  ASSUME PlainLoops, Inv, Types', SetAny
  PROVE  Inv'
<1> DEFINE y == Here.local
<1>1. /\ Settled /\ Typed /\ machine \in Machine /\ wasm \in [Local -> Word] /\ pc \in Nat /\ Types
  BY TypesFacts DEF Inv
<1>2. /\ Running /\ pc \in DOMAIN loop.body /\ Here.op = "any"
      /\ UNCHANGED <<loop, plan, mode, memory, size>> /\ pc' = pc + 1
  BY DEF SetAny
<1>3. PICK w \in {start[Here.local] : start \in Starts} :
        /\ machine' = Joined(Assigned(machine, y, w, Nothing))
        /\ wasm' = [wasm EXCEPT ![y] = w]
  BY DEF SetAny
<1>4. y \in Local /\ pc \in Assignments(loop, y)
  BY <1>1, <1>2, HereFacts, StatementFacts DEF Assignments, Here
<1>5. w \in Word
  BY <1>3, <1>4, ConstantAssumption
<1>6. y # plan.base
  BY <1>1, <1>2, <1>4, StrideIs DEF Here
<1>7. machine.ids[y].base = y
  BY <1>2, <1>4, NoCopyBefore DEF Copies
<1>8. Nothing \in Source /\ Nothing.base \notin Local /\ Agrees(machine, wasm) /\ Sourced(machine.ids, pc)
  BY <1>2, SourceFacts DEF Inv
<1>9. Rooted(machine.ids, Nothing)
  BY <1>8 DEF Rooted
<1> DEFINE a == Assigned(machine, y, w, Nothing)
<1> HIDE DEF y
<1>10. Agrees(a, wasm')
  BY <1>1, <1>3, <1>4, <1>5, <1>6, <1>7, <1>8, <1>9, AssignedAgrees
<1>11. a \in Machine
  BY <1>1, <1>4, <1>5, <1>8, AssignedFields
<1>12. a.r10 = machine.r10 /\ a.r12 = machine.r12 /\ a.r13 = machine.r13
  BY <1>1, <1>4, <1>5, <1>6, <1>8, AssignedIds
<1>13. \A x \in Local : a.ids[x].base # x => machine.ids[x].base # x
  BY <1>1, <1>4, <1>5, <1>8, AssignedSources
<1> HIDE DEF a
<1>14. wasm' \in [Local -> Word] /\ machine' = Joined(a)
  BY <1>1, <1>3, <1>4, <1>5 DEF a
<1>15. Agrees(machine', wasm')
  BY <1>1, <1>10, <1>11, <1>14, JoinedAgrees
<1>16. Sourced(machine'.ids, pc')
  <2>1. Sourced(a.ids, pc)
    BY <1>8, <1>13 DEF Sourced
  <2>2. Sourced(a.ids, pc')
    BY <1>1, <1>2, <2>1, LaterSourced
  <2> QED
    BY <1>11, <1>14, <2>2, JoinedSourced
<1>17. BodyStep
  <2>1. machine'.r10 = machine.r10 /\ machine'.r12 = machine.r12
    BY <1>11, <1>12, <1>14, JoinedType
  <2>2. \A x \in Local : wasm'[x] # wasm[x] => x = y
    BY <1>1, <1>3
  <2> QED
    BY <1>2, <1>4, <2>1, <2>2 DEF BodyStep
<1>18. Stays
  <2>1. pc \notin Assignments(loop, plan.base) /\ ~ TeesAlias(loop, pc)
    <3>1. plan.base # loop.counter
      BY <1>1, Planned
    <3> QED
      BY <1>2, <1>6, <3>1 DEF TeesAlias, Assignments, Accesses, Here, y
  <2>2. machine'.r13 = machine.r13
    BY <1>11, <1>12, <1>14, JoinedType
  <2> QED
    BY <2>1, <2>2 DEF Stays
<1> QED
  BY <1>15, <1>16, <1>17, <1>18, BodyKeeps

-----------------------------------------------------------------------------
(* Statements that assign nothing.                                         *)

\* A stride that is not taken.
LEMMA SkippedStride ==
  ASSUME PlainLoops, Inv, Types', BodyStep, Fast, UNCHANGED <<wasm, memory>>,
         machine'.r13 = machine.r13, pc \in Assignments(loop, plan.base)
  PROVE  InMemory' /\ LoadsKept'
<1> DEFINE n == Left - 2
           q == n * plan.stride
           q1 == (n + 1) * plan.stride
<1>1. /\ Settled /\ pc \in Nat /\ Types /\ size \in Nat /\ InMemory /\ LoadsKept
  BY TypesFacts DEF Inv
<1>2. /\ UNCHANGED <<loop, plan, mode, size>> /\ pc' = pc + 1 /\ machine'.r12 = machine.r12
  BY DEF BodyStep
<1>3. plan.stride \in Nat \ {0} /\ plan.high \in Int
  BY <1>1, Planned
<1>4. ~ Strode /\ Strode'
  <2>1. Assignments(loop, plan.base)' = Assignments(loop, plan.base)
    BY <1>2 DEF Assignments, Accesses
  <2>2. Assignments(loop, plan.base) = {pc}
    BY <1>1, StrideIs
  <2> QED
    BY <1>1, <1>2, <2>1, <2>2 DEF Strode
<1>5. Left' = Left /\ Left \in Int
  BY <1>1, BodyLeft, LeftType
<1>6. Ahead = n + 1 /\ Ahead' = n /\ n \in Int
  BY <1>4, <1>5 DEF Ahead
<1>7. Address' = Address /\ Address \in Nat
  BY <1>1, <1>2, AddressType DEF Address, Meaning, Fast
<1> HIDE DEF n
<1>8. ASSUME plan.high > 0, n >= 0
      PROVE  Address + q + plan.high <= size /\ (plan.word => 4 * machine.r13 = Address)
  <2>1. n \in Nat /\ Ahead >= 0
    BY <1>6, <1>8
  <2>2. Address + q1 + plan.high <= size /\ (plan.word => 4 * machine.r13 = Address)
    BY <1>1, <1>6, <1>8, <2>1 DEF InMemory
  <2>3. q1 = q + plan.stride /\ q \in Nat
    BY <1>3, <2>1, StrideSums
  <2> HIDE DEF q, q1
  <2> QED
    BY <1>1, <1>3, <1>7, <2>2, <2>3
<1>9. InMemory'
  <2>1. Signed(wasm[loop.counter])' = Signed(wasm[loop.counter])
    BY <1>2 DEF Signed
  <2> QED
    BY <1>1, <1>2, <1>5, <1>6, <1>7, <1>8, <2>1 DEF InMemory
<1>10. LoadsKept'
  BY <1>1, <1>2, <1>4 DEF LoadsKept
<1> QED
  BY <1>9, <1>10

\* A statement that only forgets keeps the invariant.
LEMMA IdleKeeps ==
  ASSUME PlainLoops, Inv, Types', BodyStep, UNCHANGED wasm, machine' = Joined(machine),
         UNCHANGED memory \/ Here.op = "clobber",
         Here.op \in {"exit", "import", "clobber", "divide"} \/ (Here.guarded /\ UNCHANGED memory)
  PROVE  Inv'
<1>1. /\ Settled /\ machine \in Machine /\ wasm \in [Local -> Word] /\ pc \in Nat /\ Types
      /\ plan.base # loop.counter
  BY TypesFacts, Planned DEF Inv
<1>2. Running /\ pc \in DOMAIN loop.body /\ pc' = pc + 1 /\ UNCHANGED <<loop, plan, mode>>
  BY DEF BodyStep
<1>3. Agrees(machine, wasm) /\ Sourced(machine.ids, pc)
  BY <1>2 DEF Inv
<1>4. Agrees(machine', wasm')
  BY <1>1, <1>3, JoinedAgrees
<1>5. Sourced(machine'.ids, pc')
  BY <1>1, <1>2, <1>3, LaterSourced, JoinedSourced
<1>6. machine'.r13 = machine.r13
  BY <1>1, JoinedType
<1>7. ~ TeesAlias(loop, pc)
  BY DEF TeesAlias, Accesses, Here
<1>8. CASE ~ Fast \/ pc \notin Assignments(loop, plan.base)
  <2>1. Stays
    BY <1>6, <1>7, <1>8 DEF Stays
  <2> QED
    BY <1>4, <1>5, <2>1, BodyKeeps
<1>9. CASE Fast /\ pc \in Assignments(loop, plan.base)
  <2>1. UNCHANGED memory
    BY <1>1, <1>2, <1>9 DEF Assignments, Accesses, Here
  <2> QED
    BY <1>2, <1>4, <1>5, <1>6, <1>9, <2>1, SkippedStride, BodyLimit, InvBack
<1> QED
  BY <1>8, <1>9

LEMMA NotTakenKeeps ==
  ASSUME PlainLoops, Inv, Types', NotTaken
  PROVE  Inv'
<1>1. /\ Running /\ pc \in DOMAIN loop.body /\ Here.guarded /\ machine' = Joined(machine)
      /\ pc' = pc + 1 /\ UNCHANGED <<loop, plan, mode, wasm, memory, size>>
  BY DEF NotTaken
<1>2. BodyStep
  BY <1>1, JoinedType, TypesFacts DEF BodyStep, Inv
<1> QED
  BY <1>1, <1>2, IdleKeeps

LEMMA ImportKeeps ==
  ASSUME PlainLoops, Inv, Types', Import
  PROVE  Inv'
<1>1. /\ Running /\ pc \in DOMAIN loop.body /\ Here.op \in {"import", "clobber", "divide"}
      /\ memory' \in IF Here.op = "clobber" THEN Contents ELSE {memory}
      /\ machine' = Joined(machine)
      /\ pc' = pc + 1 /\ UNCHANGED <<loop, plan, mode, wasm, size>>
  BY DEF Import
<1>2. UNCHANGED memory \/ Here.op = "clobber"
  BY <1>1
<1>3. BodyStep
  BY <1>1, <1>2, JoinedType, TypesFacts DEF BodyStep, Inv
<1> QED
  BY <1>1, <1>2, <1>3, IdleKeeps

LEMMA ExitKeeps ==
  ASSUME PlainLoops, Inv, Types', Exit
  PROVE  Inv'
<1>1. /\ Running /\ pc \in DOMAIN loop.body /\ Here.op = "exit" /\ machine' = Joined(machine)
      /\ (mode' = "done" /\ UNCHANGED pc) \/ (pc' = pc + 1 /\ UNCHANGED mode)
      /\ UNCHANGED <<loop, plan, wasm, memory, size>>
  BY DEF Exit
<1>2. Settled /\ machine \in Machine /\ wasm \in [Local -> Word]
  BY TypesFacts DEF Inv
<1>3. CASE mode' = "done"
  <2>1. ~ plan.promoted
    BY <1>1, <1>2, PlanFacts DEF Has, Here, Settled
  <2>2. \A x \in Local : machine.frame[x] = wasm[x]
    BY <1>1, <2>1 DEF Inv, Agrees, Held, Promoted
  <2>3. machine.frame = wasm
    BY <1>2, <2>2, MachineFields
  <2>4. machine'.frame = wasm'
    BY <1>1, <1>2, <2>3, JoinedType
  <2>5. ~ Running' /\ ~ Fast' /\ mode' \notin {"guard", "diverged"}
    BY <1>3 DEF Running, Fast
  <2> QED
    BY <2>4, <2>5 DEF Inv, LocalsAgree
<1>4. CASE pc' = pc + 1 /\ UNCHANGED mode
  <2>1. BodyStep
    BY <1>1, <1>2, <1>4, JoinedType DEF BodyStep
  <2> QED
    BY <1>1, <2>1, IdleKeeps
<1> QED
  BY <1>1, <1>3, <1>4

-----------------------------------------------------------------------------
(* The branch back.                                                        *)

\* Both programs count alike and decide alike.
LEMMA BranchAgrees ==
  ASSUME PlainLoops, Inv, Running, pc > Len(loop.body)
  PROVE  /\ Here0 = Count /\ Jumps = Taken
         /\ BackAt \in Machine /\ Agrees(BackAt, [wasm EXCEPT ![loop.counter] = Count])
         /\ Limit([wasm EXCEPT ![loop.counter] = Count], memory) = Limit(wasm, memory)
<1> DEFINE c == loop.counter
<1>1. /\ Settled /\ machine \in Machine /\ wasm \in [Local -> Word] /\ Types
      /\ c \in Local /\ c # plan.base /\ Agrees(machine, wasm) /\ Sourced(machine.ids, pc)
  BY TypesFacts, Planned DEF Inv
<1>2. Held(machine, c) = wasm[c]
  BY <1>1 DEF Agrees
<1>3. Here0 = Count
  BY <1>2 DEF Here0, Count
<1>4. Count \in Word /\ BackAt \in Machine
  BY <1>1, BackFacts
<1>5. machine.ids[c].base = c
  <2> SUFFICES ASSUME machine.ids[c].base # c
               PROVE  FALSE
    OBVIOUS
  <2>1. PICK j \in Assignments(loop, c) \cap DOMAIN loop.body : TRUE
    BY <1>1 DEF Sourced
  <2> QED
    BY <1>1, <2>1, CounterKept
<1>6. Nothing \in Source /\ Nothing.base \notin Local /\ Rooted(machine.ids, Nothing)
  BY SourceFacts DEF Rooted
<1>7. Agrees(BackAt, [wasm EXCEPT ![c] = Count])
  <2> DEFINE w == Count
  <2>1. w \in Word
    BY <1>4
  <2> HIDE DEF w, c
  <2>2. Agrees(Assigned(machine, c, w, Nothing), [wasm EXCEPT ![c] = w])
    BY <1>1, <1>5, <1>6, <2>1, AssignedAgrees
  <2> QED
    BY <1>3, <2>2 DEF BackAt, w, c
<1>8. loop.trip = "increment" =>
        Limit(wasm, memory) = IF Reuses THEN machine.r10 ELSE Limit(machine.frame, memory)
  <2>1. CASE Reuses
    BY <2>1 DEF Inv, LimitKept
  <2>2. CASE ~ Reuses
    <3>1. ~ Fast
      BY <2>2 DEF Reuses
    <3>2. \A x \in Local : machine.frame[x] = wasm[x]
      BY <1>1, <3>1 DEF Agrees, Held, Promoted
    <3>3. machine.frame = wasm
      BY <1>1, <3>2, MachineFields
    <3> QED
      BY <2>2, <3>3
  <2> QED
    BY <2>1, <2>2
<1>9. Jumps = Taken
  BY <1>3, <1>8 DEF Jumps, Taken, Again
<1>10. Limit([wasm EXCEPT ![c] = Count], memory) = Limit(wasm, memory)
  <2>1. loop.bound = "local" => loop.value \in Local /\ loop.value # c
    <3>1. \E k : k \in DOMAIN loop.body
      BY <1>1, StrideIs
    <3> QED
      BY <1>1, <3>1, CounterKept, LoopAssumption DEF Settled
  <2>2. loop.bound = "local" => [wasm EXCEPT ![c] = Count][loop.value] = wasm[loop.value]
    BY <1>1, <2>1
  <2> QED
    BY <2>2 DEF Limit
<1> QED
  BY <1>3, <1>4, <1>7, <1>9, <1>10

\* One iteration less is left, and none of its strides.
LEMMA BranchLeft ==
  ASSUME PlainLoops, Inv, Fast, pc > Len(loop.body), BranchBack, Taken
  PROVE  /\ Left' = Left - 1 /\ Left' >= 1
         /\ loop.trip = "increment" => Signed(wasm'[loop.counter]) >= 0
<1> DEFINE c == wasm[loop.counter]
           h == Words \div 2
           L == Limit(wasm, memory)
<1>1. /\ Settled /\ Types /\ wasm \in [Local -> Word] /\ loop.counter \in Local /\ machine \in Machine
      /\ memory \in [Slot -> Word]
  BY TypesFacts, Planned DEF Inv
<1>2. c \in Word /\ c \in Nat /\ machine.r10 \in Word /\ L \in Word
  BY <1>1, WordNumbers, MachineFields, LimitType
<1>3. /\ Words \in Nat \ {0} /\ Word = 0 .. Words - 1 /\ h \in Nat /\ h < Words
  <2>1. Words \in Nat \ {0} /\ Word = 0 .. Words - 1
    BY WordsFacts
  <2> HIDE DEF Words
  <2> QED
    BY <2>1
<1>4. /\ Signed(c) \in Int /\ (Signed(c) >= 0 => Signed(c) = c /\ c < h)
      /\ Signed(L) \in Int /\ (Signed(L) >= 0 => Signed(L) = L /\ L < h)
  BY <1>2, SignedFacts
<1>5. Left >= 1 /\ (loop.trip = "increment" => Signed(c) >= 0)
  BY DEF Inv, InMemory
<1>6. machine'.r10 = machine.r10 /\ wasm'[loop.counter] = Count /\ UNCHANGED loop
  <2>1. BackAt \in Machine /\ BackAt.r10 = machine.r10
    BY <1>1, BackFacts
  <2> QED
    BY <1>1, <2>1, BranchIs, ForgottenFacts, FlushedType
<1>7. Count = Counted(c)
  BY DEF Count
<1>8. loop.trip = "increment" => machine.r10 = L
  BY DEF Inv, LimitKept, Reuses, Running, Fast
<1>9. \A x \in Word : x < h => Signed(x) = x
  BY SignedFacts
<1> HIDE DEF c, h, Words, L
<1>10. CASE loop.trip = "increment"
  <2>1. Left = Signed(L) - Signed(c) /\ Left' = Signed(machine'.r10) - Signed(Count)
    BY <1>6, <1>8, <1>10 DEF Left, c, Signed
  <2>2. Signed(c) = c /\ c < h /\ Signed(L) = L /\ L < h /\ c < L
    BY <1>2, <1>4, <1>5, <1>10, <2>1
  <2>3. c + 1 \in Word /\ c + 1 < h
    BY <1>2, <1>3, <2>2
  <2>4. Count = c + 1
    BY <1>7, <1>10, <2>3, Wraps DEF Counted
  <2>5. Signed(Count) = c + 1
    BY <1>9, <2>3, <2>4
  <2>6. Signed(Count) < Signed(L)
    BY <1>10 DEF Taken, Again, L
  <2>7. Signed(machine'.r10) = Signed(L)
    BY <1>6, <1>8, <1>10
  <2>8. Left = L - c /\ Left' = L - (c + 1) /\ c + 1 < L /\ L \in Nat
    BY <1>2, <1>4, <2>1, <2>2, <2>5, <2>6, <2>7, WordNumbers
  <2>9. Left' = Left - 1 /\ Left' >= 1 /\ Signed(wasm'[loop.counter]) >= 0
    BY <1>2, <1>6, <2>5, <2>8
  <2> QED
    BY <2>9
<1>11. CASE loop.trip # "increment"
  <2>1. Left = Signed(c) /\ Left' = Signed(Count)
    BY <1>6, <1>11 DEF Left, c, Signed
  <2>2. Signed(c) = c /\ c < h /\ c >= 1
    BY <1>4, <1>5, <2>1
  <2>3. c - 1 \in Word /\ c - 1 < h /\ c + (-1) = c - 1
    BY <1>2, <1>3, <2>2
  <2>4. Count = c - 1
    BY <1>7, <1>11, <2>3, Wraps DEF Counted
  <2>5. Count # 0
    BY <1>11 DEF Taken, Again
  <2>6. Signed(Count) = c - 1
    BY <1>9, <2>3, <2>4
  <2> QED
    BY <1>2, <1>11, <2>1, <2>2, <2>4, <2>5, <2>6
<1> QED
  BY <1>10, <1>11

LEMMA BranchKeeps ==
  ASSUME PlainLoops, Inv, Types', BranchBack
  PROVE  Inv'
<1>1. /\ Settled /\ machine \in Machine /\ wasm \in [Local -> Word] /\ Types /\ pc \in Nat
      /\ loop.counter \in Local /\ plan.base \in Local /\ plan.base # loop.counter
      /\ Len(loop.body) \in Nat /\ DOMAIN loop.body = 1 .. Len(loop.body)
  BY TypesFacts, Planned DEF Inv
<1>2. /\ Running /\ pc > Len(loop.body) /\ UNCHANGED <<loop, plan, memory, size>>
      /\ wasm' = [wasm EXCEPT ![loop.counter] = Count]
      /\ machine' = IF Jumps THEN Forgotten(BackAt) ELSE Flushed(BackAt)
      /\ mode' = IF Taken # Jumps THEN "diverged" ELSE IF Jumps THEN mode ELSE "done"
      /\ pc' = IF Taken /\ Jumps THEN 1 ELSE pc
  BY BranchIs
<1>3. /\ Jumps = Taken /\ BackAt \in Machine /\ Agrees(BackAt, wasm')
      /\ Limit(wasm', memory) = Limit(wasm, memory)
  BY <1>2, BranchAgrees
<1>4. ~ (Taken # Jumps)
  BY <1>3
<1>5. BackAt.r10 = machine.r10 /\ BackAt.r12 = machine.r12 /\ BackAt.r13 = machine.r13
  BY <1>1, BackFacts
<1>6. Count \in Word /\ wasm' \in [Local -> Word]
  BY <1>1, <1>2, BackFacts
<1>7. CASE Jumps
  <2>1. machine' = Forgotten(BackAt) /\ UNCHANGED mode /\ pc' = 1
    BY <1>2, <1>3, <1>4, <1>7
  <2>2. Agrees(machine', wasm')
    BY <1>1, <1>3, <1>6, <2>1, ForgottenAgrees
  <2>3. Sourced(machine'.ids, pc')
    <3>1. Sourced(NoIdentities, 1)
      BY NoIdentitiesType DEF Sourced
    <3> QED
      BY <1>3, <2>1, <3>1, ForgottenFacts
  <2>4. machine'.r10 = machine.r10 /\ machine'.r12 = machine.r12 /\ machine'.r13 = machine.r13
    BY <1>3, <1>5, <2>1, ForgottenFacts
  <2>5. LimitKept'
    <3>1. Reuses' <=> Reuses
      BY <1>2, <2>1 DEF Reuses, Fast, Has
    <3>2. Limit(wasm, memory)' = Limit(wasm, memory)
      BY <1>2, <1>3 DEF Limit
    <3> QED
      BY <1>2, <2>4, <3>1, <3>2 DEF LimitKept, Inv
  <2>6. ASSUME Fast
        PROVE  InMemory' /\ LoadsKept'
    <3>1. InMemory /\ LoadsKept
      BY <2>6 DEF Inv
    <3>2. /\ Left' = Left - 1 /\ Left' >= 1 /\ Left \in Int
          /\ loop.trip = "increment" => Signed(wasm'[loop.counter]) >= 0
      BY <1>1, <1>2, <1>3, <1>7, <2>6, BranchLeft, LeftType
    <3>3. Strode /\ ~ Strode'
      <4>1. Assignments(loop, plan.base)' = Assignments(loop, plan.base)
        BY <1>2 DEF Assignments, Accesses
      <4>2. PICK j \in DOMAIN loop.body : Assignments(loop, plan.base) = {j}
        BY <1>1, StrideIs
      <4>3. j < pc /\ ~ (j < 1)
        BY <1>1, <1>2, <4>2
      <4> QED
        BY <2>1, <4>1, <4>2, <4>3 DEF Strode
    <3>4. Ahead' = Ahead
      BY <3>2, <3>3 DEF Ahead
    <3>5. wasm'[plan.base] = wasm[plan.base]
      BY <1>1, <1>2
    <3>6. Address' = Address
      BY <1>2, <2>1, <2>4, <3>5 DEF Address, Meaning, Fast
    <3>7. InMemory'
      <4>1. Signed(wasm[loop.counter])' = Signed(wasm'[loop.counter])
        BY <1>2 DEF Signed
      <4> QED
        BY <1>2, <2>4, <3>1, <3>2, <3>4, <3>6, <4>1 DEF InMemory
    <3>8. LoadsKept'
      <4>1. 1 .. pc' - 1 = {}
        BY <2>1
      <4> QED
        BY <1>2, <2>4, <3>1, <4>1 DEF LoadsKept
    <3> QED
      BY <3>7, <3>8
  <2> QED
    BY <1>2, <2>1, <2>2, <2>3, <2>5, <2>6, InvBack
<1>8. CASE ~ Jumps
  <2>1. machine' = Flushed(BackAt) /\ mode' = "done"
    BY <1>2, <1>3, <1>4, <1>8
  <2>2. \A x \in Local : Held(BackAt, x) = wasm'[x]
    BY <1>3 DEF Agrees
  <2>3. machine'.frame = wasm'
    BY <1>3, <1>6, <2>1, <2>2, FlushedType
  <2>4. ~ Running' /\ ~ Fast' /\ mode' \notin {"guard", "diverged"}
    BY <2>1 DEF Running, Fast
  <2> QED
    BY <2>3, <2>4 DEF Inv, LocalsAgree
<1> QED
  BY <1>7, <1>8

-----------------------------------------------------------------------------
(* The guard.                                                              *)

\* No more strides than the quotient fit.
LEMMA Quotients ==
  ASSUME NEW n \in Nat, NEW a \in Nat, NEW s \in Nat \ {0}, n <= a \div s
  PROVE  n * s <= a
<1> DEFINE q == a \div s
           r == a % s
<1>1. a = q * s + r /\ r >= 0 /\ q \in Nat
  OBVIOUS
<1> DEFINE qs == q * s
           ns == n * s
           ds == (q - n) * s
<1>2. ds = qs - ns /\ ds >= 0
  <2>1. q - n \in Nat
    BY <1>1
  <2> HIDE DEF q
  <2> QED
    BY <1>1, <2>1
<1>3. qs \in Int /\ ns \in Int /\ r \in Int
  OBVIOUS
<1> HIDE DEF qs, ns, ds, q, r
<1>4. a = qs + r
  BY <1>1 DEF qs
<1>5. ns <= a
  BY <1>1, <1>2, <1>3, <1>4
<1> QED
  BY <1>5 DEF ns

\* What the guard lets through stays inside memory in every iteration.
LEMMA EnterGuard ==
  ASSUME Inv, Enter, mode' = "fast"
  PROVE  InMemory' /\ LoadsKept'
<1> DEFINE base == BaseWord(machine)
           n == Trips(machine) - 1
           c == wasm[loop.counter]
           L == Limit(wasm, memory)
<1>1. /\ Settled /\ machine \in Machine /\ wasm \in [Local -> Word] /\ Types /\ size \in Nat
      /\ memory \in [Slot -> Word] /\ loop.counter \in Local /\ plan.base \in Local
      /\ plan.stride \in Nat \ {0} /\ plan.high \in Int
      /\ Len(loop.body) \in Nat /\ DOMAIN loop.body = 1 .. Len(loop.body)
  BY TypesFacts, Planned DEF Inv
<1>2. /\ mode = "guard" /\ UNCHANGED <<loop, plan, pc, wasm, memory, size>>
      /\ Guard(machine) /\ machine' = Fresh(machine)
  BY EnterIs
<1>3. pc = 1 /\ machine.frame = wasm
  BY <1>2 DEF Inv
<1>4. /\ plan.loaded => machine'.r12 = memory[BaseAt]
      /\ machine'.r13 = base \div 4
      /\ loop.trip = "increment" => machine'.r10 = L
  BY <1>1, <1>2, <1>3, FreshFacts
<1>5. /\ Trips(machine) > 0 /\ (plan.word => base % 4 = 0)
      /\ plan.high <= size /\ base <= size - plan.high
      /\ n <= (size - plan.high - base) \div plan.stride
  BY <1>2 DEF Guard
<1>6. base \in Nat
  BY <1>1, BaseWordType, WordNumbers
<1>7. Signed(c) \in Int /\ Signed(L) \in Int
  BY <1>1, SignedFacts, LimitType
<1>8. /\ Left' = Trips(machine) /\ Left' \in Int
      /\ loop.trip = "increment" => Signed(c) >= 0
  <2>1. Trips(machine) = IF loop.trip # "increment" THEN Signed(c) ELSE IF Signed(c) < 0 THEN 0 ELSE Signed(L) - Signed(c)
    BY <1>3 DEF Trips
  <2>2. Left' = IF loop.trip = "increment" THEN Signed(L) - Signed(c) ELSE Signed(c)
    BY <1>2, <1>4 DEF Left, Signed
  <2> HIDE DEF c, L
  <2>3. CASE loop.trip = "increment"
    BY <1>5, <1>7, <2>1, <2>2, <2>3
  <2>4. CASE loop.trip # "increment"
    BY <1>7, <2>1, <2>2, <2>4
  <2> QED
    BY <2>3, <2>4
<1>9. ~ Strode'
  <2>1. Assignments(loop, plan.base)' = Assignments(loop, plan.base)
    BY <1>2 DEF Assignments, Accesses
  <2>2. \A j \in Assignments(loop, plan.base) : ~ (j < 1)
    BY <1>1, StrideIs
  <2> QED
    BY <1>2, <1>3, <2>1, <2>2 DEF Strode
<1>10. Ahead' = n /\ n \in Nat
  <2> HIDE DEF base
  <2> QED
    BY <1>5, <1>8, <1>9 DEF Ahead
<1>11. Address' = base
  <2>1. Address' = (wasm[plan.base] + (IF plan.loaded THEN machine'.r12 + plan.origin ELSE 0)) % Words
    BY <1>2 DEF Address, Meaning, Fast
  <2>2. base = (wasm[plan.base] + (IF plan.loaded THEN memory[BaseAt] + plan.origin ELSE 0)) % Words
    BY <1>3 DEF BaseWord
  <2> QED
    BY <1>4, <2>1, <2>2
<1> HIDE DEF base, n, c, L
<1>12. InMemory'
  <2>1. base + n * plan.stride + plan.high <= size
    <3>1. size - plan.high - base \in Nat
      BY <1>1, <1>5, <1>6
    <3>2. n * plan.stride <= size - plan.high - base
      BY <1>1, <1>5, <1>10, <3>1, Quotients
    <3>3. n * plan.stride \in Int
      BY <1>1, <1>10
    <3> DEFINE q == n * plan.stride
    <3> HIDE DEF q
    <3> QED
      BY <1>1, <1>6, <3>2, <3>3 DEF q
  <2>2. plan.word => 4 * machine'.r13 = base
    BY <1>4, <1>5, <1>6
  <2>3. Left' >= 1
    BY <1>5, <1>8
  <2>4. Signed(wasm[loop.counter])' = Signed(c)
    BY <1>2 DEF Signed, c
  <2> QED
    BY <1>2, <1>8, <1>10, <1>11, <2>1, <2>2, <2>3, <2>4 DEF InMemory
<1>13. LoadsKept'
  <2>1. 1 .. pc' - 1 = {}
    BY <1>2, <1>3
  <2> QED
    BY <1>2, <1>4, <2>1 DEF LoadsKept
<1> QED
  BY <1>12, <1>13

LEMMA EnterKeeps ==
  ASSUME Inv, Types', Enter
  PROVE  Inv'
<1>1. /\ Settled /\ machine \in Machine /\ wasm \in [Local -> Word] /\ Types
      /\ plan.base \in Local /\ plan.base # loop.counter
  BY TypesFacts, Planned DEF Inv
<1>2. /\ mode = "guard" /\ UNCHANGED <<loop, plan, pc, wasm, memory, size>>
      /\ \/ mode' = "fast" /\ machine' = Fresh(machine)
         \/ mode' = "checked" /\ machine' = FreshLimit(machine)
  BY EnterIs
<1>3. pc = 1 /\ machine.frame = wasm /\ machine.ids = NoIdentities
  BY <1>2 DEF Inv
<1>4. machine'.frame = wasm /\ machine'.ids = NoIdentities
  BY <1>1, <1>2, <1>3, FreshFacts
<1>5. mode' = "fast" => machine'.r9 = wasm[loop.counter] /\ machine'.r11 = wasm[plan.base]
  BY <1>1, <1>2, <1>3, FreshFacts
<1>6. \A x \in Local : Held(machine, x)' = wasm'[x]
  BY <1>1, <1>2, <1>4, <1>5 DEF Held, Promoted, Fast
<1>7. \A x \in Local : NoIdentities[x] = Self(x) /\ NoIdentities[x].base = x
  BY NoIdentitiesType
<1>8. Agrees(machine, wasm)'
  <2>1. \A x \in Local : machine'.ids[x].base = x /\ machine'.ids[machine'.ids[x].base] = Self(machine'.ids[x].base)
    BY <1>4, <1>7
  <2>2. \A x : Self(x)' = Self(x)
    BY DEF Self
  <2> QED
    BY <1>1, <1>2, <1>6, <2>1, <2>2 DEF Agrees
<1>9. Sourced(machine.ids, pc)'
  BY <1>4, <1>7 DEF Sourced
<1>10. LimitKept'
  <2>1. loop.trip = "increment" => machine'.r10 = Limit(wasm, memory)
    BY <1>1, <1>2, <1>3, FreshFacts
  <2>2. Limit(wasm, memory)' = Limit(wasm, memory)
    BY <1>2 DEF Limit
  <2> QED
    BY <1>2, <2>1, <2>2 DEF LimitKept
<1>11. mode' \in {"fast", "checked"} /\ (Fast' => mode' = "fast")
  BY <1>2 DEF Fast
<1>12. LocalsAgree'
  BY <1>6, <1>11 DEF LocalsAgree
<1>13. Fast' => InMemory' /\ LoadsKept'
  BY <1>11, EnterGuard
<1> QED
  BY <1>8, <1>9, <1>10, <1>11, <1>12, <1>13 DEF Inv

-----------------------------------------------------------------------------
(* The theorems.                                                           *)

LEMMA InvInit ==
  ASSUME Init
  PROVE  Inv
<1>1. Types
  BY TypesInit
<1>2. /\ mode = "guard" /\ pc = 1
      /\ machine = [frame |-> wasm, r9 |-> 0, r10 |-> 0, r11 |-> 0, r12 |-> 0, r13 |-> 0,
                    ids |-> NoIdentities]
  BY DEF Init
<1>3. machine.frame = wasm /\ machine.ids = NoIdentities /\ ~ Running /\ ~ Fast /\ LocalsAgree
  BY <1>2 DEF Running, Fast, LocalsAgree
<1> QED
  BY <1>1, <1>2, <1>3 DEF Inv

LEMMA InvNext ==
  ASSUME PlainLoops, Inv, [Next]_vars
  PROVE  Inv'
<1>1. Types'
  BY TypesNext DEF Inv
<1>2. CASE Enter
  BY <1>1, <1>2, EnterKeeps
<1>3. CASE Access
  BY <1>1, <1>3, AccessKeeps
<1>4. CASE Set
  BY <1>1, <1>4, SetKeeps
<1>5. CASE SetAny
  BY <1>1, <1>5, SetAnyKeeps
<1>6. CASE NotTaken
  BY <1>1, <1>6, NotTakenKeeps
<1>7. CASE Exit
  BY <1>1, <1>7, ExitKeeps
<1>8. CASE Import
  BY <1>1, <1>8, ImportKeeps
<1>9. CASE BranchBack
  BY <1>1, <1>9, BranchKeeps
<1>10. CASE UNCHANGED vars
  BY <1>1, <1>10
     DEF vars, Inv, Running, Fast, Agrees, Held, Promoted, Means, Meaning, Self, Sourced,
         Assignments, Accesses, LimitKept, Reuses, Has, Limit, InMemory, LoadsKept, Left, Ahead,
         Strode, Address, Signed, TeesAlias, LocalsAgree, NoIdentities
<1> QED
  BY <1>2, <1>3, <1>4, <1>5, <1>6, <1>7, <1>8, <1>9, <1>10 DEF Next

LEMMA InvAlways ==
  ASSUME PlainLoops
  PROVE  Spec => []Inv
<1>1. Init => Inv
  BY InvInit
<1>2. Inv /\ [Next]_vars => Inv'
  BY InvNext
<1> QED
  BY <1>1, <1>2, PTL DEF Spec

\* The accesses that the fast copy leaves unchecked are inside memory, and
\* R13 names the address that the Wasm loop accesses, in every iteration that
\* the guard lets through.
THEOREM UncheckedAccessesHold == PlainLoops => (Spec => []UncheckedAccessesSafe)
<1> SUFFICES ASSUME PlainLoops
             PROVE  Spec => []UncheckedAccessesSafe
  OBVIOUS
<1>1. Inv => UncheckedAccessesSafe
  BY UncheckedSafe
<1> QED
  BY <1>1, InvAlways, PTL

\* The frame slots and registers hold the words of the Wasm locals, both
\* copies go round as often as the Wasm loop, and the slots are right after it.
THEOREM LocalsHold == PlainLoops => (Spec => []LocalsAgree)
<1> SUFFICES ASSUME PlainLoops
             PROVE  Spec => []LocalsAgree
  OBVIOUS
<1>1. Inv => LocalsAgree
  BY DEF Inv
<1> QED
  BY <1>1, InvAlways, PTL

=============================================================================
