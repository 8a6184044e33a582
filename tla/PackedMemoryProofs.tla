------------------------- MODULE PackedMemoryProofs -------------------------
(***************************************************************************)
(* Proofs about PackedMemory: types, what lies outside linear memory, and  *)
(* that packed words behave as the bytes of LinearMemory.                  *)
(***************************************************************************)
EXTENDS PackedMemory, TLAPS, WellFoundedInduction

\* The byte at address i when RAM is r.
At(r, i) == r[WordOf(i)][LaneOf(i)]

ZeroWord == [k \in Lane |-> Zero]

\* Addresses whose word the console has.
Held == {i \in Nat : WordOf(i) \in Ram}

-----------------------------------------------------------------------------
(* Sizes.                                                                  *)

\* Sizes in words: naturals, monotone and additive.
LEMMA WordsFacts ==
  /\ \A p \in Nat : Words(p) \in Nat
  /\ \A p, q \in Nat : Words(p + q) = Words(p) + Words(q)
  /\ \A p, q \in Nat : p <= q => Words(p) <= Words(q)
<1>1. \A p \in Nat : Words(p) \in Nat
  BY LayoutAssumption DEF Words
<1>2. \A p, q \in Nat : Words(p + q) = Words(p) + Words(q)
  BY LayoutAssumption DEF Words
<1>3. ASSUME NEW p \in Nat, NEW q \in Nat, p <= q
      PROVE  Words(p) <= Words(q)
  <2>1. q - p \in Nat /\ q = p + (q - p)
    BY <1>3
  <2>2. Words(q) = Words(p) + Words(q - p)
    BY <1>2, <2>1
  <2>3. Words(q - p) \in Nat /\ Words(p) \in Nat
    BY <1>1, <2>1
  <2> QED BY <2>2, <2>3
<1> QED BY <1>1, <1>2, <1>3

\* The two ways of writing the size of a memory agree.
LEMMA SizesAgree == \A p \in Nat : Promise!Size(p) = Bytes(p)
BY LayoutAssumption DEF Promise!Size, Bytes, Words

\* A byte below a length that linear memory can have is in a word of linear
\* memory, and a byte that is not below it is not in a word below it.
LEMMA WordsOfBytes ==
  ASSUME NEW p \in 0 .. MaxPages, NEW i \in Nat
  PROVE  /\ WordOf(i) \in Nat /\ LaneOf(i) \in Lane
         /\ i < Bytes(p) => /\ WordOf(i) \in Linear
                            /\ WordOf(i) < Base + Words(p)
                            /\ i \in Held
         /\ i >= Bytes(p) => WordOf(i) >= Base + Words(p)
<1>1. Words(p) \in Nat /\ Words(MaxPages) \in Nat /\ Words(p) <= Words(MaxPages)
  <2>1. MaxPages \in Nat
    BY LayoutAssumption
  <2>2. p \in Nat /\ p <= MaxPages
    BY <2>1
  <2> QED BY <2>1, <2>2, WordsFacts
<1>2. Base \in Nat /\ RamWords \in Nat /\ Base + Words(MaxPages) <= RamWords
  BY LayoutAssumption
<1> DEFINE n == Words(p)  top == Words(MaxPages)
<1>3. n \in Nat /\ top \in Nat /\ n <= top
  BY <1>1
<1> HIDE DEF n, top
<1>4. i \div 4 \in Nat /\ i % 4 \in 0 .. 3 /\ i = 4 * (i \div 4) + (i % 4)
  OBVIOUS
<1>5. (i < 4 * n => i \div 4 < n) /\ (i >= 4 * n => i \div 4 >= n)
  BY <1>3, <1>4
<1>6. WordOf(i) = Base + i \div 4 /\ LaneOf(i) = i % 4
  BY DEF WordOf, LaneOf
<1>7. Bytes(p) = 4 * n /\ Linear = Base .. Base + top - 1 /\ top = Words(MaxPages)
  BY DEF Bytes, Linear, n, top
<1> QED BY <1>2, <1>3, <1>4, <1>5, <1>6, <1>7 DEF Lane, Ram, Held, n, top

\* A byte address is its word and its lane.
LEMMA Places ==
  ASSUME NEW i \in Nat, NEW j \in Nat
  PROVE  (WordOf(i) = WordOf(j) /\ LaneOf(i) = LaneOf(j)) <=> i = j
<1>1. /\ i \div 4 \in Nat /\ i % 4 \in 0 .. 3 /\ i = 4 * (i \div 4) + (i % 4)
      /\ j \div 4 \in Nat /\ j % 4 \in 0 .. 3 /\ j = 4 * (j \div 4) + (j % 4)
  OBVIOUS
<1>2. Base \in Nat
  BY LayoutAssumption
<1> QED BY <1>1, <1>2 DEF WordOf, LaneOf

-----------------------------------------------------------------------------
(* Bytes and values in words.                                              *)

\* A byte store changes one byte and one word.
LEMMA ByteStored ==
  ASSUME NEW r \in [Ram -> Packed], NEW i \in Held, NEW b \in Byte
  PROVE  /\ WithByte(r, i, b) \in [Ram -> Packed]
         /\ \A j \in Held : At(WithByte(r, i, b), j) = IF j = i THEN b ELSE At(r, j)
         /\ \A w \in Ram : w # WordOf(i) => WithByte(r, i, b)[w] = r[w]
<1>1. i \in Nat /\ WordOf(i) \in Ram /\ LaneOf(i) \in Lane
  <2>1. i \in Nat /\ i % 4 \in 0 .. 3
    BY DEF Held
  <2> QED BY <2>1 DEF Held, LaneOf, Lane
<1>2. r[WordOf(i)] \in [Lane -> Byte]
  BY <1>1 DEF Packed
<1> DEFINE v == [r[WordOf(i)] EXCEPT ![LaneOf(i)] = b]
<1>3. v \in [Lane -> Byte] /\ \A k \in Lane : v[k] = IF k = LaneOf(i) THEN b ELSE r[WordOf(i)][k]
  BY <1>1, <1>2
<1>4. WithByte(r, i, b) = [r EXCEPT ![WordOf(i)] = v]
  BY DEF WithByte
<1> HIDE DEF v
<1>5. /\ WithByte(r, i, b) \in [Ram -> Packed]
      /\ \A w \in Ram : WithByte(r, i, b)[w] = IF w = WordOf(i) THEN v ELSE r[w]
  BY <1>1, <1>3, <1>4 DEF Packed
<1>6. ASSUME NEW j \in Held
      PROVE  At(WithByte(r, i, b), j) = IF j = i THEN b ELSE At(r, j)
  <2>1. j \in Nat /\ WordOf(j) \in Ram /\ LaneOf(j) \in Lane
    <3>1. j \in Nat /\ j % 4 \in 0 .. 3
      BY DEF Held
    <3> QED BY <3>1 DEF Held, LaneOf, Lane
  <2>2. (WordOf(i) = WordOf(j) /\ LaneOf(i) = LaneOf(j)) <=> i = j
    BY <1>1, <2>1, Places
  <2>3. At(WithByte(r, i, b), j) = WithByte(r, i, b)[WordOf(j)][LaneOf(j)]
    BY DEF At
  <2>4. At(r, j) = r[WordOf(j)][LaneOf(j)]
    BY DEF At
  <2> QED BY <1>3, <1>5, <2>1, <2>2, <2>3, <2>4
<1> QED BY <1>5, <1>6

\* RAM q is r with the first width bytes of v at i.
Stored(q, r, i, width, v) ==
  /\ q \in [Ram -> Packed]
  /\ \A j \in Held : At(q, j) = IF j \in Range(i, width) THEN v[j - i] ELSE At(r, j)
  /\ \A w \in Ram : (\A k \in Range(i, width) : w # WordOf(k)) => q[w] = r[w]

LEMMA StoredByte ==
  ASSUME NEW r \in [Ram -> Packed], NEW i \in Held, NEW v, v[0] \in Byte
  PROVE  Stored(WithByte(r, i, v[0]), r, i, 1, v)
<1>1. i \in Nat
  BY DEF Held
<1>2. Range(i, 1) = {i} /\ i - i = 0
  BY <1>1 DEF Range
<1>3. /\ WithByte(r, i, v[0]) \in [Ram -> Packed]
      /\ \A j \in Held : At(WithByte(r, i, v[0]), j) = IF j = i THEN v[0] ELSE At(r, j)
      /\ \A w \in Ram : w # WordOf(i) => WithByte(r, i, v[0])[w] = r[w]
  BY ByteStored
<1> QED BY <1>2, <1>3 DEF Stored

LEMMA StoredMore ==
  ASSUME NEW r, NEW q, NEW i \in Nat, NEW n \in Nat, NEW v,
         Stored(q, r, i, n, v), i + n \in Held, v[n] \in Byte
  PROVE  Stored(WithByte(q, i + n, v[n]), r, i, n + 1, v)
<1> DEFINE p == WithByte(q, i + n, v[n])
<1>1. q \in [Ram -> Packed]
  BY DEF Stored
<1>2. /\ p \in [Ram -> Packed]
      /\ \A j \in Held : At(p, j) = IF j = i + n THEN v[n] ELSE At(q, j)
      /\ \A w \in Ram : w # WordOf(i + n) => p[w] = q[w]
  BY <1>1, ByteStored
<1> HIDE DEF p
<1>3. ASSUME NEW j \in Held
      PROVE  At(p, j) = IF j \in Range(i, n + 1) THEN v[j - i] ELSE At(r, j)
  <2>1. j \in Nat
    BY DEF Held
  <2>2. j \in Range(i, n + 1) <=> j \in Range(i, n) \/ j = i + n
    BY <2>1 DEF Range
  <2>3. j = i + n => j - i = n /\ j \notin Range(i, n)
    BY <2>1 DEF Range
  <2>4. At(q, j) = IF j \in Range(i, n) THEN v[j - i] ELSE At(r, j)
    BY DEF Stored
  <2> QED BY <1>2, <2>2, <2>3, <2>4
<1>4. ASSUME NEW w \in Ram, \A k \in Range(i, n + 1) : w # WordOf(k)
      PROVE  p[w] = r[w]
  <2>1. i + n \in Range(i, n + 1) /\ Range(i, n) \subseteq Range(i, n + 1)
    BY DEF Range
  <2> QED BY <1>2, <1>4, <2>1 DEF Stored
<1> QED BY <1>2, <1>3, <1>4 DEF Stored, p

\* The bytes of an aligned word.
LEMMA AlignedBytes ==
  ASSUME NEW i \in Nat, LaneOf(i) = 0
  PROVE  /\ \A k \in Lane : WordOf(i + k) = WordOf(i) /\ LaneOf(i + k) = k
         /\ \A j \in Nat : WordOf(j) = WordOf(i) => j \in Range(i, 4) /\ LaneOf(j) = j - i
         /\ \A j \in Range(i, 4) : WordOf(j) = WordOf(i) /\ LaneOf(j) = j - i
<1>1. i \div 4 \in Nat /\ i = 4 * (i \div 4)
  BY DEF LaneOf
<1> DEFINE q == i \div 4
<1>2. q \in Nat /\ i = 4 * q
  BY <1>1
<1>3. Base \in Nat
  BY LayoutAssumption
<1>4. WordOf(i) = Base + q
  BY DEF WordOf
<1> HIDE DEF q
<1>5. ASSUME NEW k \in Lane
      PROVE  WordOf(i + k) = WordOf(i) /\ LaneOf(i + k) = k
  <2>1. k \in 0 .. 3
    BY DEF Lane
  <2>2. (i + k) \div 4 = q /\ (i + k) % 4 = k
    BY <1>2, <2>1
  <2> QED BY <1>4, <2>2 DEF WordOf, LaneOf
<1>6. ASSUME NEW j \in Nat, WordOf(j) = WordOf(i)
      PROVE  j \in Range(i, 4) /\ LaneOf(j) = j - i
  <2>1. j \div 4 \in Nat /\ j % 4 \in 0 .. 3 /\ j = 4 * (j \div 4) + (j % 4)
    OBVIOUS
  <2>2. j \div 4 = q
    BY <1>2, <1>3, <1>4, <1>6, <2>1 DEF WordOf
  <2> QED BY <1>2, <2>1, <2>2 DEF Range, LaneOf
<1>7. ASSUME NEW j \in Range(i, 4)
      PROVE  WordOf(j) = WordOf(i) /\ LaneOf(j) = j - i
  <2>1. j - i \in Lane /\ j = i + (j - i)
    BY DEF Range, Lane
  <2> QED BY <1>5, <2>1
<1> QED BY <1>5, <1>6, <1>7

LEMMA StoredWord ==
  ASSUME NEW r \in [Ram -> Packed], NEW i \in Nat, NEW v \in Packed,
         Range(i, 4) \subseteq Held
  PROVE  Stored(WithWord(r, i, v), r, i, 4, v)
<1>0. i \in Held /\ i + 1 \in Held /\ i + 2 \in Held /\ i + 3 \in Held
  BY DEF Range
<1>1. v[0] \in Byte /\ v[1] \in Byte /\ v[2] \in Byte /\ v[3] \in Byte
  BY DEF Packed, Lane
<1>2. CASE LaneOf(i) = 0
  <2> DEFINE q == [r EXCEPT ![WordOf(i)] = v]
  <2>1. WithWord(r, i, v) = q
    BY <1>2 DEF WithWord
  <2>2. WordOf(i) \in Ram
    BY <1>0 DEF Held
  <2>3. q \in [Ram -> Packed] /\ \A w \in Ram : q[w] = IF w = WordOf(i) THEN v ELSE r[w]
    BY <2>2
  <2> HIDE DEF q
  <2>4. ASSUME NEW j \in Held
        PROVE  At(q, j) = IF j \in Range(i, 4) THEN v[j - i] ELSE At(r, j)
    <3>1. j \in Nat /\ WordOf(j) \in Ram
      BY DEF Held
    <3>2. CASE j \in Range(i, 4)
      <4>1. WordOf(j) = WordOf(i) /\ LaneOf(j) = j - i
        BY <1>2, <3>2, AlignedBytes
      <4> QED BY <2>2, <2>3, <3>2, <4>1 DEF At
    <3>3. CASE j \notin Range(i, 4)
      <4>1. WordOf(j) # WordOf(i)
        BY <1>2, <3>1, <3>3, AlignedBytes
      <4> QED BY <2>3, <3>1, <3>3, <4>1 DEF At
    <3> QED BY <3>2, <3>3
  <2>5. i \in Range(i, 4)
    BY DEF Range
  <2> QED BY <2>1, <2>3, <2>4, <2>5 DEF Stored
<1>3. CASE LaneOf(i) # 0
  <2> DEFINE q1 == WithByte(r, i, v[0])  q2 == WithByte(q1, i + 1, v[1])
             q3 == WithByte(q2, i + 2, v[2])  q4 == WithByte(q3, i + 3, v[3])
  <2>1. WithWord(r, i, v) = q4
    BY <1>3 DEF WithWord
  <2>2. Stored(q1, r, i, 1, v)
    BY <1>0, <1>1, StoredByte
  <2> HIDE DEF q1
  <2>3. Stored(q2, r, i, 2, v)
    <3>1. 1 + 1 = 2 /\ 1 \in Nat
      OBVIOUS
    <3>2. Stored(q2, r, i, 1 + 1, v)
      BY <1>0, <1>1, <2>2, <3>1, StoredMore
    <3> QED BY <3>1, <3>2
  <2> HIDE DEF q2
  <2>4. Stored(q3, r, i, 3, v)
    <3>1. 2 + 1 = 3 /\ 2 \in Nat
      OBVIOUS
    <3>2. Stored(q3, r, i, 2 + 1, v)
      BY <1>0, <1>1, <2>3, <3>1, StoredMore
    <3> QED BY <3>1, <3>2
  <2> HIDE DEF q3
  <2>5. Stored(q4, r, i, 4, v)
    <3>1. 3 + 1 = 4 /\ 3 \in Nat
      OBVIOUS
    <3>2. Stored(q4, r, i, 3 + 1, v)
      BY <1>0, <1>1, <2>4, <3>1, StoredMore
    <3> QED BY <3>1, <3>2
  <2> QED BY <2>1, <2>5
<1> QED BY <1>2, <1>3

LEMMA StoredTwice ==
  ASSUME NEW r, NEW q, NEW p, NEW i \in Nat, NEW v, NEW low, NEW high,
         Stored(q, r, i, 4, low), Stored(p, q, i + 4, 4, high),
         \A k \in Lane : low[k] = v[k] /\ high[k] = v[k + 4]
  PROVE  Stored(p, r, i, 8, v)
<1>1. p \in [Ram -> Packed]
  BY DEF Stored
<1>2. ASSUME NEW j \in Held
      PROVE  At(p, j) = IF j \in Range(i, 8) THEN v[j - i] ELSE At(r, j)
  <2>1. j \in Nat
    BY DEF Held
  <2>2. /\ j \in Range(i, 8) <=> j \in Range(i, 4) \/ j \in Range(i + 4, 4)
        /\ ~(j \in Range(i, 4) /\ j \in Range(i + 4, 4))
        /\ j \in Range(i, 4) => j - i \in Lane
        /\ j \in Range(i + 4, 4) => j - (i + 4) \in Lane /\ (j - (i + 4)) + 4 = j - i
    BY <2>1 DEF Range, Lane
  <2>3. At(p, j) = IF j \in Range(i + 4, 4) THEN high[j - (i + 4)] ELSE At(q, j)
    BY DEF Stored
  <2>4. At(q, j) = IF j \in Range(i, 4) THEN low[j - i] ELSE At(r, j)
    BY DEF Stored
  <2>5. j \in Range(i, 4) => low[j - i] = v[j - i]
    BY <2>2
  <2>6. j \in Range(i + 4, 4) => high[j - (i + 4)] = v[j - i]
    BY <2>2
  <2> QED BY <2>2, <2>3, <2>4, <2>5, <2>6
<1>3. ASSUME NEW w \in Ram, \A k \in Range(i, 8) : w # WordOf(k)
      PROVE  p[w] = r[w]
  <2>1. Range(i, 4) \subseteq Range(i, 8) /\ Range(i + 4, 4) \subseteq Range(i, 8)
    BY DEF Range
  <2> QED BY <1>3, <2>1 DEF Stored
<1> QED BY <1>1, <1>2, <1>3 DEF Stored

\* A store of a value changes its bytes and the words that hold them.
LEMMA ValueStored ==
  ASSUME NEW r \in [Ram -> Packed], NEW i \in Nat, NEW width \in {1, 2, 4, 8},
         NEW v \in [0 .. 7 -> Byte], Range(i, width) \subseteq Held
  PROVE  Stored(WithValue(r, i, width, v), r, i, width, v)
<1>1. i \in Held
  BY DEF Range
<1>2. v[0] \in Byte /\ v[1] \in Byte
  OBVIOUS
<1> DEFINE low == [k \in Lane |-> v[k]]  high == [k \in Lane |-> v[k + 4]]
<1>3. low \in Packed /\ high \in Packed
  BY DEF Packed, Lane
<1>4. \A k \in Lane : low[k] = v[k] /\ high[k] = v[k + 4]
  OBVIOUS
<1> HIDE DEF low, high
<1>5. CASE width = 1
  <2>1. WithValue(r, i, width, v) = WithByte(r, i, v[0])
    BY <1>5 DEF WithValue
  <2>2. Stored(WithByte(r, i, v[0]), r, i, 1, v)
    BY <1>1, <1>2, StoredByte
  <2> QED BY <1>5, <2>1, <2>2
<1>6. CASE width = 2
  <2>1. WithValue(r, i, width, v) = WithByte(WithByte(r, i, v[0]), i + 1, v[1])
    BY <1>6 DEF WithValue
  <2>2. Stored(WithByte(r, i, v[0]), r, i, 1, v)
    BY <1>1, <1>2, StoredByte
  <2>3. i + 1 \in Held /\ 1 \in Nat /\ 1 + 1 = 2
    BY <1>6 DEF Range
  <2>4. Stored(WithByte(WithByte(r, i, v[0]), i + 1, v[1]), r, i, 1 + 1, v)
    BY <1>2, <2>2, <2>3, StoredMore
  <2> QED BY <1>6, <2>1, <2>3, <2>4
<1>7. CASE width = 4
  <2>1. WithValue(r, i, width, v) = WithWord(r, i, low)
    BY <1>7 DEF WithValue, low
  <2>2. Stored(WithWord(r, i, low), r, i, 4, low)
    BY <1>3, <1>7, StoredWord
  <2>3. \A j \in Range(i, 4) : low[j - i] = v[j - i]
    BY <1>4 DEF Range, Lane
  <2> QED BY <1>7, <2>1, <2>2, <2>3 DEF Stored
<1>8. CASE width = 8
  <2> DEFINE q == WithWord(r, i, low)
  <2>1. WithValue(r, i, width, v) = WithWord(q, i + 4, high)
    BY <1>8 DEF WithValue, low, high
  <2>2. Range(i, 4) \subseteq Held /\ Range(i + 4, 4) \subseteq Held /\ i + 4 \in Nat
    BY <1>8 DEF Range
  <2>3. Stored(q, r, i, 4, low)
    BY <1>3, <2>2, StoredWord
  <2>4. q \in [Ram -> Packed]
    BY <2>3 DEF Stored
  <2> HIDE DEF q
  <2>5. Stored(WithWord(q, i + 4, high), q, i + 4, 4, high)
    BY <1>3, <2>2, <2>4, StoredWord
  <2>6. Stored(WithWord(q, i + 4, high), r, i, 8, v)
    BY <1>4, <2>3, <2>5, StoredTwice
  <2> QED BY <1>8, <2>1, <2>6
<1> QED BY <1>5, <1>6, <1>7, <1>8

\* A load reads the bytes of the value, however they lie in words.
LEMMA ValueLoaded ==
  ASSUME ram \in [Ram -> Packed], NEW i \in Nat, NEW width \in {1, 2, 4, 8},
         Range(i, width) \subseteq Held
  PROVE  ValueAt(i, width) = [k \in 0 .. width - 1 |-> ByteAt(i + k)]
<1>1. ASSUME NEW j \in Nat, Range(j, 4) \subseteq Held
      PROVE  WordAt(j) = [k \in Lane |-> ByteAt(j + k)]
  <2>1. CASE LaneOf(j) = 0
    <3>1. j \in Held
      BY <1>1 DEF Range
    <3>2. ram[WordOf(j)] \in [Lane -> Byte]
      BY <3>1 DEF Held, Packed
    <3>3. \A k \in Lane : ByteAt(j + k) = ram[WordOf(j)][k]
      BY <1>1, <2>1, AlignedBytes DEF ByteAt
    <3>4. WordAt(j) = ram[WordOf(j)]
      BY <2>1 DEF WordAt
    <3> QED BY <3>2, <3>3, <3>4
  <2>2. CASE LaneOf(j) # 0
    BY <2>2 DEF WordAt
  <2> QED BY <2>1, <2>2
<1>2. CASE width = 1
  <2>1. ValueAt(i, width) = [k \in 0 .. 0 |-> ByteAt(i)]
    BY <1>2 DEF ValueAt
  <2>2. \A k \in 0 .. 0 : i + k = i
    OBVIOUS
  <2> QED BY <1>2, <2>1, <2>2
<1>3. CASE width = 2
  <2>1. ValueAt(i, width) = [k \in 0 .. 1 |-> ByteAt(i + k)]
    BY <1>3 DEF ValueAt
  <2> QED BY <1>3, <2>1
<1>4. CASE width = 4
  <2>1. ValueAt(i, width) = WordAt(i)
    BY <1>4 DEF ValueAt
  <2>2. 0 .. width - 1 = Lane
    BY <1>4 DEF Lane
  <2> QED BY <1>1, <1>4, <2>1, <2>2
<1>5. CASE width = 8
  <2>1. ValueAt(i, width) =
          [k \in 0 .. 7 |-> IF k < 4 THEN WordAt(i)[k] ELSE WordAt(i + 4)[k - 4]]
    BY <1>5 DEF ValueAt
  <2>2. Range(i, 4) \subseteq Held /\ Range(i + 4, 4) \subseteq Held /\ i + 4 \in Nat
    BY <1>5 DEF Range
  <2>3. /\ WordAt(i) = [k \in Lane |-> ByteAt(i + k)]
        /\ WordAt(i + 4) = [k \in Lane |-> ByteAt((i + 4) + k)]
    BY <1>1, <2>2
  <2>4. ASSUME NEW k \in 0 .. 7
        PROVE  (IF k < 4 THEN WordAt(i)[k] ELSE WordAt(i + 4)[k - 4]) = ByteAt(i + k)
    <3>1. (k < 4 => k \in Lane) /\ (~(k < 4) => k - 4 \in Lane /\ (i + 4) + (k - 4) = i + k)
      BY DEF Lane
    <3> QED BY <2>3, <3>1
  <2> QED BY <1>5, <2>1, <2>4
<1> QED BY <1>2, <1>3, <1>4, <1>5

-----------------------------------------------------------------------------
(* The inductive invariant.                                                *)

\* The rest of a copy or fill is in linear memory; the rest of a copy does not
\* overwrite what it has still to read; the words that memory.grow has passed
\* are zero and those it has before it end the new pages.
RestInside ==
  /\ task.op \in {"forward", "fill"} => task.to + task.count <= Length
  /\ task.op = "forward" =>
       /\ task.from + task.count <= Length
       /\ task.to <= task.from \/ task.from + task.count <= task.to
  /\ task.op = "backward" =>
       task.count <= task.from /\ task.from < task.to /\ task.to <= Length
  /\ task.op = "clear" =>
       /\ task.from \in pages .. MaxPages /\ task.from - pages \in Arguments
       /\ Base + Words(pages) <= task.to
       /\ task.to + task.count = Base + Words(task.from)
       /\ \A w \in Base + Words(pages) .. task.to - 1 : ram[w] = ZeroWord

\* Only an idle program has trapped.
HelpersAlive == task.op # "idle" => outcome # Trapped

IInv == TypeOK /\ RestInside /\ HelpersAlive

Task == [op : Operation, to : Nat, from : Nat, count : Nat, byte : Byte]

LEMMA LengthFacts ==
  ASSUME TypeOK
  PROVE  /\ pages \in 0 .. MaxPages /\ pages \in Nat
         /\ Length = Bytes(pages) /\ Length \in Nat
         /\ Modulus \in Nat /\ 2 * Length < Modulus
         /\ \A i \in Nat : i < Length => i \in Held /\ WordOf(i) \in Linear
<1>1. /\ InitialPages \in Nat /\ MaxPages \in Nat /\ Modulus \in Nat
      /\ 2 * Bytes(MaxPages) < Modulus
  BY LayoutAssumption
<1>2. pages \in 0 .. MaxPages /\ pages \in Nat
  BY <1>1 DEF TypeOK
<1>3. Words(pages) \in Nat /\ Words(MaxPages) \in Nat /\ Words(pages) <= Words(MaxPages)
  <2>1. pages <= MaxPages
    BY <1>1, <1>2
  <2> QED BY <1>1, <1>2, <2>1, WordsFacts
<1>4. Length = Bytes(pages)
  BY DEF Length
<1>5. Bytes(pages) \in Nat /\ 2 * Bytes(pages) < Modulus
  BY <1>1, <1>3 DEF Bytes
<1>6. \A i \in Nat : i < Length => i \in Held /\ WordOf(i) \in Linear
  BY <1>2, <1>4, WordsOfBytes
<1> QED BY <1>1, <1>2, <1>4, <1>5, <1>6

LEMMA IdleTask == Idle \in Task /\ Idle.op = "idle"
BY ByteAssumption DEF Idle, Task, Operation

\* The fields of a task.
LEMMA TaskFields ==
  ASSUME TypeOK
  PROVE  /\ task \in Task /\ task.op \in Operation
         /\ task.to \in Nat /\ task.from \in Nat /\ task.count \in Nat /\ task.byte \in Byte
BY DEF TypeOK, Task

LEMMA NotTrapped ==
  /\ Done # Trapped /\ Failed # Trapped /\ Done.kind = "done" /\ Failed.kind = "failed"
  /\ \A x : /\ Loaded(x) # Trapped /\ Grown(x) # Trapped /\ Sized(x) # Trapped
            /\ Loaded(x).kind = "loaded" /\ Grown(x).kind = "grown" /\ Sized(x).kind = "size"
<1>1. Trapped.kind = "trapped"
  BY DEF Trapped
<1>2. Done.kind = "done" /\ Failed.kind = "failed"
  BY DEF Done, Failed
<1>3. ASSUME NEW x
      PROVE  Loaded(x).kind = "loaded" /\ Grown(x).kind = "grown" /\ Sized(x).kind = "size"
  BY DEF Loaded, Grown, Sized
<1>4. "done" # "trapped" /\ "failed" # "trapped" /\ "loaded" # "trapped"
      /\ "grown" # "trapped" /\ "size" # "trapped"
  OBVIOUS
<1>5. \A x : Loaded(x) # Trapped /\ Grown(x) # Trapped /\ Sized(x) # Trapped
  <2> TAKE x
  <2>1. Loaded(x).kind # Trapped.kind /\ Grown(x).kind # Trapped.kind
        /\ Sized(x).kind # Trapped.kind
    BY <1>1, <1>3, <1>4
  <2> QED BY <2>1
<1>6. Done.kind # Trapped.kind /\ Failed.kind # Trapped.kind
  BY <1>1, <1>2, <1>4
<1>7. Done # Trapped /\ Failed # Trapped
  BY <1>6
<1> QED BY <1>2, <1>3, <1>5, <1>7

\* A nonempty set of indices has a greatest.
LEMMA Greatest ==
  ASSUME NEW n \in Nat, NEW S, S \subseteq 1 .. n, S # {}
  PROVE  \E k \in S : \A j \in S : j <= k
<1> DEFINE R == OpToRel(<, Nat)
           T == {i \in Nat : n - i \in S}
<1>1. IsWellFoundedOn(R, Nat)
  BY NatLessThanWellFounded
<1>2. \A i, j \in Nat : <<j, i>> \in R <=> j < i
  BY DEF OpToRel
<1> HIDE DEF R
<1>3. T \subseteq Nat /\ T # {}
  <2>1. PICK s \in S : TRUE
    OBVIOUS
  <2>2. n - s \in Nat /\ n - (n - s) = s
    OBVIOUS
  <2> QED BY <2>1, <2>2
<1>4. PICK i \in T : \A j \in T : <<j, i>> \notin R
  <2> HIDE DEF T
  <2> QED BY <1>1, <1>3, WFMin
<1>5. ASSUME NEW j \in S
      PROVE  j <= n - i
  <2>1. n - j \in Nat /\ n - (n - j) = j /\ j \in Nat
    OBVIOUS
  <2>2. n - j \in T
    BY <2>1
  <2>3. ~(n - j < i)
    BY <1>2, <1>3, <1>4, <2>2
  <2> QED BY <2>1, <2>3
<1> QED BY <1>4, <1>5

\* A byte of the image is a byte.
LEMMA ImageBytes ==
  ASSUME NEW segments \in Images, NEW i \in Nat
  PROVE  ImageByte(segments, i) \in Byte
<1> DEFINE S == Covering(segments, i)
<1>1. segments \in Seq(Segment)
  BY ProgramAssumption
<1>2. CASE S = {}
  BY <1>2, ByteAssumption DEF ImageByte
<1>3. CASE S # {}
  <2>1. Len(segments) \in Nat /\ S \subseteq 1 .. Len(segments)
    BY <1>1 DEF Covering
  <2>2. LastOf(S) \in S
    <3> HIDE DEF S
    <3>1. \E k \in S : \A j \in S : j <= k
      BY <1>3, <2>1, Greatest
    <3> QED BY <3>1 DEF LastOf
  <2> DEFINE last == segments[LastOf(S)]
  <2>3. last \in Segment
    BY <1>1, <2>1, <2>2
  <2>4. i \in Range(last.offset, Len(last.bytes))
    BY <2>2 DEF Covering
  <2>5. ImageByte(segments, i) = last.bytes[i - last.offset + 1]
    BY <1>3 DEF ImageByte
  <2> HIDE DEF last, S
  <2>6. last.offset \in Nat /\ last.bytes \in Seq(Byte) /\ Len(last.bytes) \in Nat
    BY <2>3 DEF Segment
  <2>7. i - last.offset + 1 \in 1 .. Len(last.bytes)
    BY <2>4, <2>6 DEF Range
  <2> QED BY <2>5, <2>6, <2>7
<1> QED BY <1>2, <1>3

\* A word that startup skips holds no byte of a segment.
LEMMA SkippedWords ==
  ASSUME NEW segments \in Images, NEW i \in Nat, ~Touched(segments, i \div 4)
  PROVE  ImageByte(segments, i) = Zero
<1>1. SUFFICES ASSUME NEW k \in Covering(segments, i)
               PROVE  Touched(segments, i \div 4)
  BY DEF ImageByte
<1>2. k \in DOMAIN segments /\ segments[k] \in Segment
  BY ProgramAssumption DEF Covering
<1> DEFINE s == segments[k]  n == Len(s.bytes)  o == s.offset
<1>3. o \in Nat /\ n \in Nat
  BY <1>2 DEF Segment
<1>4. i \in Range(o, n)
  BY DEF Covering
<1> HIDE DEF n, o
<1>5. n # 0 /\ o <= i /\ i <= o + n - 1 /\ o + n - 1 \in Nat
  BY <1>3, <1>4 DEF Range
<1>6. \A x, y \in Nat : x <= y => x \div 4 <= y \div 4 /\ x \div 4 \in Nat /\ y \div 4 \in Nat
  OBVIOUS
<1>7. o \div 4 <= i \div 4 /\ i \div 4 <= (o + n - 1) \div 4
      /\ o \div 4 \in Nat /\ i \div 4 \in Nat /\ (o + n - 1) \div 4 \in Nat
  BY <1>3, <1>5, <1>6
<1>8. i \div 4 \in o \div 4 .. (o + n - 1) \div 4
  BY <1>7
<1> QED BY <1>2, <1>5, <1>8 DEF Touched, n, o

\* What startup leaves in RAM.
LEMMA StartedBytes ==
  ASSUME NEW segments \in Images, NEW power \in PowerOn
  PROVE  /\ Started(segments, power) \in [Ram -> Packed]
         /\ \A i \in 0 .. Bytes(InitialPages) - 1 :
              At(Started(segments, power), i) = ImageByte(segments, i)
<1>1. InitialPages \in 0 .. MaxPages /\ InitialPages \in Nat
  BY LayoutAssumption
<1>2. power \in [Ram -> Packed] /\ \A w \in Initial : power[w] = ZeroWord
  <2>1. ZeroWord \in Packed /\ Leftovers \subseteq Packed
    BY ByteAssumption, ProgramAssumption DEF ZeroWord, Packed
  <2>2. /\ power \in [Ram -> Leftovers \cup {ZeroWord}]
        /\ \A w \in Initial : power[w] = ZeroWord
    BY DEF PowerOn, ZeroWord
  <2> QED BY <2>1, <2>2
<1>3. ASSUME NEW w \in Ram
      PROVE  Started(segments, power)[w] \in Packed
  <2>1. CASE w \in Initial /\ Touched(segments, w - Base)
    <3>1. \A k \in Lane : 4 * (w - Base) + k \in Nat
      BY <2>1, LayoutAssumption DEF Initial, Lane
    <3>2. \A k \in Lane : ImageByte(segments, 4 * (w - Base) + k) \in Byte
      BY <3>1, ImageBytes
    <3> QED BY <2>1, <3>2 DEF Started, Packed
  <2>2. CASE ~(w \in Initial /\ Touched(segments, w - Base))
    BY <1>2, <2>2 DEF Started
  <2> QED BY <2>1, <2>2
<1>4. Started(segments, power) \in [Ram -> Packed]
  BY <1>3 DEF Started
<1>5. ASSUME NEW i \in 0 .. Bytes(InitialPages) - 1
      PROVE  At(Started(segments, power), i) = ImageByte(segments, i)
  <2>1. Words(InitialPages) \in Nat /\ Bytes(InitialPages) \in Nat /\ Base \in Nat
    <3>1. Words(InitialPages) \in Nat
      BY <1>1, WordsFacts
    <3> QED BY <3>1, LayoutAssumption DEF Bytes
  <2>2. i \in Nat /\ i < Bytes(InitialPages)
    BY <2>1
  <2>3. WordOf(i) \in Ram /\ WordOf(i) < Base + Words(InitialPages) /\ LaneOf(i) \in Lane
    BY <1>1, <2>2, WordsOfBytes DEF Held
  <2>4. i \div 4 \in Nat /\ 4 * (i \div 4) + (i % 4) = i
    BY <2>2
  <2>5. WordOf(i) = Base + i \div 4
    BY DEF WordOf
  <2>6. WordOf(i) - Base = i \div 4 /\ WordOf(i) \in Initial
    BY <2>1, <2>3, <2>4, <2>5 DEF Initial
  <2>7. 4 * (WordOf(i) - Base) + LaneOf(i) = i
    BY <2>4, <2>6 DEF LaneOf
  <2>8. CASE Touched(segments, i \div 4)
    BY <2>3, <2>6, <2>7, <2>8 DEF Started, At
  <2>9. CASE ~Touched(segments, i \div 4)
    <3>1. Started(segments, power)[WordOf(i)] = ZeroWord
      BY <1>2, <2>3, <2>6, <2>9 DEF Started
    <3>2. ImageByte(segments, i) = Zero
      BY <2>2, <2>9, SkippedWords
    <3> QED BY <2>3, <3>1, <3>2 DEF At, ZeroWord
  <2> QED BY <2>8, <2>9
<1> QED BY <1>4, <1>5

LEMMA InitIInv == Init => IInv
<1> SUFFICES ASSUME Init PROVE IInv
  OBVIOUS
<1>1. ram \in [Ram -> Packed]
  BY StartedBytes DEF Init
<1>2. pages \in InitialPages .. MaxPages
  BY LayoutAssumption DEF Init
<1>3. task = Idle /\ outcome = Done
  BY DEF Init
<1>4. TypeOK
  BY <1>1, <1>2, <1>3, IdleTask, NotTrapped DEF TypeOK, Task
<1>5. RestInside /\ HelpersAlive
  BY <1>3, IdleTask DEF RestInside, HelpersAlive
<1> QED BY <1>4, <1>5 DEF IInv

-----------------------------------------------------------------------------
(* Steps keep the invariant and write only linear memory.                  *)

Outside == \A w \in Ram \ Linear : ram'[w] = ram[w]

LEMMA OutcomeStep ==
  ASSUME IInv, Ready, UNCHANGED <<ram, pages, task>>,
         outcome'.kind \in {"done", "failed", "trapped", "loaded", "grown", "size"}
  PROVE  IInv' /\ Outside
<1>1. TypeOK'
  BY DEF IInv, TypeOK
<1>2. task.op = "idle" /\ task'.op = "idle"
  BY IdleTask DEF Ready
<1>3. RestInside' /\ HelpersAlive'
  BY <1>2 DEF RestInside, HelpersAlive
<1> QED BY <1>1, <1>3 DEF IInv, Outside

\* A byte below the length can be written without leaving linear memory.
LEMMA ByteWritten ==
  ASSUME TypeOK, NEW i \in Nat, i < Length, NEW b \in Byte, ram' = WithByte(ram, i, b)
  PROVE  /\ ram' \in [Ram -> Packed] /\ Outside
         /\ \A j \in Held : At(ram', j) = IF j = i THEN b ELSE At(ram, j)
<1>1. i \in Held /\ WordOf(i) \in Linear
  BY LengthFacts
<1>2. ram \in [Ram -> Packed]
  BY DEF TypeOK
<1>3. /\ ram' \in [Ram -> Packed]
      /\ \A j \in Held : At(ram', j) = IF j = i THEN b ELSE At(ram, j)
      /\ \A w \in Ram : w # WordOf(i) => ram'[w] = ram[w]
  BY <1>1, <1>2, ByteStored
<1> QED BY <1>1, <1>3 DEF Outside

\* A byte read below the length is a byte.
LEMMA ByteRead ==
  ASSUME TypeOK, NEW i \in Nat, i < Length
  PROVE  ByteAt(i) \in Byte
<1>1. WordOf(i) \in Ram /\ LaneOf(i) \in Lane
  <2>1. i \in Held
    BY LengthFacts
  <2>2. i % 4 \in 0 .. 3
    OBVIOUS
  <2> QED BY <2>1, <2>2 DEF Held, LaneOf, Lane
<1> QED BY <1>1 DEF TypeOK, Packed, ByteAt

\* The bytes of an access below the length have words.
LEMMA AccessHeld ==
  ASSUME TypeOK, NEW i \in Nat, NEW width \in {1, 2, 4, 8}, i + width <= Length
  PROVE  /\ Range(i, width) \subseteq Held
         /\ \A j \in Range(i, width) : WordOf(j) \in Linear
<1>1. \A j \in Range(i, width) : j \in Nat /\ j < Length
  BY LengthFacts DEF Range
<1> QED BY <1>1, LengthFacts

LEMMA StoreStep ==
  ASSUME IInv, NEW i \in Addresses, NEW width \in {1, 2, 4, 8}, NEW v \in Stores,
         Store(i, width, v)
  PROVE  IInv' /\ Outside /\ Stored(ram', ram, i, width, v)
<1>1. TypeOK /\ i \in Nat /\ v \in [0 .. 7 -> Byte] /\ i + width <= Length
  BY ProgramAssumption DEF IInv, Store
<1>2. Range(i, width) \subseteq Held /\ \A j \in Range(i, width) : WordOf(j) \in Linear
  BY <1>1, AccessHeld
<1>3. Stored(ram', ram, i, width, v)
  BY <1>1, <1>2, ValueStored DEF Store, TypeOK
<1>4. ram' \in [Ram -> Packed] /\ Outside
  BY <1>2, <1>3 DEF Stored, Outside
<1>5. pages' = pages /\ task' = task /\ outcome' = Done /\ task.op = "idle"
  BY IdleTask DEF Store, Ready
<1>6. TypeOK'
  BY <1>1, <1>4, <1>5, NotTrapped DEF TypeOK
<1>7. RestInside' /\ HelpersAlive'
  BY <1>5 DEF RestInside, HelpersAlive
<1> QED BY <1>3, <1>4, <1>6, <1>7 DEF IInv

\* Arithmetic on operands that are inside linear memory does not wrap.
LEMMA InsideFacts ==
  ASSUME TypeOK, NEW i \in Arguments, NEW n \in Arguments, Inside(i, n)
  PROVE  /\ i \in Nat /\ n \in Nat /\ i + n <= Length
         /\ Plus(i, n) = i + n /\ Signed(Plus(i, n)) = i + n
<1>1. Modulus \in Nat /\ Length \in Nat /\ 2 * Length < Modulus
  BY LengthFacts
<1>2. i \in Nat /\ n \in Nat
  BY <1>1, ProgramAssumption DEF Word
<1>3. i + n <= Length
  BY DEF Inside
<1> DEFINE m == Modulus  t == Length
<1>4. m \in Nat /\ t \in Nat /\ 2 * t < m /\ i + n <= t
  BY <1>1, <1>3
<1> HIDE DEF m, t
<1>5. i + n < m /\ ~(2 * (i + n) >= m)
  BY <1>2, <1>4
<1>6. Plus(i, n) = i + n
  BY <1>5 DEF Plus, m
<1>7. Signed(i + n) = i + n
  BY <1>5 DEF Signed, Negative, m
<1> QED BY <1>2, <1>3, <1>6, <1>7

\* Where a copy starts.
Forward(to, from, count) ==
  [op |-> "forward", to |-> to, from |-> from, count |-> count, byte |-> Zero]
FromTheEnd(to, from, count) ==
  [op |-> "backward", to |-> to + count, from |-> from + count, count |-> count, byte |-> Zero]

LEMMA CallCopyTask ==
  ASSUME IInv, ~Overruns, NEW to \in Arguments, NEW from \in Arguments, NEW count \in Arguments,
         CallCopy(to, from, count)
  PROVE  /\ to \in Nat /\ from \in Nat /\ count \in Nat
         /\ to + count <= Length /\ from + count <= Length
         /\ \/ to > from /\ to < from + count /\ task' = FromTheEnd(to, from, count)
            \/ (to <= from \/ from + count <= to) /\ task' = Forward(to, from, count)
<1>1. TypeOK /\ Inside(to, count) /\ Inside(from, count)
  BY DEF IInv, CallCopy
<1>2. /\ to \in Nat /\ from \in Nat /\ count \in Nat
      /\ to + count <= Length /\ from + count <= Length
      /\ Plus(to, count) = to + count /\ Plus(from, count) = from + count
      /\ Signed(Plus(from, count)) = from + count
  BY <1>1, InsideFacts
<1>3. CASE Backward(to, from, count)
  <2>1. to > from /\ to < from + count
    BY <1>2, <1>3 DEF Backward
  <2>2. task' = FromTheEnd(to, from, count)
    BY <1>2, <1>3 DEF CallCopy, FromTheEnd
  <2> QED BY <1>2, <2>1, <2>2
<1>4. CASE ~Backward(to, from, count)
  <2>1. to <= from \/ from + count <= to
    BY <1>2, <1>4 DEF Backward
  <2>2. task' = Forward(to, from, count)
    BY <1>4 DEF CallCopy, Forward
  <2> QED BY <1>2, <2>1, <2>2
<1> QED BY <1>3, <1>4

\* What a step must show of a task other than clearing.
LEMMA NewTask ==
  ASSUME TypeOK, ram' \in [Ram -> Packed], pages' = pages, outcome' # Trapped,
         outcome'.kind = "done" \/ outcome' = outcome,
         NEW op \in {"forward", "backward", "fill"}, NEW to \in Nat, NEW from \in Nat,
         NEW count \in Nat, NEW byte \in Byte,
         task' = [op |-> op, to |-> to, from |-> from, count |-> count, byte |-> byte],
         op \in {"forward", "fill"} => to + count <= Length,
         op = "forward" => from + count <= Length /\ (to <= from \/ from + count <= to),
         op = "backward" => count <= from /\ from < to /\ to <= Length
  PROVE  IInv'
<1>1. /\ task'.op = op /\ task'.to = to /\ task'.from = from /\ task'.count = count
      /\ task'.byte = byte /\ op \in Operation /\ op # "clear"
  BY DEF Operation
<1>2. task' \in Task
  BY <1>1 DEF Task
<1>3. TypeOK'
  BY <1>2 DEF TypeOK, Task
<1>4. Length' = Length
  BY DEF Length
<1>5. RestInside'
  BY <1>1, <1>4 DEF RestInside
<1>6. HelpersAlive'
  BY DEF HelpersAlive
<1> QED BY <1>3, <1>5, <1>6 DEF IInv

LEMMA CallCopyStep ==
  ASSUME IInv, ~Overruns, NEW to \in Arguments, NEW from \in Arguments, NEW count \in Arguments,
         CallCopy(to, from, count)
  PROVE  IInv' /\ Outside
<1>1. /\ to \in Nat /\ from \in Nat /\ count \in Nat
      /\ to + count <= Length /\ from + count <= Length
  BY CallCopyTask
<1>2. TypeOK /\ ram' = ram /\ pages' = pages /\ outcome' = Done /\ ram \in [Ram -> Packed]
  BY DEF IInv, CallCopy, TypeOK
<1>3. outcome' # Trapped /\ outcome'.kind = "done" /\ Zero \in Byte
  BY <1>2, NotTrapped, ByteAssumption
<1>4. CASE to > from /\ to < from + count /\ task' = FromTheEnd(to, from, count)
  <2>1. /\ to + count \in Nat /\ from + count \in Nat /\ count <= from + count
        /\ from + count < to + count
    BY <1>1, <1>4
  <2> QED BY <1>1, <1>2, <1>3, <1>4, <2>1, NewTask DEF FromTheEnd, Outside
<1>5. CASE (to <= from \/ from + count <= to) /\ task' = Forward(to, from, count)
  BY <1>1, <1>2, <1>3, <1>5, NewTask DEF Forward, Outside
<1> QED BY <1>4, <1>5, CallCopyTask

LEMMA CallFillStep ==
  ASSUME IInv, ~Overruns, NEW to \in Arguments, NEW byte \in Byte, NEW count \in Arguments,
         CallFill(to, byte, count)
  PROVE  IInv' /\ Outside
<1>1. TypeOK /\ Inside(to, count)
  BY DEF IInv, CallFill
<1>2. to \in Nat /\ count \in Nat /\ to + count <= Length
  BY <1>1, InsideFacts
<1>3. ram' = ram /\ pages' = pages /\ outcome' = Done /\ ram \in [Ram -> Packed]
  BY <1>1 DEF CallFill, TypeOK
<1>4. outcome' # Trapped /\ outcome'.kind = "done" /\ 0 \in Nat
  BY <1>3, NotTrapped
<1>5. task' = [op |-> "fill", to |-> to, from |-> 0, count |-> count, byte |-> byte]
  BY DEF CallFill
<1> QED BY <1>1, <1>2, <1>3, <1>4, <1>5, NewTask DEF Outside

\* What one pass of a helper does, and where it may.
LEMMA CopyForwardPass ==
  ASSUME IInv, CopyForward
  PROVE  /\ TypeOK /\ task \in Task /\ task.op = "forward" /\ pages' = pages /\ outcome' = outcome
         /\ outcome # Trapped
         /\ task.to \in Nat /\ task.from \in Nat /\ task.count \in Nat /\ task.count > 0
         /\ task.to + task.count <= Length /\ task.from + task.count <= Length
         /\ task.to <= task.from \/ task.from + task.count <= task.to
         /\ ByteAt(task.from) \in Byte /\ ram' = WithByte(ram, task.to, ByteAt(task.from))
         /\ task' = [op |-> "forward", to |-> task.to + 1, from |-> task.from + 1,
                     count |-> task.count - 1, byte |-> task.byte]
<1>1. TypeOK /\ task.op = "forward" /\ task.count > 0 /\ pages' = pages /\ outcome' = outcome
  BY DEF IInv, CopyForward, Running
<1>2. /\ task \in Task /\ task.to \in Nat /\ task.from \in Nat /\ task.count \in Nat
  BY <1>1, TaskFields
<1>3. /\ task.to + task.count <= Length /\ task.from + task.count <= Length
      /\ task.to <= task.from \/ task.from + task.count <= task.to
      /\ outcome # Trapped
  BY <1>1 DEF IInv, RestInside, HelpersAlive
<1>4. task.from < Length
  BY <1>1, <1>2, <1>3, LengthFacts
<1>5. ByteAt(task.from) \in Byte
  BY <1>1, <1>2, <1>4, ByteRead
<1>6. task' = [op |-> "forward", to |-> task.to + 1, from |-> task.from + 1,
               count |-> task.count - 1, byte |-> task.byte]
  BY <1>1, <1>2 DEF CopyForward, Task
<1> QED BY <1>1, <1>2, <1>3, <1>5, <1>6 DEF CopyForward

LEMMA CopyBackwardPass ==
  ASSUME IInv, CopyBackward
  PROVE  /\ TypeOK /\ task \in Task /\ task.op = "backward" /\ pages' = pages /\ outcome' = outcome
         /\ outcome # Trapped
         /\ task.to \in Nat /\ task.from \in Nat /\ task.count \in Nat /\ task.count > 0
         /\ task.count <= task.from /\ task.from < task.to /\ task.to <= Length
         /\ ByteAt(task.from - 1) \in Byte
         /\ ram' = WithByte(ram, task.to - 1, ByteAt(task.from - 1))
         /\ task' = [op |-> "backward", to |-> task.to - 1, from |-> task.from - 1,
                     count |-> task.count - 1, byte |-> task.byte]
<1>1. TypeOK /\ task.op = "backward" /\ task.count > 0 /\ pages' = pages /\ outcome' = outcome
  BY DEF IInv, CopyBackward, Running
<1>2. /\ task \in Task /\ task.to \in Nat /\ task.from \in Nat /\ task.count \in Nat
  BY <1>1, TaskFields
<1>3. task.count <= task.from /\ task.from < task.to /\ task.to <= Length /\ outcome # Trapped
  BY <1>1 DEF IInv, RestInside, HelpersAlive
<1>4. task.from - 1 \in Nat /\ task.from - 1 < Length
  BY <1>1, <1>2, <1>3, LengthFacts
<1>5. ByteAt(task.from - 1) \in Byte
  BY <1>1, <1>4, ByteRead
<1>6. task' = [op |-> "backward", to |-> task.to - 1, from |-> task.from - 1,
               count |-> task.count - 1, byte |-> task.byte]
  BY <1>1, <1>2 DEF CopyBackward, Task
<1> QED BY <1>1, <1>2, <1>3, <1>5, <1>6 DEF CopyBackward

LEMMA FillBytePass ==
  ASSUME IInv, FillByte
  PROVE  /\ TypeOK /\ task \in Task /\ task.op = "fill" /\ pages' = pages /\ outcome' = outcome
         /\ outcome # Trapped
         /\ task.to \in Nat /\ task.count \in Nat /\ task.count > 0 /\ task.byte \in Byte
         /\ task.to + task.count <= Length /\ ram' = WithByte(ram, task.to, task.byte)
         /\ task' = [op |-> "fill", to |-> task.to + 1, from |-> task.from,
                     count |-> task.count - 1, byte |-> task.byte]
<1>1. TypeOK /\ task.op = "fill" /\ task.count > 0 /\ pages' = pages /\ outcome' = outcome
  BY DEF IInv, FillByte, Running
<1>2. task \in Task /\ task.to \in Nat /\ task.count \in Nat /\ task.byte \in Byte
  BY <1>1, TaskFields
<1>3. task.to + task.count <= Length /\ outcome # Trapped
  BY <1>1 DEF IInv, RestInside, HelpersAlive
<1>4. task' = [op |-> "fill", to |-> task.to + 1, from |-> task.from,
               count |-> task.count - 1, byte |-> task.byte]
  BY <1>1, <1>2 DEF FillByte, Task
<1> QED BY <1>1, <1>2, <1>3, <1>4 DEF FillByte

LEMMA CopyForwardStep ==
  ASSUME IInv, CopyForward
  PROVE  IInv' /\ Outside
<1> DEFINE t == task.to  f == task.from  n == task.count  b == task.byte
<1>1. /\ TypeOK /\ pages' = pages /\ outcome' = outcome /\ outcome # Trapped
      /\ t \in Nat /\ f \in Nat /\ n \in Nat /\ n > 0
      /\ t + n <= Length /\ f + n <= Length /\ (t <= f \/ f + n <= t)
      /\ ByteAt(f) \in Byte /\ ram' = WithByte(ram, t, ByteAt(f))
      /\ task' = [op |-> "forward", to |-> t + 1, from |-> f + 1, count |-> n - 1, byte |-> b]
  BY CopyForwardPass
<1>2. b \in Byte /\ Length \in Nat
  BY <1>1, TaskFields, LengthFacts
<1> HIDE DEF t, f, n, b
<1>3. /\ t < Length /\ t + 1 \in Nat /\ f + 1 \in Nat /\ n - 1 \in Nat
      /\ (t + 1) + (n - 1) <= Length /\ (f + 1) + (n - 1) <= Length
      /\ t + 1 <= f + 1 \/ (f + 1) + (n - 1) <= t + 1
  BY <1>1, <1>2
<1>4. ram' \in [Ram -> Packed] /\ Outside
  BY <1>1, <1>3, ByteWritten
<1>5. IInv'
  BY <1>1, <1>2, <1>3, <1>4, NewTask
<1> QED BY <1>4, <1>5

LEMMA CopyBackwardStep ==
  ASSUME IInv, CopyBackward
  PROVE  IInv' /\ Outside
<1> DEFINE t == task.to  f == task.from  n == task.count  b == task.byte
<1>1. /\ TypeOK /\ pages' = pages /\ outcome' = outcome /\ outcome # Trapped
      /\ t \in Nat /\ f \in Nat /\ n \in Nat /\ n > 0
      /\ n <= f /\ f < t /\ t <= Length
      /\ ByteAt(f - 1) \in Byte /\ ram' = WithByte(ram, t - 1, ByteAt(f - 1))
      /\ task' = [op |-> "backward", to |-> t - 1, from |-> f - 1, count |-> n - 1, byte |-> b]
  BY CopyBackwardPass
<1>2. b \in Byte /\ Length \in Nat
  BY <1>1, TaskFields, LengthFacts
<1> HIDE DEF t, f, n, b
<1>3. /\ t - 1 \in Nat /\ t - 1 < Length /\ f - 1 \in Nat /\ n - 1 \in Nat
      /\ n - 1 <= f - 1 /\ f - 1 < t - 1 /\ t - 1 <= Length
  BY <1>1, <1>2
<1>4. ram' \in [Ram -> Packed] /\ Outside
  BY <1>1, <1>3, ByteWritten
<1>5. IInv'
  BY <1>1, <1>2, <1>3, <1>4, NewTask
<1> QED BY <1>4, <1>5

LEMMA FillByteStep ==
  ASSUME IInv, FillByte
  PROVE  IInv' /\ Outside
<1> DEFINE t == task.to  f == task.from  n == task.count  b == task.byte
<1>1. /\ TypeOK /\ pages' = pages /\ outcome' = outcome /\ outcome # Trapped
      /\ t \in Nat /\ n \in Nat /\ n > 0 /\ b \in Byte
      /\ t + n <= Length /\ ram' = WithByte(ram, t, b)
      /\ task' = [op |-> "fill", to |-> t + 1, from |-> f, count |-> n - 1, byte |-> b]
  BY FillBytePass
<1>2. f \in Nat /\ Length \in Nat
  BY <1>1, TaskFields, LengthFacts
<1> HIDE DEF t, f, n, b
<1>3. /\ t < Length /\ t + 1 \in Nat /\ n - 1 \in Nat /\ (t + 1) + (n - 1) <= Length
  BY <1>1, <1>2
<1>4. ram' \in [Ram -> Packed] /\ Outside
  BY <1>1, <1>3, ByteWritten
<1>5. IInv'
  BY <1>1, <1>2, <1>3, <1>4, NewTask
<1> QED BY <1>4, <1>5

LEMMA ReturnStep ==
  ASSUME IInv, Return
  PROVE  IInv' /\ Outside
<1>1. TypeOK /\ ram' = ram /\ pages' = pages /\ outcome' = outcome /\ task' = Idle
  BY DEF IInv, Return
<1>2. TypeOK'
  BY <1>1, IdleTask DEF TypeOK, Task
<1>3. RestInside' /\ HelpersAlive'
  BY <1>1, IdleTask DEF RestInside, HelpersAlive
<1> QED BY <1>1, <1>2, <1>3 DEF IInv, Outside

\* Adding pages that memory.grow accepts.
LEMMA GrowPages ==
  ASSUME TypeOK, NEW count \in Arguments, count <= MaxPages - pages
  PROVE  /\ count \in Nat /\ pages + count \in pages .. MaxPages
         /\ (pages + count) - pages = count
         /\ Words(count) \in Nat /\ Words(pages) \in Nat /\ Base \in Nat
         /\ Words(pages + count) = Words(pages) + Words(count)
<1>1. count \in Nat /\ pages \in Nat /\ MaxPages \in Nat /\ Base \in Nat
  BY LengthFacts, ProgramAssumption, LayoutAssumption DEF Word
<1>2. Words(count) \in Nat /\ Words(pages) \in Nat
      /\ Words(pages + count) = Words(pages) + Words(count)
  BY <1>1, WordsFacts
<1> QED BY <1>1, <1>2

LEMMA GrowStep ==
  ASSUME IInv, NEW count \in Arguments, Grow(count)
  PROVE  IInv' /\ Outside
<1>1. /\ TypeOK /\ count <= MaxPages - pages /\ ram' = ram /\ pages' = pages
      /\ outcome' = outcome /\ outcome # Trapped
  BY DEF IInv, Grow, Ready
<1>2. task' = [op |-> "clear", to |-> Base + Words(pages), from |-> pages + count,
               count |-> Words(count), byte |-> Zero]
  BY DEF Grow
<1>3. /\ count \in Nat /\ pages + count \in pages .. MaxPages /\ (pages + count) - pages = count
      /\ Words(count) \in Nat /\ Words(pages) \in Nat /\ Base \in Nat
      /\ Words(pages + count) = Words(pages) + Words(count)
  BY <1>1, GrowPages
<1>4. /\ task'.op = "clear" /\ task'.to = Base + Words(pages) /\ task'.from = pages + count
      /\ task'.count = Words(count) /\ task'.byte = Zero
  BY <1>2
<1>5. Base + Words(pages) \in Nat /\ pages + count \in Nat
  BY <1>1, <1>3, LengthFacts
<1>6. task' \in Task
  BY <1>2, <1>3, <1>5, ByteAssumption DEF Task, Operation
<1>7. TypeOK'
  BY <1>1, <1>6 DEF TypeOK, Task
<1>8. Base + Words(pages) <= task'.to
      /\ task'.to + task'.count = Base + Words(task'.from)
      /\ Base + Words(pages) .. task'.to - 1 = {}
  <2> DEFINE x == Words(pages)  y == Words(count)
  <2>1. x \in Nat /\ y \in Nat /\ Words(task'.from) = x + y /\ task'.to = Base + x /\ task'.count = y
    BY <1>3, <1>4
  <2> HIDE DEF x, y
  <2>2. Base + x <= task'.to /\ task'.to + task'.count = Base + Words(task'.from)
        /\ Base + x .. task'.to - 1 = {}
    BY <1>3, <2>1
  <2> QED BY <2>2 DEF x
<1>9. RestInside' /\ HelpersAlive'
  BY <1>1, <1>3, <1>4, <1>8 DEF RestInside, HelpersAlive
<1> QED BY <1>1, <1>7, <1>9 DEF IInv, Outside

\* The words of new pages, where the clearing loop stands.
LEMMA ClearFacts ==
  ASSUME IInv, task.op = "clear"
  PROVE  /\ TypeOK /\ task.to \in Nat /\ task.count \in Nat /\ task.from \in Nat
         /\ pages <= task.from /\ task.from \in 0 .. MaxPages
         /\ Words(pages) \in Nat /\ Words(task.from) \in Nat /\ Base \in Nat
         /\ Words(task.from) <= Words(MaxPages) /\ Words(MaxPages) \in Nat
         /\ Base + Words(pages) <= task.to
         /\ task.to + task.count = Base + Words(task.from)
         /\ \A w \in Base + Words(pages) .. task.to - 1 : ram[w] = ZeroWord
         /\ task.from - pages \in Arguments /\ outcome # Trapped
<1>1. TypeOK /\ pages \in Nat
  BY LengthFacts DEF IInv
<1>2. task.to \in Nat /\ task.count \in Nat /\ task.from \in Nat
  BY <1>1, TaskFields
<1>3. /\ task.from \in pages .. MaxPages /\ task.from - pages \in Arguments
      /\ Base + Words(pages) <= task.to
      /\ task.to + task.count = Base + Words(task.from)
      /\ \A w \in Base + Words(pages) .. task.to - 1 : ram[w] = ZeroWord
      /\ outcome # Trapped
  BY DEF IInv, RestInside, HelpersAlive
<1>4. Base \in Nat /\ MaxPages \in Nat
  BY LayoutAssumption
<1>5. pages <= task.from /\ task.from <= MaxPages /\ task.from \in 0 .. MaxPages
  BY <1>1, <1>2, <1>3, <1>4
<1>6. /\ Words(pages) \in Nat /\ Words(task.from) \in Nat
      /\ Words(task.from) <= Words(MaxPages) /\ Words(MaxPages) \in Nat
  BY <1>1, <1>2, <1>4, <1>5, WordsFacts
<1> QED BY <1>1, <1>2, <1>3, <1>4, <1>5, <1>6

LEMMA ClearStep ==
  ASSUME IInv, Clear
  PROVE  IInv' /\ Outside
<1>1. /\ task.op = "clear" /\ task.count > 0 /\ ram' = [ram EXCEPT ![task.to] = ZeroWord]
      /\ pages' = pages /\ outcome' = outcome
  BY DEF Clear, Running, ClearWord, ZeroWord
<1> DEFINE t == task.to  n == task.count  x == Words(pages)  y == Words(task.from)
           z == Words(MaxPages)
<1>2. /\ TypeOK /\ t \in Nat /\ n \in Nat /\ n > 0 /\ x \in Nat /\ y \in Nat /\ z \in Nat
      /\ Base \in Nat /\ y <= z /\ Base + x <= t /\ t + n = Base + y
      /\ \A w \in Base + x .. t - 1 : ram[w] = ZeroWord
      /\ outcome # Trapped
  BY <1>1, ClearFacts
<1>3. RamWords \in Nat /\ Base + z <= RamWords
  BY LayoutAssumption
<1>4. Linear = Base .. Base + z - 1 /\ Ram = 0 .. RamWords - 1
  BY DEF Linear, Ram
<1>5. task' = [task EXCEPT !.to = t + 1, !.count = n - 1]
  BY DEF Clear
<1>6. task \in Task
  BY <1>2, TaskFields
<1> HIDE DEF t, n, x, y, z
<1>7. /\ t \in Ram /\ t \in Linear /\ t + 1 \in Nat /\ n - 1 \in Nat
      /\ (t + 1) + (n - 1) = Base + y /\ Base + x <= t + 1
      /\ \A w \in Base + x .. (t + 1) - 1 : w \in Ram /\ (w = t \/ w \in Base + x .. t - 1)
  BY <1>2, <1>3, <1>4
<1>8. /\ task'.op = "clear" /\ task'.to = t + 1 /\ task'.from = task.from
      /\ task'.count = n - 1 /\ task' \in Task
  BY <1>1, <1>5, <1>6, <1>7 DEF Task
<1>9. ram \in [Ram -> Packed] /\ ZeroWord \in Packed
  BY <1>2, ByteAssumption DEF TypeOK, ZeroWord, Packed
<1>10. /\ ram' \in [Ram -> Packed]
       /\ \A w \in Ram : ram'[w] = IF w = t THEN ZeroWord ELSE ram[w]
  BY <1>1, <1>7, <1>9 DEF t
<1>11. Outside
  BY <1>7, <1>10 DEF Outside
<1>12. TypeOK'
  BY <1>1, <1>2, <1>8, <1>10 DEF TypeOK, Task
<1>13. \A w \in Base + x .. (t + 1) - 1 : ram'[w] = ZeroWord
  BY <1>2, <1>7, <1>10
<1>14. task'.from \in pages .. MaxPages /\ task'.from - pages \in Arguments
  BY <1>1, <1>8 DEF IInv, RestInside
<1>15. RestInside'
  BY <1>1, <1>7, <1>8, <1>13, <1>14 DEF RestInside, x, y
<1>16. HelpersAlive'
  BY <1>1, <1>2 DEF HelpersAlive
<1> QED BY <1>11, <1>12, <1>15, <1>16 DEF IInv

LEMMA FinishGrowStep ==
  ASSUME IInv, FinishGrow
  PROVE  IInv' /\ Outside
<1>1. /\ task.op = "clear" /\ ram' = ram /\ pages' = task.from /\ task' = Idle
      /\ outcome' = Grown(pages)
  BY DEF FinishGrow
<1>2. /\ TypeOK /\ task.from \in Nat /\ pages <= task.from /\ task.from \in 0 .. MaxPages
  BY <1>1, ClearFacts
<1>3. task.from \in InitialPages .. MaxPages
  BY <1>2, LayoutAssumption DEF TypeOK
<1>4. TypeOK'
  BY <1>1, <1>2, <1>3, IdleTask, NotTrapped DEF TypeOK, Task
<1>5. RestInside' /\ HelpersAlive'
  BY <1>1, IdleTask DEF RestInside, HelpersAlive
<1> QED BY <1>1, <1>4, <1>5 DEF IInv, Outside

-----------------------------------------------------------------------------
(* The packed words implement LinearMemory.                                *)

\* Memory as LinearMemory sees it.
Mem == [i \in 0 .. Length - 1 |-> Finally(i)]

LEMMA SettledMem ==
  ASSUME task.op \in {"idle", "clear"}
  PROVE  Mem = [i \in 0 .. Length - 1 |-> At(ram, i)]
BY DEF Mem, Finally, At, ByteAt

LEMMA SettledMemPrime ==
  ASSUME task'.op \in {"idle", "clear"}
  PROVE  Mem' = [i \in 0 .. Length' - 1 |-> At(ram', i)]
BY DEF Mem, Finally, At, ByteAt

LEMMA SameMem ==
  ASSUME UNCHANGED <<ram, pages, task>>
  PROVE  Mem' = Mem
BY DEF Mem, Finally, ByteAt, Length

LEMMA PromiseSize ==
  ASSUME TypeOK
  PROVE  Promise!Size(pages) = Length
BY SizesAgree, LengthFacts

LEMMA LoadImplements ==
  ASSUME IInv, NEW i \in Addresses, NEW width \in {1, 2, 4, 8}, Load(i, width)
  PROVE  Promise!Load(i, width)
<1>1. TypeOK /\ i \in Nat /\ i + width <= Length /\ ram \in [Ram -> Packed]
  BY ProgramAssumption DEF IInv, Load, TypeOK
<1>2. task.op = "idle"
  BY IdleTask DEF Load, Ready
<1>3. ValueAt(i, width) = [k \in 0 .. width - 1 |-> ByteAt(i + k)]
  BY <1>1, AccessHeld, ValueLoaded
<1>4. \A k \in 0 .. width - 1 : i + k \in 0 .. Length - 1
  BY <1>1, LengthFacts
<1>5. \A k \in 0 .. width - 1 : Mem[i + k] = ByteAt(i + k)
  BY <1>2, <1>4, SettledMem DEF At, ByteAt
<1>6. ValueAt(i, width) = [k \in 0 .. width - 1 |-> Mem[i + k]]
  BY <1>3, <1>5
<1>7. outcome' = Promise!Loaded([k \in 0 .. width - 1 |-> Mem[i + k]])
  BY <1>6 DEF Load, Promise!Loaded, Loaded
<1>8. Mem' = Mem /\ pages' = pages
  BY SameMem DEF Load
<1>9. Promise!Size(pages) = Length
  BY <1>1, PromiseSize
<1> QED BY <1>1, <1>7, <1>8, <1>9 DEF Promise!Load, Mem

LEMMA StoreImplements ==
  ASSUME IInv, NEW i \in Addresses, NEW width \in {1, 2, 4, 8}, NEW v \in Stores,
         Store(i, width, v)
  PROVE  Promise!Store(i, width, v)
<1>1. TypeOK /\ i \in Nat /\ i + width <= Length
  BY ProgramAssumption DEF IInv, Store
<1>2. Stored(ram', ram, i, width, v)
  BY StoreStep
<1>3. task.op = "idle" /\ task' = task /\ pages' = pages /\ outcome' = Done
  BY IdleTask DEF Store, Ready
<1>4. Length' = Length
  BY <1>3 DEF Length
<1>5. Mem = [j \in 0 .. Length - 1 |-> At(ram, j)] /\ Mem' = [j \in 0 .. Length - 1 |-> At(ram', j)]
  BY <1>3, <1>4, SettledMem, SettledMemPrime
<1>6. \A j \in 0 .. Length - 1 : j \in Held
  BY <1>1, LengthFacts
<1>7. Mem' = [j \in DOMAIN Mem |-> IF j \in Range(i, width) THEN v[j - i] ELSE Mem[j]]
  BY <1>2, <1>5, <1>6 DEF Stored
<1>8. Promise!Size(pages) = Length
  BY <1>1, PromiseSize
<1> QED BY <1>1, <1>3, <1>7, <1>8 DEF Promise!Store, Mem, Promise!Range, Range, Promise!Done, Done

\* A byte, as it will be, for each task that runs.
LEMMA FinalBytes ==
  ASSUME NEW i
  PROVE  /\ task.op = "forward" =>
              Finally(i) = IF i \in Range(task.to, task.count)
                           THEN At(ram, task.from + (i - task.to)) ELSE At(ram, i)
         /\ task.op = "backward" =>
              Finally(i) = IF i \in Range(task.to - task.count, task.count)
                           THEN At(ram, task.from - (task.to - i)) ELSE At(ram, i)
         /\ task.op = "fill" =>
              Finally(i) = IF i \in Range(task.to, task.count) THEN task.byte ELSE At(ram, i)
BY DEF Finally, ByteAt, At

LEMMA FinalBytesPrime ==
  ASSUME NEW i
  PROVE  /\ task'.op = "forward" =>
              Finally(i)' = IF i \in Range(task'.to, task'.count)
                            THEN At(ram', task'.from + (i - task'.to)) ELSE At(ram', i)
         /\ task'.op = "backward" =>
              Finally(i)' = IF i \in Range(task'.to - task'.count, task'.count)
                            THEN At(ram', task'.from - (task'.to - i)) ELSE At(ram', i)
         /\ task'.op = "fill" =>
              Finally(i)' = IF i \in Range(task'.to, task'.count) THEN task'.byte ELSE At(ram', i)
BY DEF Finally, ByteAt, At, Range

LEMMA CallCopyImplements ==
  ASSUME IInv, ~Overruns, NEW to \in Arguments, NEW from \in Arguments, NEW count \in Arguments,
         CallCopy(to, from, count)
  PROVE  Promise!Copy(to, from, count)
<1>1. /\ to \in Nat /\ from \in Nat /\ count \in Nat
      /\ to + count <= Length /\ from + count <= Length
  BY CallCopyTask
<1>2. TypeOK /\ ram' = ram /\ pages' = pages /\ outcome' = Done /\ task.op = "idle"
  BY IdleTask DEF IInv, CallCopy, Ready
<1>3. Length' = Length /\ Length \in Nat
  BY <1>2, LengthFacts DEF Length
<1>4. Mem = [j \in 0 .. Length - 1 |-> At(ram, j)]
  BY <1>2, SettledMem
<1>5. \A j \in Range(to, count) : /\ from + (j - to) \in 0 .. Length - 1
                                  /\ (from + count) - ((to + count) - j) = from + (j - to)
  BY <1>1, <1>3 DEF Range
<1>6. (to + count) - count = to
  BY <1>1
<1>7. ASSUME NEW j \in 0 .. Length - 1
      PROVE  Finally(j)' = IF j \in Range(to, count) THEN Mem[from + (j - to)] ELSE Mem[j]
  <2>1. CASE task' = FromTheEnd(to, from, count)
    <3>1. /\ task'.op = "backward" /\ task'.to = to + count /\ task'.from = from + count
          /\ task'.count = count
      BY <2>1 DEF FromTheEnd
    <3>2. Finally(j)' = IF j \in Range(to, count)
                        THEN At(ram', (from + count) - ((to + count) - j)) ELSE At(ram', j)
      BY <1>6, <3>1, FinalBytesPrime
    <3> QED BY <1>2, <1>4, <1>5, <3>2
  <2>2. CASE task' = Forward(to, from, count)
    <3>1. /\ task'.op = "forward" /\ task'.to = to /\ task'.from = from
          /\ task'.count = count
      BY <2>2 DEF Forward
    <3>2. Finally(j)' = IF j \in Range(to, count)
                        THEN At(ram', from + (j - to)) ELSE At(ram', j)
      BY <3>1, FinalBytesPrime
    <3> QED BY <1>2, <1>4, <1>5, <3>2
  <2> QED BY <2>1, <2>2, CallCopyTask
<1>8. Mem' = [j \in DOMAIN Mem |->
                IF j \in Range(to, count) THEN Mem[from + (j - to)] ELSE Mem[j]]
  <2>1. Mem' = [j \in 0 .. Length - 1 |-> Finally(j)']
    BY <1>3 DEF Mem
  <2>2. DOMAIN Mem = 0 .. Length - 1
    BY <1>4
  <2> QED BY <1>7, <2>1, <2>2
<1>9. Promise!Size(pages) = Length
  BY <1>2, PromiseSize
<1> QED BY <1>1, <1>2, <1>8, <1>9 DEF Promise!Copy, Mem, Promise!Range, Range, Promise!Done, Done

LEMMA CallFillImplements ==
  ASSUME IInv, ~Overruns, NEW to \in Arguments, NEW byte \in Byte, NEW count \in Arguments,
         CallFill(to, byte, count)
  PROVE  Promise!Fill(to, byte, count)
<1>1. TypeOK /\ Inside(to, count) /\ ram' = ram /\ pages' = pages /\ outcome' = Done
      /\ task.op = "idle"
  BY IdleTask DEF IInv, CallFill, Ready
<1>2. to \in Nat /\ count \in Nat /\ to + count <= Length
  BY <1>1, InsideFacts
<1>3. Length' = Length
  BY <1>1 DEF Length
<1>4. Mem = [j \in 0 .. Length - 1 |-> At(ram, j)]
  BY <1>1, SettledMem
<1>5. task'.op = "fill" /\ task'.to = to /\ task'.count = count /\ task'.byte = byte
  BY DEF CallFill
<1>6. \A j : Finally(j)' = IF j \in Range(to, count) THEN byte ELSE At(ram', j)
  BY <1>5, FinalBytesPrime
<1>7. Mem' = [j \in DOMAIN Mem |-> IF j \in Range(to, count) THEN byte ELSE Mem[j]]
  <2>1. Mem' = [j \in 0 .. Length - 1 |-> Finally(j)']
    BY <1>3 DEF Mem
  <2> QED BY <1>1, <1>4, <1>6, <2>1
<1>8. Promise!Size(pages) = Length
  BY <1>1, PromiseSize
<1> QED BY <1>1, <1>2, <1>7, <1>8 DEF Promise!Fill, Mem, Promise!Range, Range, Promise!Done, Done

\* A pass of a helper changes nothing that the program will see.
LEMMA CopyForwardImplements ==
  ASSUME IInv, CopyForward
  PROVE  Mem' = Mem
<1> DEFINE t == task.to  f == task.from  n == task.count
<1>1. /\ TypeOK /\ pages' = pages /\ task.op = "forward"
      /\ t \in Nat /\ f \in Nat /\ n \in Nat /\ n > 0
      /\ t + n <= Length /\ f + n <= Length /\ (t <= f \/ f + n <= t)
      /\ ByteAt(f) \in Byte /\ ram' = WithByte(ram, t, ByteAt(f))
      /\ task'.op = "forward" /\ task'.to = t + 1 /\ task'.from = f + 1 /\ task'.count = n - 1
  BY CopyForwardPass
<1>2. Length \in Nat /\ Length' = Length /\ \A i \in Nat : i < Length => i \in Held
  BY <1>1, LengthFacts DEF Length
<1>3. \A i : /\ Finally(i) = IF i \in Range(t, n) THEN At(ram, f + (i - t)) ELSE At(ram, i)
             /\ Finally(i)' = IF i \in Range(t + 1, n - 1)
                              THEN At(ram', (f + 1) + (i - (t + 1))) ELSE At(ram', i)
  BY <1>1, FinalBytes, FinalBytesPrime
<1>4. At(ram, f) = ByteAt(f)
  BY DEF At, ByteAt
<1> HIDE DEF t, f, n
<1>5. \A j \in Held : At(ram', j) = IF j = t THEN At(ram, f) ELSE At(ram, j)
  <2>1. t < Length
    BY <1>1, <1>2
  <2> QED BY <1>1, <1>4, <2>1, ByteWritten
<1>6. ASSUME NEW i \in 0 .. Length - 1
      PROVE  Finally(i)' = Finally(i)
  <2>1. i \in Nat /\ i \in Held
    BY <1>2
  <2>2. CASE i \in Range(t + 1, n - 1)
    <3>1. /\ i \in Range(t, n) /\ (f + 1) + (i - (t + 1)) = f + (i - t)
          /\ f + (i - t) \in Nat /\ f + (i - t) < Length /\ f + (i - t) # t
      BY <1>1, <1>2, <2>1, <2>2 DEF Range
    <3>2. At(ram', f + (i - t)) = At(ram, f + (i - t))
      BY <1>2, <1>5, <3>1
    <3> QED BY <1>3, <2>2, <3>1, <3>2
  <2>3. CASE i = t
    <3>1. i \in Range(t, n) /\ i \notin Range(t + 1, n - 1) /\ f + (i - t) = f
      BY <1>1, <2>3 DEF Range
    <3> QED BY <1>3, <1>5, <2>1, <2>3, <3>1
  <2>4. CASE i \notin Range(t + 1, n - 1) /\ i # t
    <3>1. i \notin Range(t, n)
      BY <1>1, <2>1, <2>4 DEF Range
    <3> QED BY <1>3, <1>5, <2>1, <2>4, <3>1
  <2> QED BY <2>2, <2>3, <2>4
<1>7. Mem' = [i \in 0 .. Length - 1 |-> Finally(i)']
  BY <1>2 DEF Mem
<1> QED BY <1>6, <1>7 DEF Mem

LEMMA CopyBackwardImplements ==
  ASSUME IInv, CopyBackward
  PROVE  Mem' = Mem
<1> DEFINE t == task.to  f == task.from  n == task.count
<1>1. /\ TypeOK /\ pages' = pages /\ task.op = "backward"
      /\ t \in Nat /\ f \in Nat /\ n \in Nat /\ n > 0
      /\ n <= f /\ f < t /\ t <= Length
      /\ ByteAt(f - 1) \in Byte /\ ram' = WithByte(ram, t - 1, ByteAt(f - 1))
      /\ task'.op = "backward" /\ task'.to = t - 1 /\ task'.from = f - 1 /\ task'.count = n - 1
  BY CopyBackwardPass
<1>2. Length \in Nat /\ Length' = Length /\ \A i \in Nat : i < Length => i \in Held
  BY <1>1, LengthFacts DEF Length
<1>3. \A i : /\ Finally(i) = IF i \in Range(t - n, n) THEN At(ram, f - (t - i)) ELSE At(ram, i)
             /\ Finally(i)' = IF i \in Range((t - 1) - (n - 1), n - 1)
                              THEN At(ram', (f - 1) - ((t - 1) - i)) ELSE At(ram', i)
  BY <1>1, FinalBytes, FinalBytesPrime
<1>4. At(ram, f - 1) = ByteAt(f - 1)
  BY DEF At, ByteAt
<1> HIDE DEF t, f, n
<1>5. \A j \in Held : At(ram', j) = IF j = t - 1 THEN At(ram, f - 1) ELSE At(ram, j)
  <2>1. t - 1 \in Nat /\ t - 1 < Length
    BY <1>1, <1>2
  <2> QED BY <1>1, <1>4, <2>1, ByteWritten
<1>6. ASSUME NEW i \in 0 .. Length - 1
      PROVE  Finally(i)' = Finally(i)
  <2>1. i \in Nat /\ i \in Held
    BY <1>2
  <2>2. CASE i \in Range((t - 1) - (n - 1), n - 1)
    <3>1. /\ i \in Range(t - n, n) /\ (f - 1) - ((t - 1) - i) = f - (t - i)
          /\ f - (t - i) \in Nat /\ f - (t - i) < Length /\ f - (t - i) # t - 1
      BY <1>1, <1>2, <2>1, <2>2 DEF Range
    <3>2. At(ram', f - (t - i)) = At(ram, f - (t - i))
      BY <1>2, <1>5, <3>1
    <3> QED BY <1>3, <2>2, <3>1, <3>2
  <2>3. CASE i = t - 1
    <3>1. /\ i \in Range(t - n, n) /\ i \notin Range((t - 1) - (n - 1), n - 1)
          /\ f - (t - i) = f - 1
      BY <1>1, <2>3 DEF Range
    <3> QED BY <1>3, <1>5, <2>1, <2>3, <3>1
  <2>4. CASE i \notin Range((t - 1) - (n - 1), n - 1) /\ i # t - 1
    <3>1. i \notin Range(t - n, n)
      BY <1>1, <2>1, <2>4 DEF Range
    <3> QED BY <1>3, <1>5, <2>1, <2>4, <3>1
  <2> QED BY <2>2, <2>3, <2>4
<1>7. Mem' = [i \in 0 .. Length - 1 |-> Finally(i)']
  BY <1>2 DEF Mem
<1> QED BY <1>6, <1>7 DEF Mem

LEMMA FillByteImplements ==
  ASSUME IInv, FillByte
  PROVE  Mem' = Mem
<1> DEFINE t == task.to  n == task.count  b == task.byte
<1>1. /\ TypeOK /\ pages' = pages /\ task.op = "fill"
      /\ t \in Nat /\ n \in Nat /\ n > 0 /\ b \in Byte
      /\ t + n <= Length /\ ram' = WithByte(ram, t, b)
      /\ task'.op = "fill" /\ task'.to = t + 1 /\ task'.count = n - 1 /\ task'.byte = b
  BY FillBytePass
<1>2. Length \in Nat /\ Length' = Length /\ \A i \in Nat : i < Length => i \in Held
  BY <1>1, LengthFacts DEF Length
<1>3. \A i : /\ Finally(i) = IF i \in Range(t, n) THEN b ELSE At(ram, i)
             /\ Finally(i)' = IF i \in Range(t + 1, n - 1) THEN b ELSE At(ram', i)
  BY <1>1, FinalBytes, FinalBytesPrime
<1> HIDE DEF t, n, b
<1>4. \A j \in Held : At(ram', j) = IF j = t THEN b ELSE At(ram, j)
  <2>1. t < Length
    BY <1>1, <1>2
  <2> QED BY <1>1, <2>1, ByteWritten
<1>5. ASSUME NEW i \in 0 .. Length - 1
      PROVE  Finally(i)' = Finally(i)
  <2>1. i \in Nat /\ i \in Held
    BY <1>2
  <2>2. i \in Range(t, n) <=> i = t \/ i \in Range(t + 1, n - 1)
    BY <1>1, <2>1 DEF Range
  <2> QED BY <1>3, <1>4, <2>1, <2>2
<1>6. Mem' = [i \in 0 .. Length - 1 |-> Finally(i)']
  BY <1>2 DEF Mem
<1> QED BY <1>5, <1>6 DEF Mem

LEMMA ReturnImplements ==
  ASSUME IInv, Return
  PROVE  Mem' = Mem
<1>1. /\ TypeOK /\ ram' = ram /\ pages' = pages /\ task' = Idle /\ task.count = 0
      /\ task.op \in {"forward", "backward", "fill"}
  BY DEF IInv, Return
<1>2. Range(task.to, task.count) = {} /\ Range(task.to - task.count, task.count) = {}
  <2>1. task.to \in Nat
    BY <1>1, TaskFields
  <2> QED BY <1>1, <2>1 DEF Range
<1>3. \A i : Finally(i) = At(ram, i)
  BY <1>1, <1>2, FinalBytes
<1>4. Mem' = [i \in 0 .. Length' - 1 |-> At(ram', i)]
  BY <1>1, IdleTask, SettledMemPrime
<1> QED BY <1>1, <1>3, <1>4 DEF Mem, Length

LEMMA GrowImplements ==
  ASSUME IInv, NEW count \in Arguments, Grow(count)
  PROVE  Mem' = Mem
<1>1. task.op = "idle" /\ task'.op = "clear" /\ ram' = ram /\ pages' = pages
  BY IdleTask DEF Grow, Ready
<1>2. Mem = [i \in 0 .. Length - 1 |-> At(ram, i)]
  BY <1>1, SettledMem
<1>3. Mem' = [i \in 0 .. Length' - 1 |-> At(ram', i)]
  BY <1>1, SettledMemPrime
<1> QED BY <1>1, <1>2, <1>3 DEF Length

LEMMA ClearImplements ==
  ASSUME IInv, Clear
  PROVE  Mem' = Mem
<1>1. /\ task.op = "clear" /\ task'.op = "clear" /\ pages' = pages
      /\ ram' = [ram EXCEPT ![task.to] = ZeroWord]
  <2>1. task.op = "clear" /\ task \in Task
    BY TaskFields DEF Clear, Running, IInv
  <2> QED BY <2>1 DEF Clear, ClearWord, ZeroWord, Task
<1>2. TypeOK /\ Words(pages) \in Nat /\ Base \in Nat /\ Base + Words(pages) <= task.to
      /\ task.to \in Nat
  BY <1>1, ClearFacts
<1>3. ASSUME NEW i \in 0 .. Length - 1
      PROVE  At(ram', i) = At(ram, i)
  <2>1. i \in Nat /\ i < Length /\ pages \in 0 .. MaxPages /\ Length = Bytes(pages)
    BY <1>2, LengthFacts
  <2>2. WordOf(i) \in Ram /\ WordOf(i) < Base + Words(pages) /\ WordOf(i) \in Nat
    BY <2>1, WordsOfBytes DEF Held
  <2>3. WordOf(i) # task.to
    BY <1>2, <2>2
  <2>4. ram \in [Ram -> Packed]
    BY <1>2 DEF TypeOK
  <2> QED BY <1>1, <2>2, <2>3, <2>4 DEF At
<1>4. Mem = [i \in 0 .. Length - 1 |-> At(ram, i)]
  BY <1>1, SettledMem
<1>5. Mem' = [i \in 0 .. Length - 1 |-> At(ram', i)]
  BY <1>1, SettledMemPrime DEF Length
<1> QED BY <1>3, <1>4, <1>5

LEMMA FinishGrowImplements ==
  ASSUME IInv, FinishGrow
  PROVE  \E count \in Arguments : Promise!Grow(count)
<1>1. /\ task.op = "clear" /\ task.count = 0 /\ ram' = ram /\ pages' = task.from /\ task' = Idle
      /\ outcome' = Grown(pages)
  BY DEF FinishGrow
<1> DEFINE new == task.from  count == new - pages
<1>2. /\ TypeOK /\ new \in Nat /\ pages <= new /\ new \in 0 .. MaxPages
      /\ Words(pages) \in Nat /\ Words(new) \in Nat /\ Base \in Nat
      /\ task.to \in Nat /\ task.to + task.count = Base + Words(new)
      /\ \A w \in Base + Words(pages) .. task.to - 1 : ram[w] = ZeroWord
      /\ count \in Arguments
  BY <1>1, ClearFacts
<1>3. pages \in Nat /\ pages \in 0 .. MaxPages /\ Length = Bytes(pages) /\ Length \in Nat
      /\ MaxPages \in Nat
  BY <1>2, LengthFacts, LayoutAssumption
<1>4. pages + count = new /\ pages + count <= MaxPages /\ pages' = pages + count
  <2> HIDE DEF new
  <2>1. pages' = new
    BY <1>1 DEF new
  <2> QED BY <1>2, <1>3, <2>1
<1>5. Length' = Bytes(new)
  BY <1>1 DEF Length
<1>6. Mem = [i \in 0 .. Length - 1 |-> At(ram, i)]
  BY <1>1, SettledMem
<1>7. Mem' = [i \in 0 .. Bytes(new) - 1 |-> At(ram, i)]
  <2>1. task'.op = "idle"
    BY <1>1, IdleTask
  <2>2. Mem' = [i \in 0 .. Length' - 1 |-> At(ram', i)]
    BY <2>1, SettledMemPrime
  <2> QED BY <1>1, <1>5, <2>2
<1>8. Bytes(new) \in Nat /\ task.to = Base + Words(new)
  BY <1>1, <1>2 DEF Bytes
<1>9. ASSUME NEW i \in 0 .. Bytes(new) - 1
      PROVE  At(ram, i) = IF i < Length THEN Mem[i] ELSE Zero
  <2>1. i \in Nat /\ i < Bytes(new)
    BY <1>8
  <2>2. CASE i < Length
    BY <1>3, <1>6, <2>1, <2>2
  <2>3. CASE ~(i < Length)
    <3>1. i >= Bytes(pages)
      BY <1>3, <2>1, <2>3
    <3>2. WordOf(i) \in Nat /\ WordOf(i) < Base + Words(new) /\ LaneOf(i) \in Lane
      BY <1>2, <2>1, WordsOfBytes
    <3>3. WordOf(i) >= Base + Words(pages)
      BY <1>3, <2>1, <3>1, WordsOfBytes
    <3>4. WordOf(i) \in Base + Words(pages) .. task.to - 1
      <4> DEFINE x == Words(pages)  y == Words(new)
      <4>1. x \in Nat /\ y \in Nat /\ Base \in Nat /\ task.to = Base + y
            /\ WordOf(i) < Base + y /\ WordOf(i) >= Base + x
        BY <1>2, <1>8, <3>2, <3>3
      <4> HIDE DEF x, y
      <4> QED BY <3>2, <4>1 DEF x
    <3>5. ram[WordOf(i)] = ZeroWord
      BY <1>2, <3>4
    <3> QED BY <2>3, <3>2, <3>5 DEF At, ZeroWord
  <2> QED BY <2>2, <2>3
<1>10. Promise!Size(pages) = Length /\ Promise!Size(pages') = Bytes(new)
  BY <1>1, <1>2, <1>3, PromiseSize, SizesAgree
<1>11. Mem' = [j \in 0 .. Promise!Size(pages') - 1 |->
                 IF j < Promise!Size(pages) THEN Mem[j] ELSE Zero]
  BY <1>7, <1>9, <1>10
<1>12. outcome' = Promise!Grown(pages)
  BY <1>1 DEF Promise!Grown, Grown
<1>13. Promise!Grow(count)
  <2> HIDE DEF count, new
  <2> QED BY <1>4, <1>11, <1>12 DEF Promise!Grow, Mem
<1> QED BY <1>2, <1>13

LEMMA NegativeIsOutside ==
  ASSUME TypeOK, NEW i \in Arguments, Negative(i)
  PROVE  i > Length
<1> DEFINE m == Modulus  t == Length
<1>1. m \in Nat /\ t \in Nat /\ 2 * t < m /\ i \in Nat
  BY LengthFacts, ProgramAssumption DEF Word
<1>2. 2 * i >= m
  BY DEF Negative
<1> HIDE DEF m, t
<1>3. i > t
  BY <1>1, <1>2
<1> QED BY <1>3 DEF t

\* The checks of the bulk helpers refuse nothing that is in linear memory.
LEMMA FailsOutside ==
  ASSUME TypeOK, NEW i \in Arguments, NEW count \in Arguments
  PROVE  TargetFails(i, count) \/ SourceFails(i, count) => i + count > Length
<1>1. Length \in Nat /\ i \in Nat /\ count \in Nat
  BY LengthFacts, ProgramAssumption DEF Word
<1>2. Negative(i) => i > Length
  BY NegativeIsOutside
<1>3. Negative(count) => count > Length
  BY NegativeIsOutside
<1> DEFINE t == Length
<1>4. t \in Nat /\ t = Length
  BY <1>1
<1>5. TargetFails(i, count) => Negative(i) \/ 0 > t \/ Negative(count) \/ 0 > t - 0
  BY DEF TargetFails
<1>6. SourceFails(i, count) => Negative(i) \/ 0 > t \/ count > t - 0
  BY DEF SourceFails
<1> HIDE DEF t
<1> QED BY <1>1, <1>2, <1>3, <1>4, <1>5, <1>6

LEMMA TrapImplements ==
  ASSUME Trap, UNCHANGED <<ram, pages, task>>
  PROVE  Promise!Trap
<1>1. Mem' = Mem /\ pages' = pages
  BY SameMem
<1> QED BY <1>1 DEF Promise!Trap, Mem, Trap, Promise!Trapped, Trapped

LEMMA TrapsImplement ==
  ASSUME TypeOK
  PROVE  /\ \A i \in Addresses, width \in {1, 2, 4, 8} :
              TrapAccess(i, width) => Promise!TrapAccess(i, width)
         /\ \A to, from, count \in Arguments :
              TrapCopy(to, from, count) => Promise!TrapCopy(to, from, count)
         /\ \A to, count \in Arguments : TrapFill(to, count) => Promise!TrapFill(to, count)
<1>1. Promise!Size(pages) = Length
  BY PromiseSize
<1>2. Trap => Promise!Trap
  BY TrapImplements DEF Trap
<1>3. ASSUME NEW i \in Addresses, NEW width \in {1, 2, 4, 8}, TrapAccess(i, width)
      PROVE  Promise!TrapAccess(i, width)
  BY <1>1, <1>2, <1>3 DEF TrapAccess, Promise!TrapAccess
<1>4. ASSUME NEW to \in Arguments, NEW from \in Arguments, NEW count \in Arguments,
             TrapCopy(to, from, count)
      PROVE  Promise!TrapCopy(to, from, count)
  <2>1. to + count > Length \/ from + count > Length
    BY <1>4, FailsOutside DEF TrapCopy, CopyFails
  <2> QED BY <1>1, <1>2, <1>4, <2>1 DEF TrapCopy, Promise!TrapCopy
<1>5. ASSUME NEW to \in Arguments, NEW count \in Arguments, TrapFill(to, count)
      PROVE  Promise!TrapFill(to, count)
  <2>1. to + count > Length
    BY <1>5, FailsOutside DEF TrapFill
  <2> QED BY <1>1, <1>2, <1>5, <2>1 DEF TrapFill, Promise!TrapFill
<1> QED BY <1>3, <1>4, <1>5

LEMMA GrowFailsImplements ==
  ASSUME TypeOK, NEW count \in Arguments, GrowFails(count)
  PROVE  Promise!GrowFails(count)
<1>1. pages \in Nat /\ MaxPages \in Nat /\ count \in Nat /\ Length \in Nat
  BY LengthFacts, LayoutAssumption, ProgramAssumption DEF Word
<1>2. pages + count > MaxPages
  <2>1. CASE Negative(count)
    <3>1. 2 * count >= Modulus /\ Modulus > 2 * Bytes(MaxPages) /\ Modulus \in Nat
      BY <2>1, LayoutAssumption DEF Negative
    <3>2. Bytes(MaxPages) \in Nat /\ Bytes(MaxPages) >= MaxPages
      <4>1. Words(MaxPages) \in Nat /\ Words(MaxPages) >= MaxPages
        <5>1. PageWords - 1 \in Nat /\ MaxPages * (PageWords - 1) \in Nat
          BY LayoutAssumption
        <5>2. MaxPages * PageWords = MaxPages + MaxPages * (PageWords - 1)
          BY LayoutAssumption
        <5> QED BY <1>1, <5>1, <5>2 DEF Words
      <4> QED BY <1>1, <4>1 DEF Bytes
    <3> DEFINE b == Bytes(MaxPages)  m == Modulus
    <3>3. b \in Nat /\ b >= MaxPages /\ m \in Nat /\ m > 2 * b /\ 2 * count >= m
      BY <3>1, <3>2
    <3> HIDE DEF b, m
    <3> QED BY <1>1, <3>3
  <2>2. CASE ~Negative(count)
    <3>1. count > MaxPages - pages
      BY <2>2 DEF GrowFails
    <3> QED BY <1>1, <3>1
  <2> QED BY <2>1, <2>2
<1>3. Mem' = Mem /\ pages' = pages /\ outcome' = Failed
  BY SameMem DEF GrowFails
<1> QED BY <1>2, <1>3 DEF Promise!GrowFails, Mem, Promise!Failed, Failed

LEMMA MemorySizeImplements ==
  ASSUME MemorySize
  PROVE  Promise!MemorySize
<1>1. Mem' = Mem /\ pages' = pages /\ outcome' = Sized(pages)
  BY SameMem DEF MemorySize
<1> QED BY <1>1 DEF Promise!MemorySize, Mem, Promise!Sized, Sized

LEMMA InitImplements == Init => Promise!Init
<1> SUFFICES ASSUME Init PROVE Promise!Init
  OBVIOUS
<1>1. PICK segments \in Images, power \in PowerOn : ram = Started(segments, power)
  BY DEF Init
<1>2. pages = InitialPages /\ task = Idle /\ outcome = Done
  BY DEF Init
<1>3. TypeOK
  BY InitIInv DEF IInv
<1>4. Length = Bytes(InitialPages) /\ Promise!Size(InitialPages) = Bytes(InitialPages)
  BY <1>2, SizesAgree, LayoutAssumption DEF Length
<1>5. Mem = [i \in 0 .. Length - 1 |-> At(ram, i)]
  BY <1>2, IdleTask, SettledMem
<1>6. \A i \in 0 .. Length - 1 : At(ram, i) = ImageByte(segments, i)
  BY <1>1, <1>4, StartedBytes
<1>7. \A i \in 0 .. Length - 1 :
        ImageByte(segments, i) =
          LET over == Promise!Covering(segments, i)
              last == segments[Promise!LastOf(over)]
          IN IF over = {} THEN Zero ELSE last.bytes[i - last.offset + 1]
  BY DEF ImageByte, Covering, Promise!Covering, LastOf, Promise!LastOf, Range, Promise!Range
<1>8. Mem = Promise!Image(segments)
  BY <1>4, <1>5, <1>6, <1>7 DEF Promise!Image
<1> QED BY <1>2, <1>8 DEF Promise!Init, Mem, Promise!Done, Done

\* Every step keeps the invariant and writes only linear memory.
LEMMA NextStep ==
  ASSUME IInv, ~Overruns, Next
  PROVE  IInv' /\ Outside
<1>1. CASE \E i \in Addresses, width \in {1, 2, 4, 8} :
             \/ Load(i, width)
             \/ \E value \in Stores : Store(i, width, value)
             \/ TrapAccess(i, width)
  <2>1. PICK i \in Addresses, width \in {1, 2, 4, 8} :
             \/ Load(i, width)
             \/ \E value \in Stores : Store(i, width, value)
             \/ TrapAccess(i, width)
    BY <1>1
  <2>2. CASE Load(i, width)
    BY <2>2, OutcomeStep, NotTrapped DEF Load
  <2>3. CASE \E value \in Stores : Store(i, width, value)
    BY <2>3, StoreStep
  <2>4. CASE TrapAccess(i, width)
    <3>1. outcome'.kind = "trapped"
      BY <2>4 DEF TrapAccess, Trap, Trapped
    <3> QED BY <2>4, <3>1, OutcomeStep DEF TrapAccess, Trap
  <2> QED BY <2>1, <2>2, <2>3, <2>4
<1>2. CASE \E to, from, count \in Arguments : CallCopy(to, from, count) \/ TrapCopy(to, from, count)
  <2>1. PICK to \in Arguments, from \in Arguments, count \in Arguments :
             CallCopy(to, from, count) \/ TrapCopy(to, from, count)
    BY <1>2
  <2>2. CASE CallCopy(to, from, count)
    BY <2>2, CallCopyStep
  <2>3. CASE TrapCopy(to, from, count)
    <3>1. outcome'.kind = "trapped"
      BY <2>3 DEF TrapCopy, Trap, Trapped
    <3> QED BY <2>3, <3>1, OutcomeStep DEF TrapCopy, Trap
  <2> QED BY <2>1, <2>2, <2>3
<1>3. CASE \E to, count \in Arguments :
             TrapFill(to, count) \/ \E byte \in Byte : CallFill(to, byte, count)
  <2>1. PICK to \in Arguments, count \in Arguments :
             TrapFill(to, count) \/ \E byte \in Byte : CallFill(to, byte, count)
    BY <1>3
  <2>2. CASE \E byte \in Byte : CallFill(to, byte, count)
    BY <2>2, CallFillStep
  <2>3. CASE TrapFill(to, count)
    <3>1. outcome'.kind = "trapped"
      BY <2>3 DEF TrapFill, Trap, Trapped
    <3> QED BY <2>3, <3>1, OutcomeStep DEF TrapFill, Trap
  <2> QED BY <2>1, <2>2, <2>3
<1>4. CASE CopyForward
  BY <1>4, CopyForwardStep
<1>5. CASE CopyBackward
  BY <1>5, CopyBackwardStep
<1>6. CASE FillByte
  BY <1>6, FillByteStep
<1>7. CASE Return
  BY <1>7, ReturnStep
<1>8. CASE MemorySize
  BY <1>8, OutcomeStep, NotTrapped DEF MemorySize
<1>9. CASE \E count \in Arguments : Grow(count) \/ GrowFails(count)
  <2>1. PICK count \in Arguments : Grow(count) \/ GrowFails(count)
    BY <1>9
  <2>2. CASE Grow(count)
    BY <2>2, GrowStep
  <2>3. CASE GrowFails(count)
    BY <2>3, OutcomeStep, NotTrapped DEF GrowFails
  <2> QED BY <2>1, <2>2, <2>3
<1>10. CASE Clear
  BY <1>10, ClearStep
<1>11. CASE FinishGrow
  BY <1>11, FinishGrowStep
<1> QED BY <1>1, <1>2, <1>3, <1>4, <1>5, <1>6, <1>7, <1>8, <1>9, <1>10, <1>11 DEF Next

\* Every step is an operation of LinearMemory or changes nothing there.
LEMMA NextImplements ==
  ASSUME IInv, ~Overruns, Next
  PROVE  Promise!Next \/ (Mem' = Mem /\ pages' = pages /\ outcome' = outcome)
<1>0. TypeOK
  BY DEF IInv
<1>1. CASE \E i \in Addresses, width \in {1, 2, 4, 8} :
             \/ Load(i, width)
             \/ \E value \in Stores : Store(i, width, value)
             \/ TrapAccess(i, width)
  <2>1. PICK i \in Addresses, width \in {1, 2, 4, 8} :
             \/ Load(i, width)
             \/ \E value \in Stores : Store(i, width, value)
             \/ TrapAccess(i, width)
    BY <1>1
  <2>2. outcome # Promise!Trapped
    BY <2>1 DEF Load, Store, TrapAccess, Ready, Promise!Trapped, Trapped
  <2>3. \/ Promise!Load(i, width)
        \/ \E value \in Stores : Promise!Store(i, width, value)
        \/ Promise!TrapAccess(i, width)
    BY <1>0, <2>1, LoadImplements, StoreImplements, TrapsImplement
  <2> QED BY <2>2, <2>3, Zenon DEF Promise!Next
<1>2. CASE \E to, from, count \in Arguments : CallCopy(to, from, count) \/ TrapCopy(to, from, count)
  <2>1. PICK to \in Arguments, from \in Arguments, count \in Arguments :
             CallCopy(to, from, count) \/ TrapCopy(to, from, count)
    BY <1>2
  <2>2. outcome # Promise!Trapped
    BY <2>1 DEF CallCopy, TrapCopy, Ready, Promise!Trapped, Trapped
  <2>3. Promise!Copy(to, from, count) \/ Promise!TrapCopy(to, from, count)
    BY <1>0, <2>1, CallCopyImplements, TrapsImplement
  <2> QED BY <2>2, <2>3, Zenon DEF Promise!Next
<1>3. CASE \E to, count \in Arguments :
             TrapFill(to, count) \/ \E byte \in Byte : CallFill(to, byte, count)
  <2>1. PICK to \in Arguments, count \in Arguments :
             TrapFill(to, count) \/ \E byte \in Byte : CallFill(to, byte, count)
    BY <1>3
  <2>2. outcome # Promise!Trapped
    BY <2>1 DEF CallFill, TrapFill, Ready, Promise!Trapped, Trapped
  <2>3. Promise!TrapFill(to, count) \/ \E byte \in Byte : Promise!Fill(to, byte, count)
    BY <1>0, <2>1, CallFillImplements, TrapsImplement
  <2> QED BY <2>2, <2>3, Zenon DEF Promise!Next
<1>4. CASE CopyForward
  BY <1>4, CopyForwardImplements DEF CopyForward
<1>5. CASE CopyBackward
  BY <1>5, CopyBackwardImplements DEF CopyBackward
<1>6. CASE FillByte
  BY <1>6, FillByteImplements DEF FillByte
<1>7. CASE Return
  BY <1>7, ReturnImplements DEF Return
<1>8. CASE MemorySize
  <2>1. outcome # Promise!Trapped
    BY <1>8 DEF MemorySize, Ready, Promise!Trapped, Trapped
  <2> QED BY <1>8, <2>1, MemorySizeImplements, Zenon DEF Promise!Next
<1>9. CASE \E count \in Arguments : Grow(count) \/ GrowFails(count)
  <2>1. PICK count \in Arguments : Grow(count) \/ GrowFails(count)
    BY <1>9
  <2>2. CASE Grow(count)
    BY <2>2, GrowImplements DEF Grow
  <2>3. CASE GrowFails(count)
    <3>1. outcome # Promise!Trapped
      BY <2>3 DEF GrowFails, Ready, Promise!Trapped, Trapped
    <3>2. Promise!GrowFails(count)
      BY <1>0, <2>3, GrowFailsImplements
    <3> QED BY <3>1, <3>2, Zenon DEF Promise!Next
  <2> QED BY <2>1, <2>2, <2>3
<1>10. CASE Clear
  BY <1>10, ClearImplements DEF Clear
<1>11. CASE FinishGrow
  <2>1. PICK count \in Arguments : Promise!Grow(count)
    BY <1>11, FinishGrowImplements
  <2>2. outcome # Promise!Trapped
    BY <1>11, ClearFacts DEF FinishGrow, Promise!Trapped, Trapped
  <2> QED BY <2>1, <2>2, Zenon DEF Promise!Next
<1> QED BY <1>1, <1>2, <1>3, <1>4, <1>5, <1>6, <1>7, <1>8, <1>9, <1>10, <1>11 DEF Next

-----------------------------------------------------------------------------
(* Theorems, of programs that pass only ranges inside linear memory, or    *)
(* with a negative operand, to memory.copy and memory.fill.                *)

\* The packed memory stays well-formed, whatever the sizes of the console's
\* RAM and of the program's memory (target_layout.h, lowering.c).
THEOREM InvariantHolds == ASSUME ~Overruns PROVE Spec => []IInv
<1>1. Init => IInv
  BY InitIInv
<1>2. IInv /\ [Next]_vars => IInv'
  <2> SUFFICES ASSUME IInv, [Next]_vars PROVE IInv'
    OBVIOUS
  <2>1. CASE Next
    BY <2>1, NextStep
  <2>2. CASE UNCHANGED vars
    BY <2>2 DEF vars, IInv, TypeOK, RestInside, HelpersAlive, Length
  <2> QED BY <2>1, <2>2
<1> QED BY <1>1, <1>2, PTL DEF Spec

THEOREM TypesHold == ASSUME ~Overruns PROVE Spec => []TypeOK
<1>1. IInv => TypeOK
  BY DEF IInv
<1> QED BY <1>1, InvariantHolds, PTL

\* No word outside linear memory is ever written, by any store, helper or
\* clearing loop.
THEOREM OutsideHolds == ASSUME ~Overruns PROVE Spec => OutsideUntouched
<1>1. IInv /\ [Next]_vars => [\A w \in Ram \ Linear : ram'[w] = ram[w]]_vars
  <2> SUFFICES ASSUME IInv, Next PROVE \A w \in Ram \ Linear : ram'[w] = ram[w]
    OBVIOUS
  <2> QED BY NextStep DEF Outside
<1> QED BY <1>1, InvariantHolds, PTL DEF Spec, OutsideUntouched

\* Packed words, with their unaligned accesses, helpers that run byte by byte
\* and memory.grow, are the bytes of LinearMemory.
THEOREM PromiseKept == ASSUME ~Overruns PROVE Spec => KeepsPromise
<1>1. Init => Promise!Init
  BY InitImplements
<1>2. IInv /\ [Next]_vars => [Promise!Next]_(Promise!vars)
  <2> SUFFICES ASSUME IInv, [Next]_vars PROVE [Promise!Next]_(Promise!vars)
    OBVIOUS
  <2>1. CASE Next
    BY <2>1, NextImplements DEF Promise!vars, Mem
  <2>2. CASE UNCHANGED vars
    <3>1. Mem' = Mem
      BY <2>2, SameMem DEF vars
    <3> QED BY <2>2, <3>1 DEF vars, Promise!vars, Mem
  <2> QED BY <2>1, <2>2
<1> QED BY <1>1, <1>2, InvariantHolds, PTL DEF Spec, KeepsPromise, Promise!Spec

=============================================================================
