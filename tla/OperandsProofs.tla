--------------------------- MODULE OperandsProofs ---------------------------
(***************************************************************************)
(* For every number of locals and temporary slots, every menu of kinds and *)
(* every size of a function, Operands stacks the operands that wait in     *)
(* temporary slots in the order of their calls, and, for functions without *)
(* the kinds of Special, uses each as the word that Wasm has for it.       *)
(***************************************************************************)
EXTENDS Operands, FiniteSetTheorems, FunctionTheorems, TLAPS

-----------------------------------------------------------------------------
(* The calls and what they keep, whatever the code does.                    *)

Structured == {"block", "scope", "if", "ifelse"}
Roots == {"function", "procedure"}

IsWord(v) == v.in # "absent" /\ v.high = 0
IsPair(v) == v.in = "owned" /\ v.high # 0

ValueOK(v) ==
  /\ v \in Value
  /\ v.in = "absent" => v = Absent
  /\ v.in = "borrowed" => v.at \in Local
  /\ v.high # 0 => v.in = "owned"

\* How the operand of child n is kept.
KeptAs(f, n) ==
  LET v == f.kept[n] IN
  IF Children(f.kind)[n] = "pair" THEN IsPair(v)
  ELSE /\ IsWord(v)
       /\ v.in \in {"borrowed", "R1"} => f.side = "constant"
       /\ v.in = "R8" <=> f.kind = "twoport"
       /\ f.kind \in {"select", "indirect", "copy64"} /\ n = 1 => v.in = "owned"

FrameOK(f) ==
  /\ f \in Frame
  /\ Len(f.kept) < Len(Children(f.kind))
  /\ \A n \in DOMAIN f.kept :
       /\ ValueOK(f.kept[n])
       /\ IF f.kind \in Structured THEN f.kept[n] = Absent ELSE KeptAs(f, n)
  /\ f.slot # 0 <=> f.kind = "block" \/ (f.kind \in {"ifelse", "binary"} /\ f.kept # <<>>)
  /\ f.side = "constant" => f.kind = "binary" /\ f.kept # <<>>

\* What the next child of f gives.
Wanted(f) == Children(f.kind)[Len(f.kept) + 1]

\* v is what a child of f may give.
GivenOK(f, v) ==
  /\ ValueOK(v) /\ v.in # "R8"
  /\ Wanted(f) = "pair" => IsPair(v)
  /\ Wanted(f) = "word" => IsWord(v) \/ (Arm(f) /\ v = Absent)
  /\ Wanted(f) = "none" => v = Absent
  /\ v.in = "R1" => Retains(f)
  /\ f.side = "constant" => v.in = "immediate"

\* Every call is for a child of the one before it.
Nested(fs) ==
  /\ fs # <<>>
  /\ fs[1].kind \in Roots
  /\ \A i \in 1 .. Len(fs) : FrameOK(fs[i])
  /\ \A i \in 2 .. Len(fs) :
       /\ fs[i].kind \notin Roots
       /\ Fits(fs[i].kind, fs[i - 1])
       /\ fs[i].retain = Retains(fs[i - 1])
       /\ fs[i - 1].side # "constant"

\* Operands are stacked from slot b + 1 on.
Placed(v, b) == IsOwned(v) => v.at = b + 1 /\ v.high \in {0, b + 2}
After(v, b) == IF IsOwned(v) THEN b + Words(v) ELSE b
FrameAt(f, b) ==
  IF f.slot # 0
    THEN f.slot = b + 1 /\ \A n \in DOMAIN f.kept : Placed(f.kept[n], b) /\ f.kept[n].high = 0
    ELSE /\ Len(f.kept) >= 1 => Placed(f.kept[1], b)
         /\ Len(f.kept) = 2 => Placed(f.kept[2], After(f.kept[1], b))
FrameEnd(f, b) ==
  IF f.slot # 0 THEN b + 1
  ELSE IF Len(f.kept) = 0 THEN b
  ELSE IF Len(f.kept) = 1 THEN After(f.kept[1], b)
  ELSE After(f.kept[2], After(f.kept[1], b))

\* B[i] is temp_depth when call i began.
Stacked(fs, gives, depth, B) ==
  /\ B[1] = 0
  /\ \A i \in 1 .. Len(fs) : FrameAt(fs[i], B[i]) /\ B[i + 1] = FrameEnd(fs[i], B[i])
  /\ LET end == B[Len(fs) + 1] IN
       IF gives = <<>> THEN depth = end
       ELSE Placed(gives[1], end) /\ depth = After(gives[1], end)

\* What functions without the kinds of Special add.
Ordinary(fs, gives) ==
  /\ \A i, j \in 1 .. Len(fs) :
       i < j /\ fs[i].kind = "twoport" /\ Len(fs[i].kept) = 1 => fs[j].kind \notin Calling \cup {"twoport"}
  /\ \A i \in 1 .. Len(fs) : fs[i].kind \in TakesLastFromR1 => ~fs[i].retain
  /\ LET f == Last(fs) IN
     gives # <<>> /\ f.kind = "cpu2" /\ f.kept # <<>> /\ f.kept[1].in = "immediate"
       => gives[1].in # "borrowed"

-----------------------------------------------------------------------------
(* What the code has left.                                                  *)

\* The label of f brings a word.
Carries(f) == f.kind = "block" \/ (f.kind = "ifelse" /\ Len(f.kept) = 2)

Exact(c, fs, gives, to) ==
  /\ c.locals = c.wasm
  /\ \A i \in 1 .. (IF to = NoOne THEN Len(fs) ELSE to) : \A n \in DOMAIN fs[i].kept : Holds(c, fs[i].kept[n])
  /\ to = NoOne /\ gives # <<>> =>
       Holds(c, gives[1]) /\ (gives[1].in = "absent" => Wanted(Last(fs)) = "none")
  /\ to # NoOne /\ Carries(fs[to]) => c.slots[fs[to].slot] = fs[to].carried

-----------------------------------------------------------------------------
(* The invariant.                                                           *)

\* Slots lie in the order of the calls, and each belongs to one of them.
Chain(B, n) ==
  /\ B \in [Nat -> Nat]
  /\ \A i, j \in 1 .. n : i <= j => B[i] <= B[j]
  /\ \A k \in 1 .. n : \A s \in 1 .. B[k] : \E i \in 1 .. k - 1 : B[i] < s /\ s <= B[i + 1]

Layout(B) ==
  /\ menu \in Menus /\ nodes \in 0 .. Size
  /\ skip \in 0 .. Index /\ (skip # NoOne => frames[skip].kind \in Structured \cup Roots)
  /\ code \in Code /\ code.depth <= TempSlots /\ code.peak = 0
  /\ frames \in Seq(Frame) /\ Nested(frames)
  /\ given \in Seq(Value) /\ Len(given) <= 1 /\ (given # <<>> => GivenOK(Top, given[1]))
  /\ Chain(B, Index + 1) /\ Stacked(frames, given, code.depth, B)

Correct == code.exact /\ Exact(code, frames, given, skip) /\ Ordinary(frames, given)

Finished ==
  /\ menu \in Menus /\ nodes \in 0 .. Size /\ code \in Code
  /\ frames = <<>> /\ given = <<>>
  /\ verdict \in {"lowered", "refused"} /\ (verdict = "lowered" => code.depth = 0)
  /\ Special = {} => code.exact

IInv ==
  \/ verdict = "lowering" /\ \E B : Layout(B) /\ (Special = {} => Correct)
  \/ Finished

-----------------------------------------------------------------------------
(* Shapes of kinds.                                                         *)

LEMMA Kinds ==
  Kind = {"const", "get", "port", "size", "pair", "nop", "unary", "cpu", "grow", "extract", "tee", "set",
          "binary", "cpu2", "select", "wrap", "extend", "load64", "binary64", "mul64", "compare64", "store",
          "store64", "copy64", "packed", "bulk", "call", "call64", "indirect", "out", "ports", "twoport",
          "block", "scope", "ifelse", "if", "br", "brif", "brifvalue", "table", "return", "drop",
          "function", "procedure"}
  BY DEF Kind, Shapes

\* What the children of each kind give, and what it gives.
LEMMA ChildrenOf ==
  /\ \A k \in {"const", "get", "port", "size", "pair", "nop"} : Children(k) = <<>>
  /\ \A k \in {"unary", "cpu", "grow", "extract", "tee", "set", "extend", "load64", "out", "br", "brif",
              "table", "return", "drop", "function"} : Children(k) = <<"word">>
  /\ \A k \in {"binary", "cpu2", "store", "copy64", "call", "indirect", "ports", "twoport", "brifvalue"} :
       Children(k) = <<"word", "word">>
  /\ \A k \in {"select", "packed", "bulk", "ifelse"} : Children(k) = <<"word", "word", "word">>
  /\ Children("wrap") = <<"pair">> /\ Children("procedure") = <<"none">>
  /\ \A k \in {"binary64", "mul64", "compare64"} : Children(k) = <<"pair", "pair">>
  /\ \A k \in {"store64", "call64"} : Children(k) = <<"word", "pair">>
  /\ Children("block") = <<"none", "word">>
  /\ Children("scope") = <<"none", "none">>
  /\ Children("if") = <<"word", "none">>
  BY DEF Children, Shapes, Shape

LEMMA GivesOf ==
  /\ \A k \in {"const", "get", "port", "size", "unary", "cpu", "grow", "extract", "tee", "binary", "cpu2",
              "select", "wrap", "compare64", "call", "indirect", "block", "ifelse", "brifvalue",
              "function"} : Gives(k) = "word"
  /\ \A k \in {"pair", "extend", "load64", "binary64", "mul64", "call64"} : Gives(k) = "pair"
  /\ \A k \in {"nop", "set", "store", "store64", "copy64", "packed", "bulk", "out", "ports", "twoport", "scope",
              "if", "brif", "drop", "procedure"} : Gives(k) = "none"
  /\ \A k \in {"br", "table", "return"} : Gives(k) = "exit"
  BY DEF Gives, Shapes, Shape

LEMMA ChildrenType ==
  ASSUME NEW k \in Kind
  PROVE  /\ Len(Children(k)) \in 0 .. 3
         /\ \A n \in 1 .. Len(Children(k)) : Children(k)[n] \in {"word", "pair", "none"}
<1>1. \A s \in {<<>>, <<"word">>, <<"word", "word">>, <<"word", "word", "word">>, <<"pair">>, <<"none">>,
             <<"pair", "pair">>, <<"word", "pair">>, <<"none", "word">>, <<"none", "none">>, <<"word", "none">>} :
        Len(s) \in 0 .. 3 /\ \A n \in 1 .. Len(s) : s[n] \in {"word", "pair", "none"}
  OBVIOUS
<1>2. Children(k) \in {<<>>, <<"word">>, <<"word", "word">>, <<"word", "word", "word">>, <<"pair">>, <<"none">>,
             <<"pair", "pair">>, <<"word", "pair">>, <<"none", "word">>, <<"none", "none">>, <<"word", "none">>}
  BY Kinds, ChildrenOf
<1>3. QED
  BY <1>1, <1>2

LEMMA GivesType ==
  ASSUME NEW k \in Kind
  PROVE  Gives(k) \in {"word", "pair", "none", "exit"}
  BY Kinds, GivesOf

-----------------------------------------------------------------------------
(* A fresh word exists.                                                     *)

LEMMA ImageFinite ==
  ASSUME NEW S, IsFiniteSet(S), NEW f
  PROVE  IsFiniteSet({f[x] : x \in S})
<1> DEFINE T == {f[x] : x \in S}
           g == [x \in S |-> f[x]]
<1>1. g \in Surjection(S, T)
  BY DEF Surjection
<1>2. QED
  BY <1>1, FS_Surjection

LEMMA FreshWord ==
  ASSUME code \in Code, IsFiniteSet(InUse)
  PROVE  New \in Nat
<1>1. Cardinality(InUse) \in Nat
  BY FS_CardinalityType
<1> DEFINE n == Cardinality(InUse)
<1>2. \E w \in 1 .. n + 1 : w \notin InUse
  <2> SUFFICES ASSUME 1 .. n + 1 \subseteq InUse
               PROVE  FALSE
    OBVIOUS
  <2>1. Cardinality(1 .. n + 1) <= n
    BY FS_Subset
  <2>2. Cardinality(1 .. n + 1) = n + 1
    BY <1>1, FS_Interval
  <2>3. QED
    BY <1>1, <2>1, <2>2
<1>3. New \in 1 .. n + 1
  BY <1>2 DEF New
<1>4. QED
  BY <1>1, <1>3

LEMMA RangeFinite ==
  ASSUME NEW T, NEW s \in Seq(T)
  PROVE  IsFiniteSet(ToSet(s))
<1>1. IsFiniteSet(1 .. Len(s))
  BY FS_Interval
<1>2. ToSet(s) = {s[i] : i \in 1 .. Len(s)}
  BY DEF ToSet
<1>3. QED
  BY <1>1, <1>2, ImageFinite

LEMMA WordsFinite ==
  ASSUME NEW s \in Seq(Value)
  PROVE  IsFiniteSet({v.word : v \in ToSet(s)})
<1> DEFINE f == [v \in ToSet(s) |-> v.word]
<1>1. IsFiniteSet({f[v] : v \in ToSet(s)})
  BY RangeFinite, ImageFinite
<1>2. {f[v] : v \in ToSet(s)} = {v.word : v \in ToSet(s)}
  OBVIOUS
<1>3. QED
  BY <1>1, <1>2

LEMMA NewType ==
  ASSUME code \in Code, frames \in Seq(Frame), given \in Seq(Value)
  PROVE  New \in Nat
<1>1. IsFiniteSet({code.slots[s] : s \in DOMAIN code.slots})
  <2>1. IsFiniteSet(DOMAIN code.slots)
    <3>1. DOMAIN code.slots = 1 .. TempSlots + 4
      BY DEF Code
    <3>2. QED
      BY <3>1, FS_Interval, OperandsAssumption
  <2>2. QED
    BY <2>1, ImageFinite
<1>2. IsFiniteSet({code.locals[l] : l \in Local}) /\ IsFiniteSet({code.wasm[l] : l \in Local})
  BY ImageFinite, OperandsAssumption
<1>3. IsFiniteSet({code.r1, code.r8})
  <2>1. IsFiniteSet({code.r1}) /\ IsFiniteSet({code.r8})
    BY FS_Singleton
  <2>2. IsFiniteSet({code.r1} \cup {code.r8})
    BY <2>1, FS_Union
  <2>3. {code.r1} \cup {code.r8} = {code.r1, code.r8}
    OBVIOUS
  <2>4. QED
    BY <2>2, <2>3
<1>4. IsFiniteSet({v.word : v \in ToSet(given)})
  BY WordsFinite
<1>5. IsFiniteSet(UNION {{v.word : v \in ToSet(f.kept)} \cup {f.carried} : f \in ToSet(frames)})
  <2> DEFINE W == [f \in ToSet(frames) |-> {v.word : v \in ToSet(f.kept)} \cup {f.carried}]
  <2>1. \A f \in ToSet(frames) : IsFiniteSet(W[f])
    <3> SUFFICES ASSUME NEW f \in ToSet(frames)
                 PROVE  IsFiniteSet(W[f])
      OBVIOUS
    <3>1. f.kept \in Seq(Value)
      <4>1. PICK i \in 1 .. Len(frames) : f = frames[i]
        BY DEF ToSet
      <4>2. f \in Frame
        BY <4>1
      <4>3. QED
        BY <4>2 DEF Frame
    <3>2. IsFiniteSet({v.word : v \in ToSet(f.kept)}) /\ IsFiniteSet({f.carried})
      BY <3>1, WordsFinite, FS_Singleton
    <3>3. QED
      BY <3>2, FS_Union
  <2>2. IsFiniteSet({W[f] : f \in ToSet(frames)})
    BY RangeFinite, ImageFinite
  <2>3. IsFiniteSet(UNION {W[f] : f \in ToSet(frames)})
    BY <2>1, <2>2, FS_UNION
  <2>4. {W[f] : f \in ToSet(frames)} = {{v.word : v \in ToSet(f.kept)} \cup {f.carried} : f \in ToSet(frames)}
    OBVIOUS
  <2>5. QED
    BY <2>3, <2>4
<1>6. IsFiniteSet(InUse)
  <2>1. IsFiniteSet({code.slots[s] : s \in DOMAIN code.slots} \cup {code.locals[l] : l \in Local})
    BY <1>1, <1>2, FS_Union
  <2>2. IsFiniteSet({code.slots[s] : s \in DOMAIN code.slots} \cup {code.locals[l] : l \in Local}
                    \cup {code.wasm[l] : l \in Local})
    BY <2>1, <1>2, FS_Union
  <2>3. IsFiniteSet({code.slots[s] : s \in DOMAIN code.slots} \cup {code.locals[l] : l \in Local}
                    \cup {code.wasm[l] : l \in Local} \cup {code.r1, code.r8})
    BY <2>2, <1>3, FS_Union
  <2>4. IsFiniteSet({code.slots[s] : s \in DOMAIN code.slots} \cup {code.locals[l] : l \in Local}
                    \cup {code.wasm[l] : l \in Local} \cup {code.r1, code.r8} \cup {v.word : v \in ToSet(given)})
    BY <2>3, <1>4, FS_Union
  <2>5. QED
    BY <2>4, <1>5, FS_Union DEF InUse
<1>7. QED
  BY <1>6, FreshWord

-----------------------------------------------------------------------------
(* What emitting code does, for operands on top of the stack.               *)

\* Code as it is between two steps: what it claims, it has asked for.
Emitted == {c \in Code : c.depth <= TempSlots \/ c.depth <= c.peak}

\* d is c but for depth and peak.
SameWords(c, d) ==
  d.slots = c.slots /\ d.locals = c.locals /\ d.wasm = c.wasm /\ d.r1 = c.r1 /\ d.r8 = c.r8 /\ d.exact = c.exact
\* The operand is where code can read it.
Readable(v) == ValueOK(v) /\ (v.in = "owned" => v.at \in 1 .. TempSlots + 4)
\* d keeps slots 1 .. b and the locals of c.
Keeps(c, d, b) ==
  (\A s \in 1 .. b : d.slots[s] = c.slots[s]) /\ d.locals = c.locals /\ d.wasm = c.wasm /\ d.r8 = c.r8

LEMMA EmittedFields ==
  ASSUME NEW c \in Emitted
  PROVE  /\ c \in Code
         /\ c.depth <= TempSlots \/ c.depth <= c.peak
         /\ c.depth \in Nat /\ c.peak \in Nat /\ c.slots \in [1 .. TempSlots + 4 -> Nat]
         /\ c.locals \in [Local -> Nat] /\ c.wasm \in [Local -> Nat]
         /\ c.r1 \in Nat /\ c.r8 \in Nat /\ c.exact \in BOOLEAN
  BY DEF Emitted, Code

LEMMA AllocateFacts ==
  ASSUME NEW c \in Emitted, NEW n \in Nat
  PROVE  /\ Allocate(c, n) \in Emitted
         /\ Allocate(c, n).depth = c.depth + n
         /\ SameWords(c, Allocate(c, n))
<1> DEFINE d == Allocate(c, n)
<1>1. c \in Code /\ c.depth \in Nat /\ c.peak \in Nat
  BY EmittedFields
<1>2. d.depth = c.depth + n /\ d.peak = (IF c.depth + n > c.peak THEN c.depth + n ELSE c.peak)
  BY <1>1 DEF Allocate, Code
<1>3. SameWords(c, d)
  BY <1>1 DEF Allocate, Code, SameWords
<1>4. c.depth + n \in Nat /\ (IF c.depth + n > c.peak THEN c.depth + n ELSE c.peak) \in Nat
  BY <1>1
<1>5. d \in Code
  BY <1>1, <1>4 DEF Allocate, Code
<1>6. QED
  BY <1>1, <1>2, <1>3, <1>5 DEF Emitted

LEMMA ShrinkFacts ==
  ASSUME NEW c \in Emitted, NEW n \in Nat, n <= c.depth
  PROVE  /\ [c EXCEPT !.depth = @ - n] \in Emitted
         /\ [c EXCEPT !.depth = @ - n].depth = c.depth - n
         /\ SameWords(c, [c EXCEPT !.depth = @ - n])
<1> DEFINE d == [c EXCEPT !.depth = @ - n]
<1>1. c \in Code /\ c.depth \in Nat /\ c.peak \in Nat
  BY EmittedFields
<1>2. d.depth = c.depth - n /\ d.peak = c.peak
  BY <1>1 DEF Code
<1>3. SameWords(c, d)
  BY <1>1 DEF Code, SameWords
<1>4. c.depth - n \in Nat
  BY <1>1
<1>5. d \in Code
  BY <1>1, <1>4 DEF Code
<1>6. d.depth <= TempSlots \/ d.depth <= d.peak
  <2>1. TempSlots \in Nat /\ (c.depth <= TempSlots \/ c.depth <= c.peak)
    BY EmittedFields, OperandsAssumption
  <2>2. QED
    BY <1>1, <1>2, <2>1
<1>7. QED
  BY <1>2, <1>3, <1>5, <1>6 DEF Emitted

LEMMA WordsType ==
  ASSUME NEW v \in Value
  PROVE  Words(v) \in {1, 2}
  BY DEF Words

LEMMA ReleaseFacts ==
  ASSUME NEW c \in Emitted, NEW v \in Value
  PROVE  /\ Release(c, v) \in Emitted
         /\ SameWords(c, Release(c, v))
         /\ Release(c, v).depth <= c.depth
<1>1. c \in Code /\ c.depth \in Nat /\ Words(v) \in {1, 2}
  BY EmittedFields, WordsType
<1>2. CASE IsOwned(v) /\ c.depth >= Words(v)
  BY <1>1, <1>2, ShrinkFacts DEF Release
<1>3. CASE ~(IsOwned(v) /\ c.depth >= Words(v))
  BY <1>1, <1>3 DEF Release, SameWords
<1>4. QED
  BY <1>2, <1>3

\* Releasing the operand on top gives back just its slots.
LEMMA ReleaseTop ==
  ASSUME NEW c \in Emitted, NEW v \in Value, NEW b \in Nat, c.depth = After(v, b)
  PROVE  /\ Release(c, v) \in Emitted
         /\ SameWords(c, Release(c, v))
         /\ Release(c, v).depth = b
<1>1. c \in Code /\ c.depth \in Nat /\ Words(v) \in {1, 2}
  BY EmittedFields, WordsType
<1>2. CASE IsOwned(v)
  <2>1. c.depth = b + Words(v)
    BY <1>2 DEF After
  <2>2. Words(v) \in Nat /\ Words(v) <= c.depth
    BY <1>1, <2>1
  <2>3. Release(c, v) = [c EXCEPT !.depth = @ - Words(v)]
    BY <1>1, <1>2, <2>2 DEF Release
  <2>4. Release(c, v).depth = c.depth - Words(v) /\ Release(c, v) \in Emitted /\ SameWords(c, Release(c, v))
    BY <2>2, <2>3, ShrinkFacts
  <2>5. QED
    BY <1>1, <2>1, <2>4
<1>3. CASE ~IsOwned(v)
  BY <1>1, <1>3 DEF Release, SameWords, After
<1>4. QED
  BY <1>2, <1>3

LEMMA ReadType ==
  ASSUME NEW c \in Code, NEW v, Readable(v)
  PROVE  Read(c, v) \in Nat
<1>1. /\ c.slots \in [1 .. TempSlots + 4 -> Nat] /\ c.locals \in [Local -> Nat]
      /\ c.r1 \in Nat /\ c.r8 \in Nat
  BY DEF Code
<1>2. v.in \in {"absent", "immediate", "borrowed", "R1", "R8", "owned"} /\ v.word \in Nat
  BY DEF Readable, ValueOK, Value
<1>3. QED
  BY <1>1, <1>2 DEF Read, Readable, ValueOK

LEMMA UseFacts ==
  ASSUME NEW c \in Emitted, NEW v
  PROVE  /\ Use(c, v) \in Emitted
         /\ Use(c, v).depth = c.depth /\ Use(c, v).slots = c.slots
         /\ Use(c, v).locals = c.locals /\ Use(c, v).wasm = c.wasm
         /\ Use(c, v).r1 = c.r1 /\ Use(c, v).r8 = c.r8
         /\ c.exact /\ Holds(c, v) => Use(c, v).exact
<1> DEFINE e == c.exact /\ Holds(c, v)
           d == [c EXCEPT !.exact = e]
<1>1. c \in Code /\ (c.depth <= TempSlots \/ c.depth <= c.peak)
  BY EmittedFields
<1>2. e \in BOOLEAN
  OBVIOUS
<1>3. Use(c, v) = d
  BY DEF Use
<1> HIDE DEF e
<1>4. /\ d.depth = c.depth /\ d.peak = c.peak /\ d.slots = c.slots /\ d.locals = c.locals /\ d.wasm = c.wasm
      /\ d.r1 = c.r1 /\ d.r8 = c.r8 /\ d.exact = e
  BY <1>1 DEF Code
<1>5. d \in Code
  BY <1>1, <1>2 DEF Code
<1>6. d \in Emitted
  BY <1>1, <1>4, <1>5 DEF Emitted
<1>7. QED
  BY <1>3, <1>4, <1>6 DEF e

LEMMA R1Facts ==
  ASSUME NEW c \in Emitted, NEW w \in Nat
  PROVE  /\ [c EXCEPT !.r1 = w] \in Emitted
         /\ [c EXCEPT !.r1 = w].depth = c.depth /\ [c EXCEPT !.r1 = w].slots = c.slots
         /\ [c EXCEPT !.r1 = w].locals = c.locals /\ [c EXCEPT !.r1 = w].wasm = c.wasm
         /\ [c EXCEPT !.r1 = w].r8 = c.r8 /\ [c EXCEPT !.r1 = w].exact = c.exact
         /\ [c EXCEPT !.r1 = w].r1 = w
<1> DEFINE d == [c EXCEPT !.r1 = w]
<1>1. c \in Code /\ (c.depth <= TempSlots \/ c.depth <= c.peak)
  BY EmittedFields
<1>2. /\ d.depth = c.depth /\ d.peak = c.peak /\ d.slots = c.slots /\ d.locals = c.locals /\ d.wasm = c.wasm
      /\ d.r8 = c.r8 /\ d.exact = c.exact /\ d.r1 = w
  BY <1>1 DEF Code
<1>3. d \in Code
  BY <1>1 DEF Code
<1>4. QED
  BY <1>1, <1>2, <1>3 DEF Emitted

LEMMA LoadAndUseFacts ==
  ASSUME NEW c \in Emitted, NEW v, Readable(v)
  PROVE  /\ LoadAndUse(c, v) \in Emitted
         /\ LoadAndUse(c, v).depth = c.depth /\ LoadAndUse(c, v).slots = c.slots
         /\ LoadAndUse(c, v).locals = c.locals /\ LoadAndUse(c, v).wasm = c.wasm
         /\ LoadAndUse(c, v).r8 = c.r8
         /\ LoadAndUse(c, v).r1 = Read(c, v)
         /\ c.exact /\ Holds(c, v) => LoadAndUse(c, v).exact
<1> DEFINE u == Use(c, v)
<1>1. /\ u \in Emitted /\ u.depth = c.depth /\ u.slots = c.slots /\ u.locals = c.locals /\ u.wasm = c.wasm
      /\ u.r1 = c.r1 /\ u.r8 = c.r8 /\ (c.exact /\ Holds(c, v) => u.exact)
  BY UseFacts
<1>2. Read(u, v) = Read(c, v)
  BY <1>1 DEF Read
<1>3. Read(u, v) \in Nat
  BY <1>1, ReadType, EmittedFields
<1>4. LoadAndUse(c, v) = [u EXCEPT !.r1 = Read(u, v)]
  BY DEF LoadAndUse, Load
<1> HIDE DEF u
<1>5. QED
  BY <1>1, <1>2, <1>3, <1>4, R1Facts

LEMMA StoreFacts ==
  ASSUME NEW c \in Emitted, NEW w \in Nat, NEW slot
  PROVE  /\ Store(c, slot, w) \in Emitted
         /\ Store(c, slot, w).depth = c.depth
         /\ \A s \in 1 .. TempSlots + 4 : Store(c, slot, w).slots[s] = IF s = slot THEN w ELSE c.slots[s]
         /\ Store(c, slot, w).locals = c.locals /\ Store(c, slot, w).wasm = c.wasm
         /\ Store(c, slot, w).r1 = c.r1 /\ Store(c, slot, w).r8 = c.r8 /\ Store(c, slot, w).exact = c.exact
<1> DEFINE d == Store(c, slot, w)
<1>1. c \in Code /\ (c.depth <= TempSlots \/ c.depth <= c.peak) /\ c.slots \in [1 .. TempSlots + 4 -> Nat]
  BY EmittedFields
<1>2. [c.slots EXCEPT ![slot] = w] \in [1 .. TempSlots + 4 -> Nat]
  BY <1>1
<1>3. /\ d.depth = c.depth /\ d.peak = c.peak /\ d.slots = [c.slots EXCEPT ![slot] = w]
      /\ d.locals = c.locals /\ d.wasm = c.wasm /\ d.r1 = c.r1 /\ d.r8 = c.r8 /\ d.exact = c.exact
  BY <1>1 DEF Code, Store
<1>4. d \in Code
  BY <1>1, <1>2 DEF Code, Store
<1>5. QED
  BY <1>1, <1>3, <1>4 DEF Emitted

\* An operand on top of slots 1 .. b, and code for which it is there.
OnTop(c, v, b) ==
  /\ c \in Emitted /\ ValueOK(v) /\ b \in Nat
  /\ Placed(v, b) /\ c.depth = After(v, b) /\ c.depth <= TempSlots + 2

LEMMA OnTopReadable ==
  ASSUME NEW c, NEW v, NEW b, OnTop(c, v, b)
  PROVE  Readable(v)
<1>1. TempSlots \in Nat /\ Words(v) \in {1, 2}
  BY OperandsAssumption, WordsType DEF OnTop, ValueOK
<1>2. QED
  BY <1>1 DEF OnTop, Readable, Placed, After, IsOwned

LEMMA OwnedType ==
  ASSUME NEW slot \in Nat, NEW w \in Nat
  PROVE  /\ Owned(slot, w) \in Value /\ ValueOK(Owned(slot, w))
         /\ Owned(slot, w).in = "owned" /\ Owned(slot, w).at = slot
         /\ Owned(slot, w).high = 0 /\ Owned(slot, w).word = w
         /\ IsOwned(Owned(slot, w)) /\ IsWord(Owned(slot, w)) /\ Words(Owned(slot, w)) = 1
<1>1. /\ Owned(slot, w).in = "owned" /\ Owned(slot, w).at = slot
      /\ Owned(slot, w).high = 0 /\ Owned(slot, w).word = w
  BY DEF Absent, Owned
<1>2. Owned(slot, w) \in Value
  BY DEF Absent, Owned, Value
<1>3. QED
  BY <1>1, <1>2 DEF Value, ValueOK, IsOwned, IsWord, Words

LEMMA PairType ==
  ASSUME NEW low \in Nat, NEW high \in Nat, high # 0, NEW w \in Nat
  PROVE  /\ Pair(low, high, w) \in Value /\ ValueOK(Pair(low, high, w))
         /\ Pair(low, high, w).in = "owned" /\ Pair(low, high, w).at = low
         /\ Pair(low, high, w).high = high /\ Pair(low, high, w).word = w
         /\ IsOwned(Pair(low, high, w)) /\ IsPair(Pair(low, high, w)) /\ Words(Pair(low, high, w)) = 2
<1>1. /\ Pair(low, high, w).in = "owned" /\ Pair(low, high, w).at = low
      /\ Pair(low, high, w).high = high /\ Pair(low, high, w).word = w
  BY DEF Absent, Pair, Owned
<1>2. Pair(low, high, w) \in Value
  BY DEF Absent, Pair, Owned, Value
<1>3. QED
  BY <1>1, <1>2 DEF Value, ValueOK, IsOwned, IsPair, Words

LEMMA PlainType ==
  /\ Absent \in Value /\ ValueOK(Absent) /\ Absent.in = "absent" /\ Absent.high = 0 /\ ~IsOwned(Absent)
  /\ \A w \in Nat : LET v == InR1(w) IN
       v \in Value /\ ValueOK(v) /\ v.in = "R1" /\ v.word = w /\ v.high = 0 /\ IsWord(v) /\ ~IsOwned(v)
  /\ \A w \in Nat : LET v == Immediate(w) IN
       v \in Value /\ ValueOK(v) /\ v.in = "immediate" /\ v.word = w /\ v.high = 0 /\ IsWord(v) /\ ~IsOwned(v)
  /\ \A l \in Local, w \in Nat : LET v == Borrowed(l, w) IN
       v \in Value /\ ValueOK(v) /\ v.in = "borrowed" /\ v.at = l /\ v.word = w /\ v.high = 0 /\ IsWord(v)
       /\ ~IsOwned(v)
<1>1. Absent = [in |-> "absent", at |-> 0, high |-> 0, word |-> 0]
  BY DEF Absent
<1>2. Absent \in Value /\ ValueOK(Absent) /\ Absent.in = "absent" /\ Absent.high = 0 /\ ~IsOwned(Absent)
  BY <1>1 DEF Value, ValueOK, IsOwned
<1>3. ASSUME NEW w \in Nat
      PROVE  /\ InR1(w) \in Value /\ Immediate(w) \in Value
             /\ InR1(w).in = "R1" /\ InR1(w).high = 0 /\ InR1(w).word = w
             /\ Immediate(w).in = "immediate" /\ Immediate(w).high = 0 /\ Immediate(w).word = w
  BY DEF Absent, InR1, Immediate, Value
<1>4. ASSUME NEW w \in Nat, NEW l \in Local
      PROVE  /\ Borrowed(l, w) \in Value /\ Borrowed(l, w).in = "borrowed" /\ Borrowed(l, w).at = l
             /\ Borrowed(l, w).high = 0 /\ Borrowed(l, w).word = w
  BY DEF Absent, Borrowed, Value
<1>5. ASSUME NEW w \in Nat
      PROVE  LET v == InR1(w) IN
       v \in Value /\ ValueOK(v) /\ v.in = "R1" /\ v.word = w /\ v.high = 0 /\ IsWord(v) /\ ~IsOwned(v)
  BY <1>3 DEF Value, ValueOK, IsOwned, IsWord
<1>6. ASSUME NEW w \in Nat
      PROVE  LET v == Immediate(w) IN
       v \in Value /\ ValueOK(v) /\ v.in = "immediate" /\ v.word = w /\ v.high = 0 /\ IsWord(v) /\ ~IsOwned(v)
  BY <1>3 DEF Value, ValueOK, IsOwned, IsWord
<1>7. ASSUME NEW l \in Local, NEW w \in Nat
      PROVE  LET v == Borrowed(l, w) IN
       v \in Value /\ ValueOK(v) /\ v.in = "borrowed" /\ v.at = l /\ v.word = w /\ v.high = 0 /\ IsWord(v)
       /\ ~IsOwned(v)
  BY <1>4 DEF Value, ValueOK, IsOwned, IsWord
<1>8. QED
  BY <1>2, <1>5, <1>6, <1>7

\* reserve_value_slot: the slot of an operand of one word, or one on top.
LEMMA ReserveFacts ==
  ASSUME NEW c, NEW v, NEW b, OnTop(c, v, b), IsWord(v)
  PROVE  /\ SlotFor(c, v) = b + 1
         /\ Reserve(c, v) \in Emitted /\ Reserve(c, v).depth = b + 1 /\ SameWords(c, Reserve(c, v))
<1>1. c \in Emitted /\ b \in Nat /\ v.high = 0
  BY DEF OnTop, IsWord
<1>2. CASE IsOwned(v)
  BY <1>1, <1>2 DEF OnTop, SlotFor, Reserve, SameWords, Placed, After, Words
<1>3. CASE ~IsOwned(v)
  <2>1. c.depth = b /\ Reserve(c, v) = Allocate(c, 1) /\ SlotFor(c, v) = c.depth + 1
    BY <1>3 DEF OnTop, After, Reserve, SlotFor
  <2>2. /\ Allocate(c, 1) \in Emitted /\ Allocate(c, 1).depth = c.depth + 1
        /\ SameWords(c, Allocate(c, 1))
    BY <1>1, AllocateFacts
  <2>3. QED
    BY <1>1, <2>1, <2>2
<1>4. QED
  BY <1>2, <1>3

LEMMA ReservedFacts ==
  ASSUME NEW c, NEW v, NEW b, OnTop(c, v, b), IsWord(v)
  PROVE  LET u == Reserved(c, v) IN
         /\ u \in Value /\ ValueOK(u) /\ IsWord(u) /\ u.in = "owned" /\ IsOwned(u)
         /\ u.at = b + 1 /\ u.high = 0 /\ u.word = v.word /\ Placed(u, b) /\ After(u, b) = b + 1
<1>1. SlotFor(c, v) = b + 1 /\ b \in Nat /\ v.word \in Nat
  BY ReserveFacts DEF OnTop, ValueOK, Value
<1>2. CASE IsOwned(v)
  BY <1>2, <1>1 DEF OnTop, Reserved, ValueOK, IsOwned, IsWord, Placed, After, Words
<1>3. CASE ~IsOwned(v)
  <2>1. Reserved(c, v) = Owned(b + 1, v.word)
    BY <1>1, <1>3 DEF Reserved
  <2>2. QED
    BY <1>1, <2>1, OwnedType DEF Placed, After
<1>4. QED
  BY <1>2, <1>3

LEMMA MaterializeFacts ==
  ASSUME NEW c, NEW v, NEW b, OnTop(c, v, b), IsWord(v)
  PROVE  LET d == Materialize(c, v) IN
         /\ d \in Emitted /\ d.depth = b + 1 /\ Keeps(c, d, b) /\ d.exact = c.exact
         /\ Holds(c, v) => Holds(d, Reserved(c, v))
<1>1. c \in Emitted /\ b \in Nat /\ v.high = 0 /\ TempSlots \in Nat /\ Readable(v)
  BY OnTopReadable, OperandsAssumption DEF OnTop, IsWord
<1>2. CASE IsOwned(v)
  <2>1. Materialize(c, v) = c /\ Reserved(c, v) = v
    BY <1>2 DEF Materialize, Reserved
  <2>2. c.depth = b + 1
    BY <1>1, <1>2 DEF OnTop, After, Words
  <2>3. QED
    BY <1>1, <2>1, <2>2 DEF Keeps
<1>3. CASE ~IsOwned(v)
  <2> DEFINE loaded == Load(c, v)
             reserved == Reserve(loaded, v)
             d == Store(reserved, b + 1, loaded.r1)
  <2>1. Read(c, v) \in Nat
    BY <1>1, ReadType, EmittedFields
  <2>2. /\ loaded \in Emitted /\ loaded.depth = c.depth /\ loaded.slots = c.slots /\ loaded.locals = c.locals
        /\ loaded.wasm = c.wasm /\ loaded.r8 = c.r8 /\ loaded.exact = c.exact /\ loaded.r1 = Read(c, v)
    BY <1>1, <2>1, R1Facts DEF Load
  <2>3. Materialize(c, v) = d
    BY <1>3, ReserveFacts DEF Materialize
  <2>4. c.depth = b /\ b + 1 \in 1 .. TempSlots + 4
    BY <1>1, <1>3 DEF OnTop, After
  <2> HIDE DEF loaded
  <2>5. reserved \in Emitted /\ reserved.depth = b + 1 /\ SameWords(loaded, reserved)
    <3>1. reserved = Allocate(loaded, 1)
      BY <1>3 DEF Reserve
    <3>2. QED
      BY <2>2, <2>4, <3>1, AllocateFacts
  <2> HIDE DEF reserved
  <2>6. /\ d \in Emitted /\ d.depth = b + 1 /\ d.locals = c.locals /\ d.wasm = c.wasm /\ d.r8 = c.r8
        /\ d.exact = c.exact
        /\ \A s \in 1 .. TempSlots + 4 : d.slots[s] = IF s = b + 1 THEN Read(c, v) ELSE c.slots[s]
    BY <2>1, <2>2, <2>5, StoreFacts DEF SameWords
  <2> HIDE DEF d
  <2>7. Keeps(c, d, b)
    BY <1>1, <2>4, <2>6 DEF Keeps
  <2>8. ASSUME Holds(c, v)
        PROVE  Holds(d, Reserved(c, v))
    <3>1. /\ Reserved(c, v).in = "owned" /\ Reserved(c, v).at = b + 1 /\ Reserved(c, v).high = 0
          /\ Reserved(c, v).word = v.word
      BY ReservedFacts
    <3>2. d.slots[b + 1] = v.word
      BY <2>4, <2>6, <2>8 DEF Holds
    <3>3. QED
      BY <3>1, <3>2 DEF Holds, Read
  <2>9. QED
    BY <2>3, <2>6, <2>7, <2>8
<1>4. QED
  BY <1>2, <1>3

\* materialize_borrowed: what is kept can only be an immediate or in a slot.
LEMMA DurableFacts ==
  ASSUME NEW c, NEW v, NEW b, OnTop(c, v, b), IsWord(v), v.in # "R8"
  PROVE  LET d == MaterializeBorrowed(c, v)
             u == Durable(c, v) IN
         /\ d \in Emitted /\ Keeps(c, d, b) /\ d.exact = c.exact
         /\ u \in Value /\ ValueOK(u) /\ IsWord(u) /\ u.in \in {"immediate", "owned"} /\ u.word = v.word
         /\ Placed(u, b) /\ d.depth = After(u, b) /\ d.depth <= c.depth + 1
         /\ Holds(c, v) => Holds(d, u)
<1>1. /\ c \in Emitted /\ b \in Nat /\ v \in Value /\ ValueOK(v) /\ Placed(v, b)
      /\ c.depth = After(v, b) /\ c.depth \in Nat
      /\ v.in \in {"absent", "immediate", "borrowed", "R1", "R8", "owned"}
  BY EmittedFields DEF OnTop, ValueOK, Value
<1>2. CASE Transient(v)
  <2>1. MaterializeBorrowed(c, v) = Materialize(c, v) /\ Durable(c, v) = Reserved(c, v)
    BY <1>2 DEF MaterializeBorrowed, Durable
  <2>2. c.depth = b
    BY <1>1, <1>2 DEF Transient, After, IsOwned
  <2>3. QED
    BY <1>1, <2>1, <2>2, MaterializeFacts, ReservedFacts
<1>3. CASE ~Transient(v)
  <2>1. MaterializeBorrowed(c, v) = c /\ Durable(c, v) = v /\ v.in \in {"immediate", "owned"}
    BY <1>1, <1>3 DEF MaterializeBorrowed, Durable, Transient, IsWord
  <2>2. QED
    BY <1>1, <2>1 DEF Keeps
<1>4. QED
  BY <1>2, <1>3

\* An operand in R1 is saved before R1 gets another.
LEMMA SpilledFacts ==
  ASSUME NEW c, NEW v, NEW b, OnTop(c, v, b), IsWord(v)
  PROVE  LET d == IF v.in = "R1" THEN Materialize(c, v) ELSE c
             u == IF v.in = "R1" THEN Reserved(c, v) ELSE v IN
         /\ d \in Emitted /\ Keeps(c, d, b) /\ d.exact = c.exact
         /\ u \in Value /\ ValueOK(u) /\ IsWord(u) /\ u.in # "R1" /\ u.word = v.word
         /\ u.in = "borrowed" => v.in = "borrowed"
         /\ u.in = "R8" => v.in = "R8"
         /\ Placed(u, b) /\ d.depth = After(u, b) /\ d.depth <= c.depth + 1
         /\ Holds(c, v) => Holds(d, u)
<1>1. /\ c \in Emitted /\ b \in Nat /\ v \in Value /\ ValueOK(v) /\ Placed(v, b)
      /\ c.depth = After(v, b) /\ c.depth \in Nat
  BY EmittedFields DEF OnTop, ValueOK, Value
<1>2. CASE v.in = "R1"
  <2>1. c.depth = b
    BY <1>1, <1>2 DEF After, IsOwned
  <2>2. QED
    BY <1>1, <1>2, <2>1, MaterializeFacts, ReservedFacts
<1>3. CASE v.in # "R1"
  BY <1>1, <1>3 DEF Keeps
<1>4. QED
  BY <1>2, <1>3

\* The result w of an operation is left in R1, without its slot, or stored.
Leaves(c, d, v, w, b, retain) ==
  /\ d \in Emitted /\ Keeps(c, d, b) /\ d.exact = c.exact
  /\ d.depth = IF retain THEN c.depth - 1 ELSE c.depth
  /\ v \in Value /\ ValueOK(v) /\ IsWord(v) /\ v.in \in {"R1", "owned"} /\ (v.in = "R1" => retain)
  /\ IsOwned(v) <=> ~retain
  /\ Words(v) = 1
  /\ Placed(v, b) /\ v.word = w /\ Holds(d, v)

LEMMA LeaveFacts ==
  ASSUME NEW c \in Emitted, NEW w \in Nat, NEW b \in Nat, NEW slot, slot = b + 1,
         slot <= c.depth, slot <= TempSlots + 4, NEW retain \in BOOLEAN
  PROVE  Leaves(c, Leave(c, w, slot, retain), Left(w, slot, retain), w, b, retain)
<1> DEFINE d == Leave(c, w, slot, retain)
           v == Left(w, slot, retain)
<1>1. c.depth \in Nat /\ TempSlots \in Nat
  BY EmittedFields, OperandsAssumption
<1>2. CASE retain
  <2> DEFINE o == Owned(slot, w)
             e == Release(c, o)
  <2>1. o \in Value /\ IsOwned(o) /\ Words(o) = 1
    BY OwnedType
  <2>2. c.depth = After(o, c.depth - 1) /\ c.depth - 1 \in Nat
    BY <1>1, <2>1 DEF After
  <2>3. e \in Emitted /\ SameWords(c, e) /\ e.depth = c.depth - 1
    BY <2>1, <2>2, ReleaseTop
  <2>4. d = [e EXCEPT !.r1 = w] /\ v = InR1(w)
    BY <1>2 DEF Leave, Left
  <2> HIDE DEF e, d, v
  <2>5. /\ d \in Emitted /\ d.depth = e.depth /\ d.slots = e.slots /\ d.locals = e.locals
        /\ d.wasm = e.wasm /\ d.r8 = e.r8 /\ d.exact = e.exact /\ d.r1 = w
    BY <2>3, <2>4, R1Facts
  <2>6. v \in Value /\ ValueOK(v) /\ v.in = "R1" /\ v.word = w /\ v.high = 0 /\ IsWord(v) /\ ~IsOwned(v)
    BY <2>4, PlainType
  <2>7. Holds(d, v) /\ Words(v) = 1 /\ Placed(v, b)
    BY <2>5, <2>6 DEF Holds, Read, Words, Placed
  <2>8. Keeps(c, d, b) /\ d.exact = c.exact
    BY <2>3, <2>5 DEF Keeps, SameWords
  <2>9. Leaves(c, d, v, w, b, retain)
    BY <1>2, <2>3, <2>5, <2>6, <2>7, <2>8 DEF Leaves
  <2>10. QED
    BY <2>9 DEF d, v
<1>3. CASE ~retain
  <2> DEFINE e == [c EXCEPT !.r1 = w]
  <2>1. /\ e \in Emitted /\ e.depth = c.depth /\ e.slots = c.slots /\ e.locals = c.locals
        /\ e.wasm = c.wasm /\ e.r8 = c.r8 /\ e.exact = c.exact
    BY R1Facts
  <2>2. d = Store(e, slot, w) /\ v = Owned(slot, w)
    BY <1>3 DEF Leave, Left
  <2> HIDE DEF e, d, v
  <2>3. /\ d \in Emitted /\ d.depth = e.depth
        /\ \A s \in 1 .. TempSlots + 4 : d.slots[s] = IF s = slot THEN w ELSE e.slots[s]
        /\ d.locals = e.locals /\ d.wasm = e.wasm /\ d.r8 = e.r8 /\ d.exact = e.exact
    BY <2>1, <2>2, StoreFacts
  <2>4. /\ v \in Value /\ ValueOK(v) /\ v.in = "owned" /\ v.at = slot /\ v.high = 0 /\ v.word = w
        /\ IsOwned(v) /\ IsWord(v) /\ Words(v) = 1
    BY <2>2, OwnedType
  <2>5. Holds(d, v) /\ Placed(v, b)
    BY <1>1, <2>3, <2>4 DEF Holds, Read, Placed
  <2>6. Keeps(c, d, b)
    BY <1>1, <2>1, <2>3 DEF Keeps
  <2>7. Leaves(c, d, v, w, b, retain)
    BY <1>3, <2>1, <2>3, <2>4, <2>5, <2>6 DEF Leaves
  <2>8. QED
    BY <2>7 DEF d, v
<1>4. QED
  BY <1>2, <1>3

\* The same for results that are always stored.
Stores(c, d, v, w, b) ==
  /\ d \in Emitted /\ Keeps(c, d, b) /\ d.exact = c.exact /\ d.depth = c.depth
  /\ v \in Value /\ ValueOK(v) /\ IsWord(v) /\ v.in = "owned" /\ IsOwned(v) /\ Words(v) = 1
  /\ Placed(v, b) /\ After(v, b) = b + 1 /\ v.word = w /\ Holds(d, v)

LEMMA LeaveInSlotFacts ==
  ASSUME NEW c \in Emitted, NEW w \in Nat, NEW b \in Nat, NEW slot, slot = b + 1,
         slot <= c.depth, slot <= TempSlots + 4
  PROVE  Stores(c, Leave(c, w, slot, FALSE), Owned(slot, w), w, b)
<1>1. PICK retain \in BOOLEAN : retain = FALSE
  OBVIOUS
<1> DEFINE d == Leave(c, w, slot, retain)
           v == Left(w, slot, retain)
<1>2. d = Leave(c, w, slot, FALSE) /\ v = Owned(slot, w)
  BY <1>1 DEF Left
<1>3. /\ d \in Emitted /\ Keeps(c, d, b) /\ d.exact = c.exact
      /\ d.depth = IF retain THEN c.depth - 1 ELSE c.depth
      /\ Placed(v, b) /\ Holds(d, v)
  <2>1. Leaves(c, d, v, w, b, retain)
    BY LeaveFacts
  <2> HIDE DEF d, v
  <2>2. QED
    BY <2>1 DEF Leaves
<1>4. slot \in Nat
  OBVIOUS
<1>5. v \in Value /\ ValueOK(v) /\ IsWord(v) /\ v.in = "owned" /\ IsOwned(v) /\ Words(v) = 1 /\ v.word = w
  BY <1>2, <1>4, OwnedType
<1> HIDE DEF d, v
<1>6. Stores(c, d, v, w, b)
  BY <1>1, <1>3, <1>5 DEF Stores, After
<1>7. QED
  BY <1>2, <1>6

\* The result w of an i64 operation is stored in two slots.
LEMMA StorePairFacts ==
  ASSUME NEW c \in Emitted, NEW w \in Nat, NEW b \in Nat, NEW low, low = b + 1, NEW high, high = b + 2,
         high <= TempSlots + 4
  PROVE  LET d == StorePair(c, low, high, w)
             v == Pair(low, high, w) IN
         /\ d \in Emitted /\ d.depth = c.depth /\ Keeps(c, d, b) /\ d.exact = c.exact
         /\ v \in Value /\ ValueOK(v) /\ IsPair(v) /\ IsOwned(v) /\ v.in = "owned"
         /\ v.at = low /\ v.high = high
         /\ Placed(v, b) /\ After(v, b) = b + 2 /\ Words(v) = 2 /\ v.word = w /\ Holds(d, v)
<1> DEFINE v == Pair(low, high, w)
           e == [c EXCEPT !.r1 = w]
           f == Store(e, low, w)
           d == Store(f, high, w)
<1>1. TempSlots \in Nat
  BY OperandsAssumption
<1>2. /\ e \in Emitted /\ e.depth = c.depth /\ e.slots = c.slots /\ e.locals = c.locals
      /\ e.wasm = c.wasm /\ e.r8 = c.r8 /\ e.exact = c.exact
  BY R1Facts
<1> HIDE DEF e
<1>3. /\ f \in Emitted /\ f.depth = e.depth
      /\ \A s \in 1 .. TempSlots + 4 : f.slots[s] = IF s = low THEN w ELSE e.slots[s]
      /\ f.locals = e.locals /\ f.wasm = e.wasm /\ f.r8 = e.r8 /\ f.exact = e.exact
  BY <1>2, StoreFacts
<1> HIDE DEF f
<1>4. /\ d \in Emitted /\ d.depth = f.depth
      /\ \A s \in 1 .. TempSlots + 4 : d.slots[s] = IF s = high THEN w ELSE f.slots[s]
      /\ d.locals = f.locals /\ d.wasm = f.wasm /\ d.r8 = f.r8 /\ d.exact = f.exact
  BY <1>3, StoreFacts
<1> HIDE DEF d
<1>5. /\ v \in Value /\ ValueOK(v) /\ v.in = "owned" /\ v.at = low /\ v.high = high /\ v.word = w
      /\ IsOwned(v) /\ IsPair(v) /\ Words(v) = 2
  BY PairType
<1> HIDE DEF v
<1>6. Holds(d, v) /\ Placed(v, b) /\ After(v, b) = b + 2
  BY <1>1, <1>3, <1>4, <1>5 DEF Holds, Read, Placed, After
<1>7. Keeps(c, d, b)
  BY <1>1, <1>2, <1>3, <1>4 DEF Keeps
<1>8. d = StorePair(c, low, high, w)
  BY DEF d, e, f, StorePair
<1>9. QED
  BY <1>2, <1>3, <1>4, <1>5, <1>6, <1>7, <1>8 DEF v

\* Addresses and calls lose R1, calls R8 too.
LEMMA AddressFacts ==
  ASSUME NEW c \in Emitted, NEW v
  PROVE  LET d == Address(c, v) IN
         /\ d \in Emitted /\ d.depth = c.depth /\ d.slots = c.slots /\ d.locals = c.locals /\ d.wasm = c.wasm
         /\ d.r8 = c.r8
         /\ c.exact /\ Holds(c, v) => d.exact
<1> DEFINE u == Use(c, v)
<1>1. /\ u \in Emitted /\ u.depth = c.depth /\ u.slots = c.slots /\ u.locals = c.locals /\ u.wasm = c.wasm
      /\ u.r1 = c.r1 /\ u.r8 = c.r8 /\ (c.exact /\ Holds(c, v) => u.exact)
  BY UseFacts
<1>2. Address(c, v) = [u EXCEPT !.r1 = 0]
  BY DEF Address, Clobber
<1> HIDE DEF u
<1>3. QED
  BY <1>1, <1>2, R1Facts

LEMMA CallFacts ==
  ASSUME NEW c \in Emitted
  PROVE  LET d == Call(c) IN
         /\ d \in Emitted /\ d.depth = c.depth /\ d.slots = c.slots /\ d.locals = c.locals /\ d.wasm = c.wasm
         /\ d.exact = c.exact
<1> DEFINE d == Call(c)
<1>1. c \in Code /\ (c.depth <= TempSlots \/ c.depth <= c.peak)
  BY EmittedFields
<1>2. /\ d.depth = c.depth /\ d.peak = c.peak /\ d.slots = c.slots /\ d.locals = c.locals /\ d.wasm = c.wasm
      /\ d.exact = c.exact
  BY <1>1 DEF Code, Call
<1>3. d \in Code
  BY <1>1 DEF Code, Call
<1>4. QED
  BY <1>1, <1>2, <1>3 DEF Emitted

-----------------------------------------------------------------------------
(* Steps.                                                                   *)

\* What an expression that gives gives may leave for the one around it.
Suits(v, gives) ==
  /\ ValueOK(v) /\ v.in # "R8"
  /\ gives = "pair" => IsPair(v)
  /\ gives = "word" => IsWord(v)
  /\ gives \in {"none", "exit"} => v = Absent

\* f is g but for the word its label brings.
Alike(f, g) ==
  f.kind = g.kind /\ f.kept = g.kept /\ f.retain = g.retain /\ f.slot = g.slot /\ f.side = g.side

LEMMA AlikeFrames ==
  ASSUME NEW f \in Frame, NEW g \in Frame, Alike(f, g)
  PROVE  /\ FrameOK(g) => FrameOK(f)
         /\ Retains(f) = Retains(g) /\ Arm(f) = Arm(g) /\ Wanted(f) = Wanted(g)
         /\ \A k : Fits(k, f) = Fits(k, g)
         /\ \A b : FrameAt(f, b) = FrameAt(g, b) /\ FrameEnd(f, b) = FrameEnd(g, b)
<1>1. f.kind = g.kind /\ f.kept = g.kept /\ f.retain = g.retain /\ f.slot = g.slot /\ f.side = g.side
  BY DEF Alike
<1>2. FrameOK(g) => FrameOK(f)
  BY <1>1 DEF FrameOK, KeptAs
<1>3. Retains(f) = Retains(g) /\ Arm(f) = Arm(g) /\ Wanted(f) = Wanted(g)
  BY <1>1 DEF Retains, Arm, Wanted
<1>4. \A k : Fits(k, f) = Fits(k, g)
  BY <1>1 DEF Fits, Arm
<1>5. \A b : FrameAt(f, b) = FrameAt(g, b) /\ FrameEnd(f, b) = FrameEnd(g, b)
  BY <1>1 DEF FrameAt, FrameEnd
<1>6. QED
  BY <1>2, <1>3, <1>4, <1>5

\* The call that is on.
LEMMA TopFacts ==
  ASSUME NEW B, Layout(B)
  PROVE  /\ Index \in Nat /\ Index >= 1 /\ Top = frames[Index] /\ Top \in Frame /\ FrameOK(Top)
         /\ B[Index] \in Nat /\ B[Index + 1] \in Nat /\ B[Index] <= B[Index + 1]
         /\ FrameAt(Top, B[Index]) /\ B[Index + 1] = FrameEnd(Top, B[Index])
         /\ Index = 1 <=> Top.kind \in Roots
         /\ \A i \in 1 .. Index : frames[i] \in Frame /\ FrameOK(frames[i])
         /\ given = <<>> => code.depth = B[Index + 1]
         /\ given # <<>> => /\ given = <<Child>> /\ Child \in Value /\ GivenOK(Top, Child)
                            /\ ValueOK(Child) /\ Child.in # "R8"
                            /\ Placed(Child, B[Index + 1])
                            /\ code.depth = After(Child, B[Index + 1])
         /\ code \in Emitted /\ code.depth \in Nat /\ code.depth <= TempSlots
<1>1. Index \in Nat /\ Index >= 1 /\ Top = frames[Index] /\ Top \in Frame /\ FrameOK(Top)
  BY DEF Layout, Nested, Index, Top, Last
<1>2. B \in [Nat -> Nat] /\ B[Index] \in Nat /\ B[Index + 1] \in Nat /\ B[Index] <= B[Index + 1]
  <2>1. Chain(B, Index + 1) /\ Index \in 1 .. Index + 1 /\ Index + 1 \in 1 .. Index + 1
    BY <1>1 DEF Layout
  <2>2. QED
    BY <1>1, <2>1 DEF Chain
<1>3. FrameAt(Top, B[Index]) /\ B[Index + 1] = FrameEnd(Top, B[Index])
  BY <1>1 DEF Layout, Stacked, Index
<1>4. Index = 1 <=> Top.kind \in Roots
  <2>1. frames[1].kind \in Roots /\ \A i \in 2 .. Index : frames[i].kind \notin Roots
    BY DEF Layout, Nested, Index
  <2>2. Index # 1 => Index \in 2 .. Index
    BY <1>1
  <2>3. QED
    BY <1>1, <2>1, <2>2
<1>5. \A i \in 1 .. Index : frames[i] \in Frame /\ FrameOK(frames[i])
  BY DEF Layout, Nested, Index
<1>6. given = <<>> => code.depth = B[Index + 1]
  BY DEF Layout, Stacked, Index
<1>7. ASSUME given # <<>>
      PROVE  /\ given = <<Child>> /\ Child \in Value /\ GivenOK(Top, Child) /\ ValueOK(Child) /\ Child.in # "R8"
             /\ Placed(Child, B[Index + 1])
             /\ code.depth = After(Child, B[Index + 1])
  <2>1. given \in Seq(Value) /\ Len(given) = 1
    <3>1. given \in Seq(Value) /\ Len(given) <= 1 /\ Len(given) \in Nat
      BY DEF Layout
    <3>2. Len(given) # 0
      BY <1>7, <3>1
    <3>3. QED
      BY <3>1, <3>2
  <2>2. given = <<Child>> /\ Child \in Value
    BY <2>1 DEF Child
  <2>3. GivenOK(Top, Child) /\ ValueOK(Child) /\ Child.in # "R8"
    BY <1>7 DEF Layout, Child, GivenOK
  <2>4. Placed(Child, B[Index + 1]) /\ code.depth = After(Child, B[Index + 1])
    BY <1>7 DEF Layout, Stacked, Child, Index
  <2>5. QED
    BY <2>2, <2>3, <2>4
<1>8. code \in Emitted /\ code.depth \in Nat /\ code.depth <= TempSlots
  BY DEF Layout, Emitted, Code
<1>9. QED
  BY <1>1, <1>2, <1>3, <1>4, <1>5, <1>6, <1>7, <1>8

LEMMA FrontFacts ==
  ASSUME NEW B, Layout(B), Index >= 2
  PROVE  /\ Front(frames) \in Seq(Frame) /\ Len(Front(frames)) = Index - 1
         /\ \A i \in 1 .. Index - 1 : Front(frames)[i] = frames[i]
  BY TopFacts DEF Layout, Front, Index

\* A call returns v; labels may have been given a word.
LEMMA ReturnLayout ==
  ASSUME NEW B, Layout(B), Index >= 2,
         NEW fs \in Seq(Frame), Len(fs) = Index - 1, \A i \in 1 .. Index - 1 : Alike(fs[i], frames[i]),
         NEW v, Suits(v, Gives(Top.kind)), v.in = "R1" => Top.retain,
         Placed(v, B[Index])
  PROVE  Nested(fs) /\ GivenOK(Last(fs), v) /\ Stacked(fs, <<v>>, After(v, B[Index]), B) /\ Chain(B, Index)
<1> DEFINE n == Index - 1
<1>1. n \in Nat /\ n >= 1 /\ Index = n + 1 /\ Len(fs) = n
  BY TopFacts
<1> HIDE DEF n
<1>2. \A i \in 1 .. n : fs[i] \in Frame /\ frames[i] \in Frame /\ Alike(fs[i], frames[i])
  BY <1>1, TopFacts
<1>3. Nested(frames) /\ Stacked(frames, given, code.depth, B) /\ Chain(B, Index + 1) /\ Len(frames) = Index
  BY DEF Layout, Index
<1>4. Nested(fs)
  <2>1. fs # <<>> /\ fs[1].kind \in Roots
    BY <1>1, <1>2, <1>3 DEF Nested, Alike
  <2>2. \A i \in 1 .. n : FrameOK(fs[i])
    BY <1>1, <1>2, AlikeFrames, TopFacts
  <2>3. ASSUME NEW i \in 2 .. n
        PROVE  /\ fs[i].kind \notin Roots /\ Fits(fs[i].kind, fs[i - 1])
               /\ fs[i].retain = Retains(fs[i - 1]) /\ fs[i - 1].side # "constant"
    <3>1. i \in 1 .. n /\ i - 1 \in 1 .. n /\ i \in 2 .. Len(frames)
      BY <1>1, <1>3
    <3>2. /\ frames[i].kind \notin Roots /\ Fits(frames[i].kind, frames[i - 1])
          /\ frames[i].retain = Retains(frames[i - 1]) /\ frames[i - 1].side # "constant"
      BY <1>3, <3>1 DEF Nested
    <3>3. fs[i].kind = frames[i].kind /\ fs[i].retain = frames[i].retain /\ fs[i - 1].side = frames[i - 1].side
      BY <1>2, <3>1 DEF Alike
    <3>4. Retains(fs[i - 1]) = Retains(frames[i - 1]) /\ Fits(frames[i].kind, fs[i - 1]) = Fits(frames[i].kind, frames[i - 1])
      BY <1>2, <3>1, AlikeFrames
    <3>5. QED
      BY <3>2, <3>3, <3>4
  <2>4. QED
    BY <1>1, <2>1, <2>2, <2>3 DEF Nested
<1>5. GivenOK(Last(fs), v)
  <2> DEFINE f == frames[n]
  <2>1. Last(fs) = fs[n] /\ n \in 1 .. n
    BY <1>1 DEF Last
  <2>2. Retains(fs[n]) = Retains(f) /\ Arm(fs[n]) = Arm(f) /\ Wanted(fs[n]) = Wanted(f) /\ fs[n].side = f.side
    BY <1>2, <2>1, AlikeFrames DEF Alike
  <2>3. Fits(Top.kind, f) /\ Top.retain = Retains(f) /\ f.side # "constant"
    <3>1. Index \in 2 .. Len(frames) /\ Index - 1 = n /\ Top = frames[Index]
      BY <1>1, <1>3, TopFacts
    <3>2. QED
      BY <1>3, <3>1 DEF Nested
  <2>4. Gives(Top.kind) = Wanted(f) \/ (Gives(Top.kind) = "exit" /\ Arm(f))
    BY <2>3 DEF Fits, Wanted
  <2>5. Arm(f) => Wanted(f) \in {"word", "none"}
    <3>1. f \in Frame /\ FrameOK(f)
      BY <1>1, TopFacts
    <3> HIDE DEF f
    <3>2. f.kept \in Seq(Value) /\ Len(f.kept) < Len(Children(f.kind))
      BY ONLY <3>1 DEF FrameOK, Frame
    <3>3. f.kept # <<>> => Len(f.kept) >= 1
      BY ONLY <3>2
    <3> DEFINE k == Len(f.kept)
    <3>4. /\ Children("block") = <<"none", "word">> /\ Children("scope") = <<"none", "none">>
          /\ Children("if") = <<"word", "none">> /\ Children("ifelse") = <<"word", "word", "word">>
      BY ChildrenOf
    <3>5. \A s \in {"block", "scope", "if"} : Len(Children(s)) = 2 /\ Children(s)[2] \in {"word", "none"}
      BY ONLY <3>4
    <3>6. Len(Children("ifelse")) = 3 /\ \A i \in {2, 3} : Children("ifelse")[i] = "word"
      BY ONLY <3>4
    <3>7. Wanted(f) = Children(f.kind)[k + 1] /\ k \in Nat /\ k < Len(Children(f.kind))
      BY <3>2 DEF Wanted
    <3>8. Arm(f) => \/ f.kind \in {"block", "scope"} /\ k = 1
                    \/ f.kind \in {"if", "ifelse"} /\ k >= 1
      BY <3>3 DEF Arm
    <3> HIDE DEF k
    <3>9. ASSUME Arm(f)
          PROVE  Wanted(f) \in {"word", "none"}
      <4>1. CASE f.kind \in {"block", "scope", "if"}
        <5>1. k = 1
          BY ONLY <3>5, <3>7, <3>8, <3>9, <4>1
        <5>2. QED
          BY ONLY <3>5, <3>7, <4>1, <5>1
      <4>2. CASE f.kind = "ifelse"
        <5>1. k + 1 \in {2, 3}
          BY ONLY <3>6, <3>7, <3>8, <3>9, <4>2
        <5>2. QED
          BY ONLY <3>6, <3>7, <4>2, <5>1
      <4>3. QED
        BY ONLY <3>8, <3>9, <4>1, <4>2
    <3>10. QED
      BY <3>9
  <2>6. QED
    BY <2>1, <2>2, <2>3, <2>4, <2>5 DEF GivenOK, Suits
<1>6. Stacked(fs, <<v>>, After(v, B[Index]), B)
  <2>1. \A i \in 1 .. n : FrameAt(fs[i], B[i]) /\ B[i + 1] = FrameEnd(fs[i], B[i])
    <3>1. \A i \in 1 .. n : i \in 1 .. Len(frames)
      BY <1>1, <1>3
    <3>2. \A i \in 1 .. n : FrameAt(frames[i], B[i]) /\ B[i + 1] = FrameEnd(frames[i], B[i])
      BY <1>3, <3>1 DEF Stacked
    <3>3. QED
      BY <1>2, <3>2, AlikeFrames
  <2>2. B[1] = 0 /\ <<v>> # <<>> /\ <<v>>[1] = v
    BY <1>3 DEF Stacked
  <2>3. QED
    BY <1>1, <2>1, <2>2 DEF Stacked
<1>7. Chain(B, Index)
  <2>1. \A k \in 1 .. Index : k \in 1 .. Index + 1
    BY <1>1
  <2>2. QED
    BY <1>3, <2>1 DEF Chain
<1>8. QED
  BY <1>4, <1>5, <1>6, <1>7

LEMMA FrameEndType ==
  ASSUME NEW f \in Frame, FrameOK(f), NEW b \in Nat
  PROVE  FrameEnd(f, b) \in Nat /\ FrameEnd(f, b) >= b
<1>1. \A v \in Value, c \in Nat : After(v, c) \in Nat /\ After(v, c) >= c
  BY WordsType DEF After
<1>2. f.kept \in Seq(Value) /\ Len(f.kept) \in 0 .. 2
  <2>1. f.kind \in Kind /\ f.kept \in Seq(Value) /\ Len(f.kept) \in Nat
    BY DEF Frame
  <2>2. Len(f.kept) < Len(Children(f.kind)) /\ Len(Children(f.kind)) \in 0 .. 3
    BY <2>1, ChildrenType DEF FrameOK
  <2>3. \A m \in Nat, n \in 0 .. 3 : m < n => m \in 0 .. 2
    OBVIOUS
  <2>4. QED
    BY <2>1, <2>2, <2>3
<1>3. CASE f.slot # 0
  BY <1>3 DEF FrameEnd
<1>4. CASE f.slot = 0 /\ Len(f.kept) = 0
  BY <1>4 DEF FrameEnd
<1>5. CASE f.slot = 0 /\ Len(f.kept) = 1
  <2>1. f.kept[1] \in Value
    BY <1>2, <1>5
  <2>2. QED
    BY <1>1, <1>5, <2>1 DEF FrameEnd
<1>6. CASE f.slot = 0 /\ Len(f.kept) = 2
  <2>1. f.kept[1] \in Value /\ f.kept[2] \in Value
    BY <1>2, <1>6
  <2>2. After(f.kept[1], b) \in Nat /\ After(f.kept[1], b) >= b
    BY <1>1, <2>1
  <2>3. After(f.kept[2], After(f.kept[1], b)) \in Nat /\ After(f.kept[2], After(f.kept[1], b)) >= After(f.kept[1], b)
    BY <1>1, <2>1, <2>2
  <2>4. QED
    BY <1>6, <2>2, <2>3 DEF FrameEnd
<1>7. QED
  BY <1>2, <1>3, <1>4, <1>5, <1>6

LEMMA ChainExtended ==
  ASSUME NEW B, NEW n \in Nat, n >= 1, Chain(B, n), NEW m \in Nat, m >= B[n]
  PROVE  Chain([B EXCEPT ![n + 1] = m], n + 1)
<1> DEFINE C == [B EXCEPT ![n + 1] = m]
<1>1. B \in [Nat -> Nat] /\ n + 1 \in Nat
  BY DEF Chain
<1>2. C \in [Nat -> Nat] /\ C[n + 1] = m /\ \A i \in 1 .. n : C[i] = B[i]
  BY <1>1
<1>3. \A i \in 1 .. n : B[i] <= B[n]
  BY DEF Chain
<1> HIDE DEF C
<1>4. ASSUME NEW i \in 1 .. n + 1, NEW j \in 1 .. n + 1, i <= j
      PROVE  C[i] <= C[j]
  <2>1. CASE j \in 1 .. n
    BY <1>2, <1>4, <2>1 DEF Chain
  <2>2. CASE j = n + 1 /\ i \in 1 .. n
    BY <1>1, <1>2, <1>3, <2>2
  <2>3. CASE j = n + 1 /\ i = n + 1
    BY <1>2, <2>3
  <2>4. QED
    BY <2>1, <2>2, <2>3
<1>5. ASSUME NEW k \in 1 .. n + 1, NEW s \in 1 .. C[k]
      PROVE  \E i \in 1 .. k - 1 : C[i] < s /\ s <= C[i + 1]
  <2>1. CASE k \in 1 .. n
    <3>1. PICK i \in 1 .. k - 1 : B[i] < s /\ s <= B[i + 1]
      BY <1>2, <1>5, <2>1 DEF Chain
    <3>2. i \in 1 .. n /\ i + 1 \in 1 .. n
      BY <2>1
    <3>3. QED
      BY <1>2, <3>1, <3>2
  <2>2. CASE k = n + 1 /\ s <= B[n]
    <3>1. n \in 1 .. n /\ s \in 1 .. B[n]
      BY <1>1, <1>2, <1>5, <2>2
    <3>2. PICK i \in 1 .. n - 1 : B[i] < s /\ s <= B[i + 1]
      BY <3>1 DEF Chain
    <3>3. i \in 1 .. n /\ i + 1 \in 1 .. n /\ i \in 1 .. k - 1
      BY <2>2
    <3>4. QED
      BY <1>2, <3>2, <3>3
  <2>3. CASE k = n + 1 /\ ~(s <= B[n])
    <3>1. n \in 1 .. k - 1 /\ C[n] < s /\ s <= C[n + 1]
      BY <1>1, <1>2, <1>5, <2>3
    <3>2. QED
      BY <3>1
  <2>4. QED
    BY <2>1, <2>2, <2>3
<1>6. QED
  BY <1>2, <1>4, <1>5 DEF Chain, C

LEMMA ChainShorter ==
  ASSUME NEW B, NEW n \in Nat, Chain(B, n + 1)
  PROVE  Chain(B, n)
<1>1. \A k \in 1 .. n : k \in 1 .. n + 1
  OBVIOUS
<1>2. QED
  BY <1>1 DEF Chain

\* The call that is on becomes g.
LEMMA KeepLayout ==
  ASSUME NEW B, Layout(B), NEW g \in Frame, FrameOK(g), g.kind = Top.kind, g.retain = Top.retain,
         FrameAt(g, B[Index])
  PROVE  /\ Replaced(g) \in Seq(Frame) /\ Len(Replaced(g)) = Index
         /\ \A i \in 1 .. Index : Replaced(g)[i] = IF i = Index THEN g ELSE frames[i]
         /\ Nested(Replaced(g))
         /\ \E C : /\ \A i \in 1 .. Index : C[i] = B[i]
                   /\ Stacked(Replaced(g), <<>>, FrameEnd(g, B[Index]), C) /\ Chain(C, Index + 1)
<1> DEFINE fs == Replaced(g)
           e == FrameEnd(g, B[Index])
           C == [B EXCEPT ![Index + 1] = e]
<1>1. /\ Index \in Nat /\ Index >= 1 /\ Top = frames[Index] /\ B[Index] \in Nat
      /\ \A i \in 1 .. Index : frames[i] \in Frame /\ FrameOK(frames[i])
  BY TopFacts
<1>2. Nested(frames) /\ Stacked(frames, given, code.depth, B) /\ Chain(B, Index + 1) /\ Len(frames) = Index
      /\ frames \in Seq(Frame)
  BY DEF Layout, Index
<1>3. fs \in Seq(Frame) /\ Len(fs) = Index /\ \A i \in 1 .. Index : fs[i] = IF i = Index THEN g ELSE frames[i]
  BY <1>1, <1>2 DEF Replaced, ReplaceAt
<1> HIDE DEF fs
<1>4. Nested(fs)
  <2>1. fs # <<>> /\ fs[1].kind \in Roots /\ \A i \in 1 .. Index : FrameOK(fs[i])
    <3>1. fs[1].kind = frames[1].kind /\ fs # <<>>
      BY <1>1, <1>3
    <3>2. QED
      BY <1>1, <1>2, <1>3, <3>1 DEF Nested
  <2>2. ASSUME NEW i \in 2 .. Index
        PROVE  /\ fs[i].kind \notin Roots /\ Fits(fs[i].kind, fs[i - 1])
               /\ fs[i].retain = Retains(fs[i - 1]) /\ fs[i - 1].side # "constant"
    <3>1. fs[i].kind = frames[i].kind /\ fs[i].retain = frames[i].retain /\ fs[i - 1] = frames[i - 1]
      BY <1>1, <1>3
    <3>2. QED
      BY <1>2, <3>1 DEF Nested
  <2>3. QED
    BY <1>3, <2>1, <2>2 DEF Nested
<1>5. e \in Nat /\ e >= B[Index]
  BY <1>1, FrameEndType
<1> HIDE DEF e
<1>6. Chain(C, Index + 1)
  <2>1. Chain(B, Index)
    BY <1>1, <1>2, ChainShorter
  <2>2. QED
    BY <1>1, <1>5, <2>1, ChainExtended
<1>7. B \in [Nat -> Nat] /\ (\A i \in 1 .. Index : C[i] = B[i]) /\ C[Index + 1] = e
  <2>1. B \in [Nat -> Nat] /\ Index + 1 \in Nat /\ \A i \in 1 .. Index : i \in Nat /\ i # Index + 1
    BY <1>1, <1>2 DEF Chain
  <2>2. QED
    BY <2>1
<1> HIDE DEF C
<1>8. Stacked(fs, <<>>, e, C)
  <2>1. C[1] = 0
    BY <1>1, <1>2, <1>7, SMTT(60) DEF Stacked
  <2>2. ASSUME NEW i \in 1 .. Index
        PROVE  FrameAt(fs[i], C[i]) /\ C[i + 1] = FrameEnd(fs[i], C[i])
    <3>1. CASE i = Index
      BY <1>1, <1>3, <1>7, <3>1 DEF e
    <3>2. CASE i # Index
      <4>1. i \in 1 .. Index /\ i + 1 \in 1 .. Index
        BY <1>1, <3>2
      <4>2. fs[i] = frames[i] /\ C[i] = B[i] /\ C[i + 1] = B[i + 1]
        BY <1>1, <1>3, <1>7, <3>2, <4>1
      <4>3. QED
        BY <1>2, <4>1, <4>2 DEF Stacked
    <3>3. QED
      BY <3>1, <3>2
  <2>3. QED
    BY <1>3, <1>7, <2>1, <2>2 DEF Stacked
<1>9. QED
  BY <1>3, <1>4, <1>6, <1>7, <1>8 DEF fs, e

\* A call g is entered for the next child of the one that is on.
LEMMA PushLayout ==
  ASSUME NEW B, Layout(B), NEW g \in Frame, FrameOK(g), g.kind \notin Roots, Fits(g.kind, Top),
         g.retain = Retains(Top), Top.side # "constant", FrameAt(g, B[Index + 1])
  PROVE  LET fs == Append(frames, g) IN
         /\ fs \in Seq(Frame) /\ Len(fs) = Index + 1 /\ fs[Index + 1] = g
         /\ \A i \in 1 .. Index : fs[i] = frames[i]
         /\ Nested(fs)
         /\ \E C : /\ \A i \in 1 .. Index + 1 : C[i] = B[i]
                   /\ Stacked(fs, <<>>, FrameEnd(g, B[Index + 1]), C) /\ Chain(C, Index + 2)
<1> DEFINE fs == Append(frames, g)
           e == FrameEnd(g, B[Index + 1])
           C == [B EXCEPT ![Index + 2] = e]
<1>1. /\ Index \in Nat /\ Index >= 1 /\ Top = frames[Index] /\ B[Index + 1] \in Nat
      /\ \A i \in 1 .. Index : frames[i] \in Frame /\ FrameOK(frames[i])
  BY TopFacts
<1>2. Nested(frames) /\ Stacked(frames, given, code.depth, B) /\ Chain(B, Index + 1) /\ Len(frames) = Index
      /\ frames \in Seq(Frame)
  BY DEF Layout, Index
<1>3. /\ fs \in Seq(Frame) /\ Len(fs) = Index + 1 /\ fs[Index + 1] = g
      /\ \A i \in 1 .. Index : fs[i] = frames[i]
  BY <1>1, <1>2
<1> HIDE DEF fs
<1>4. Nested(fs)
  <2>1. fs # <<>> /\ fs[1].kind \in Roots /\ \A i \in 1 .. Index + 1 : FrameOK(fs[i])
    BY <1>1, <1>2, <1>3 DEF Nested
  <2>2. ASSUME NEW i \in 2 .. Index + 1
        PROVE  /\ fs[i].kind \notin Roots /\ Fits(fs[i].kind, fs[i - 1])
               /\ fs[i].retain = Retains(fs[i - 1]) /\ fs[i - 1].side # "constant"
    <3>1. CASE i = Index + 1
      BY <1>1, <1>3, <3>1
    <3>2. CASE i \in 2 .. Index
      <4>1. fs[i] = frames[i] /\ fs[i - 1] = frames[i - 1]
        BY <1>1, <1>3, <3>2
      <4>2. QED
        BY <1>2, <3>2, <4>1 DEF Nested
    <3>3. QED
      BY <1>1, <3>1, <3>2
  <2>3. QED
    BY <1>3, <2>1, <2>2 DEF Nested
<1>5. e \in Nat /\ e >= B[Index + 1]
  BY <1>1, FrameEndType
<1> HIDE DEF e
<1>6. Chain(C, Index + 2)
  <2>1. Index + 1 \in Nat /\ Index + 1 >= 1 /\ (Index + 1) + 1 = Index + 2
    BY <1>1
  <2>2. Chain([B EXCEPT ![(Index + 1) + 1] = e], (Index + 1) + 1)
    BY <1>2, <1>5, <2>1, ChainExtended
  <2>3. QED
    BY <2>1, <2>2
<1>7. B \in [Nat -> Nat] /\ (\A i \in 1 .. Index + 1 : C[i] = B[i]) /\ C[Index + 2] = e
  BY <1>1, <1>2, SMTT(60) DEF Chain
<1> HIDE DEF C
<1>8. Stacked(fs, <<>>, e, C)
  <2>1. C[1] = 0
    <3>1. 1 \in 1 .. Index + 1 /\ B[1] = 0
      BY <1>1, <1>2 DEF Stacked
    <3>2. QED
      BY <1>7, <3>1
  <2>2. ASSUME NEW i \in 1 .. Index + 1
        PROVE  FrameAt(fs[i], C[i]) /\ C[i + 1] = FrameEnd(fs[i], C[i])
    <3>1. CASE i = Index + 1
      <4>1. i + 1 = Index + 2
        BY <1>1, <3>1
      <4>2. QED
        BY <1>1, <1>3, <1>7, <3>1, <4>1 DEF e
    <3>2. CASE i \in 1 .. Index
      <4>1. i \in 1 .. Index /\ i + 1 \in 1 .. Index + 1
        BY <1>1, <3>2
      <4>2. fs[i] = frames[i] /\ C[i] = B[i] /\ C[i + 1] = B[i + 1]
        BY <1>1, <1>3, <1>7, <3>2, <4>1
      <4>3. QED
        BY <1>2, <4>1, <4>2 DEF Stacked
    <3>3. QED
      BY <1>1, <3>1, <3>2
  <2>3. Len(fs) + 1 = Index + 2
    BY <1>1, <1>3
  <2>4. QED
    BY <1>3, <1>7, <2>1, <2>2, <2>3 DEF Stacked
<1>9. QED
  BY <1>3, <1>4, <1>6, <1>7, <1>8 DEF fs, e

\* Operands of a call lie above what was there when it began.
LEMMA KeptPlaced ==
  ASSUME NEW f \in Frame, FrameOK(f), NEW b \in Nat, FrameAt(f, b), NEW n \in DOMAIN f.kept, IsOwned(f.kept[n])
  PROVE  /\ f.kept[n].at \in b + 1 .. FrameEnd(f, b)
         /\ f.kept[n].high # 0 => f.kept[n].high \in b + 1 .. FrameEnd(f, b)
<1>1. f.kept \in Seq(Value) /\ Len(f.kept) \in 0 .. 2
  <2>1. f.kind \in Kind /\ f.kept \in Seq(Value) /\ Len(f.kept) \in Nat
    BY DEF Frame
  <2>2. Len(f.kept) < Len(Children(f.kind)) /\ Len(Children(f.kind)) \in 0 .. 3
    BY <2>1, ChildrenType DEF FrameOK
  <2>3. \A m \in Nat, k \in 0 .. 3 : m < k => m \in 0 .. 2
    OBVIOUS
  <2>4. QED
    BY <2>1, <2>2, <2>3
<1>2. n \in 1 .. Len(f.kept) /\ f.kept[n] \in Value
  BY <1>1
<1>3. \A v \in Value, c \in Nat :
        /\ After(v, c) \in Nat /\ After(v, c) >= c
        /\ IsOwned(v) /\ Placed(v, c) => v.at \in c + 1 .. After(v, c) /\ (v.high # 0 => v.high \in c + 1 .. After(v, c))
  BY DEF After, Placed, Words, Value
<1>4. CASE f.slot # 0
  BY <1>2, <1>4 DEF FrameAt, FrameEnd, Placed
<1>5. CASE f.slot = 0 /\ Len(f.kept) = 1
  BY <1>2, <1>3, <1>5 DEF FrameAt, FrameEnd
<1>6. CASE f.slot = 0 /\ Len(f.kept) = 2
  <2> DEFINE c == After(f.kept[1], b)
             e == After(f.kept[2], c)
  <2>1. f.kept[1] \in Value /\ f.kept[2] \in Value
    BY <1>1, <1>6
  <2>2. c \in Nat /\ c >= b
    BY <1>3, <2>1
  <2>3. Placed(f.kept[1], b) /\ Placed(f.kept[2], c) /\ FrameEnd(f, b) = e
    BY <1>6 DEF FrameAt, FrameEnd
  <2> HIDE DEF c
  <2>4. e \in Nat /\ e >= c
    BY <1>3, <2>1, <2>2
  <2> HIDE DEF e
  <2>5. CASE n = 1
    <3>1. f.kept[1].at \in b + 1 .. c /\ (f.kept[1].high # 0 => f.kept[1].high \in b + 1 .. c)
      BY <1>3, <2>1, <2>3, <2>5 DEF c
    <3>2. QED
      BY <2>2, <2>3, <2>4, <2>5, <3>1
  <2>6. CASE n = 2
    <3>1. f.kept[2].at \in c + 1 .. e /\ (f.kept[2].high # 0 => f.kept[2].high \in c + 1 .. e)
      BY <1>3, <2>1, <2>2, <2>3, <2>6 DEF e
    <3>2. QED
      BY <2>2, <2>3, <2>4, <2>6, <3>1
  <2>7. QED
    BY <1>2, <1>6, <2>5, <2>6
<1>7. QED
  BY <1>1, <1>2, <1>4, <1>5, <1>6

LEMMA AbsentHolds ==
  ASSUME NEW c
  PROVE  Holds(c, Absent)
  BY PlainType DEF Holds, Read, Absent

LEMMA HoldsSame ==
  ASSUME NEW c, NEW d, SameWords(c, d), NEW v
  PROVE  Holds(c, v) = Holds(d, v)
  BY DEF SameWords, Holds, Read

LEMMA ExactSame ==
  ASSUME NEW c, NEW d, SameWords(c, d), NEW fs, NEW gives, NEW to, Exact(c, fs, gives, to)
  PROVE  Exact(d, fs, gives, to)
<1>1. \A v : Holds(c, v) = Holds(d, v)
  BY HoldsSame
<1>2. d.locals = c.locals /\ d.wasm = c.wasm /\ d.slots = c.slots
  BY DEF SameWords
<1>3. QED
  BY <1>1, <1>2 DEF Exact

\* The first m calls have what they keep, and c changes nothing that they need.
HeldTo(c, m) == \A i \in 1 .. m : \A n \in DOMAIN frames[i].kept : Holds(c, frames[i].kept[n])
SlotsKept(c, d, s) == \A k \in 1 .. s : d.slots[k] = c.slots[k]
Undisturbed(c, d, m) ==
  d.r8 = c.r8 \/ \A i \in 1 .. m : ~(frames[i].kind = "twoport" /\ Len(frames[i].kept) = 1)

\* What calls below the one that is on keep stays while the code leaves their
\* slots alone, and R8 where one of them waits for it.
LEMMA StillHeld ==
  ASSUME NEW B, Layout(B), NEW m \in 0 .. Index - 1, NEW c, NEW d,
         HeldTo(c, m), SlotsKept(c, d, B[m + 1]), Undisturbed(c, d, m)
  PROVE  HeldTo(d, m)
<1>0. /\ \A s \in 1 .. B[m + 1] : d.slots[s] = c.slots[s]
      /\ d.r8 = c.r8 \/ \A i \in 1 .. m : ~(frames[i].kind = "twoport" /\ Len(frames[i].kept) = 1)
      /\ \A i \in 1 .. m : \A n \in DOMAIN frames[i].kept : Holds(c, frames[i].kept[n])
  BY DEF HeldTo, SlotsKept, Undisturbed
<1> SUFFICES ASSUME NEW i \in 1 .. m, NEW n \in DOMAIN frames[i].kept
             PROVE  Holds(d, frames[i].kept[n])
  BY DEF HeldTo
<1> DEFINE f == frames[i]
           v == f.kept[n]
<1>1. Index \in Nat /\ i \in 1 .. Index /\ i + 1 \in 2 .. Index /\ m + 1 \in 1 .. Index + 1 /\ i + 1 \in 1 .. Index + 1
  BY TopFacts
<1>2. f \in Frame /\ FrameOK(f) /\ f.side # "constant"
  <2>1. f \in Frame /\ FrameOK(f)
    BY <1>1, TopFacts
  <2>2. frames[(i + 1) - 1].side # "constant"
    BY <1>1 DEF Layout, Nested, Index
  <2>3. QED
    BY <1>1, <2>1, <2>2
<1>3. FrameAt(f, B[i]) /\ B[i + 1] = FrameEnd(f, B[i]) /\ B[i] \in Nat /\ B[i + 1] \in Nat /\ B[m + 1] \in Nat
      /\ B[i + 1] <= B[m + 1]
  <2>1. FrameAt(f, B[i]) /\ B[i + 1] = FrameEnd(f, B[i])
    BY <1>1 DEF Layout, Stacked, Index
  <2>2. Chain(B, Index + 1) /\ i \in Nat /\ i + 1 \in Nat /\ m + 1 \in Nat /\ i + 1 <= m + 1
    BY <1>1 DEF Layout
  <2>3. QED
    BY <1>1, <2>1, <2>2 DEF Chain
<1>4. Holds(c, v) /\ ValueOK(v) /\ v \in Value
  BY <1>0, <1>2 DEF FrameOK, ValueOK
<1>5. CASE v.in = "owned"
  <2>1. v.at \in B[i] + 1 .. B[i + 1] /\ (v.high # 0 => v.high \in B[i] + 1 .. B[i + 1])
    BY <1>2, <1>3, <1>5, KeptPlaced DEF IsOwned
  <2>2. v.at \in 1 .. B[m + 1] /\ (v.high # 0 => v.high \in 1 .. B[m + 1])
    BY <1>3, <2>1
  <2>3. d.slots[v.at] = c.slots[v.at] /\ (v.high # 0 => d.slots[v.high] = c.slots[v.high])
    BY <1>0, <2>2
  <2>4. QED
    BY <1>4, <1>5, <2>3 DEF Holds, Read
<1>6. CASE v.in # "owned"
  <2>1. CASE v = Absent
    BY <2>1, AbsentHolds
  <2>2. CASE v # Absent
    <3>1. KeptAs(f, n)
      BY <1>2, <2>2 DEF FrameOK
    <3>2. v.in \in {"immediate", "R8"} /\ v.high = 0 /\ (v.in = "R8" => f.kind = "twoport")
      BY <1>2, <1>4, <1>6, <3>1 DEF KeptAs, IsPair, IsWord, Value
    <3>3. f.kind = "twoport" => Len(f.kept) = 1
      <4>1. f.kept \in Seq(Value) /\ n \in 1 .. Len(f.kept)
        BY <1>2 DEF Frame
      <4>2. Len(Children("twoport")) = 2
        <5>1. Children("twoport") = <<"word", "word">>
          BY ChildrenOf
        <5>2. QED
          BY <5>1
      <4>3. f.kind = "twoport" => Len(f.kept) < 2
        BY <1>2, <4>2 DEF FrameOK
      <4>4. \A k \in Nat : k < 2 /\ n \in 1 .. k => k = 1
        OBVIOUS
      <4>5. Len(f.kept) \in Nat
        BY <4>1
      <4>6. QED
        BY <4>1, <4>3, <4>4, <4>5
    <3>4. v.in = "R8" => d.r8 = c.r8
      BY <1>0, <3>2, <3>3
    <3>5. QED
      BY <1>4, <3>2, <3>4 DEF Holds, Read
  <2>3. QED
    BY <2>1, <2>2
<1>7. QED
  BY <1>5, <1>6

\* The lowering goes on, or the temporaries are used up.
LEMMA EmitStep ==
  ASSUME NEW B, Layout(B), Special = {} => Correct, verdict = "lowering",
         NEW c \in Emitted, NEW fs \in Seq(Frame), NEW gives \in Seq(Value), NEW to \in 0 .. Len(fs),
         to # NoOne => fs[to].kind \in Structured \cup Roots,
         Emit(c, fs, gives, to), nodes' \in 0 .. Size,
         Nested(fs), Len(gives) <= 1, gives # <<>> => GivenOK(Last(fs), gives[1]),
         \E C : Stacked(fs, gives, c.depth, C) /\ Chain(C, Len(fs) + 1),
         Special = {} => LET d == IF Runs THEN c ELSE code IN
                           d.exact /\ Exact(d, fs, gives, to) /\ Ordinary(fs, gives)
  PROVE  IInv'
<1>1. CASE c.peak > TempSlots
  <2>1. /\ verdict' = "refused" /\ frames' = <<>> /\ given' = <<>>
        /\ menu' = menu /\ code' = code /\ skip' = skip
    BY <1>1 DEF Emit
  <2>2. menu \in Menus /\ code \in Code /\ (Special = {} => code.exact)
    BY DEF Layout, Correct
  <2>3. QED
    BY <2>1, <2>2 DEF IInv, Finished
<1>2. CASE ~(c.peak > TempSlots)
  <2> DEFINE d == IF Runs THEN [c EXCEPT !.peak = 0] ELSE [code EXCEPT !.depth = c.depth]
             e == IF Runs THEN c ELSE code
  <2>1. code' = d /\ frames' = fs /\ given' = gives /\ skip' = to /\ menu' = menu /\ verdict' = verdict
    BY <1>2 DEF Emit
  <2>2. c \in Code /\ c.depth \in Nat /\ c.peak \in Nat /\ c.depth <= TempSlots /\ TempSlots \in Nat
    BY <1>2, EmittedFields, OperandsAssumption
  <2>3. code \in Code /\ code.peak = 0 /\ menu \in Menus
    BY DEF Layout
  <2>4. d \in Code /\ d.depth = c.depth /\ d.peak = 0 /\ SameWords(e, d)
    <3>1. CASE Runs
      BY <2>2, <3>1 DEF Code, SameWords
    <3>2. CASE ~Runs
      BY <2>2, <2>3, <3>2 DEF Code, SameWords
    <3>3. QED
      BY <3>1, <3>2
  <2> HIDE DEF d, e
  <2>5. Special = {} => d.exact /\ Exact(d, fs, gives, to) /\ Ordinary(fs, gives)
    <3>1. Special = {} => e.exact /\ Exact(e, fs, gives, to) /\ Ordinary(fs, gives)
      BY DEF e
    <3>2. d.exact = e.exact
      BY <2>4 DEF SameWords
    <3>3. QED
      BY <2>4, <3>1, <3>2, ExactSame
  <2>6. PICK C : Stacked(fs, gives, d.depth, C) /\ Chain(C, Len(fs) + 1)
    BY <2>4
  <2>7. Layout(C)'
    BY <2>1, <2>2, <2>3, <2>4, <2>6 DEF Layout, Index, Top
  <2>8. (Special = {} => Correct)'
    BY <2>1, <2>5 DEF Correct
  <2>9. QED
    BY <2>1, <2>7, <2>8 DEF IInv
<1>3. QED
  BY <1>1, <1>2

\* The code cannot have jumped to an operation.
LEMMA NotSkipped ==
  ASSUME NEW B, Layout(B), Top.kind \notin Structured \cup Roots
  PROVE  skip \in 0 .. Index - 1 /\ (skip # NoOne => frames[skip].kind \in Structured \cup Roots)
<1>1. skip \in 0 .. Index /\ Index \in Nat /\ Index >= 1 /\ Top = frames[Index] /\ NoOne = 0
      /\ (skip # NoOne => frames[skip].kind \in Structured \cup Roots)
  BY TopFacts DEF Layout, NoOne
<1>2. skip # Index
  BY <1>1
<1>3. QED
  BY <1>1, <1>2

\* The calls below the one that is on, when the code runs.
LEMMA HeldBelow ==
  ASSUME NEW B, Layout(B), Correct, Runs
  PROVE  /\ \A i \in 1 .. Index : \A n \in DOMAIN frames[i].kept : Holds(code, frames[i].kept[n])
         /\ given # <<>> => Holds(code, Child)
         /\ given # <<>> /\ Child.in = "absent" => Wanted(Top) = "none"
         /\ code.locals = code.wasm /\ code.exact
         /\ Top.kind \in Calling \cup {"twoport"} =>
              \A i \in 1 .. Index - 1 : ~(frames[i].kind = "twoport" /\ Len(frames[i].kept) = 1)
<1>1. Exact(code, frames, given, NoOne) /\ Ordinary(frames, given) /\ code.exact
  BY DEF Correct, Runs
<1>2. Index \in Nat /\ Index >= 1 /\ Top = frames[Index]
  BY TopFacts
<1>3. ASSUME Top.kind \in Calling \cup {"twoport"}, NEW i \in 1 .. Index - 1
      PROVE  ~(frames[i].kind = "twoport" /\ Len(frames[i].kept) = 1)
  <2>1. i \in 1 .. Len(frames) /\ Index \in 1 .. Len(frames) /\ i < Index
    BY <1>2 DEF Index
  <2>2. QED
    BY <1>1, <1>2, <1>3, <2>1 DEF Ordinary
<1>4. QED
  BY <1>1, <1>3 DEF Exact, Index, Child, Top

\* The call that is on returns v.
LEMMA Returning ==
  ASSUME NEW B, Layout(B), Special = {} => Correct, verdict = "lowering",
         NEW c \in Emitted, NEW v, Return(c, v),
         Top.kind \notin Structured \cup Roots, Gives(Top.kind) # "exit",
         Suits(v, Gives(Top.kind)), v.in = "R1" => Top.retain,
         Placed(v, B[Index]), c.depth = After(v, B[Index]),
         Special = {} /\ Correct => v.in # "borrowed",
         Special = {} /\ Correct /\ Runs =>
           /\ c.exact /\ c.locals = c.wasm
           /\ \A s \in 1 .. B[Index] : c.slots[s] = code.slots[s]
           /\ c.r8 = code.r8 \/ Top.kind \in Calling
           /\ Holds(c, v)
  PROVE  IInv'
<1> DEFINE fs == Front(frames)
           d == IF Runs THEN c ELSE code
<1>1. Index \in Nat /\ Index >= 2 /\ Top = frames[Index] /\ Top \in Frame
  BY TopFacts
<1>2. fs \in Seq(Frame) /\ Len(fs) = Index - 1 /\ \A i \in 1 .. Index - 1 : fs[i] = frames[i]
  BY <1>1, FrontFacts
<1>3. Emit(c, fs, <<v>>, skip) /\ nodes' \in 0 .. Size
  BY DEF Return, Layout
<1> HIDE DEF fs
<1>4. \A i \in 1 .. Index - 1 : Alike(fs[i], frames[i])
  BY <1>2 DEF Alike
<1>5. Nested(fs) /\ GivenOK(Last(fs), v) /\ Stacked(fs, <<v>>, c.depth, B) /\ Chain(B, Index)
  BY <1>1, <1>2, <1>4, ReturnLayout
<1>6. <<v>> \in Seq(Value) /\ Len(<<v>>) <= 1 /\ <<v>>[1] = v /\ <<v>> # <<>>
  BY DEF Suits, ValueOK
<1>7. skip \in 0 .. Len(fs) /\ (skip # NoOne => fs[skip].kind \in Structured \cup Roots) /\ Len(fs) + 1 = Index
  <2>1. skip \in 0 .. Index - 1 /\ (skip # NoOne => frames[skip].kind \in Structured \cup Roots)
    BY NotSkipped
  <2>2. skip # NoOne => skip \in 1 .. Index - 1
    BY <2>1 DEF NoOne
  <2>3. QED
    BY <1>1, <1>2, <2>1, <2>2
<1>8. ASSUME Special = {}
      PROVE  d.exact /\ Exact(d, fs, <<v>>, skip) /\ Ordinary(fs, <<v>>)
  <2>1. Correct /\ v.in # "borrowed"
    BY <1>8
  <2>2. Ordinary(fs, <<v>>)
    <3>1. \A i \in 1 .. Len(fs) : i \in 1 .. Len(frames) /\ fs[i] = frames[i]
      BY <1>1, <1>2 DEF Index
    <3>2. /\ \A i, j \in 1 .. Len(fs) :
               i < j /\ fs[i].kind = "twoport" /\ Len(fs[i].kept) = 1 => fs[j].kind \notin Calling \cup {"twoport"}
          /\ \A i \in 1 .. Len(fs) : fs[i].kind \in TakesLastFromR1 => ~fs[i].retain
      BY <2>1, <3>1 DEF Correct, Ordinary
    <3>3. QED
      BY <1>6, <2>1, <3>2 DEF Ordinary
  <2>3. d.exact /\ d.locals = d.wasm
    BY <1>8, <2>1 DEF Correct, Exact
  <2>4. \A i \in 1 .. (IF skip = NoOne THEN Len(fs) ELSE skip) : \A n \in DOMAIN fs[i].kept : Holds(d, fs[i].kept[n])
    <3>1. CASE Runs
      <4> DEFINE m == Index - 1
      <4>1. m \in 0 .. Index - 1 /\ m + 1 = Index
        BY <1>1
      <4>2. \A i \in 1 .. m : \A n \in DOMAIN frames[i].kept : Holds(code, frames[i].kept[n])
        BY <1>1, <2>1, <3>1, HeldBelow
      <4>3. \A s \in 1 .. B[m + 1] : c.slots[s] = code.slots[s]
        BY <1>8, <2>1, <3>1, <4>1
      <4>4. c.r8 = code.r8 \/ \A i \in 1 .. m : ~(frames[i].kind = "twoport" /\ Len(frames[i].kept) = 1)
        BY <1>8, <2>1, <3>1, HeldBelow
      <4> HIDE DEF m
      <4>5. \A i \in 1 .. m : \A n \in DOMAIN frames[i].kept : Holds(c, frames[i].kept[n])
        <5>1. HeldTo(code, m) /\ SlotsKept(code, c, B[m + 1]) /\ Undisturbed(code, c, m)
          BY <4>2, <4>3, <4>4 DEF HeldTo, SlotsKept, Undisturbed
        <5>2. HeldTo(c, m)
          BY <4>1, <5>1, StillHeld
        <5>3. QED
          BY <5>2 DEF HeldTo
      <4>6. QED
        BY <1>2, <3>1, <4>5 DEF m, Runs
    <3>2. CASE ~Runs
      <4>1. \A i \in 1 .. skip : \A n \in DOMAIN frames[i].kept : Holds(code, frames[i].kept[n])
        BY <2>1, <3>2 DEF Correct, Exact, Runs
      <4>2. \A i \in 1 .. skip : fs[i] = frames[i]
        BY <1>1, <1>2, <1>7
      <4>3. QED
        BY <3>2, <4>1, <4>2 DEF Runs
    <3>3. QED
      BY <3>1, <3>2
  <2>5. skip = NoOne => Holds(d, v) /\ (v.in = "absent" => Wanted(Last(fs)) = "none")
    <3>1. ASSUME v.in = "absent"
          PROVE  Wanted(Last(fs)) = "none"
      <4>1. Gives(Top.kind) = "none"
        <5>1. Gives(Top.kind) \in {"word", "pair", "none", "exit"}
          BY <1>1, GivesType DEF Frame
        <5>2. QED
          BY <3>1, <5>1 DEF Suits, IsPair, IsWord
      <4>2. Fits(Top.kind, frames[Index - 1])
        <5>1. Index \in 2 .. Len(frames)
          BY <1>1 DEF Index
        <5>2. QED
          BY <1>1, <5>1 DEF Layout, Nested
      <4>3. Last(fs) = frames[Index - 1]
        BY <1>1, <1>2 DEF Last
      <4>4. QED
        BY <4>1, <4>2, <4>3 DEF Fits, Wanted
    <3>2. Runs => Holds(d, v)
      BY <1>8, <2>1
    <3>3. QED
      BY <3>1, <3>2 DEF Runs
  <2>6. skip # NoOne /\ Carries(fs[skip]) => d.slots[fs[skip].slot] = fs[skip].carried
    <3>1. ASSUME skip # NoOne
          PROVE  fs[skip] = frames[skip] /\ d = code
      BY <1>1, <1>2, <1>7, <3>1 DEF Runs, NoOne
    <3>2. QED
      BY <2>1, <3>1 DEF Correct, Exact
  <2>7. QED
    BY <1>6, <2>2, <2>3, <2>4, <2>5, <2>6 DEF Exact
<1>9. QED
  BY <1>2, <1>3, <1>5, <1>6, <1>7, <1>8, EmitStep

\* The call that is on becomes g and goes on.
LEMMA Keeping ==
  ASSUME NEW B, Layout(B), Special = {} => Correct, verdict = "lowering",
         NEW c \in Emitted, NEW g \in Frame, Emit(c, Replaced(g), <<>>, skip), nodes' = nodes,
         FrameOK(g), g.kind = Top.kind, g.retain = Top.retain,
         FrameAt(g, B[Index]), c.depth = FrameEnd(g, B[Index]),
         Top.kind \in Structured => g.slot = Top.slot /\ g.carried = Top.carried /\ (Carries(g) => Carries(Top)),
         Special = {} /\ Correct /\ Runs =>
           /\ c.exact /\ c.locals = c.wasm
           /\ \A s \in 1 .. B[Index] : c.slots[s] = code.slots[s]
           /\ c.r8 = code.r8 \/ Top.kind = "twoport"
           /\ \A n \in DOMAIN g.kept : Holds(c, g.kept[n])
  PROVE  IInv'
<1> DEFINE fs == Replaced(g)
           d == IF Runs THEN c ELSE code
<1>1. Index \in Nat /\ Index >= 1 /\ Top = frames[Index] /\ Top \in Frame /\ Len(frames) = Index
      /\ skip \in 0 .. Index /\ (skip # NoOne => frames[skip].kind \in Structured \cup Roots) /\ NoOne = 0
      /\ nodes \in 0 .. Size
  BY TopFacts DEF Layout, Index, NoOne
<1>2. /\ fs \in Seq(Frame) /\ Len(fs) = Index
      /\ \A i \in 1 .. Index : fs[i] = IF i = Index THEN g ELSE frames[i]
      /\ Nested(fs)
      /\ \E C : Stacked(fs, <<>>, c.depth, C) /\ Chain(C, Index + 1)
  BY KeepLayout
<1> HIDE DEF fs
<1>3. <<>> \in Seq(Value) /\ Len(<<>>) <= 1
  OBVIOUS
<1>4. skip # NoOne => skip \in 1 .. Index /\ fs[skip].kind = frames[skip].kind
  BY <1>1, <1>2
<1>5. ASSUME Special = {}
      PROVE  d.exact /\ Exact(d, fs, <<>>, skip) /\ Ordinary(fs, <<>>)
  <2>1. Correct
    BY <1>5
  <2>2. Ordinary(fs, <<>>)
    <3>1. \A i \in 1 .. Len(fs) : /\ i \in 1 .. Len(frames) /\ fs[i].kind = frames[i].kind
                                  /\ fs[i].retain = frames[i].retain
                                  /\ i < Index => fs[i] = frames[i]
      BY <1>1, <1>2
    <3>2. /\ \A i, j \in 1 .. Len(fs) :
               i < j /\ fs[i].kind = "twoport" /\ Len(fs[i].kept) = 1 => fs[j].kind \notin Calling \cup {"twoport"}
          /\ \A i \in 1 .. Len(fs) : fs[i].kind \in TakesLastFromR1 => ~fs[i].retain
      BY ONLY <1>1, <1>2, <2>1, <3>1 DEF Correct, Ordinary
    <3>3. QED
      BY <3>2 DEF Ordinary
  <2>3. d.exact /\ d.locals = d.wasm
    BY <1>5, <2>1 DEF Correct, Exact
  <2>4. \A i \in 1 .. (IF skip = NoOne THEN Len(fs) ELSE skip) : \A n \in DOMAIN fs[i].kept : Holds(d, fs[i].kept[n])
    <3>1. CASE Runs
      <4> DEFINE m == Index - 1
      <4>1. m \in 0 .. Index - 1 /\ m + 1 = Index
        BY <1>1
      <4>2. \A i \in 1 .. m : \A n \in DOMAIN frames[i].kept : Holds(code, frames[i].kept[n])
        BY <1>1, <2>1, <3>1, HeldBelow
      <4>3. \A s \in 1 .. B[m + 1] : c.slots[s] = code.slots[s]
        BY <1>5, <2>1, <3>1, <4>1
      <4>4. c.r8 = code.r8 \/ \A i \in 1 .. m : ~(frames[i].kind = "twoport" /\ Len(frames[i].kept) = 1)
        BY <1>5, <2>1, <3>1, HeldBelow
      <4>5. \A i \in 1 .. Index : i = Index \/ i \in 1 .. m
        BY <1>1
      <4> HIDE DEF m
      <4>6. \A i \in 1 .. m : \A n \in DOMAIN frames[i].kept : Holds(c, frames[i].kept[n])
        <5>1. HeldTo(code, m) /\ SlotsKept(code, c, B[m + 1]) /\ Undisturbed(code, c, m)
          BY <4>2, <4>3, <4>4 DEF HeldTo, SlotsKept, Undisturbed
        <5>2. HeldTo(c, m)
          BY <4>1, <5>1, StillHeld
        <5>3. QED
          BY <5>2 DEF HeldTo
      <4>7. \A n \in DOMAIN g.kept : Holds(c, g.kept[n])
        BY <1>5, <2>1, <3>1
      <4>8. QED
        BY <1>2, <3>1, <4>5, <4>6, <4>7 DEF Runs
    <3>2. CASE ~Runs
      <4>1. skip # NoOne /\ skip \in 1 .. Index
        BY <1>4, <3>2 DEF Runs
      <4>2. \A i \in 1 .. skip : \A n \in DOMAIN frames[i].kept : Holds(code, frames[i].kept[n])
        BY <2>1, <4>1 DEF Correct, Exact
      <4>3. ASSUME skip = Index
            PROVE  \A n \in DOMAIN g.kept : Holds(code, g.kept[n])
        <5>1. Top.kind \in Structured \cup Roots
          BY <1>1, <4>1, <4>3
        <5>2. CASE Top.kind \in Structured
          BY <5>2, AbsentHolds DEF FrameOK
        <5>3. CASE Top.kind \in Roots
          <6>1. Len(Children("function")) = 1 /\ Len(Children("procedure")) = 1
            <7>1. Children("function") = <<"word">> /\ Children("procedure") = <<"none">>
              BY ChildrenOf
            <7>2. QED
              BY <7>1
          <6>2. g.kept \in Seq(Value) /\ Len(g.kept) < 1
            <7>1. g.kind = "function" \/ g.kind = "procedure"
              BY <5>3 DEF Roots
            <7>2. Len(Children(g.kind)) = 1
              BY <6>1, <7>1
            <7>3. QED
              BY <7>2 DEF FrameOK, Frame
          <6>3. Len(g.kept) \in Nat
            BY <6>2
          <6>4. Len(g.kept) = 0
            BY <6>2, <6>3
          <6>5. QED
            BY <6>2, <6>4
        <5>4. QED
          BY <5>1, <5>2, <5>3
      <4>4. \A i \in 1 .. skip : fs[i] = IF i = Index THEN g ELSE frames[i]
        BY <1>1, <1>2, <4>1
      <4>5. \A i \in 1 .. skip : i = Index => skip = Index
        BY <1>1, <4>1
      <4>6. QED
        BY <3>2, <4>1, <4>2, <4>3, <4>4, <4>5
    <3>3. QED
      BY <3>1, <3>2
  <2>5. skip # NoOne /\ Carries(fs[skip]) => d.slots[fs[skip].slot] = fs[skip].carried
    <3>1. ASSUME skip # NoOne, Carries(fs[skip])
          PROVE  d = code /\ Carries(frames[skip]) /\ fs[skip].slot = frames[skip].slot
                 /\ fs[skip].carried = frames[skip].carried
      <4>1. d = code /\ skip \in 1 .. Index
        BY <1>4, <3>1 DEF Runs
      <4>2. CASE skip = Index
        <5>1. fs[skip] = g /\ Carries(g) /\ frames[skip] = Top
          BY <1>1, <1>2, <3>1, <4>1, <4>2
        <5>2. Top.kind \in Structured
          BY <5>1 DEF Carries, Structured
        <5>3. QED
          BY <4>1, <5>1, <5>2
      <4>3. CASE skip # Index
        BY <1>1, <1>2, <3>1, <4>1, <4>3
      <4>4. QED
        BY <4>2, <4>3
    <3>2. QED
      BY <2>1, <3>1 DEF Correct, Exact
  <2>6. QED
    BY <2>2, <2>3, <2>4, <2>5 DEF Exact
<1>6. skip \in 0 .. Len(fs) /\ (skip # NoOne => fs[skip].kind \in Structured \cup Roots)
  BY <1>1, <1>2, <1>4
<1>7. nodes' \in 0 .. Size /\ (<<>> # <<>> => GivenOK(Last(fs), <<>>[1]))
  BY <1>1
<1>8. \E C : Stacked(fs, <<>>, c.depth, C) /\ Chain(C, Len(fs) + 1)
  BY <1>2
<1>9. Emit(c, fs, <<>>, skip)
  BY DEF fs
<1>10. QED
  BY <1>2, <1>3, <1>5, <1>6, <1>7, <1>8, <1>9, EmitStep

\* An expression without children gives v.
LEMMA Giving ==
  ASSUME NEW B, Layout(B), Special = {} => Correct, verdict = "lowering", given = <<>>,
         NEW c \in Emitted, NEW v, Gets(c, v), nodes' \in 0 .. Size,
         GivenOK(Top, v), Placed(v, B[Index + 1]), c.depth = After(v, B[Index + 1]),
         Special = {} => ~(v.in = "borrowed" /\ Top.kind = "cpu2" /\ Top.kept # <<>> /\ Top.kept[1].in = "immediate"),
         Top.side = "constant" => c = code,
         Special = {} /\ Correct /\ Runs =>
           /\ c.exact /\ c.locals = c.wasm
           /\ \A s \in 1 .. B[Index + 1] : c.slots[s] = code.slots[s]
           /\ c.r8 = code.r8
           /\ Holds(c, v) /\ (v.in = "absent" => Wanted(Top) = "none")
  PROVE  IInv'
<1> DEFINE d == IF Runs THEN c ELSE code
<1>1. Index \in Nat /\ Index >= 1 /\ Top = frames[Index] /\ Top \in Frame /\ Len(frames) = Index /\ FrameOK(Top)
      /\ B[Index] \in Nat /\ B[Index + 1] \in Nat /\ B[Index] <= B[Index + 1]
      /\ FrameAt(Top, B[Index]) /\ B[Index + 1] = FrameEnd(Top, B[Index])
  BY TopFacts DEF Index
<1>2. Emit(c, frames, <<v>>, skip)
  BY DEF Gets
<1>3. <<v>> \in Seq(Value) /\ Len(<<v>>) <= 1 /\ <<v>>[1] = v /\ <<v>> # <<>>
  BY DEF GivenOK, ValueOK
<1>4. Stacked(frames, <<v>>, c.depth, B) /\ Chain(B, Index + 1)
  BY <1>1, <1>3 DEF Layout, Stacked
<1>5. /\ frames \in Seq(Frame) /\ Nested(frames) /\ skip \in 0 .. Len(frames) /\ GivenOK(Last(frames), v)
      /\ skip # NoOne => frames[skip].kind \in Structured \cup Roots
  BY <1>1 DEF Layout, Top
<1>6. ASSUME Special = {}
      PROVE  d.exact /\ Exact(d, frames, <<v>>, skip) /\ Ordinary(frames, <<v>>)
  <2>1. Correct
    BY <1>6
  <2>2. Ordinary(frames, <<v>>)
    BY <1>3, <1>6, <2>1 DEF Correct, Ordinary, Top
  <2>3. d.exact /\ d.locals = d.wasm
    BY <1>6, <2>1 DEF Correct, Exact
  <2>4. \A i \in 1 .. (IF skip = NoOne THEN Len(frames) ELSE skip) :
          \A n \in DOMAIN frames[i].kept : Holds(d, frames[i].kept[n])
    <3>1. CASE Runs
      <4> DEFINE m == Index - 1
      <4>1. m \in 0 .. Index - 1 /\ m + 1 = Index
        BY <1>1
      <4>2. \A i \in 1 .. Index : \A n \in DOMAIN frames[i].kept : Holds(code, frames[i].kept[n])
        BY <2>1, <3>1, HeldBelow
      <4>3. \A i \in 1 .. m : i \in 1 .. Index
        BY <1>1
      <4>4. \A s \in 1 .. B[m + 1] : c.slots[s] = code.slots[s]
        BY <1>1, <1>6, <2>1, <3>1, <4>1
      <4>5. c.r8 = code.r8
        BY <1>6, <2>1, <3>1
      <4>6. \A i \in 1 .. Index : i = Index \/ i \in 1 .. m
        BY <1>1
      <4> HIDE DEF m
      <4>7. \A i \in 1 .. m : \A n \in DOMAIN frames[i].kept : Holds(c, frames[i].kept[n])
        <5>1. HeldTo(code, m) /\ SlotsKept(code, c, B[m + 1]) /\ Undisturbed(code, c, m)
          BY <4>2, <4>3, <4>4, <4>5 DEF HeldTo, SlotsKept, Undisturbed
        <5>2. HeldTo(c, m)
          BY <4>1, <5>1, StillHeld
        <5>3. QED
          BY <5>2 DEF HeldTo
      <4>8. ASSUME NEW n \in DOMAIN Top.kept
            PROVE  Holds(c, Top.kept[n])
        <5> DEFINE u == Top.kept[n]
        <5>1. Holds(code, u) /\ ValueOK(u) /\ u \in Value
          BY <1>1, <4>2 DEF FrameOK, ValueOK
        <5>2. CASE Top.side = "constant"
          BY <5>1, <5>2
        <5>3. CASE Top.side # "constant" /\ u.in = "owned"
          <6>1. u.at \in B[Index] + 1 .. B[Index + 1] /\ (u.high # 0 => u.high \in B[Index] + 1 .. B[Index + 1])
            BY <1>1, <5>3, KeptPlaced DEF IsOwned
          <6>2. u.at \in 1 .. B[Index + 1] /\ (u.high # 0 => u.high \in 1 .. B[Index + 1])
            BY <1>1, <6>1
          <6>3. \A s \in 1 .. B[Index + 1] : c.slots[s] = code.slots[s]
            BY <1>6, <2>1, <3>1
          <6>4. QED
            BY <5>1, <5>3, <6>2, <6>3 DEF Holds, Read
        <5>4. CASE Top.side # "constant" /\ u.in # "owned" /\ u # Absent
          <6>1. KeptAs(Top, n)
            <7>1. Top.kind \notin Structured
              BY <1>1, <5>4 DEF FrameOK
            <7>2. QED
              BY <1>1, <7>1 DEF FrameOK
          <6>2. u.in \in {"immediate", "R8"} /\ u.high = 0
            BY <1>1, <5>1, <5>4, <6>1 DEF KeptAs, IsPair, IsWord, Value
          <6>3. QED
            BY <4>5, <5>1, <6>2 DEF Holds, Read
        <5>5. CASE u = Absent
          BY <5>5, AbsentHolds
        <5>6. QED
          BY <5>2, <5>3, <5>4, <5>5
      <4>9. QED
        BY <1>1, <3>1, <4>6, <4>7, <4>8 DEF Runs
    <3>2. CASE ~Runs
      BY <2>1, <3>2 DEF Correct, Exact, Runs
    <3>3. QED
      BY <3>1, <3>2
  <2>5. skip = NoOne => Holds(d, v) /\ (v.in = "absent" => Wanted(Last(frames)) = "none")
    BY <1>6, <2>1 DEF Runs, Top
  <2>6. skip # NoOne /\ Carries(frames[skip]) => d.slots[frames[skip].slot] = frames[skip].carried
    BY <2>1 DEF Correct, Exact, Runs
  <2>7. QED
    BY <1>3, <2>2, <2>3, <2>4, <2>5, <2>6 DEF Exact
<1>7. QED
  BY <1>1, <1>2, <1>3, <1>4, <1>5, <1>6, EmitStep

-----------------------------------------------------------------------------
(* Entering expressions.                                                    *)

\* What the hypotheses of a step come to.
Going(B) == Layout(B) /\ (Special = {} => Correct) /\ verdict = "lowering"

LEMMA EntersFacts ==
  ASSUME NEW B, Layout(B), NEW kind \in Kind, Enters(kind)
  PROVE  /\ given = <<>> /\ kind \notin Roots /\ Fits(kind, Top) /\ Allowed(kind, Top)
         /\ nodes' \in 0 .. Size
         /\ Top.side = "constant" => kind = "const"
<1>1. kind \in menu /\ menu \in Menus /\ nodes \in 0 .. Size /\ Size \in Nat
  BY OperandsAssumption DEF Enters, Layout
<1>2. kind \notin Roots
  BY <1>1, OperandsAssumption DEF Roots
<1>3. nodes' \in 0 .. Size
  <2>1. nodes < Size /\ nodes' = nodes + 1
    BY DEF Enters
  <2>2. QED
    BY <1>1, <2>1
<1>4. Top.side = "constant" => kind = "const"
  BY TopFacts DEF Enters, Allowed, FrameOK
<1>5. QED
  BY <1>2, <1>3, <1>4 DEF Enters

LEMMA NewFrameFacts ==
  ASSUME NEW kind \in Kind, NEW retain \in BOOLEAN, NEW slot \in Nat
  PROVE  LET g == NewFrame(kind, retain, slot) IN
         /\ g \in Frame /\ g.kind = kind /\ g.kept = <<>> /\ g.retain = retain /\ g.slot = slot
         /\ g.side = "none" /\ g.carried = 0
  BY DEF NewFrame, Frame

LEMMA RetainsType ==
  ASSUME NEW f \in Frame
  PROVE  Retains(f) \in BOOLEAN
  BY DEF Retains, Frame

LEMMA DescendStep ==
  ASSUME NEW B, Going(B), Descend
  PROVE  IInv'
<1>1. Layout(B) /\ (Special = {} => Correct) /\ verdict = "lowering"
  BY DEF Going
<1>2. PICK kind \in Kind :
        /\ Enters(kind) /\ Children(kind) # <<>>
        /\ LET c == IF kind = "block" THEN Allocate(code, 1) ELSE code
               slot == IF kind = "block" THEN c.depth ELSE 0
           IN Emit(c, Append(frames, NewFrame(kind, Retains(Top), slot)), <<>>, skip)
  BY DEF Descend
<1> DEFINE c == IF kind = "block" THEN Allocate(code, 1) ELSE code
           slot == IF kind = "block" THEN c.depth ELSE 0
           g == NewFrame(kind, Retains(Top), slot)
           fs == Append(frames, g)
           d == IF Runs THEN c ELSE code
<1>3. /\ Index \in Nat /\ Index >= 1 /\ Top = frames[Index] /\ Top \in Frame /\ B[Index + 1] \in Nat
      /\ code \in Emitted /\ code.depth \in Nat /\ Len(frames) = Index
  BY <1>1, TopFacts DEF Index
<1>4. /\ given = <<>> /\ kind \notin Roots /\ Fits(kind, Top) /\ Allowed(kind, Top)
      /\ nodes' \in 0 .. Size /\ (Top.side = "constant" => kind = "const")
  BY <1>1, <1>2, EntersFacts
<1>5. code.depth = B[Index + 1]
  BY <1>1, <1>4, TopFacts
<1>6. c \in Emitted /\ SameWords(code, c) /\ c.depth = IF kind = "block" THEN B[Index + 1] + 1 ELSE B[Index + 1]
  <2>1. CASE kind = "block"
    BY <1>3, <1>5, <2>1, AllocateFacts
  <2>2. CASE kind # "block"
    BY <1>3, <1>5, <2>2 DEF SameWords
  <2>3. QED
    BY <2>1, <2>2
<1>7. slot \in Nat /\ slot = IF kind = "block" THEN B[Index + 1] + 1 ELSE 0
  BY <1>3, <1>6
<1>8. Emit(c, fs, <<>>, skip)
  BY <1>2
<1> HIDE DEF c, slot
<1>9. /\ g \in Frame /\ g.kind = kind /\ g.kept = <<>> /\ g.retain = Retains(Top) /\ g.slot = slot
      /\ g.side = "none"
  <2>1. Retains(Top) \in BOOLEAN /\ slot \in Nat
    BY <1>3, <1>7, RetainsType
  <2>2. PICK r \in BOOLEAN : r = Retains(Top)
    BY <2>1
  <2>3. g = NewFrame(kind, r, slot)
    BY <2>2
  <2>4. NewFrame(kind, r, slot) \in Frame
    BY <2>1, NewFrameFacts
  <2>5. QED
    BY <2>1, <2>2, <2>3, NewFrameFacts
<1> HIDE DEF g
<1>10. FrameOK(g)
  <2>1. Len(Children(kind)) \in Nat /\ Len(Children(kind)) # 0
    BY <1>2, Kinds, ChildrenOf
  <2>2. Len(g.kept) < Len(Children(g.kind)) /\ DOMAIN g.kept = {}
    BY <1>9, <2>1
  <2>3. g.slot # 0 <=> g.kind = "block"
    BY <1>3, <1>7, <1>9
  <2>4. QED
    BY <1>9, <2>2, <2>3 DEF FrameOK
<1>11. FrameAt(g, B[Index + 1]) /\ c.depth = FrameEnd(g, B[Index + 1])
  BY <1>3, <1>6, <1>7, <1>9 DEF FrameAt, FrameEnd
<1>12. Top.side # "constant"
  BY <1>2, <1>4, ChildrenOf
<1>13. /\ fs \in Seq(Frame) /\ Len(fs) = Index + 1 /\ fs[Index + 1] = g
       /\ \A i \in 1 .. Index : fs[i] = frames[i]
       /\ Nested(fs)
       /\ \E C : Stacked(fs, <<>>, c.depth, C) /\ Chain(C, Index + 2)
  <2>1. g.kind \notin Roots /\ Fits(g.kind, Top) /\ g.retain = Retains(Top)
    BY <1>4, <1>9
  <2>2. \E C : /\ \A i \in 1 .. Index + 1 : C[i] = B[i]
               /\ Stacked(fs, <<>>, FrameEnd(g, B[Index + 1]), C) /\ Chain(C, Index + 2)
    BY <1>1, <1>9, <1>10, <1>11, <1>12, <2>1, PushLayout
  <2>3. /\ fs \in Seq(Frame) /\ Len(fs) = Index + 1 /\ fs[Index + 1] = g
        /\ \A i \in 1 .. Index : fs[i] = frames[i]
        /\ Nested(fs)
    BY <1>1, <1>9, <1>10, <1>11, <1>12, <2>1, PushLayout
  <2>4. QED
    BY <1>11, <2>2, <2>3
<1> HIDE DEF fs
<1>14. /\ <<>> \in Seq(Value) /\ Len(<<>>) <= 1 /\ (<<>> # <<>> => GivenOK(Last(fs), <<>>[1]))
       /\ skip \in 0 .. Len(fs) /\ (skip # NoOne => skip \in 1 .. Index)
       /\ skip # NoOne => fs[skip].kind \in Structured \cup Roots
  BY <1>1, <1>3, <1>13 DEF Layout, NoOne
<1>15. \E C : Stacked(fs, <<>>, c.depth, C) /\ Chain(C, Len(fs) + 1)
  <2>1. Len(fs) + 1 = Index + 2
    BY <1>3, <1>13
  <2>2. QED
    BY <1>13, <2>1
<1>16. ASSUME Special = {}
       PROVE  d.exact /\ Exact(d, fs, <<>>, skip) /\ Ordinary(fs, <<>>)
  <2>1. Correct
    BY <1>1, <1>16
  <2>2. SameWords(code, d)
    BY <1>6 DEF SameWords
  <2>3. d.exact /\ Exact(d, frames, given, skip)
    BY <2>1, <2>2, ExactSame DEF Correct, SameWords
  <2>4. Exact(d, fs, <<>>, skip)
    <3>1. ASSUME NEW i \in 1 .. (IF skip = NoOne THEN Len(fs) ELSE skip), NEW n \in DOMAIN fs[i].kept
          PROVE  Holds(d, fs[i].kept[n])
      <4>1. CASE i = Index + 1
        BY <1>9, <1>13, <4>1
      <4>2. CASE i # Index + 1
        <5>1. i \in 1 .. (IF skip = NoOne THEN Len(frames) ELSE skip) /\ fs[i] = frames[i]
          BY <1>3, <1>13, <1>14, <4>2
        <5>2. QED
          BY <2>3, <5>1 DEF Exact
      <4>3. QED
        BY <4>1, <4>2
    <3>2. skip # NoOne => fs[skip] = frames[skip]
      BY <1>13, <1>14
    <3>3. QED
      BY <2>3, <3>1, <3>2 DEF Exact
  <2>5. Ordinary(fs, <<>>)
    <3>1. Ordinary(frames, given)
      BY <2>1 DEF Correct
    <3>2. ASSUME NEW i \in 1 .. Len(fs), NEW j \in 1 .. Len(fs),
                 i < j, fs[i].kind = "twoport", Len(fs[i].kept) = 1
          PROVE  fs[j].kind \notin Calling \cup {"twoport"}
      <4>1. i \in 1 .. Index /\ fs[i] = frames[i]
        BY <1>3, <1>13, <3>2
      <4>2. CASE j = Index + 1
        <5>1. frames[i] \in ToSet(frames)
          BY <1>3, <4>1 DEF ToSet, Layout
        <5>2. HeldInR8
          BY <3>2, <4>1, <5>1 DEF HeldInR8
        <5>3. QED
          BY <1>4, <1>9, <1>13, <1>16, <4>2, <5>2 DEF Allowed
      <4>3. CASE j # Index + 1
        <5>1. j \in 1 .. Index /\ fs[j] = frames[j]
          BY <1>3, <1>13, <4>3
        <5>2. QED
          BY <1>3, <3>1, <3>2, <4>1, <5>1 DEF Ordinary
      <4>4. QED
        BY <4>2, <4>3
    <3>3. ASSUME NEW i \in 1 .. Len(fs), fs[i].kind \in TakesLastFromR1
          PROVE  ~fs[i].retain
      <4>1. CASE i = Index + 1
        BY <1>4, <1>9, <1>13, <1>16, <3>3, <4>1 DEF Allowed
      <4>2. CASE i # Index + 1
        <5>1. i \in 1 .. Index /\ fs[i] = frames[i]
          BY <1>3, <1>13, <4>2
        <5>2. QED
          BY <1>3, <3>1, <3>3, <5>1 DEF Ordinary
      <4>3. QED
        BY <4>1, <4>2
    <3>4. QED
      BY <3>2, <3>3 DEF Ordinary
  <2>6. QED
    BY <2>3, <2>4, <2>5
<1>17. QED
  BY <1>1, <1>4, <1>6, <1>8, <1>13, <1>14, <1>15, <1>16, EmitStep DEF fs

LEMMA GivenSuits ==
  ASSUME NEW kind, Fits(kind, Top), Gives(kind) \in {"word", "pair", "none"},
         NEW v, Suits(v, Gives(kind)), v.in = "R1" => Retains(Top), Top.side = "constant" => v.in = "immediate"
  PROVE  GivenOK(Top, v) /\ Wanted(Top) = Gives(kind)
<1>1. Wanted(Top) = Gives(kind)
  BY DEF Fits, Wanted
<1>2. QED
  BY <1>1 DEF Suits, GivenOK

\* What holds as an expression without children is entered.
LEMMA LeafFacts ==
  ASSUME NEW B, Going(B), NEW kind \in Kind, Enters(kind)
  PROVE  /\ Layout(B) /\ (Special = {} => Correct) /\ verdict = "lowering" /\ given = <<>>
         /\ nodes' \in 0 .. Size /\ Fits(kind, Top) /\ Allowed(kind, Top)
         /\ Top.side = "constant" => kind = "const"
         /\ code \in Emitted /\ code.depth = B[Index + 1] /\ code.depth \in Nat /\ code.depth <= TempSlots
         /\ TempSlots \in Nat /\ Top \in Frame
         /\ New \in Nat
         /\ Special = {} /\ Correct /\ Runs => code.exact /\ code.locals = code.wasm
<1>1. Layout(B) /\ (Special = {} => Correct) /\ verdict = "lowering"
  BY DEF Going
<1>2. given = <<>> /\ nodes' \in 0 .. Size /\ Fits(kind, Top) /\ Allowed(kind, Top)
      /\ (Top.side = "constant" => kind = "const")
  BY <1>1, EntersFacts
<1>3. code \in Emitted /\ code.depth = B[Index + 1] /\ code.depth \in Nat /\ code.depth <= TempSlots /\ Top \in Frame
  BY <1>1, <1>2, TopFacts
<1>4. New \in Nat
  BY <1>1, NewType DEF Layout
<1>5. Special = {} /\ Correct /\ Runs => code.exact /\ code.locals = code.wasm
  BY DEF Correct, Exact
<1>6. TempSlots \in Nat
  BY OperandsAssumption
<1>7. QED
  BY <1>1, <1>2, <1>3, <1>4, <1>5, <1>6

LEMMA LowerConstStep ==
  ASSUME NEW B, Going(B), LowerConst
  PROVE  IInv'
<1> DEFINE v == Immediate(New)
<1>1. Enters("const") /\ Gets(code, v) /\ "const" \in Kind
  BY Kinds DEF LowerConst
<1>2. New \in Nat /\ Fits("const", Top)
  BY <1>1, LeafFacts
<1>3. ValueOK(v) /\ v.in = "immediate" /\ IsWord(v) /\ ~IsOwned(v) /\ v.word = New /\ v.high = 0
  BY <1>2, PlainType
<1>4. Gives("const") = "word"
  BY GivesOf
<1>5. GivenOK(Top, v)
  BY <1>2, <1>3, <1>4, GivenSuits DEF Suits
<1>6. Placed(v, B[Index + 1]) /\ code.depth = After(v, B[Index + 1]) /\ Holds(code, v)
  BY <1>1, <1>3, LeafFacts DEF Placed, After, Holds, Read
<1> HIDE DEF v
<1>7. QED
  BY <1>1, <1>3, <1>5, <1>6, LeafFacts, Giving

LEMMA LowerLocalGetStep ==
  ASSUME NEW B, Going(B), LowerLocalGet
  PROVE  IInv'
<1>1. PICK l \in Local : Enters("get") /\ Gets(code, Borrowed(l, code.wasm[l]))
  BY DEF LowerLocalGet
<1> DEFINE v == Borrowed(l, code.wasm[l])
<1>2. "get" \in Kind
  BY Kinds
<1>3. code \in Emitted /\ Fits("get", Top) /\ Allowed("get", Top) /\ Top.side # "constant"
  BY <1>1, <1>2, LeafFacts
<1>4. code.wasm[l] \in Nat
  BY <1>3, EmittedFields
<1>5. ValueOK(v) /\ v.in = "borrowed" /\ IsWord(v) /\ ~IsOwned(v) /\ v.word = code.wasm[l] /\ v.high = 0 /\ v.at = l
  BY <1>4, PlainType
<1>6. Gives("get") = "word"
  BY GivesOf
<1>7. GivenOK(Top, v)
  BY <1>3, <1>5, <1>6, GivenSuits DEF Suits
<1>8. Placed(v, B[Index + 1]) /\ code.depth = After(v, B[Index + 1])
  BY <1>1, <1>2, <1>5, LeafFacts DEF Placed, After
<1>9. Special = {} /\ Correct /\ Runs => Holds(code, v)
  BY <1>5 DEF Correct, Exact, Holds, Read
<1>10. Special = {} => ~(v.in = "borrowed" /\ Top.kind = "cpu2" /\ Top.kept # <<>> /\ Top.kept[1].in = "immediate")
  BY <1>3 DEF Allowed
<1>11. Gets(code, v)
  BY <1>1
<1> HIDE DEF v
<1>12. QED
  BY <1>1, <1>2, <1>3, <1>5, <1>7, <1>8, <1>9, <1>10, <1>11, LeafFacts, Giving

LEMMA LowerSizeStep ==
  ASSUME NEW B, Going(B), LowerSize
  PROVE  IInv'
<1> DEFINE b == B[Index + 1]
           a == Allocate(code, 1)
           c == Leave(a, New, b + 1, FALSE)
           v == Owned(b + 1, New)
<1>1. Enters("size") /\ "size" \in Kind
  BY Kinds DEF LowerSize
<1>2. /\ code \in Emitted /\ code.depth = b /\ b \in Nat /\ b <= TempSlots /\ TempSlots \in Nat /\ New \in Nat
      /\ Fits("size", Top) /\ Top.side # "constant"
  BY <1>1, LeafFacts
<1>3. Gets(c, v)
  BY <1>2 DEF LowerSize
<1>4. a \in Emitted /\ a.depth = b + 1 /\ SameWords(code, a)
  BY <1>2, AllocateFacts
<1> HIDE DEF a, b
<1>5. /\ c \in Emitted /\ Keeps(a, c, b) /\ c.exact = a.exact /\ c.depth = a.depth
      /\ ValueOK(v) /\ IsWord(v) /\ v.in = "owned" /\ IsOwned(v) /\ Words(v) = 1
      /\ Placed(v, b) /\ v.word = New /\ Holds(c, v)
  <2>1. a \in Emitted /\ New \in Nat /\ b \in Nat /\ b + 1 <= a.depth /\ b + 1 <= TempSlots + 4
    BY <1>2, <1>4
  <2>2. Stores(a, c, v, New, b)
    BY <2>1, LeaveInSlotFacts
  <2> HIDE DEF c, v
  <2>3. QED
    BY <2>2 DEF Stores
<1> HIDE DEF c, v
<1>6. Gives("size") = "word"
  BY GivesOf
<1>7. GivenOK(Top, v)
  BY <1>2, <1>5, <1>6, GivenSuits DEF Suits
<1>8. c.depth = After(v, b)
  BY <1>4, <1>5 DEF After
<1>9. /\ \A s \in 1 .. b : c.slots[s] = code.slots[s]
      /\ c.r8 = code.r8 /\ c.locals = code.locals /\ c.wasm = code.wasm /\ c.exact = code.exact
  BY <1>4, <1>5 DEF Keeps, SameWords
<1>10. v.in # "borrowed" /\ v.in # "absent"
  BY <1>5
<1>11. QED
  BY <1>1, <1>2, <1>3, <1>5, <1>7, <1>8, <1>9, <1>10, LeafFacts, Giving DEF b

LEMMA LowerPortReadStep ==
  ASSUME NEW B, Going(B), LowerPortRead
  PROVE  IInv'
<1> DEFINE b == B[Index + 1]
<1>1. Enters("port") /\ "port" \in Kind
  BY Kinds DEF LowerPortRead
<1>2. /\ code \in Emitted /\ code.depth = b /\ b \in Nat /\ b <= TempSlots /\ TempSlots \in Nat /\ New \in Nat
      /\ Fits("port", Top) /\ Top.side # "constant"
  BY <1>1, LeafFacts
<1>3. Gives("port") = "word"
  BY GivesOf
<1>4. CASE Retains(Top)
  <2> DEFINE c == [code EXCEPT !.r1 = New]
             v == InR1(New)
  <2>1. Gets(c, v)
    BY <1>4 DEF LowerPortRead
  <2>2. /\ c \in Emitted /\ c.depth = code.depth /\ c.slots = code.slots /\ c.locals = code.locals
        /\ c.wasm = code.wasm /\ c.r8 = code.r8 /\ c.exact = code.exact /\ c.r1 = New
    BY <1>2, R1Facts
  <2>3. ValueOK(v) /\ v.in = "R1" /\ v.word = New /\ v.high = 0 /\ IsWord(v) /\ ~IsOwned(v)
    BY <1>2, PlainType
  <2> HIDE DEF c, v
  <2>4. GivenOK(Top, v)
    BY <1>2, <1>3, <1>4, <2>3, GivenSuits DEF Suits
  <2>5. Placed(v, b) /\ c.depth = After(v, b) /\ Holds(c, v)
    BY <1>2, <2>2, <2>3 DEF Placed, After, Holds, Read
  <2>6. v.in # "borrowed" /\ v.in # "absent"
    BY <2>3
  <2>7. QED
    BY <1>1, <1>2, <2>1, <2>2, <2>4, <2>5, <2>6, LeafFacts, Giving
<1>5. CASE ~Retains(Top)
  <2> DEFINE a == Allocate(code, 1)
             c == Store(a, b + 1, New)
             v == Owned(b + 1, New)
  <2>1. Gets(c, v)
    BY <1>2, <1>5 DEF LowerPortRead
  <2>2. a \in Emitted /\ a.depth = b + 1 /\ SameWords(code, a)
    BY <1>2, AllocateFacts
  <2> HIDE DEF a, b
  <2>3. /\ c \in Emitted /\ c.depth = a.depth
        /\ \A s \in 1 .. TempSlots + 4 : c.slots[s] = IF s = b + 1 THEN New ELSE a.slots[s]
        /\ c.locals = a.locals /\ c.wasm = a.wasm /\ c.r8 = a.r8 /\ c.exact = a.exact
    BY <1>2, <2>2, StoreFacts
  <2>4. /\ ValueOK(v) /\ v.in = "owned" /\ v.at = b + 1 /\ v.high = 0 /\ v.word = New
        /\ IsOwned(v) /\ IsWord(v) /\ Words(v) = 1
    BY <1>2, OwnedType
  <2> HIDE DEF c, v
  <2>5. GivenOK(Top, v)
    BY <1>2, <1>3, <2>4, GivenSuits DEF Suits
  <2>6. Placed(v, b) /\ c.depth = After(v, b)
    BY <2>2, <2>3, <2>4 DEF Placed, After
  <2>7. Holds(c, v)
    <3>1. c.slots[b + 1] = New
      BY <1>2, <2>3
    <3>2. QED
      BY <2>4, <3>1 DEF Holds, Read
  <2>8. /\ \A s \in 1 .. b : c.slots[s] = code.slots[s]
        /\ c.r8 = code.r8 /\ c.locals = code.locals /\ c.wasm = code.wasm /\ c.exact = code.exact
    BY <1>2, <2>2, <2>3 DEF SameWords
  <2>9. v.in # "borrowed" /\ v.in # "absent"
    BY <2>4
  <2>10. QED
    BY <1>1, <1>2, <2>1, <2>3, <2>5, <2>6, <2>7, <2>8, <2>9, LeafFacts, Giving DEF b
<1>6. QED
  BY <1>4, <1>5

LEMMA LowerPairStep ==
  ASSUME NEW B, Going(B), LowerPair
  PROVE  IInv'
<1> DEFINE b == B[Index + 1]
           a == Allocate(code, 2)
           c == StorePair(a, b + 1, b + 2, New)
           v == Pair(b + 1, b + 2, New)
<1>1. Enters("pair") /\ "pair" \in Kind
  BY Kinds DEF LowerPair
<1>2. /\ code \in Emitted /\ code.depth = b /\ b \in Nat /\ b <= TempSlots /\ TempSlots \in Nat /\ New \in Nat
      /\ Fits("pair", Top) /\ Top.side # "constant"
  BY <1>1, LeafFacts
<1>3. Gets(c, v)
  <2>1. (b + 1) + 1 = b + 2
    BY <1>2
  <2>2. QED
    BY <1>2, <2>1 DEF LowerPair
<1>4. a \in Emitted /\ a.depth = b + 2 /\ SameWords(code, a)
  BY <1>2, AllocateFacts
<1> HIDE DEF a, b
<1>5. /\ c \in Emitted /\ c.depth = a.depth /\ Keeps(a, c, b) /\ c.exact = a.exact
      /\ ValueOK(v) /\ IsPair(v) /\ v.in = "owned"
      /\ Placed(v, b) /\ After(v, b) = b + 2 /\ v.word = New /\ Holds(c, v)
  <2>1. b + 2 <= TempSlots + 4
    BY <1>2
  <2>2. QED
    BY <1>2, <1>4, <2>1, StorePairFacts
<1> HIDE DEF c, v
<1>6. Gives("pair") = "pair"
  BY GivesOf
<1>7. GivenOK(Top, v)
  BY <1>2, <1>5, <1>6, GivenSuits DEF Suits
<1>8. /\ \A s \in 1 .. b : c.slots[s] = code.slots[s]
      /\ c.r8 = code.r8 /\ c.locals = code.locals /\ c.wasm = code.wasm /\ c.exact = code.exact
  BY <1>4, <1>5 DEF Keeps, SameWords
<1>9. v.in # "borrowed" /\ v.in # "absent"
  BY <1>5
<1>10. QED
  BY <1>1, <1>2, <1>3, <1>4, <1>5, <1>7, <1>8, <1>9, LeafFacts, Giving DEF b

LEMMA LowerNopStep ==
  ASSUME NEW B, Going(B), LowerNop
  PROVE  IInv'
<1>1. Enters("nop") /\ Gets(code, Absent) /\ "nop" \in Kind
  BY Kinds DEF LowerNop
<1>2. Fits("nop", Top) /\ Top.side # "constant"
  BY <1>1, LeafFacts
<1>3. Gives("nop") = "none" /\ Absent.in = "absent"
  BY GivesOf, PlainType
<1>4. GivenOK(Top, Absent) /\ Wanted(Top) = "none"
  BY <1>2, <1>3, PlainType, GivenSuits DEF Suits
<1>5. Placed(Absent, B[Index + 1]) /\ code.depth = After(Absent, B[Index + 1]) /\ Holds(code, Absent)
  BY <1>1, LeafFacts, PlainType, AbsentHolds DEF Placed, After
<1>6. QED
  BY <1>1, <1>3, <1>4, <1>5, LeafFacts, Giving

-----------------------------------------------------------------------------
(* The child that has returned, and the operands kept before it.            *)

LEMMA LenZero ==
  ASSUME NEW T, NEW s \in Seq(T), Len(s) = 0
  PROVE  s = <<>>
  OBVIOUS

LEMMA ReturnedFacts ==
  ASSUME NEW B, Going(B), given # <<>>
  PROVE  /\ Layout(B) /\ (Special = {} => Correct) /\ verdict = "lowering"
         /\ code \in Emitted /\ code.depth \in Nat /\ code.depth <= TempSlots /\ TempSlots \in Nat /\ New \in Nat
         /\ Top \in Frame /\ Top.retain \in BOOLEAN /\ Top.kind \in Kind /\ FrameOK(Top) /\ Index \in Nat
         /\ Top.kept \in Seq(Value)
         /\ B[Index] \in Nat /\ B[Index + 1] \in Nat /\ B[Index] <= B[Index + 1]
         /\ B[Index + 1] <= code.depth /\ B[Index + 1] <= TempSlots /\ B[Index] <= TempSlots
         /\ Child \in Value /\ ValueOK(Child) /\ Child.in # "R8" /\ GivenOK(Top, Child) /\ Child.word \in Nat
         /\ OnTop(code, Child, B[Index + 1]) /\ Readable(Child)
         /\ code.depth = After(Child, B[Index + 1]) /\ Placed(Child, B[Index + 1])
         /\ Special = {} /\ Correct /\ Runs =>
              /\ code.exact /\ code.locals = code.wasm /\ Holds(code, Child)
              /\ \A n \in DOMAIN Top.kept : Holds(code, Top.kept[n])
<1>1. Layout(B) /\ (Special = {} => Correct) /\ verdict = "lowering"
  BY DEF Going
<1>2. /\ code \in Emitted /\ code.depth \in Nat /\ code.depth <= TempSlots /\ TempSlots \in Nat
      /\ Top \in Frame /\ FrameOK(Top) /\ Index \in Nat /\ Index >= 1 /\ Top = frames[Index]
      /\ B[Index] \in Nat /\ B[Index + 1] \in Nat /\ B[Index] <= B[Index + 1]
      /\ Child \in Value /\ ValueOK(Child) /\ Child.in # "R8" /\ GivenOK(Top, Child)
      /\ code.depth = After(Child, B[Index + 1]) /\ Placed(Child, B[Index + 1])
  BY <1>1, TopFacts, OperandsAssumption
<1>3. New \in Nat
  BY <1>1, NewType DEF Layout
<1>4. Top.retain \in BOOLEAN /\ Top.kind \in Kind /\ Top.kept \in Seq(Value)
  BY <1>2 DEF Frame
<1>5. OnTop(code, Child, B[Index + 1])
  <2>1. code.depth <= TempSlots + 2
    BY <1>2
  <2>2. QED
    BY <1>2, <2>1 DEF OnTop
<1>6. Readable(Child)
  BY <1>5, OnTopReadable
<1>7. Child.word \in Nat
  BY <1>2 DEF Value
<1>8. ASSUME Special = {}, Correct, Runs
      PROVE  /\ code.exact /\ code.locals = code.wasm /\ Holds(code, Child)
             /\ \A n \in DOMAIN Top.kept : Holds(code, Top.kept[n])
  BY <1>1, <1>2, <1>8, HeldBelow
<1>9. B[Index + 1] <= code.depth /\ B[Index + 1] <= TempSlots /\ B[Index] <= TempSlots
  <2>1. B[Index + 1] <= code.depth
    BY <1>2, WordsType DEF After
  <2>2. QED
    BY <1>2, <2>1
<1>10. QED
  BY <1>1, <1>2, <1>3, <1>4, <1>5, <1>6, <1>7, <1>8, <1>9

LEMMA FirstChild ==
  ASSUME NEW B, Layout(B), Len(Top.kept) = 0, Top.kind # "block"
  PROVE  Top.kept = <<>> /\ Top.slot = 0 /\ Top.side # "constant" /\ B[Index + 1] = B[Index]
         /\ Wanted(Top) = Children(Top.kind)[1]
<1>1. Top \in Frame /\ FrameOK(Top) /\ B[Index + 1] = FrameEnd(Top, B[Index])
  BY TopFacts
<1>2. Top.kept = <<>>
  BY <1>1, LenZero DEF Frame
<1>3. Top.slot = 0 /\ Top.side # "constant"
  BY <1>1, <1>2 DEF FrameOK
<1>4. QED
  BY <1>1, <1>2, <1>3 DEF FrameEnd, Wanted

LEMMA SecondChild ==
  ASSUME NEW B, Layout(B), Len(Top.kept) = 1, Top.kind \notin {"block", "ifelse", "binary"}
  PROVE  /\ Top.kept = <<Kept(1)>> /\ Top.slot = 0 /\ Top.side # "constant"
         /\ Kept(1) \in Value /\ ValueOK(Kept(1)) /\ Kept(1).word \in Nat
         /\ Placed(Kept(1), B[Index]) /\ B[Index + 1] = After(Kept(1), B[Index])
         /\ Wanted(Top) = Children(Top.kind)[2]
         /\ IF Top.kind \in Structured THEN Kept(1) = Absent ELSE KeptAs(Top, 1)
<1>1. Top \in Frame /\ FrameOK(Top) /\ FrameAt(Top, B[Index]) /\ B[Index + 1] = FrameEnd(Top, B[Index])
  BY TopFacts
<1>2. Top.kept = <<Kept(1)>> /\ Kept(1) \in Value /\ 1 \in DOMAIN Top.kept
  BY <1>1 DEF Frame, Kept
<1>3. Top.slot = 0 /\ Top.side # "constant"
  BY <1>1 DEF FrameOK
<1>4. ValueOK(Kept(1)) /\ IF Top.kind \in Structured THEN Kept(1) = Absent ELSE KeptAs(Top, 1)
  BY <1>1, <1>2 DEF FrameOK, Kept
<1>5. QED
  BY <1>1, <1>2, <1>3, <1>4 DEF FrameAt, FrameEnd, Wanted, Kept, Value

LEMMA RightOfBinary ==
  ASSUME NEW B, Layout(B), Len(Top.kept) = 1, Top.kind = "binary"
  PROVE  /\ Top.kept = <<Kept(1)>> /\ Top.slot = B[Index] + 1
         /\ Kept(1) \in Value /\ ValueOK(Kept(1)) /\ IsWord(Kept(1)) /\ Kept(1).in # "R8"
         /\ Kept(1).in \in {"borrowed", "R1"} => Top.side = "constant"
         /\ Placed(Kept(1), B[Index]) /\ B[Index + 1] = B[Index] + 1
         /\ Wanted(Top) = "word"
<1>1. Top \in Frame /\ FrameOK(Top) /\ FrameAt(Top, B[Index]) /\ B[Index + 1] = FrameEnd(Top, B[Index])
  BY TopFacts
<1>2. Top.kept = <<Kept(1)>> /\ Kept(1) \in Value /\ 1 \in DOMAIN Top.kept /\ Top.kept # <<>>
  BY <1>1 DEF Frame, Kept
<1>3. Top.slot # 0
  BY <1>1, <1>2 DEF FrameOK
<1>4. ValueOK(Kept(1)) /\ KeptAs(Top, 1)
  BY <1>1, <1>2 DEF FrameOK, Kept, Structured
<1>5. Children("binary") = <<"word", "word">>
  BY ChildrenOf
<1>6. QED
  BY <1>1, <1>2, <1>3, <1>4, <1>5 DEF FrameAt, FrameEnd, Wanted, KeptAs, Kept

LEMMA ThirdChild ==
  ASSUME NEW B, Layout(B), Len(Top.kept) = 2, Top.kind \in {"select", "packed", "bulk"}
  PROVE  /\ Top.kept = <<Kept(1), Kept(2)>> /\ Top.slot = 0 /\ Top.side # "constant"
         /\ Kept(1) \in Value /\ ValueOK(Kept(1)) /\ IsWord(Kept(1)) /\ Kept(1).in \in {"immediate", "owned"}
         /\ Kept(2) \in Value /\ ValueOK(Kept(2)) /\ IsWord(Kept(2)) /\ Kept(2).in \in {"immediate", "owned"}
         /\ Top.kind = "select" => Kept(1).in = "owned"
         /\ After(Kept(1), B[Index]) \in Nat
         /\ Placed(Kept(1), B[Index]) /\ Placed(Kept(2), After(Kept(1), B[Index]))
         /\ B[Index + 1] = After(Kept(2), After(Kept(1), B[Index]))
         /\ Wanted(Top) = "word"
<1>1. /\ Top \in Frame /\ FrameOK(Top) /\ FrameAt(Top, B[Index]) /\ B[Index + 1] = FrameEnd(Top, B[Index])
      /\ B[Index] \in Nat
  BY TopFacts
<1>2. Top.kept = <<Kept(1), Kept(2)>> /\ Kept(1) \in Value /\ Kept(2) \in Value /\ 1 \in DOMAIN Top.kept
      /\ 2 \in DOMAIN Top.kept
  BY <1>1 DEF Frame, Kept
<1>3. Top.slot = 0 /\ Top.side # "constant"
  BY <1>1 DEF FrameOK
<1>4. ValueOK(Kept(1)) /\ ValueOK(Kept(2)) /\ KeptAs(Top, 1) /\ KeptAs(Top, 2)
  BY <1>1, <1>2 DEF FrameOK, Kept, Structured
<1>5. Children(Top.kind) = <<"word", "word", "word">>
  BY ChildrenOf
<1>6. /\ IsWord(Kept(1)) /\ IsWord(Kept(2)) /\ Kept(1).in \notin {"borrowed", "R1", "R8"}
      /\ Kept(2).in \notin {"borrowed", "R1", "R8"} /\ (Top.kind = "select" => Kept(1).in = "owned")
  BY <1>3, <1>4, <1>5 DEF KeptAs, Kept
<1>7. Kept(1).in \in {"immediate", "owned"} /\ Kept(2).in \in {"immediate", "owned"}
  BY <1>2, <1>6 DEF IsWord, Value
<1>8. After(Kept(1), B[Index]) \in Nat
  BY <1>1, <1>2, WordsType DEF After
<1>9. QED
  BY <1>1, <1>2, <1>3, <1>4, <1>5, <1>6, <1>7, <1>8 DEF FrameAt, FrameEnd, Wanted, Kept

UnaryKinds == {"unary", "cpu", "grow", "extract", "tee", "set", "extend", "load64", "out", "br", "brif",
               "table", "return", "drop"}

LEMMA UnaryFacts ==
  ASSUME NEW B, Going(B), given # <<>>, Top.kind \in UnaryKinds, Len(Top.kept) = Len(Children(Top.kind)) - 1
  PROVE  /\ IsWord(Child) /\ OnTop(code, Child, B[Index])
         /\ code.depth = After(Child, B[Index]) /\ Placed(Child, B[Index])
         /\ Top.kind \notin Structured \cup Roots
<1>1. Children(Top.kind) = <<"word">>
  BY ChildrenOf DEF UnaryKinds
<1>2. Len(Top.kept) = 0 /\ Top.kind # "block" /\ Top.kind \notin Structured \cup Roots
  BY <1>1 DEF UnaryKinds, Structured, Roots
<1>3. B[Index + 1] = B[Index] /\ Wanted(Top) = "word"
  BY <1>1, <1>2, FirstChild DEF Going
<1>4. IsWord(Child)
  BY <1>2, <1>3, ReturnedFacts DEF GivenOK, Arm, Structured
<1>5. QED
  BY <1>2, <1>3, <1>4, ReturnedFacts

\* Loading an operand that is on top, to compute with it.
LEMMA LoadOnTop ==
  ASSUME NEW c \in Emitted, NEW v, Readable(v), NEW d, d = LoadAndUse(c, v), NEW b
  PROVE  /\ d \in Emitted /\ Keeps(c, d, b) /\ d.depth = c.depth /\ d.r1 = Read(c, v)
         /\ d.slots = c.slots /\ d.locals = c.locals /\ d.wasm = c.wasm /\ d.r8 = c.r8
         /\ c.exact /\ Holds(c, v) => d.exact
  BY LoadAndUseFacts DEF Keeps

LEMMA LowerUnaryStep ==
  ASSUME NEW B, Going(B), LowerUnary
  PROVE  IInv'
<1> DEFINE b == B[Index]
           r == Reserve(code, Child)
           c == LoadAndUse(r, Child)
           slot == SlotFor(code, Child)
           d == Leave(c, New, slot, Top.retain)
           v == Left(New, slot, Top.retain)
<1>1. given # <<>> /\ Top.kind = "unary" /\ Len(Top.kept) = Len(Children(Top.kind)) - 1 /\ Return(d, v)
  BY DEF LowerUnary, Complete, Returned
<1>2. /\ IsWord(Child) /\ OnTop(code, Child, b) /\ Top.kind \notin Structured \cup Roots
  BY <1>1, UnaryFacts DEF UnaryKinds
<1>3. b \in Nat /\ TempSlots \in Nat /\ New \in Nat /\ Top.retain \in BOOLEAN /\ Readable(Child)
      /\ b <= TempSlots
  BY <1>1, ReturnedFacts
<1>4. slot = b + 1 /\ r \in Emitted /\ r.depth = b + 1 /\ SameWords(code, r)
  BY <1>2, ReserveFacts
<1>5. slot <= TempSlots + 4
  BY <1>3, <1>4
<1>6. Holds(r, Child) = Holds(code, Child)
  BY <1>4, HoldsSame
<1> HIDE DEF r
<1>7. c \in Emitted /\ Keeps(r, c, b) /\ c.depth = r.depth /\ (r.exact /\ Holds(r, Child) => c.exact)
  BY <1>3, <1>4, LoadOnTop
<1> HIDE DEF c, slot, b
<1>8. Leaves(c, d, v, New, b, Top.retain)
  BY <1>3, <1>4, <1>5, <1>7, LeaveFacts
<1> HIDE DEF d, v
<1>9. /\ d \in Emitted /\ d.depth = After(v, b) /\ Placed(v, b) /\ ValueOK(v) /\ IsWord(v)
      /\ v.in \in {"R1", "owned"} /\ (v.in = "R1" => Top.retain) /\ Holds(d, v)
      /\ Keeps(c, d, b) /\ d.exact = c.exact
  BY <1>3, <1>4, <1>7, <1>8 DEF Leaves, After
<1>10. Gives("unary") = "word"
  BY GivesOf
<1>11. Suits(v, Gives(Top.kind)) /\ Gives(Top.kind) # "exit" /\ v.in # "borrowed"
  BY <1>1, <1>9, <1>10 DEF Suits
<1>12. /\ \A s \in 1 .. b : d.slots[s] = code.slots[s]
       /\ d.locals = code.locals /\ d.wasm = code.wasm /\ d.r8 = code.r8
       /\ code.exact /\ Holds(code, Child) => d.exact
  BY <1>4, <1>6, <1>7, <1>9 DEF Keeps, SameWords
<1>13. QED
  BY <1>1, <1>2, <1>9, <1>11, <1>12, ReturnedFacts, Returning DEF b

LEMMA LowerInPlaceStep ==
  ASSUME NEW B, Going(B), LowerInPlace
  PROVE  IInv'
<1> DEFINE b == B[Index]
           r == Reserve(code, Child)
           c == LoadAndUse(r, Child)
           slot == SlotFor(code, Child)
           high == Owned(c.depth + 1, 0)
           a == Allocate(c, 1)
           e == Store(a, high.at, New)
           held == IF Top.kind = "extract" THEN Release(e, high) ELSE c
           d == Leave(held, New, slot, FALSE)
           v == Owned(slot, New)
<1>1. given # <<>> /\ Top.kind \in {"cpu", "grow", "extract"} /\ Len(Top.kept) = Len(Children(Top.kind)) - 1
      /\ Return(d, v)
  BY DEF LowerInPlace, Complete, Returned
<1>2. /\ IsWord(Child) /\ OnTop(code, Child, b) /\ Top.kind \notin Structured \cup Roots
  BY <1>1, UnaryFacts DEF UnaryKinds
<1>3. b \in Nat /\ TempSlots \in Nat /\ New \in Nat /\ Readable(Child) /\ b <= TempSlots
  BY <1>1, ReturnedFacts
<1>4. slot = b + 1 /\ r \in Emitted /\ r.depth = b + 1 /\ SameWords(code, r)
  BY <1>2, ReserveFacts
<1>5. slot <= TempSlots + 4
  BY <1>3, <1>4
<1>6. Holds(r, Child) = Holds(code, Child)
  BY <1>4, HoldsSame
<1> HIDE DEF r
<1>7. c \in Emitted /\ Keeps(r, c, b) /\ c.depth = r.depth /\ (r.exact /\ Holds(r, Child) => c.exact)
  BY <1>3, <1>4, LoadOnTop
<1> HIDE DEF c
<1>8. held \in Emitted /\ Keeps(c, held, b) /\ held.depth = c.depth /\ held.exact = c.exact
  <2>1. a \in Emitted /\ a.depth = b + 2 /\ SameWords(c, a)
    BY <1>3, <1>4, <1>7, AllocateFacts
  <2>2. high \in Value /\ high.at = b + 2 /\ IsOwned(high) /\ Words(high) = 1
    BY <1>3, <1>4, <1>7, OwnedType
  <2> HIDE DEF a, high
  <2>3. /\ e \in Emitted /\ e.depth = a.depth
        /\ \A s \in 1 .. TempSlots + 4 : e.slots[s] = IF s = high.at THEN New ELSE a.slots[s]
        /\ e.locals = a.locals /\ e.wasm = a.wasm /\ e.r8 = a.r8 /\ e.exact = a.exact
    BY <1>3, <2>1, StoreFacts
  <2> HIDE DEF e
  <2>4. e.depth = After(high, b + 1) /\ b + 1 \in Nat
    BY <1>3, <2>1, <2>2, <2>3 DEF After
  <2>5. Release(e, high) \in Emitted /\ SameWords(e, Release(e, high)) /\ Release(e, high).depth = b + 1
    BY <2>2, <2>3, <2>4, ReleaseTop
  <2>6. \A s \in 1 .. b : e.slots[s] = c.slots[s]
    BY <1>3, <2>1, <2>2, <2>3 DEF SameWords
  <2>7. Keeps(c, Release(e, high), b) /\ Release(e, high).exact = c.exact
    BY <2>1, <2>3, <2>5, <2>6 DEF Keeps, SameWords
  <2>8. QED
    BY <1>4, <1>7, <2>5, <2>7 DEF Keeps
<1> HIDE DEF held, slot, b
<1>9. Stores(held, d, v, New, b)
  <2>1. slot = b + 1 /\ slot <= held.depth /\ slot <= TempSlots + 4 /\ held \in Emitted /\ b \in Nat /\ New \in Nat
    BY <1>3, <1>4, <1>5, <1>7, <1>8
  <2>2. QED
    BY <2>1, LeaveInSlotFacts
<1> HIDE DEF d, v
<1>10. /\ d \in Emitted /\ d.depth = After(v, b) /\ Placed(v, b) /\ ValueOK(v) /\ IsWord(v)
       /\ v.in = "owned" /\ Holds(d, v)
       /\ Keeps(held, d, b) /\ d.exact = held.exact
  BY <1>3, <1>4, <1>7, <1>8, <1>9 DEF Stores
<1>11. Gives(Top.kind) = "word"
  BY <1>1, GivesOf
<1>12. Suits(v, Gives(Top.kind)) /\ Gives(Top.kind) # "exit" /\ v.in # "borrowed" /\ v.in # "R1"
  BY <1>10, <1>11 DEF Suits
<1>13. /\ \A s \in 1 .. b : d.slots[s] = code.slots[s]
       /\ d.locals = code.locals /\ d.wasm = code.wasm /\ d.r8 = code.r8
       /\ code.exact /\ Holds(code, Child) => d.exact
  BY <1>4, <1>6, <1>7, <1>8, <1>10 DEF Keeps, SameWords
<1>14. QED
  BY <1>1, <1>2, <1>10, <1>12, <1>13, ReturnedFacts, Returning DEF b

\* What an operation that gives nothing leaves.
LEMMA ReturnNothing ==
  ASSUME NEW B, Going(B), NEW c \in Emitted, Return(c, Absent),
         Top.kind \notin Structured \cup Roots, Gives(Top.kind) = "none", c.depth = B[Index],
         Special = {} /\ Correct /\ Runs =>
           /\ c.exact /\ c.locals = c.wasm
           /\ \A s \in 1 .. B[Index] : c.slots[s] = code.slots[s]
           /\ c.r8 = code.r8 \/ Top.kind \in Calling
  PROVE  IInv'
<1>1. /\ ValueOK(Absent) /\ Absent.in = "absent" /\ ~IsOwned(Absent)
      /\ Holds(c, Absent)
  BY PlainType, AbsentHolds
<1>2. Suits(Absent, Gives(Top.kind)) /\ Placed(Absent, B[Index]) /\ c.depth = After(Absent, B[Index])
  BY <1>1 DEF Suits, Placed, After
<1>3. QED
  BY <1>1, <1>2, Returning DEF Going

LEMMA LowerDropStep ==
  ASSUME NEW B, Going(B), LowerDrop
  PROVE  IInv'
<1> DEFINE d == Release(code, Child)
<1>1. given # <<>> /\ Top.kind = "drop" /\ Len(Top.kept) = Len(Children(Top.kind)) - 1 /\ Return(d, Absent)
  BY DEF LowerDrop, Complete, Returned
<1>2. code.depth = After(Child, B[Index]) /\ Top.kind \notin Structured \cup Roots
  BY <1>1, UnaryFacts DEF UnaryKinds
<1>3. d \in Emitted /\ SameWords(code, d) /\ d.depth = B[Index]
  BY <1>1, <1>2, ReturnedFacts, ReleaseTop
<1> HIDE DEF d
<1>4. Gives(Top.kind) = "none"
  BY <1>1, GivesOf
<1>5. QED
  BY <1>1, <1>2, <1>3, <1>4, ReturnedFacts, ReturnNothing DEF SameWords

LEMMA LowerPortWriteStep ==
  ASSUME NEW B, Going(B), LowerPortWrite
  PROVE  IInv'
<1> DEFINE c == LoadAndUse(code, Child)
           d == Release(c, Child)
<1>1. given # <<>> /\ Top.kind = "out" /\ Len(Top.kept) = Len(Children(Top.kind)) - 1 /\ Return(d, Absent)
  BY DEF LowerPortWrite, Complete, Returned
<1>2. code.depth = After(Child, B[Index]) /\ Top.kind \notin Structured \cup Roots
  BY <1>1, UnaryFacts DEF UnaryKinds
<1>3. /\ c \in Emitted /\ c.depth = code.depth /\ c.slots = code.slots /\ c.locals = code.locals
      /\ c.wasm = code.wasm /\ c.r8 = code.r8 /\ (code.exact /\ Holds(code, Child) => c.exact)
  BY <1>1, ReturnedFacts, LoadAndUseFacts
<1> HIDE DEF c
<1>4. d \in Emitted /\ SameWords(c, d) /\ d.depth = B[Index]
  BY <1>1, <1>2, <1>3, ReturnedFacts, ReleaseTop
<1> HIDE DEF d
<1>5. Gives(Top.kind) = "none"
  BY <1>1, GivesOf
<1>6. QED
  BY <1>1, <1>2, <1>3, <1>4, <1>5, ReturnedFacts, ReturnNothing DEF SameWords

-----------------------------------------------------------------------------
(* Operations with several operands.                                        *)

LEMMA KeepsTransitive ==
  ASSUME NEW c, NEW d, NEW e, NEW b, Keeps(c, d, b), Keeps(d, e, b)
  PROVE  Keeps(c, e, b)
  BY DEF Keeps

LEMMA KeepsFewer ==
  ASSUME NEW c, NEW d, NEW a \in Nat, NEW b \in Nat, a <= b, Keeps(c, d, b)
  PROVE  Keeps(c, d, a)
<1>1. \A s \in 1 .. a : s \in 1 .. b
  OBVIOUS
<1>2. QED
  BY <1>1 DEF Keeps

LEMMA AfterType ==
  ASSUME NEW v \in Value, NEW b \in Nat
  PROVE  After(v, b) \in Nat /\ b <= After(v, b) /\ After(v, b) <= b + 2
  BY WordsType DEF After

\* An operand below what the code changes stays what it is.
LEMMA StaysHeld ==
  ASSUME NEW c, NEW d, NEW b \in Nat, Keeps(c, d, b),
         NEW v, ValueOK(v), v.in # "R1", NEW a \in Nat, Placed(v, a), After(v, a) <= b
  PROVE  Holds(c, v) = Holds(d, v)
<1>1. v \in Value /\ (v.high # 0 => v.in = "owned")
  BY DEF ValueOK
<1>2. CASE v.in = "owned"
  <2>1. v.at = a + 1 /\ v.high \in {0, a + 2} /\ a + Words(v) <= b
    BY <1>2 DEF Placed, After, IsOwned
  <2>2. v.at \in 1 .. b /\ (v.high # 0 => v.high \in 1 .. b)
    BY <2>1 DEF Words
  <2>3. d.slots[v.at] = c.slots[v.at] /\ (v.high # 0 => d.slots[v.high] = c.slots[v.high])
    BY <2>2 DEF Keeps
  <2>4. QED
    BY <1>2, <2>3 DEF Holds, Read
<1>3. CASE v.in # "owned"
  BY <1>1, <1>3 DEF Keeps, Holds, Read, Value
<1>4. QED
  BY <1>2, <1>3

\* Using operands changes nothing but R1.
LEMMA UsedFacts ==
  ASSUME NEW c \in Emitted, NEW v, NEW b
  PROVE  Use(c, v) \in Emitted /\ Use(c, v).depth = c.depth /\ Keeps(c, Use(c, v), b)
         /\ (c.exact /\ Holds(c, v) => Use(c, v).exact)
  BY UseFacts DEF Keeps

LEMMA AddressKeeps ==
  ASSUME NEW c \in Emitted, NEW v, NEW b
  PROVE  Address(c, v) \in Emitted /\ Address(c, v).depth = c.depth /\ Keeps(c, Address(c, v), b)
         /\ (c.exact /\ Holds(c, v) => Address(c, v).exact)
  BY AddressFacts DEF Keeps

LEMMA SameKeeps ==
  ASSUME NEW c, NEW d, SameWords(c, d), NEW b
  PROVE  Keeps(c, d, b)
  BY DEF SameWords, Keeps

\* The call that is on returns a word or pair in slots.
LEMMA ReturnOwned ==
  ASSUME NEW B, Going(B), NEW c \in Emitted, NEW v, Return(c, v),
         Top.kind \notin Structured \cup Roots, Gives(Top.kind) \in {"word", "pair"},
         ValueOK(v), v.in \notin {"R8", "R1"}, IF Gives(Top.kind) = "pair" THEN IsPair(v) ELSE IsWord(v),
         Placed(v, B[Index]), c.depth = After(v, B[Index]),
         Special = {} /\ Correct => v.in # "borrowed",
         Special = {} /\ Correct /\ Runs => Keeps(code, c, B[Index]) /\ c.exact /\ Holds(c, v)
  PROVE  IInv'
<1>1. Suits(v, Gives(Top.kind)) /\ Gives(Top.kind) # "exit"
  BY DEF Suits
<1>2. ASSUME Special = {}, Correct, Runs
      PROVE  c.locals = c.wasm /\ c.r8 = code.r8 /\ \A s \in 1 .. B[Index] : c.slots[s] = code.slots[s]
  BY <1>2 DEF Correct, Exact, Keeps
<1>3. QED
  BY <1>1, <1>2, Returning DEF Going

\* The first operand of two, when the second is there.
FirstOf(B) ==
  /\ ValueOK(Kept(1)) /\ Kept(1) \in Value /\ IsWord(Kept(1)) /\ Kept(1).in \in {"immediate", "owned", "R8"}
  /\ Kept(1).in = "R8" <=> Top.kind = "twoport"
  /\ Top.kind \in {"indirect", "copy64"} => Kept(1).in = "owned"
  /\ Placed(Kept(1), B[Index]) /\ B[Index + 1] = After(Kept(1), B[Index])
  /\ Readable(Kept(1))
  /\ Special = {} /\ Correct /\ Runs => Holds(code, Kept(1))

TwoWords == {"cpu2", "store", "copy64", "call", "indirect", "ports", "twoport", "brifvalue"}

LEMMA PlacedReadable ==
  ASSUME NEW v, ValueOK(v), NEW b \in Nat, Placed(v, b), b <= TempSlots
  PROVE  Readable(v)
<1>1. TempSlots \in Nat
  BY OperandsAssumption
<1>2. QED
  BY <1>1 DEF Readable, Placed, IsOwned

LEMMA SecondFacts ==
  ASSUME NEW B, Going(B), given # <<>>, Top.kind \in TwoWords \cup {"store64", "call64"},
         Len(Top.kept) = Len(Children(Top.kind)) - 1
  PROVE  /\ FirstOf(B) /\ Top.kind \notin Structured \cup Roots
         /\ IF Top.kind \in TwoWords THEN IsWord(Child) ELSE IsPair(Child)
         /\ Top.kept = <<Kept(1)>>
<1>1. Children(Top.kind) = IF Top.kind \in TwoWords THEN <<"word", "word">> ELSE <<"word", "pair">>
  BY ChildrenOf DEF TwoWords
<1>2. Len(Top.kept) = 1
  BY <1>1
<1>3. Top.kind \notin {"block", "ifelse", "binary", "select"} /\ Top.kind \notin Structured \cup Roots
  BY DEF TwoWords, Structured, Roots
<1>4. /\ Top.kept = <<Kept(1)>> /\ Top.side # "constant"
      /\ Kept(1) \in Value /\ ValueOK(Kept(1))
      /\ Placed(Kept(1), B[Index]) /\ B[Index + 1] = After(Kept(1), B[Index])
      /\ Wanted(Top) = Children(Top.kind)[2]
      /\ KeptAs(Top, 1)
  BY <1>2, <1>3, SecondChild DEF Going
<1>5. IsWord(Kept(1)) /\ Kept(1).in \notin {"borrowed", "R1"} /\ (Kept(1).in = "R8" <=> Top.kind = "twoport")
      /\ (Top.kind \in {"indirect", "copy64"} => Kept(1).in = "owned")
  <2>1. Children(Top.kind)[1] = "word"
    BY <1>1
  <2>2. QED
    BY <1>4, <2>1 DEF KeptAs, Kept
<1>6. Kept(1).in \in {"immediate", "owned", "R8"}
  BY <1>4, <1>5 DEF Value, IsWord
<1>7. Readable(Kept(1))
  BY <1>4, ReturnedFacts, PlacedReadable
<1>8. IF Top.kind \in TwoWords THEN IsWord(Child) ELSE IsPair(Child)
  <2>1. GivenOK(Top, Child)
    BY ReturnedFacts
  <2>2. ~Arm(Top)
    BY <1>3 DEF Arm, Structured
  <2>3. QED
    BY <1>1, <1>4, <2>1, <2>2 DEF GivenOK
<1>9. Special = {} /\ Correct /\ Runs => Holds(code, Kept(1))
  <2>1. 1 \in DOMAIN Top.kept
    BY <1>4
  <2>2. QED
    BY <2>1, ReturnedFacts DEF Kept
<1>10. QED
  BY <1>3, <1>4, <1>5, <1>6, <1>7, <1>8, <1>9 DEF FirstOf

\* Releasing the operands of a call, last one first or first one first, gives
\* back all of its slots.
LEMMA ReleaseBothFacts ==
  ASSUME NEW c \in Emitted, NEW u \in Value, NEW v \in Value, NEW b \in Nat,
         c.depth = After(v, After(u, b))
  PROVE  /\ ReleaseBoth(c, u, v) \in Emitted /\ SameWords(c, ReleaseBoth(c, u, v))
         /\ ReleaseBoth(c, u, v).depth = b
<1> DEFINE m == After(v, b)
           d == Release(c, u)
           e == Release(d, v)
<1>1. m \in Nat /\ Words(u) \in {1, 2} /\ Words(v) \in {1, 2}
  BY AfterType, WordsType
<1>2. c.depth = After(u, m)
  BY <1>1 DEF After
<1> HIDE DEF m
<1>3. d \in Emitted /\ SameWords(c, d) /\ d.depth = m
  BY <1>1, <1>2, ReleaseTop
<1> HIDE DEF d
<1>4. e \in Emitted /\ SameWords(d, e) /\ e.depth = b
  BY <1>3, ReleaseTop DEF m
<1>5. SameWords(c, e)
  BY <1>3, <1>4 DEF SameWords
<1>6. e = ReleaseBoth(c, u, v)
  BY DEF e, d, ReleaseBoth
<1>7. QED
  BY <1>4, <1>5, <1>6

\* A store with an address and an operand leaves nothing.
LEMMA LowerStoreStep ==
  ASSUME NEW B, Going(B), LowerStore
  PROVE  IInv'
<1> DEFINE a == Address(code, Kept(1))
           c == LoadAndUse(a, Child)
           d == ReleaseBoth(c, Kept(1), Child)
           b == B[Index]
<1>1. given # <<>> /\ Top.kind = "store" /\ Len(Top.kept) = Len(Children(Top.kind)) - 1 /\ Return(d, Absent)
  BY DEF LowerStore, Complete, Returned
<1>2. FirstOf(B) /\ Top.kind \notin Structured \cup Roots
  BY <1>1, SecondFacts DEF TwoWords
<1>3. a \in Emitted /\ a.depth = code.depth /\ Keeps(code, a, code.depth) /\ (code.exact /\ Holds(code, Kept(1)) => a.exact)
  BY <1>1, ReturnedFacts, AddressKeeps
<1> HIDE DEF a
<1>4. c \in Emitted /\ Keeps(a, c, code.depth) /\ c.depth = a.depth /\ (a.exact /\ Holds(a, Child) => c.exact)
  BY <1>1, <1>3, ReturnedFacts, LoadOnTop
<1> HIDE DEF c
<1>5. d \in Emitted /\ SameWords(c, d) /\ d.depth = b
  BY <1>1, <1>2, <1>3, <1>4, ReturnedFacts, ReleaseBothFacts DEF FirstOf
<1> HIDE DEF d
<1>6. Keeps(code, d, b)
  <2>1. Keeps(code, c, code.depth)
    BY <1>3, <1>4, KeepsTransitive
  <2>2. Keeps(code, c, b)
    <3>1. code.depth \in Nat /\ b \in Nat /\ b <= code.depth
      BY <1>1, ReturnedFacts
    <3>2. QED
      BY <2>1, <3>1, KeepsFewer
  <2>3. QED
    BY <1>5, <2>2 DEF SameWords, Keeps
<1>7. ASSUME Special = {}, Correct, Runs
      PROVE  d.exact
  <2>1. Child.in # "R1"
    <3>1. Child.in = "R1" => Retains(Top)
      BY <1>1, ReturnedFacts DEF GivenOK
    <3>2. ~Top.retain
      BY <1>1, <1>7, TopFacts, ReturnedFacts DEF Correct, Ordinary, TakesLastFromR1, Index
    <3>3. QED
      BY <1>1, <3>1, <3>2 DEF Retains
  <2>2. Holds(code, Child) /\ code.exact /\ Holds(code, Kept(1))
    BY <1>1, <1>2, <1>7, ReturnedFacts DEF FirstOf
  <2>3. Holds(a, Child) = Holds(code, Child)
    BY <1>1, <1>3, <2>1, ReturnedFacts, StaysHeld
  <2>4. QED
    BY <1>3, <1>4, <1>5, <2>2, <2>3 DEF SameWords
<1>8. Gives(Top.kind) = "none"
  BY <1>1, GivesOf
<1>9. ASSUME Special = {}, Correct, Runs
      PROVE  d.exact /\ d.locals = d.wasm /\ d.r8 = code.r8 /\ \A s \in 1 .. b : d.slots[s] = code.slots[s]
  BY <1>6, <1>7, <1>9 DEF Correct, Exact, Keeps
<1>10. QED
  BY <1>1, <1>2, <1>5, <1>8, <1>9, ReturnNothing

\* ReturnNothing for operations that keep all that lies below.
LEMMA ReturnNone ==
  ASSUME NEW B, Going(B), NEW c \in Emitted, Return(c, Absent),
         Top.kind \notin Structured \cup Roots, Gives(Top.kind) = "none", c.depth = B[Index],
         Special = {} /\ Correct /\ Runs => Keeps(code, c, B[Index]) /\ c.exact
  PROVE  IInv'
<1>1. ASSUME Special = {}, Correct, Runs
      PROVE  /\ c.exact /\ c.locals = c.wasm /\ c.r8 = code.r8
             /\ \A s \in 1 .. B[Index] : c.slots[s] = code.slots[s]
  BY <1>1 DEF Correct, Exact, Keeps
<1>2. QED
  BY <1>1, ReturnNothing

\* An operation that is taken apart from what R1 has gets its last operand
\* somewhere else.
LEMMA NotFromR1 ==
  ASSUME NEW B, Going(B), given # <<>>, Top.kind \in TakesLastFromR1, Special = {}, Correct
  PROVE  Child.in # "R1"
<1>1. Child.in = "R1" => Retains(Top)
  BY ReturnedFacts DEF GivenOK
<1>2. ~Top.retain
  BY TopFacts, ReturnedFacts DEF Correct, Ordinary, Index
<1>3. QED
  BY <1>1, <1>2 DEF Retains, TakesLastFromR1

LEMMA LowerPortWritesStep ==
  ASSUME NEW B, Going(B), LowerPortWrites
  PROVE  IInv'
<1> DEFINE c == IF Child.in = "R1" THEN Materialize(code, Child) ELSE code
           last == IF Child.in = "R1" THEN Reserved(code, Child) ELSE Child
           l == LoadAndUse(c, Kept(1))
           u == Use(l, last)
           d == ReleaseBoth(u, Kept(1), last)
           b == B[Index]
           m == B[Index + 1]
<1>1. given # <<>> /\ Top.kind = "ports" /\ Len(Top.kept) = Len(Children(Top.kind)) - 1 /\ Return(d, Absent)
  BY DEF LowerPortWrites, Complete, Returned
<1>2. FirstOf(B) /\ Top.kind \notin Structured \cup Roots /\ IsWord(Child)
  BY <1>1, SecondFacts DEF TwoWords
<1>3. b \in Nat /\ m \in Nat /\ b <= m /\ OnTop(code, Child, m) /\ code \in Emitted /\ m = After(Kept(1), b)
      /\ Kept(1).in # "R1"
  BY <1>1, <1>2, ReturnedFacts DEF FirstOf
<1> HIDE DEF b, m
<1>4. /\ c \in Emitted /\ Keeps(code, c, m) /\ c.exact = code.exact
      /\ last \in Value /\ ValueOK(last) /\ last.in # "R1"
      /\ Placed(last, m) /\ c.depth = After(last, m)
      /\ Holds(code, Child) => Holds(c, last)
  BY <1>2, <1>3, SpilledFacts
<1> HIDE DEF c, last
<1>5. Holds(c, Kept(1)) = Holds(code, Kept(1)) /\ m <= c.depth /\ c.depth \in Nat
  <2>1. After(Kept(1), b) <= m /\ ValueOK(Kept(1)) /\ Placed(Kept(1), b)
    BY <1>2, <1>3 DEF FirstOf, b
  <2>2. Holds(c, Kept(1)) = Holds(code, Kept(1))
    BY <1>3, <1>4, <2>1, StaysHeld
  <2>3. QED
    BY <1>3, <1>4, <2>2, AfterType
<1>6. l \in Emitted /\ Keeps(c, l, c.depth) /\ l.depth = c.depth /\ (c.exact /\ Holds(c, Kept(1)) => l.exact)
  BY <1>2, <1>4, LoadOnTop DEF FirstOf
<1>7. Holds(l, last) = Holds(c, last)
  <2> HIDE DEF l
  <2>1. After(last, m) <= c.depth
    BY <1>4, <1>5
  <2>2. QED
    BY <1>3, <1>4, <1>5, <1>6, <2>1, StaysHeld
<1> HIDE DEF l
<1>8. u \in Emitted /\ u.depth = l.depth /\ Keeps(l, u, c.depth) /\ (l.exact /\ Holds(l, last) => u.exact)
  BY <1>6, UsedFacts
<1> HIDE DEF u
<1>9. d \in Emitted /\ SameWords(u, d) /\ d.depth = b
  BY <1>2, <1>3, <1>4, <1>6, <1>8, ReleaseBothFacts DEF FirstOf
<1> HIDE DEF d
<1>10. Keeps(code, d, b)
  <2>1. Keeps(c, u, c.depth)
    BY <1>6, <1>8, KeepsTransitive
  <2>2. Keeps(c, u, m)
    BY <1>3, <1>5, <2>1, KeepsFewer
  <2>3. Keeps(code, u, m)
    BY <1>4, <2>2, KeepsTransitive
  <2>4. Keeps(code, u, b)
    BY <1>3, <2>3, KeepsFewer
  <2>5. QED
    BY <1>9, <2>4 DEF SameWords, Keeps
<1>11. ASSUME Special = {}, Correct, Runs
       PROVE  d.exact
  <2>1. Holds(code, Child) /\ code.exact /\ Holds(code, Kept(1))
    BY <1>1, <1>2, <1>11, ReturnedFacts DEF FirstOf
  <2>2. QED
    BY <1>4, <1>5, <1>6, <1>7, <1>8, <1>9, <2>1 DEF SameWords
<1>12. Gives(Top.kind) = "none"
  BY <1>1, GivesOf
<1>13. QED
  BY <1>1, <1>2, <1>9, <1>10, <1>11, <1>12, ReturnNone DEF b

LEMMA LowerTwoPortsStep ==
  ASSUME NEW B, Going(B), LowerTwoPorts
  PROVE  IInv'
<1> DEFINE l == LoadAndUse(code, Child)
           u == Use(l, Kept(1))
           d == Release(u, Child)
           b == B[Index]
<1>1. given # <<>> /\ Top.kind = "twoport" /\ Len(Top.kept) = Len(Children(Top.kind)) - 1 /\ Return(d, Absent)
  BY DEF LowerTwoPorts, Complete, Returned
<1>2. FirstOf(B) /\ Top.kind \notin Structured \cup Roots
  BY <1>1, SecondFacts DEF TwoWords
<1>3. b \in Nat /\ code \in Emitted /\ Kept(1).in = "R8" /\ B[Index + 1] = b /\ code.depth = After(Child, b)
  BY <1>1, <1>2, ReturnedFacts DEF FirstOf, After, IsOwned
<1>4. l \in Emitted /\ Keeps(code, l, b) /\ l.depth = code.depth /\ l.r8 = code.r8
      /\ (code.exact /\ Holds(code, Child) => l.exact)
  BY <1>1, <1>3, ReturnedFacts, LoadOnTop
<1>5. Holds(l, Kept(1)) = Holds(code, Kept(1))
  BY <1>2, <1>3, <1>4 DEF FirstOf, IsWord, Holds, Read
<1> HIDE DEF l
<1>6. u \in Emitted /\ u.depth = l.depth /\ Keeps(l, u, b) /\ (l.exact /\ Holds(l, Kept(1)) => u.exact)
  BY <1>4, UsedFacts
<1> HIDE DEF u
<1>7. d \in Emitted /\ SameWords(u, d) /\ d.depth = b
  BY <1>1, <1>3, <1>4, <1>6, ReturnedFacts, ReleaseTop
<1> HIDE DEF d
<1>8. Keeps(code, d, b)
  <2>1. Keeps(code, u, b)
    BY <1>4, <1>6, KeepsTransitive
  <2>2. QED
    BY <1>7, <2>1 DEF SameWords, Keeps
<1>9. ASSUME Special = {}, Correct, Runs
      PROVE  d.exact
  <2>1. Holds(code, Child) /\ code.exact /\ Holds(code, Kept(1))
    BY <1>1, <1>2, <1>9, ReturnedFacts DEF FirstOf
  <2>2. QED
    BY <1>4, <1>5, <1>6, <1>7, <2>1 DEF SameWords
<1>10. Gives(Top.kind) = "none"
  BY <1>1, GivesOf
<1>11. QED
  BY <1>1, <1>2, <1>7, <1>8, <1>9, <1>10, ReturnNone

\* The first two operands of three, when the third is there.
FirstTwoOf(B) ==
  LET b == B[Index]
      m == After(Kept(1), b)
  IN
  /\ ValueOK(Kept(1)) /\ Kept(1) \in Value /\ IsWord(Kept(1)) /\ Kept(1).in \in {"immediate", "owned"}
  /\ ValueOK(Kept(2)) /\ Kept(2) \in Value /\ IsWord(Kept(2)) /\ Kept(2).in \in {"immediate", "owned"}
  /\ Top.kind = "select" => Kept(1).in = "owned"
  /\ m \in Nat /\ Placed(Kept(1), b) /\ Placed(Kept(2), m) /\ B[Index + 1] = After(Kept(2), m)
  /\ Readable(Kept(1)) /\ Readable(Kept(2))
  /\ Special = {} /\ Correct /\ Runs => Holds(code, Kept(1)) /\ Holds(code, Kept(2))

LEMMA ThirdFacts ==
  ASSUME NEW B, Going(B), given # <<>>, Top.kind \in {"select", "packed", "bulk"},
         Len(Top.kept) = Len(Children(Top.kind)) - 1
  PROVE  FirstTwoOf(B) /\ Top.kind \notin Structured \cup Roots /\ IsWord(Child)
<1>1. Children(Top.kind) = <<"word", "word", "word">>
  BY ChildrenOf
<1>2. Len(Top.kept) = 2
  BY <1>1
<1>3. Top.kind \notin Structured \cup Roots
  BY DEF Structured, Roots
<1>4. /\ Top.kept = <<Kept(1), Kept(2)>>
      /\ Kept(1) \in Value /\ ValueOK(Kept(1)) /\ IsWord(Kept(1)) /\ Kept(1).in \in {"immediate", "owned"}
      /\ Kept(2) \in Value /\ ValueOK(Kept(2)) /\ IsWord(Kept(2)) /\ Kept(2).in \in {"immediate", "owned"}
      /\ Top.kind = "select" => Kept(1).in = "owned"
      /\ After(Kept(1), B[Index]) \in Nat
      /\ Placed(Kept(1), B[Index]) /\ Placed(Kept(2), After(Kept(1), B[Index]))
      /\ B[Index + 1] = After(Kept(2), After(Kept(1), B[Index]))
      /\ Wanted(Top) = "word"
  BY <1>2, ThirdChild DEF Going
<1>5. Readable(Kept(1)) /\ Readable(Kept(2))
  <2> DEFINE m == After(Kept(1), B[Index])
  <2>1. m \in Nat /\ m <= B[Index + 1] /\ B[Index + 1] <= TempSlots /\ B[Index] <= TempSlots /\ B[Index] \in Nat
    BY <1>4, ReturnedFacts, AfterType
  <2>2. m <= TempSlots /\ Placed(Kept(2), m)
    BY <1>4, <2>1, ReturnedFacts
  <2> HIDE DEF m
  <2>3. QED
    BY <1>4, <2>1, <2>2, PlacedReadable
<1>6. IsWord(Child)
  <2>1. GivenOK(Top, Child)
    BY ReturnedFacts
  <2>2. ~Arm(Top)
    BY DEF Arm
  <2>3. QED
    BY <1>4, <2>1, <2>2 DEF GivenOK
<1>7. Special = {} /\ Correct /\ Runs => Holds(code, Kept(1)) /\ Holds(code, Kept(2))
  <2>1. 1 \in DOMAIN Top.kept /\ 2 \in DOMAIN Top.kept
    BY <1>4
  <2>2. QED
    BY <2>1, ReturnedFacts DEF Kept
<1>8. QED
  BY <1>3, <1>4, <1>5, <1>6, <1>7 DEF FirstTwoOf

\* All three are released.
LEMMA ReleaseAllFacts ==
  ASSUME NEW c \in Emitted, NEW t \in Value, NEW u \in Value, NEW v \in Value, NEW b \in Nat,
         c.depth = After(v, After(u, After(t, b)))
  PROVE  LET d == Release(ReleaseBoth(c, t, u), v) IN
         d \in Emitted /\ SameWords(c, d) /\ d.depth = b
<1> DEFINE m == After(v, b)
           e == ReleaseBoth(c, t, u)
           d == Release(e, v)
<1>1. m \in Nat /\ Words(t) \in {1, 2} /\ Words(u) \in {1, 2} /\ Words(v) \in {1, 2}
  BY AfterType, WordsType
<1>2. c.depth = After(u, After(t, m))
  BY <1>1 DEF After
<1> HIDE DEF m
<1>3. e \in Emitted /\ SameWords(c, e) /\ e.depth = m
  BY <1>1, <1>2, ReleaseBothFacts
<1> HIDE DEF e
<1>4. d \in Emitted /\ SameWords(e, d) /\ d.depth = b
  BY <1>3, ReleaseTop DEF m
<1>5. SameWords(c, d)
  BY <1>3, <1>4 DEF SameWords
<1>6. QED
  BY <1>4, <1>5 DEF d, e

\* After two more loads, R1 has lost what was in it.
LEMMA LowerPackedStoreStep ==
  ASSUME NEW B, Going(B), LowerPackedStore
  PROVE  IInv'
<1> DEFINE a == Address(code, Kept(1))
           low == LoadAndUse(a, Child)
           u == Use(low, Kept(1))
           c == LoadAndUse(u, Kept(2))
           d == Release(ReleaseBoth(c, Kept(1), Kept(2)), Child)
           b == B[Index]
           m == After(Kept(1), b)
           n == B[Index + 1]
<1>1. given # <<>> /\ Top.kind = "packed" /\ Len(Top.kept) = Len(Children(Top.kind)) - 1 /\ Return(d, Absent)
  BY DEF LowerPackedStore, Complete, Returned
<1>2. FirstTwoOf(B) /\ Top.kind \notin Structured \cup Roots
  BY <1>1, ThirdFacts
<1>3. /\ ValueOK(Kept(1)) /\ Kept(1) \in Value /\ Kept(1).in # "R1" /\ Readable(Kept(1))
      /\ ValueOK(Kept(2)) /\ Kept(2) \in Value /\ Kept(2).in # "R1" /\ Readable(Kept(2))
      /\ m \in Nat /\ Placed(Kept(1), b) /\ Placed(Kept(2), m) /\ n = After(Kept(2), m)
      /\ Special = {} /\ Correct /\ Runs => Holds(code, Kept(1)) /\ Holds(code, Kept(2))
  BY <1>2 DEF FirstTwoOf
<1>4. /\ b \in Nat /\ n \in Nat /\ b <= n /\ n <= code.depth /\ code.depth \in Nat /\ code \in Emitted
      /\ Child \in Value /\ ValueOK(Child) /\ Placed(Child, n) /\ code.depth = After(Child, n) /\ Readable(Child)
  BY <1>1, ReturnedFacts
<1>5. m <= n /\ After(Kept(1), b) <= n /\ After(Kept(2), m) <= n /\ After(Child, n) <= code.depth
  BY <1>3, <1>4, AfterType
<1> HIDE DEF n, m, b
<1>6. a \in Emitted /\ a.depth = code.depth /\ Keeps(code, a, code.depth) /\ (code.exact /\ Holds(code, Kept(1)) => a.exact)
  BY <1>4, AddressKeeps
<1> HIDE DEF a
<1>7. low \in Emitted /\ Keeps(a, low, code.depth) /\ low.depth = a.depth /\ (a.exact /\ Holds(a, Child) => low.exact)
  BY <1>4, <1>6, LoadOnTop
<1> HIDE DEF low
<1>8. u \in Emitted /\ u.depth = low.depth /\ Keeps(low, u, code.depth) /\ (low.exact /\ Holds(low, Kept(1)) => u.exact)
  BY <1>7, UsedFacts
<1> HIDE DEF u
<1>9. c \in Emitted /\ Keeps(u, c, code.depth) /\ c.depth = u.depth /\ (u.exact /\ Holds(u, Kept(2)) => c.exact)
  BY <1>3, <1>8, LoadOnTop
<1> HIDE DEF c
<1>10. d \in Emitted /\ SameWords(c, d) /\ d.depth = b
  BY <1>3, <1>4, <1>6, <1>7, <1>8, <1>9, ReleaseAllFacts DEF m
<1> HIDE DEF d
<1>11. Keeps(code, low, code.depth) /\ Keeps(code, u, code.depth) /\ Keeps(code, c, code.depth)
  BY <1>6, <1>7, <1>8, <1>9, KeepsTransitive
<1>12. Keeps(code, d, b)
  <2>1. Keeps(code, c, b)
    <3>1. b <= code.depth
      BY <1>4
    <3>2. QED
      BY <1>4, <1>11, <3>1, KeepsFewer
  <2>2. QED
    BY <1>10, <2>1 DEF SameWords, Keeps
<1>13. ASSUME Special = {}, Correct, Runs
       PROVE  d.exact
  <2>1. Child.in # "R1"
    BY <1>1, <1>13, NotFromR1 DEF TakesLastFromR1
  <2>2. Holds(code, Child) /\ code.exact /\ Holds(code, Kept(1)) /\ Holds(code, Kept(2))
    BY <1>1, <1>3, <1>13, ReturnedFacts
  <2>3. Holds(a, Child) = Holds(code, Child)
    BY <1>4, <1>5, <1>6, <2>1, StaysHeld
  <2>4. After(Kept(1), b) <= code.depth /\ After(Kept(2), m) <= code.depth
    BY <1>3, <1>4, <1>5, AfterType
  <2>5. Holds(low, Kept(1)) = Holds(code, Kept(1))
    BY <1>3, <1>4, <1>11, <2>4, StaysHeld
  <2>6. Holds(u, Kept(2)) = Holds(code, Kept(2))
    BY <1>3, <1>4, <1>11, <2>4, StaysHeld
  <2>7. QED
    BY <1>6, <1>7, <1>8, <1>9, <1>10, <2>2, <2>3, <2>5, <2>6 DEF SameWords
<1>14. Gives(Top.kind) = "none"
  BY <1>1, GivesOf
<1>15. QED
  BY <1>1, <1>2, <1>10, <1>12, <1>13, <1>14, ReturnNone DEF b

LEMMA LowerBulkStep ==
  ASSUME NEW B, Going(B), LowerBulk
  PROVE  IInv'
<1> DEFINE a == LoadAndUse(code, Kept(1))
           u == LoadAndUse(a, Kept(2))
           c == LoadAndUse(u, Child)
           r == Release(ReleaseBoth(c, Kept(1), Kept(2)), Child)
           d == Call(r)
           b == B[Index]
           m == After(Kept(1), b)
           n == B[Index + 1]
<1>1. given # <<>> /\ Top.kind = "bulk" /\ Len(Top.kept) = Len(Children(Top.kind)) - 1 /\ Return(d, Absent)
  BY DEF LowerBulk, Complete, Returned, Arguments
<1>2. FirstTwoOf(B) /\ Top.kind \notin Structured \cup Roots
  BY <1>1, ThirdFacts
<1>3. /\ ValueOK(Kept(1)) /\ Kept(1) \in Value /\ Kept(1).in # "R1" /\ Readable(Kept(1))
      /\ ValueOK(Kept(2)) /\ Kept(2) \in Value /\ Kept(2).in # "R1" /\ Readable(Kept(2))
      /\ m \in Nat /\ Placed(Kept(1), b) /\ Placed(Kept(2), m) /\ n = After(Kept(2), m)
      /\ Special = {} /\ Correct /\ Runs => Holds(code, Kept(1)) /\ Holds(code, Kept(2))
  BY <1>2 DEF FirstTwoOf
<1>4. /\ b \in Nat /\ n \in Nat /\ b <= n /\ n <= code.depth /\ code.depth \in Nat /\ code \in Emitted
      /\ Child \in Value /\ ValueOK(Child) /\ Placed(Child, n) /\ code.depth = After(Child, n) /\ Readable(Child)
  BY <1>1, ReturnedFacts
<1>5. m <= n /\ After(Kept(1), b) <= n /\ After(Kept(2), m) <= n /\ After(Child, n) <= code.depth
      /\ After(Kept(2), m) <= code.depth
  BY <1>3, <1>4, AfterType
<1> HIDE DEF n, m, b
<1>6. a \in Emitted /\ a.depth = code.depth /\ Keeps(code, a, code.depth) /\ (code.exact /\ Holds(code, Kept(1)) => a.exact)
  BY <1>3, <1>4, LoadOnTop
<1> HIDE DEF a
<1>7. u \in Emitted /\ Keeps(a, u, code.depth) /\ u.depth = a.depth /\ (a.exact /\ Holds(a, Kept(2)) => u.exact)
  BY <1>3, <1>6, LoadOnTop
<1> HIDE DEF u
<1>8. c \in Emitted /\ Keeps(u, c, code.depth) /\ c.depth = u.depth /\ (u.exact /\ Holds(u, Child) => c.exact)
  BY <1>4, <1>7, LoadOnTop
<1> HIDE DEF c
<1>9. r \in Emitted /\ SameWords(c, r) /\ r.depth = b
  BY <1>3, <1>4, <1>6, <1>7, <1>8, ReleaseAllFacts DEF m
<1> HIDE DEF r
<1>10. d \in Emitted /\ d.depth = b /\ d.slots = r.slots /\ d.locals = r.locals /\ d.wasm = r.wasm /\ d.exact = r.exact
  BY <1>9, CallFacts
<1> HIDE DEF d
<1>11. Keeps(code, u, code.depth) /\ Keeps(code, c, code.depth)
  BY <1>6, <1>7, <1>8, KeepsTransitive
<1>12. Keeps(code, c, b)
  <2>1. b <= code.depth
    BY <1>4
  <2>2. QED
    BY <1>4, <1>11, <2>1, KeepsFewer
<1>13. ASSUME Special = {}, Correct, Runs
       PROVE  d.exact
  <2>1. Child.in # "R1"
    BY <1>1, <1>13, NotFromR1 DEF TakesLastFromR1
  <2>2. Holds(code, Child) /\ code.exact /\ Holds(code, Kept(1)) /\ Holds(code, Kept(2))
    BY <1>1, <1>3, <1>13, ReturnedFacts
  <2>3. Holds(u, Child) = Holds(code, Child)
    BY <1>4, <1>5, <1>11, <2>1, StaysHeld
  <2>4. Holds(a, Kept(2)) = Holds(code, Kept(2))
    BY <1>3, <1>4, <1>5, <1>6, StaysHeld
  <2>5. QED
    BY <1>6, <1>7, <1>8, <1>9, <1>10, <2>2, <2>3, <2>4 DEF SameWords
<1>14. Gives(Top.kind) = "none" /\ Top.kind \in Calling
  BY <1>1, GivesOf DEF Calling
<1>15. ASSUME Special = {}, Correct, Runs
       PROVE  d.exact /\ d.locals = d.wasm /\ \A s \in 1 .. b : d.slots[s] = code.slots[s]
  BY <1>9, <1>10, <1>12, <1>13, <1>15 DEF Correct, Exact, Keeps, SameWords
<1>16. QED
  BY <1>1, <1>2, <1>10, <1>14, <1>15, ReturnNothing DEF b

\* An i64 is stored through a slot for the address.
LEMMA LowerPairStoreStep ==
  ASSUME NEW B, Going(B), LowerPairStore
  PROVE  IInv'
<1> DEFINE p == code.depth + 1
           a == Address(code, Kept(1))
           e == Allocate(a, 1)
           c == Store(e, p, New)
           l == LoadAndUse(c, Child)
           r == ReleaseBoth(l, Kept(1), Child)
           o == Owned(p, 0)
           d == Release(r, o)
           b == B[Index]
           n == B[Index + 1]
<1>1. given # <<>> /\ Top.kind = "store64" /\ Len(Top.kept) = Len(Children(Top.kind)) - 1 /\ Return(d, Absent)
  BY DEF LowerPairStore, Complete, Returned
<1>2. FirstOf(B) /\ Top.kind \notin Structured \cup Roots /\ IsPair(Child)
  BY <1>1, SecondFacts DEF TwoWords
<1>3. /\ Kept(1) \in Value /\ n = After(Kept(1), b)
      /\ Special = {} /\ Correct /\ Runs => Holds(code, Kept(1))
  BY <1>2 DEF FirstOf
<1>4. /\ b \in Nat /\ n \in Nat /\ b <= n /\ n <= code.depth /\ code.depth \in Nat /\ code \in Emitted
      /\ Child \in Value /\ ValueOK(Child) /\ Placed(Child, n) /\ code.depth = After(Child, n) /\ Readable(Child)
      /\ Child.in = "owned" /\ New \in Nat /\ TempSlots \in Nat /\ code.depth <= TempSlots
  BY <1>1, <1>2, ReturnedFacts DEF IsPair
<1> HIDE DEF n, b
<1>5. a \in Emitted /\ a.depth = code.depth /\ Keeps(code, a, code.depth) /\ (code.exact /\ Holds(code, Kept(1)) => a.exact)
  BY <1>4, AddressKeeps
<1> HIDE DEF a
<1>6. e \in Emitted /\ e.depth = p /\ SameWords(a, e)
  BY <1>5, <1>4, AllocateFacts
<1> HIDE DEF e
<1>7. /\ c \in Emitted /\ c.depth = e.depth
      /\ \A s \in 1 .. TempSlots + 4 : c.slots[s] = IF s = p THEN New ELSE e.slots[s]
      /\ c.locals = e.locals /\ c.wasm = e.wasm /\ c.r8 = e.r8 /\ c.exact = e.exact
  BY <1>4, <1>6, StoreFacts
<1>8. o \in Value /\ Words(o) = 1 /\ IsOwned(o)
  BY <1>4, OwnedType
<1> HIDE DEF c, o
<1>9. Keeps(code, c, code.depth) /\ c.exact = a.exact
  <2>1. \A s \in 1 .. code.depth : s \in 1 .. TempSlots + 4 /\ s # p
    BY <1>4
  <2>2. Keeps(a, c, code.depth) /\ c.exact = a.exact
    BY <1>6, <1>7, <2>1 DEF Keeps, SameWords
  <2>3. QED
    BY <1>5, <2>2, KeepsTransitive
<1>10. l \in Emitted /\ Keeps(c, l, code.depth) /\ l.depth = c.depth /\ (c.exact /\ Holds(c, Child) => l.exact)
  BY <1>4, <1>7, LoadOnTop
<1> HIDE DEF l
<1>11. r \in Emitted /\ SameWords(l, r) /\ r.depth = b + 1
  <2>1. Words(Child) \in {1, 2} /\ Words(Kept(1)) \in {1, 2}
    BY <1>3, <1>4, WordsType
  <2>2. l.depth = After(Child, After(Kept(1), b + 1)) /\ b + 1 \in Nat
    BY <1>3, <1>4, <1>6, <1>7, <1>10, <2>1 DEF After
  <2>3. QED
    BY <1>3, <1>4, <1>10, <2>2, ReleaseBothFacts
<1> HIDE DEF r
<1>12. d \in Emitted /\ SameWords(r, d) /\ d.depth = b
  <2>1. r.depth = After(o, b)
    BY <1>8, <1>11 DEF After
  <2>2. QED
    BY <1>4, <1>8, <1>11, <2>1, ReleaseTop
<1> HIDE DEF d
<1>13. Keeps(code, d, b)
  <2>1. Keeps(code, l, code.depth)
    BY <1>9, <1>10, KeepsTransitive
  <2>2. Keeps(code, l, b)
    <3>1. b <= code.depth
      BY <1>4
    <3>2. QED
      BY <1>4, <2>1, <3>1, KeepsFewer
  <2>3. QED
    BY <1>11, <1>12, <2>2 DEF SameWords, Keeps
<1>14. ASSUME Special = {}, Correct, Runs
       PROVE  d.exact
  <2>1. Holds(code, Child) /\ code.exact /\ Holds(code, Kept(1))
    BY <1>1, <1>3, <1>14, ReturnedFacts
  <2>2. Holds(c, Child) = Holds(code, Child)
    <3>1. After(Child, n) <= code.depth /\ Child.in # "R1"
      BY <1>4
    <3>2. QED
      BY <1>4, <1>9, <3>1, StaysHeld
  <2>3. QED
    BY <1>5, <1>9, <1>10, <1>11, <1>12, <2>1, <2>2 DEF SameWords
<1>15. Gives(Top.kind) = "none"
  BY <1>1, GivesOf
<1>16. QED
  BY <1>1, <1>2, <1>12, <1>13, <1>14, <1>15, ReturnNone DEF b

\* Storing above what is kept.
LEMMA StoreAbove ==
  ASSUME NEW c \in Emitted, NEW w \in Nat, NEW b \in Nat, b <= TempSlots + 4, NEW slot, slot \notin 1 .. b
  PROVE  Store(c, slot, w) \in Emitted /\ Store(c, slot, w).depth = c.depth /\ Keeps(c, Store(c, slot, w), b)
         /\ Store(c, slot, w).exact = c.exact
<1> DEFINE d == Store(c, slot, w)
<1>1. /\ d \in Emitted /\ d.depth = c.depth
      /\ \A s \in 1 .. TempSlots + 4 : d.slots[s] = IF s = slot THEN w ELSE c.slots[s]
      /\ d.locals = c.locals /\ d.wasm = c.wasm /\ d.r8 = c.r8 /\ d.exact = c.exact
  BY StoreFacts
<1> HIDE DEF d
<1>2. \A s \in 1 .. b : s \in 1 .. TempSlots + 4 /\ s # slot
  BY OperandsAssumption
<1>3. Keeps(c, d, b)
  BY <1>1, <1>2 DEF Keeps
<1>4. QED
  BY <1>1, <1>3 DEF d

\* An i64 load that is stored at once.
LEMMA LowerPairCopyStep ==
  ASSUME NEW B, Going(B), LowerPairCopy
  PROVE  IInv'
<1> DEFINE source == Reserved(code, Child)
           m == Materialize(code, Child)
           c == Address(m, source)
           high == c.depth + 1
           e == Allocate(c, 1)
           f == Store(e, source.at, New)
           loaded == Store(f, high, New)
           a == Address(loaded, Kept(1))
           g == Allocate(a, 1)
           moved == Store(g, high + 1, New)
           released == ReleaseBoth(moved, Kept(1), source)
           d == ReleaseBoth(released, Owned(high, 0), Owned(high + 1, 0))
           b == B[Index]
           n == B[Index + 1]
<1>1. given # <<>> /\ Top.kind = "copy64" /\ Len(Top.kept) = Len(Children(Top.kind)) - 1 /\ Return(d, Absent)
  BY DEF LowerPairCopy, Complete, Returned
<1>2. FirstOf(B) /\ Top.kind \notin Structured \cup Roots /\ IsWord(Child)
  BY <1>1, SecondFacts DEF TwoWords
<1>3. /\ b \in Nat /\ n \in Nat /\ n = b + 1 /\ OnTop(code, Child, n) /\ code \in Emitted /\ New \in Nat
      /\ n = After(Kept(1), b) /\ Placed(Kept(1), b) /\ n <= TempSlots /\ TempSlots \in Nat
      /\ Kept(1) \in Value /\ ValueOK(Kept(1)) /\ Kept(1).in = "owned"
      /\ Special = {} /\ Correct /\ Runs => Holds(code, Kept(1))
  BY <1>1, <1>2, ReturnedFacts DEF FirstOf, After, IsOwned, IsWord, Words
<1> HIDE DEF b, n
<1>4. /\ m \in Emitted /\ m.depth = n + 1 /\ Keeps(code, m, n) /\ m.exact = code.exact
      /\ (Holds(code, Child) => Holds(m, source))
      /\ source \in Value /\ source.at = n + 1 /\ IsOwned(source) /\ Words(source) = 1
  BY <1>2, <1>3, MaterializeFacts, ReservedFacts DEF Words
<1> HIDE DEF m, source
<1>5. c \in Emitted /\ c.depth = m.depth /\ Keeps(m, c, n) /\ (m.exact /\ Holds(m, source) => c.exact)
  BY <1>4, AddressKeeps
<1>6. high = n + 2
  BY <1>3, <1>4, <1>5
<1> HIDE DEF c, high
<1>7. e \in Emitted /\ e.depth = n + 2 /\ SameWords(c, e)
  BY <1>3, <1>4, <1>5, AllocateFacts, SMTT(60)
<1> HIDE DEF e
<1>8. f \in Emitted /\ f.depth = e.depth /\ Keeps(e, f, n) /\ f.exact = e.exact
  <2>1. source.at \notin 1 .. n /\ n <= TempSlots + 4
    BY <1>3, <1>4
  <2>2. QED
    BY <1>3, <1>7, <2>1, StoreAbove
<1> HIDE DEF f
<1>9. loaded \in Emitted /\ loaded.depth = f.depth /\ Keeps(f, loaded, n) /\ loaded.exact = f.exact
  <2>1. high \notin 1 .. n /\ n <= TempSlots + 4
    BY <1>3, <1>6
  <2>2. QED
    BY <1>3, <1>8, <2>1, StoreAbove
<1> HIDE DEF loaded
<1>10. a \in Emitted /\ a.depth = loaded.depth /\ Keeps(loaded, a, n) /\ (loaded.exact /\ Holds(loaded, Kept(1)) => a.exact)
  BY <1>9, AddressKeeps
<1> HIDE DEF a
<1>11. g \in Emitted /\ g.depth = n + 3 /\ SameWords(a, g)
  <2>1. a.depth = n + 2 /\ a \in Emitted
    BY <1>7, <1>8, <1>9, <1>10
  <2>2. g \in Emitted /\ g.depth = a.depth + 1 /\ SameWords(a, g)
    BY <2>1, AllocateFacts
  <2>3. QED
    BY <1>3, <2>1, <2>2
<1> HIDE DEF g
<1>12. moved \in Emitted /\ moved.depth = g.depth /\ Keeps(g, moved, n) /\ moved.exact = g.exact
  <2>1. high + 1 \notin 1 .. n /\ n <= TempSlots + 4
    BY <1>3, <1>6
  <2>2. QED
    BY <1>3, <1>11, <2>1, StoreAbove
<1> HIDE DEF moved
<1>13. released \in Emitted /\ SameWords(moved, released) /\ released.depth = b + 2
  <2>1. Words(Kept(1)) = 1
    BY <1>2 DEF FirstOf, IsWord, Words
  <2>2. moved.depth = After(source, After(Kept(1), b + 2)) /\ b + 2 \in Nat
    BY <1>3, <1>4, <1>11, <1>12, <2>1 DEF After, IsOwned
  <2>3. QED
    BY <1>3, <1>4, <1>12, <2>2, ReleaseBothFacts
<1> HIDE DEF released
<1>14. d \in Emitted /\ SameWords(released, d) /\ d.depth = b
  <2> DEFINE u == Owned(high, 0)
             v == Owned(high + 1, 0)
  <2>1. u \in Value /\ IsOwned(u) /\ Words(u) = 1 /\ v \in Value /\ IsOwned(v) /\ Words(v) = 1
    BY <1>3, <1>6, OwnedType
  <2> HIDE DEF u, v
  <2>2. released.depth = After(v, After(u, b))
    BY <1>3, <1>13, <2>1 DEF After
  <2>3. ReleaseBoth(released, u, v) \in Emitted /\ SameWords(released, ReleaseBoth(released, u, v))
        /\ ReleaseBoth(released, u, v).depth = b
    BY <1>3, <1>13, <2>1, <2>2, ReleaseBothFacts
  <2>4. QED
    BY <2>3 DEF u, v
<1> HIDE DEF d
<1>15. Keeps(code, loaded, n) /\ loaded.exact = c.exact
  <2>1. Keeps(code, c, n)
    BY <1>4, <1>5, KeepsTransitive
  <2>2. Keeps(c, e, n) /\ e.exact = c.exact
    BY <1>7, SameKeeps DEF SameWords
  <2>3. Keeps(code, e, n)
    BY <2>1, <2>2, KeepsTransitive
  <2>4. Keeps(code, f, n)
    BY <2>3, <1>8, KeepsTransitive
  <2>5. QED
    BY <2>2, <2>4, <1>8, <1>9, KeepsTransitive
<1>16. Keeps(code, d, b)
  <2>1. Keeps(code, a, n)
    BY <1>10, <1>15, KeepsTransitive
  <2>2. Keeps(code, moved, n)
    BY <1>11, <1>12, <2>1 DEF Keeps, SameWords
  <2>3. Keeps(code, d, n)
    BY <1>13, <1>14, <2>2 DEF Keeps, SameWords
  <2>4. b <= n
    BY <1>3
  <2>5. QED
    BY <1>3, <2>3, <2>4, KeepsFewer
<1>17. ASSUME Special = {}, Correct, Runs
       PROVE  d.exact
  <2>1. Holds(code, Child) /\ code.exact /\ Holds(code, Kept(1))
    BY <1>1, <1>3, <1>17, ReturnedFacts
  <2>2. Holds(loaded, Kept(1)) = Holds(code, Kept(1))
    <3>1. After(Kept(1), b) <= n /\ Kept(1).in # "R1"
      BY <1>3
    <3>2. QED
      BY <1>3, <1>15, <3>1, StaysHeld
  <2>3. QED
    BY <1>4, <1>5, <1>10, <1>11, <1>12, <1>13, <1>14, <1>15, <2>1, <2>2 DEF SameWords
<1>18. Gives(Top.kind) = "none"
  BY <1>1, GivesOf
<1>19. QED
  BY <1>1, <1>2, <1>14, <1>16, <1>17, <1>18, ReturnNone DEF b

StoresPair(c, d, v, w, b) ==
  /\ d \in Emitted /\ d.depth = c.depth /\ Keeps(c, d, b) /\ d.exact = c.exact
  /\ v \in Value /\ ValueOK(v) /\ IsPair(v) /\ IsOwned(v) /\ v.in = "owned"
  /\ Placed(v, b) /\ After(v, b) = b + 2 /\ Words(v) = 2 /\ v.word = w /\ Holds(d, v)

LEMMA PairStored ==
  ASSUME NEW c \in Emitted, NEW w \in Nat, NEW b \in Nat, NEW low, low = b + 1, NEW high, high = b + 2,
         high <= TempSlots + 4
  PROVE  StoresPair(c, StorePair(c, low, high, w), Pair(low, high, w), w, b)
  BY StorePairFacts DEF StoresPair

\* What a function gives comes into slots of its own.
LEMMA ResultStep ==
  ASSUME NEW B, Going(B), given # <<>>, NEW c \in Emitted, c.depth = B[Index], NEW words, Result(c, words),
         Top.kind \in Calling, Top.kind \notin Structured \cup Roots,
         Gives(Top.kind) = IF words = 1 THEN "word" ELSE "pair",
         Special = {} /\ Correct /\ Runs =>
           c.exact /\ c.locals = c.wasm /\ \A s \in 1 .. B[Index] : c.slots[s] = code.slots[s]
  PROVE  IInv'
<1> DEFINE b == B[Index]
<1>1. b \in Nat /\ b <= TempSlots /\ New \in Nat /\ TempSlots \in Nat /\ c.depth = b
  BY ReturnedFacts
<1>2. CASE words = 1
  <2> DEFINE a == Allocate(c, 1)
             d == Store(a, b + 1, New)
             v == Owned(b + 1, New)
  <2>1. Return(d, v)
    BY <1>2 DEF Result
  <2> HIDE DEF b
  <2>2. a \in Emitted /\ a.depth = b + 1 /\ SameWords(c, a)
    BY <1>1, AllocateFacts
  <2> HIDE DEF a
  <2>3. /\ d \in Emitted /\ d.depth = a.depth
        /\ \A s \in 1 .. TempSlots + 4 : d.slots[s] = IF s = b + 1 THEN New ELSE a.slots[s]
        /\ d.locals = a.locals /\ d.wasm = a.wasm /\ d.r8 = a.r8 /\ d.exact = a.exact
    BY <1>1, <2>2, StoreFacts
  <2>4. /\ ValueOK(v) /\ v.in = "owned" /\ v.at = b + 1 /\ v.high = 0 /\ v.word = New
        /\ IsOwned(v) /\ IsWord(v) /\ Words(v) = 1
    BY <1>1, OwnedType
  <2> HIDE DEF d, v
  <2>5. Placed(v, b) /\ d.depth = After(v, b)
    BY <2>2, <2>3, <2>4 DEF Placed, After
  <2>6. Holds(d, v)
    <3>1. d.slots[b + 1] = New
      BY <1>1, <2>3
    <3>2. QED
      BY <2>4, <3>1 DEF Holds, Read
  <2>7. /\ \A s \in 1 .. b : d.slots[s] = c.slots[s]
        /\ d.locals = c.locals /\ d.wasm = c.wasm /\ d.exact = c.exact
    BY <1>1, <2>2, <2>3 DEF SameWords
  <2>8. Suits(v, Gives(Top.kind)) /\ Gives(Top.kind) # "exit" /\ v.in # "borrowed" /\ v.in # "R1"
    BY <1>2, <2>4 DEF Suits
  <2>9. QED
    BY <2>1, <2>3, <2>5, <2>6, <2>7, <2>8, Returning DEF Going, b
<1>3. CASE words # 1
  <2> DEFINE a == Allocate(c, 2)
             low == b + 1
             high == b + 2
             d == StorePair(a, low, high, New)
             v == Pair(low, high, New)
  <2>1. Return(d, v)
    <3>1. (b + 1) + 1 = b + 2
      BY <1>1
    <3>2. QED
      BY <1>3, <3>1 DEF Result
  <2> HIDE DEF b
  <2>2. a \in Emitted /\ a.depth = b + 2 /\ SameWords(c, a)
    BY <1>1, AllocateFacts
  <2> HIDE DEF a
  <2>3. /\ d \in Emitted /\ d.depth = a.depth /\ Keeps(a, d, b) /\ d.exact = a.exact
        /\ ValueOK(v) /\ IsPair(v) /\ v.in = "owned"
        /\ Placed(v, b) /\ After(v, b) = b + 2 /\ v.word = New /\ Holds(d, v)
    <3>1. low = b + 1 /\ high = b + 2 /\ high <= TempSlots + 4
      BY <1>1
    <3> HIDE DEF low, high
    <3>2. StoresPair(a, d, v, New, b)
      BY <1>1, <2>2, <3>1, PairStored
    <3> HIDE DEF d, v
    <3>3. QED
      BY <3>2 DEF StoresPair
  <2> HIDE DEF d, v
  <2>4. /\ \A s \in 1 .. b : d.slots[s] = c.slots[s]
        /\ d.locals = c.locals /\ d.wasm = c.wasm /\ d.exact = c.exact
    BY <2>2, <2>3 DEF SameWords, Keeps
  <2>5. Suits(v, Gives(Top.kind)) /\ Gives(Top.kind) # "exit" /\ v.in # "borrowed" /\ v.in # "R1"
    BY <1>3, <2>3 DEF Suits
  <2>6. d.depth = After(v, b)
    BY <2>2, <2>3
  <2>7. QED
    BY <2>1, <2>3, <2>4, <2>5, <2>6, Returning DEF Going, b
<1>4. QED
  BY <1>2, <1>3

LEMMA LowerCallStep ==
  ASSUME NEW B, Going(B), LowerCall
  PROVE  IInv'
<1> DEFINE c == IF Child.in = "R1" THEN Materialize(code, Child) ELSE code
           last == IF Child.in = "R1" THEN Reserved(code, Child) ELSE Child
           l == LoadAndUse(c, Kept(1))
           u == LoadAndUse(l, last)
           r == ReleaseBoth(u, Kept(1), last)
           d == Call(r)
           b == B[Index]
           m == B[Index + 1]
<1>1. given # <<>> /\ Top.kind \in {"call", "call64"} /\ Len(Top.kept) = Len(Children(Top.kind)) - 1
      /\ Result(d, IF Top.kind = "call" THEN 1 ELSE 2)
  BY DEF LowerCall, Complete, Returned, Arguments
<1>2. FirstOf(B) /\ Top.kind \notin Structured \cup Roots /\ (IsWord(Child) \/ IsPair(Child))
  BY <1>1, SecondFacts DEF TwoWords
<1>3. b \in Nat /\ m \in Nat /\ b <= m /\ OnTop(code, Child, m) /\ code \in Emitted /\ m = After(Kept(1), b)
      /\ Kept(1).in # "R1" /\ Child \in Value /\ ValueOK(Child) /\ Placed(Child, m) /\ code.depth = After(Child, m)
      /\ m <= TempSlots
  BY <1>1, <1>2, ReturnedFacts DEF FirstOf
<1> HIDE DEF b, m
<1>4. /\ c \in Emitted /\ Keeps(code, c, m) /\ c.exact = code.exact
      /\ last \in Value /\ ValueOK(last) /\ last.in # "R1"
      /\ Placed(last, m) /\ c.depth = After(last, m)
      /\ Holds(code, Child) => Holds(c, last)
  <2>1. CASE IsWord(Child)
    BY <1>3, <2>1, SpilledFacts
  <2>2. CASE IsPair(Child)
    BY <1>3, <2>2 DEF IsPair, Keeps
  <2>3. QED
    BY <1>2, <2>1, <2>2
<1> HIDE DEF c, last
<1>5. Holds(c, Kept(1)) = Holds(code, Kept(1)) /\ m <= c.depth /\ c.depth \in Nat
  <2>1. After(Kept(1), b) <= m /\ ValueOK(Kept(1)) /\ Placed(Kept(1), b)
    BY <1>2, <1>3 DEF FirstOf, b
  <2>2. Holds(c, Kept(1)) = Holds(code, Kept(1))
    BY <1>3, <1>4, <2>1, StaysHeld
  <2>3. QED
    BY <1>3, <1>4, <2>2, AfterType
<1>6. l \in Emitted /\ Keeps(c, l, c.depth) /\ l.depth = c.depth /\ (c.exact /\ Holds(c, Kept(1)) => l.exact)
  BY <1>2, <1>4, LoadOnTop DEF FirstOf
<1> HIDE DEF l
<1>7. Holds(l, last) = Holds(c, last) /\ Readable(last)
  <2>1. After(last, m) <= c.depth
    BY <1>4, <1>5
  <2>2. QED
    BY <1>3, <1>4, <1>5, <1>6, <2>1, StaysHeld, PlacedReadable
<1>8. u \in Emitted /\ u.depth = l.depth /\ Keeps(l, u, c.depth) /\ (l.exact /\ Holds(l, last) => u.exact)
  BY <1>6, <1>7, LoadOnTop
<1> HIDE DEF u
<1>9. r \in Emitted /\ SameWords(u, r) /\ r.depth = b
  BY <1>2, <1>3, <1>4, <1>6, <1>8, ReleaseBothFacts DEF FirstOf
<1> HIDE DEF r
<1>10. d \in Emitted /\ d.depth = b /\ d.slots = r.slots /\ d.locals = r.locals /\ d.wasm = r.wasm /\ d.exact = r.exact
  BY <1>9, CallFacts
<1> HIDE DEF d
<1>11. Keeps(code, u, b)
  <2>1. Keeps(c, u, c.depth)
    BY <1>6, <1>8, KeepsTransitive
  <2>2. Keeps(c, u, m)
    BY <1>3, <1>5, <2>1, KeepsFewer
  <2>3. Keeps(code, u, m)
    BY <1>4, <2>2, KeepsTransitive
  <2>4. QED
    BY <1>3, <2>3, KeepsFewer
<1>12. ASSUME Special = {}, Correct, Runs
       PROVE  d.exact
  <2>1. Holds(code, Child) /\ code.exact /\ Holds(code, Kept(1))
    BY <1>1, <1>2, <1>12, ReturnedFacts DEF FirstOf
  <2>2. QED
    BY <1>4, <1>5, <1>6, <1>7, <1>8, <1>9, <1>10, <2>1 DEF SameWords
<1>13. ASSUME Special = {}, Correct, Runs
       PROVE  d.exact /\ d.locals = d.wasm /\ \A s \in 1 .. b : d.slots[s] = code.slots[s]
  BY <1>9, <1>10, <1>11, <1>12, <1>13 DEF Correct, Exact, Keeps, SameWords
<1>14. Gives("call") = "word" /\ Gives("call64") = "pair" /\ Top.kind \in Calling
  BY <1>1, GivesOf DEF Calling
<1>15. QED
  BY <1>1, <1>2, <1>10, <1>13, <1>14, ResultStep DEF b

LEMMA LowerCallIndirectStep ==
  ASSUME NEW B, Going(B), LowerCallIndirect
  PROVE  IInv'
<1> DEFINE selector == Reserved(code, Child)
           c == Materialize(code, Child)
           l == LoadAndUse(c, Kept(1))
           u == Use(l, selector)
           r == ReleaseBoth(u, Kept(1), selector)
           d == Call(r)
           b == B[Index]
           m == B[Index + 1]
<1>1. given # <<>> /\ Top.kind = "indirect" /\ Len(Top.kept) = Len(Children(Top.kind)) - 1 /\ Result(d, 1)
  BY DEF LowerCallIndirect, Complete, Returned
<1>2. FirstOf(B) /\ Top.kind \notin Structured \cup Roots /\ IsWord(Child)
  BY <1>1, SecondFacts DEF TwoWords
<1>3. b \in Nat /\ m \in Nat /\ b <= m /\ OnTop(code, Child, m) /\ code \in Emitted /\ m = After(Kept(1), b)
      /\ Kept(1).in # "R1"
  BY <1>1, <1>2, ReturnedFacts DEF FirstOf
<1> HIDE DEF b, m
<1>4. /\ c \in Emitted /\ Keeps(code, c, m) /\ c.exact = code.exact
      /\ selector \in Value /\ ValueOK(selector) /\ selector.in # "R1"
      /\ Placed(selector, m) /\ c.depth = After(selector, m)
      /\ Holds(code, Child) => Holds(c, selector)
  BY <1>2, <1>3, MaterializeFacts, ReservedFacts
<1> HIDE DEF c, selector
<1>5. Holds(c, Kept(1)) = Holds(code, Kept(1)) /\ m <= c.depth /\ c.depth \in Nat
  <2>1. After(Kept(1), b) <= m /\ ValueOK(Kept(1)) /\ Placed(Kept(1), b)
    BY <1>2, <1>3 DEF FirstOf, b
  <2>2. Holds(c, Kept(1)) = Holds(code, Kept(1))
    BY <1>3, <1>4, <2>1, StaysHeld
  <2>3. QED
    BY <1>3, <1>4, <2>2, AfterType
<1>6. l \in Emitted /\ Keeps(c, l, c.depth) /\ l.depth = c.depth /\ (c.exact /\ Holds(c, Kept(1)) => l.exact)
  BY <1>2, <1>4, LoadOnTop DEF FirstOf
<1> HIDE DEF l
<1>7. Holds(l, selector) = Holds(c, selector)
  <2>1. After(selector, m) <= c.depth
    BY <1>4, <1>5
  <2>2. QED
    BY <1>3, <1>4, <1>5, <1>6, <2>1, StaysHeld
<1>8. u \in Emitted /\ u.depth = l.depth /\ Keeps(l, u, c.depth) /\ (l.exact /\ Holds(l, selector) => u.exact)
  BY <1>6, UsedFacts
<1> HIDE DEF u
<1>9. r \in Emitted /\ SameWords(u, r) /\ r.depth = b
  BY <1>2, <1>3, <1>4, <1>6, <1>8, ReleaseBothFacts DEF FirstOf
<1> HIDE DEF r
<1>10. d \in Emitted /\ d.depth = b /\ d.slots = r.slots /\ d.locals = r.locals /\ d.wasm = r.wasm /\ d.exact = r.exact
  BY <1>9, CallFacts
<1> HIDE DEF d
<1>11. Keeps(code, u, b)
  <2>1. Keeps(c, u, c.depth)
    BY <1>6, <1>8, KeepsTransitive
  <2>2. Keeps(c, u, m)
    BY <1>3, <1>5, <2>1, KeepsFewer
  <2>3. Keeps(code, u, m)
    BY <1>4, <2>2, KeepsTransitive
  <2>4. QED
    BY <1>3, <2>3, KeepsFewer
<1>12. ASSUME Special = {}, Correct, Runs
       PROVE  d.exact
  <2>1. Holds(code, Child) /\ code.exact /\ Holds(code, Kept(1))
    BY <1>1, <1>2, <1>12, ReturnedFacts DEF FirstOf
  <2>2. QED
    BY <1>4, <1>5, <1>6, <1>7, <1>8, <1>9, <1>10, <2>1 DEF SameWords
<1>13. ASSUME Special = {}, Correct, Runs
       PROVE  d.exact /\ d.locals = d.wasm /\ \A s \in 1 .. b : d.slots[s] = code.slots[s]
  BY <1>9, <1>10, <1>11, <1>12, <1>13 DEF Correct, Exact, Keeps, SameWords
<1>14. Gives("indirect") = "word" /\ Top.kind \in Calling
  BY <1>1, GivesOf DEF Calling
<1>15. QED
  BY <1>1, <1>2, <1>10, <1>13, <1>14, ResultStep DEF b

\* The operand in R1 is the first to be loaded; the left one cannot be in R1
\* then, since only a constant leaves it where it is.
LEMMA LowerBinaryStep ==
  ASSUME NEW B, Going(B), LowerBinary
  PROVE  IInv'
<1> DEFINE first == IF Child.in = "R1" THEN Child ELSE Kept(1)
           second == IF Child.in = "R1" THEN Kept(1) ELSE Child
           l == LoadAndUse(code, first)
           c == Use(l, second)
           slot == Top.slot
           e == Leave(c, New, slot, Top.retain)
           v == Left(New, slot, Top.retain)
           d == Release(e, Child)
           b == B[Index]
           m == B[Index + 1]
<1>1. given # <<>> /\ Top.kind = "binary" /\ Len(Top.kept) = Len(Children(Top.kind)) - 1 /\ Return(d, v)
  BY DEF LowerBinary, Complete, Returned
<1>2. Len(Top.kept) = 1 /\ Top.kind \notin Structured \cup Roots
  <2>1. Children("binary") = <<"word", "word">>
    BY ChildrenOf
  <2>2. QED
    BY <1>1, <2>1 DEF Structured, Roots
<1>3. /\ Top.kept = <<Kept(1)>> /\ slot = b + 1
      /\ Kept(1) \in Value /\ ValueOK(Kept(1)) /\ IsWord(Kept(1))
      /\ Kept(1).in \in {"borrowed", "R1"} => Top.side = "constant"
      /\ Placed(Kept(1), b) /\ m = b + 1 /\ Wanted(Top) = "word"
  BY <1>1, <1>2, RightOfBinary DEF Going
<1>4. /\ b \in Nat /\ b <= TempSlots /\ TempSlots \in Nat /\ New \in Nat /\ Top.retain \in BOOLEAN
      /\ code \in Emitted /\ code.depth \in Nat /\ m <= code.depth
      /\ Child \in Value /\ ValueOK(Child) /\ Placed(Child, m) /\ code.depth = After(Child, m) /\ Readable(Child)
      /\ GivenOK(Top, Child)
  BY <1>1, ReturnedFacts
<1>5. Readable(Kept(1)) /\ After(Kept(1), b) <= code.depth
  <2>1. After(Kept(1), b) <= m
    BY <1>3, <1>4 DEF After, IsWord, Words
  <2>2. After(Kept(1), b) \in Nat
    BY <1>3, <1>4, AfterType
  <2>3. QED
    BY <1>3, <1>4, <2>1, <2>2, PlacedReadable
<1>6. Child.in = "R1" => Kept(1).in # "R1"
  BY <1>3, <1>4 DEF GivenOK
<1>7. Readable(first)
  BY <1>4, <1>5
<1>8. Special = {} /\ Correct /\ Runs => code.exact /\ Holds(code, first)
  <2>1. 1 \in DOMAIN Top.kept
    BY <1>3
  <2>2. QED
    BY <1>1, <2>1, ReturnedFacts DEF Kept
<1> HIDE DEF first
<1>9. l \in Emitted /\ Keeps(code, l, code.depth) /\ l.depth = code.depth /\ (code.exact /\ Holds(code, first) => l.exact)
  BY <1>4, <1>7, LoadOnTop
<1> HIDE DEF l
<1>10. Special = {} /\ Correct /\ Runs => Holds(l, second)
  <2>1. 1 \in DOMAIN Top.kept
    BY <1>3
  <2>2. Special = {} /\ Correct /\ Runs => Holds(code, Child) /\ Holds(code, Kept(1))
    BY <1>1, <2>1, ReturnedFacts DEF Kept
  <2>3. Kept(1).in # "R1" => Holds(l, Kept(1)) = Holds(code, Kept(1))
    BY <1>3, <1>4, <1>5, <1>9, StaysHeld
  <2>4. Child.in # "R1" => Holds(l, Child) = Holds(code, Child)
    <3>1. After(Child, m) <= code.depth /\ m \in Nat
      BY <1>3, <1>4
    <3>2. QED
      BY <1>4, <1>9, <3>1, StaysHeld
  <2>5. QED
    BY <1>6, <2>2, <2>3, <2>4
<1> HIDE DEF second
<1>11. c \in Emitted /\ c.depth = l.depth /\ Keeps(l, c, code.depth) /\ (l.exact /\ Holds(l, second) => c.exact)
  BY <1>9, UsedFacts
<1> HIDE DEF c, slot, b, m
<1>12. Leaves(c, e, v, New, b, Top.retain)
  <2>1. slot = b + 1 /\ slot <= c.depth /\ slot <= TempSlots + 4
    BY <1>3, <1>4, <1>9, <1>11
  <2>2. QED
    BY <1>4, <1>11, <2>1, LeaveFacts
<1> HIDE DEF e, v
<1>13. /\ e \in Emitted /\ e.depth = (IF Top.retain THEN c.depth - 1 ELSE c.depth)
       /\ Placed(v, b) /\ ValueOK(v) /\ IsWord(v)
       /\ v.in \in {"R1", "owned"} /\ (v.in = "R1" => Top.retain) /\ Holds(e, v) /\ (IsOwned(v) <=> ~Top.retain)
       /\ Words(v) = 1 /\ Keeps(c, e, b) /\ e.exact = c.exact
  BY <1>12 DEF Leaves
<1>14. d \in Emitted /\ SameWords(e, d) /\ d.depth = After(v, b)
  <2>1. After(v, b) = (IF Top.retain THEN b ELSE b + 1) /\ After(v, b) \in Nat
    BY <1>4, <1>13 DEF After
  <2>2. e.depth = After(Child, After(v, b))
    <3>1. Words(Child) \in {1, 2}
      BY <1>4, WordsType
    <3>2. QED
      BY <1>3, <1>4, <1>9, <1>11, <1>13, <2>1, <3>1 DEF After
  <2>3. QED
    BY <1>4, <1>13, <2>1, <2>2, ReleaseTop
<1> HIDE DEF d
<1>15. Holds(d, v)
  BY <1>13, <1>14, HoldsSame
<1>16. Keeps(code, d, b)
  <2>1. Keeps(code, c, code.depth)
    BY <1>9, <1>11, KeepsTransitive
  <2>2. b <= code.depth
    BY <1>3, <1>4
  <2>3. Keeps(code, c, b)
    BY <1>4, <2>1, <2>2, KeepsFewer
  <2>4. QED
    BY <1>13, <1>14, <2>3 DEF Keeps, SameWords
<1>17. Gives(Top.kind) = "word"
  BY <1>1, GivesOf
<1>18. Suits(v, Gives(Top.kind)) /\ Gives(Top.kind) # "exit" /\ v.in # "borrowed"
  BY <1>13, <1>17 DEF Suits
<1>19. ASSUME Special = {}, Correct, Runs
       PROVE  d.exact /\ d.locals = d.wasm /\ d.r8 = code.r8 /\ \A s \in 1 .. b : d.slots[s] = code.slots[s]
  <2>1. d.exact
    BY <1>8, <1>9, <1>10, <1>11, <1>13, <1>14, <1>19 DEF SameWords
  <2>2. QED
    BY <1>16, <1>19, <2>1 DEF Correct, Exact, Keeps
<1>20. QED
  BY <1>1, <1>2, <1>13, <1>14, <1>15, <1>18, <1>19, Returning DEF Going, b

LEMMA LowerPairLoadStep ==
  ASSUME NEW B, Going(B), LowerPairLoad
  PROVE  IInv'
<1> DEFINE low == SlotFor(code, Child)
           r == Reserve(code, Child)
           c == Address(r, Child)
           high == c.depth + 1
           a == Allocate(c, 1)
           d == StorePair(a, low, high, New)
           v == Pair(low, high, New)
           b == B[Index]
<1>1. given # <<>> /\ Top.kind = "load64" /\ Len(Top.kept) = Len(Children(Top.kind)) - 1 /\ Return(d, v)
  BY DEF LowerPairLoad, Complete, Returned
<1>2. IsWord(Child) /\ OnTop(code, Child, b) /\ Top.kind \notin Structured \cup Roots
  BY <1>1, UnaryFacts DEF UnaryKinds
<1>3. b \in Nat /\ TempSlots \in Nat /\ New \in Nat /\ b <= TempSlots
  BY <1>1, ReturnedFacts
<1>4. low = b + 1 /\ r \in Emitted /\ r.depth = b + 1 /\ SameWords(code, r)
  BY <1>2, ReserveFacts
<1>5. Holds(r, Child) = Holds(code, Child)
  BY <1>4, HoldsSame
<1> HIDE DEF r
<1>6. c \in Emitted /\ c.depth = r.depth /\ Keeps(r, c, b) /\ (r.exact /\ Holds(r, Child) => c.exact)
  BY <1>4, AddressKeeps
<1>7. high = b + 2
  BY <1>3, <1>4, <1>6
<1> HIDE DEF c, low, high, b
<1>8. a \in Emitted /\ a.depth = c.depth + 1 /\ SameWords(c, a)
  BY <1>6, AllocateFacts
<1> HIDE DEF a
<1>9. StoresPair(a, d, v, New, b)
  <2>1. high <= TempSlots + 4
    BY <1>3, <1>7
  <2>2. QED
    BY <1>3, <1>4, <1>7, <1>8, <2>1, PairStored
<1> HIDE DEF d, v
<1>10. /\ d \in Emitted /\ d.depth = a.depth /\ Keeps(a, d, b) /\ d.exact = a.exact
       /\ ValueOK(v) /\ IsPair(v) /\ v.in = "owned" /\ Placed(v, b) /\ After(v, b) = b + 2 /\ Holds(d, v)
  BY <1>9 DEF StoresPair
<1>11. d.depth = After(v, b)
  BY <1>3, <1>4, <1>6, <1>8, <1>10
<1>12. Keeps(code, d, b)
  BY <1>4, <1>6, <1>8, <1>10 DEF Keeps, SameWords
<1>13. Special = {} /\ Correct /\ Runs => d.exact
  BY <1>1, <1>4, <1>5, <1>6, <1>8, <1>10, ReturnedFacts DEF SameWords
<1>14. Gives(Top.kind) = "pair"
  BY <1>1, GivesOf
<1>15. QED
  BY <1>1, <1>2, <1>10, <1>11, <1>12, <1>13, <1>14, ReturnOwned DEF b

LEMMA LowerExtendStep ==
  ASSUME NEW B, Going(B), LowerExtend
  PROVE  IInv'
<1> DEFINE low == SlotFor(code, Child)
           u == Reserved(code, Child)
           r == Materialize(code, Child)
           c == LoadAndUse(r, u)
           high == c.depth + 1
           a == Allocate(c, 1)
           d == StorePair(a, low, high, New)
           v == Pair(low, high, New)
           b == B[Index]
<1>1. given # <<>> /\ Top.kind = "extend" /\ Len(Top.kept) = Len(Children(Top.kind)) - 1 /\ Return(d, v)
  BY DEF LowerExtend, Complete, Returned
<1>2. IsWord(Child) /\ OnTop(code, Child, b) /\ Top.kind \notin Structured \cup Roots
  BY <1>1, UnaryFacts DEF UnaryKinds
<1>3. b \in Nat /\ TempSlots \in Nat /\ New \in Nat /\ b <= TempSlots
  BY <1>1, ReturnedFacts
<1>4. low = b + 1
  BY <1>2, ReserveFacts
<1>5. /\ r \in Emitted /\ r.depth = b + 1 /\ Keeps(code, r, b) /\ r.exact = code.exact
      /\ Holds(code, Child) => Holds(r, u)
      /\ ValueOK(u) /\ Placed(u, b)
  BY <1>2, MaterializeFacts, ReservedFacts
<1> HIDE DEF r, u
<1>6. c \in Emitted /\ c.depth = r.depth /\ Keeps(r, c, b) /\ (r.exact /\ Holds(r, u) => c.exact)
  <2>1. Readable(u)
    BY <1>3, <1>5, PlacedReadable
  <2>2. QED
    BY <1>5, <2>1, LoadOnTop
<1>7. high = b + 2
  BY <1>3, <1>5, <1>6
<1> HIDE DEF c, low, high, b
<1>8. a \in Emitted /\ a.depth = c.depth + 1 /\ SameWords(c, a)
  BY <1>6, AllocateFacts
<1> HIDE DEF a
<1>9. StoresPair(a, d, v, New, b)
  <2>1. high <= TempSlots + 4
    BY <1>3, <1>7
  <2>2. QED
    BY <1>3, <1>4, <1>7, <1>8, <2>1, PairStored
<1> HIDE DEF d, v
<1>10. /\ d \in Emitted /\ d.depth = a.depth /\ Keeps(a, d, b) /\ d.exact = a.exact
       /\ ValueOK(v) /\ IsPair(v) /\ v.in = "owned" /\ Placed(v, b) /\ After(v, b) = b + 2 /\ Holds(d, v)
  BY <1>9 DEF StoresPair
<1>11. d.depth = After(v, b)
  BY <1>3, <1>5, <1>6, <1>8, <1>10
<1>12. Keeps(code, d, b)
  BY <1>5, <1>6, <1>8, <1>10 DEF Keeps, SameWords
<1>13. Special = {} /\ Correct /\ Runs => d.exact
  BY <1>1, <1>5, <1>6, <1>8, <1>10, ReturnedFacts DEF SameWords
<1>14. Gives(Top.kind) = "pair"
  BY <1>1, GivesOf
<1>15. QED
  BY <1>1, <1>2, <1>10, <1>11, <1>12, <1>13, <1>14, ReturnOwned DEF b

\* i32.wrap_i64: the low word's slot is the result's.
LEMMA LowerNarrowStep ==
  ASSUME NEW B, Going(B), LowerNarrow
  PROVE  IInv'
<1> DEFINE c == LoadAndUse(code, Child)
           slot == Child.at
           e == Leave(c, New, slot, FALSE)
           d == [e EXCEPT !.depth = @ - 1]
           v == Owned(slot, New)
           b == B[Index]
<1>1. given # <<>> /\ Top.kind = "wrap" /\ Len(Top.kept) = Len(Children(Top.kind)) - 1 /\ Return(d, v)
  BY DEF LowerNarrow, Complete, Returned
<1>2. Children("wrap") = <<"pair">> /\ Top.kind \notin Structured \cup Roots /\ Len(Top.kept) = 0
  <2>1. Children("wrap") = <<"pair">>
    BY ChildrenOf
  <2>2. QED
    BY <1>1, <2>1 DEF Structured, Roots
<1>3. B[Index + 1] = b /\ Wanted(Top) = "pair"
  BY <1>1, <1>2, FirstChild DEF Going
<1>4. /\ b \in Nat /\ TempSlots \in Nat /\ New \in Nat /\ code.depth <= TempSlots /\ code.depth \in Nat
      /\ code \in Emitted /\ Readable(Child)
      /\ IsPair(Child) /\ Placed(Child, b) /\ code.depth = After(Child, b)
  BY <1>1, <1>3, ReturnedFacts DEF GivenOK
<1>5. slot = b + 1 /\ code.depth = b + 2
  BY <1>4 DEF IsPair, Placed, After, IsOwned, Words
<1> HIDE DEF slot, b
<1>6. c \in Emitted /\ Keeps(code, c, b) /\ c.depth = code.depth /\ (code.exact /\ Holds(code, Child) => c.exact)
  BY <1>4, LoadOnTop
<1> HIDE DEF c
<1>7. Stores(c, e, v, New, b)
  <2>1. slot <= c.depth /\ slot <= TempSlots + 4
    BY <1>4, <1>5, <1>6
  <2>2. QED
    BY <1>4, <1>5, <1>6, <2>1, LeaveInSlotFacts
<1> HIDE DEF e, v
<1>8. /\ e \in Emitted /\ e.depth = b + 2 /\ Placed(v, b) /\ ValueOK(v) /\ IsWord(v) /\ After(v, b) = b + 1
      /\ v.in = "owned" /\ Holds(e, v) /\ Keeps(c, e, b) /\ e.exact = c.exact
  BY <1>5, <1>6, <1>7 DEF Stores
<1>9. d \in Emitted /\ d.depth = e.depth - 1 /\ SameWords(e, d)
  <2>1. 1 <= e.depth
    BY <1>4, <1>8
  <2>2. QED
    BY <1>8, <2>1, ShrinkFacts
<1> HIDE DEF d
<1>10. d.depth = After(v, b)
  BY <1>4, <1>8, <1>9
<1>11. Holds(d, v)
  BY <1>8, <1>9, HoldsSame
<1>12. Keeps(code, d, b)
  BY <1>6, <1>8, <1>9 DEF Keeps, SameWords
<1>13. Special = {} /\ Correct /\ Runs => d.exact
  BY <1>1, <1>6, <1>8, <1>9, ReturnedFacts DEF SameWords
<1>14. Gives(Top.kind) = "word"
  BY <1>1, GivesOf
<1>15. QED
  BY <1>1, <1>2, <1>8, <1>9, <1>10, <1>11, <1>12, <1>13, <1>14, ReturnOwned DEF b

\* Two pairs.
LEMMA TwoPairs ==
  ASSUME NEW B, Going(B), given # <<>>, Top.kind \in {"binary64", "mul64", "compare64"},
         Len(Top.kept) = Len(Children(Top.kind)) - 1
  PROVE  /\ Top.kind \notin Structured \cup Roots
         /\ ValueOK(Kept(1)) /\ Kept(1) \in Value /\ Kept(1).in = "owned" /\ IsPair(Kept(1)) /\ Placed(Kept(1), B[Index])
         /\ Kept(1).at = B[Index] + 1 /\ Kept(1).high = B[Index] + 2 /\ B[Index + 1] = B[Index] + 2
         /\ Child.in = "owned" /\ IsPair(Child) /\ code.depth = B[Index] + 4
         /\ Special = {} /\ Correct /\ Runs => Holds(code, Kept(1))
<1>1. Children(Top.kind) = <<"pair", "pair">>
  BY ChildrenOf
<1>2. Len(Top.kept) = 1 /\ Top.kind \notin {"block", "ifelse", "binary"} /\ Top.kind \notin Structured \cup Roots
  BY <1>1 DEF Structured, Roots
<1>3. /\ Top.kept = <<Kept(1)>> /\ Kept(1) \in Value /\ ValueOK(Kept(1))
      /\ Placed(Kept(1), B[Index]) /\ B[Index + 1] = After(Kept(1), B[Index])
      /\ Wanted(Top) = Children(Top.kind)[2]
      /\ KeptAs(Top, 1)
  BY <1>2, SecondChild DEF Going
<1>4. IsPair(Kept(1))
  <2>1. Children(Top.kind)[1] = "pair"
    BY <1>1
  <2>2. QED
    BY <1>3, <2>1 DEF KeptAs, Kept
<1>5. IsPair(Child)
  <2>1. Wanted(Top) = "pair"
    BY <1>1, <1>3
  <2>2. QED
    BY <2>1, ReturnedFacts DEF GivenOK
<1>6. B[Index] \in Nat /\ code.depth = After(Child, B[Index + 1]) /\ Placed(Child, B[Index + 1])
  BY ReturnedFacts
<1>7. /\ Kept(1).at = B[Index] + 1 /\ Kept(1).high = B[Index] + 2 /\ B[Index + 1] = B[Index] + 2
      /\ code.depth = B[Index] + 4
  BY <1>3, <1>4, <1>5, <1>6 DEF IsPair, Placed, After, IsOwned, Words
<1>8. Special = {} /\ Correct /\ Runs => Holds(code, Kept(1))
  <2>1. 1 \in DOMAIN Top.kept
    BY <1>3
  <2>2. QED
    BY <2>1, ReturnedFacts DEF Kept
<1>9. QED
  BY <1>2, <1>3, <1>4, <1>5, <1>7, <1>8 DEF IsPair

LEMMA SpoilFacts ==
  ASSUME NEW c \in Emitted, New \in Nat, NEW depth \in Nat, NEW n \in Nat, depth <= TempSlots + 4
  PROVE  LET d == Spoil(c, depth, n) IN
         d \in Emitted /\ d.depth = c.depth /\ Keeps(c, d, depth) /\ d.exact = c.exact
<1> DEFINE s == [i \in DOMAIN c.slots |-> IF i \in depth + 1 .. depth + n THEN New ELSE c.slots[i]]
           d == [c EXCEPT !.slots = s]
<1>1. c \in Code /\ (c.depth <= TempSlots \/ c.depth <= c.peak) /\ c.slots \in [1 .. TempSlots + 4 -> Nat]
  BY EmittedFields
<1>2. s \in [1 .. TempSlots + 4 -> Nat]
  BY <1>1
<1>3. \A i \in 1 .. depth : s[i] = c.slots[i]
  <2>1. \A i \in 1 .. depth : i \in 1 .. TempSlots + 4 /\ i \notin depth + 1 .. depth + n
    BY OperandsAssumption
  <2>2. QED
    BY <1>1, <2>1
<1>4. Spoil(c, depth, n) = d
  BY DEF Spoil
<1> HIDE DEF s
<1>5. /\ d.depth = c.depth /\ d.peak = c.peak /\ d.slots = s /\ d.locals = c.locals /\ d.wasm = c.wasm
      /\ d.r1 = c.r1 /\ d.r8 = c.r8 /\ d.exact = c.exact
  BY <1>1 DEF Code
<1>6. d \in Code
  BY <1>1, <1>2 DEF Code
<1>7. d \in Emitted /\ Keeps(c, d, depth)
  BY <1>1, <1>3, <1>5, <1>6 DEF Emitted, Keeps
<1>8. QED
  BY <1>4, <1>5, <1>7

LEMMA LowerPairBinaryStep ==
  ASSUME NEW B, Going(B), LowerPairBinary
  PROVE  IInv'
<1> DEFINE limbs == IF Top.kind = "mul64" THEN 3 ELSE 0
           a == Allocate(code, limbs)
           u == Use(a, Kept(1))
           c == Use(u, Child)
           spoilt == Spoil(c, code.depth, limbs)
           low == Kept(1).at
           high == Kept(1).high
           e == StorePair(spoilt, low, high, New)
           f == [e EXCEPT !.depth = @ - limbs]
           d == Release(f, Child)
           v == Pair(low, high, New)
           b == B[Index]
<1>1. given # <<>> /\ Top.kind \in {"binary64", "mul64"} /\ Len(Top.kept) = Len(Children(Top.kind)) - 1
      /\ Return(d, v)
  BY DEF LowerPairBinary, Complete, Returned
<1>2. /\ Top.kind \notin Structured \cup Roots
      /\ ValueOK(Kept(1)) /\ Placed(Kept(1), b) /\ Kept(1).in = "owned"
      /\ low = b + 1 /\ high = b + 2 /\ B[Index + 1] = b + 2
      /\ Child.in = "owned" /\ code.depth = b + 4
      /\ Special = {} /\ Correct /\ Runs => Holds(code, Kept(1))
  BY <1>1, TwoPairs
<1>3. /\ b \in Nat /\ TempSlots \in Nat /\ New \in Nat /\ code.depth <= TempSlots /\ code.depth \in Nat
      /\ code \in Emitted /\ Child \in Value /\ ValueOK(Child) /\ code.depth = After(Child, b + 2)
      /\ limbs \in Nat
  BY <1>1, <1>2, ReturnedFacts
<1> HIDE DEF limbs, b
<1>4. a \in Emitted /\ a.depth = code.depth + limbs /\ SameWords(code, a)
  BY <1>3, AllocateFacts
<1>5. Holds(a, Kept(1)) = Holds(code, Kept(1)) /\ Holds(a, Child) = Holds(code, Child)
  BY <1>4, HoldsSame
<1> HIDE DEF a
<1>6. /\ u \in Emitted /\ u.depth = a.depth /\ Keeps(a, u, code.depth) /\ u.slots = a.slots
      /\ (a.exact /\ Holds(a, Kept(1)) => u.exact)
  BY <1>4, UsedFacts, UseFacts
<1>7. Holds(u, Child) = Holds(a, Child)
  <2>1. Child.in = "owned" => Read(u, Child) = Read(a, Child)
    BY <1>6 DEF Read
  <2>2. QED
    BY <1>2, <1>6, <2>1 DEF Holds
<1> HIDE DEF u
<1>8. c \in Emitted /\ c.depth = u.depth /\ Keeps(u, c, code.depth) /\ (u.exact /\ Holds(u, Child) => c.exact)
  BY <1>6, UsedFacts
<1> HIDE DEF c
<1>9. spoilt \in Emitted /\ spoilt.depth = c.depth /\ Keeps(c, spoilt, code.depth) /\ spoilt.exact = c.exact
  <2>1. code.depth <= TempSlots + 4
    BY <1>3
  <2>2. QED
    BY <1>3, <1>8, <2>1, SpoilFacts
<1> HIDE DEF spoilt, low, high
<1>10. StoresPair(spoilt, e, v, New, b)
  <2>1. high <= TempSlots + 4
    BY <1>2, <1>3
  <2>2. QED
    BY <1>2, <1>3, <1>9, <2>1, PairStored
<1> HIDE DEF e, v
<1>11. /\ e \in Emitted /\ e.depth = spoilt.depth /\ Keeps(spoilt, e, b) /\ e.exact = spoilt.exact
       /\ ValueOK(v) /\ IsPair(v) /\ v.in = "owned" /\ Placed(v, b) /\ After(v, b) = b + 2 /\ Holds(e, v)
  BY <1>10 DEF StoresPair
<1>12. e.depth = code.depth + limbs
  BY <1>4, <1>6, <1>8, <1>9, <1>11
<1>13. f \in Emitted /\ f.depth = code.depth /\ SameWords(e, f)
  <2>1. limbs <= e.depth /\ e.depth - limbs = code.depth
    BY <1>3, <1>12
  <2>2. f \in Emitted /\ f.depth = e.depth - limbs /\ SameWords(e, f)
    BY <1>3, <1>11, <2>1, ShrinkFacts
  <2>3. QED
    BY <2>1, <2>2
<1> HIDE DEF f
<1>14. d \in Emitted /\ SameWords(f, d) /\ d.depth = b + 2
  <2>1. b + 2 \in Nat /\ f.depth = After(Child, b + 2)
    BY <1>3, <1>13
  <2>2. QED
    BY <1>3, <1>13, <2>1, ReleaseTop
<1> HIDE DEF d
<1>15. Holds(d, v) /\ d.depth = After(v, b)
  <2>1. Holds(f, v) = Holds(e, v) /\ Holds(d, v) = Holds(f, v)
    BY <1>13, <1>14, HoldsSame
  <2>2. QED
    BY <1>11, <1>14, <2>1
<1>16. Keeps(code, d, b)
  <2>1. Keeps(code, spoilt, code.depth)
    BY <1>4, <1>6, <1>8, <1>9, SameKeeps, KeepsTransitive
  <2>2. b <= code.depth
    BY <1>2, <1>3
  <2>3. Keeps(code, spoilt, b)
    BY <1>3, <2>1, <2>2, KeepsFewer
  <2>4. QED
    BY <1>11, <1>13, <1>14, <2>3 DEF Keeps, SameWords
<1>17. Special = {} /\ Correct /\ Runs => d.exact
  BY <1>1, <1>2, <1>4, <1>5, <1>6, <1>7, <1>8, <1>9, <1>11, <1>13, <1>14, ReturnedFacts DEF SameWords
<1>18. Gives(Top.kind) = "pair"
  BY <1>1, GivesOf
<1>19. QED
  BY <1>1, <1>2, <1>11, <1>14, <1>15, <1>16, <1>17, <1>18, ReturnOwned DEF b

LEMMA LowerPairCompareStep ==
  ASSUME NEW B, Going(B), LowerPairCompare
  PROVE  IInv'
<1> DEFINE u == Use(code, Kept(1))
           c == Use(u, Child)
           slot == Kept(1).at
           e == Store(c, slot, New)
           f == Release(e, Child)
           g == [f EXCEPT !.depth = @ - 1]
           d == [g EXCEPT !.r1 = New]
           v == Owned(slot, New)
           b == B[Index]
<1>1. given # <<>> /\ Top.kind = "compare64" /\ Len(Top.kept) = Len(Children(Top.kind)) - 1
      /\ Return([f EXCEPT !.depth = @ - 1, !.r1 = New], v)
  BY DEF LowerPairCompare, Complete, Returned
<1>2. /\ Top.kind \notin Structured \cup Roots
      /\ slot = b + 1 /\ Child.in = "owned" /\ code.depth = b + 4
      /\ Special = {} /\ Correct /\ Runs => Holds(code, Kept(1))
  BY <1>1, TwoPairs
<1>3. /\ b \in Nat /\ TempSlots \in Nat /\ New \in Nat /\ code.depth <= TempSlots /\ code.depth \in Nat
      /\ code \in Emitted /\ Child \in Value /\ code.depth = After(Child, b + 2)
  <2>1. B[Index + 1] = b + 2
    BY <1>1, TwoPairs
  <2>2. QED
    BY <1>1, <2>1, ReturnedFacts
<1>4. Return(d, v)
  BY <1>1
<1> HIDE DEF b
<1>5. /\ u \in Emitted /\ u.depth = code.depth /\ u.slots = code.slots /\ Keeps(code, u, b)
      /\ (code.exact /\ Holds(code, Kept(1)) => u.exact)
  BY <1>3, UseFacts, UsedFacts
<1>6. Holds(u, Child) = Holds(code, Child)
  <2>1. Child.in = "owned" => Read(u, Child) = Read(code, Child)
    BY <1>5 DEF Read
  <2>2. QED
    BY <1>2, <1>5, <2>1 DEF Holds
<1> HIDE DEF u
<1>7. c \in Emitted /\ c.depth = u.depth /\ Keeps(u, c, b) /\ (u.exact /\ Holds(u, Child) => c.exact)
  BY <1>5, UsedFacts
<1> HIDE DEF c, slot
<1>8. /\ e \in Emitted /\ e.depth = c.depth /\ Keeps(c, e, b) /\ e.exact = c.exact /\ e.slots[slot] = New
  <2>1. slot \notin 1 .. b /\ b <= TempSlots + 4 /\ slot \in 1 .. TempSlots + 4
    BY <1>2, <1>3
  <2>2. /\ e \in Emitted /\ e.depth = c.depth /\ e.exact = c.exact /\ Keeps(c, e, b)
    BY <1>3, <1>7, <2>1, StoreAbove
  <2>3. e.slots[slot] = New
    BY <1>3, <1>7, <2>1, StoreFacts
  <2>4. QED
    BY <2>2, <2>3
<1> HIDE DEF e
<1>9. f \in Emitted /\ f.depth = b + 2 /\ SameWords(e, f)
  <2>1. e.depth = After(Child, b + 2) /\ b + 2 \in Nat
    BY <1>3, <1>5, <1>7, <1>8
  <2>2. QED
    BY <1>3, <1>8, <2>1, ReleaseTop
<1> HIDE DEF f
<1>10. g \in Emitted /\ g.depth = f.depth - 1 /\ SameWords(f, g)
  <2>1. 1 <= f.depth
    BY <1>3, <1>9
  <2>2. QED
    BY <1>9, <2>1, ShrinkFacts
<1> HIDE DEF g
<1>11. /\ d \in Emitted /\ d.depth = g.depth /\ d.slots = g.slots /\ d.locals = g.locals /\ d.wasm = g.wasm
       /\ d.r8 = g.r8 /\ d.exact = g.exact
  BY <1>3, <1>10, R1Facts
<1>12. v \in Value /\ ValueOK(v) /\ v.in = "owned" /\ v.at = slot /\ v.high = 0 /\ v.word = New /\ IsOwned(v)
       /\ IsWord(v) /\ Words(v) = 1
  BY <1>2, <1>3, OwnedType
<1> HIDE DEF d, v
<1>13. Placed(v, b) /\ d.depth = After(v, b)
  BY <1>2, <1>3, <1>9, <1>10, <1>11, <1>12 DEF Placed, After
<1>14. Holds(d, v)
  BY <1>8, <1>9, <1>10, <1>11, <1>12 DEF Holds, Read, SameWords
<1>15. Keeps(code, d, b)
  BY <1>5, <1>7, <1>8, <1>9, <1>10, <1>11 DEF Keeps, SameWords
<1>16. Special = {} /\ Correct /\ Runs => d.exact
  BY <1>1, <1>2, <1>5, <1>6, <1>7, <1>8, <1>9, <1>10, <1>11, ReturnedFacts DEF SameWords
<1>17. Gives(Top.kind) = "word"
  BY <1>1, GivesOf
<1>18. QED
  BY <1>1, <1>2, <1>4, <1>11, <1>12, <1>13, <1>14, <1>15, <1>16, <1>17, ReturnOwned DEF b

LEMMA LowerSelectStep ==
  ASSUME NEW B, Going(B), LowerSelect
  PROVE  IInv'
<1> DEFINE c == LoadAndUse(code, Child)
           slot == Kept(1).at
           b == B[Index]
           m == After(Kept(1), b)
           n == B[Index + 1]
<1>1. /\ given # <<>> /\ Top.kind = "select" /\ Len(Top.kept) = Len(Children(Top.kind)) - 1
      /\ \E taken \in {Kept(1), Kept(2)} :
           LET stored == LoadAndUse(c, taken)
           IN Return(Release(Release(Store(stored, slot, stored.r1), Child), Kept(2)), Owned(slot, taken.word))
  BY DEF LowerSelect, Complete, Returned
<1>2. PICK taken \in {Kept(1), Kept(2)} :
           LET stored == LoadAndUse(c, taken)
           IN Return(Release(Release(Store(stored, slot, stored.r1), Child), Kept(2)), Owned(slot, taken.word))
  BY <1>1
<1> DEFINE l == LoadAndUse(c, taken)
           e == Store(l, slot, l.r1)
           f == Release(e, Child)
           d == Release(f, Kept(2))
           v == Owned(slot, taken.word)
<1>3. Return(d, v)
  BY <1>2
<1>4. FirstTwoOf(B) /\ Top.kind \notin Structured \cup Roots
  BY <1>1, ThirdFacts
<1>5. /\ ValueOK(Kept(1)) /\ Kept(1) \in Value /\ Kept(1).in = "owned" /\ Readable(Kept(1)) /\ Words(Kept(1)) = 1
      /\ ValueOK(Kept(2)) /\ Kept(2) \in Value /\ Kept(2).in # "R1" /\ Readable(Kept(2))
      /\ m \in Nat /\ Placed(Kept(1), b) /\ Placed(Kept(2), m) /\ n = After(Kept(2), m)
      /\ Special = {} /\ Correct /\ Runs => Holds(code, Kept(1)) /\ Holds(code, Kept(2))
  BY <1>1, <1>4 DEF FirstTwoOf, IsWord, Words
<1>6. /\ b \in Nat /\ n \in Nat /\ b <= n /\ n <= code.depth /\ code.depth \in Nat /\ code \in Emitted
      /\ Child \in Value /\ ValueOK(Child) /\ Placed(Child, n) /\ code.depth = After(Child, n) /\ Readable(Child)
      /\ b <= TempSlots /\ TempSlots \in Nat
  BY <1>1, ReturnedFacts
<1>7. m = b + 1 /\ slot = b + 1 /\ m <= n /\ After(Kept(1), b) <= code.depth /\ After(Kept(2), m) <= code.depth
  <2>1. m = b + 1 /\ slot = b + 1
    BY <1>5, <1>6 DEF After, IsOwned, Placed
  <2>2. m <= n
    BY <1>5, AfterType
  <2>3. QED
    BY <1>5, <1>6, <2>1, <2>2
<1>8. taken.word \in Nat /\ Readable(taken) /\ taken.in # "R1"
      /\ (Special = {} /\ Correct /\ Runs => Holds(code, taken))
  BY <1>2, <1>5 DEF Value
<1>9. c \in Emitted /\ Keeps(code, c, code.depth) /\ c.depth = code.depth /\ (code.exact /\ Holds(code, Child) => c.exact)
  BY <1>6, LoadOnTop
<1>10. Holds(c, taken) = Holds(code, taken)
  <2> HIDE DEF c, n, m, b
  <2>1. Holds(c, Kept(1)) = Holds(code, Kept(1))
    BY <1>5, <1>6, <1>7, <1>9, StaysHeld
  <2>2. Holds(c, Kept(2)) = Holds(code, Kept(2))
    BY <1>5, <1>6, <1>7, <1>9, StaysHeld
  <2>3. QED
    BY <1>2, <2>1, <2>2
<1> HIDE DEF c, slot, b, n
<1>11. /\ l \in Emitted /\ Keeps(c, l, code.depth) /\ l.depth = c.depth /\ (c.exact /\ Holds(c, taken) => l.exact)
       /\ l.r1 = Read(c, taken) /\ l.r1 \in Nat
  <2>1. l \in Emitted /\ Keeps(c, l, code.depth) /\ l.depth = c.depth /\ (c.exact /\ Holds(c, taken) => l.exact)
        /\ l.r1 = Read(c, taken)
    BY <1>8, <1>9, LoadOnTop
  <2>2. l.r1 \in Nat
    BY <2>1, EmittedFields
  <2>3. QED
    BY <2>1, <2>2
<1> HIDE DEF l
<1>12. /\ e \in Emitted /\ e.depth = l.depth /\ Keeps(l, e, b) /\ e.exact = l.exact /\ e.slots[slot] = Read(c, taken)
  <2>1. slot \notin 1 .. b /\ b <= TempSlots + 4 /\ slot \in 1 .. TempSlots + 4
    BY <1>6, <1>7
  <2>2. /\ e \in Emitted /\ e.depth = l.depth /\ e.exact = l.exact /\ Keeps(l, e, b)
    BY <1>6, <1>11, <2>1, StoreAbove
  <2>3. e.slots[slot] = l.r1
    BY <1>11, <2>1, StoreFacts
  <2>4. QED
    BY <1>11, <2>2, <2>3
<1> HIDE DEF e
<1>13. f \in Emitted /\ f.depth = n /\ SameWords(e, f)
  <2>1. e.depth = After(Child, n)
    BY <1>6, <1>9, <1>11, <1>12
  <2>2. QED
    BY <1>6, <1>12, <2>1, ReleaseTop
<1> HIDE DEF f
<1>14. d \in Emitted /\ d.depth = m /\ SameWords(f, d)
  <2>1. f.depth = After(Kept(2), m)
    BY <1>5, <1>13
  <2>2. QED
    BY <1>5, <1>13, <2>1, ReleaseTop
<1> HIDE DEF d
<1>15. v \in Value /\ ValueOK(v) /\ v.in = "owned" /\ v.at = slot /\ v.high = 0 /\ v.word = taken.word /\ IsOwned(v)
       /\ IsWord(v) /\ Words(v) = 1
  BY <1>6, <1>7, <1>8, OwnedType
<1> HIDE DEF v
<1>16. Placed(v, b) /\ d.depth = After(v, b)
  BY <1>6, <1>7, <1>14, <1>15 DEF Placed, After
<1>17. ASSUME Special = {}, Correct, Runs
       PROVE  d.exact /\ Holds(d, v)
  <2>1. Holds(c, taken) /\ code.exact /\ Holds(code, Child)
    BY <1>1, <1>8, <1>10, <1>17, ReturnedFacts
  <2>2. d.exact
    BY <1>9, <1>11, <1>12, <1>13, <1>14, <2>1 DEF SameWords
  <2>3. d.slots[slot] = taken.word
    BY <1>12, <1>13, <1>14, <2>1 DEF SameWords, Holds
  <2>4. QED
    BY <1>15, <2>2, <2>3 DEF Holds, Read
<1>18. Keeps(code, d, b)
  <2>1. Keeps(code, l, code.depth)
    BY <1>9, <1>11, KeepsTransitive
  <2>2. b <= code.depth
    BY <1>6
  <2>3. Keeps(code, l, b)
    BY <1>6, <2>1, <2>2, KeepsFewer
  <2>4. QED
    BY <1>12, <1>13, <1>14, <2>3 DEF Keeps, SameWords
<1>19. Gives(Top.kind) = "word"
  BY <1>1, GivesOf
<1>20. QED
  BY <1>1, <1>3, <1>4, <1>14, <1>15, <1>16, <1>17, <1>18, <1>19, ReturnOwned DEF b

\* local.set and local.tee: in the code and in Wasm the local gets the word.
Assigned(c, d, l, w) ==
  /\ d \in Emitted /\ d.depth = c.depth /\ d.slots = c.slots /\ d.r1 = c.r1 /\ d.r8 = c.r8 /\ d.exact = c.exact
  /\ d.locals = [c.locals EXCEPT ![l] = c.r1] /\ d.wasm = [c.wasm EXCEPT ![l] = w]

LEMMA AssignFacts ==
  ASSUME NEW c \in Emitted, NEW l \in Local, NEW w \in Nat,
         NEW d, d = [c EXCEPT !.locals[l] = c.r1, !.wasm[l] = w]
  PROVE  Assigned(c, d, l, w)
<1>1. /\ c \in Code /\ (c.depth <= TempSlots \/ c.depth <= c.peak)
      /\ c.locals \in [Local -> Nat] /\ c.wasm \in [Local -> Nat] /\ c.r1 \in Nat
  BY EmittedFields
<1>2. /\ d.depth = c.depth /\ d.peak = c.peak /\ d.slots = c.slots /\ d.r1 = c.r1 /\ d.r8 = c.r8
      /\ d.exact = c.exact
      /\ d.locals = [c.locals EXCEPT ![l] = c.r1] /\ d.wasm = [c.wasm EXCEPT ![l] = w]
  BY <1>1 DEF Code
<1>3. [c.locals EXCEPT ![l] = c.r1] \in [Local -> Nat] /\ [c.wasm EXCEPT ![l] = w] \in [Local -> Nat]
  BY <1>1
<1>4. d \in Code
  BY <1>1, <1>3 DEF Code
<1>5. QED
  BY <1>1, <1>2, <1>4 DEF Emitted, Assigned

LEMMA LowerTeeStep ==
  ASSUME NEW B, Going(B), LowerTee
  PROVE  IInv'
<1> DEFINE b == B[Index]
           loaded == LoadAndUse(code, Child)
<1>1. /\ given # <<>> /\ Top.kind \in {"tee", "set"} /\ Len(Top.kept) = Len(Children(Top.kind)) - 1
      /\ \E l \in Local :
           LET c == [loaded EXCEPT !.locals[l] = loaded.r1, !.wasm[l] = Child.word]
           IN IF Top.kind = "tee" THEN Return(MaterializeBorrowed(c, Child), Durable(c, Child))
              ELSE Return(Release(c, Child), Absent)
  BY DEF LowerTee, Complete, Returned
<1>2. PICK l \in Local :
           LET c == [loaded EXCEPT !.locals[l] = loaded.r1, !.wasm[l] = Child.word]
           IN IF Top.kind = "tee" THEN Return(MaterializeBorrowed(c, Child), Durable(c, Child))
              ELSE Return(Release(c, Child), Absent)
  BY <1>1
<1> DEFINE c == [loaded EXCEPT !.locals[l] = loaded.r1, !.wasm[l] = Child.word]
<1>3. /\ IsWord(Child) /\ OnTop(code, Child, b) /\ Top.kind \notin Structured \cup Roots
  BY <1>1, UnaryFacts DEF UnaryKinds
<1>4. /\ b \in Nat /\ TempSlots \in Nat /\ Readable(Child) /\ code \in Emitted /\ Child.word \in Nat
      /\ Child \in Value /\ ValueOK(Child) /\ Child.in # "R8"
  BY <1>1, ReturnedFacts
<1>5. /\ loaded \in Emitted /\ loaded.depth = code.depth /\ loaded.slots = code.slots
      /\ loaded.locals = code.locals /\ loaded.wasm = code.wasm /\ loaded.r8 = code.r8 /\ loaded.r1 = Read(code, Child)
      /\ (code.exact /\ Holds(code, Child) => loaded.exact)
  BY <1>4, LoadAndUseFacts
<1>6. IF Top.kind = "tee" THEN Return(MaterializeBorrowed(c, Child), Durable(c, Child))
      ELSE Return(Release(c, Child), Absent)
  BY <1>2
<1> HIDE DEF loaded
<1>7. /\ c \in Emitted /\ c.depth = code.depth /\ c.slots = code.slots /\ c.r1 = loaded.r1 /\ c.r8 = code.r8
      /\ c.exact = loaded.exact
      /\ c.locals = [code.locals EXCEPT ![l] = loaded.r1] /\ c.wasm = [code.wasm EXCEPT ![l] = Child.word]
  <2>1. c = [loaded EXCEPT !.locals[l] = loaded.r1, !.wasm[l] = Child.word]
    OBVIOUS
  <2> HIDE DEF c
  <2>2. Assigned(loaded, c, l, Child.word)
    BY <1>4, <1>5, <2>1, AssignFacts
  <2>3. QED
    BY <1>5, <2>2 DEF Assigned
<1> HIDE DEF c, b
<1>8. ASSUME Special = {}, Correct, Runs
      PROVE  c.exact /\ c.locals = c.wasm /\ Holds(c, Child)
  <2>1. code.exact /\ Holds(code, Child) /\ code.locals = code.wasm
    BY <1>1, <1>8, ReturnedFacts
  <2>2. loaded.r1 = Child.word /\ Child.high = 0
    BY <1>3, <1>5, <2>1 DEF Holds, IsWord
  <2>3. Read(c, Child) = Child.word
    <3>1. CASE Child.in = "borrowed"
      <4>1. Child.at \in Local /\ code.locals \in [Local -> Nat] /\ code.locals[Child.at] = Child.word
        BY <1>4, <2>1, <3>1, EmittedFields DEF ValueOK, Holds, Read
      <4>2. QED
        BY <1>7, <2>2, <3>1, <4>1 DEF Read
    <3>2. CASE Child.in = "R1"
      BY <1>7, <2>2, <3>2 DEF Read
    <3>3. CASE Child.in \notin {"borrowed", "R1"}
      BY <1>4, <1>7, <2>1, <3>3 DEF Holds, Read, Value
    <3>4. QED
      BY <3>1, <3>2, <3>3
  <2>4. QED
    BY <1>5, <1>7, <2>1, <2>2, <2>3 DEF Holds
<1>9. OnTop(c, Child, b)
  BY <1>3, <1>7 DEF OnTop
<1>10. CASE Top.kind = "tee"
  <2> DEFINE d == MaterializeBorrowed(c, Child)
             v == Durable(c, Child)
  <2>1. Return(d, v)
    BY <1>6, <1>10
  <2>2. /\ d \in Emitted /\ Keeps(c, d, b) /\ d.exact = c.exact
        /\ ValueOK(v) /\ IsWord(v) /\ v.in \in {"immediate", "owned"}
        /\ Placed(v, b) /\ d.depth = After(v, b)
        /\ Holds(c, Child) => Holds(d, v)
    BY <1>3, <1>4, <1>9, DurableFacts
  <2> HIDE DEF d, v
  <2>3. ASSUME Special = {}, Correct, Runs
        PROVE  /\ d.exact /\ d.locals = d.wasm /\ d.r8 = code.r8 /\ Holds(d, v)
               /\ \A s \in 1 .. b : d.slots[s] = code.slots[s]
    BY <1>7, <1>8, <2>2, <2>3 DEF Keeps
  <2>4. Gives(Top.kind) = "word"
    BY <1>10, GivesOf
  <2>5. Suits(v, Gives(Top.kind)) /\ Gives(Top.kind) # "exit" /\ v.in # "borrowed" /\ v.in # "R1"
    BY <2>2, <2>4 DEF Suits
  <2>6. QED
    BY <1>3, <2>1, <2>2, <2>3, <2>5, Returning DEF Going, b
<1>11. CASE Top.kind # "tee"
  <2> DEFINE d == Release(c, Child)
  <2>1. Return(d, Absent) /\ Top.kind = "set"
    BY <1>1, <1>6, <1>11
  <2>2. d \in Emitted /\ SameWords(c, d) /\ d.depth = b
    BY <1>4, <1>9, ReleaseTop DEF OnTop
  <2> HIDE DEF d
  <2>3. Gives(Top.kind) = "none"
    BY <2>1, GivesOf
  <2>4. ASSUME Special = {}, Correct, Runs
        PROVE  d.exact /\ d.locals = d.wasm /\ d.r8 = code.r8 /\ \A s \in 1 .. b : d.slots[s] = code.slots[s]
    BY <1>7, <1>8, <2>2, <2>4 DEF SameWords
  <2>5. QED
    BY <1>3, <2>1, <2>2, <2>3, <2>4, ReturnNothing DEF b
<1>12. QED
  BY <1>10, <1>11

\* Using an operand says nothing of the words the code has left.
LEMMA HoldsUsed ==
  ASSUME NEW c \in Emitted, NEW u, NEW v
  PROVE  Holds(Use(c, u), v) = Holds(c, v) /\ Read(Use(c, u), v) = Read(c, v)
<1> DEFINE d == Use(c, u)
<1>1. d.slots = c.slots /\ d.locals = c.locals /\ d.r1 = c.r1 /\ d.r8 = c.r8
  BY UseFacts
<1> HIDE DEF d
<1>2. Read(d, v) = Read(c, v)
  BY <1>1 DEF Read
<1>3. Holds(d, v) = Holds(c, v)
  BY <1>1, <1>2 DEF Holds
<1>4. QED
  BY <1>2, <1>3 DEF d

\* lower_cpu_binary: one slot is left, that of the left operand, of the right
\* one, or a new one.
LEMMA LowerCpuBinaryStep ==
  ASSUME NEW B, Going(B), LowerCpuBinary
  PROVE  IInv'
<1> DEFINE right == Durable(code, Child)
           spilled == IF Child.in = "R1" THEN Materialize(code, Child) ELSE code
           operand == IF Child.in = "R1" THEN right ELSE Child
           place == IF Kept(1).in # "immediate" \/ operand.in = "immediate" THEN Kept(1) ELSE operand
           r == Reserve(spilled, IF place.in = "borrowed" THEN Owned(0, 0) ELSE place)
           u == Use(r, Kept(1))
           c == Use(u, operand)
           x == [c EXCEPT !.r1 = Read(c, operand)]
           slot == SlotFor(spilled, place)
           done == Store(x, slot, New)
           d == IF place = operand THEN done ELSE Release(done, operand)
           v == Owned(slot, New)
           b == B[Index]
           m == B[Index + 1]
<1>1. /\ given # <<>> /\ Top.kind = "cpu2" /\ Len(Top.kept) = Len(Children(Top.kind)) - 1
      /\ IF place.in = "borrowed"
           THEN Return([c EXCEPT !.locals[place.at] = New, !.r1 = Read(c, operand)], [place EXCEPT !.word = New])
           ELSE Return(d, v)
  BY DEF LowerCpuBinary, Complete, Returned
<1>2. FirstOf(B) /\ Top.kind \notin Structured \cup Roots /\ IsWord(Child) /\ Top.kept = <<Kept(1)>>
  BY <1>1, SecondFacts DEF TwoWords
<1>3. b \in Nat /\ m \in Nat /\ b <= m /\ OnTop(code, Child, m) /\ code \in Emitted /\ m = After(Kept(1), b)
      /\ Kept(1).in \in {"immediate", "owned"} /\ Child \in Value /\ ValueOK(Child) /\ Child.in # "R8"
      /\ New \in Nat /\ m <= TempSlots /\ TempSlots \in Nat
  BY <1>1, <1>2, ReturnedFacts DEF FirstOf
<1> HIDE DEF b, m
<1>4. /\ spilled \in Emitted /\ Keeps(code, spilled, m) /\ spilled.exact = code.exact
      /\ operand \in Value /\ ValueOK(operand) /\ IsWord(operand) /\ operand.in # "R1" /\ operand.in # "R8"
      /\ (operand.in = "borrowed" => Child.in = "borrowed")
      /\ Placed(operand, m) /\ spilled.depth = After(operand, m)
      /\ Holds(code, Child) => Holds(spilled, operand)
  <2>1. operand = IF Child.in = "R1" THEN Reserved(code, Child) ELSE Child
    BY DEF Durable, Transient
  <2> HIDE DEF operand
  <2>2. QED
    BY <1>2, <1>3, <2>1, SpilledFacts
<1>5. Readable(operand)
  BY <1>3, <1>4, PlacedReadable
<1> HIDE DEF spilled, operand
<1>6. operand.in \in {"immediate", "borrowed", "owned"}
  BY <1>4 DEF IsWord, Value
<1>7. CASE place.in = "borrowed"
  <2> DEFINE e == [c EXCEPT !.locals[place.at] = New, !.r1 = Read(c, operand)]
             w == [place EXCEPT !.word = New]
  <2>1. place = operand /\ operand.in = "borrowed" /\ Kept(1).in = "immediate" /\ operand.at \in Local
    BY <1>3, <1>4, <1>7 DEF ValueOK
  <2>2. Return(e, w)
    BY <1>1, <1>7
  <2>3. ~(Special = {} /\ Correct)
    <3>1. Child.in = "borrowed" /\ Top.kept # <<>> /\ Top.kept[1].in = "immediate"
      BY <1>2, <1>4, <2>1 DEF Kept
    <3>2. Correct => ~(given # <<>> /\ Top.kind = "cpu2" /\ Top.kept # <<>> /\ Top.kept[1].in = "immediate"
                       /\ Child.in = "borrowed")
      BY DEF Correct, Ordinary, Top, Child
    <3>3. QED
      BY <1>1, <3>1, <3>2
  <2>4. b = m /\ spilled.depth = b
    BY <1>3, <1>4, <2>1 DEF After, IsOwned
  <2>5. r = spilled
    <3>1. IsOwned(Owned(0, 0))
      BY OwnedType
    <3>2. QED
      BY <1>7, <3>1 DEF Reserve
  <2>6. c \in Emitted /\ c.depth = b
    BY <1>4, <2>4, <2>5, UsedFacts
  <2>7. Read(c, operand) \in Nat
    BY <1>5, <2>6, ReadType, EmittedFields
  <2> HIDE DEF c, r
  <2>8. e \in Emitted /\ e.depth = b
    <3>1. /\ c \in Code /\ (c.depth <= TempSlots \/ c.depth <= c.peak) /\ c.locals \in [Local -> Nat]
      BY <2>6, EmittedFields
    <3>2. [c.locals EXCEPT ![place.at] = New] \in [Local -> Nat]
      BY <1>3, <3>1
    <3>3. e.depth = c.depth /\ e.peak = c.peak
      BY <3>1 DEF Code
    <3>4. e \in Code
      BY <2>7, <3>1, <3>2 DEF Code
    <3>5. QED
      BY <2>6, <3>1, <3>3, <3>4 DEF Emitted
  <2> HIDE DEF e
  <2>9. ValueOK(w) /\ IsWord(w) /\ w.in = "borrowed" /\ ~IsOwned(w)
    <3>1. w \in Value /\ w.in = "borrowed" /\ w.at = operand.at /\ w.high = 0
      BY <1>3, <1>4, <2>1 DEF IsWord, Value
    <3>2. QED
      BY <2>1, <3>1 DEF ValueOK, IsWord, IsOwned
  <2> HIDE DEF w
  <2>10. Gives(Top.kind) = "word"
    BY <1>1, GivesOf
  <2>11. Suits(w, Gives(Top.kind)) /\ Gives(Top.kind) # "exit" /\ w.in # "R1" /\ Placed(w, b) /\ e.depth = After(w, b)
    BY <2>8, <2>9, <2>10 DEF Suits, Placed, After
  <2>12. QED
    BY <1>1, <1>2, <2>2, <2>3, <2>8, <2>11, Returning DEF Going, b
<1>8. CASE place.in # "borrowed"
  <2>1. Return(d, v)
    BY <1>1, <1>8
  <2>2. /\ slot = b + 1 /\ r \in Emitted /\ SameWords(spilled, r)
        /\ IF Kept(1).in = "owned" THEN place # operand /\ r.depth = After(operand, b + 1)
           ELSE r.depth = b + 1 /\ (place # operand => ~IsOwned(operand))
    <3>1. r = Reserve(spilled, place)
      BY <1>8
    <3>2. spilled.depth \in Nat /\ SameWords(spilled, spilled)
      BY <1>4, EmittedFields DEF SameWords
    <3>3. CASE Kept(1).in = "owned"
      <4>1. place = Kept(1) /\ IsOwned(place) /\ place.at = b + 1 /\ m = b + 1
        BY <1>2, <1>3, <3>3 DEF FirstOf, IsOwned, Placed, After, IsWord, Words, b
      <4>2. place # operand
        <5>1. IsOwned(operand) => operand.at = b + 2
          BY <1>3, <1>4, <4>1 DEF Placed
        <5>2. QED
          BY <1>3, <4>1, <5>1
      <4>3. r = spilled /\ slot = b + 1
        BY <3>1, <4>1 DEF Reserve, SlotFor
      <4>4. QED
        BY <1>4, <3>2, <3>3, <4>1, <4>2, <4>3
    <3>4. CASE Kept(1).in = "immediate" /\ operand.in = "immediate"
      <4>1. place = Kept(1) /\ ~IsOwned(place) /\ m = b /\ ~IsOwned(operand)
        BY <1>3, <3>4 DEF IsOwned, After
      <4>2. spilled.depth = b
        BY <1>4, <4>1 DEF After
      <4>3. r = Allocate(spilled, 1) /\ slot = b + 1
        BY <3>1, <4>1, <4>2 DEF Reserve, SlotFor
      <4>4. r \in Emitted /\ SameWords(spilled, r) /\ r.depth = b + 1
        BY <1>4, <4>2, <4>3, AllocateFacts
      <4>5. QED
        BY <3>4, <4>1, <4>3, <4>4
    <3>5. CASE Kept(1).in = "immediate" /\ operand.in # "immediate"
      <4>1. place = operand /\ IsOwned(operand) /\ m = b /\ operand.at = b + 1
        BY <1>3, <1>4, <1>6, <1>8, <3>5 DEF IsOwned, After, Placed
      <4>2. r = spilled /\ slot = b + 1
        BY <3>1, <4>1 DEF Reserve, SlotFor
      <4>3. spilled.depth = b + 1
        BY <1>4, <4>1 DEF After, IsWord, Words
      <4>4. QED
        BY <1>4, <3>2, <3>5, <4>1, <4>2, <4>3
    <3>6. QED
      BY <1>3, <3>3, <3>4, <3>5
  <2> HIDE DEF r, slot, place
  <2>3. Holds(r, Kept(1)) = Holds(code, Kept(1)) /\ Holds(r, operand) = Holds(spilled, operand)
    <3>1. After(Kept(1), b) <= m /\ ValueOK(Kept(1)) /\ Placed(Kept(1), b) /\ Kept(1).in # "R1"
      BY <1>2, <1>3 DEF FirstOf, b
    <3>2. Holds(spilled, Kept(1)) = Holds(code, Kept(1))
      BY <1>3, <1>4, <3>1, StaysHeld
    <3>3. QED
      BY <2>2, <3>2, HoldsSame
  <2>4. u \in Emitted /\ u.depth = r.depth /\ Keeps(r, u, b) /\ (r.exact /\ Holds(r, Kept(1)) => u.exact)
    BY <2>2, UsedFacts
  <2>5. Holds(u, operand) = Holds(r, operand)
    BY <2>2, HoldsUsed
  <2> HIDE DEF u
  <2>6. c \in Emitted /\ c.depth = u.depth /\ Keeps(u, c, b) /\ (u.exact /\ Holds(u, operand) => c.exact)
    BY <2>4, UsedFacts
  <2>7. Read(c, operand) \in Nat
    BY <1>5, <2>6, ReadType, EmittedFields
  <2> HIDE DEF c
  <2>8. x \in Emitted /\ x.depth = c.depth /\ Keeps(c, x, b) /\ x.exact = c.exact
    BY <2>6, <2>7, R1Facts DEF Keeps
  <2> HIDE DEF x
  <2>9. /\ done \in Emitted /\ done.depth = x.depth /\ Keeps(x, done, b) /\ done.exact = x.exact
        /\ done.slots[slot] = New
    <3>1. slot \notin 1 .. b /\ b <= TempSlots + 4 /\ slot \in 1 .. TempSlots + 4
      BY <1>3, <2>2
    <3>2. /\ done \in Emitted /\ done.depth = x.depth /\ done.exact = x.exact /\ Keeps(x, done, b)
      BY <1>3, <2>8, <3>1, StoreAbove
    <3>3. done.slots[slot] = New
      BY <1>3, <2>8, <3>1, StoreFacts
    <3>4. QED
      BY <3>2, <3>3
  <2> HIDE DEF done
  <2>10. done.depth = r.depth
    BY <2>4, <2>6, <2>8, <2>9
  <2>11. d \in Emitted /\ d.depth = b + 1 /\ SameWords(done, d)
    <3>1. SameWords(done, done) /\ b + 1 \in Nat
      BY <1>3 DEF SameWords
    <3>2. CASE Kept(1).in = "owned"
      <4>1. d = Release(done, operand) /\ done.depth = After(operand, b + 1)
        BY <2>2, <2>10, <3>2
      <4>2. QED
        BY <1>4, <2>9, <3>1, <4>1, ReleaseTop
    <3>3. CASE Kept(1).in # "owned"
      <4>1. d = done
        BY <2>2, <3>3 DEF Release
      <4>2. QED
        BY <2>2, <2>9, <2>10, <3>1, <3>3, <4>1
    <3>4. QED
      BY <3>2, <3>3
  <2> HIDE DEF d
  <2>12. v \in Value /\ ValueOK(v) /\ v.in = "owned" /\ v.at = slot /\ v.high = 0 /\ v.word = New /\ IsOwned(v)
         /\ IsWord(v) /\ Words(v) = 1
    BY <1>3, <2>2, OwnedType
  <2> HIDE DEF v
  <2>13. Placed(v, b) /\ d.depth = After(v, b)
    BY <2>2, <2>11, <2>12 DEF Placed, After
  <2>14. Holds(d, v)
    BY <2>9, <2>11, <2>12 DEF Holds, Read, SameWords
  <2>15. Keeps(code, d, b)
    <3>1. Keeps(code, spilled, b)
      BY <1>3, <1>4, KeepsFewer
    <3>2. QED
      BY <2>2, <2>4, <2>6, <2>8, <2>9, <2>11, <3>1 DEF Keeps, SameWords
  <2>16. ASSUME Special = {}, Correct, Runs
         PROVE  d.exact
    <3>1. Holds(code, Child) /\ code.exact /\ Holds(code, Kept(1))
      BY <1>1, <1>2, <2>16, ReturnedFacts DEF FirstOf
    <3>2. QED
      BY <1>4, <2>2, <2>3, <2>4, <2>5, <2>6, <2>8, <2>9, <2>11, <3>1 DEF SameWords
  <2>17. Gives(Top.kind) = "word"
    BY <1>1, GivesOf
  <2>18. QED
    BY <1>2, <2>1, <2>11, <2>12, <2>13, <2>14, <2>15, <2>16, <2>17, ReturnOwned DEF b
<1>9. QED
  BY <1>7, <1>8

-----------------------------------------------------------------------------
(* Operands kept while the next ones are lowered.                           *)

LEMMA KeepFields ==
  ASSUME Top \in Frame, NEW v \in Value
  PROVE  LET g == [Top EXCEPT !.kept = Append(@, v)] IN
         /\ g \in Frame /\ g.kind = Top.kind /\ g.kept = Append(Top.kept, v) /\ g.retain = Top.retain
         /\ g.slot = Top.slot /\ g.carried = Top.carried /\ g.side = Top.side
<1>1. Append(Top.kept, v) \in Seq(Value)
  BY DEF Frame
<1>2. QED
  BY <1>1 DEF Frame

\* v is a first operand that a call may keep.
Keepable(v) ==
  /\ v \in Value /\ ValueOK(v)
  /\ IF Children(Top.kind)[1] = "pair" THEN IsPair(v)
     ELSE /\ IsWord(v) /\ v.in \notin {"borrowed", "R1"}
          /\ v.in = "R8" <=> Top.kind = "twoport"
          /\ Top.kind \in {"select", "indirect", "copy64"} => v.in = "owned"

LEMMA KeepingFirst ==
  ASSUME NEW B, Going(B), given # <<>>, NEW c \in Emitted, NEW v, Keep(c, v), Len(Top.kept) = 0,
         Len(Children(Top.kind)) > 1, Top.kind \notin Structured \cup {"binary"},
         Keepable(v), Placed(v, B[Index]), c.depth = After(v, B[Index]),
         Special = {} /\ Correct /\ Runs =>
           /\ c.exact /\ c.locals = c.wasm
           /\ \A s \in 1 .. B[Index] : c.slots[s] = code.slots[s]
           /\ c.r8 = code.r8 \/ Top.kind = "twoport"
           /\ Holds(c, v)
  PROVE  IInv'
<1> DEFINE g == [Top EXCEPT !.kept = Append(@, v)]
<1>1. Emit(c, Replaced(g), <<>>, skip) /\ nodes' = nodes
  BY DEF Keep
<1>2. Top \in Frame /\ FrameOK(Top) /\ v \in Value /\ Len(Children(Top.kind)) \in Nat
  BY ReturnedFacts, ChildrenType DEF Keepable
<1>3. Top.kept = <<>> /\ Top.slot = 0 /\ Top.side # "constant"
  BY FirstChild DEF Going, Structured
<1>4. /\ g \in Frame /\ g.kind = Top.kind /\ g.kept = Append(Top.kept, v) /\ g.retain = Top.retain
      /\ g.slot = Top.slot /\ g.side = Top.side
  BY <1>2, KeepFields
<1>5. g.kept = <<v>> /\ Len(g.kept) = 1 /\ DOMAIN g.kept = {1} /\ g.kept[1] = v
  BY <1>3, <1>4
<1> HIDE DEF g
<1>6. KeptAs(g, 1) /\ ValueOK(g.kept[1])
  BY <1>4, <1>5 DEF KeptAs, Keepable
<1>7. g.slot # 0 <=> g.kind = "block" \/ (g.kind \in {"ifelse", "binary"} /\ g.kept # <<>>)
  BY <1>3, <1>4 DEF Structured
<1>8. FrameOK(g)
  BY <1>2, <1>3, <1>4, <1>5, <1>6, <1>7 DEF FrameOK
<1>9. FrameAt(g, B[Index]) /\ c.depth = FrameEnd(g, B[Index])
  BY <1>3, <1>4, <1>5 DEF FrameAt, FrameEnd
<1>10. \A n \in DOMAIN g.kept : g.kept[n] = v
  BY <1>5
<1>11. Emit(c, Replaced(g), <<>>, skip)
  BY <1>1 DEF g
<1>12. QED
  BY <1>1, <1>4, <1>8, <1>9, <1>10, <1>11, Keeping DEF Going

LEMMA AppendSecond ==
  ASSUME NEW u \in Value, NEW v \in Value
  PROVE  LET k == Append(<<u>>, v) IN
         k # <<>> /\ Len(k) = 2 /\ DOMAIN k = {1, 2} /\ k[1] = u /\ k[2] = v
<1>1. <<u>> \in Seq(Value) /\ Len(<<u>>) = 1
  OBVIOUS
<1>2. Append(<<u>>, v) \in Seq(Value) /\ Len(Append(<<u>>, v)) = 2
  BY <1>1
<1>3. Append(<<u>>, v)[1] = u /\ Append(<<u>>, v)[2] = v
  BY <1>1
<1>4. QED
  BY <1>2, <1>3

LEMMA KeepingSecond ==
  ASSUME NEW B, Going(B), given # <<>>, NEW c \in Emitted, NEW v, Keep(c, v), Len(Top.kept) = 1,
         Top.kind \in {"select", "packed", "bulk"},
         v \in Value, ValueOK(v), IsWord(v), v.in \notin {"borrowed", "R1", "R8"},
         Placed(v, B[Index + 1]), c.depth = After(v, B[Index + 1]),
         Special = {} /\ Correct /\ Runs => c.exact /\ Keeps(code, c, B[Index + 1]) /\ Holds(c, v)
  PROVE  IInv'
<1> DEFINE g == [Top EXCEPT !.kept = Append(@, v)]
<1>1. Emit(c, Replaced(g), <<>>, skip) /\ nodes' = nodes
  BY DEF Keep
<1>2. /\ Top \in Frame /\ FrameOK(Top) /\ B[Index] \in Nat /\ B[Index + 1] \in Nat /\ B[Index] <= B[Index + 1]
      /\ Special = {} /\ Correct /\ Runs => code.locals = code.wasm
  BY ReturnedFacts
<1>3. /\ Top.kept = <<Kept(1)>> /\ Top.slot = 0 /\ Top.side # "constant" /\ ValueOK(Kept(1)) /\ Kept(1) \in Value
      /\ Placed(Kept(1), B[Index]) /\ B[Index + 1] = After(Kept(1), B[Index]) /\ KeptAs(Top, 1)
  BY SecondChild DEF Going, Structured
<1>4. /\ g \in Frame /\ g.kind = Top.kind /\ g.kept = Append(Top.kept, v) /\ g.retain = Top.retain
      /\ g.slot = Top.slot /\ g.side = Top.side
  BY <1>2, KeepFields
<1>5. /\ g.kept # <<>> /\ Len(g.kept) = 2 /\ DOMAIN g.kept = {1, 2} /\ g.kept[1] = Kept(1)
      /\ g.kept[2] = v
  BY <1>2, <1>3, <1>4, AppendSecond
<1> HIDE DEF g
<1>6. Children(Top.kind) = <<"word", "word", "word">> /\ Top.kept[1] = Kept(1)
  BY ChildrenOf DEF Kept
<1>7. KeptAs(g, 1) /\ KeptAs(g, 2) /\ ValueOK(g.kept[1]) /\ ValueOK(g.kept[2])
  BY <1>3, <1>4, <1>5, <1>6 DEF KeptAs
<1>8. Kept(1).in \notin {"borrowed", "R1"}
  BY <1>3, <1>6 DEF KeptAs
<1>9. FrameOK(g)
  <2>1. Len(g.kept) < Len(Children(g.kind)) /\ g.kind \notin Structured /\ g.slot = 0 /\ g.kept # <<>>
    BY <1>3, <1>4, <1>5, <1>6 DEF Structured
  <2>2. \A n \in DOMAIN g.kept : ValueOK(g.kept[n]) /\ KeptAs(g, n)
    BY <1>5, <1>7
  <2>3. QED
    BY <1>3, <1>4, <2>1, <2>2 DEF FrameOK
<1>10. FrameAt(g, B[Index]) /\ c.depth = FrameEnd(g, B[Index])
  BY <1>3, <1>4, <1>5 DEF FrameAt, FrameEnd
<1>11. ASSUME Special = {}, Correct, Runs
       PROVE  /\ c.exact /\ c.locals = c.wasm /\ c.r8 = code.r8
              /\ \A s \in 1 .. B[Index] : c.slots[s] = code.slots[s]
              /\ \A n \in DOMAIN g.kept : Holds(c, g.kept[n])
  <2>1. c.exact /\ Keeps(code, c, B[Index + 1]) /\ Holds(c, v)
    BY <1>11
  <2>2. 1 \in DOMAIN Top.kept
    BY <1>3
  <2>3. Holds(code, Kept(1))
    BY <1>11, <2>2, ReturnedFacts DEF Kept
  <2>4. After(Kept(1), B[Index]) <= B[Index + 1]
    BY <1>2, <1>3
  <2>5. Holds(c, Kept(1))
    BY <1>2, <1>3, <1>8, <2>1, <2>3, <2>4, StaysHeld
  <2>6. \A n \in DOMAIN g.kept : Holds(c, g.kept[n])
    BY <1>5, <2>1, <2>5
  <2>7. QED
    BY <1>2, <1>11, <2>1, <2>6 DEF Keeps
<1>12. Emit(c, Replaced(g), <<>>, skip)
  BY <1>1 DEF g
<1>13. Top.kind \notin Structured
  BY DEF Structured
<1>14. QED
  BY <1>1, <1>2, <1>4, <1>9, <1>10, <1>11, <1>12, <1>13, Keeping DEF Going

\* The word that an operation asks for first.
LEMMA FirstWord ==
  ASSUME NEW B, Going(B), given # <<>>, Len(Top.kept) = 0, Top.kind \notin Structured,
         Children(Top.kind)[1] = "word"
  PROVE  IsWord(Child) /\ B[Index + 1] = B[Index] /\ OnTop(code, Child, B[Index])
<1>1. B[Index + 1] = B[Index] /\ Wanted(Top) = "word"
  BY FirstChild DEF Going, Structured
<1>2. IsWord(Child)
  BY <1>1, ReturnedFacts DEF GivenOK, Arm, Structured
<1>3. QED
  BY <1>1, <1>2, ReturnedFacts

LEMMA KeepFirstDurable ==
  ASSUME NEW B, Going(B), given # <<>>, Keep(MaterializeBorrowed(code, Child), Durable(code, Child)),
         Len(Top.kept) = 0, Len(Children(Top.kind)) > 1, Children(Top.kind)[1] = "word",
         Top.kind \notin Structured \cup {"binary", "twoport", "select", "indirect", "copy64"}
  PROVE  IInv'
<1> DEFINE b == B[Index]
           d == MaterializeBorrowed(code, Child)
           v == Durable(code, Child)
<1>1. Keep(d, v)
  OBVIOUS
<1>2. IsWord(Child) /\ OnTop(code, Child, b)
  BY FirstWord
<1>3. Child.in # "R8" /\ (Special = {} /\ Correct /\ Runs => code.exact /\ code.locals = code.wasm /\ Holds(code, Child))
  BY ReturnedFacts
<1>4. /\ d \in Emitted /\ Keeps(code, d, b) /\ d.exact = code.exact
      /\ v \in Value /\ ValueOK(v) /\ IsWord(v) /\ v.in \in {"immediate", "owned"}
      /\ Placed(v, b) /\ d.depth = After(v, b)
      /\ Holds(code, Child) => Holds(d, v)
  BY <1>2, <1>3, DurableFacts
<1> HIDE DEF d, v, b
<1>5. Keepable(v)
  BY <1>4 DEF Keepable
<1>6. ASSUME Special = {}, Correct, Runs
      PROVE  /\ d.exact /\ d.locals = d.wasm /\ d.r8 = code.r8 /\ Holds(d, v)
             /\ \A s \in 1 .. b : d.slots[s] = code.slots[s]
  BY <1>3, <1>4, <1>6 DEF Keeps
<1>7. QED
  BY <1>1, <1>4, <1>5, <1>6, KeepingFirst DEF b

LEMMA KeepSecondDurable ==
  ASSUME NEW B, Going(B), given # <<>>, Keep(MaterializeBorrowed(code, Child), Durable(code, Child)),
         Len(Top.kept) = 1, Top.kind \in {"select", "packed", "bulk"}
  PROVE  IInv'
<1> DEFINE b == B[Index + 1]
           d == MaterializeBorrowed(code, Child)
           v == Durable(code, Child)
<1>1. Keep(d, v)
  OBVIOUS
<1>2. OnTop(code, Child, b) /\ Child.in # "R8" /\ GivenOK(Top, Child)
      /\ (Special = {} /\ Correct /\ Runs => code.exact /\ Holds(code, Child))
  BY ReturnedFacts
<1>3. IsWord(Child)
  <2>1. Children(Top.kind) = <<"word", "word", "word">>
    BY ChildrenOf
  <2>2. Wanted(Top) = "word"
    BY <2>1, SecondChild DEF Going
  <2>3. QED
    BY <1>2, <2>2 DEF GivenOK, Arm
<1>4. /\ d \in Emitted /\ Keeps(code, d, b) /\ d.exact = code.exact
      /\ v \in Value /\ ValueOK(v) /\ IsWord(v) /\ v.in \in {"immediate", "owned"}
      /\ Placed(v, b) /\ d.depth = After(v, b)
      /\ Holds(code, Child) => Holds(d, v)
  BY <1>2, <1>3, DurableFacts
<1> HIDE DEF d, v, b
<1>5. Special = {} /\ Correct /\ Runs => d.exact /\ Keeps(code, d, b) /\ Holds(d, v)
  BY <1>2, <1>4
<1>6. QED
  BY <1>1, <1>4, <1>5, KeepingSecond DEF b

LEMMA KeepBorrowableStep ==
  ASSUME NEW B, Going(B), KeepBorrowable
  PROVE  IInv'
<1> DEFINE kinds == {"cpu2", "store", "store64", "packed", "bulk", "call", "call64", "ports", "brifvalue"}
<1>1. PICK n \in 1 .. 2 : Returned(kinds, n) /\ n < Len(Children(Top.kind))
  BY DEF KeepBorrowable
<1>2. given # <<>> /\ Top.kind \in kinds /\ Len(Top.kept) = n - 1
  BY <1>1 DEF Returned
<1>3. Keep(MaterializeBorrowed(code, Child), Durable(code, Child))
  BY DEF KeepBorrowable
<1>4. CASE n = 1
  <2>1. Children(Top.kind) \in {<<"word", "word">>, <<"word", "pair">>, <<"word", "word", "word">>}
    BY <1>2, ChildrenOf
  <2>2. Children(Top.kind)[1] = "word"
    BY <2>1
  <2>3. Top.kind \notin Structured \cup {"binary", "twoport", "select", "indirect", "copy64"}
    BY <1>2 DEF Structured
  <2>4. QED
    BY <1>1, <1>2, <1>3, <1>4, <2>2, <2>3, KeepFirstDurable
<1>5. CASE n = 2
  <2>1. Top.kind \in {"packed", "bulk"}
    <3>1. Len(<<"word", "word">>) = 2 /\ Len(<<"word", "pair">>) = 2
      OBVIOUS
    <3>2. Top.kind \notin {"packed", "bulk"} => Children(Top.kind) \in {<<"word", "word">>, <<"word", "pair">>}
      BY <1>2, ChildrenOf
    <3>3. Top.kind \notin {"packed", "bulk"} => Len(Children(Top.kind)) = 2
      BY <3>1, <3>2
    <3>4. QED
      BY <1>1, <1>5, <3>3
  <2>2. QED
    BY <1>2, <1>3, <1>5, <2>1, KeepSecondDurable
<1>6. QED
  BY <1>4, <1>5

LEMMA KeepMaterializedStep ==
  ASSUME NEW B, Going(B), KeepMaterialized
  PROVE  IInv'
<1>1. CASE Returned({"select", "indirect", "copy64"}, 1) /\ Keep(Materialize(code, Child), Reserved(code, Child))
  <2> DEFINE b == B[Index]
             d == Materialize(code, Child)
             v == Reserved(code, Child)
  <2>1. given # <<>> /\ Top.kind \in {"select", "indirect", "copy64"} /\ Len(Top.kept) = 0 /\ Keep(d, v)
    BY <1>1 DEF Returned
  <2>2. Children(Top.kind) \in {<<"word", "word">>, <<"word", "word", "word">>}
    BY <2>1, ChildrenOf
  <2>3. Children(Top.kind)[1] = "word" /\ Len(Children(Top.kind)) > 1
    BY <2>2
  <2>4. Top.kind \notin Structured \cup {"binary"} /\ Top.kind # "twoport"
    BY <2>1 DEF Structured
  <2>5. IsWord(Child) /\ OnTop(code, Child, b)
    BY <2>1, <2>3, <2>4, FirstWord
  <2>6. Special = {} /\ Correct /\ Runs => code.exact /\ code.locals = code.wasm /\ Holds(code, Child)
    BY <2>1, ReturnedFacts
  <2>7. /\ d \in Emitted /\ d.depth = b + 1 /\ Keeps(code, d, b) /\ d.exact = code.exact
        /\ Holds(code, Child) => Holds(d, v)
    BY <2>5, MaterializeFacts
  <2>8. /\ v \in Value /\ ValueOK(v) /\ IsWord(v) /\ v.in = "owned"
        /\ Placed(v, b) /\ After(v, b) = b + 1
    BY <2>5, ReservedFacts
  <2> HIDE DEF d, v, b
  <2>9. Keepable(v) /\ d.depth = After(v, b)
    BY <2>3, <2>4, <2>7, <2>8 DEF Keepable
  <2>10. ASSUME Special = {}, Correct, Runs
         PROVE  /\ d.exact /\ d.locals = d.wasm /\ d.r8 = code.r8 /\ Holds(d, v)
                /\ \A s \in 1 .. b : d.slots[s] = code.slots[s]
    BY <2>6, <2>7, <2>10 DEF Keeps
  <2>11. QED
    BY <2>1, <2>3, <2>4, <2>7, <2>8, <2>9, <2>10, KeepingFirst DEF b
<1>2. CASE Returned({"select"}, 2) /\ Keep(MaterializeBorrowed(code, Child), Durable(code, Child))
  BY <1>2, KeepSecondDurable DEF Returned
<1>3. QED
  BY <1>1, <1>2 DEF KeepMaterialized

LEMMA KeepPairStep ==
  ASSUME NEW B, Going(B), KeepPair
  PROVE  IInv'
<1>1. given # <<>> /\ Top.kind \in {"binary64", "mul64", "compare64"} /\ Len(Top.kept) = 0 /\ Keep(code, Child)
  BY DEF KeepPair, Returned
<1>2. Children(Top.kind) = <<"pair", "pair">> /\ Top.kind \notin Structured \cup {"binary"}
  BY <1>1, ChildrenOf DEF Structured
<1>3. Len(Children(Top.kind)) > 1 /\ Children(Top.kind)[1] = "pair"
  BY <1>2
<1>4. B[Index + 1] = B[Index] /\ Wanted(Top) = "pair"
  BY <1>1, <1>2, <1>3, FirstChild DEF Going
<1>5. /\ code \in Emitted /\ code.depth = After(Child, B[Index]) /\ Placed(Child, B[Index])
      /\ Child \in Value /\ ValueOK(Child) /\ GivenOK(Top, Child)
      /\ Special = {} /\ Correct /\ Runs => code.exact /\ code.locals = code.wasm /\ Holds(code, Child)
  BY <1>1, <1>4, ReturnedFacts
<1>6. Keepable(Child)
  BY <1>3, <1>4, <1>5 DEF Keepable, GivenOK
<1>7. QED
  BY <1>1, <1>2, <1>3, <1>5, <1>6, KeepingFirst

LEMMA KeepInR8Step ==
  ASSUME NEW B, Going(B), KeepInR8
  PROVE  IInv'
<1> DEFINE b == B[Index]
           u == Use(code, Child)
           c == [u EXCEPT !.r8 = Read(code, Child)]
           d == Release(c, Child)
           v == [Absent EXCEPT !.in = "R8", !.word = Child.word]
<1>1. given # <<>> /\ Top.kind = "twoport" /\ Len(Top.kept) = 0 /\ Keep(d, v)
  BY DEF KeepInR8, Returned
<1>2. Children(Top.kind) = <<"word", "word">> /\ Top.kind \notin Structured \cup {"binary"}
  BY <1>1, ChildrenOf DEF Structured
<1>3. Len(Children(Top.kind)) > 1 /\ Children(Top.kind)[1] = "word"
  BY <1>2
<1>4. IsWord(Child) /\ OnTop(code, Child, b)
  BY <1>1, <1>2, <1>3, FirstWord
<1>5. /\ code \in Emitted /\ Readable(Child) /\ Child \in Value /\ Child.word \in Nat /\ b \in Nat
      /\ Special = {} /\ Correct /\ Runs => code.exact /\ code.locals = code.wasm /\ Holds(code, Child)
  BY <1>1, ReturnedFacts
<1>6. u \in Emitted /\ u.depth = code.depth /\ Keeps(code, u, b) /\ (code.exact /\ Holds(code, Child) => u.exact)
  BY <1>5, UsedFacts
<1> HIDE DEF u
<1>7. /\ c \in Emitted /\ c.depth = u.depth /\ c.slots = u.slots /\ c.locals = u.locals /\ c.wasm = u.wasm
      /\ c.exact = u.exact /\ c.r8 = Read(code, Child)
  <2>1. Read(code, Child) \in Nat
    BY <1>5, EmittedFields, ReadType
  <2>2. u \in Code /\ (u.depth <= TempSlots \/ u.depth <= u.peak)
    BY <1>6 DEF Emitted
  <2>3. /\ c \in Code /\ c.depth = u.depth /\ c.slots = u.slots /\ c.locals = u.locals /\ c.wasm = u.wasm
        /\ c.exact = u.exact /\ c.r8 = Read(code, Child) /\ c.peak = u.peak
    BY <2>1, <2>2 DEF Code
  <2>4. QED
    BY <2>2, <2>3 DEF Emitted
<1> HIDE DEF c
<1>8. c.depth = After(Child, b)
  BY <1>4, <1>6, <1>7 DEF OnTop
<1>9. d \in Emitted /\ SameWords(c, d) /\ d.depth = b
  BY <1>5, <1>7, <1>8, ReleaseTop
<1> HIDE DEF d
<1>10. v \in Value /\ ValueOK(v) /\ IsWord(v) /\ v.in = "R8" /\ v.word = Child.word /\ v.high = 0 /\ ~IsOwned(v)
  BY <1>5 DEF Absent, Value, ValueOK, IsWord, IsOwned
<1> HIDE DEF v
<1>11. Keepable(v) /\ Placed(v, b) /\ d.depth = After(v, b)
  BY <1>1, <1>3, <1>9, <1>10 DEF Keepable, Placed, After
<1>12. ASSUME Special = {}, Correct, Runs
       PROVE  /\ d.exact /\ d.locals = d.wasm /\ Holds(d, v)
              /\ \A s \in 1 .. b : d.slots[s] = code.slots[s]
  <2>1. d.r8 = Child.word
    BY <1>5, <1>7, <1>9, <1>12 DEF SameWords, Holds
  <2>2. Holds(d, v)
    BY <1>10, <2>1 DEF Holds, Read
  <2>3. QED
    BY <1>5, <1>6, <1>7, <1>9, <1>12, <2>2 DEF SameWords, Keeps
<1>13. QED
  BY <1>1, <1>2, <1>3, <1>9, <1>11, <1>12, KeepingFirst DEF b

\* A binary operation keeps left at its place, and reserves that place.
LEMMA KeepingLeft ==
  ASSUME NEW B, Going(B), given # <<>>, Top.kind = "binary", Len(Top.kept) = 0,
         NEW c, NEW left, OnTop(c, left, B[Index]), IsWord(left), left.in # "R8",
         NEW side \in {"none", "constant"}, left.in \in {"borrowed", "R1"} => side = "constant",
         NEW g, g = [Top EXCEPT !.kept = <<left>>, !.slot = SlotFor(c, left), !.side = side],
         Emit(Reserve(c, left), Replaced(g), <<>>, skip), nodes' = nodes,
         Special = {} /\ Correct /\ Runs => c.exact /\ Keeps(code, c, B[Index]) /\ Holds(c, left)
  PROVE  IInv'
<1> DEFINE b == B[Index]
           d == Reserve(c, left)
           slot == SlotFor(c, left)
<1>1. Emit(d, Replaced(g), <<>>, skip)
  OBVIOUS
<1>2. /\ Top \in Frame /\ FrameOK(Top) /\ b \in Nat
      /\ Special = {} /\ Correct /\ Runs => code.locals = code.wasm
  BY ReturnedFacts
<1>3. slot = b + 1 /\ d \in Emitted /\ d.depth = b + 1 /\ SameWords(c, d)
  BY ReserveFacts
<1>4. ValueOK(left) /\ left \in Value /\ Placed(left, b) /\ left.high = 0
  BY DEF OnTop, ValueOK, IsWord
<1>5. <<left>> \in Seq(Value) /\ slot \in Nat /\ slot # 0
  BY <1>2, <1>3, <1>4
<1> HIDE DEF slot, d
<1>6. /\ g \in Frame /\ g.kind = Top.kind /\ g.kept = <<left>> /\ g.retain = Top.retain
      /\ g.slot = slot /\ g.side = side
  <2>1. g = [Top EXCEPT !.kept = <<left>>, !.slot = slot, !.side = side]
    BY DEF slot
  <2>2. QED
    BY <1>2, <1>5, <2>1 DEF Frame
<1>7. Len(g.kept) = 1 /\ DOMAIN g.kept = {1} /\ g.kept[1] = left /\ g.kept # <<>>
  BY <1>6
<1>8. Children("binary") = <<"word", "word">>
  BY ChildrenOf
<1>9. KeptAs(g, 1)
  BY <1>6, <1>7, <1>8 DEF KeptAs
<1>10. FrameOK(g)
  <2>1. Len(g.kept) < Len(Children(g.kind)) /\ g.kind \notin Structured
    <3>1. g.kind = "binary" /\ Len(Children("binary")) = 2
      BY <1>6, <1>8
    <3>2. QED
      BY <1>7, <3>1 DEF Structured
  <2>2. QED
    BY <1>4, <1>5, <1>6, <1>7, <1>9, <2>1 DEF FrameOK
<1>11. FrameAt(g, b) /\ d.depth = FrameEnd(g, b)
  BY <1>3, <1>4, <1>5, <1>6, <1>7 DEF FrameAt, FrameEnd
<1>12. ASSUME Special = {}, Correct, Runs
       PROVE  /\ d.exact /\ d.locals = d.wasm /\ d.r8 = code.r8
              /\ \A s \in 1 .. b : d.slots[s] = code.slots[s]
              /\ \A n \in DOMAIN g.kept : Holds(d, g.kept[n])
  <2>1. Holds(d, left)
    BY <1>3, <1>12, HoldsSame
  <2>2. \A n \in DOMAIN g.kept : Holds(d, g.kept[n])
    BY <1>7, <2>1
  <2>3. QED
    BY <1>2, <1>3, <1>12, <2>2 DEF SameWords, Keeps
<1>13. Top.kind \notin Structured
  BY DEF Structured
<1>14. QED
  BY <1>1, <1>3, <1>6, <1>10, <1>11, <1>12, <1>13, Keeping DEF Going, b

LEMMA KeepLeftStep ==
  ASSUME NEW B, Going(B), NEW constant \in BOOLEAN, KeepLeft(constant)
  PROVE  IInv'
<1> DEFINE b == B[Index]
           m == MaterializeBorrowed(code, Child)
           u == Durable(code, Child)
<1>1. given # <<>> /\ Top.kind = "binary" /\ Len(Top.kept) = 0 /\ nodes' = nodes
  BY DEF KeepLeft, Returned
<1>2. Children("binary") = <<"word", "word">> /\ Top.kind \notin Structured
  BY <1>1, ChildrenOf DEF Structured
<1>3. IsWord(Child) /\ OnTop(code, Child, b)
  BY <1>1, <1>2, FirstWord
<1>4. /\ Child.in # "R8" /\ code.depth \in Nat /\ TempSlots \in Nat /\ b \in Nat /\ code.depth <= TempSlots
      /\ Special = {} /\ Correct /\ Runs => code.exact /\ Holds(code, Child)
  BY <1>1, ReturnedFacts
<1>5. CASE constant
  <2> DEFINE g == [Top EXCEPT !.kept = <<Child>>, !.slot = SlotFor(code, Child), !.side = "constant"]
  <2>1. Emit(Reserve(code, Child), Replaced(g), <<>>, skip)
    BY <1>5 DEF KeepLeft
  <2>2. Keeps(code, code, b)
    BY DEF Keeps
  <2>3. g = [Top EXCEPT !.kept = <<Child>>, !.slot = SlotFor(code, Child), !.side = "constant"]
    OBVIOUS
  <2> HIDE DEF g
  <2>4. QED
    BY <1>1, <1>3, <1>4, <2>1, <2>2, <2>3, KeepingLeft
<1>6. CASE ~constant
  <2> DEFINE g == [Top EXCEPT !.kept = <<u>>, !.slot = SlotFor(m, u), !.side = "none"]
  <2>1. Emit(Reserve(m, u), Replaced(g), <<>>, skip)
    BY <1>6 DEF KeepLeft
  <2>2. /\ m \in Emitted /\ Keeps(code, m, b) /\ m.exact = code.exact
        /\ u \in Value /\ ValueOK(u) /\ IsWord(u) /\ u.in \in {"immediate", "owned"}
        /\ Placed(u, b) /\ m.depth = After(u, b) /\ m.depth <= code.depth + 1
        /\ Holds(code, Child) => Holds(m, u)
    BY <1>3, <1>4, DurableFacts
  <2> HIDE DEF m, u
  <2>3. m.depth \in Nat
    BY <2>2, EmittedFields
  <2>4. OnTop(m, u, b)
    BY <1>4, <2>2, <2>3 DEF OnTop
  <2>5. u.in # "R8" /\ u.in \notin {"borrowed", "R1"}
    BY <2>2
  <2>6. Special = {} /\ Correct /\ Runs => m.exact /\ Keeps(code, m, b) /\ Holds(m, u)
    BY <1>4, <2>2
  <2>7. g = [Top EXCEPT !.kept = <<u>>, !.slot = SlotFor(m, u), !.side = "none"]
    OBVIOUS
  <2> HIDE DEF g
  <2>8. QED
    BY <1>1, <2>1, <2>2, <2>4, <2>5, <2>6, <2>7, KeepingLeft
<1>7. QED
  BY <1>5, <1>6

-----------------------------------------------------------------------------
(* Structured control.                                                      *)

\* The code that c is of: c, unless a jump passes over it.
Ran(c) == IF Runs THEN c ELSE code
\* Where the code goes on when the label of the top call may be here.
Lands(to) == ~Runs => to = skip \/ (skip = Index /\ to = NoOne)

LEMMA BelowHeld ==
  ASSUME NEW B, Layout(B), Correct, NEW c, Runs => Keeps(code, c, B[Index]), NEW to \in 0 .. Index, Lands(to)
  PROVE  \A i \in 1 .. Index - 1 : (to # NoOne => i <= to) =>
           \A n \in DOMAIN frames[i].kept : Holds(Ran(c), frames[i].kept[n])
<1>1. Index \in Nat /\ Index >= 1 /\ Top = frames[Index] /\ skip \in 0 .. Index /\ NoOne = 0
  BY TopFacts DEF Layout, NoOne
<1>2. CASE Runs
  <2> DEFINE m == Index - 1
  <2>1. m \in 0 .. Index - 1 /\ m + 1 = Index
    BY <1>1
  <2>2. \A i \in 1 .. m : \A n \in DOMAIN frames[i].kept : Holds(code, frames[i].kept[n])
    BY <1>1, <1>2, HeldBelow
  <2>3. \A s \in 1 .. B[m + 1] : c.slots[s] = code.slots[s]
    BY <1>2, <2>1 DEF Keeps
  <2>4. c.r8 = code.r8 \/ \A i \in 1 .. m : ~(frames[i].kind = "twoport" /\ Len(frames[i].kept) = 1)
    BY <1>2 DEF Keeps
  <2> HIDE DEF m
  <2>5. \A i \in 1 .. m : \A n \in DOMAIN frames[i].kept : Holds(c, frames[i].kept[n])
    <3>1. HeldTo(code, m) /\ SlotsKept(code, c, B[m + 1]) /\ Undisturbed(code, c, m)
      BY <2>2, <2>3, <2>4 DEF HeldTo, SlotsKept, Undisturbed
    <3>2. HeldTo(c, m)
      BY <2>1, <3>1, StillHeld
    <3>3. QED
      BY <3>2 DEF HeldTo
  <2>6. QED
    BY <1>2, <2>5 DEF m, Ran
<1>3. CASE ~Runs
  <2>1. \A i \in 1 .. skip : \A n \in DOMAIN frames[i].kept : Holds(code, frames[i].kept[n])
    BY <1>3 DEF Correct, Exact, Runs
  <2>2. \A i \in 1 .. Index - 1 : (to # NoOne => i <= to) => i \in 1 .. skip
    BY <1>1, <1>3 DEF Lands, Runs
  <2>3. QED
    BY <1>3, <2>1, <2>2 DEF Ran
<1>4. QED
  BY <1>2, <1>3

\* The top call returns v, and the code goes on at to.
LEMMA Leaving ==
  ASSUME NEW B, Going(B), NEW c \in Emitted,
         NEW fs \in Seq(Frame), Len(fs) = Index - 1, \A i \in 1 .. Index - 1 : Alike(fs[i], frames[i]),
         NEW v, NEW to \in 0 .. Index - 1, Emit(c, fs, <<v>>, to), nodes' = nodes,
         to # NoOne => frames[to].kind \in Structured \cup Roots,
         Top.kind \notin Roots,
         Suits(v, Gives(Top.kind)), v.in \notin {"R1", "borrowed"},
         Placed(v, B[Index]), c.depth = After(v, B[Index]),
         Special = {} /\ Correct =>
           /\ Gives(Top.kind) = "exit" => to # NoOne
           /\ Runs => c.exact /\ c.locals = c.wasm
           /\ \A i \in 1 .. Index - 1 : (to # NoOne => i <= to) =>
                \A n \in DOMAIN frames[i].kept : Holds(Ran(c), frames[i].kept[n])
           /\ to = NoOne => Holds(Ran(c), v)
           /\ to # NoOne /\ Carries(fs[to]) => Ran(c).slots[fs[to].slot] = fs[to].carried
  PROVE  IInv'
<1> DEFINE d == IF Runs THEN c ELSE code
<1>1. Index \in Nat /\ Index >= 2 /\ Top = frames[Index] /\ Top \in Frame /\ Layout(B) /\ (Special = {} => Correct)
      /\ verdict = "lowering"
  BY TopFacts DEF Going
<1>2. nodes' \in 0 .. Size
  BY <1>1 DEF Layout
<1>3. Nested(fs) /\ GivenOK(Last(fs), v) /\ Stacked(fs, <<v>>, c.depth, B) /\ Chain(B, Index)
  BY <1>1, ReturnLayout
<1>4. <<v>> \in Seq(Value) /\ Len(<<v>>) <= 1 /\ <<v>>[1] = v /\ <<v>> # <<>>
  BY DEF Suits, ValueOK
<1>5. to \in 0 .. Len(fs) /\ Len(fs) + 1 = Index /\ (to # NoOne => to \in 1 .. Index - 1)
  BY <1>1 DEF NoOne
<1>6. to # NoOne => fs[to].kind \in Structured \cup Roots
  BY <1>5 DEF Alike
<1>7. ASSUME Special = {}
      PROVE  d.exact /\ Exact(d, fs, <<v>>, to) /\ Ordinary(fs, <<v>>)
  <2>1. Correct
    BY <1>1, <1>7
  <2>2. Ordinary(fs, <<v>>)
    <3>1. \A i \in 1 .. Len(fs) : /\ i \in 1 .. Len(frames) /\ fs[i].kind = frames[i].kind
                                  /\ fs[i].kept = frames[i].kept /\ fs[i].retain = frames[i].retain
      BY <1>1 DEF Index, Alike
    <3>2. /\ \A i, j \in 1 .. Len(fs) :
               i < j /\ fs[i].kind = "twoport" /\ Len(fs[i].kept) = 1 => fs[j].kind \notin Calling \cup {"twoport"}
          /\ \A i \in 1 .. Len(fs) : fs[i].kind \in TakesLastFromR1 => ~fs[i].retain
      BY <2>1, <3>1 DEF Correct, Ordinary
    <3>3. QED
      BY <1>4, <3>2 DEF Ordinary
  <2>3. d.exact /\ d.locals = d.wasm
    BY <1>7, <2>1 DEF Correct, Exact
  <2>4. d = Ran(c)
    BY DEF Ran
  <2>5. \A i \in 1 .. (IF to = NoOne THEN Len(fs) ELSE to) : \A n \in DOMAIN fs[i].kept : Holds(d, fs[i].kept[n])
    <3>1. \A i \in 1 .. (IF to = NoOne THEN Len(fs) ELSE to) :
            i \in 1 .. Index - 1 /\ (to # NoOne => i <= to) /\ fs[i].kept = frames[i].kept
      BY <1>1, <1>5 DEF Alike
    <3>2. QED
      BY <1>7, <2>1, <2>4, <3>1
  <2>6. to = NoOne => Holds(d, v) /\ (v.in = "absent" => Wanted(Last(fs)) = "none")
    <3>1. ASSUME v.in = "absent", to = NoOne
          PROVE  Wanted(Last(fs)) = "none"
      <4>1. Gives(Top.kind) = "none"
        <5>1. Gives(Top.kind) \in {"word", "pair", "none", "exit"}
          BY <1>1, GivesType DEF Frame
        <5>2. QED
          BY <1>7, <2>1, <3>1, <5>1 DEF Suits, IsPair, IsWord
      <4>2. Fits(Top.kind, frames[Index - 1])
        <5>1. Index \in 2 .. Len(frames)
          BY <1>1 DEF Index
        <5>2. QED
          BY <1>1, <5>1 DEF Layout, Nested
      <4>3. Last(fs) = fs[Index - 1] /\ Alike(fs[Index - 1], frames[Index - 1])
        BY <1>1 DEF Last
      <4>4. QED
        BY <4>1, <4>2, <4>3 DEF Fits, Wanted, Alike
    <3>2. QED
      BY <1>7, <2>1, <2>4, <3>1
  <2>7. to # NoOne /\ Carries(fs[to]) => d.slots[fs[to].slot] = fs[to].carried
    BY <1>7, <2>1, <2>4
  <2>8. QED
    BY <1>4, <2>2, <2>3, <2>5, <2>6, <2>7 DEF Exact
<1>8. \E C : Stacked(fs, <<v>>, c.depth, C) /\ Chain(C, Len(fs) + 1)
  BY <1>3, <1>5
<1>9. QED
  BY <1>1, <1>2, <1>3, <1>4, <1>5, <1>6, <1>7, <1>8, EmitStep

\* The top call, of structured control, becomes g, and the code goes on at to.
LEMMA Continuing ==
  ASSUME NEW B, Going(B), Top.kind \in Structured,
         NEW c \in Emitted, NEW g \in Frame, NEW to \in 0 .. Index, Emit(c, Replaced(g), <<>>, to), nodes' = nodes,
         FrameOK(g), g.kind = Top.kind, g.retain = Top.retain,
         FrameAt(g, B[Index]), c.depth = FrameEnd(g, B[Index]),
         Lands(to), Runs => to \in {NoOne, Index},
         Special = {} /\ Correct =>
           /\ Runs => c.exact /\ c.locals = c.wasm /\ Keeps(code, c, B[Index])
           /\ to = Index /\ Carries(g) => Ran(c).slots[g.slot] = g.carried
  PROVE  IInv'
<1> DEFINE fs == Replaced(g)
           d == IF Runs THEN c ELSE code
<1>1. Index \in Nat /\ Index >= 1 /\ Top = frames[Index] /\ Top \in Frame /\ Len(frames) = Index
      /\ skip \in 0 .. Index /\ (skip # NoOne => frames[skip].kind \in Structured \cup Roots) /\ NoOne = 0
      /\ nodes' \in 0 .. Size /\ Layout(B) /\ (Special = {} => Correct) /\ verdict = "lowering"
  BY TopFacts DEF Layout, Index, NoOne, Going
<1>2. /\ fs \in Seq(Frame) /\ Len(fs) = Index
      /\ \A i \in 1 .. Index : fs[i] = IF i = Index THEN g ELSE frames[i]
      /\ Nested(fs)
      /\ \E C : Stacked(fs, <<>>, c.depth, C) /\ Chain(C, Index + 1)
  BY <1>1, KeepLayout
<1>3. Emit(c, fs, <<>>, to)
  OBVIOUS
<1> HIDE DEF fs
<1>4. <<>> \in Seq(Value) /\ Len(<<>>) <= 1 /\ (<<>> # <<>> => GivenOK(Last(fs), <<>>[1]))
  OBVIOUS
<1>5. to \in 0 .. Len(fs) /\ (to # NoOne => fs[to].kind \in Structured \cup Roots)
  <2>1. to # NoOne => to = Index \/ (to = skip /\ to \in 1 .. Index - 1)
    BY <1>1 DEF Lands, Runs
  <2>2. QED
    BY <1>1, <1>2, <2>1
<1>6. ASSUME Special = {}
      PROVE  d.exact /\ Exact(d, fs, <<>>, to) /\ Ordinary(fs, <<>>)
  <2>1. Correct
    BY <1>1, <1>6
  <2>2. Ordinary(fs, <<>>)
    <3>1. \A i \in 1 .. Len(fs) : /\ i \in 1 .. Len(frames) /\ fs[i].kind = frames[i].kind
                                  /\ fs[i].retain = frames[i].retain
                                  /\ i < Index => fs[i] = frames[i]
      BY <1>1, <1>2
    <3>2. /\ \A i, j \in 1 .. Len(fs) :
               i < j /\ fs[i].kind = "twoport" /\ Len(fs[i].kept) = 1 => fs[j].kind \notin Calling \cup {"twoport"}
          /\ \A i \in 1 .. Len(fs) : fs[i].kind \in TakesLastFromR1 => ~fs[i].retain
      BY <1>1, <1>2, <2>1, <3>1 DEF Correct, Ordinary
    <3>3. QED
      BY <3>2 DEF Ordinary
  <2>3. d.exact /\ d.locals = d.wasm
    BY <1>6, <2>1 DEF Correct, Exact
  <2>4. d = Ran(c)
    BY DEF Ran
  <2>5. \A i \in 1 .. (IF to = NoOne THEN Len(fs) ELSE to) : \A n \in DOMAIN fs[i].kept : Holds(d, fs[i].kept[n])
    <3>1. \A i \in 1 .. Index - 1 : (to # NoOne => i <= to) =>
            \A n \in DOMAIN frames[i].kept : Holds(Ran(c), frames[i].kept[n])
      BY <1>1, <1>6, <2>1, BelowHeld
    <3>2. \A n \in DOMAIN g.kept : Holds(d, g.kept[n])
      BY AbsentHolds DEF FrameOK
    <3>3. \A i \in 1 .. (IF to = NoOne THEN Len(fs) ELSE to) :
            \/ i = Index /\ fs[i] = g
            \/ i \in 1 .. Index - 1 /\ (to # NoOne => i <= to) /\ fs[i] = frames[i]
      BY <1>1, <1>2
    <3>4. QED
      BY <2>4, <3>1, <3>2, <3>3
  <2>6. to # NoOne /\ Carries(fs[to]) => d.slots[fs[to].slot] = fs[to].carried
    <3>1. CASE to = Index
      BY <1>1, <1>2, <1>6, <2>1, <2>4, <3>1
    <3>2. ASSUME to # Index, to # NoOne
          PROVE  fs[to] = frames[skip] /\ d = code /\ skip # NoOne
      BY <1>1, <1>2, <3>2 DEF Lands, Runs
    <3>3. QED
      BY <2>1, <3>1, <3>2 DEF Correct, Exact
  <2>7. QED
    BY <2>2, <2>3, <2>5, <2>6 DEF Exact
<1>7. \E C : Stacked(fs, <<>>, c.depth, C) /\ Chain(C, Len(fs) + 1)
  BY <1>2
<1>8. QED
  BY <1>1, <1>2, <1>3, <1>4, <1>5, <1>6, <1>7, EmitStep

\* The value that falls through is stored, if there is one.
StoresAt(c, d, v, slot) ==
  /\ d \in Emitted /\ d.depth = c.depth /\ d.locals = c.locals /\ d.wasm = c.wasm /\ d.r8 = c.r8
  /\ \A s \in 1 .. TempSlots + 4 : s # slot => d.slots[s] = c.slots[s]
  /\ slot \in 1 .. TempSlots + 4 /\ v.in # "absent" => d.slots[slot] = Read(c, v)
  /\ c.exact /\ Holds(c, v) => d.exact

LEMMA StoredFacts ==
  ASSUME NEW c \in Emitted, NEW v, Readable(v), NEW slot
  PROVE  StoresAt(c, Stored(c, v, slot), v, slot)
<1> DEFINE loaded == LoadAndUse(c, v)
           d == Store(loaded, slot, loaded.r1)
<1>1. CASE v.in = "absent"
  BY <1>1 DEF Stored, StoresAt
<1>2. CASE v.in # "absent"
  <2>1. Read(c, v) \in Nat
    BY EmittedFields, ReadType
  <2>2. /\ loaded \in Emitted /\ loaded.depth = c.depth /\ loaded.slots = c.slots
        /\ loaded.locals = c.locals /\ loaded.wasm = c.wasm /\ loaded.r8 = c.r8 /\ loaded.r1 = Read(c, v)
        /\ (c.exact /\ Holds(c, v) => loaded.exact)
    BY LoadAndUseFacts
  <2>3. Stored(c, v, slot) = d
    BY <1>2 DEF Stored
  <2> HIDE DEF loaded
  <2>4. /\ d \in Emitted /\ d.depth = loaded.depth
        /\ \A s \in 1 .. TempSlots + 4 : d.slots[s] = IF s = slot THEN loaded.r1 ELSE loaded.slots[s]
        /\ d.locals = loaded.locals /\ d.wasm = loaded.wasm
        /\ d.r1 = loaded.r1 /\ d.r8 = loaded.r8 /\ d.exact = loaded.exact
    BY <2>1, <2>2, StoreFacts
  <2> HIDE DEF d
  <2>5. QED
    BY <2>2, <2>3, <2>4 DEF StoresAt
<1>3. QED
  BY <1>1, <1>2

\* Jumping to call j brings w to its label.
LEMMA CarryingFacts ==
  ASSUME NEW B, Layout(B), Index >= 2, NEW j \in 1 .. Index - 1, NEW w \in Nat,
         NEW fs, fs = Front(Carrying(frames, j, w))
  PROVE  /\ fs \in Seq(Frame) /\ Len(fs) = Index - 1 /\ \A i \in 1 .. Index - 1 : Alike(fs[i], frames[i])
         /\ fs[j].carried = w
<1>1. frames \in Seq(Frame) /\ Index = Len(frames) /\ Index \in Nat
  BY DEF Layout, Index
<1>2. frames[j] \in Frame
  BY <1>1
<1> DEFINE g == [frames[j] EXCEPT !.carried = w]
           gs == [frames EXCEPT ![j] = g]
<1>3. g \in Frame /\ Alike(g, frames[j]) /\ g.carried = w
  BY <1>2 DEF Frame, Alike
<1>4. Carrying(frames, j, w) = gs
  BY <1>1, <1>2 DEF Carrying
<1> HIDE DEF g
<1>5. gs \in Seq(Frame) /\ Len(gs) = Index /\ \A i \in 1 .. Index : gs[i] = IF i = j THEN g ELSE frames[i]
  BY <1>1, <1>3
<1> HIDE DEF gs
<1>6. Front(gs) \in Seq(Frame) /\ Len(Front(gs)) = Index - 1 /\ \A i \in 1 .. Index - 1 : Front(gs)[i] = gs[i]
  BY <1>1, <1>5 DEF Front
<1>7. fs = Front(gs)
  BY <1>4
<1>8. \A i \in 1 .. Index - 1 : Alike(fs[i], frames[i])
  <2>1. \A i \in 1 .. Index - 1 : fs[i] = IF i = j THEN g ELSE frames[i]
    BY <1>1, <1>5, <1>6, <1>7
  <2>2. \A f : Alike(f, f)
    BY DEF Alike
  <2>3. QED
    BY <1>3, <2>1, <2>2
<1>9. fs[j] = g
  BY <1>1, <1>5, <1>6, <1>7
<1>10. QED
  BY <1>3, <1>6, <1>7, <1>8, <1>9

\* Where the code goes on after the label of the top call.
LabelOf(to) == to = IF skip = Index THEN NoOne ELSE skip

LEMMA LabelFacts ==
  ASSUME NEW B, Layout(B), NEW to, LabelOf(to)
  PROVE  /\ to \in 0 .. Index - 1 /\ (to # NoOne => frames[to].kind \in Structured \cup Roots)
         /\ Lands(to) /\ (Runs => to = NoOne)
         /\ to # NoOne => to = skip /\ ~Runs
<1>1. skip \in 0 .. Index /\ Index \in Nat /\ Index >= 1 /\ NoOne = 0
      /\ (skip # NoOne => frames[skip].kind \in Structured \cup Roots)
  BY TopFacts DEF Layout, NoOne
<1>2. QED
  BY <1>1 DEF LabelOf, Lands, Runs

LEMMA PoppedFrames ==
  ASSUME NEW B, Layout(B), Top.kind \notin Roots
  PROVE  LET fs == Front(frames) IN
         /\ Index >= 2 /\ fs \in Seq(Frame) /\ Len(fs) = Index - 1 /\ \A i \in 1 .. Index - 1 : fs[i] = frames[i]
         /\ \A i \in 1 .. Index - 1 : Alike(fs[i], frames[i])
<1>1. Index \in Nat /\ Index >= 2
  BY TopFacts
<1>2. QED
  BY <1>1, FrontFacts DEF Alike

\* A call that ends at its label returns v.
LEMMA LeavingLabel ==
  ASSUME NEW B, Going(B), NEW c \in Emitted, NEW v, NEW to, LabelOf(to), Emit(c, Front(frames), <<v>>, to),
         nodes' = nodes, Top.kind \in Structured,
         Suits(v, Gives(Top.kind)), v.in \notin {"R1", "borrowed"},
         Placed(v, B[Index]), c.depth = After(v, B[Index]),
         Special = {} /\ Correct =>
           /\ Runs => c.exact /\ c.locals = c.wasm /\ Keeps(code, c, B[Index])
           /\ Runs \/ skip = Index => Holds(Ran(c), v)
  PROVE  IInv'
<1> DEFINE fs == Front(frames)
<1>1. Layout(B) /\ (Special = {} => Correct) /\ Index \in Nat /\ Index >= 1 /\ Top.kind \in Kind
  BY TopFacts DEF Going, Frame
<1>2. Top.kind \notin Roots /\ Gives(Top.kind) # "exit"
  <2>1. Gives(Top.kind) \in {"word", "none"}
    BY GivesOf DEF Structured
  <2>2. QED
    BY <2>1 DEF Structured, Roots
<1>3. /\ fs \in Seq(Frame) /\ Len(fs) = Index - 1 /\ \A i \in 1 .. Index - 1 : fs[i] = frames[i]
      /\ \A i \in 1 .. Index - 1 : Alike(fs[i], frames[i])
  BY <1>1, <1>2, PoppedFrames
<1>4. Emit(c, fs, <<v>>, to)
  OBVIOUS
<1> HIDE DEF fs
<1>5. /\ to \in 0 .. Index - 1 /\ (to # NoOne => frames[to].kind \in Structured \cup Roots)
      /\ Lands(to) /\ (Runs => to = NoOne) /\ (to # NoOne => to = skip /\ ~Runs)
      /\ (to = NoOne => Runs \/ skip = Index)
  BY <1>1, LabelFacts DEF LabelOf, Runs
<1>6. ASSUME Special = {}, Correct
      PROVE  /\ \A i \in 1 .. Index - 1 : (to # NoOne => i <= to) =>
                  \A n \in DOMAIN frames[i].kept : Holds(Ran(c), frames[i].kept[n])
             /\ to # NoOne /\ Carries(fs[to]) => Ran(c).slots[fs[to].slot] = fs[to].carried
  <2>1. Runs => Keeps(code, c, B[Index])
    BY <1>6
  <2>2. to \in 0 .. Index
    BY <1>1, <1>5
  <2>3. \A i \in 1 .. Index - 1 : (to # NoOne => i <= to) =>
                  \A n \in DOMAIN frames[i].kept : Holds(Ran(c), frames[i].kept[n])
    BY ONLY <1>1, <1>5, <1>6, <2>1, <2>2, BelowHeld
  <2>4. ASSUME to # NoOne
        PROVE  fs[to] = frames[skip] /\ Ran(c) = code /\ skip # NoOne
    BY <1>1, <1>3, <1>5, <2>4 DEF Ran, NoOne
  <2>5. QED
    BY <1>6, <2>3, <2>4 DEF Correct, Exact
<1>7. QED
  BY <1>1, <1>2, <1>3, <1>4, <1>5, <1>6, Leaving

\* A call whose result has a slot of its own.
LEMMA SlottedFacts ==
  ASSUME NEW B, Going(B), given # <<>>, Top.kind \in {"block", "ifelse"}, Top.kind = "block" \/ Len(Top.kept) # 0
  PROVE  /\ Top.slot = B[Index] + 1 /\ B[Index + 1] = B[Index] + 1 /\ Top.slot \in 1 .. TempSlots + 4
         /\ Top.carried \in Nat /\ Top.side # "constant"
         /\ Wanted(Top) = "word" =>
              /\ IsWord(Child) \/ Child = Absent
              /\ Special = {} /\ Correct /\ Runs => Child.in # "absent"
<1>1. /\ Top \in Frame /\ FrameOK(Top) /\ B[Index] \in Nat /\ B[Index + 1] \in Nat /\ TempSlots \in Nat
      /\ B[Index + 1] <= TempSlots /\ GivenOK(Top, Child) /\ Layout(B)
  BY ReturnedFacts
<1>2. FrameAt(Top, B[Index]) /\ B[Index + 1] = FrameEnd(Top, B[Index])
  BY <1>1, TopFacts
<1>3. Top.slot # 0
  <2>1. Top.kept = <<>> => Len(Top.kept) = 0
    OBVIOUS
  <2>2. QED
    BY <1>1, <2>1 DEF FrameOK
<1>4. Top.slot = B[Index] + 1 /\ B[Index + 1] = B[Index] + 1
  BY <1>2, <1>3 DEF FrameAt, FrameEnd
<1>5. Top.carried \in Nat /\ Top.side # "constant"
  BY <1>1 DEF Frame, FrameOK
<1>6. Special = {} /\ Correct /\ Runs /\ Wanted(Top) = "word" => Child.in # "absent"
  BY <1>1, HeldBelow
<1>7. QED
  BY <1>1, <1>4, <1>5, <1>6 DEF GivenOK

\* The value of the call that ends has come to its slot.
LEMMA ResultStored ==
  ASSUME NEW B, Going(B), given # <<>>, Top.slot = B[Index] + 1, B[Index + 1] = B[Index] + 1,
         Top.slot \in 1 .. TempSlots + 4, Special = {} /\ Correct /\ Runs => Child.in # "absent"
  PROVE  LET c == Release(Stored(code, Child, Top.slot), Child) IN
         /\ c \in Emitted /\ c.depth = B[Index] + 1
         /\ Special = {} /\ Correct /\ Runs =>
              /\ c.exact /\ c.locals = c.wasm /\ Keeps(code, c, B[Index])
              /\ c.slots[Top.slot] = Child.word
<1> DEFINE b == B[Index]
           slot == Top.slot
           d == Stored(code, Child, slot)
           c == Release(d, Child)
<1>1. /\ code \in Emitted /\ Child \in Value /\ Readable(Child) /\ b \in Nat /\ TempSlots \in Nat /\ b <= TempSlots
      /\ code.depth = After(Child, b + 1)
      /\ Special = {} /\ Correct /\ Runs => code.exact /\ code.locals = code.wasm /\ Holds(code, Child)
  BY ReturnedFacts
<1>2. StoresAt(code, d, Child, slot)
  BY <1>1, StoredFacts
<1> HIDE DEF d
<1>3. /\ d \in Emitted /\ d.depth = code.depth /\ d.locals = code.locals /\ d.wasm = code.wasm /\ d.r8 = code.r8
      /\ \A s \in 1 .. b : d.slots[s] = code.slots[s]
      /\ Child.in # "absent" => d.slots[slot] = Read(code, Child)
      /\ code.exact /\ Holds(code, Child) => d.exact
  BY <1>1, <1>2 DEF StoresAt
<1>4. b + 1 \in Nat /\ d.depth = After(Child, b + 1)
  BY <1>1, <1>3
<1>5. c \in Emitted /\ SameWords(d, c) /\ c.depth = b + 1
  BY <1>1, <1>3, <1>4, ReleaseTop
<1> HIDE DEF c
<1>6. ASSUME Special = {}, Correct, Runs
      PROVE  /\ c.exact /\ c.locals = c.wasm /\ Keeps(code, c, b)
             /\ c.slots[slot] = Child.word
  <2>1. Read(code, Child) = Child.word /\ Child.in # "absent"
    BY <1>1, <1>6 DEF Holds
  <2>2. QED
    BY <1>1, <1>3, <1>5, <1>6, <2>1 DEF Keeps, SameWords
<1>7. QED
  BY <1>5, <1>6 DEF c, d

LEMMA EndResult ==
  ASSUME NEW B, Going(B), given # <<>>, Top.kind \in {"block", "ifelse"}, Carries(Top), Wanted(Top) = "word",
         NEW w, w = IF skip = Index THEN Top.carried ELSE Child.word,
         NEW to, LabelOf(to),
         Emit(Release(Stored(code, Child, Top.slot), Child), Front(frames), <<Owned(Top.slot, w)>>, to),
         nodes' = nodes
  PROVE  IInv'
<1> DEFINE b == B[Index]
           slot == Top.slot
           c == Release(Stored(code, Child, slot), Child)
           v == Owned(slot, w)
<1>1. b \in Nat /\ Child.word \in Nat /\ Layout(B)
  BY ReturnedFacts
<1>2. /\ slot = b + 1 /\ B[Index + 1] = b + 1 /\ slot \in 1 .. TempSlots + 4 /\ Top.carried \in Nat
      /\ Special = {} /\ Correct /\ Runs => Child.in # "absent"
  <2>1. Len(Top.kept) = 2 => Len(Top.kept) # 0
    OBVIOUS
  <2>2. Top.kind = "block" \/ Len(Top.kept) # 0
    BY <2>1 DEF Carries
  <2>3. QED
    BY <2>2, SlottedFacts
<1>3. /\ c \in Emitted /\ c.depth = b + 1
      /\ Special = {} /\ Correct /\ Runs =>
           c.exact /\ c.locals = c.wasm /\ Keeps(code, c, b) /\ c.slots[slot] = Child.word
  BY <1>2, ResultStored
<1>4. w \in Nat /\ slot \in Nat
  BY <1>1, <1>2
<1>5. /\ v.in = "owned" /\ v.at = slot /\ v.high = 0 /\ v.word = w /\ IsWord(v) /\ ValueOK(v) /\ IsOwned(v)
      /\ Words(v) = 1
  BY <1>4, OwnedType
<1>6. Emit(c, Front(frames), <<v>>, to)
  OBVIOUS
<1> HIDE DEF c, v
<1>7. ASSUME Special = {}, Correct, Runs \/ skip = Index
      PROVE  Holds(Ran(c), v)
  <2>1. CASE Runs
    <3>1. skip # Index
      <4>1. Index \in Nat /\ Index >= 1
        BY <1>1, TopFacts
      <4>2. QED
        BY <2>1, <4>1 DEF Runs, NoOne
    <3>2. c.slots[slot] = w
      BY <1>3, <1>7, <2>1, <3>1
    <3>3. QED
      BY <1>5, <2>1, <3>2 DEF Ran, Holds, Read
  <2>2. CASE ~Runs
    <3>1. skip = Index /\ skip # NoOne /\ frames[skip] = Top
      BY <1>1, <1>7, <2>2, TopFacts DEF Runs
    <3>2. code.slots[slot] = w
      BY <1>7, <3>1 DEF Correct, Exact
    <3>3. QED
      BY <1>5, <2>2, <3>2 DEF Ran, Holds, Read
  <2>3. QED
    BY <2>1, <2>2
<1>8. Gives(Top.kind) = "word" /\ Top.kind \in Structured
  BY GivesOf DEF Structured
<1>9. Suits(v, Gives(Top.kind)) /\ v.in \notin {"R1", "borrowed"} /\ Placed(v, b) /\ c.depth = After(v, b)
  BY <1>2, <1>3, <1>5, <1>8 DEF Suits, Placed, After
<1>10. QED
  BY <1>3, <1>6, <1>7, <1>8, <1>9, LeavingLabel DEF b

LEMMA EndBlockStep ==
  ASSUME NEW B, Going(B), EndBlock
  PROVE  IInv'
<1> DEFINE w == IF skip = Index THEN Top.carried ELSE Child.word
           to == IF skip = Index THEN NoOne ELSE skip
<1>1. /\ given # <<>> /\ Top.kind = "block" /\ Len(Top.kept) = Len(Children(Top.kind)) - 1
      /\ Emit(Release(Stored(code, Child, Top.slot), Child), Front(frames), <<Owned(Top.slot, w)>>, to)
      /\ nodes' = nodes
  BY DEF EndBlock, Complete, Returned
<1>2. Children("block") = <<"none", "word">>
  BY ChildrenOf
<1>3. Wanted(Top) = "word" /\ Carries(Top)
  BY <1>1, <1>2, SMTT(60) DEF Wanted, Carries
<1>4. LabelOf(to)
  BY DEF LabelOf
<1>5. w = IF skip = Index THEN Top.carried ELSE Child.word
  OBVIOUS
<1> HIDE DEF w, to
<1>6. QED
  BY <1>1, <1>3, <1>4, <1>5, EndResult

LEMMA EndScopeStep ==
  ASSUME NEW B, Going(B), EndScope
  PROVE  IInv'
<1> DEFINE to == IF skip = Index THEN NoOne ELSE skip
           c == Release(code, Child)
<1>1. /\ given # <<>> /\ Top.kind = "scope" /\ Len(Top.kept) = Len(Children(Top.kind)) - 1
      /\ Emit(c, Front(frames), <<Absent>>, to) /\ nodes' = nodes
  BY DEF EndScope, Complete, Returned
<1>2. Children("scope") = <<"none", "none">> /\ Gives("scope") = "none"
  BY ChildrenOf, GivesOf
<1>3. Len(Top.kept) = 1
  BY <1>1, <1>2
<1>4. Wanted(Top) = "none" /\ Kept(1) = Absent /\ B[Index + 1] = After(Kept(1), B[Index])
  BY <1>1, <1>2, <1>3, SecondChild DEF Going, Structured
<1>5. /\ code \in Emitted /\ GivenOK(Top, Child) /\ code.depth = After(Child, B[Index + 1])
      /\ Special = {} /\ Correct /\ Runs => code.exact /\ code.locals = code.wasm
  BY <1>1, ReturnedFacts
<1>6. Child = Absent
  BY <1>4, <1>5 DEF GivenOK
<1>7. c = code /\ code.depth = B[Index]
  BY <1>4, <1>5, <1>6, PlainType DEF Release, After
<1>8. LabelOf(to)
  BY DEF LabelOf
<1> HIDE DEF c, to
<1>9. Suits(Absent, Gives(Top.kind)) /\ Absent.in \notin {"R1", "borrowed"} /\ Placed(Absent, B[Index])
      /\ c.depth = After(Absent, B[Index]) /\ Top.kind \in Structured
  BY <1>1, <1>2, <1>7, PlainType DEF Suits, Placed, After, Structured
<1>10. Holds(Ran(c), Absent) /\ Keeps(code, c, B[Index])
  BY <1>7, AbsentHolds DEF Keeps
<1>11. QED
  BY <1>1, <1>5, <1>7, <1>8, <1>9, <1>10, LeavingLabel

LEMMA EndIfStep ==
  ASSUME NEW B, Going(B), EndIf
  PROVE  IInv'
<1> DEFINE w == IF skip = Index THEN Top.carried ELSE Child.word
           to == IF skip = Index THEN NoOne ELSE skip
<1>1. /\ given # <<>> /\ Top.kind \in {"if", "ifelse"} /\ Len(Top.kept) = Len(Children(Top.kind)) - 1
      /\ nodes' = nodes
  BY DEF EndIf, Complete, Returned
<1>2. LabelOf(to) /\ w = IF skip = Index THEN Top.carried ELSE Child.word
  BY DEF LabelOf
<1>3. CASE Top.kind = "ifelse"
  <2>1. Emit(Release(Stored(code, Child, Top.slot), Child), Front(frames), <<Owned(Top.slot, w)>>, to)
    BY <1>3 DEF EndIf
  <2>2. Children("ifelse") = <<"word", "word", "word">>
    BY ChildrenOf
  <2>3. Len(Top.kept) = 2
    BY <1>1, <1>3, <2>2
  <2>4. Wanted(Top) = "word" /\ Carries(Top)
    BY <1>3, <2>2, <2>3 DEF Wanted, Carries
  <2> HIDE DEF w, to
  <2>5. QED
    BY <1>1, <1>2, <1>3, <2>1, <2>4, EndResult
<1>4. CASE Top.kind = "if"
  <2> DEFINE c == Release(code, Child)
  <2>1. Emit(c, Front(frames), <<Absent>>, to)
    BY <1>4 DEF EndIf
  <2>2. Children("if") = <<"word", "none">> /\ Gives("if") = "none"
    BY ChildrenOf, GivesOf
  <2>3. Len(Top.kept) = 1
    BY <1>1, <1>4, <2>2
  <2>4. Wanted(Top) = "none" /\ Kept(1) = Absent /\ B[Index + 1] = After(Kept(1), B[Index])
    BY <1>4, <2>2, <2>3, SecondChild DEF Going, Structured
  <2>5. /\ code \in Emitted /\ GivenOK(Top, Child) /\ code.depth = After(Child, B[Index + 1])
        /\ Special = {} /\ Correct /\ Runs => code.exact /\ code.locals = code.wasm
    BY <1>1, ReturnedFacts
  <2>6. Child = Absent
    BY <2>4, <2>5 DEF GivenOK
  <2>7. c = code /\ code.depth = B[Index]
    BY <2>4, <2>5, <2>6, PlainType DEF Release, After
  <2> HIDE DEF c, to
  <2>8. Suits(Absent, Gives(Top.kind)) /\ Absent.in \notin {"R1", "borrowed"} /\ Placed(Absent, B[Index])
        /\ c.depth = After(Absent, B[Index]) /\ Top.kind \in Structured
    BY <1>4, <2>2, <2>7, PlainType DEF Suits, Placed, After, Structured
  <2>9. Holds(Ran(c), Absent) /\ Keeps(code, c, B[Index])
    BY <2>7, AbsentHolds DEF Keeps
  <2>10. QED
    BY <1>1, <1>2, <2>1, <2>5, <2>7, <2>8, <2>9, LeavingLabel
<1>5. QED
  BY <1>1, <1>3, <1>4

LEMMA NextOfBlockStep ==
  ASSUME NEW B, Going(B), NextOfBlock
  PROVE  IInv'
<1> DEFINE b == B[Index]
           c == Release(code, Child)
           g == [Top EXCEPT !.kept = Append(@, Absent)]
<1>1. given # <<>> /\ Top.kind \in {"block", "scope"} /\ Len(Top.kept) = 0
      /\ Emit(c, Replaced(g), <<>>, skip) /\ nodes' = nodes
  BY DEF NextOfBlock, Returned, Keep
<1>2. /\ Top \in Frame /\ FrameOK(Top) /\ b \in Nat /\ Layout(B) /\ code \in Emitted /\ GivenOK(Top, Child)
      /\ code.depth = After(Child, B[Index + 1])
      /\ Special = {} /\ Correct /\ Runs => code.exact /\ code.locals = code.wasm
  BY <1>1, ReturnedFacts
<1>3. Top.kept = <<>>
  BY <1>1, <1>2, LenZero DEF Frame
<1>4. Children(Top.kind) \in {<<"none", "word">>, <<"none", "none">>}
  BY <1>1, ChildrenOf
<1>5. Children(Top.kind)[1] = "none" /\ Len(Children(Top.kind)) = 2
  BY <1>4
<1>6. Child = Absent
  BY <1>1, <1>2, <1>5 DEF GivenOK, Wanted
<1>7. c = code /\ c.depth = B[Index + 1]
  BY <1>2, <1>6, PlainType DEF Release, After
<1>8. Absent \in Value /\ ValueOK(Absent) /\ Absent.high = 0 /\ Placed(Absent, b) /\ After(Absent, b) = b
  BY PlainType DEF Placed, After
<1>9. /\ g \in Frame /\ g.kind = Top.kind /\ g.kept = Append(Top.kept, Absent) /\ g.retain = Top.retain
      /\ g.slot = Top.slot /\ g.carried = Top.carried /\ g.side = Top.side
  BY <1>2, <1>8, KeepFields
<1>10. Emit(c, Replaced(g), <<>>, skip)
  BY <1>1
<1> HIDE DEF g, c
<1>11. g.kept = <<Absent>> /\ Len(g.kept) = 1 /\ DOMAIN g.kept = {1} /\ g.kept[1] = Absent
  BY <1>3, <1>9
<1>12. FrameOK(g)
  <2>1. Len(g.kept) < Len(Children(g.kind))
    <3>1. Len(Children(g.kind)) = 2
      BY <1>5, <1>9
    <3>2. QED
      BY <1>11, <3>1
  <2>2. g.slot # 0 <=> g.kind = "block" \/ (g.kind \in {"ifelse", "binary"} /\ g.kept # <<>>)
    BY <1>1, <1>2, <1>9 DEF FrameOK
  <2>3. g.side # "constant"
    BY <1>1, <1>2, <1>9 DEF FrameOK
  <2>4. \A n \in DOMAIN g.kept : ValueOK(g.kept[n]) /\ g.kept[n] = Absent /\ g.kind \in Structured
    BY <1>1, <1>8, <1>9, <1>11 DEF Structured
  <2>5. QED
    BY <1>9, <2>1, <2>2, <2>3, <2>4 DEF FrameOK
<1>13. FrameAt(g, b) /\ c.depth = FrameEnd(g, b)
  <2>1. FrameAt(Top, b) /\ B[Index + 1] = FrameEnd(Top, b)
    BY <1>2, TopFacts
  <2>2. CASE Top.slot # 0
    BY <1>7, <1>8, <1>9, <1>11, <2>1, <2>2 DEF FrameAt, FrameEnd
  <2>3. CASE Top.slot = 0
    BY <1>1, <1>7, <1>8, <1>9, <1>11, <2>1, <2>3 DEF FrameAt, FrameEnd
  <2>4. QED
    BY <2>2, <2>3
<1>14. skip \in 0 .. Index /\ Lands(skip) /\ (Runs => skip \in {NoOne, Index}) /\ Top.kind \in Structured
  BY <1>1, <1>2 DEF Layout, Lands, Runs, Structured
<1>15. ASSUME Special = {}, Correct
       PROVE  /\ Runs => c.exact /\ c.locals = c.wasm /\ Keeps(code, c, b)
              /\ skip = Index /\ Carries(g) => Ran(c).slots[g.slot] = g.carried
  <2>1. Runs => c.exact /\ c.locals = c.wasm /\ Keeps(code, c, b)
    BY <1>2, <1>7, <1>15 DEF Keeps
  <2>2. ASSUME skip = Index, Carries(g)
        PROVE  Ran(c).slots[g.slot] = g.carried
    <3>1. skip # NoOne /\ frames[skip] = Top /\ Ran(c) = code
      BY <1>2, <1>7, <2>2, TopFacts DEF Ran, NoOne
    <3>2. Carries(frames[skip])
      BY <1>1, <1>9, <2>2, <3>1 DEF Carries
    <3>3. QED
      BY <1>9, <1>15, <3>1, <3>2 DEF Correct, Exact
  <2>3. QED
    BY <2>1, <2>2
<1>16. c \in Emitted
  BY <1>2, <1>7
<1>17. QED
  BY <1>1, <1>9, <1>10, <1>12, <1>13, <1>14, <1>15, <1>16, Continuing DEF b

LEMMA TestStep ==
  ASSUME NEW B, Going(B), Test
  PROVE  IInv'
<1> DEFINE b == B[Index]
           l == LoadAndUse(code, Child)
           c == Release(l, Child)
           d == IF Top.kind = "ifelse" THEN Allocate(c, 1) ELSE c
           slot == IF Top.kind = "ifelse" THEN d.depth ELSE 0
<1>1. given # <<>> /\ Top.kind \in {"if", "ifelse"} /\ Len(Top.kept) = 0 /\ nodes' = nodes
  BY DEF Test, Returned
<1>2. PICK side \in {"then", "else"} :
           Emit(d, Replaced([Top EXCEPT !.kept = <<Absent>>, !.slot = slot, !.side = side]), <<>>,
                IF Runs /\ side = "else" THEN Index ELSE skip)
  BY DEF Test
<1> DEFINE to == IF Runs /\ side = "else" THEN Index ELSE skip
           g == [Top EXCEPT !.kept = <<Absent>>, !.slot = slot, !.side = side]
<1>3. Emit(d, Replaced(g), <<>>, to)
  BY <1>2
<1>4. /\ Top \in Frame /\ FrameOK(Top) /\ b \in Nat /\ Layout(B) /\ code \in Emitted /\ Child \in Value
      /\ Readable(Child) /\ GivenOK(Top, Child)
      /\ Special = {} /\ Correct /\ Runs => code.exact /\ code.locals = code.wasm /\ Holds(code, Child)
  BY <1>1, ReturnedFacts
<1>5. Children(Top.kind) \in {<<"word", "none">>, <<"word", "word", "word">>}
  BY <1>1, ChildrenOf
<1>6. Len(Children(Top.kind)) > 1
  BY <1>5
<1>7. B[Index + 1] = b
  BY <1>1, <1>4, FirstChild
<1>8. code.depth = After(Child, b)
  BY <1>1, <1>7, ReturnedFacts
<1>9. /\ l \in Emitted /\ Keeps(code, l, b) /\ l.depth = code.depth
      /\ (code.exact /\ Holds(code, Child) => l.exact)
  BY <1>4, LoadOnTop
<1> HIDE DEF l
<1>10. c \in Emitted /\ SameWords(l, c) /\ c.depth = b
  BY <1>4, <1>8, <1>9, ReleaseTop
<1> HIDE DEF c
<1>11. /\ d \in Emitted /\ SameWords(c, d) /\ d.depth = (IF Top.kind = "ifelse" THEN b + 1 ELSE b)
  <2>1. Allocate(c, 1) \in Emitted /\ SameWords(c, Allocate(c, 1)) /\ Allocate(c, 1).depth = c.depth + 1
    BY <1>10, AllocateFacts
  <2>2. QED
    BY <1>10, <2>1 DEF SameWords
<1>12. slot = (IF Top.kind = "ifelse" THEN b + 1 ELSE 0) /\ slot \in Nat
  BY <1>4, <1>11
<1> HIDE DEF d, slot
<1>13. /\ Absent \in Value /\ ValueOK(Absent) /\ Absent.high = 0 /\ Placed(Absent, b) /\ After(Absent, b) = b
       /\ <<Absent>> \in Seq(Value)
  BY PlainType DEF Placed, After
<1>14. /\ g \in Frame /\ g.kind = Top.kind /\ g.kept = <<Absent>> /\ g.retain = Top.retain
       /\ g.slot = slot /\ g.side = side
  BY <1>4, <1>12, <1>13 DEF Frame
<1> HIDE DEF g
<1>15. Len(g.kept) = 1 /\ DOMAIN g.kept = {1} /\ g.kept[1] = Absent /\ g.kept # <<>>
  BY <1>14
<1>16. FrameOK(g)
  <2>1. Len(g.kept) < Len(Children(g.kind))
    BY <1>6, <1>14, <1>15
  <2>2. g.slot # 0 <=> g.kind = "block" \/ (g.kind \in {"ifelse", "binary"} /\ g.kept # <<>>)
    BY <1>1, <1>4, <1>12, <1>14, <1>15
  <2>3. \A n \in DOMAIN g.kept : ValueOK(g.kept[n]) /\ g.kept[n] = Absent /\ g.kind \in Structured
    BY <1>1, <1>13, <1>14, <1>15 DEF Structured
  <2>4. QED
    BY <1>14, <2>1, <2>2, <2>3 DEF FrameOK
<1>17. FrameAt(g, b) /\ d.depth = FrameEnd(g, b)
  <2>1. CASE Top.kind = "ifelse"
    BY <1>4, <1>11, <1>12, <1>13, <1>14, <1>15, <2>1 DEF FrameAt, FrameEnd
  <2>2. CASE Top.kind # "ifelse"
    BY <1>11, <1>12, <1>13, <1>14, <1>15, <2>2 DEF FrameAt, FrameEnd
  <2>3. QED
    BY <2>1, <2>2
<1>18. to \in 0 .. Index /\ Lands(to) /\ (Runs => to \in {NoOne, Index}) /\ Top.kind \in Structured
  <2>1. skip \in 0 .. Index /\ Index \in Nat
    BY <1>4, TopFacts DEF Layout
  <2>2. QED
    BY <1>1, <2>1 DEF Lands, Runs, Structured
<1>19. ~Carries(g)
  BY <1>1, <1>14, <1>15 DEF Carries
<1>20. ASSUME Special = {}, Correct, Runs
       PROVE  d.exact /\ d.locals = d.wasm /\ Keeps(code, d, b)
  BY <1>4, <1>9, <1>10, <1>11, <1>20 DEF Keeps, SameWords
<1>21. Emit(d, Replaced(g), <<>>, to)
  BY <1>3 DEF g
<1> HIDE DEF to
<1>22. QED
  BY <1>1, <1>11, <1>14, <1>16, <1>17, <1>18, <1>19, <1>20, <1>21, Continuing DEF b

LEMMA ArmEnds ==
  ASSUME NEW B, Going(B), given # <<>>, Top.kind = "ifelse", Len(Top.kept) = 1,
         NEW g \in Frame, g.kind = Top.kind, g.kept = Append(Top.kept, Absent), g.retain = Top.retain,
         g.slot = Top.slot, g.side = Top.side, Runs => g.carried = Child.word,
         NEW to \in 0 .. Index, Lands(to), Runs => to = Index, ~Runs => to # Index,
         Emit(Release(Stored(code, Child, Top.slot), Child), Replaced(g), <<>>, to), nodes' = nodes
  PROVE  IInv'
<1> DEFINE b == B[Index]
           c == Release(Stored(code, Child, Top.slot), Child)
<1>1. /\ Top \in Frame /\ FrameOK(Top) /\ b \in Nat /\ Layout(B)
  BY ReturnedFacts
<1>2. Children("ifelse") = <<"word", "word", "word">> /\ Len(Top.kept) # 0
  BY ChildrenOf
<1>3. Wanted(Top) = "word"
  BY <1>2 DEF Wanted
<1>4. /\ Top.slot = b + 1 /\ B[Index + 1] = b + 1 /\ Top.slot \in 1 .. TempSlots + 4 /\ Top.side # "constant"
      /\ Special = {} /\ Correct /\ Runs => Child.in # "absent"
  BY <1>2, <1>3, SlottedFacts
<1>5. /\ c \in Emitted /\ c.depth = b + 1
      /\ Special = {} /\ Correct /\ Runs =>
           c.exact /\ c.locals = c.wasm /\ Keeps(code, c, b) /\ c.slots[Top.slot] = Child.word
  BY <1>4, ResultStored
<1>6. Emit(c, Replaced(g), <<>>, to)
  OBVIOUS
<1> HIDE DEF c
<1>7. Absent \in Value /\ ValueOK(Absent) /\ Absent.high = 0 /\ Placed(Absent, b)
  BY PlainType DEF Placed
<1>8. 1 \in DOMAIN Top.kept /\ Top.kept \in Seq(Value) /\ Top.kept[1] = Absent
  <2>1. 1 \in DOMAIN Top.kept /\ Top.kept \in Seq(Value)
    BY <1>1 DEF Frame
  <2>2. QED
    BY <1>1, <2>1 DEF FrameOK, Structured
<1>9. Len(g.kept) = 2 /\ DOMAIN g.kept = {1, 2} /\ g.kept[1] = Absent /\ g.kept[2] = Absent /\ g.kept # <<>>
  BY <1>7, <1>8
<1>10. FrameOK(g)
  <2>1. Len(g.kept) < Len(Children(g.kind))
    <3>1. Len(Children(g.kind)) = 3
      BY <1>2
    <3>2. Len(g.kept) = 2
      BY <1>9
    <3>3. QED
      BY ONLY <3>1, <3>2
  <2>2. \A n \in DOMAIN g.kept : ValueOK(g.kept[n]) /\ g.kept[n] = Absent /\ g.kind \in Structured
    BY <1>7, <1>9 DEF Structured
  <2>3. g.slot # 0 /\ g.kind # "block"
    BY <1>1, <1>4
  <2>4. QED
    BY <1>4, <1>9, <2>1, <2>2, <2>3 DEF FrameOK
<1>11. FrameAt(g, b) /\ c.depth = FrameEnd(g, b)
  BY <1>1, <1>4, <1>5, <1>7, <1>9 DEF FrameAt, FrameEnd
<1>12. Top.kind \in Structured /\ (Runs => to \in {NoOne, Index})
  BY DEF Structured
<1>13. Special = {} /\ Correct /\ to = Index /\ Carries(g) => Ran(c).slots[g.slot] = g.carried
  BY <1>5 DEF Ran
<1>14. QED
  BY <1>5, <1>6, <1>10, <1>11, <1>12, <1>13, Continuing DEF b

LEMMA EndArmStep ==
  ASSUME NEW B, Going(B), EndArm
  PROVE  IInv'
<1> DEFINE c == Release(Stored(code, Child, Top.slot), Child)
           g == [Top EXCEPT !.kept = Append(@, Absent)]
           h == [g EXCEPT !.carried = Child.word]
<1>1. given # <<>> /\ Top.kind = "ifelse" /\ Len(Top.kept) = 1 /\ nodes' = nodes
  BY DEF EndArm, Returned
<1>2. /\ CASE Runs -> Emit(c, Replaced(h), <<>>, Index)
           [] skip = Index -> Emit(c, Replaced(g), <<>>, NoOne)
           [] OTHER -> Emit(c, Replaced(g), <<>>, skip)
  BY DEF EndArm
<1>3. Top \in Frame /\ Layout(B) /\ Child.word \in Nat
  BY <1>1, ReturnedFacts
<1>4. Index \in Nat /\ Index >= 1 /\ skip \in 0 .. Index /\ NoOne = 0
  BY <1>3, TopFacts DEF Layout, NoOne
<1>5. Absent \in Value
  BY PlainType
<1>6. /\ g \in Frame /\ g.kind = Top.kind /\ g.kept = Append(Top.kept, Absent) /\ g.retain = Top.retain
      /\ g.slot = Top.slot /\ g.carried = Top.carried /\ g.side = Top.side
  BY <1>3, <1>5, KeepFields
<1> HIDE DEF g
<1>7. /\ h \in Frame /\ h.kind = Top.kind /\ h.kept = Append(Top.kept, Absent) /\ h.retain = Top.retain
      /\ h.slot = Top.slot /\ h.carried = Child.word /\ h.side = Top.side
  BY <1>3, <1>6 DEF Frame
<1> HIDE DEF h
<1>8. CASE Runs
  <2>1. Emit(c, Replaced(h), <<>>, Index)
    BY <1>2, <1>4, <1>8 DEF Runs
  <2>2. Index \in 0 .. Index /\ Lands(Index)
    BY <1>4, <1>8 DEF Lands
  <2>3. QED
    BY <1>1, <1>7, <1>8, <2>1, <2>2, ArmEnds
<1>9. CASE ~Runs /\ skip = Index
  <2>1. Emit(c, Replaced(g), <<>>, NoOne)
    BY <1>2, <1>9
  <2>2. NoOne \in 0 .. Index /\ Lands(NoOne) /\ NoOne # Index
    BY <1>4, <1>9 DEF Lands
  <2>3. QED
    BY <1>1, <1>6, <1>9, <2>1, <2>2, ArmEnds
<1>10. CASE ~Runs /\ skip # Index
  <2>1. Emit(c, Replaced(g), <<>>, skip)
    BY <1>2, <1>10
  <2>2. Lands(skip)
    BY DEF Lands
  <2>3. QED
    BY <1>1, <1>4, <1>6, <1>10, <2>1, <2>2, ArmEnds
<1>11. QED
  BY <1>8, <1>9, <1>10

\* An expression that only jumps, and what is held where it jumps to.
LEMMA JumpHeld ==
  ASSUME NEW B, Layout(B), Correct, Runs, NEW c, NEW j \in 1 .. Index - 1, frames[j].kind \in Structured \cup Roots,
         \A s \in 1 .. B[j] : c.slots[s] = code.slots[s], c.r8 = code.r8
  PROVE  \A i \in 1 .. j : \A n \in DOMAIN frames[i].kept : Holds(c, frames[i].kept[n])
<1> DEFINE m == j - 1
<1>1. Index \in Nat /\ \A i \in 1 .. Index : frames[i] \in Frame /\ FrameOK(frames[i])
  BY TopFacts
<1>2. m \in 0 .. Index - 1 /\ \A i \in 1 .. j : i \in 1 .. m \/ i = j
  BY <1>1
<1>3. \A i \in 1 .. m : \A n \in DOMAIN frames[i].kept : Holds(code, frames[i].kept[n])
  BY <1>1, <1>2, HeldBelow
<1>4. \A s \in 1 .. B[m + 1] : c.slots[s] = code.slots[s]
  <2>1. m + 1 = j
    BY <1>1
  <2>2. QED
    BY <2>1
<1>5. c.r8 = code.r8 \/ \A i \in 1 .. m : ~(frames[i].kind = "twoport" /\ Len(frames[i].kept) = 1)
  OBVIOUS
<1> HIDE DEF m
<1>0. m \in 0 .. Index - 1
  BY <1>2
<1>6. \A i \in 1 .. m : \A n \in DOMAIN frames[i].kept : Holds(c, frames[i].kept[n])
  <2>1. HeldTo(code, m) /\ SlotsKept(code, c, B[m + 1]) /\ Undisturbed(code, c, m)
    BY <1>3, <1>4, <1>5 DEF HeldTo, SlotsKept, Undisturbed
  <2>2. HeldTo(c, m)
    BY <1>0, <2>1, StillHeld
  <2>3. QED
    BY <2>2 DEF HeldTo
<1>7. \A n \in DOMAIN frames[j].kept : Holds(c, frames[j].kept[n])
  <2>1. FrameOK(frames[j]) /\ frames[j].kept \in Seq(Value)
    BY <1>1 DEF Frame
  <2>2. CASE frames[j].kind \in Structured
    BY <2>1, <2>2, AbsentHolds DEF FrameOK
  <2>3. CASE frames[j].kind \in Roots
    <3>1. Len(Children("function")) = 1 /\ Len(Children("procedure")) = 1
      <4>1. Children("function") = <<"word">> /\ Children("procedure") = <<"none">>
        BY ChildrenOf
      <4>2. QED
        BY <4>1
    <3>2. Len(Children(frames[j].kind)) = 1
      BY <2>3, <3>1 DEF Roots
    <3>3. Len(frames[j].kept) = 0
      BY <2>1, <3>2 DEF FrameOK
    <3>4. QED
      BY <2>1, <3>3
  <2>4. QED
    BY <2>2, <2>3
<1>8. QED
  BY <1>2, <1>6, <1>7

\* The code jumps to call j.
LEMMA Jumping ==
  ASSUME NEW B, Going(B), Runs, NEW c \in Emitted, NEW v, NEW j \in 1 .. Index - 1,
         frames[j].kind \in Structured \cup Roots,
         NEW fs \in Seq(Frame), Len(fs) = Index - 1, \A i \in 1 .. Index - 1 : Alike(fs[i], frames[i]),
         Emit(c, fs, <<v>>, j), nodes' = nodes, Top.kind \notin Roots,
         Suits(v, Gives(Top.kind)), v.in \notin {"R1", "borrowed"},
         Placed(v, B[Index]), c.depth = After(v, B[Index]),
         Special = {} /\ Correct =>
           /\ c.exact /\ c.locals = c.wasm /\ c.r8 = code.r8
           /\ \A s \in 1 .. B[j] : c.slots[s] = code.slots[s]
           /\ Carries(fs[j]) => c.slots[fs[j].slot] = fs[j].carried
  PROVE  IInv'
<1>1. Layout(B) /\ Index \in Nat /\ Index >= 1
  BY TopFacts DEF Going
<1>2. j \in 0 .. Index - 1 /\ j # NoOne /\ Ran(c) = c
  BY <1>1 DEF NoOne, Ran
<1>3. ASSUME Special = {}, Correct
      PROVE  \A i \in 1 .. Index - 1 : (j # NoOne => i <= j) =>
                 \A n \in DOMAIN frames[i].kept : Holds(Ran(c), frames[i].kept[n])
  <2>1. (\A s \in 1 .. B[j] : c.slots[s] = code.slots[s]) /\ c.r8 = code.r8
    BY <1>3
  <2>2. \A i \in 1 .. j : \A n \in DOMAIN frames[i].kept : Holds(c, frames[i].kept[n])
    BY <1>1, <1>3, <2>1, JumpHeld
  <2>3. \A i \in 1 .. Index - 1 : (j # NoOne => i <= j) => i \in 1 .. j
    BY <1>1, <1>2
  <2>4. QED
    BY <1>2, <2>2, <2>3
<1>4. QED
  BY <1>2, <1>3, Leaving

\* The top call, which has no label, returns v.
LEMMA Falling ==
  ASSUME NEW B, Going(B), NEW c \in Emitted, NEW v, Emit(c, Front(frames), <<v>>, skip), nodes' = nodes,
         Top.kind \notin Structured \cup Roots, Gives(Top.kind) = "exit" => ~Runs,
         Suits(v, Gives(Top.kind)), v.in \notin {"R1", "borrowed"},
         Placed(v, B[Index]), c.depth = After(v, B[Index]),
         Special = {} /\ Correct /\ Runs => c.exact /\ c.locals = c.wasm /\ Keeps(code, c, B[Index]) /\ Holds(c, v)
  PROVE  IInv'
<1> DEFINE fs == Front(frames)
<1>1. Layout(B) /\ Index \in Nat /\ Index >= 1
  BY TopFacts DEF Going
<1>2. /\ fs \in Seq(Frame) /\ Len(fs) = Index - 1 /\ \A i \in 1 .. Index - 1 : fs[i] = frames[i]
      /\ \A i \in 1 .. Index - 1 : Alike(fs[i], frames[i])
  BY <1>1, PoppedFrames
<1>3. Emit(c, fs, <<v>>, skip)
  OBVIOUS
<1> HIDE DEF fs
<1>4. skip \in 0 .. Index - 1 /\ (skip # NoOne => frames[skip].kind \in Structured \cup Roots)
  BY <1>1, NotSkipped
<1>5. Lands(skip) /\ skip \in 0 .. Index
  BY <1>1, <1>4 DEF Lands
<1>6. ASSUME Special = {}, Correct
      PROVE  /\ \A i \in 1 .. Index - 1 : (skip # NoOne => i <= skip) =>
                  \A n \in DOMAIN frames[i].kept : Holds(Ran(c), frames[i].kept[n])
             /\ skip # NoOne /\ Carries(fs[skip]) => Ran(c).slots[fs[skip].slot] = fs[skip].carried
  <2>1. Runs => Keeps(code, c, B[Index])
    BY <1>6
  <2>2. \A i \in 1 .. Index - 1 : (skip # NoOne => i <= skip) =>
                  \A n \in DOMAIN frames[i].kept : Holds(Ran(c), frames[i].kept[n])
    BY ONLY <1>1, <1>5, <1>6, <2>1, BelowHeld
  <2>3. ASSUME skip # NoOne
        PROVE  fs[skip] = frames[skip] /\ Ran(c) = code
    BY <1>1, <1>2, <1>4, <2>3 DEF Ran, NoOne, Runs
  <2>4. QED
    BY <1>6, <2>2, <2>3 DEF Correct, Exact
<1>7. Special = {} /\ Correct => /\ Gives(Top.kind) = "exit" => skip # NoOne
                                 /\ Runs => c.exact /\ c.locals = c.wasm
                                 /\ skip = NoOne => Holds(Ran(c), v)
  BY DEF Runs, Ran
<1>8. QED
  BY <1>2, <1>3, <1>4, <1>6, <1>7, Leaving

LEMMA BlockSlot ==
  ASSUME NEW B, Layout(B), B[Index] <= TempSlots, NEW j \in 1 .. Index, frames[j].kind = "block", Top.kind # "block"
  PROVE  /\ j \in 1 .. Index - 1 /\ frames[j].slot = B[j] + 1 /\ B[j] \in Nat
         /\ frames[j].slot \in 1 .. TempSlots + 4 /\ frames[j].kind \in Structured \cup Roots
         /\ Index >= 2
<1>1. Index \in Nat /\ Index >= 1 /\ Index = Len(frames) /\ Top = frames[Index] /\ FrameOK(frames[j])
      /\ B[Index] \in Nat
  BY TopFacts DEF Index
<1>2. j # Index
  BY <1>1
<1>3. j \in 1 .. Index - 1 /\ j + 1 \in 1 .. Index + 1 /\ j + 1 <= Index /\ Index \in 1 .. Index + 1 /\ j \in 1 .. Len(frames)
      /\ Index >= 2 /\ j \in Nat /\ j + 1 \in Nat
  BY <1>1, <1>2
<1>4. FrameAt(frames[j], B[j]) /\ B[j + 1] = FrameEnd(frames[j], B[j])
  BY <1>3 DEF Layout, Stacked
<1>5. B[j + 1] <= B[Index] /\ B[j] \in Nat
  BY <1>3 DEF Layout, Chain
<1>6. frames[j].slot # 0
  BY <1>1 DEF FrameOK
<1>7. frames[j].slot = B[j] + 1 /\ B[j + 1] = B[j] + 1
  BY <1>4, <1>6 DEF FrameAt, FrameEnd
<1>8. TempSlots \in Nat
  BY OperandsAssumption
<1>9. B[j] + 1 <= TempSlots
  BY <1>1, <1>5, <1>7, <1>8
<1>10. QED
  BY <1>3, <1>5, <1>7, <1>8, <1>9 DEF Structured

\* A word is brought to the slot of block j, and the operand u is released.
LEMMA Brought ==
  ASSUME NEW B, Layout(B), B[Index] <= TempSlots, NEW j \in 1 .. Index, frames[j].kind = "block", Top.kind # "block",
         NEW l \in Emitted, NEW v, Readable(v), IsWord(v),
         NEW u \in Value, NEW b \in Nat, l.depth = After(u, b)
  PROVE  LET c == Release(Stored(l, v, frames[j].slot), u) IN
         /\ c \in Emitted /\ c.depth = b
         /\ c.locals = l.locals /\ c.wasm = l.wasm /\ c.r8 = l.r8
         /\ \A s \in 1 .. B[j] : c.slots[s] = l.slots[s]
         /\ Holds(l, v) => c.slots[frames[j].slot] = v.word
         /\ l.exact /\ Holds(l, v) => c.exact
<1> DEFINE slot == frames[j].slot
           d == Stored(l, v, slot)
           c == Release(d, u)
<1>1. /\ slot = B[j] + 1 /\ B[j] \in Nat /\ slot \in 1 .. TempSlots + 4 /\ TempSlots \in Nat
  BY BlockSlot, OperandsAssumption
<1> HIDE DEF slot
<1>2. StoresAt(l, d, v, slot)
  BY StoredFacts
<1> HIDE DEF d
<1>3. /\ d \in Emitted /\ d.depth = l.depth /\ d.locals = l.locals /\ d.wasm = l.wasm /\ d.r8 = l.r8
      /\ \A s \in 1 .. B[j] : d.slots[s] = l.slots[s]
      /\ d.slots[slot] = Read(l, v)
      /\ l.exact /\ Holds(l, v) => d.exact
  <2>1. v.in # "absent"
    BY DEF IsWord
  <2>2. \A s \in 1 .. B[j] : s \in 1 .. TempSlots + 4 /\ s # slot
    BY <1>1
  <2>3. QED
    BY <1>1, <1>2, <2>1, <2>2 DEF StoresAt
<1>4. c \in Emitted /\ SameWords(d, c) /\ c.depth = b
  BY <1>3, ReleaseTop
<1> HIDE DEF c
<1>5. Holds(l, v) => Read(l, v) = v.word
  BY DEF Holds
<1>6. QED
  BY <1>3, <1>4, <1>5 DEF SameWords, c, d, slot

LEMMA BranchStep ==
  ASSUME NEW B, Going(B), Branch
  PROVE  IInv'
<1> DEFINE b == B[Index]
<1>1. PICK j \in 1 .. Index :
        /\ frames[j].kind = "block"
        /\ LET c == Release(Stored(code, Child, frames[j].slot), Child)
           IN IF Runs THEN Emit(c, Front(Carrying(frames, j, Child.word)), <<Absent>>, j)
              ELSE Emit(c, Front(frames), <<Absent>>, skip)
  BY DEF Branch
<1> DEFINE c == Release(Stored(code, Child, frames[j].slot), Child)
<1>2. given # <<>> /\ Top.kind = "br" /\ Len(Top.kept) = Len(Children(Top.kind)) - 1 /\ nodes' = nodes
  BY DEF Branch, Complete, Returned
<1>3. IF Runs THEN Emit(c, Front(Carrying(frames, j, Child.word)), <<Absent>>, j)
      ELSE Emit(c, Front(frames), <<Absent>>, skip)
  BY <1>1
<1>4. IsWord(Child) /\ code.depth = After(Child, b) /\ Top.kind \notin Structured \cup Roots
  BY <1>2, UnaryFacts DEF UnaryKinds
<1>5. /\ Layout(B) /\ code \in Emitted /\ Readable(Child) /\ Child \in Value /\ Child.word \in Nat /\ b \in Nat
      /\ b <= TempSlots
      /\ Special = {} /\ Correct /\ Runs => code.exact /\ code.locals = code.wasm /\ Holds(code, Child)
  BY <1>2, ReturnedFacts
<1>6. j \in 1 .. Index - 1 /\ frames[j].kind \in Structured \cup Roots /\ Index >= 2
  BY <1>1, <1>2, <1>5, BlockSlot
<1>7. /\ c \in Emitted /\ c.depth = b
      /\ c.locals = code.locals /\ c.wasm = code.wasm /\ c.r8 = code.r8
      /\ \A s \in 1 .. B[j] : c.slots[s] = code.slots[s]
      /\ Holds(code, Child) => c.slots[frames[j].slot] = Child.word
      /\ code.exact /\ Holds(code, Child) => c.exact
  BY <1>1, <1>2, <1>4, <1>5, Brought
<1> HIDE DEF c
<1>8. /\ Suits(Absent, Gives(Top.kind)) /\ Absent.in \notin {"R1", "borrowed"} /\ Placed(Absent, b)
      /\ c.depth = After(Absent, b) /\ Gives(Top.kind) = "exit"
  BY <1>2, <1>7, PlainType, GivesOf DEF Suits, Placed, After
<1>9. CASE Runs
  <2> DEFINE fs == Front(Carrying(frames, j, Child.word))
  <2>1. Emit(c, fs, <<Absent>>, j)
    BY <1>3, <1>9
  <2>2. fs = Front(Carrying(frames, j, Child.word))
    OBVIOUS
  <2> HIDE DEF fs
  <2>3. /\ fs \in Seq(Frame) /\ Len(fs) = Index - 1 /\ \A i \in 1 .. Index - 1 : Alike(fs[i], frames[i])
        /\ fs[j].carried = Child.word
    BY <1>5, <1>6, <2>2, CarryingFacts
  <2>4. fs[j].slot = frames[j].slot
    BY <1>6, <2>3 DEF Alike
  <2>5. ASSUME Special = {}, Correct
        PROVE  /\ c.exact /\ c.locals = c.wasm /\ c.r8 = code.r8
               /\ \A s \in 1 .. B[j] : c.slots[s] = code.slots[s]
               /\ c.slots[fs[j].slot] = fs[j].carried
    BY <1>5, <1>7, <1>9, <2>3, <2>4, <2>5
  <2>6. QED
    BY <1>2, <1>4, <1>6, <1>7, <1>8, <1>9, <2>1, <2>3, <2>5, Jumping DEF b
<1>10. CASE ~Runs
  <2>1. Emit(c, Front(frames), <<Absent>>, skip)
    BY <1>3, <1>10
  <2>2. QED
    BY <1>2, <1>4, <1>7, <1>8, <1>10, <2>1, Falling DEF b
<1>11. QED
  BY <1>9, <1>10

LEMMA BranchIfStep ==
  ASSUME NEW B, Going(B), BranchIf
  PROVE  IInv'
<1> DEFINE b == B[Index]
           l == LoadAndUse(code, Child)
           c == Release(l, Child)
           falls == IF Top.kind = "brif" \/ ~Runs THEN {skip} ELSE {}
           jumps == IF Runs THEN {j \in 1 .. Index : frames[j].kind = "scope"} ELSE {}
<1>1. PICK to \in falls \cup jumps : Emit(c, Front(frames), <<Absent>>, to)
  BY DEF BranchIf
<1>2. given # <<>> /\ Top.kind \in {"brif", "table"} /\ Len(Top.kept) = Len(Children(Top.kind)) - 1 /\ nodes' = nodes
  BY DEF BranchIf, Complete, Returned
<1>3. IsWord(Child) /\ code.depth = After(Child, b) /\ Top.kind \notin Structured \cup Roots
  BY <1>2, UnaryFacts DEF UnaryKinds
<1>4. /\ Layout(B) /\ code \in Emitted /\ Readable(Child) /\ Child \in Value /\ b \in Nat
      /\ Special = {} /\ Correct /\ Runs => code.exact /\ code.locals = code.wasm /\ Holds(code, Child)
  BY <1>2, ReturnedFacts
<1>5. /\ l \in Emitted /\ l.depth = code.depth /\ l.slots = code.slots /\ l.locals = code.locals
      /\ l.wasm = code.wasm /\ l.r8 = code.r8
      /\ (code.exact /\ Holds(code, Child) => l.exact)
  BY <1>4, LoadOnTop
<1> HIDE DEF l
<1>6. c \in Emitted /\ SameWords(l, c) /\ c.depth = b
  BY <1>3, <1>4, <1>5, ReleaseTop
<1>7. Emit(c, Front(frames), <<Absent>>, to)
  BY <1>1
<1> HIDE DEF c
<1>8. /\ Suits(Absent, Gives(Top.kind)) /\ Absent.in \notin {"R1", "borrowed"} /\ Placed(Absent, b)
      /\ c.depth = After(Absent, b) /\ (Gives(Top.kind) = "exit" => Top.kind = "table")
  BY <1>2, <1>6, PlainType, GivesOf DEF Suits, Placed, After
<1>9. ASSUME Special = {}, Correct, Runs
      PROVE  c.exact /\ c.locals = c.wasm /\ c.r8 = code.r8 /\ c.slots = code.slots /\ Keeps(code, c, b)
  BY <1>4, <1>5, <1>6, <1>9 DEF SameWords, Keeps
<1>10. CASE to \in falls
  <2>1. to = skip /\ (Top.kind = "table" => ~Runs)
    BY <1>2, <1>10
  <2>2. Emit(c, Front(frames), <<Absent>>, skip)
    BY <1>7, <2>1
  <2>3. Special = {} /\ Correct /\ Runs => c.exact /\ c.locals = c.wasm /\ Keeps(code, c, b) /\ Holds(c, Absent)
    BY <1>9, AbsentHolds
  <2>4. QED
    BY <1>2, <1>3, <1>6, <1>8, <2>1, <2>2, <2>3, Falling DEF b
<1>11. CASE to \in jumps
  <2> DEFINE fs == Front(frames)
  <2>1. Runs /\ to \in 1 .. Index /\ frames[to].kind = "scope"
    BY <1>11
  <2>2. Index \in Nat /\ Top = frames[Index]
    BY <1>4, TopFacts
  <2>3. to \in 1 .. Index - 1 /\ frames[to].kind \in Structured \cup Roots
    BY <1>2, <2>1, <2>2 DEF Structured
  <2>4. /\ fs \in Seq(Frame) /\ Len(fs) = Index - 1 /\ \A i \in 1 .. Index - 1 : fs[i] = frames[i]
        /\ \A i \in 1 .. Index - 1 : Alike(fs[i], frames[i])
    BY <1>3, <1>4, PoppedFrames
  <2>5. Emit(c, fs, <<Absent>>, to)
    BY <1>7
  <2> HIDE DEF fs
  <2>6. ~Carries(fs[to])
    BY <2>1, <2>3, <2>4 DEF Carries
  <2>7. QED
    BY <1>2, <1>3, <1>6, <1>8, <1>9, <2>1, <2>3, <2>4, <2>5, <2>6, Jumping DEF b
<1>12. QED
  BY <1>10, <1>11

LEMMA BranchIfWithValueStep ==
  ASSUME NEW B, Going(B), BranchIfWithValue
  PROVE  IInv'
<1> DEFINE b == B[Index]
           m == B[Index + 1]
           c == LoadAndUse(code, Child)
           v == Kept(1)
<1>1. given # <<>> /\ Top.kind = "brifvalue" /\ Len(Top.kept) = Len(Children(Top.kind)) - 1 /\ nodes' = nodes
  BY DEF BranchIfWithValue, Complete, Returned
<1>2. \/ Emit(Release(c, Child), Front(frames), <<v>>, skip)
      \/ \E j \in 1 .. Index :
           /\ Runs /\ frames[j].kind = "block"
           /\ Emit(Release(Stored(c, v, frames[j].slot), Child), Front(Carrying(frames, j, v.word)), <<v>>, j)
  BY DEF BranchIfWithValue
<1>3. FirstOf(B) /\ Top.kind \notin Structured \cup Roots /\ IsWord(Child)
  BY <1>1, SecondFacts DEF TwoWords
<1>4. /\ ValueOK(v) /\ v \in Value /\ IsWord(v) /\ v.in \in {"immediate", "owned"}
      /\ Placed(v, b) /\ m = After(v, b) /\ Readable(v)
      /\ Special = {} /\ Correct /\ Runs => Holds(code, v)
  BY <1>1, <1>3 DEF FirstOf
<1>5. /\ Layout(B) /\ code \in Emitted /\ Readable(Child) /\ Child \in Value /\ b \in Nat /\ m \in Nat /\ b <= m
      /\ b <= TempSlots /\ code.depth = After(Child, m)
      /\ Special = {} /\ Correct /\ Runs => code.exact /\ code.locals = code.wasm /\ Holds(code, Child)
  BY <1>1, ReturnedFacts
<1>6. v.word \in Nat
  BY <1>4 DEF Value
<1> HIDE DEF v
<1>7. /\ c \in Emitted /\ c.depth = code.depth /\ Keeps(code, c, m) /\ c.slots = code.slots /\ c.locals = code.locals
      /\ c.wasm = code.wasm /\ c.r8 = code.r8
      /\ (code.exact /\ Holds(code, Child) => c.exact)
  BY <1>5, LoadOnTop
<1> HIDE DEF c
<1>8. Holds(c, v) = Holds(code, v)
  <2>1. After(v, b) <= m
    BY <1>4, <1>5
  <2>2. QED
    BY <1>4, <1>5, <1>7, <2>1, StaysHeld
<1>9. Gives(Top.kind) = "word"
  BY <1>1, GivesOf
<1>10. Suits(v, Gives(Top.kind)) /\ v.in \notin {"R1", "borrowed"}
  BY <1>4, <1>9 DEF Suits
<1>11. CASE Emit(Release(c, Child), Front(frames), <<v>>, skip)
  <2> DEFINE d == Release(c, Child)
  <2>1. d \in Emitted /\ SameWords(c, d) /\ d.depth = m
    BY <1>5, <1>7, ReleaseTop
  <2>2. Emit(d, Front(frames), <<v>>, skip)
    BY <1>11
  <2> HIDE DEF d
  <2>3. Holds(d, v) = Holds(c, v)
    BY <2>1, HoldsSame
  <2>4. ASSUME Special = {}, Correct, Runs
        PROVE  d.exact /\ d.locals = d.wasm /\ Keeps(code, d, b) /\ Holds(d, v)
    BY <1>4, <1>5, <1>7, <1>8, <2>1, <2>3, <2>4 DEF SameWords, Keeps
  <2>5. QED
    BY <1>1, <1>3, <1>4, <1>9, <1>10, <2>1, <2>2, <2>4, Falling DEF b
<1>12. ASSUME NEW j \in 1 .. Index, Runs, frames[j].kind = "block",
              Emit(Release(Stored(c, v, frames[j].slot), Child), Front(Carrying(frames, j, v.word)), <<v>>, j)
       PROVE  IInv'
  <2> DEFINE d == Release(Stored(c, v, frames[j].slot), Child)
             fs == Front(Carrying(frames, j, v.word))
  <2>1. Emit(d, fs, <<v>>, j)
    BY <1>12
  <2>2. j \in 1 .. Index - 1 /\ frames[j].kind \in Structured \cup Roots /\ Index >= 2
        /\ frames[j].slot = B[j] + 1 /\ B[j] \in Nat /\ frames[j].slot \in 1 .. TempSlots + 4
    BY <1>1, <1>5, <1>12, BlockSlot
  <2>3. c.depth = After(Child, m)
    BY <1>5, <1>7
  <2>4. /\ d \in Emitted /\ d.depth = m
        /\ d.locals = c.locals /\ d.wasm = c.wasm /\ d.r8 = c.r8
        /\ \A s \in 1 .. B[j] : d.slots[s] = c.slots[s]
        /\ Holds(c, v) => d.slots[frames[j].slot] = v.word
        /\ c.exact /\ Holds(c, v) => d.exact
    BY <1>1, <1>4, <1>5, <1>7, <1>12, <2>3, Brought
  <2> HIDE DEF d
  <2>5. fs = Front(Carrying(frames, j, v.word))
    OBVIOUS
  <2> HIDE DEF fs
  <2>6. /\ fs \in Seq(Frame) /\ Len(fs) = Index - 1 /\ \A i \in 1 .. Index - 1 : Alike(fs[i], frames[i])
        /\ fs[j].carried = v.word
    BY <1>5, <1>6, <2>2, <2>5, CarryingFacts
  <2>7. fs[j].slot = frames[j].slot
    BY <2>2, <2>6 DEF Alike
  <2>8. ASSUME Special = {}, Correct
        PROVE  /\ d.exact /\ d.locals = d.wasm /\ d.r8 = code.r8
               /\ \A s \in 1 .. B[j] : d.slots[s] = code.slots[s]
               /\ d.slots[fs[j].slot] = fs[j].carried
    BY <1>4, <1>5, <1>7, <1>8, <1>12, <2>4, <2>6, <2>7, <2>8
  <2>9. QED
    BY <1>1, <1>3, <1>4, <1>10, <1>12, <2>1, <2>2, <2>4, <2>6, <2>8, Jumping DEF b
<1>13. QED
  BY <1>2, <1>11, <1>12

LEMMA LowerReturnStep ==
  ASSUME NEW B, Going(B), LowerReturn
  PROVE  IInv'
<1> DEFINE b == B[Index]
           u == Use(code, Child)
           c == Release(u, Child)
           to == IF Runs THEN 1 ELSE skip
<1>1. given # <<>> /\ Top.kind = "return" /\ Len(Top.kept) = Len(Children(Top.kind)) - 1 /\ nodes' = nodes
      /\ Emit(c, Front(frames), <<Absent>>, to)
  BY DEF LowerReturn, Complete, Returned
<1>2. code.depth = After(Child, b) /\ Top.kind \notin Structured \cup Roots
  BY <1>1, UnaryFacts DEF UnaryKinds
<1>3. /\ Layout(B) /\ code \in Emitted /\ Child \in Value /\ b \in Nat
      /\ Special = {} /\ Correct /\ Runs => code.exact /\ code.locals = code.wasm /\ Holds(code, Child)
  BY <1>1, ReturnedFacts
<1>4. /\ u \in Emitted /\ u.depth = code.depth /\ u.slots = code.slots /\ u.locals = code.locals
      /\ u.wasm = code.wasm /\ u.r8 = code.r8
      /\ (code.exact /\ Holds(code, Child) => u.exact)
  BY <1>3, UseFacts
<1> HIDE DEF u
<1>5. c \in Emitted /\ SameWords(u, c) /\ c.depth = b
  BY <1>2, <1>3, <1>4, ReleaseTop
<1> HIDE DEF c
<1>6. /\ Suits(Absent, Gives(Top.kind)) /\ Absent.in \notin {"R1", "borrowed"} /\ Placed(Absent, b)
      /\ c.depth = After(Absent, b) /\ Gives(Top.kind) = "exit"
  BY <1>1, <1>5, PlainType, GivesOf DEF Suits, Placed, After
<1>7. ASSUME Special = {}, Correct, Runs
      PROVE  c.exact /\ c.locals = c.wasm /\ c.r8 = code.r8 /\ c.slots = code.slots
  BY <1>3, <1>4, <1>5, <1>7 DEF SameWords
<1>8. CASE Runs
  <2> DEFINE fs == Front(frames)
  <2>1. /\ Index >= 2 /\ fs \in Seq(Frame) /\ Len(fs) = Index - 1 /\ \A i \in 1 .. Index - 1 : fs[i] = frames[i]
        /\ \A i \in 1 .. Index - 1 : Alike(fs[i], frames[i])
    BY <1>2, <1>3, PoppedFrames
  <2>2. Emit(c, fs, <<Absent>>, 1)
    BY <1>1, <1>8
  <2> HIDE DEF fs
  <2>3. 1 \in 1 .. Index - 1
    BY <1>3, <2>1, TopFacts
  <2>4. frames[1].kind \in Roots
    BY <1>3 DEF Layout, Nested
  <2>5. ~Carries(fs[1])
    BY <2>1, <2>3, <2>4 DEF Carries, Roots
  <2>6. Special = {} /\ Correct => \A s \in 1 .. B[1] : c.slots[s] = code.slots[s]
    BY <1>7, <1>8
  <2>7. QED
    BY <1>1, <1>2, <1>5, <1>6, <1>7, <1>8, <2>1, <2>2, <2>3, <2>4, <2>5, <2>6, Jumping DEF b
<1>9. CASE ~Runs
  <2>1. Emit(c, Front(frames), <<Absent>>, skip)
    BY <1>1, <1>9
  <2>2. QED
    BY <1>1, <1>2, <1>5, <1>6, <1>9, <2>1, Falling DEF b
<1>10. QED
  BY <1>8, <1>9

LEMMA EndFunctionStep ==
  ASSUME NEW B, Going(B), EndFunction
  PROVE  IInv'
<1> DEFINE u == IF Runs THEN Use(code, Child) ELSE code
           c == Release(u, Child)
<1>1. /\ given # <<>> /\ Top.kind \in {"function", "procedure"} /\ Len(Top.kept) = Len(Children(Top.kind)) - 1
      /\ verdict' = "lowered" /\ code' = c /\ frames' = <<>> /\ given' = <<>> /\ menu' = menu /\ nodes' = nodes
  BY DEF EndFunction, Complete, Returned
<1>2. /\ Layout(B) /\ code \in Emitted /\ Child \in Value /\ code.depth = After(Child, B[Index + 1])
      /\ Special = {} => Correct
      /\ Special = {} /\ Correct /\ Runs => code.exact /\ Holds(code, Child)
  BY <1>1, ReturnedFacts
<1>3. Len(Top.kept) = 0
  <2>1. Children("function") = <<"word">> /\ Children("procedure") = <<"none">>
    BY ChildrenOf
  <2>2. Len(Children("function")) = 1 /\ Len(Children("procedure")) = 1
    BY <2>1
  <2>3. QED
    BY <1>1, <2>2
<1>4. B[Index + 1] = 0
  <2>1. B[Index + 1] = B[Index]
    BY <1>1, <1>2, <1>3, FirstChild
  <2>2. Index = 1
    BY <1>1, <1>2, TopFacts DEF Roots
  <2>3. B[1] = 0
    BY <1>2 DEF Layout, Stacked
  <2>4. QED
    BY <2>1, <2>2, <2>3
<1>5. u \in Emitted /\ u.depth = code.depth /\ (Special = {} => u.exact)
  <2>1. Special = {} => code.exact
    BY <1>2 DEF Correct
  <2>2. QED
    BY <1>2, <2>1, UseFacts
<1> HIDE DEF u
<1>6. 0 \in Nat /\ u.depth = After(Child, 0)
  BY <1>2, <1>4, <1>5
<1>7. c \in Emitted /\ c.depth = 0 /\ SameWords(u, c)
  BY <1>2, <1>5, <1>6, ReleaseTop
<1> HIDE DEF c
<1>8. c \in Code
  BY <1>7, EmittedFields
<1>9. menu \in Menus /\ nodes \in 0 .. Size
  BY <1>2 DEF Layout
<1>10. Special = {} => c.exact
  BY <1>5, <1>7 DEF SameWords
<1>11. QED
  BY <1>1, <1>7, <1>8, <1>9, <1>10 DEF IInv, Finished

-----------------------------------------------------------------------------
(* The invariant holds from the beginning on.                               *)

LEMMA StartType == Start \in [Local -> Nat]
<1> DEFINE n == Cardinality(Local)
<1>1. n \in Nat /\ ExistsBijection(1 .. n, Local)
  BY FS_CardinalityType, OperandsAssumption
<1>2. ExistsBijection(Local, 1 .. n)
  BY <1>1, Fun_ExistsBijSymmetric
<1>3. PICK f \in Bijection(Local, 1 .. n) : TRUE
  BY <1>2 DEF ExistsBijection
<1>4. f \in [Local -> 1 .. n] /\ IsInjective(f)
  BY <1>3 DEF Bijection, Injection
<1>5. Start \in [Local -> 1 .. n]
  BY <1>4 DEF Start
<1>6. QED
  BY <1>1, <1>5

LEMMA InitIInv == Init => IInv
<1> SUFFICES ASSUME Init
             PROVE  IInv
  OBVIOUS
<1> DEFINE B == [n \in Nat |-> 0]
<1>1. PICK kind \in {"function", "procedure"} : frames = <<NewFrame(kind, FALSE, 0)>>
  BY DEF Init
<1> DEFINE f == NewFrame(kind, FALSE, 0)
<1>2. /\ menu \in Menus /\ nodes = 0 /\ given = <<>> /\ skip = NoOne /\ verdict = "lowering"
      /\ code = [depth |-> 0, peak |-> 0, slots |-> [s \in 1 .. TempSlots + 4 |-> 0], locals |-> Start,
                 wasm |-> Start, r1 |-> 0, r8 |-> 0, exact |-> TRUE]
  BY DEF Init
<1>3. code \in Code /\ code.depth = 0 /\ code.peak = 0 /\ code.exact /\ code.locals = code.wasm
  BY <1>2, StartType DEF Code
<1>4. kind \in Kind
  BY Kinds
<1>5. /\ f \in Frame /\ f.kind = kind /\ f.kept = <<>> /\ ~f.retain /\ f.slot = 0 /\ f.side = "none"
  BY <1>4 DEF NewFrame, Frame
<1>6. frames = <<f>>
  BY <1>1
<1> HIDE DEF f
<1>7. frames \in Seq(Frame) /\ Len(frames) = 1 /\ frames[1] = f /\ frames # <<>> /\ Last(frames) = f
  BY <1>5, <1>6 DEF Last
<1>8. FrameOK(f)
  <2>1. Children("function") = <<"word">> /\ Children("procedure") = <<"none">>
    BY ChildrenOf
  <2>2. Len(Children("function")) = 1 /\ Len(Children("procedure")) = 1
    BY <2>1
  <2>3. Len(f.kept) < Len(Children(f.kind)) /\ DOMAIN f.kept = {}
    <3>1. Len(Children(f.kind)) = 1
      BY <1>5, <2>2
    <3>2. Len(f.kept) = 0 /\ DOMAIN f.kept = {}
      BY <1>5
    <3>3. QED
      BY ONLY <3>1, <3>2
  <2>4. f.slot # 0 <=> f.kind = "block" \/ (f.kind \in {"ifelse", "binary"} /\ f.kept # <<>>)
    BY <1>5
  <2>5. QED
    BY <1>5, <2>3, <2>4 DEF FrameOK
<1>9. Nested(frames)
  <2>1. frames[1].kind \in Roots
    BY <1>5, <1>7 DEF Roots
  <2>2. \A i \in 1 .. Len(frames) : FrameOK(frames[i])
    BY <1>7, <1>8
  <2>3. QED
    BY <1>7, <2>1, <2>2 DEF Nested
<1>10. B \in [Nat -> Nat] /\ \A n \in Nat : B[n] = 0
  OBVIOUS
<1> HIDE DEF B
<1>11. Chain(B, Index + 1)
  <2>1. Index = 1
    BY <1>7 DEF Index
  <2>2. \A i \in 1 .. Index + 1 : B[i] = 0
    BY <1>10, <2>1
  <2>3. QED
    BY <1>10, <2>2 DEF Chain
<1>12. Stacked(frames, given, code.depth, B)
  <2>1. B[1] = 0 /\ B[2] = 0 /\ 1 + 1 = 2
    BY <1>10
  <2>2. FrameAt(f, 0) /\ FrameEnd(f, 0) = 0
    BY <1>5 DEF FrameAt, FrameEnd
  <2>3. \A i \in 1 .. Len(frames) : FrameAt(frames[i], B[i]) /\ B[i + 1] = FrameEnd(frames[i], B[i])
    BY <1>7, <2>1, <2>2
  <2>4. QED
    BY <1>2, <1>3, <1>7, <2>1, <2>3 DEF Stacked
<1>13. Layout(B)
  <2>1. skip = 0 /\ 0 \in 0 .. Index /\ NoOne = 0
    BY <1>2, <1>7 DEF NoOne, Index
  <2>2. TempSlots \in Nat /\ Size \in Nat
    BY OperandsAssumption
  <2>3. given \in Seq(Value) /\ Len(given) <= 1 /\ given = <<>>
    BY <1>2
  <2>4. QED
    BY <1>2, <1>3, <1>7, <1>9, <1>11, <1>12, <2>1, <2>2, <2>3 DEF Layout
<1>14. Correct
  <2>1. DOMAIN f.kept = {}
    BY <1>5
  <2>2. \A i \in 1 .. Len(frames) : frames[i] = f
    BY <1>7
  <2>3. Exact(code, frames, given, skip)
    BY <1>2, <1>3, <2>1, <2>2 DEF Exact
  <2>4. Ordinary(frames, given)
    BY <1>2, <1>5, <1>7 DEF Ordinary
  <2>5. QED
    BY <1>3, <2>3, <2>4 DEF Correct
<1>15. QED
  BY <1>2, <1>13, <1>14 DEF IInv

LEMMA KeepOperandStep ==
  ASSUME NEW B, Going(B), KeepOperand
  PROVE  IInv'
  BY KeepLeftStep, KeepBorrowableStep, KeepMaterializedStep, KeepPairStep, KeepInR8Step DEF KeepOperand

LEMMA LeafStep ==
  ASSUME NEW B, Going(B), Leaf
  PROVE  IInv'
  BY LowerConstStep, LowerLocalGetStep, LowerSizeStep, LowerPortReadStep, LowerPairStep, LowerNopStep DEF Leaf

LEMMA OperateStep ==
  ASSUME NEW B, Going(B), Operate
  PROVE  IInv'
<1>1. CASE LowerUnary \/ LowerInPlace \/ LowerBinary \/ LowerSelect \/ LowerTee \/ LowerDrop
  BY <1>1, LowerUnaryStep, LowerInPlaceStep, LowerBinaryStep, LowerSelectStep, LowerTeeStep, LowerDropStep
<1>2. CASE LowerCpuBinary \/ LowerPortWrite \/ LowerPortWrites \/ LowerTwoPorts
  BY <1>2, LowerCpuBinaryStep, LowerPortWriteStep, LowerPortWritesStep, LowerTwoPortsStep
<1>3. CASE LowerStore \/ LowerPackedStore \/ LowerPairStore \/ LowerPairCopy \/ LowerBulk
  BY <1>3, LowerStoreStep, LowerPackedStoreStep, LowerPairStoreStep, LowerPairCopyStep, LowerBulkStep
<1>4. CASE LowerCall \/ LowerCallIndirect
  BY <1>4, LowerCallStep, LowerCallIndirectStep
<1>5. CASE LowerPairLoad \/ LowerExtend \/ LowerNarrow \/ LowerPairBinary \/ LowerPairCompare
  BY <1>5, LowerPairLoadStep, LowerExtendStep, LowerNarrowStep, LowerPairBinaryStep, LowerPairCompareStep
<1>6. QED
  BY <1>1, <1>2, <1>3, <1>4, <1>5 DEF Operate

LEMMA ControlStep ==
  ASSUME NEW B, Going(B), Control
  PROVE  IInv'
<1>1. CASE NextOfBlock \/ EndBlock \/ EndScope \/ Branch \/ BranchIf \/ BranchIfWithValue
  BY <1>1, NextOfBlockStep, EndBlockStep, EndScopeStep, BranchStep, BranchIfStep, BranchIfWithValueStep
<1>2. CASE Test \/ EndArm \/ EndIf \/ LowerReturn \/ EndFunction
  BY <1>2, TestStep, EndArmStep, EndIfStep, LowerReturnStep, EndFunctionStep
<1>3. QED
  BY <1>1, <1>2 DEF Control

\* Nothing goes on when the lowering has ended.
LEMMA OnlyWhileLowering ==
  ASSUME Finished, Leaf \/ Descend \/ KeepOperand \/ Operate \/ Control
  PROVE  FALSE
<1>1. given = <<>> /\ verdict # "lowering"
  BY DEF Finished
<1>2. ~Leaf /\ ~Descend
  BY <1>1 DEF Leaf, LowerConst, LowerLocalGet, LowerSize, LowerPortRead, LowerPair, LowerNop, Descend, Enters
<1>3. ~KeepOperand
  BY <1>1 DEF KeepOperand, KeepLeft, KeepBorrowable, KeepMaterialized, KeepPair, KeepInR8, Returned
<1>4. (\A kinds : ~Complete(kinds)) /\ \A kinds, n : ~Returned(kinds, n)
  BY <1>1 DEF Complete, Returned
<1>5. ~Operate
  BY <1>4 DEF Operate, LowerUnary, LowerInPlace, LowerBinary, LowerSelect, LowerTee, LowerDrop, LowerCpuBinary,
              LowerPortWrite, LowerPortWrites, LowerTwoPorts, LowerStore, LowerPackedStore, LowerPairStore,
              LowerPairCopy, LowerBulk, LowerCall, LowerCallIndirect, LowerPairLoad, LowerExtend, LowerNarrow,
              LowerPairBinary, LowerPairCompare
<1>6. ~Control
  BY <1>4 DEF Control, NextOfBlock, EndBlock, EndScope, Branch, BranchIf, BranchIfWithValue, Test, EndArm, EndIf,
              LowerReturn, EndFunction
<1>7. QED
  BY <1>2, <1>3, <1>5, <1>6

LEMMA UnchangedIInv == IInv /\ UNCHANGED vars => IInv'
<1> SUFFICES ASSUME IInv, UNCHANGED vars
             PROVE  IInv'
  OBVIOUS
<1>1. /\ menu' = menu /\ nodes' = nodes /\ frames' = frames /\ given' = given /\ code' = code /\ skip' = skip
      /\ verdict' = verdict
  BY DEF vars
<1>2. ASSUME NEW B, Layout(B)
      PROVE  Layout(B)'
  BY <1>1, <1>2 DEF Layout, Index, Top
<1>3. Correct => Correct'
  BY <1>1 DEF Correct
<1>4. Finished => Finished'
  BY <1>1 DEF Finished
<1>5. QED
  BY <1>1, <1>2, <1>3, <1>4 DEF IInv

LEMMA NextIInv == IInv /\ [Next]_vars => IInv'
<1> SUFFICES ASSUME IInv, [Next]_vars
             PROVE  IInv'
  OBVIOUS
<1>1. CASE UNCHANGED vars
  BY <1>1, UnchangedIInv
<1>2. CASE Ended
  BY <1>2, UnchangedIInv DEF Ended
<1>3. ASSUME Leaf \/ Descend \/ KeepOperand \/ Operate \/ Control
      PROVE  IInv'
  <2>1. PICK B : Going(B)
    BY <1>3, OnlyWhileLowering DEF IInv, Going
  <2>2. QED
    BY <1>3, <2>1, LeafStep, DescendStep, KeepOperandStep, OperateStep, ControlStep
<1>4. QED
  BY <1>1, <1>2, <1>3 DEF Next

LEMMA Invariant == Spec => []IInv
  BY InitIInv, NextIInv, PTL DEF Spec

-----------------------------------------------------------------------------
(* What follows.                                                            *)

LEMMA IInvTypeOK == IInv => TypeOK
<1>1. ASSUME NEW B, Layout(B), verdict = "lowering"
      PROVE  TypeOK
  <2>1. \A f \in ToSet(frames) : f \in Frame
    BY <1>1 DEF Layout, ToSet
  <2>2. \A v \in ToSet(given) : v \in Value
    BY <1>1 DEF Layout, ToSet
  <2>3. QED
    BY <1>1, <2>1, <2>2 DEF Layout, TypeOK
<1>2. ASSUME Finished
      PROVE  TypeOK
  <2>1. ToSet(frames) = {} /\ ToSet(given) = {} /\ Len(given) = 0
    BY <1>2 DEF Finished, ToSet
  <2>2. QED
    BY <1>2, <2>1 DEF Finished, TypeOK
<1>3. QED
  BY <1>1, <1>2 DEF IInv

LEMMA IInvExact ==
  ASSUME Special = {}
  PROVE  IInv => OperandsExact
<1>1. ASSUME NEW B, Layout(B), Correct, verdict = "lowering"
      PROVE  OperandsExact
  <2>1. code.exact /\ Exact(code, frames, given, skip)
    BY <1>1 DEF Correct
  <2>2. code.locals = code.wasm
    BY <2>1 DEF Exact
  <2>3. ASSUME NEW i \in 1 .. (IF Runs THEN Index ELSE skip), NEW v \in ToSet(frames[i].kept)
        PROVE  Holds(code, v)
    <3>1. PICK n \in DOMAIN frames[i].kept : v = frames[i].kept[n]
      BY DEF ToSet
    <3>2. i \in 1 .. (IF skip = NoOne THEN Len(frames) ELSE skip)
      BY DEF Runs, Index
    <3>3. QED
      BY <2>1, <3>1, <3>2 DEF Exact
  <2>4. ASSUME Runs, NEW v \in ToSet(given)
        PROVE  Holds(code, v)
    <3>1. given # <<>>
      BY DEF ToSet
    <3>2. given = <<Child>>
      BY <1>1, <3>1, TopFacts
    <3>3. v = given[1]
      BY <2>4, <3>2 DEF ToSet
    <3>4. QED
      BY <2>1, <2>4, <3>1, <3>3 DEF Exact, Runs
  <2>5. QED
    BY <2>1, <2>2, <2>3, <2>4 DEF OperandsExact, OperandsHeld
<1>2. ASSUME Finished
      PROVE  OperandsExact
  BY <1>2 DEF Finished, OperandsExact, OperandsHeld
<1>3. QED
  BY <1>1, <1>2 DEF IInv

LEMMA SlotsOfPlaced ==
  ASSUME NEW v \in Value, ValueOK(v), NEW b \in Nat, Placed(v, b)
  PROVE  SlotsOf(v) = b + 1 .. After(v, b)
<1>1. v.high \in Nat /\ (IsOwned(v) => v.at = b + 1 /\ v.high \in {0, b + 2})
  BY DEF Value, Placed
<1>2. CASE ~IsOwned(v)
  BY <1>2 DEF SlotsOf, After
<1>3. CASE IsOwned(v) /\ v.high = 0
  <2>1. SlotsOf(v) = {b + 1} /\ After(v, b) = b + 1
    BY <1>1, <1>3 DEF SlotsOf, After, Words
  <2>2. QED
    BY <2>1
<1>4. CASE IsOwned(v) /\ v.high # 0
  <2>1. SlotsOf(v) = {b + 1, b + 2} /\ After(v, b) = b + 2
    BY <1>1, <1>4 DEF SlotsOf, After, Words
  <2>2. QED
    BY <2>1
<1>5. QED
  BY <1>2, <1>3, <1>4

\* The slots of one call: those of its operands, in order, or one for its result.
FrameSlots(f) == (UNION {SlotsOf(v) : v \in ToSet(f.kept)}) \cup ({f.slot} \ {0})
LEMMA FrameHolds ==
  ASSUME NEW f \in Frame, FrameOK(f), NEW b \in Nat, FrameAt(f, b)
  PROVE  /\ FrameSlots(f) = b + 1 .. FrameEnd(f, b)
         /\ \A m, n \in DOMAIN f.kept : m < n => \A s \in SlotsOf(f.kept[m]), t \in SlotsOf(f.kept[n]) : s < t
<1>1. f.kept \in Seq(Value) /\ Len(f.kept) \in 0 .. 2 /\ f.slot \in Nat /\ f.kind \in Kind
  <2>1. f.kind \in Kind /\ f.kept \in Seq(Value) /\ Len(f.kept) \in Nat /\ f.slot \in Nat
    BY DEF Frame
  <2>2. Len(f.kept) < Len(Children(f.kind)) /\ Len(Children(f.kind)) \in 0 .. 3
    BY <2>1, ChildrenType DEF FrameOK
  <2>3. \A m \in Nat, k \in 0 .. 3 : m < k => m \in 0 .. 2
    OBVIOUS
  <2>4. QED
    BY <2>1, <2>2, <2>3
<1>2. \A n \in DOMAIN f.kept : f.kept[n] \in Value /\ ValueOK(f.kept[n])
  BY <1>1 DEF FrameOK
<1>3. ToSet(f.kept) = {f.kept[n] : n \in 1 .. Len(f.kept)} /\ DOMAIN f.kept = 1 .. Len(f.kept)
  BY <1>1 DEF ToSet
<1>4. \A v \in Value, c \in Nat : After(v, c) \in Nat /\ c <= After(v, c)
  BY AfterType
<1>5. CASE f.slot = 0 /\ Len(f.kept) = 0
  <2>1. ToSet(f.kept) = {} /\ FrameEnd(f, b) = b /\ DOMAIN f.kept = {}
    BY <1>3, <1>5 DEF FrameEnd
  <2>2. FrameSlots(f) = {}
    BY <1>5, <2>1 DEF FrameSlots
  <2>3. b + 1 .. b = {}
    OBVIOUS
  <2>4. QED
    BY <2>1, <2>2, <2>3
<1>6. CASE f.slot = 0 /\ Len(f.kept) = 1
  <2>1. DOMAIN f.kept = {1} /\ ToSet(f.kept) = {f.kept[1]}
    BY <1>3, <1>6
  <2>2. Placed(f.kept[1], b) /\ FrameEnd(f, b) = After(f.kept[1], b)
    BY <1>6 DEF FrameAt, FrameEnd
  <2>3. SlotsOf(f.kept[1]) = b + 1 .. FrameEnd(f, b)
    BY <1>2, <2>1, <2>2, SlotsOfPlaced
  <2>4. FrameSlots(f) = SlotsOf(f.kept[1])
    BY <1>6, <2>1 DEF FrameSlots
  <2>5. QED
    BY <2>1, <2>3, <2>4
<1>7. CASE f.slot = 0 /\ Len(f.kept) = 2
  <2> DEFINE c == After(f.kept[1], b)
             e == After(f.kept[2], c)
  <2>1. DOMAIN f.kept = {1, 2} /\ ToSet(f.kept) = {f.kept[1], f.kept[2]}
    BY <1>3, <1>7
  <2>2. Placed(f.kept[1], b) /\ Placed(f.kept[2], c) /\ FrameEnd(f, b) = e
    BY <1>7 DEF FrameAt, FrameEnd
  <2>3. c \in Nat /\ b <= c /\ SlotsOf(f.kept[1]) = b + 1 .. c
    BY <1>2, <1>4, <2>1, <2>2, SlotsOfPlaced
  <2> HIDE DEF c
  <2>4. e \in Nat /\ c <= e /\ SlotsOf(f.kept[2]) = c + 1 .. e
    BY <1>2, <1>4, <2>1, <2>2, <2>3, SlotsOfPlaced
  <2> HIDE DEF e
  <2>5. FrameSlots(f) = SlotsOf(f.kept[1]) \cup SlotsOf(f.kept[2])
    BY <1>7, <2>1 DEF FrameSlots
  <2>6. FrameSlots(f) = b + 1 .. FrameEnd(f, b)
    BY <2>2, <2>3, <2>4, <2>5
  <2>7. \A s \in SlotsOf(f.kept[1]), t \in SlotsOf(f.kept[2]) : s < t
    BY <2>3, <2>4
  <2>8. QED
    BY <2>1, <2>6, <2>7
<1>8. CASE f.slot # 0
  <2>1. f.slot = b + 1 /\ FrameEnd(f, b) = b + 1
    BY <1>8 DEF FrameAt, FrameEnd
  <2>2. \A n \in DOMAIN f.kept : SlotsOf(f.kept[n]) \subseteq {b + 1}
    BY <1>8, <1>2 DEF FrameAt, Placed, SlotsOf
  <2>3. \A v \in ToSet(f.kept) : SlotsOf(v) \subseteq {b + 1}
    BY <1>3, <2>2
  <2>4. FrameSlots(f) = {b + 1}
    <3> DEFINE U == UNION {SlotsOf(v) : v \in ToSet(f.kept)}
               W == {f.slot} \ {0}
    <3>1. U \subseteq {b + 1}
      BY <2>3
    <3>2. W = {b + 1}
      BY <1>8, <2>1
    <3>3. FrameSlots(f) = U \cup W
      BY DEF FrameSlots
    <3> HIDE DEF U, W
    <3>4. U \cup W = {b + 1}
      BY ONLY <3>1, <3>2
    <3>5. QED
      BY <3>3, <3>4
  <2>5. Len(f.kept) \in {0, 1} \/ \A n \in DOMAIN f.kept : SlotsOf(f.kept[n]) = {}
    <3>1. CASE f.kind \in Structured
      <4>1. \A n \in DOMAIN f.kept : f.kept[n] = Absent
        BY <3>1 DEF FrameOK
      <4>2. SlotsOf(Absent) = {}
        BY PlainType DEF SlotsOf
      <4>3. QED
        BY <4>1, <4>2
    <3>2. CASE f.kind = "binary"
      <4>1. Children("binary") = <<"word", "word">>
        BY ChildrenOf
      <4>2. Len(Children(f.kind)) = 2
        BY <3>2, <4>1
      <4>3. Len(f.kept) < 2
        BY <4>2 DEF FrameOK
      <4>4. \A k \in 0 .. 2 : k < 2 => k \in {0, 1}
        OBVIOUS
      <4>5. QED
        BY <1>1, <4>3, <4>4
    <3>3. QED
      BY <1>8, <3>1, <3>2 DEF FrameOK, Structured
  <2>6. \A m, n \in DOMAIN f.kept : m < n => SlotsOf(f.kept[m]) = {}
    <3>1. CASE Len(f.kept) \in {0, 1}
      <4>1. DOMAIN f.kept \subseteq {1}
        BY <1>3, <3>1
      <4>2. \A m, n \in {1} : ~(m < n)
        OBVIOUS
      <4>3. QED
        BY <4>1, <4>2
    <3>2. QED
      BY <2>5, <3>1
  <2>7. {b + 1} = b + 1 .. b + 1
    OBVIOUS
  <2>8. QED
    BY <2>1, <2>4, <2>6, <2>7
<1>9. QED
  BY <1>1, <1>5, <1>6, <1>7, <1>8

LEMMA HoldingIs ==
  ASSUME NEW B, Layout(B), NEW i \in 1 .. Index
  PROVE  /\ Holding(i) = B[i] + 1 .. B[i + 1] /\ B[i] \in Nat /\ B[i + 1] \in Nat
         /\ \A m, n \in DOMAIN frames[i].kept :
              m < n => \A s \in SlotsOf(frames[i].kept[m]), t \in SlotsOf(frames[i].kept[n]) : s < t
<1>1. Index \in Nat /\ frames[i] \in Frame /\ FrameOK(frames[i])
  BY TopFacts
<1>2. FrameAt(frames[i], B[i]) /\ B[i + 1] = FrameEnd(frames[i], B[i])
  BY DEF Layout, Stacked, Index
<1>3. B \in [Nat -> Nat] /\ i \in Nat /\ i + 1 \in Nat
  <2>1. Chain(B, Index + 1)
    BY DEF Layout
  <2>2. QED
    BY <1>1, <2>1 DEF Chain
<1>4. B[i] \in Nat /\ B[i + 1] \in Nat /\ ~(i > Index)
  BY <1>1, <1>3
<1>5. Holding(i) = FrameSlots(frames[i])
  BY <1>4 DEF Holding, FrameSlots
<1>6. QED
  BY <1>1, <1>2, <1>4, <1>5, FrameHolds

LEMMA HoldingLast ==
  ASSUME NEW B, Layout(B)
  PROVE  /\ Holding(Index + 1) = B[Index + 1] + 1 .. code.depth
         /\ B[Index + 1] \in Nat /\ B[Index + 1] <= code.depth
<1>1. Index \in Nat /\ B[Index + 1] \in Nat /\ code.depth \in Nat
  BY TopFacts
<1>2. Holding(Index + 1) = UNION {SlotsOf(v) : v \in ToSet(given)}
  BY <1>1 DEF Holding
<1>3. CASE given = <<>>
  <2>1. ToSet(given) = {}
    BY <1>3 DEF ToSet
  <2>2. Holding(Index + 1) = {} /\ code.depth = B[Index + 1]
    BY <1>2, <1>3, <2>1, TopFacts
  <2>3. \A n \in Nat : n + 1 .. n = {} /\ n <= n
    OBVIOUS
  <2>4. QED
    BY <1>1, <2>2, <2>3
<1>4. CASE given # <<>>
  <2>1. /\ given = <<Child>> /\ Child \in Value /\ ValueOK(Child)
        /\ Placed(Child, B[Index + 1]) /\ code.depth = After(Child, B[Index + 1])
    BY <1>4, TopFacts
  <2>2. ToSet(given) = {Child}
    BY <2>1 DEF ToSet
  <2>3. Holding(Index + 1) = SlotsOf(Child)
    BY <1>2, <2>2
  <2>4. SlotsOf(Child) = B[Index + 1] + 1 .. code.depth
    BY <1>1, <2>1, SlotsOfPlaced
  <2>5. B[Index + 1] <= code.depth
    BY <1>1, <2>1, AfterType
  <2>6. QED
    BY <1>1, <2>3, <2>4, <2>5
<1>5. QED
  BY <1>3, <1>4

LEMMA IInvSlots == IInv => SlotsAccounted
<1>1. ASSUME NEW B, Layout(B)
      PROVE  SlotsAccounted
  <2>1. Index \in Nat /\ Index >= 1 /\ code.depth \in Nat
    BY <1>1, TopFacts
  <2> DEFINE End(i) == IF i = Index + 1 THEN code.depth ELSE B[i + 1]
  <2>2. ASSUME NEW i \in 1 .. Index + 1
        PROVE  Holding(i) = B[i] + 1 .. End(i) /\ B[i] \in Nat /\ End(i) \in Nat /\ B[i] <= B[Index + 1]
    <3>1. B[i] <= B[Index + 1]
      BY <1>1, <2>1 DEF Layout, Chain
    <3>2. CASE i = Index + 1
      BY <1>1, <2>1, <3>1, <3>2, HoldingLast
    <3>3. CASE i \in 1 .. Index
      <4>1. End(i) = B[i + 1]
        BY <2>1, <3>3
      <4>2. QED
        BY <1>1, <3>1, <3>3, <4>1, HoldingIs
    <3>4. QED
      BY <2>1, <3>2, <3>3
  <2>3. B[Index + 1] \in Nat /\ B[Index + 1] <= code.depth
    BY <1>1, HoldingLast
  <2>4. ASSUME NEW i \in 1 .. Index + 1, NEW j \in 1 .. Index + 1, i < j
        PROVE  End(i) <= B[j]
    <3>1. i + 1 \in 1 .. Index + 1 /\ i # Index + 1 /\ i + 1 <= j
      BY <2>1, <2>4
    <3>2. End(i) = B[i + 1]
      BY <3>1
    <3>3. B[i + 1] <= B[j]
      BY <1>1, <3>1 DEF Layout, Chain
    <3>4. QED
      BY <3>2, <3>3
  <2>5. ASSUME NEW i \in 1 .. Index + 1
        PROVE  End(i) <= code.depth
    <3>1. CASE i = Index + 1
      BY <2>1, <3>1
    <3>2. CASE i # Index + 1
      <4>1. i < Index + 1 /\ Index + 1 \in 1 .. Index + 1
        BY <2>1, <3>2
      <4>2. End(i) <= B[Index + 1]
        BY <2>4, <4>1
      <4>3. End(i) \in Nat
        BY <2>2
      <4>4. QED
        BY <2>1, <2>3, <4>2, <4>3
    <3>3. QED
      BY <3>1, <3>2
  <2>6. UNION {Holding(i) : i \in 1 .. Index + 1} = 1 .. code.depth
    <3>1. ASSUME NEW i \in 1 .. Index + 1, NEW s \in Holding(i)
          PROVE  s \in 1 .. code.depth
      <4>1. s \in B[i] + 1 .. End(i) /\ B[i] \in Nat /\ End(i) \in Nat /\ End(i) <= code.depth
        BY <2>2, <2>5, <3>1
      <4>2. QED
        BY <2>1, <4>1
    <3>2. ASSUME NEW s \in 1 .. code.depth
          PROVE  \E i \in 1 .. Index + 1 : s \in Holding(i)
      <4>1. CASE s <= B[Index + 1]
        <5>1. s \in 1 .. B[Index + 1] /\ Index + 1 \in 1 .. Index + 1
          BY <2>1, <2>3, <4>1
        <5>2. PICK i \in 1 .. (Index + 1) - 1 : B[i] < s /\ s <= B[i + 1]
          BY <1>1, <5>1 DEF Layout, Chain
        <5>3. i \in 1 .. Index
          BY <2>1
        <5>4. Holding(i) = B[i] + 1 .. B[i + 1] /\ B[i] \in Nat /\ B[i + 1] \in Nat
          BY <1>1, <5>3, HoldingIs
        <5>5. s \in Holding(i)
          BY <5>2, <5>4
        <5>6. QED
          BY <2>1, <5>3, <5>5
      <4>2. CASE ~(s <= B[Index + 1])
        <5>1. Holding(Index + 1) = B[Index + 1] + 1 .. code.depth
          BY <1>1, HoldingLast
        <5>2. s \in Holding(Index + 1)
          BY <2>1, <2>3, <4>2, <5>1
        <5>3. QED
          BY <2>1, <5>2
      <4>3. QED
        BY <4>1, <4>2
    <3>3. QED
      BY <3>1, <3>2
  <2>7. ASSUME NEW i \in 1 .. Index + 1, NEW j \in 1 .. Index + 1, i < j,
               NEW s \in Holding(i), NEW t \in Holding(j)
        PROVE  s < t
    <3>1. s \in B[i] + 1 .. End(i) /\ t \in B[j] + 1 .. End(j)
      BY <2>2, <2>7
    <3>2. B[i] \in Nat /\ End(i) \in Nat /\ B[j] \in Nat /\ End(j) \in Nat /\ End(i) <= B[j]
      BY <2>2, <2>4, <2>7
    <3> HIDE DEF End
    <3>3. QED
      BY <3>1, <3>2
  <2>8. \A i \in 1 .. Index : \A m, n \in DOMAIN frames[i].kept :
          m < n => \A s \in SlotsOf(frames[i].kept[m]), t \in SlotsOf(frames[i].kept[n]) : s < t
    BY <1>1, HoldingIs
  <2>9. QED
    BY <2>6, <2>7, <2>8 DEF SlotsAccounted
<1>2. ASSUME Finished
      PROVE  SlotsAccounted
  <2>1. CASE verdict = "refused"
    BY <2>1 DEF SlotsAccounted
  <2>2. CASE verdict # "refused"
    <3>1. frames = <<>> /\ given = <<>> /\ code.depth = 0 /\ Index = 0
      BY <1>2, <2>2 DEF Finished, Index
    <3>2. Holding(1) = {}
      BY <3>1 DEF Holding, ToSet
    <3>3. 1 .. Index + 1 = {1} /\ 1 .. code.depth = {} /\ 1 .. Index = {}
      BY <3>1
    <3>4. QED
      BY <3>2, <3>3 DEF SlotsAccounted
  <2>3. QED
    BY <2>1, <2>2
<1>3. QED
  BY <1>1, <1>2 DEF IInv

\* Whatever function is lowered, the calls of lower_expression keep values in
\* the places struct Value has, the skipped code belongs to one of them, and
\* the lowering goes on, ends, or refuses the function.
THEOREM TypeCorrect == Spec => []TypeOK
  BY Invariant, IInvTypeOK, PTL

\* temp_depth counts just the slots of the operands and results that wait,
\* stacked in the order of the calls and operands they belong to: what
\* release_value gives back was on top, and a function that was lowered has
\* given back every slot.
THEOREM SlotsStacked == Spec => []SlotsAccounted
  BY Invariant, IInvSlots, PTL

\* In a function without the kinds of Special, every operand that waits is
\* still the word that Wasm has for it, wherever lower_expression keeps it and
\* whatever is lowered after it; the locals are those of Wasm, and every word
\* that the code has stored, passed, written, tested or returned was the one
\* of Wasm.
THEOREM OperandsHold ==
  ASSUME Special = {}
  PROVE  Spec => []OperandsExact
<1>1. IInv => OperandsExact
  BY IInvExact
<1>2. QED
  BY <1>1, Invariant, PTL
=============================================================================
