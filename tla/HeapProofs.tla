----------------------------- MODULE HeapProofs -----------------------------
(***************************************************************************)
(* Proofs about Heap, for every size of memory and every configuration.    *)
(***************************************************************************)
EXTENDS Heap, TLAPS

Memories == [Unit -> Value \cup Header]

\* The list in memory m, with last block l and fresh addresses from s to x, is
\* a tiling with matching links: Tiled and Linked, of any heap an operator
\* computes.
Sound(m, l, s, x) ==
  LET B == BlocksOf(m)
  IN /\ m \in Memories /\ l \in Link
     /\ s \in Nat \ {0} /\ x \in 0 .. Limit
     /\ \A b \in B : s <= b /\ b + m[b].size < x
     /\ \A b, c \in B : b < c => b + m[b].size < c
     /\ \A u \in s .. x - 1 : \E b \in B : b <= u /\ u <= b + m[b].size
     /\ \A b \in B : m[b].next = Null => b = l /\ b + 1 + m[b].size = x
     /\ \A b \in B : m[b].next # Null =>
          m[b].next = b + 1 + m[b].size /\ m[b].next \in B /\ m[m[b].next].previous = b
     /\ \A b \in B : m[b].previous = Null => b = s
     /\ \A b \in B : m[b].previous # Null =>
          m[b].previous \in B /\ m[m[b].previous].next = b
     /\ B # {} => l \in B /\ m[l].next = Null
     /\ B = {} => l = Null /\ x = s

UsedIn(m) == {c \in BlocksOf(m) : ~m[c].free}

\* No two neighbours are free, except that one of them may be b.
SettledBut(m, b) ==
  \A c \in BlocksOf(m) :
    c # b /\ m[c].next # b /\ m[c].free /\ m[c].next # Null => ~m[m[c].next].free

Settled(m) ==
  \A c \in BlocksOf(m) : m[c].free /\ m[c].next # Null => ~m[m[c].next].free

LEMMA LimitNat == Limit \in Nat
BY PagesAssumption DEF Limit

LEMMA HeaderFields ==
  ASSUME NEW m \in Memories, NEW c \in BlocksOf(m)
  PROVE  /\ c \in Unit /\ m[c] \in Header
         /\ m[c].previous \in Link /\ m[c].next \in Link
         /\ m[c].size \in 0 .. Limit /\ m[c].free \in BOOLEAN
         /\ m[c] = Block(m[c].previous, m[c].next, m[c].size, m[c].free)
BY DEF BlocksOf, Header, Block

LEMMA BlockFields ==
  ASSUME NEW p, NEW n, NEW k, NEW f
  PROVE  /\ Block(p, n, k, f).previous = p /\ Block(p, n, k, f).next = n
         /\ Block(p, n, k, f).size = k /\ Block(p, n, k, f).free = f
         /\ p \in Link /\ n \in Link /\ k \in 0 .. Limit /\ f \in BOOLEAN
            => Block(p, n, k, f) \in Header
BY DEF Block, Header

LEMMA NotHeaders == Zero \notin Header /\ Junk \notin Header /\ Data \cap Header = {}
BY ValueAssumption DEF Value

\* Memory q is m after block b has swallowed block n.
Absorbed(m, q, b, n) ==
  /\ BlocksOf(q) = BlocksOf(m) \ {n}
  /\ q[b] = Block(m[b].previous, m[n].next, m[b].size + 1 + m[n].size, m[b].free)
  /\ \A c \in BlocksOf(m) \ {b, n} :
       q[c].size = m[c].size /\ q[c].free = m[c].free /\ q[c].next = m[c].next
  /\ \A u \in Unit \ BlocksOf(m) : q[u] = m[u]

\* Absorbing the block after b keeps the list sound.
LEMMA AbsorbNextEffect ==
  ASSUME NEW m, NEW l, NEW s, NEW x, Sound(m, l, s, x),
         NEW b \in BlocksOf(m), NEW n \in BlocksOf(m), m[b].next = n,
         NEW g, g = AbsorbNext([memory |-> m, last |-> l], b), NEW q, q = g.memory
  PROVE  Sound(q, g.last, s, x) /\ Absorbed(m, q, b, n)
<1> DEFINE after == m[n].next
           B == BlocksOf(m)
           C == BlocksOf(q)
           total == m[b].size + 1 + m[n].size
           grown == Block(m[b].previous, after, total, m[b].free)
           mid == [m EXCEPT ![b] = grown, ![n] = Junk]
           relinked == Block(b, m[after].next, m[after].size, m[after].free)
<1>1. m \in Memories /\ Limit \in Nat /\ l \in Link /\ B \subseteq Unit
  BY LimitNat DEF Sound, BlocksOf
<1>2. \A c \in B : /\ c \in Unit /\ m[c].previous \in Link /\ m[c].next \in Link
                   /\ m[c].size \in 0 .. Limit /\ m[c].free \in BOOLEAN
                   /\ c \in Nat /\ m[c].size \in Nat /\ m[c].next \in Nat
  BY <1>1, HeaderFields DEF Unit, Link, Null
<1>3. s \in Nat \ {0} /\ x \in 0 .. Limit /\ x \in Nat
  BY <1>1 DEF Sound
<1>4. \A c \in B : s <= c /\ c + m[c].size < x
  BY DEF Sound
<1>5. \A c, d \in B : c < d => c + m[c].size < d
  BY DEF Sound
<1>6. \A u \in s .. x - 1 : \E c \in B : c <= u /\ u <= c + m[c].size
  BY DEF Sound
<1>7. \A c \in B : m[c].next = Null => c = l /\ c + 1 + m[c].size = x
  BY DEF Sound
<1>8. \A c \in B : m[c].next # Null =>
          m[c].next = c + 1 + m[c].size /\ m[c].next \in B /\ m[m[c].next].previous = c
  BY DEF Sound
<1>9. \A c \in B : m[c].previous = Null => c = s
  BY DEF Sound
<1>10. \A c \in B : m[c].previous # Null =>
          m[c].previous \in B /\ m[m[c].previous].next = c
  BY DEF Sound
<1>11. l \in B /\ m[l].next = Null
  BY DEF Sound
<1>12. Null \notin B /\ Null = 0
  BY <1>3, <1>4 DEF Null
<1>13. q = LinkBack(mid, after, b) /\ g.last = IF after = Null THEN b ELSE l
  BY DEF AbsorbNext
<1> HIDE DEF B
<1>14. b \in B /\ n \in B /\ m[b].next = n
  BY DEF B
<1>15. n = b + 1 + m[b].size /\ n # b /\ m[n].previous = b
  BY <1>2, <1>8, <1>12, <1>14
<1>16. after # Null => after \in B /\ after = n + 1 + m[n].size /\ after # b /\ after # n
                       /\ m[after].previous = n
  BY <1>2, <1>8, <1>12, <1>14, <1>15
<1>17. total \in 0 .. Limit
  BY <1>1, <1>2, <1>3, <1>4, <1>14, <1>15
<1>18. grown \in Header
  BY <1>2, <1>14, <1>17, BlockFields
<1> HIDE DEF grown
<1>19. mid \in Memories /\ mid[b] = grown /\ mid[n] = Junk
      /\ \A u \in Unit \ {b, n} : mid[u] = m[u]
  BY <1>1, <1>2, <1>14, <1>15, <1>18 DEF Value, Memories
<1> HIDE DEF mid
<1>20. after # Null => relinked \in Header
  BY <1>2, <1>14, <1>16, BlockFields DEF Link
<1>21. q = IF after = Null THEN mid ELSE [mid EXCEPT ![after] = relinked]
  BY <1>13, <1>2, <1>16, <1>19 DEF LinkBack
<1> HIDE DEF relinked
<1>22. q \in Memories /\ g.last \in Link
  BY <1>1, <1>2, <1>13, <1>14, <1>16, <1>19, <1>20, <1>21 DEF Memories, Link
<1>23. /\ q[b] = grown /\ q[n] = Junk
       /\ \A u \in Unit \ {b, n} : after = Null \/ u # after => q[u] = m[u]
       /\ after # Null => q[after] = relinked
  BY <1>2, <1>14, <1>16, <1>19, <1>21 DEF Memories
<1>24. C = B \ {n}
  <2>1. \A u \in Unit : u \in C <=> q[u] \in Header
    BY DEF BlocksOf
  <2>2. \A u \in Unit : u \in B <=> m[u] \in Header
    BY DEF BlocksOf, B
  <2>3. C \subseteq Unit
    BY DEF BlocksOf
  <2> HIDE DEF C
  <2>4. /\ b \in B /\ b \in C /\ n \in B /\ n \notin C
        /\ after # Null => after \in B /\ after \in C /\ after # n
    BY <1>2, <1>14, <1>15, <1>16, <1>18, <1>20, <1>23, <2>1, NotHeaders
  <2>5. ASSUME NEW u \in Unit \ {b, n}, after = Null \/ u # after
        PROVE  u \in C <=> u \in B
    BY <1>23, <2>1, <2>2, <2>5
  <2> QED BY <1>1, <1>15, <2>3, <2>4, <2>5
<1>25. /\ q[b].size = total /\ q[b].next = after /\ q[b].previous = m[b].previous
       /\ after # Null => /\ q[after].previous = b /\ q[after].next = m[after].next
                          /\ q[after].size = m[after].size /\ q[after].free = m[after].free
  BY <1>23, BlockFields DEF grown, relinked
<1> HIDE DEF C
<1>26. \A c \in B \ {b, n} : /\ q[c].size = m[c].size /\ q[c].free = m[c].free
                             /\ q[c].next = m[c].next
                             /\ after = Null \/ c # after => q[c].previous = m[c].previous
  BY <1>2, <1>23, <1>25
<1>27. \A u \in Unit \ B : q[u] = m[u]
  BY <1>14, <1>16, <1>23
<1> HIDE DEF after, total
<1>t. total = m[b].size + 1 + m[n].size /\ after = m[n].next
  BY DEF total, after
<1>28. Sound(q, g.last, s, x)
  <2>2. \A c \in C : s <= c /\ c + q[c].size < x
    BY ONLY <1>2, <1>3, <1>4, <1>14, <1>15, <1>24, <1>25, <1>26, <1>t, SMTT(60)
  <2>3. \A c, d \in C : c < d => c + q[c].size < d
    BY ONLY <1>2, <1>5, <1>14, <1>15, <1>24, <1>25, <1>26, <1>t
  <2>4. \A u \in s .. x - 1 : \E c \in C : c <= u /\ u <= c + q[c].size
    <3> SUFFICES ASSUME NEW u \in s .. x - 1
                 PROVE \E c \in C : c <= u /\ u <= c + q[c].size
      OBVIOUS
    <3>1. PICK c \in B : c <= u /\ u <= c + m[c].size
      BY <1>6
    <3>2. CASE c \in {b, n}
      <4>1. b \in C /\ q[b].size = m[b].size + 1 + m[n].size
        BY <1>14, <1>15, <1>24, <1>25, <1>t
      <4>2. /\ u \in Int /\ b \in Nat /\ n \in Nat /\ n = b + 1 + m[b].size
            /\ m[b].size \in Nat /\ m[n].size \in Nat
        BY <1>2, <1>3, <1>14, <1>15
      <4>3. CASE c = b
        <5>1. b <= u /\ u <= b + m[b].size
          BY <3>1, <4>3
        <5>2. b <= u /\ u <= b + (m[b].size + 1 + m[n].size)
          BY <4>2, <5>1
        <5> QED BY <4>1, <5>2
      <4>4. CASE c = n
        <5>1. n <= u /\ u <= n + m[n].size
          BY <3>1, <4>4
        <5>2. b <= u /\ u <= b + (m[b].size + 1 + m[n].size)
          BY <4>2, <5>1
        <5> QED BY <4>1, <5>2
      <4> QED BY <3>2, <4>3, <4>4
    <3>3. CASE c \notin {b, n}
      BY <3>1, <3>3, <1>24, <1>26
    <3> QED BY <3>2, <3>3
  <2>a. after = Null => n = l /\ n + 1 + m[n].size = x
    BY <1>7, <1>14, <1>t
  <2>b. g.last = IF after = Null THEN b ELSE l
    BY <1>13
  <2>5. \A c \in C : q[c].next = Null => c = g.last /\ c + 1 + q[c].size = x
    <3> SUFFICES ASSUME NEW c \in C, q[c].next = Null
                 PROVE  c = g.last /\ c + 1 + q[c].size = x
      OBVIOUS
    <3>1. CASE c = b
      <4>1. after = Null /\ c = g.last
        BY <3>1, <1>25, <2>b
      <4>2. n + 1 + m[n].size = x /\ n = b + 1 + m[b].size
        BY <4>1, <2>a, <1>15
      <4>3. m[b].size \in Nat /\ m[n].size \in Nat /\ b \in Nat
        BY <1>2, <1>14
      <4>4. b + 1 + total = x
        BY <4>2, <4>3, <1>t
      <4> QED BY <3>1, <4>1, <4>4, <1>25
    <3>2. CASE c # b
      <4>1. c \in B \ {b, n} /\ m[c].next = Null /\ q[c].size = m[c].size
        BY <3>2, <1>24, <1>26
      <4>2. c = l /\ c + 1 + m[c].size = x
        BY <4>1, <1>7
      <4>3. after # Null
        BY <4>1, <4>2, <2>a
      <4> QED BY <4>1, <4>2, <4>3, <2>b
    <3> QED BY <3>1, <3>2
  <2>6. \A c \in C : q[c].next # Null =>
          q[c].next = c + 1 + q[c].size /\ q[c].next \in C /\ q[q[c].next].previous = c
    <3> SUFFICES ASSUME NEW c \in C, q[c].next # Null
                 PROVE q[c].next = c + 1 + q[c].size /\ q[c].next \in C
                       /\ q[q[c].next].previous = c
      OBVIOUS
    <3>1. CASE c = b
      <4>1. q[b].next = after /\ after # Null /\ q[b].size = total
        BY <3>1, <1>25
      <4>2. after \in B /\ after # n /\ after = n + 1 + m[n].size /\ q[after].previous = b
        BY <4>1, <1>16, <1>25
      <4>3. /\ b \in Nat /\ m[b].size \in Nat /\ m[n].size \in Nat
            /\ n = b + 1 + m[b].size /\ total = m[b].size + 1 + m[n].size
        BY <1>2, <1>14, <1>15, <1>t
      <4>4. after = b + 1 + total
        BY <4>2, <4>3
      <4> QED BY <3>1, <4>1, <4>2, <4>4, <1>24
    <3>2. CASE c # b
      <4>1. c \in B /\ c # n /\ q[c].next = m[c].next /\ q[c].size = m[c].size
        BY <3>2, <1>24, <1>26
      <4>2. m[c].next \in B /\ m[c].next = c + 1 + m[c].size /\ m[m[c].next].previous = c
        BY <4>1, <1>8
      <4>3. m[c].next # n
        BY <4>2, <1>15, <3>2
      <4>4. after # Null => m[c].next # after
        BY <4>1, <4>2, <1>16
      <4>5. q[m[c].next].previous = c
        <5>1. CASE m[c].next = b
          BY <5>1, <4>2, <1>25
        <5>2. CASE m[c].next # b
          BY <5>2, <4>2, <4>3, <4>4, <1>26
        <5> QED BY <5>1, <5>2
      <4> QED BY <4>1, <4>2, <4>3, <4>5, <1>24
    <3> QED BY <3>1, <3>2
  <2>7. \A c \in C : q[c].previous = Null => c = s
    BY <1>9, <1>12, <1>14, <1>24, <1>25, <1>26
  <2>8. \A c \in C : q[c].previous # Null =>
          q[c].previous \in C /\ q[q[c].previous].next = c
    <3> SUFFICES ASSUME NEW c \in C, q[c].previous # Null
                 PROVE q[c].previous \in C /\ q[q[c].previous].next = c
      OBVIOUS
    <3>1. CASE after # Null /\ c = after
      BY <3>1, <1>14, <1>15, <1>24, <1>25
    <3>2. CASE after = Null \/ c # after
      <4>1. c \in B /\ c # n /\ q[c].previous = m[c].previous
        BY <3>2, <1>14, <1>24, <1>25, <1>26
      <4>2. m[c].previous \in B /\ m[m[c].previous].next = c
        BY <4>1, <1>10
      <4>3. m[c].previous # n /\ m[c].previous # b
        BY <3>2, <4>1, <4>2, <1>12, <1>14, <1>t
      <4> QED BY <4>1, <4>2, <4>3, <1>24, <1>26
    <3> QED BY <3>1, <3>2
  <2>9. C # {} /\ g.last \in C /\ q[g.last].next = Null
    <3>1. CASE after = Null
      BY <3>1, <2>b, <1>14, <1>15, <1>24, <1>25
    <3>2. CASE after # Null
      <4>1. l \in B \ {b, n} /\ m[l].next = Null
        BY <3>2, <1>11, <1>12, <1>14, <1>15, <1>16, <1>t
      <4>2. l \in C /\ q[l].next = Null
        BY <4>1, <1>24, <1>26
      <4> QED BY <3>2, <4>2, <2>b
    <3> QED BY <3>1, <3>2
  <2> QED BY <1>22, <1>3, <2>2, <2>3, <2>4, <2>5, <2>6, <2>7, <2>8, <2>9 DEF Sound, C
<1> QED BY <1>23, <1>24, <1>26, <1>27, <1>28 DEF Absorbed, grown, total, after, C, B

\* Memory q is m after block b has been split before the new header n.
WasSplit(m, q, b, size, n) ==
  /\ n \in Unit /\ n \notin BlocksOf(m)
  /\ BlocksOf(q) = BlocksOf(m) \cup {n}
  /\ q[b] = Block(m[b].previous, n, size, m[b].free)
  /\ q[n] = Block(b, m[b].next, m[b].size - size - 1, TRUE)
  /\ \A c \in BlocksOf(m) \ {b} :
       q[c].size = m[c].size /\ q[c].free = m[c].free /\ q[c].next = m[c].next
  /\ \A u \in Unit \ (BlocksOf(m) \cup {n}) : q[u] = m[u]

\* Splitting block b after `size' units keeps the list sound.
LEMMA SplitEffect ==
  ASSUME NEW m, NEW l, NEW s, NEW x, Sound(m, l, s, x),
         NEW b \in BlocksOf(m), NEW size \in Nat, m[b].size >= size + 2,
         NEW n, n = b + 1 + size,
         NEW g, g = Split([memory |-> m, last |-> l], b, size), NEW q, q = g.memory
  PROVE  Sound(q, g.last, s, x) /\ WasSplit(m, q, b, size, n)
<1> DEFINE after == m[b].next
           B == BlocksOf(m)
           C == BlocksOf(q)
           rest == m[b].size - size - 1
           kept == Block(m[b].previous, n, size, m[b].free)
           tail == Block(b, after, rest, TRUE)
           mid == [m EXCEPT ![b] = kept, ![n] = tail]
           relinked == Block(n, m[after].next, m[after].size, m[after].free)
<1>1. m \in Memories /\ Limit \in Nat /\ l \in Link /\ B \subseteq Unit
  BY LimitNat DEF Sound, BlocksOf
<1>2. \A c \in B : /\ c \in Unit /\ m[c].previous \in Link /\ m[c].next \in Link
                   /\ m[c].size \in 0 .. Limit /\ m[c].free \in BOOLEAN
                   /\ c \in Nat /\ m[c].size \in Nat /\ m[c].next \in Nat
  BY <1>1, HeaderFields DEF Unit, Link, Null
<1>3. s \in Nat \ {0} /\ x \in 0 .. Limit /\ x \in Nat
  BY <1>1 DEF Sound
<1>4. \A c \in B : s <= c /\ c + m[c].size < x
  BY DEF Sound
<1>5. \A c, d \in B : c < d => c + m[c].size < d
  BY DEF Sound
<1>6. \A u \in s .. x - 1 : \E c \in B : c <= u /\ u <= c + m[c].size
  BY DEF Sound
<1>7. \A c \in B : m[c].next = Null => c = l /\ c + 1 + m[c].size = x
  BY DEF Sound
<1>8. \A c \in B : m[c].next # Null =>
          m[c].next = c + 1 + m[c].size /\ m[c].next \in B /\ m[m[c].next].previous = c
  BY DEF Sound
<1>9. \A c \in B : m[c].previous = Null => c = s
  BY DEF Sound
<1>10. \A c \in B : m[c].previous # Null =>
          m[c].previous \in B /\ m[m[c].previous].next = c
  BY DEF Sound
<1>11. l \in B /\ m[l].next = Null
  BY DEF Sound
<1>12. Null \notin B /\ Null = 0
  BY <1>3, <1>4 DEF Null
<1>13. q = LinkBack(mid, after, n) /\ g.last = IF after = Null THEN n ELSE l
  BY DEF Split, Payload
<1> HIDE DEF B
<1>14. b \in B /\ m[b].size >= size + 2
  BY DEF B
<1>15. n \in Unit /\ n \notin B /\ n # Null /\ n # b
  <2>1. n \in Nat /\ n > b /\ n < b + m[b].size
    BY <1>2, <1>14
  <2>2. n < Limit
    BY <2>1, <1>1, <1>2, <1>3, <1>4, <1>14
  <2>3. n \notin B
    BY <2>1, <1>2, <1>5, <1>14
  <2> QED BY <2>1, <2>2, <2>3, <1>1, <1>2, <1>12, <1>14 DEF Unit
<1>16. after # Null => after \in B /\ after = b + 1 + m[b].size /\ after # b /\ after # n
                       /\ m[after].previous = b
  BY <1>2, <1>8, <1>12, <1>14, <1>15
<1>17. rest \in 0 .. Limit /\ size \in 0 .. Limit
  BY <1>1, <1>2, <1>3, <1>4, <1>14
<1>18. kept \in Header /\ tail \in Header
  BY <1>2, <1>14, <1>15, <1>17, BlockFields DEF Link
<1> HIDE DEF kept, tail
<1>19. mid \in Memories /\ mid[b] = kept /\ mid[n] = tail
      /\ \A u \in Unit \ {b, n} : mid[u] = m[u]
  BY <1>1, <1>2, <1>14, <1>15, <1>18 DEF Value, Memories
<1> HIDE DEF mid
<1>20. after # Null => relinked \in Header
  BY <1>2, <1>15, <1>16, BlockFields DEF Link
<1>21. q = IF after = Null THEN mid ELSE [mid EXCEPT ![after] = relinked]
  BY <1>13, <1>2, <1>16, <1>19 DEF LinkBack
<1> HIDE DEF relinked
<1>22. q \in Memories /\ g.last \in Link
  BY <1>1, <1>2, <1>13, <1>15, <1>16, <1>19, <1>20, <1>21 DEF Memories, Link
<1>23. /\ q[b] = kept /\ q[n] = tail
       /\ \A u \in Unit \ {b, n} : after = Null \/ u # after => q[u] = m[u]
       /\ after # Null => q[after] = relinked
  BY <1>2, <1>14, <1>15, <1>16, <1>19, <1>21 DEF Memories
<1>24. C = B \cup {n}
  <2>1. \A u \in Unit : u \in C <=> q[u] \in Header
    BY DEF BlocksOf
  <2>2. \A u \in Unit : u \in B <=> m[u] \in Header
    BY DEF BlocksOf, B
  <2>3. C \subseteq Unit
    BY DEF BlocksOf
  <2> HIDE DEF C
  <2>4. b \in B /\ b \in C /\ n \in C /\ (after # Null => after \in B /\ after \in C)
    BY <1>2, <1>14, <1>15, <1>16, <1>18, <1>20, <1>23, <2>1
  <2>5. ASSUME NEW u \in Unit \ {b, n}, after = Null \/ u # after
        PROVE  u \in C <=> u \in B
    BY <1>23, <2>1, <2>2, <2>5
  <2> QED BY <1>1, <1>15, <2>3, <2>4, <2>5
<1>25. /\ q[b].size = size /\ q[b].next = n /\ q[b].previous = m[b].previous
       /\ q[n].size = rest /\ q[n].next = after /\ q[n].previous = b
       /\ after # Null => /\ q[after].previous = n /\ q[after].next = m[after].next
                          /\ q[after].size = m[after].size /\ q[after].free = m[after].free
  <2>1. q[b].size = size /\ q[b].next = n /\ q[b].previous = m[b].previous
    BY <1>23, BlockFields DEF kept
  <2>2. q[n].size = rest /\ q[n].next = after /\ q[n].previous = b
    BY <1>23 DEF tail, Block
  <2>3. after # Null => /\ q[after].previous = n /\ q[after].next = m[after].next
                        /\ q[after].size = m[after].size /\ q[after].free = m[after].free
    BY <1>23, BlockFields DEF relinked
  <2> QED BY <2>1, <2>2, <2>3
<1> HIDE DEF C
<1>26. \A c \in B \ {b} : /\ q[c].size = m[c].size /\ q[c].free = m[c].free
                          /\ q[c].next = m[c].next
                          /\ after = Null \/ c # after => q[c].previous = m[c].previous
  BY <1>2, <1>15, <1>23, <1>25
<1>27. \A u \in Unit \ (B \cup {n}) : q[u] = m[u]
  BY <1>14, <1>16, <1>23
<1> HIDE DEF after, rest
<1>t. rest = m[b].size - size - 1 /\ after = m[b].next
  BY DEF rest, after
<1>k. q[b] = Block(m[b].previous, n, size, m[b].free)
      /\ q[n] = Block(b, m[b].next, m[b].size - size - 1, TRUE)
  BY <1>23, <1>t DEF kept, tail
<1>28. Sound(q, g.last, s, x)
  <2>1. \A c \in B : c # b => (c < b => c + m[c].size < b) /\ (b < c => b + m[b].size < c)
    BY <1>5, <1>14
  <2>2. \A c \in C : s <= c /\ c + q[c].size < x
    BY <1>2, <1>3, <1>4, <1>14, <1>24, <1>25, <1>26, <1>t
  <2>3. \A c, d \in C : c < d => c + q[c].size < d
    BY <2>1, <1>2, <1>5, <1>14, <1>24, <1>25, <1>26, <1>t
  <2>4. \A u \in s .. x - 1 : \E c \in C : c <= u /\ u <= c + q[c].size
    <3> SUFFICES ASSUME NEW u \in s .. x - 1
                 PROVE \E c \in C : c <= u /\ u <= c + q[c].size
      OBVIOUS
    <3>1. PICK c \in B : c <= u /\ u <= c + m[c].size
      BY <1>6
    <3>2. CASE c = b
      BY <3>1, <3>2, <1>2, <1>3, <1>14, <1>24, <1>25, <1>t
    <3>3. CASE c # b
      BY <3>1, <3>3, <1>24, <1>26
    <3> QED BY <3>2, <3>3
  <2>5. \A c \in C : q[c].next = Null => c = g.last /\ c + 1 + q[c].size = x
    BY <1>2, <1>7, <1>13, <1>14, <1>15, <1>16, <1>24, <1>25, <1>26, <1>t
  <2>6. \A c \in C : q[c].next # Null =>
          q[c].next = c + 1 + q[c].size /\ q[c].next \in C /\ q[q[c].next].previous = c
    <3> SUFFICES ASSUME NEW c \in C, q[c].next # Null
                 PROVE q[c].next = c + 1 + q[c].size /\ q[c].next \in C
                       /\ q[q[c].next].previous = c
      OBVIOUS
    <3>1. CASE c = b
      BY <3>1, <1>2, <1>14, <1>15, <1>16, <1>24, <1>25, <1>t
    <3>2. CASE c = n
      BY <3>2, <1>2, <1>14, <1>15, <1>16, <1>24, <1>25, <1>t
    <3>3. CASE c # b /\ c # n
      <4>1. c \in B /\ q[c].next = m[c].next /\ q[c].size = m[c].size
        BY <3>3, <1>24, <1>26
      <4>2. m[c].next \in B /\ m[c].next = c + 1 + m[c].size /\ m[m[c].next].previous = c
        BY <4>1, <1>8
      <4>4. after # Null => m[c].next # after
        BY <3>3, <4>1, <4>2, <1>16
      <4>5. q[m[c].next].previous = c
        <5>1. CASE m[c].next = b
          BY <5>1, <4>2, <1>25
        <5>2. CASE m[c].next # b
          BY <5>2, <4>2, <4>4, <1>26
        <5> QED BY <5>1, <5>2
      <4> QED BY <4>1, <4>2, <4>5, <1>24
    <3> QED BY <3>1, <3>2, <3>3
  <2>7. \A c \in C : q[c].previous = Null => c = s
    BY <1>9, <1>12, <1>14, <1>15, <1>24, <1>25, <1>26
  <2>8. \A c \in C : q[c].previous # Null =>
          q[c].previous \in C /\ q[q[c].previous].next = c
    <3> SUFFICES ASSUME NEW c \in C, q[c].previous # Null
                 PROVE q[c].previous \in C /\ q[q[c].previous].next = c
      OBVIOUS
    <3>1. CASE c = n \/ (after # Null /\ c = after)
      BY <3>1, <1>14, <1>15, <1>24, <1>25
    <3>2. CASE c # n /\ (after = Null \/ c # after)
      <4>1. c \in B /\ q[c].previous = m[c].previous
        BY <3>2, <1>14, <1>24, <1>25, <1>26
      <4>2. m[c].previous \in B /\ m[m[c].previous].next = c
        BY <4>1, <3>2, <1>10
      <4>3. m[c].previous # b
        BY <3>2, <4>1, <4>2, <1>12, <1>14, <1>t
      <4> QED BY <4>1, <4>2, <4>3, <1>24, <1>26
    <3> QED BY <3>1, <3>2
  <2>9. C # {} /\ g.last \in C /\ q[g.last].next = Null
    BY <1>7, <1>11, <1>12, <1>13, <1>14, <1>15, <1>16, <1>24, <1>25, <1>26, <1>t
  <2> QED BY <1>22, <1>3, <2>2, <2>3, <2>4, <2>5, <2>6, <2>7, <2>8, <2>9 DEF Sound, C
<1> QED BY <1>15, <1>24, <1>26, <1>27, <1>28, <1>k DEF WasSplit, C, B

\* What the list says of two neighbours.
LEMMA Neighbours ==
  ASSUME NEW m, NEW l, NEW s, NEW x, Sound(m, l, s, x), NEW b \in BlocksOf(m)
  PROVE  /\ b # Null
         /\ m[b].next # Null => /\ m[b].next \in BlocksOf(m) /\ m[b].next # b
                                /\ m[m[b].next].previous = b /\ m[m[b].next].next # b
         /\ m[b].previous # Null => /\ m[b].previous \in BlocksOf(m) /\ m[b].previous # b
                                    /\ m[m[b].previous].next = b
<1>1. \A c \in BlocksOf(m) : c \in Nat /\ m[c].size \in Nat /\ c > 0
  <2>1. m \in Memories /\ Limit \in Nat /\ s \in Nat \ {0} /\ \A c \in BlocksOf(m) : s <= c
    BY LimitNat DEF Sound
  <2>2. \A c \in BlocksOf(m) : c \in Nat /\ m[c].size \in Nat
    BY <2>1, HeaderFields DEF Unit
  <2> QED BY <2>1, <2>2
<1>2. \A c \in BlocksOf(m) : m[c].next # Null =>
          m[c].next = c + 1 + m[c].size /\ m[c].next \in BlocksOf(m)
          /\ m[m[c].next].previous = c
  BY DEF Sound
<1>3. \A c \in BlocksOf(m) : m[c].previous # Null =>
          m[c].previous \in BlocksOf(m) /\ m[m[c].previous].next = c
  BY DEF Sound
<1>4. Null = 0
  BY DEF Null
<1>5. \A c \in BlocksOf(m) : m[c].next # Null => m[c].next > c
  BY <1>1, <1>2
<1>6. m[b].next # Null => m[m[b].next].next # b
  BY <1>1, <1>2, <1>4, <1>5
<1>7. m[b].previous # Null => m[b].previous # b
  BY <1>1, <1>3, <1>4, <1>5
<1> QED BY <1>1, <1>2, <1>3, <1>4, <1>5, <1>6, <1>7

\* Memory q has the allocations of m, with their sizes, and has changed no unit
\* that was not a header.
SameUse(m, q) ==
  /\ UsedIn(q) = UsedIn(m)
  /\ \A c \in UsedIn(m) : q[c].size = m[c].size
  /\ \A u \in Unit \ BlocksOf(m) : q[u] = m[u]

\* Merging a free block with its neighbours leaves no two free neighbours.
LEMMA MergeEffect ==
  ASSUME NEW m, NEW l, NEW s, NEW x, Sound(m, l, s, x),
         NEW b \in BlocksOf(m), m[b].free, SettledBut(m, b),
         NEW g, g = Merge([memory |-> m, last |-> l], b), NEW q, q = g.memory
  PROVE  Sound(q, g.last, s, x) /\ Settled(q) /\ SameUse(m, q)
<1> DEFINE h == [memory |-> m, last |-> l]
           n == m[b].next
           first1 == IF FreeBlock(m, n) THEN AbsorbNext(h, b) ELSE h
<1>1. PICK f : f = first1
  OBVIOUS
<1>2. PICK r : r = f.memory
  OBVIOUS
<1>3. f = [memory |-> r, last |-> f.last]
  BY <1>1, <1>2 DEF AbsorbNext
<1>4. /\ Sound(r, f.last, s, x) /\ b \in BlocksOf(r) /\ r[b].free
      /\ BlocksOf(r) \subseteq BlocksOf(m)
      /\ UsedIn(r) = UsedIn(m)
      /\ \A c \in UsedIn(m) : r[c].size = m[c].size
      /\ \A u \in Unit \ BlocksOf(m) : r[u] = m[u]
      /\ SettledBut(r, b)
      /\ r[b].next # Null => ~r[r[b].next].free
  <2>1. CASE FreeBlock(m, n)
    <3>1. n \in BlocksOf(m) /\ n # b /\ m[n].free /\ f = AbsorbNext(h, b)
          /\ m[n].next # b /\ n # Null
      BY <2>1, <1>1, Neighbours DEF FreeBlock
    <3>2. Sound(r, f.last, s, x) /\ Absorbed(m, r, b, n)
      <4>1. n \in BlocksOf(m) /\ m[b].next = n /\ r = f.memory
            /\ f = AbsorbNext([memory |-> m, last |-> l], b)
        BY <3>1, <1>2
      <4> HIDE DEF n
      <4> QED BY <4>1, AbsorbNextEffect
    <3>3. r[b].free = m[b].free /\ r[b].next = m[n].next
      BY <3>2 DEF Absorbed, Block
    <3>4. m[n].next # Null => ~m[m[n].next].free /\ m[n].next \in BlocksOf(m) /\ m[n].next # n
      BY <3>1, Neighbours DEF SettledBut
    <3>5. SettledBut(r, b)
      <4>1. \A c \in BlocksOf(r) : c # b /\ r[c].next # b /\ r[c].next # Null
                                     => r[c].next \in BlocksOf(r)
        BY <3>2, Neighbours DEF Absorbed
      <4> QED BY <3>2, <4>1 DEF SettledBut, Absorbed
    <3>6. UsedIn(r) = UsedIn(m)
      BY <3>1, <3>2, <3>3 DEF UsedIn, Absorbed
    <3>7. \A c \in UsedIn(m) : r[c].size = m[c].size
      BY <3>1, <3>2 DEF UsedIn, Absorbed
    <3> QED BY <3>1, <3>2, <3>3, <3>4, <3>5, <3>6, <3>7 DEF Absorbed
  <2>2. CASE ~FreeBlock(m, n)
    BY <2>2, <1>1, <1>2 DEF FreeBlock
  <2> QED BY <2>1, <2>2
<1>5. PICK p : p = r[b].previous
  OBVIOUS
<1>6. g = IF FreeBlock(r, p) THEN AbsorbNext(f, p) ELSE f
  BY <1>1, <1>2, <1>5 DEF Merge
<1>7. CASE FreeBlock(r, p)
  <2>1. p \in BlocksOf(r) /\ p # b /\ r[p].next = b /\ r[p].free /\ p # Null
    BY <1>4, <1>5, <1>7, Neighbours DEF FreeBlock
  <2>2. Sound(q, g.last, s, x) /\ Absorbed(r, q, p, b)
    <3>1. g = AbsorbNext([memory |-> r, last |-> f.last], p)
      BY <1>3, <1>6, <1>7
    <3>2. Sound(r, f.last, s, x) /\ b \in BlocksOf(r)
      BY <1>4
    <3>3. p \in BlocksOf(r) /\ r[p].next = b
      BY <2>1
    <3> QED BY <3>1, <3>2, <3>3, AbsorbNextEffect
  <2>3. q[p].free = r[p].free /\ q[p].next = r[b].next
    BY <2>2 DEF Absorbed, Block
  <2>4. UsedIn(q) = UsedIn(r)
    BY <1>4, <2>1, <2>2, <2>3 DEF UsedIn, Absorbed
  <2>5. \A c \in UsedIn(r) : q[c].size = r[c].size
    BY <1>4, <2>1, <2>2 DEF UsedIn, Absorbed
  <2>6. Settled(q)
    <3> SUFFICES ASSUME NEW c \in BlocksOf(q), q[c].free, q[c].next # Null
                 PROVE ~q[q[c].next].free
      BY DEF Settled
    <3>1. r[b].next # Null => r[b].next \in BlocksOf(r) /\ r[b].next # b /\ r[b].next # p
      BY <1>4, <1>5, <2>1, Neighbours
    <3>2. CASE c = p
      BY <3>1, <3>2, <1>4, <2>1, <2>2, <2>3 DEF Absorbed
    <3>3. CASE c # p
      <4>1. c \in BlocksOf(r) /\ c # b /\ r[c].free /\ q[c].next = r[c].next
        BY <3>3, <2>2 DEF Absorbed
      <4>2. r[c].next # b
        BY <4>1, <3>3, <1>4, <1>5, Neighbours
      <4>3. ~r[r[c].next].free /\ r[c].next \in BlocksOf(r) /\ r[c].next # p
        BY <4>1, <4>2, <1>4, <2>1, Neighbours DEF SettledBut
      <4> QED BY <4>1, <4>2, <4>3, <2>2 DEF Absorbed
    <3> QED BY <3>2, <3>3
  <2>7. \A u \in Unit \ BlocksOf(m) : q[u] = m[u]
    BY <1>4, <2>2 DEF Absorbed
  <2> QED BY <1>4, <2>2, <2>4, <2>5, <2>6, <2>7 DEF SameUse
<1>8. CASE ~FreeBlock(r, p)
  <2>1. g = f /\ q = r
    BY <1>2, <1>6, <1>8
  <2>2. Settled(r)
    <3> SUFFICES ASSUME NEW c \in BlocksOf(r), r[c].free, r[c].next # Null
                 PROVE ~r[r[c].next].free
      BY DEF Settled
    <3>1. CASE c = b
      BY <3>1, <1>4
    <3>2. CASE c # b /\ r[c].next = b
      BY <3>2, <1>4, <1>5, <1>8, Neighbours DEF FreeBlock
    <3>3. CASE c # b /\ r[c].next # b
      BY <3>3, <1>4 DEF SettledBut
    <3> QED BY <3>1, <3>2, <3>3
  <2> QED BY <1>4, <2>1, <2>2 DEF SameUse
<1> QED BY <1>7, <1>8

\* Memory q is m after vircon__heap_reduce of block b.
WasReduced(m, q, b, size) ==
  /\ UsedIn(q) = UsedIn(m)
  /\ \A c \in UsedIn(m) \ {b} : q[c].size = m[c].size
  /\ b \in UsedIn(m) => q[b].size = IF m[b].size < size + 2 THEN m[b].size ELSE size
  /\ \A u \in Unit \ BlocksOf(m) : u # b + 1 + size => q[u] = m[u]
  /\ m[b].size < size + 2 => q = m

LEMMA ReduceEffect ==
  ASSUME NEW m, NEW l, NEW s, NEW x, Sound(m, l, s, x), Settled(m),
         NEW b \in BlocksOf(m), NEW size \in Nat,
         NEW g, g = Reduce([memory |-> m, last |-> l], b, size), NEW q, q = g.memory
  PROVE  Sound(q, g.last, s, x) /\ Settled(q) /\ WasReduced(m, q, b, size)
<1>1. CASE m[b].size < size + 2
  <2>1. q = m /\ g.last = l
    BY <1>1 DEF Reduce
  <2> QED BY <1>1, <2>1 DEF WasReduced
<1>2. CASE ~(m[b].size < size + 2)
  <2>1. m[b].size \in Nat /\ m[b].size >= size + 2 /\ m \in Memories /\ b \in Nat
    <3>1. m \in Memories /\ Limit \in Nat
      BY LimitNat DEF Sound
    <3> QED BY <1>2, <3>1, HeaderFields DEF Unit
  <2>2. PICK n : n = b + 1 + size
    OBVIOUS
  <2>3. PICK f : f = Split([memory |-> m, last |-> l], b, size)
    OBVIOUS
  <2>4. PICK r : r = f.memory
    OBVIOUS
  <2>5. Sound(r, f.last, s, x) /\ WasSplit(m, r, b, size, n)
    BY <2>1, <2>2, <2>3, <2>4, SplitEffect
  <2>6. f = [memory |-> r, last |-> f.last]
    BY <2>3, <2>4 DEF Split
  <2>7. g = Merge([memory |-> r, last |-> f.last], n)
    BY <1>2, <2>2, <2>3, <2>6 DEF Reduce, Payload
  <2>8. n \in BlocksOf(r) /\ r[n].free /\ r[b].next = n /\ r[b].free = m[b].free
        /\ r[b].size = size /\ n # b
    BY <2>5 DEF WasSplit, Block
  <2>9. SettledBut(r, n)
    <3> SUFFICES ASSUME NEW c \in BlocksOf(r), c # n, r[c].next # n, r[c].free, r[c].next # Null
                 PROVE ~r[r[c].next].free
      BY DEF SettledBut
    <3>1. c # b
      BY <2>8
    <3>2. c \in BlocksOf(m) /\ m[c].free /\ m[c].next = r[c].next
      BY <3>1, <2>5 DEF WasSplit
    <3>3. m[c].next \in BlocksOf(m) /\ ~m[m[c].next].free
      BY <3>2, Neighbours DEF Settled
    <3> QED BY <3>2, <3>3, <2>5, <2>8 DEF WasSplit
  <2>10. Sound(q, g.last, s, x) /\ Settled(q) /\ SameUse(r, q)
    BY <2>5, <2>7, <2>8, <2>9, MergeEffect
  <2>11. UsedIn(r) = UsedIn(m) /\ \A c \in UsedIn(m) \ {b} : r[c].size = m[c].size
    BY <2>5, <2>8 DEF WasSplit, UsedIn
  <2>12. \A u \in Unit \ BlocksOf(m) : u # n => q[u] = m[u]
    BY <2>5, <2>10 DEF WasSplit, SameUse
  <2>13. b \in UsedIn(m) => q[b].size = size
    BY <2>8, <2>10, <2>11 DEF SameUse
  <2>14. \A c \in UsedIn(m) \ {b} : q[c].size = m[c].size
    BY <2>10, <2>11 DEF SameUse
  <2>15. UsedIn(q) = UsedIn(m)
    BY <2>10, <2>11 DEF SameUse
  <2> QED BY <1>2, <2>2, <2>10, <2>12, <2>13, <2>14, <2>15 DEF WasReduced
<1> QED BY <1>1, <1>2

\* Marking a block changes nothing but its mark.
LEMMA MarkEffect ==
  ASSUME NEW m, NEW l, NEW s, NEW x, Sound(m, l, s, x), NEW b \in BlocksOf(m),
         NEW q \in Memories, q[b] \in Header, q[b].previous = m[b].previous,
         q[b].next = m[b].next, q[b].size = m[b].size,
         \A u \in Unit \ {b} : q[u] = m[u]
  PROVE  Sound(q, l, s, x) /\ BlocksOf(q) = BlocksOf(m)
<1>1. b \in Unit /\ m[b] \in Header
  BY DEF BlocksOf
<1>2. BlocksOf(q) = BlocksOf(m)
  BY <1>1 DEF BlocksOf
<1>3. \A c \in BlocksOf(m) : /\ q[c].previous = m[c].previous /\ q[c].next = m[c].next
                             /\ q[c].size = m[c].size
  BY DEF BlocksOf
<1>4. /\ l \in Link /\ s \in Nat \ {0} /\ x \in 0 .. Limit
      /\ \A c \in BlocksOf(m) : s <= c /\ c + m[c].size < x
      /\ \A c, d \in BlocksOf(m) : c < d => c + m[c].size < d
      /\ \A u \in s .. x - 1 : \E c \in BlocksOf(m) : c <= u /\ u <= c + m[c].size
  BY DEF Sound
<1>5. /\ \A c \in BlocksOf(m) : m[c].next = Null => c = l /\ c + 1 + m[c].size = x
      /\ \A c \in BlocksOf(m) : m[c].next # Null =>
             m[c].next = c + 1 + m[c].size /\ m[c].next \in BlocksOf(m)
             /\ m[m[c].next].previous = c
  BY DEF Sound
<1>6. /\ \A c \in BlocksOf(m) : m[c].previous = Null => c = s
      /\ \A c \in BlocksOf(m) : m[c].previous # Null =>
             m[c].previous \in BlocksOf(m) /\ m[m[c].previous].next = c
      /\ l \in BlocksOf(m) /\ m[l].next = Null
  BY DEF Sound
<1>7. Sound(q, l, s, x)
  <2> DEFINE C == BlocksOf(q)
  <2>0. C = BlocksOf(m)
    BY <1>2
  <2> HIDE DEF C
  <2>1. /\ \A c \in C : s <= c /\ c + q[c].size < x
        /\ \A c, d \in C : c < d => c + q[c].size < d
        /\ \A u \in s .. x - 1 : \E c \in C : c <= u /\ u <= c + q[c].size
    BY <1>3, <1>4, <2>0
  <2>2. /\ \A c \in C : q[c].next = Null => c = l /\ c + 1 + q[c].size = x
        /\ \A c \in C : q[c].next # Null =>
             q[c].next = c + 1 + q[c].size /\ q[c].next \in C /\ q[q[c].next].previous = c
    BY <1>3, <1>5, <2>0
  <2>3. /\ \A c \in C : q[c].previous = Null => c = s
        /\ \A c \in C : q[c].previous # Null =>
             q[c].previous \in C /\ q[q[c].previous].next = c
        /\ l \in C /\ q[l].next = Null
    BY <1>3, <1>6, <2>0
  <2> QED BY <1>4, <2>1, <2>2, <2>3 DEF Sound, C
<1> QED BY <1>2, <1>7

-----------------------------------------------------------------------------
(* What the program holds.                                                 *)

\* The units below s and the allocations other than those in `but' keep their
\* contents.
Keeps(m, q, s, but) ==
  /\ \A u \in Unit : u < s => q[u] = m[u]
  /\ \A c \in UsedIn(m) \ but : \A u \in c + 1 .. c + m[c].size : q[u] = m[u]

\* The units of a block belong to it alone and hold no header.
LEMMA Payloads ==
  ASSUME NEW m, NEW l, NEW s, NEW x, Sound(m, l, s, x), NEW c \in BlocksOf(m)
  PROVE  /\ c \in Nat /\ m[c].size \in Nat /\ s \in Nat /\ x \in Nat /\ s <= c
         /\ c + m[c].size < x
         /\ \A u \in c .. c + m[c].size :
              /\ u \in Unit /\ u >= s
              /\ u # c => u \notin BlocksOf(m)
              /\ \A d \in BlocksOf(m) : u \in d .. d + m[d].size => d = c
<1>1. /\ s \in Nat \ {0} /\ x \in 0 .. Limit /\ m \in Memories /\ Limit \in Nat
      /\ \A d \in BlocksOf(m) : s <= d /\ d + m[d].size < x
      /\ \A d, e \in BlocksOf(m) : d < e => d + m[d].size < e
  BY LimitNat DEF Sound
<1>2. \A d \in BlocksOf(m) : d \in Nat /\ m[d].size \in Nat
  BY <1>1, HeaderFields DEF Unit
<1>3. c \in Nat /\ m[c].size \in Nat /\ s <= c /\ c + m[c].size < x
  BY <1>1, <1>2
<1>4. ASSUME NEW u \in c .. c + m[c].size
      PROVE  /\ u \in Unit /\ u >= s
             /\ u # c => u \notin BlocksOf(m)
             /\ \A d \in BlocksOf(m) : u \in d .. d + m[d].size => d = c
  <2>1. u \in Nat /\ u >= c /\ u <= c + m[c].size
    BY <1>3, <1>4
  <2>2. u \in Unit /\ u >= s
    BY <2>1, <1>1, <1>3 DEF Unit
  <2>3. u # c => u \notin BlocksOf(m)
    BY <2>1, <1>1, <1>2
  <2>4. ASSUME NEW d \in BlocksOf(m), u \in d .. d + m[d].size
        PROVE  d = c
    BY <2>1, <2>4, <1>1, <1>2
  <2> QED BY <2>2, <2>3, <2>4
<1> QED BY <1>1, <1>3, <1>4

LEMMA BelowTheHeap ==
  ASSUME NEW m, NEW l, NEW s, NEW x, Sound(m, l, s, x), NEW u \in Unit, u < s
  PROVE  u \notin BlocksOf(m)
<1>1. s \in Nat \ {0} /\ Limit \in Nat /\ \A d \in BlocksOf(m) : s <= d
  BY LimitNat DEF Sound
<1> QED BY <1>1 DEF Unit, BlocksOf

LEMMA SameUseKeeps ==
  ASSUME NEW m, NEW l, NEW s, NEW x, Sound(m, l, s, x), NEW q, SameUse(m, q)
  PROVE  Keeps(m, q, s, {})
<1>1. \A u \in Unit : u < s => q[u] = m[u]
  BY BelowTheHeap DEF SameUse
<1>2. ASSUME NEW c \in UsedIn(m), NEW u \in c + 1 .. c + m[c].size
      PROVE  q[u] = m[u]
  <2>1. c \in BlocksOf(m)
    BY DEF UsedIn
  <2>2. c \in Nat /\ m[c].size \in Nat
    BY <2>1, Payloads
  <2>3. u \in c .. c + m[c].size /\ u # c
    BY <1>2, <2>2
  <2> QED BY <2>1, <2>3, Payloads DEF SameUse
<1> QED BY <1>1, <1>2 DEF Keeps

LEMMA WasReducedKeeps ==
  ASSUME NEW m, NEW l, NEW s, NEW x, Sound(m, l, s, x),
         NEW b \in BlocksOf(m), NEW size \in Nat, size <= m[b].size,
         NEW q, WasReduced(m, q, b, size)
  PROVE  /\ Keeps(m, q, s, {b})
         /\ \A u \in b + 1 .. b + size : q[u] = m[u]
<1>1. b \in Nat /\ m[b].size \in Nat /\ s \in Nat /\ s <= b
  BY Payloads
<1>2. CASE m[b].size < size + 2
  BY <1>2 DEF WasReduced, Keeps
<1>3. CASE ~(m[b].size < size + 2)
  <2>1. b + 1 + size \in b .. b + m[b].size
    BY <1>1, <1>3
  <2>2. \A u \in Unit : u < s => q[u] = m[u]
    BY <1>1, BelowTheHeap DEF WasReduced, Unit
  <2>3. ASSUME NEW c \in UsedIn(m) \ {b}, NEW u \in c + 1 .. c + m[c].size
        PROVE  q[u] = m[u]
    <3>1. c \in BlocksOf(m) /\ c # b
      BY DEF UsedIn
    <3>2. c \in Nat /\ m[c].size \in Nat
      BY <3>1, Payloads
    <3>3. u \in c .. c + m[c].size /\ u # c
      BY <2>3, <3>2
    <3>4. u \in Unit /\ u \notin BlocksOf(m)
      BY <3>1, <3>3, Payloads
    <3>5. u # b + 1 + size
      BY <2>1, <3>1, <3>3, Payloads
    <3> QED BY <3>4, <3>5 DEF WasReduced
  <2>4. ASSUME NEW u \in b + 1 .. b + size
        PROVE  q[u] = m[u]
    <3>1. u \in b .. b + m[b].size /\ u # b /\ u # b + 1 + size
      BY <1>1, <2>4
    <3>2. u \in Unit /\ u \notin BlocksOf(m)
      BY <3>1, Payloads
    <3> QED BY <3>1, <3>2 DEF WasReduced
  <2> QED BY <2>2, <2>3, <2>4 DEF Keeps
<1> QED BY <1>2, <1>3

\* A change of contents that leaves the headers alone.
LEMMA ContentsEffect ==
  ASSUME NEW m, NEW l, NEW s, NEW x, Sound(m, l, s, x), NEW q \in Memories,
         \A c \in BlocksOf(m) : q[c] = m[c],
         \A u \in Unit \ BlocksOf(m) : q[u] \notin Header
  PROVE  /\ Sound(q, l, s, x) /\ BlocksOf(q) = BlocksOf(m) /\ UsedIn(q) = UsedIn(m)
         /\ Settled(m) => Settled(q)
<1>1. BlocksOf(q) = BlocksOf(m)
  BY DEF BlocksOf
<1>2. \A c \in BlocksOf(m) : m[c].next # Null => m[c].next \in BlocksOf(m)
  BY Neighbours
<1>3. \A c \in BlocksOf(m) : m[c].previous # Null => m[c].previous \in BlocksOf(m)
  BY Neighbours
<1>4. Sound(q, l, s, x)
  BY <1>1, <1>2, <1>3 DEF Sound
<1>5. Settled(m) => Settled(q)
  BY <1>1, <1>2 DEF Settled
<1>6. UsedIn(q) = UsedIn(m)
  BY <1>1 DEF UsedIn
<1> QED BY <1>1, <1>4, <1>5, <1>6

-----------------------------------------------------------------------------
(* The inductive invariant.                                                *)

StaticEnd == InitialPages * PageUnits

\* A heap that is in use: its list is sound, no two neighbours are free, it
\* lies above the static data, inside its range and, once it has a block,
\* inside the p pages of memory.
Running(m, l, f, s, e, x, p) ==
  /\ Sound(m, l, s, x) /\ Settled(m)
  /\ StaticEnd <= s /\ x <= e /\ e \in 0 .. Limit
  /\ p \in InitialPages .. MaxPages
  /\ BlocksOf(m) # {} => x <= p * PageUnits /\ f = s
  /\ BlocksOf(m) = {} => f = Null

Unused ==
  /\ initialized = FALSE
  /\ Blocks = {} /\ first = Null /\ last = Null /\ next = Null
  /\ start \in Starts /\ end \in Ends
  /\ pages \in InitialPages .. MaxPages /\ memory \in Memories

InService ==
  /\ initialized = TRUE
  /\ Running(memory, last, first, start, end, next, pages)

Inv == Unused \/ InService

LEMMA PageArithmetic ==
  ASSUME NEW p \in Nat, NEW r \in Nat, r >= p
  PROVE  p * PageUnits <= r * PageUnits /\ p * PageUnits \in Nat
BY PagesAssumption

LEMMA StaticEndFacts == StaticEnd \in Nat \ {0} /\ Static = 0 .. StaticEnd - 1
<1>1. StaticEnd \in Nat /\ StaticEnd > 0
  BY PagesAssumption DEF StaticEnd
<1> QED BY <1>1 DEF Static, StaticEnd

LEMMA MemoryEndFacts ==
  ASSUME Inv
  PROVE  /\ pages \in InitialPages .. MaxPages /\ pages \in Nat
         /\ MemoryEnd \in Nat /\ StaticEnd <= MemoryEnd
<1>1. pages \in InitialPages .. MaxPages
  BY DEF Inv, Unused, InService, Running
<1>2. pages \in Nat /\ pages >= InitialPages /\ InitialPages \in Nat
  BY <1>1, PagesAssumption
<1> QED BY <1>1, <1>2, PageArithmetic DEF MemoryEnd, StaticEnd

\* What malloc finds once the heap is initialized, just now or earlier.
Ready == Running(memory, last, first, StartAddress, EndAddress, NextAddress, pages)

LEMMA ReadyFromInv ==
  ASSUME Inv, initialized \/ CanInitialize
  PROVE  Ready
<1>1. CASE initialized
  BY <1>1 DEF Inv, Unused, InService, Ready, StartAddress, NextAddress, EndAddress
<1>2. CASE ~initialized
  <2>1. /\ StartAddress >= MemoryEnd /\ StartAddress < EndAddress /\ EndAddress <= Limit
        /\ NextAddress = StartAddress
    BY <1>2 DEF CanInitialize, NextAddress
  <2>2. /\ Limit \in Nat /\ MemoryEnd \in Nat /\ StaticEnd <= MemoryEnd
        /\ StaticEnd \in Nat \ {0} /\ pages \in InitialPages .. MaxPages
    BY LimitNat, MemoryEndFacts, StaticEndFacts
  <2>3. Unused
    BY <1>2 DEF Inv, InService
  <2>4. StartAddress \in Nat /\ EndAddress \in Nat
    BY <2>2, <2>3, ConfigurationAssumption DEF StartAddress, EndAddress, Unused
  <2>5. Sound(memory, last, StartAddress, NextAddress)
    BY <2>1, <2>2, <2>3, <2>4 DEF Sound, Blocks, Link, Unused
  <2>6. Settled(memory)
    BY <2>3 DEF Settled, Blocks, Unused
  <2> QED BY <2>1, <2>2, <2>3, <2>4, <2>5, <2>6 DEF Ready, Running, Unused, Blocks
<1> QED BY <1>1, <1>2

-----------------------------------------------------------------------------
(* Allocation.                                                             *)

\* Memory q is m with a new allocation at block k, which the program may use.
Granted(m, q, k, size, s) ==
  /\ k \in Nat /\ k \notin UsedIn(m)
  /\ UsedIn(q) = UsedIn(m) \cup {k}
  /\ \A c \in UsedIn(m) : q[c].size = m[c].size
  /\ q[k].size >= size
  /\ Keeps(m, q, s, {})

\* Memory q is m with a block in use appended at x.
WasAppended(m, q, l, x, size) ==
  LET fresh == Block(l, Null, size, FALSE)
      linked == Block(m[l].previous, x, m[l].size, m[l].free)
  IN /\ fresh \in Header /\ (l # Null => linked \in Header) => q \in Memories
     /\ q[x] = fresh
     /\ l # Null => q[l] = linked
     /\ \A u \in Unit \ {x} : u # l \/ l = Null => q[u] = m[u]

LEMMA AppendEffect ==
  ASSUME NEW m, NEW l, NEW s, NEW x, Sound(m, l, s, x), Settled(m),
         NEW size \in Nat, NEW y, y = x + 1 + size, y <= Limit,
         NEW q, WasAppended(m, q, l, x, size)
  PROVE  Sound(q, x, s, y) /\ Settled(q) /\ Granted(m, q, x, size, s) /\ BlocksOf(q) # {}
<1> DEFINE B == BlocksOf(m)
           C == BlocksOf(q)
           fresh == Block(l, Null, size, FALSE)
           linked == Block(m[l].previous, x, m[l].size, m[l].free)
<1>1. /\ m \in Memories /\ l \in Link /\ s \in Nat \ {0} /\ x \in 0 .. Limit
      /\ Limit \in Nat /\ x \in Nat /\ size \in 0 .. Limit
  BY LimitNat DEF Sound
<1>2. \A c \in B : /\ c \in Nat /\ m[c].size \in Nat /\ s <= c /\ c + m[c].size < x /\ c # x
                   /\ c \in Unit /\ c # Null
  <2>1. \A c \in B : c \in Nat /\ m[c].size \in Nat /\ s <= c /\ c + m[c].size < x
    BY Payloads
  <2> QED BY <1>1, <2>1 DEF BlocksOf, Null
<1>a. \A c, d \in B : c < d => c + m[c].size < d
  BY DEF Sound
<1>b. \A u \in s .. x - 1 : \E c \in B : c <= u /\ u <= c + m[c].size
  BY DEF Sound
<1>c. \A c \in B : m[c].next = Null => c = l /\ c + 1 + m[c].size = x
  BY DEF Sound
<1>d. \A c \in B : m[c].next # Null =>
          m[c].next = c + 1 + m[c].size /\ m[c].next \in B /\ m[m[c].next].previous = c
  BY DEF Sound
<1>e. \A c \in B : m[c].previous = Null => c = s
  BY DEF Sound
<1>f. \A c \in B : m[c].previous # Null =>
          m[c].previous \in B /\ m[m[c].previous].next = c
  BY DEF Sound
<1>g. B # {} => l \in B /\ m[l].next = Null
  BY DEF Sound
<1>h. B = {} => l = Null /\ x = s
  BY DEF Sound
<1>i. \A c \in B : m[c].free /\ m[c].next # Null => ~m[m[c].next].free
  BY DEF Settled
<1>3. x \in Unit /\ x # Null /\ x >= s /\ y \in Nat /\ x < y
  <2>1. x >= s
    <3>1. CASE B = {}
      BY <3>1, <1>1, <1>h
    <3>2. CASE B # {}
      BY <3>2, <1>1, <1>2
    <3> QED BY <3>1, <3>2
  <2> QED BY <1>1, <2>1 DEF Unit, Null
<1>4. l # Null => l \in B /\ m[l].next = Null /\ l # x
  BY <1>2, <1>g, <1>h
<1>5. fresh \in Header
  BY <1>1, BlockFields DEF Link
<1>6. l # Null => linked \in Header
  BY <1>1, <1>3, <1>4, HeaderFields, BlockFields DEF Link
<1>8. /\ fresh.next = Null /\ fresh.size = size /\ fresh.previous = l /\ fresh.free = FALSE
      /\ linked.next = x /\ linked.size = m[l].size /\ linked.previous = m[l].previous
      /\ linked.free = m[l].free
  BY DEF Block
<1> HIDE DEF fresh, linked
<1>9. /\ q \in Memories /\ q[x] = fresh
      /\ l # Null => q[l] = linked
      /\ \A u \in Unit \ {x} : u # l \/ l = Null => q[u] = m[u]
  BY <1>5, <1>6 DEF WasAppended, fresh, linked
<1>10. C = B \cup {x}
  BY <1>3, <1>4, <1>5, <1>6, <1>9 DEF BlocksOf
<1> HIDE DEF B, C
<1>11. \A c \in B : /\ q[c].size = m[c].size /\ q[c].free = m[c].free
                    /\ q[c].previous = m[c].previous
                    /\ c # l => q[c].next = m[c].next
  BY <1>2, <1>4, <1>8, <1>9
<1>12. /\ q[x].next = Null /\ q[x].size = size /\ q[x].previous = l /\ q[x].free = FALSE
       /\ l # Null => q[l].next = x
  BY <1>8, <1>9
<1>13. \A c \in B : m[c].next = Null => c = l
  BY <1>c
<1>14. \A c \in B : m[c].next # Null => m[c].next \in B /\ c # l
  BY <1>4, <1>2, <1>d
<1>15. Sound(q, x, s, y)
  <2>1. \A c \in C : s <= c /\ c + q[c].size < y
    BY <1>1, <1>2, <1>3, <1>10, <1>11, <1>12
  <2>2. \A c, d \in C : c < d => c + q[c].size < d
    <3> QED BY <1>a, <1>1, <1>2, <1>10, <1>11, <1>12
  <2>3. \A u \in s .. y - 1 : \E c \in C : c <= u /\ u <= c + q[c].size
    <3>2. ASSUME NEW u \in s .. y - 1, u < x
          PROVE \E c \in C : c <= u /\ u <= c + q[c].size
      BY <3>2, <1>b, <1>1, <1>10, <1>11
    <3>3. ASSUME NEW u \in s .. y - 1, u >= x
          PROVE \E c \in C : c <= u /\ u <= c + q[c].size
      BY <3>3, <1>1, <1>10, <1>12
    <3> QED BY <3>2, <3>3, <1>1
  <2>4. \A c \in C : q[c].next = Null => c = x /\ c + 1 + q[c].size = y
    BY <1>1, <1>2, <1>3, <1>4, <1>10, <1>11, <1>12, <1>13
  <2>5. \A c \in C : q[c].next # Null =>
          q[c].next = c + 1 + q[c].size /\ q[c].next \in C /\ q[q[c].next].previous = c
    <3>1. \A c \in B : c # l => m[c].next = c + 1 + m[c].size /\ m[c].next \in B
                                /\ m[m[c].next].previous = c
      BY <1>13, <1>d
    <3>2. l \in B => l + 1 + m[l].size = x
      BY <1>2, <1>4, <1>c
    <3> QED BY <3>1, <3>2, <1>2, <1>10, <1>11, <1>12
  <2>6. \A c \in C : q[c].previous = Null => c = s
    <3>2. l = Null => x = s
      BY <1>2, <1>g, <1>h
    <3> QED BY <1>e, <3>2, <1>10, <1>11, <1>12
  <2>7. \A c \in C : q[c].previous # Null =>
          q[c].previous \in C /\ q[q[c].previous].next = c
    <3>2. \A c \in B : m[c].previous # Null => m[c].previous # l
      BY <1>f, <1>2, <1>4
    <3>3. \A c \in B : q[c].previous # Null =>
            q[c].previous \in C /\ q[q[c].previous].next = c
      BY <1>f, <3>2, <1>10, <1>11
    <3> QED BY <3>3, <1>4, <1>10, <1>12
  <2>8. y \in 0 .. Limit /\ x \in Link /\ x \in C /\ q[x].next = Null
    BY <1>1, <1>3, <1>10, <1>12 DEF Link
  <2> QED BY <1>1, <1>9, <2>1, <2>2, <2>3, <2>4, <2>5, <2>6, <2>7, <2>8 DEF Sound, C
<1>16. Settled(q)
  <2> SUFFICES ASSUME NEW c \in C, q[c].free, q[c].next # Null
               PROVE  ~q[q[c].next].free
    BY DEF Settled, C
  <2>1. c \in B
    BY <1>10, <1>12
  <2> QED BY <2>1, <1>2, <1>4, <1>11, <1>12, <1>13, <1>14, <1>i
<1>17. Granted(m, q, x, size, s)
  <2>1. UsedIn(q) = UsedIn(m) \cup {x} /\ x \notin UsedIn(m)
    BY <1>2, <1>10, <1>11, <1>12 DEF UsedIn, B, C
  <2>2. \A c \in UsedIn(m) : q[c].size = m[c].size
    BY <1>11 DEF UsedIn, B
  <2>3. \A u \in Unit : u < s => q[u] = m[u]
    BY <1>1, <1>2, <1>3, <1>4, <1>9 DEF Unit
  <2>4. ASSUME NEW c \in UsedIn(m), NEW u \in c + 1 .. c + m[c].size
        PROVE  q[u] = m[u]
    <3>1. c \in B
      BY DEF UsedIn, B
    <3>2. u \in c .. c + m[c].size /\ u # c /\ u # x
      BY <3>1, <2>4, <1>1, <1>2
    <3>3. u \in Unit /\ u \notin B
      BY <3>1, <3>2, Payloads DEF B
    <3> QED BY <3>2, <3>3, <1>4, <1>9
  <2>5. q[x].size >= size
    BY <1>1, <1>12
  <2> QED BY <1>1, <2>1, <2>2, <2>3, <2>4, <2>5 DEF Granted, Keeps
<1> QED BY <1>10, <1>15, <1>16, <1>17 DEF C

\* Marking a free block used and giving back what is not asked for grants it.
LEMMA ReuseEffect ==
  ASSUME NEW m, NEW l, NEW s, NEW x, Sound(m, l, s, x), Settled(m),
         NEW b \in BlocksOf(m), m[b].free, NEW size \in Nat, m[b].size >= size,
         NEW g, g = Reduce(SetFree([memory |-> m, last |-> l], b, FALSE), b, size),
         NEW q, q = g.memory
  PROVE  Sound(q, g.last, s, x) /\ Settled(q) /\ Granted(m, q, b, size, s)
<1> DEFINE used == Block(m[b].previous, m[b].next, m[b].size, FALSE)
<1>1. PICK r : r = [m EXCEPT ![b] = used]
  OBVIOUS
<1>2. g = Reduce([memory |-> r, last |-> l], b, size)
  BY <1>1 DEF SetFree
<1>u. /\ used.free = FALSE /\ used.size = m[b].size
      /\ used.next = m[b].next /\ used.previous = m[b].previous
  BY DEF Block
<1>h. used \in Header
  <2>1. m \in Memories
    BY DEF Sound
  <2> QED BY <2>1, HeaderFields DEF Block, Header
<1> HIDE DEF used
<1>r. r \in Memories /\ r[b] = used /\ \A u \in Unit \ {b} : r[u] = m[u]
  BY <1>1, <1>h DEF Sound, Memories, BlocksOf
<1>3. /\ Sound(r, l, s, x) /\ BlocksOf(r) = BlocksOf(m)
      /\ r[b] = used /\ \A u \in Unit \ {b} : r[u] = m[u]
  BY <1>r, <1>h, <1>u, MarkEffect
<1>4. r[b].free = FALSE /\ r[b].next = m[b].next
  BY <1>3, <1>u
<1>z. r[b].size = m[b].size
  BY <1>3, <1>u
<1>5. \A c \in BlocksOf(m) \ {b} : r[c] = m[c]
  BY <1>3 DEF BlocksOf
<1>6. Settled(r)
  <2> SUFFICES ASSUME NEW c \in BlocksOf(m), r[c].free, r[c].next # Null
               PROVE  ~r[r[c].next].free
    BY <1>3 DEF Settled
  <2>1. c # b /\ m[c].free /\ r[c].next = m[c].next
    BY <1>4, <1>5
  <2>2. m[c].next \in BlocksOf(m) /\ ~m[m[c].next].free
    BY <2>1, Neighbours DEF Settled
  <2> QED BY <2>1, <2>2, <1>4, <1>5
<1>7. UsedIn(r) = UsedIn(m) \cup {b} /\ b \notin UsedIn(m)
  BY <1>3, <1>4, <1>5 DEF UsedIn
<1>8. Sound(q, g.last, s, x) /\ Settled(q) /\ WasReduced(r, q, b, size)
  BY <1>2, <1>3, <1>6, ReduceEffect
<1>9. Keeps(r, q, s, {b})
  BY <1>3, <1>z, <1>8, WasReducedKeeps
<1>10. b \in Nat /\ b >= s /\ s \in Nat /\ m[b].size \in Nat
  BY Payloads
<1>11. \A u \in Unit : u < s => q[u] = m[u]
  <2> SUFFICES ASSUME NEW u \in Unit, u < s PROVE q[u] = m[u]
    OBVIOUS
  <2>1. q[u] = r[u]
    BY <1>9 DEF Keeps
  <2>2. u # b
    BY <1>10
  <2> QED BY <2>1, <2>2, <1>3
<1>12. ASSUME NEW c \in UsedIn(m), NEW u \in c + 1 .. c + m[c].size
       PROVE  q[u] = m[u]
  <2>1. c \in BlocksOf(m) /\ c # b /\ r[c] = m[c]
    BY <1>5, <1>7 DEF UsedIn
  <2>2. c \in Nat /\ m[c].size \in Nat
    BY <2>1, Payloads
  <2>3. u \in c .. c + m[c].size /\ u # c
    BY <1>12, <2>2
  <2>4. u \in Unit /\ u # b
    BY <2>1, <2>3, Payloads
  <2>5. q[u] = r[u]
    BY <1>7, <1>9, <1>12, <2>1 DEF Keeps
  <2> QED BY <1>3, <2>4, <2>5
<1>13. /\ UsedIn(q) = UsedIn(r)
       /\ \A c \in UsedIn(r) \ {b} : q[c].size = r[c].size
       /\ q[b].size = IF r[b].size < size + 2 THEN r[b].size ELSE size
  BY <1>7, <1>8 DEF WasReduced
<1>14. \A c \in UsedIn(m) : q[c].size = m[c].size
  <2>1. \A c \in UsedIn(m) : c \in UsedIn(r) \ {b} /\ r[c] = m[c]
    BY <1>5, <1>7 DEF UsedIn
  <2> QED BY <1>13, <2>1
<1>15. q[b].size >= size
  <2>1. r[b].size \in Nat /\ r[b].size >= size
    BY <1>z, <1>10
  <2>2. q[b].size = r[b].size \/ q[b].size = size
    BY <1>13
  <2>3. \A v, w, k \in Nat : w >= k /\ (v = w \/ v = k) => v >= k
    OBVIOUS
  <2>4. q[b].size \in Nat
    BY <2>1, <2>2
  <2> QED BY <2>1, <2>2, <2>3, <2>4, Zenon
<1> QED BY <1>7, <1>8, <1>10, <1>11, <1>12, <1>13, <1>14, <1>15 DEF Granted, Keeps

\* vircon__heap_append makes the memory that AppendEffect is about.
LEMMA AppendedIsAppended ==
  ASSUME Ready, NEW size \in Nat, NextAddress + 1 + size <= Limit,
         NEW g, g = Appended(size), NEW q, q = g.memory
  PROVE  /\ g.last = NextAddress
         /\ WasAppended(memory, q, last, NextAddress, size)
<1> DEFINE x == NextAddress
           fresh == Block(last, Null, size, FALSE)
           linked == Block(memory[last].previous, x, memory[last].size, memory[last].free)
<1>1. /\ memory \in Memories /\ x \in Nat /\ Limit \in Nat
      /\ last # Null => last \in BlocksOf(memory)
      /\ \A c \in BlocksOf(memory) : c + memory[c].size < x
  BY LimitNat DEF Ready, Running, Sound
<1>2. x \in Unit
  BY <1>1 DEF Unit
<1>3. last # Null => last \in Unit /\ last # x
  <2> SUFFICES ASSUME last # Null PROVE last \in Unit /\ last # x
    OBVIOUS
  <2>1. last \in BlocksOf(memory) /\ last + memory[last].size < x
    BY <1>1
  <2>2. last \in Nat /\ memory[last].size \in Nat /\ last \in Unit
    BY <1>1, <2>1, HeaderFields DEF Unit
  <2> QED BY <1>1, <2>1, <2>2
<1> HIDE DEF fresh, linked, x
<1>4. /\ g.last = x
      /\ q = IF last = Null THEN [memory EXCEPT ![x] = fresh]
             ELSE [memory EXCEPT ![x] = fresh, ![last] = linked]
  BY DEF Appended, fresh, linked, x
<1>5. /\ fresh \in Header /\ (last # Null => linked \in Header) => q \in Memories
      /\ q[x] = fresh
      /\ last # Null => q[last] = linked
      /\ \A u \in Unit \ {x} : u # last \/ last = Null => q[u] = memory[u]
  BY <1>1, <1>2, <1>3, <1>4 DEF Memories
<1> QED BY <1>4, <1>5 DEF WasAppended, fresh, linked, x

-----------------------------------------------------------------------------
(* Release, and resizing in place.                                         *)

\* Memory q is m without the allocation of block b.
Released(m, q, b, s) ==
  /\ UsedIn(q) = UsedIn(m) \ {b}
  /\ \A c \in UsedIn(q) : q[c].size = m[c].size
  /\ Keeps(m, q, s, {b})

\* Freeing a block and merging it with its neighbours.
LEMMA FreedEffect ==
  ASSUME NEW m, NEW l, NEW s, NEW x, Sound(m, l, s, x), Settled(m),
         NEW b \in BlocksOf(m),
         NEW g, g = Freed([memory |-> m, last |-> l], b), NEW q, q = g.memory
  PROVE  Sound(q, g.last, s, x) /\ Settled(q) /\ Released(m, q, b, s)
<1> DEFINE freed == Block(m[b].previous, m[b].next, m[b].size, TRUE)
<1>1. PICK r : r = [m EXCEPT ![b] = freed]
  OBVIOUS
<1>2. g = Merge([memory |-> r, last |-> l], b)
  BY <1>1 DEF Freed, SetFree
<1>3. /\ freed.free /\ freed.size = m[b].size
      /\ freed.next = m[b].next /\ freed.previous = m[b].previous
  BY DEF Block
<1>4. freed \in Header
  <2>1. m \in Memories
    BY DEF Sound
  <2> QED BY <2>1, HeaderFields DEF Block, Header
<1> HIDE DEF freed
<1>5. r \in Memories /\ r[b] = freed /\ \A u \in Unit \ {b} : r[u] = m[u]
  BY <1>1, <1>4 DEF Sound, Memories, BlocksOf
<1>6. Sound(r, l, s, x) /\ BlocksOf(r) = BlocksOf(m)
  BY <1>3, <1>4, <1>5, MarkEffect
<1>7. r[b].free
  BY <1>3, <1>5
<1>8. \A c \in BlocksOf(m) \ {b} : r[c] = m[c]
  BY <1>5 DEF BlocksOf
<1>9. SettledBut(r, b)
  <2> SUFFICES ASSUME NEW c \in BlocksOf(m), c # b, r[c].next # b, r[c].free, r[c].next # Null
               PROVE  ~r[r[c].next].free
    BY <1>6 DEF SettledBut
  <2>1. r[c] = m[c]
    BY <1>8
  <2>2. m[c].next \in BlocksOf(m) /\ ~m[m[c].next].free
    BY <2>1, Neighbours DEF Settled
  <2> QED BY <2>1, <2>2, <1>8
<1>10. Sound(q, g.last, s, x) /\ Settled(q) /\ SameUse(r, q)
  BY <1>2, <1>6, <1>7, <1>9, MergeEffect
<1>11. Keeps(r, q, s, {})
  BY <1>6, <1>10, SameUseKeeps
<1>12. UsedIn(r) = UsedIn(m) \ {b}
  BY <1>6, <1>7, <1>8 DEF UsedIn
<1>13. b \in Nat /\ b >= s /\ s \in Nat
  BY Payloads
<1>14. \A u \in Unit : u < s => q[u] = m[u]
  <2> SUFFICES ASSUME NEW u \in Unit, u < s PROVE q[u] = m[u]
    OBVIOUS
  <2>1. q[u] = r[u]
    BY <1>11 DEF Keeps
  <2>2. u # b
    BY <1>13
  <2> QED BY <2>1, <2>2, <1>5
<1>15. ASSUME NEW c \in UsedIn(m) \ {b}, NEW u \in c + 1 .. c + m[c].size
       PROVE  q[u] = m[u]
  <2>1. c \in BlocksOf(m) /\ c # b /\ r[c] = m[c] /\ c \in UsedIn(r)
    BY <1>8, <1>12 DEF UsedIn
  <2>2. c \in Nat /\ m[c].size \in Nat
    BY <2>1, Payloads
  <2>3. u \in c .. c + m[c].size /\ u # c
    BY <1>15, <2>2
  <2>4. u \in Unit /\ u # b
    BY <2>1, <2>3, Payloads
  <2>5. q[u] = r[u]
    BY <1>11, <1>15, <2>1 DEF Keeps
  <2> QED BY <1>5, <2>4, <2>5
<1>16. UsedIn(q) = UsedIn(m) \ {b} /\ \A c \in UsedIn(q) : q[c].size = m[c].size
  <2>1. \A c \in UsedIn(r) : r[c] = m[c]
    BY <1>8, <1>12 DEF UsedIn
  <2> QED BY <1>10, <1>12, <2>1 DEF SameUse
<1> QED BY <1>10, <1>14, <1>15, <1>16 DEF Released, Keeps

\* Memory q is m with block b resized: the units both sizes have are kept.
Resized(m, q, b, size, s) ==
  /\ UsedIn(q) = UsedIn(m)
  /\ \A c \in UsedIn(m) \ {b} : q[c].size = m[c].size
  /\ b \in UsedIn(m) => q[b].size >= size
  /\ Keeps(m, q, s, {b})
  /\ b \in UsedIn(m) =>
       \A u \in b + 1 .. b + q[b].size : u <= b + m[b].size => q[u] = m[u]

LEMMA ReducedIsResized ==
  ASSUME NEW m, NEW l, NEW s, NEW x, Sound(m, l, s, x),
         NEW b \in BlocksOf(m), NEW size \in Nat, size <= m[b].size,
         NEW q, WasReduced(m, q, b, size)
  PROVE  Resized(m, q, b, size, s)
<1>2. Keeps(m, q, s, {b}) /\ \A u \in b + 1 .. b + size : q[u] = m[u]
  BY WasReducedKeeps
<1>3. b \in Nat /\ m[b].size \in Nat
  BY Payloads
<1>4. ASSUME b \in UsedIn(m)
      PROVE  /\ q[b].size >= size
             /\ \A u \in b + 1 .. b + q[b].size : u <= b + m[b].size => q[u] = m[u]
  <2>1. CASE m[b].size < size + 2
    <3>1. q = m
      BY <2>1 DEF WasReduced
    <3> QED BY <3>1
  <2>2. CASE ~(m[b].size < size + 2)
    <3>1. q[b].size = size
      BY <1>4, <2>2 DEF WasReduced
    <3>2. size >= size
      OBVIOUS
    <3> QED BY <1>2, <3>1, <3>2
  <2> QED BY <2>1, <2>2
<1> QED BY <1>2, <1>4 DEF Resized, WasReduced

\* Swallowing the free block after b and giving back what is not asked for.
LEMMA ExpandedEffect ==
  ASSUME NEW m, NEW l, NEW s, NEW x, Sound(m, l, s, x), Settled(m),
         NEW b \in BlocksOf(m), NEW size \in Nat, size > m[b].size,
         NEW n, m[b].next = n, n # Null, m[n].free, m[b].size + 1 + m[n].size >= size,
         NEW g, g = Reduce(AbsorbNext([memory |-> m, last |-> l], b), b, size),
         NEW q, q = g.memory
  PROVE  /\ Sound(q, g.last, s, x) /\ Settled(q) /\ Resized(m, q, b, size, s)
         /\ b \in UsedIn(m)
<1>1. PICK f : f = AbsorbNext([memory |-> m, last |-> l], b)
  OBVIOUS
<1>2. PICK r : r = f.memory
  OBVIOUS
<1>3. /\ n \in BlocksOf(m) /\ n # b /\ m[n].previous = b /\ ~m[b].free
      /\ \A c \in BlocksOf(m) : c # b => m[c].next # n
  BY Neighbours DEF Settled
<1>4. Sound(r, f.last, s, x) /\ Absorbed(m, r, b, n)
  BY <1>1, <1>2, <1>3, AbsorbNextEffect
<1>5. f = [memory |-> r, last |-> f.last]
  BY <1>1, <1>2 DEF AbsorbNext
<1>6. PICK y : y = f.last
  OBVIOUS
<1>7. Sound(r, y, s, x) /\ g = Reduce([memory |-> r, last |-> y], b, size)
  BY <1>1, <1>4, <1>5, <1>6
<1>8. /\ BlocksOf(r) = BlocksOf(m) \ {n}
      /\ r[b].size = m[b].size + 1 + m[n].size /\ r[b].free = m[b].free
      /\ r[b].next = m[n].next
      /\ \A c \in BlocksOf(m) \ {b, n} :
           r[c].size = m[c].size /\ r[c].free = m[c].free /\ r[c].next = m[c].next
      /\ \A u \in Unit \ BlocksOf(m) : r[u] = m[u]
  BY <1>4 DEF Absorbed, Block
<1>9. Settled(r)
  <2> SUFFICES ASSUME NEW c \in BlocksOf(r), r[c].free, r[c].next # Null
               PROVE  ~r[r[c].next].free
    BY DEF Settled
  <2>1. c \in BlocksOf(m) \ {b, n} /\ m[c].free /\ r[c].next = m[c].next
    BY <1>3, <1>8
  <2>2. m[c].next \in BlocksOf(m) /\ ~m[m[c].next].free /\ m[c].next # n
    BY <2>1, <1>3, Neighbours DEF Settled
  <2> QED BY <2>1, <2>2, <1>8
<1>10. b \in BlocksOf(r)
  BY <1>3, <1>8
<1>11. Sound(q, g.last, s, x) /\ Settled(q) /\ WasReduced(r, q, b, size)
  BY <1>7, <1>9, <1>10, ReduceEffect
<1>12. b \in Nat /\ m[b].size \in Nat /\ m[n].size \in Nat /\ s <= b /\ s \in Nat
  BY <1>3, Payloads
<1>13. size <= r[b].size
  BY <1>8, <1>12
<1>14. Resized(r, q, b, size, s)
  BY <1>7, <1>10, <1>11, <1>13, ReducedIsResized
<1>15. UsedIn(r) = UsedIn(m) /\ b \in UsedIn(m)
  BY <1>3, <1>8 DEF UsedIn
<1>16. \A c \in UsedIn(m) \ {b} : r[c].size = m[c].size
  BY <1>3, <1>8 DEF UsedIn
<1>17. \A u \in Unit : u < s => q[u] = m[u]
  BY <1>8, <1>14, BelowTheHeap DEF Resized, Keeps
<1>18. ASSUME NEW c \in UsedIn(m) \ {b}, NEW u \in c + 1 .. c + m[c].size
       PROVE  q[u] = m[u]
  <2>1. c \in BlocksOf(m) /\ c \in UsedIn(r) \ {b} /\ r[c].size = m[c].size
    BY <1>15, <1>16 DEF UsedIn
  <2>2. c \in Nat /\ m[c].size \in Nat
    BY <2>1, Payloads
  <2>3. u \in c .. c + m[c].size /\ u # c
    BY <1>18, <2>2
  <2>4. u \in Unit /\ u \notin BlocksOf(m)
    BY <2>1, <2>3, Payloads
  <2>5. q[u] = r[u]
    BY <1>14, <1>18, <2>1 DEF Resized, Keeps
  <2> QED BY <1>8, <2>4, <2>5
<1>19. ASSUME NEW u \in b + 1 .. b + q[b].size, u <= b + m[b].size
       PROVE  q[u] = m[u]
  <2>1. u \in b .. b + m[b].size /\ u # b
    BY <1>12, <1>19
  <2>2. u \in Unit /\ u \notin BlocksOf(m)
    BY <2>1, Payloads
  <2>3. u <= b + r[b].size
    BY <1>8, <1>12, <2>1
  <2>4. q[u] = r[u]
    BY <1>14, <1>15, <1>19, <2>3 DEF Resized
  <2> QED BY <1>8, <2>2, <2>4
<1>20. /\ UsedIn(q) = UsedIn(m) /\ q[b].size >= size
       /\ \A c \in UsedIn(m) \ {b} : q[c].size = m[c].size
  BY <1>14, <1>15, <1>16 DEF Resized
<1> QED BY <1>11, <1>15, <1>17, <1>18, <1>19, <1>20 DEF Resized, Keeps

-----------------------------------------------------------------------------
(* The operations keep the heap running.                                   *)

LEMMA PagesForReaches ==
  ASSUME Inv, NEW r \in Nat, PagesFor(r) <= MaxPages
  PROVE  /\ PagesFor(r) \in InitialPages .. MaxPages
         /\ r <= PagesFor(r) * PageUnits
<1>1. /\ pages \in InitialPages .. MaxPages /\ pages \in Nat /\ MemoryEnd \in Nat
      /\ PageUnits \in Nat \ {0} /\ InitialPages \in Nat /\ MaxPages \in Nat
  BY MemoryEndFacts, PagesAssumption
<1>2. CASE r <= MemoryEnd
  BY <1>1, <1>2 DEF PagesFor, MemoryEnd
<1>3. CASE ~(r <= MemoryEnd)
  <2>1. PICK p : p = (r + PageUnits - 1) \div PageUnits
    OBVIOUS
  <2>2. p \in Nat /\ p * PageUnits >= r
    BY <1>1, <2>1
  <2>3. p > pages
    <3>1. p * PageUnits > pages * PageUnits
      BY <1>1, <1>3, <2>2 DEF MemoryEnd
    <3> QED BY <1>1, <2>2, <3>1, PageArithmetic
  <2>4. PagesFor(r) = p
    BY <1>3, <2>1 DEF PagesFor
  <2> QED BY <1>1, <2>2, <2>3, <2>4
<1> QED BY <1>2, <1>3

LEMMA AllocatedEffect ==
  ASSUME Inv, initialized \/ CanInitialize, NEW size \in Sizes, CanAllocate(size),
         NEW b \in Chosen(size), Reserved(size), Initialized,
         NEW g, g = Allocated(b, size), NEW q, q = g.memory
  PROVE  /\ Running(q, g.last, first', start', end', next', pages')
         /\ Granted(memory, q, b, size, start')
<1>1. PICK s, e, x : s = StartAddress /\ e = EndAddress /\ x = NextAddress
  OBVIOUS
<1>2. /\ Sound(memory, last, s, x) /\ Settled(memory)
      /\ StaticEnd <= s /\ x <= e /\ e \in 0 .. Limit
      /\ pages \in InitialPages .. MaxPages
      /\ Blocks # {} => x <= pages * PageUnits /\ first = s
      /\ Blocks = {} => first = Null
  BY <1>1, ReadyFromInv DEF Ready, Running, Blocks
<1>3. start' = s /\ end' = e
  BY <1>1 DEF Initialized
<1>4. /\ size \in Nat /\ Limit \in Nat /\ s \in Nat \ {0} /\ x \in Nat
      /\ memory \in Memories /\ pages \in Nat
      /\ (Blocks # {} <=> last # Null) /\ (Blocks = {} => x = s)
  <2>1. size \in Nat /\ Limit \in Nat
    BY SizesAssumption, LimitNat
  <2>2. /\ s \in Nat \ {0} /\ x \in Nat /\ memory \in Memories
        /\ (Blocks # {} => last \in Blocks) /\ (Blocks = {} => last = Null /\ x = s)
    BY <1>2, <2>1 DEF Sound, Blocks
  <2>3. Null \notin Blocks
    BY <1>2, Neighbours DEF Blocks
  <2>4. pages \in Nat
    BY MemoryEndFacts
  <2> QED BY <2>1, <2>2, <2>3, <2>4
<1>5. CASE Fits(size) # {}
  <2>1. b \in BlocksOf(memory) /\ memory[b].free /\ memory[b].size >= size
    BY <1>5 DEF Chosen, FirstFit, Fits, Blocks
  <2>2. g = Reduce(SetFree([memory |-> memory, last |-> last], b, FALSE), b, size)
    BY <1>5 DEF Allocated, Heap
  <2>3. Sound(q, g.last, s, x) /\ Settled(q) /\ Granted(memory, q, b, size, s)
    BY <1>2, <1>4, <2>1, <2>2, ReuseEffect
  <2>4. BlocksOf(q) # {} /\ Blocks # {}
    BY <2>1, <2>3 DEF Granted, UsedIn, Blocks
  <2>5. next' = x /\ pages' = pages /\ first' = first
    BY <1>1, <1>5 DEF Reserved
  <2> HIDE DEF Running
  <2>6. PICK y : y = g.last
    OBVIOUS
  <2>7. Running(q, y, first, s, e, x, pages)
    BY <1>2, <2>3, <2>4, <2>6 DEF Running
  <2> QED BY <1>3, <2>3, <2>5, <2>6, <2>7
<1>6. CASE Fits(size) = {}
  <2>1. b = x /\ g = Appended(size)
    BY <1>1, <1>6 DEF Chosen, Allocated
  <2>2. PICK y : y = x + 1 + size
    OBVIOUS
  <2>3. y \in Nat /\ y <= e /\ y <= Limit /\ PagesFor(y) <= MaxPages
    BY <1>1, <1>2, <1>4, <1>6, <2>2 DEF CanAllocate, CanAppend
  <2>4. g.last = x /\ WasAppended(memory, q, last, x, size)
    BY <1>1, <1>4, <2>1, <2>2, <2>3, ReadyFromInv, AppendedIsAppended
  <2>5. /\ Sound(q, x, s, y) /\ Settled(q) /\ Granted(memory, q, x, size, s)
        /\ BlocksOf(q) # {}
    BY <1>2, <1>4, <2>2, <2>3, <2>4, AppendEffect
  <2>6. next' = y /\ pages' = PagesFor(y) /\ first' = IF last = Null THEN x ELSE first
    BY <1>1, <1>6, <2>2 DEF Reserved
  <2>7. PagesFor(y) \in InitialPages .. MaxPages /\ y <= PagesFor(y) * PageUnits
    BY <2>3, PagesForReaches
  <2>8. first' = s
    BY <1>2, <1>4, <2>6
  <2>9. PICK p : p = PagesFor(y)
    OBVIOUS
  <2>10. Running(q, x, s, s, e, y, p)
    BY <1>2, <2>3, <2>5, <2>7, <2>9 DEF Running
  <2> QED BY <1>3, <2>1, <2>4, <2>5, <2>6, <2>8, <2>9, <2>10
<1> QED BY <1>5, <1>6

\* Filling the units of a block with values leaves the list and every other
\* allocation alone.
LEMMA FilledEffect ==
  ASSUME NEW m, NEW l, NEW s, NEW x, Sound(m, l, s, x), Settled(m),
         NEW k \in BlocksOf(m), NEW size \in Nat, size <= m[k].size,
         NEW q \in Memories,
         \A u \in k + 1 .. k + size : q[u] \in Value,
         \A u \in Unit : u \notin k + 1 .. k + size => q[u] = m[u]
  PROVE  /\ Sound(q, l, s, x) /\ Settled(q)
         /\ BlocksOf(q) = BlocksOf(m) /\ UsedIn(q) = UsedIn(m)
         /\ \A c \in BlocksOf(m) : q[c] = m[c]
         /\ Keeps(m, q, s, {k})
<1>1. k \in Nat /\ m[k].size \in Nat /\ s \in Nat /\ s <= k
  BY Payloads
<1>2. \A u \in k + 1 .. k + size : u \in k .. k + m[k].size /\ u # k
  BY <1>1
<1>3. \A u \in k + 1 .. k + size : u \notin BlocksOf(m)
  BY <1>2, Payloads
<1>4. \A c \in BlocksOf(m) : q[c] = m[c]
  BY <1>3 DEF BlocksOf
<1>5. \A u \in Unit \ BlocksOf(m) : q[u] \notin Header
  BY ValueAssumption DEF BlocksOf
<1>6. /\ Sound(q, l, s, x) /\ Settled(q)
      /\ BlocksOf(q) = BlocksOf(m) /\ UsedIn(q) = UsedIn(m)
  BY <1>4, <1>5, ContentsEffect
<1>7. \A u \in Unit : u < s => q[u] = m[u]
  <2> SUFFICES ASSUME NEW u \in Unit, u < s PROVE u \notin k + 1 .. k + size
    OBVIOUS
  <2> QED BY <1>1
<1>8. ASSUME NEW c \in UsedIn(m) \ {k}, NEW u \in c + 1 .. c + m[c].size
      PROVE  q[u] = m[u]
  <2>1. c \in BlocksOf(m) /\ c # k
    BY DEF UsedIn
  <2>2. c \in Nat /\ m[c].size \in Nat
    BY <2>1, Payloads
  <2>3. u \in c .. c + m[c].size
    BY <1>8, <2>2
  <2>4. u \in Unit /\ u \notin k .. k + m[k].size
    BY <2>1, <2>3, Payloads
  <2> QED BY <1>2, <2>4
<1> QED BY <1>4, <1>6, <1>7, <1>8 DEF Keeps

LEMMA ClearIsFilled ==
  ASSUME NEW m, NEW l, NEW s, NEW x, Sound(m, l, s, x),
         NEW k \in BlocksOf(m), NEW size \in Nat, size <= m[k].size,
         NEW g, g.memory = m,
         NEW q, q = Clear(g, Payload(k), size).memory
  PROVE  /\ q \in Memories
         /\ \A u \in k + 1 .. k + size : q[u] \in Value
         /\ \A u \in Unit : u \notin k + 1 .. k + size => q[u] = m[u]
<1>1. k \in Nat /\ m[k].size \in Nat
  BY Payloads
<1>2. \A u \in k + 1 .. k + size : u \in k .. k + m[k].size
  BY <1>1
<1>3. \A u \in k + 1 .. k + size : u \in Unit
  BY <1>2, Payloads
<1>4. Payload(k) .. Payload(k) + size - 1 = k + 1 .. k + size
  BY <1>1 DEF Payload
<1>5. PICK R : R = k + 1 .. k + size
  OBVIOUS
<1>6. q = [u \in Unit |-> IF u \in R THEN Zero ELSE m[u]]
  BY <1>4, <1>5 DEF Clear
<1>7. m \in Memories /\ Zero \in Value
  BY DEF Sound, Value
<1> QED BY <1>3, <1>5, <1>6, <1>7 DEF Memories

LEMMA CopyIsFilled ==
  ASSUME NEW m, NEW l, NEW s, NEW x, Sound(m, l, s, x),
         NEW k \in BlocksOf(m), NEW b \in BlocksOf(m), NEW size \in Nat,
         size <= m[k].size, size <= m[b].size,
         NEW g, g.memory = m,
         NEW q, q = Copy(g, Payload(k), Payload(b), size).memory
  PROVE  /\ q \in Memories
         /\ \A u \in k + 1 .. k + size : q[u] \in Value
         /\ \A u \in Unit : u \notin k + 1 .. k + size => q[u] = m[u]
         /\ \A i \in 1 .. size : q[k + i] = m[b + i]
<1>1. k \in Nat /\ m[k].size \in Nat /\ b \in Nat /\ m[b].size \in Nat
  BY Payloads
<1>2. \A u \in k + 1 .. k + size : u \in k .. k + m[k].size
  BY <1>1
<1>3. \A u \in k + 1 .. k + size : u \in Unit
  BY <1>2, Payloads
<1>4. Payload(k) .. Payload(k) + size - 1 = k + 1 .. k + size
  BY <1>1 DEF Payload
<1>5. PICK R : R = k + 1 .. k + size
  OBVIOUS
<1>6. q = [u \in Unit |-> IF u \in R THEN m[Payload(b) + (u - Payload(k))] ELSE m[u]]
  BY <1>4, <1>5 DEF Copy
<1>7. m \in Memories
  BY DEF Sound
<1>8. \A i \in 1 .. size : m[b + i] \in Value
  <2> SUFFICES ASSUME NEW i \in 1 .. size PROVE m[b + i] \in Value
    OBVIOUS
  <2>1. b + i \in b .. b + m[b].size /\ b + i # b
    BY <1>1
  <2>2. b + i \in Unit /\ b + i \notin BlocksOf(m)
    BY <2>1, Payloads
  <2> QED BY <1>7, <2>2 DEF BlocksOf, Memories
<1>9. \A u \in R : /\ u - k \in 1 .. size
                   /\ Payload(b) + (u - Payload(k)) = b + (u - k) /\ u = k + (u - k)
  BY <1>1, <1>5 DEF Payload
<1>10. \A u \in R : q[u] = m[b + (u - k)] /\ q[u] \in Value
  <2> SUFFICES ASSUME NEW u \in R PROVE q[u] = m[b + (u - k)] /\ q[u] \in Value
    OBVIOUS
  <2>1. q[u] = m[Payload(b) + (u - Payload(k))]
    BY <1>3, <1>5, <1>6
  <2>2. q[u] = m[b + (u - k)] /\ u - k \in 1 .. size
    BY <1>9, <2>1
  <2> QED BY <1>8, <2>2
<1>11. \A i \in 1 .. size : k + i \in R /\ (k + i) - k = i
  BY <1>1, <1>5
<1>12. \A i \in 1 .. size : q[k + i] = m[b + i]
  <2> SUFFICES ASSUME NEW i \in 1 .. size PROVE q[k + i] = m[b + i]
    OBVIOUS
  <2>1. k + i \in R /\ (k + i) - k = i
    BY <1>11
  <2>2. q[k + i] = m[b + ((k + i) - k)]
    BY <1>10, <2>1
  <2> QED BY <2>1, <2>2
<1>13. \A u \in Unit : u \notin R => q[u] = m[u]
  BY <1>6
<1>14. q \in Memories
  <2>1. \A u \in Unit : q[u] \in Value \cup Header
    BY <1>7, <1>10, <1>13 DEF Memories
  <2> QED BY <1>6, <2>1 DEF Memories
<1> QED BY <1>5, <1>10, <1>12, <1>13, <1>14

-----------------------------------------------------------------------------
(* What each operation does, as one step.                                  *)

LEMMA BlocksMeanInService ==
  ASSUME Inv, Blocks # {}
  PROVE  InService
BY DEF Inv, Unused

LEMMA RunningParts ==
  ASSUME NEW m, NEW l, NEW f, NEW s, NEW e, NEW x, NEW p, Running(m, l, f, s, e, x, p)
  PROVE  /\ Sound(m, l, s, x) /\ Settled(m) /\ StaticEnd <= s /\ s \in Nat /\ x \in Nat
         /\ m \in Memories
<1>1. Sound(m, l, s, x) /\ Settled(m) /\ StaticEnd <= s
  BY DEF Running
<1>2. s \in Nat /\ x \in Nat /\ m \in Memories
  BY <1>1, LimitNat DEF Sound
<1> QED BY <1>1, <1>2

\* A heap with the same blocks, or with other blocks, goes on in the same range.
LEMMA RunningAgain ==
  ASSUME NEW m, NEW l, NEW f, NEW s, NEW e, NEW x, NEW p, Running(m, l, f, s, e, x, p),
         BlocksOf(m) # {},
         NEW q, NEW k, Sound(q, k, s, x), Settled(q), BlocksOf(q) # {}
  PROVE  Running(q, k, f, s, e, x, p)
BY DEF Running

\* Soundness with a block below x is never that of the empty list.
LEMMA NeverEmptied ==
  ASSUME NEW m, NEW l, NEW s, NEW x, Sound(m, l, s, x), NEW b \in BlocksOf(m),
         NEW q, NEW k, Sound(q, k, s, x)
  PROVE  BlocksOf(q) # {}
<1>1. s <= b /\ b + m[b].size < x /\ b \in Nat /\ m[b].size \in Nat /\ s \in Nat /\ x \in Nat
  BY Payloads
<1>2. s # x
  BY <1>1
<1> QED BY <1>2 DEF Sound

LEMMA MallocStep ==
  ASSUME Inv, NEW size \in Sizes, Malloc(size)
  PROVE  InService' /\ \E k \in BlocksOf(memory') : Granted(memory, memory', k, size, start')
<1>1. PICK b \in Chosen(size) : Becomes(Allocated(b, size))
  BY DEF Malloc
<1>2. /\ initialized \/ CanInitialize
      /\ CanAllocate(size) /\ Reserved(size) /\ Initialized
  BY DEF Malloc
<1>3. PICK g : g = Allocated(b, size)
  OBVIOUS
<1>4. memory' = g.memory /\ last' = g.last
  BY <1>1, <1>3 DEF Becomes
<1>5. /\ Running(g.memory, g.last, first', start', end', next', pages')
      /\ Granted(memory, g.memory, b, size, start')
  BY <1>2, <1>3, AllocatedEffect
<1>6. b \in BlocksOf(g.memory)
  BY <1>5 DEF Granted, UsedIn
<1> QED BY <1>2, <1>4, <1>5, <1>6 DEF InService, Initialized

LEMMA CallocStep ==
  ASSUME Inv, NEW size \in Sizes, Calloc(size)
  PROVE  InService' /\ \E k \in BlocksOf(memory') : Granted(memory, memory', k, size, start')
<1>1. PICK b \in Chosen(size) : Becomes(Clear(Allocated(b, size), Payload(b), size))
  BY DEF Calloc
<1>2. /\ initialized \/ CanInitialize
      /\ CanAllocate(size) /\ Reserved(size) /\ Initialized
  BY DEF Calloc
<1>3. PICK g : g = Allocated(b, size)
  OBVIOUS
<1>4. PICK r : r = g.memory
  OBVIOUS
<1>5. PICK q : q = Clear(g, Payload(b), size).memory
  OBVIOUS
<1>6. memory' = q /\ last' = g.last
  BY <1>1, <1>3, <1>5 DEF Becomes, Clear
<1>7. /\ Running(r, g.last, first', start', end', next', pages')
      /\ Granted(memory, r, b, size, start')
  BY <1>2, <1>3, <1>4, AllocatedEffect
<1>8. PICK l, s, x : l = g.last /\ s = start' /\ x = next'
  OBVIOUS
<1>9. Sound(r, l, s, x) /\ Settled(r) /\ s \in Nat
  BY <1>7, <1>8, RunningParts
<1>10. /\ b \in UsedIn(r) /\ b \in BlocksOf(r) /\ size \in Nat /\ size <= r[b].size
       /\ b \notin UsedIn(memory)
  <2>1. b \in UsedIn(r) /\ r[b].size >= size /\ b \notin UsedIn(memory)
    BY <1>7 DEF Granted
  <2>2. b \in BlocksOf(r)
    BY <2>1 DEF UsedIn
  <2>3. r[b].size \in Nat /\ size \in Nat
    BY <1>9, <2>2, Payloads, SizesAssumption
  <2> QED BY <2>1, <2>2, <2>3
<1>11. /\ q \in Memories
       /\ \A u \in b + 1 .. b + size : q[u] \in Value
       /\ \A u \in Unit : u \notin b + 1 .. b + size => q[u] = r[u]
  BY <1>4, <1>5, <1>9, <1>10, ClearIsFilled
<1>12. /\ Sound(q, l, s, x) /\ Settled(q)
       /\ BlocksOf(q) = BlocksOf(r) /\ UsedIn(q) = UsedIn(r)
       /\ \A c \in BlocksOf(r) : q[c] = r[c]
       /\ Keeps(r, q, s, {b})
  BY <1>9, <1>10, <1>11, FilledEffect
<1>13. Running(q, l, first', s, end', x, pages')
  BY <1>7, <1>8, <1>10, <1>12, RunningAgain
<1>14. Granted(memory, q, b, size, s)
  <2>1. /\ b \in Nat /\ UsedIn(r) = UsedIn(memory) \cup {b}
        /\ \A c \in UsedIn(memory) : r[c].size = memory[c].size
        /\ Keeps(memory, r, s, {})
    BY <1>7, <1>8 DEF Granted
  <2>2. \A c \in UsedIn(memory) : c \in UsedIn(r) /\ c # b /\ q[c] = r[c]
    BY <1>10, <1>12, <2>1 DEF UsedIn
  <2>3. Keeps(memory, q, s, {})
    <3>1. \A u \in Unit : u < s => q[u] = memory[u]
      BY <1>12, <2>1 DEF Keeps
    <3>2. ASSUME NEW c \in UsedIn(memory), NEW u \in c + 1 .. c + memory[c].size
          PROVE  q[u] = memory[u]
      BY <3>2, <1>12, <2>1, <2>2 DEF Keeps
    <3> QED BY <3>1, <3>2 DEF Keeps
  <2>4. q[b].size >= size
    BY <1>10, <1>12
  <2> QED BY <1>10, <1>12, <2>1, <2>2, <2>3, <2>4 DEF Granted
<1> QED BY <1>2, <1>6, <1>8, <1>10, <1>12, <1>13, <1>14 DEF InService, Initialized

\* In an operation that leaves the range of the heap alone.
LEMMA InServiceAgain ==
  ASSUME InService, Blocks # {}, Sound(memory', last', start, next), Settled(memory'),
         BlocksOf(memory') # {}, UNCHANGED <<pages, first, next, frozen>>
  PROVE  InService'
<1>1. Running(memory, last, first, start, end, next, pages) /\ BlocksOf(memory) # {}
  BY DEF InService, Blocks
<1>2. Running(memory', last', first, start, end, next, pages)
  BY <1>1, RunningAgain
<1> QED BY <1>2 DEF InService, frozen

LEMMA FreedStep ==
  ASSUME Inv, NEW b \in Blocks, Becomes(Freed(Heap, b)),
         UNCHANGED <<pages, first, next, frozen>>
  PROVE  InService' /\ Released(memory, memory', b, start) /\ InService
<1>1. InService /\ Blocks # {} /\ b \in BlocksOf(memory)
  BY BlocksMeanInService DEF Blocks
<1>2. PICK g : g = Freed([memory |-> memory, last |-> last], b)
  OBVIOUS
<1>3. memory' = g.memory /\ last' = g.last
  BY <1>2 DEF Becomes, Heap
<1>4. Sound(memory, last, start, next) /\ Settled(memory)
  BY <1>1 DEF InService, Running
<1>5. PICK q : q = g.memory
  OBVIOUS
<1>6. Sound(q, g.last, start, next) /\ Settled(q) /\ Released(memory, q, b, start)
  BY <1>1, <1>2, <1>4, <1>5, FreedEffect
<1>7. BlocksOf(q) # {}
  BY <1>1, <1>4, <1>6, NeverEmptied
<1>8. memory' = q
  BY <1>3, <1>5
<1> QED BY <1>1, <1>3, <1>6, <1>7, <1>8, InServiceAgain

LEMMA ReducedStep ==
  ASSUME Inv, NEW b \in Blocks, NEW size \in Nat, size <= memory[b].size,
         Becomes(Reduce(Heap, b, size)), UNCHANGED <<pages, first, next, frozen>>
  PROVE  InService' /\ Resized(memory, memory', b, size, start) /\ InService
<1>1. InService /\ Blocks # {} /\ b \in BlocksOf(memory)
  BY BlocksMeanInService DEF Blocks
<1>2. PICK g : g = Reduce([memory |-> memory, last |-> last], b, size)
  OBVIOUS
<1>3. memory' = g.memory /\ last' = g.last
  BY <1>2 DEF Becomes, Heap
<1>4. Sound(memory, last, start, next) /\ Settled(memory)
  BY <1>1 DEF InService, Running
<1>5. PICK q : q = g.memory
  OBVIOUS
<1>6. Sound(q, g.last, start, next) /\ Settled(q) /\ WasReduced(memory, q, b, size)
  BY <1>1, <1>2, <1>4, <1>5, ReduceEffect
<1>7. Resized(memory, q, b, size, start)
  BY <1>1, <1>4, <1>6, ReducedIsResized
<1>8. BlocksOf(q) # {}
  BY <1>1, <1>4, <1>6, NeverEmptied
<1>9. memory' = q
  BY <1>3, <1>5
<1> QED BY <1>1, <1>3, <1>6, <1>7, <1>8, <1>9, InServiceAgain

LEMMA ExpandedStep ==
  ASSUME Inv, NEW b \in Blocks, NEW size \in Nat, size > memory[b].size,
         CanExpand(b, size), Becomes(Expanded(b, size)),
         UNCHANGED <<pages, first, next, frozen>>
  PROVE  /\ InService' /\ Resized(memory, memory', b, size, start) /\ InService
         /\ b \in UsedIn(memory)
<1>1. InService /\ Blocks # {} /\ b \in BlocksOf(memory)
  BY BlocksMeanInService DEF Blocks
<1>2. PICK g : g = Reduce(AbsorbNext([memory |-> memory, last |-> last], b), b, size)
  OBVIOUS
<1>3. memory' = g.memory /\ last' = g.last
  BY <1>2 DEF Becomes, Expanded, Heap
<1>4. Sound(memory, last, start, next) /\ Settled(memory)
  BY <1>1 DEF InService, Running
<1>5. PICK q : q = g.memory
  OBVIOUS
<1>6. PICK n : n = memory[b].next
  OBVIOUS
<1>7. n # Null /\ memory[n].free /\ memory[b].size + 1 + memory[n].size >= size
  BY <1>6 DEF CanExpand, FreeBlock
<1>8. /\ Sound(q, g.last, start, next) /\ Settled(q) /\ Resized(memory, q, b, size, start)
      /\ b \in UsedIn(memory)
  BY <1>1, <1>2, <1>4, <1>5, <1>6, <1>7, ExpandedEffect
<1>9. BlocksOf(q) # {}
  BY <1>1, <1>4, <1>8, NeverEmptied
<1>10. memory' = q
  BY <1>3, <1>5
<1> QED BY <1>1, <1>3, <1>8, <1>9, <1>10, InServiceAgain

LEMMA LiveBlocks ==
  ASSUME Inv, NEW p \in Live
  PROVE  /\ p - 1 \in UsedIn(memory) /\ p - 1 \in Blocks /\ p = (p - 1) + 1 /\ p \in Nat
         /\ memory[p - 1].size \in Nat /\ InService
<1>1. PICK b \in Blocks : p = b + 1 /\ b \in UsedIn(memory)
  BY DEF Live, InUse, Payload, Blocks, UsedIn
<1>2. InService
  BY <1>1, BlocksMeanInService
<1>3. b \in Nat /\ memory[b].size \in Nat
  BY <1>1, <1>2, Payloads DEF InService, Running, Blocks
<1>4. p - 1 = b /\ p \in Nat
  BY <1>1, <1>3
<1> QED BY <1>1, <1>2, <1>3, <1>4

\* Memory q is m with the allocation at b moved to k.
Moved(m, q, b, k, size, s) ==
  /\ k \notin UsedIn(m)
  /\ UsedIn(q) = (UsedIn(m) \ {b}) \cup {k}
  /\ \A c \in UsedIn(m) \ {b} : q[c].size = m[c].size
  /\ q[k].size >= size
  /\ Keeps(m, q, s, {b})
  /\ \A i \in 1 .. m[b].size : q[k + i] = m[b + i]

LEMMA MoveStep ==
  ASSUME Inv, NEW size \in Sizes, NEW p \in Live, Move(p, size)
  PROVE  InService' /\ \E k \in BlocksOf(memory') : Moved(memory, memory', p - 1, k, size, start)
<1> DEFINE m == memory
<1>1. PICK b : b = p - 1
  OBVIOUS
<1>2. PICK k \in Chosen(size) :
        Becomes(Freed(Copy(Allocated(k, size), Payload(k), p, memory[b].size), b))
  BY <1>1 DEF Move
<1>3. /\ b \in UsedIn(m) /\ b \in BlocksOf(m) /\ p = Payload(b) /\ b \in Nat
      /\ m[b].size \in Nat /\ InService
  <2>1. /\ p - 1 \in UsedIn(m) /\ p - 1 \in Blocks /\ p = (p - 1) + 1
        /\ m[p - 1].size \in Nat /\ InService /\ p - 1 \in Nat
    <3>1. /\ p - 1 \in UsedIn(m) /\ p - 1 \in Blocks /\ p = (p - 1) + 1
          /\ m[p - 1].size \in Nat /\ InService
      BY LiveBlocks
    <3> QED BY <3>1, LimitNat DEF Blocks, BlocksOf, Unit
  <2> QED BY <1>1, <2>1 DEF Payload, Blocks
<1>4. /\ size > m[b].size /\ CanAllocate(size) /\ Reserved(size) /\ size \in Nat
      /\ UNCHANGED frozen /\ initialized = TRUE
  BY <1>1, <1>3, SizesAssumption DEF Move, InService
<1>5. Initialized
  BY <1>4 DEF Initialized, frozen, StartAddress, EndAddress
<1>6. PICK g : g = Allocated(k, size)
  OBVIOUS
<1>7. PICK r : r = g.memory
  OBVIOUS
<1>8. /\ Running(r, g.last, first', start', end', next', pages')
      /\ Granted(m, r, k, size, start')
  BY <1>4, <1>5, <1>6, <1>7, AllocatedEffect
<1>9. PICK l, s, x : l = g.last /\ s = start' /\ x = next' /\ s = start
  BY <1>4 DEF frozen
<1>10. Sound(r, l, s, x) /\ Settled(r) /\ s \in Nat
  BY <1>8, <1>9, RunningParts
<1>11. /\ k \in Nat /\ k \notin UsedIn(m) /\ k # b
       /\ UsedIn(r) = UsedIn(m) \cup {k}
       /\ \A c \in UsedIn(m) : r[c].size = m[c].size
       /\ r[k].size >= size
       /\ Keeps(m, r, s, {})
  BY <1>3, <1>8, <1>9 DEF Granted
<1>12. k \in BlocksOf(r) /\ b \in BlocksOf(r) /\ b \in UsedIn(r) /\ k \in UsedIn(r)
  BY <1>3, <1>11 DEF UsedIn
<1>13. PICK old : old = m[b].size
  OBVIOUS
<1>14. old \in Nat /\ old <= r[k].size /\ old <= r[b].size
  <2>1. r[k].size \in Nat /\ r[b].size = old
    BY <1>3, <1>10, <1>11, <1>12, <1>13, Payloads
  <2> QED BY <1>3, <1>4, <1>11, <1>13, <2>1
<1>15. PICK q : q = Copy(g, Payload(k), Payload(b), old).memory
  OBVIOUS
<1>16. /\ q \in Memories
       /\ \A u \in k + 1 .. k + old : q[u] \in Value
       /\ \A u \in Unit : u \notin k + 1 .. k + old => q[u] = r[u]
       /\ \A i \in 1 .. old : q[k + i] = r[b + i]
  BY <1>7, <1>10, <1>12, <1>14, <1>15, CopyIsFilled
<1>17. /\ Sound(q, l, s, x) /\ Settled(q)
       /\ BlocksOf(q) = BlocksOf(r) /\ UsedIn(q) = UsedIn(r)
       /\ \A c \in BlocksOf(r) : q[c] = r[c]
       /\ Keeps(r, q, s, {k})
  BY <1>10, <1>12, <1>14, <1>16, FilledEffect
<1>18. Copy(g, Payload(k), Payload(b), old) = [memory |-> q, last |-> l]
  BY <1>9, <1>15 DEF Copy
<1>19. PICK h : h = Freed([memory |-> q, last |-> l], b)
  OBVIOUS
<1>20. memory' = h.memory /\ last' = h.last
  BY <1>2, <1>3, <1>6, <1>13, <1>18, <1>19 DEF Becomes
<1>21. PICK z : z = h.memory
  OBVIOUS
<1>22. Sound(z, h.last, s, x) /\ Settled(z) /\ Released(q, z, b, s)
  BY <1>12, <1>17, <1>19, <1>21, FreedEffect
<1>23. BlocksOf(z) # {}
  BY <1>12, <1>17, <1>22, NeverEmptied
<1>24. PICK y : y = h.last
  OBVIOUS
<1>25. Running(z, y, first', s, end', x, pages')
  BY <1>8, <1>9, <1>12, <1>22, <1>23, <1>24, RunningAgain
<1>26. Moved(m, z, b, k, size, s)
  <2>1. /\ UsedIn(z) = (UsedIn(m) \ {b}) \cup {k}
        /\ \A c \in UsedIn(z) : z[c].size = q[c].size
        /\ Keeps(q, z, s, {b})
    BY <1>11, <1>17, <1>22 DEF Released
  <2>2. \A c \in UsedIn(r) : q[c] = r[c]
    BY <1>17 DEF UsedIn
  <2>3. \A c \in UsedIn(m) \ {b} : z[c].size = m[c].size
    BY <1>11, <2>1, <2>2
  <2>4. z[k].size = r[k].size
    BY <1>12, <2>1, <2>2
  <2>5. Keeps(m, z, s, {b})
    <3>1. \A u \in Unit : u < s => z[u] = m[u]
      BY <1>11, <1>17, <2>1 DEF Keeps
    <3>2. ASSUME NEW c \in UsedIn(m) \ {b}, NEW u \in c + 1 .. c + m[c].size
          PROVE  z[u] = m[u]
      <4>1. r[u] = m[u]
        BY <1>11, <3>2 DEF Keeps
      <4>2. c \in UsedIn(r) \ {k} /\ r[c].size = m[c].size
        BY <1>11
      <4>3. q[u] = r[u]
        BY <1>17, <3>2, <4>2 DEF Keeps
      <4>4. c \in UsedIn(q) \ {b} /\ q[c].size = m[c].size
        BY <1>17, <2>2, <3>2, <4>2
      <4>5. z[u] = q[u]
        BY <2>1, <3>2, <4>4 DEF Keeps
      <4> QED BY <4>1, <4>3, <4>5
    <3> QED BY <3>1, <3>2 DEF Keeps
  <2>6. ASSUME NEW i \in 1 .. old
        PROVE  z[k + i] = m[b + i]
    <3>1. r[k].size \in Nat /\ q[k].size = r[k].size /\ k \in UsedIn(q) \ {b}
      BY <1>10, <1>11, <1>12, <1>17, Payloads
    <3>2. k + i \in k + 1 .. k + q[k].size
      BY <1>11, <1>14, <2>6, <3>1
    <3>3. z[k + i] = q[k + i]
      BY <2>1, <3>1, <3>2 DEF Keeps
    <3>4. q[k + i] = r[b + i]
      BY <1>16, <2>6
    <3>5. b + i \in b + 1 .. b + m[b].size
      BY <1>3, <1>13, <2>6
    <3>6. r[b + i] = m[b + i]
      BY <1>3, <1>11, <3>5 DEF Keeps
    <3> QED BY <3>3, <3>4, <3>6
  <2> QED BY <1>11, <1>13, <2>1, <2>3, <2>4, <2>5, <2>6 DEF Moved
<1>27. k \in BlocksOf(z)
  BY <1>26 DEF Moved, UsedIn
<1> QED BY <1>1, <1>4, <1>9, <1>20, <1>21, <1>24, <1>25, <1>26, <1>27 DEF InService, frozen

LEMMA MallocFailsStep ==
  ASSUME Inv, NEW size, MallocFails(size)
  PROVE  InService' /\ UNCHANGED memory
<1>1. /\ initialized \/ CanInitialize
      /\ next' = NextAddress /\ Initialized /\ UNCHANGED <<memory, pages, first, last>>
  BY DEF MallocFails
<1>2. Running(memory, last, first, StartAddress, EndAddress, NextAddress, pages)
  BY <1>1, ReadyFromInv DEF Ready
<1> QED BY <1>1, <1>2 DEF InService, Initialized

LEMMA GrowMemoryStep ==
  ASSUME Inv, GrowMemory
  PROVE  Inv' /\ UNCHANGED memory
<1>1. /\ pages < MaxPages /\ pages' = pages + 1
      /\ UNCHANGED <<memory, first, last, next, start, end, initialized>>
  BY DEF GrowMemory, frozen
<1>2. /\ pages \in Nat /\ pages' \in InitialPages .. MaxPages
      /\ pages * PageUnits <= pages' * PageUnits
      /\ pages * PageUnits \in Nat /\ pages' * PageUnits \in Nat
  <2>1. pages \in InitialPages .. MaxPages /\ pages \in Nat
    BY MemoryEndFacts
  <2>2. pages + 1 \in Nat /\ pages + 1 >= pages /\ pages + 1 \in InitialPages .. MaxPages
    BY <1>1, <2>1, PagesAssumption
  <2> QED BY <1>1, <2>1, <2>2, PageArithmetic
<1>3. CASE Unused
  BY <1>1, <1>2, <1>3 DEF Inv, Unused, Blocks
<1>4. CASE InService
  <2>1. Running(memory, last, first, start, end, next, pages)
    BY <1>4 DEF InService
  <2>2. next \in Nat
    BY <2>1, RunningParts
  <2>3. BlocksOf(memory) # {} => next <= pages' * PageUnits
    BY <1>2, <2>1, <2>2 DEF Running
  <2>4. Running(memory, last, first, start, end, next, pages')
    BY <1>2, <2>1, <2>3 DEF Running
  <2> QED BY <1>1, <1>4, <2>4 DEF InService, Inv
<1> QED BY <1>1, <1>3, <1>4 DEF Inv

\* A write reaches one unit, of the static data or of an allocation.
LEMMA WriteStep ==
  ASSUME Inv, NEW u \in Owned, NEW value \in Data, Write(u, value)
  PROVE  /\ Inv' /\ UsedIn(memory') = UsedIn(memory)
         /\ \A c \in UsedIn(memory) : memory'[c].size = memory[c].size
         /\ \A v \in Unit \ {u} : memory'[v] = memory[v]
<1>1. /\ memory' = [memory EXCEPT ![u] = value]
      /\ UNCHANGED <<pages, first, last, next, start, end, initialized>>
  BY DEF Write, frozen
<1>2. memory \in Memories
  BY RunningParts DEF Inv, Unused, InService
<1>3. value \in Value /\ value \notin Header
  BY NotHeaders DEF Value
<1>4. /\ memory' \in Memories /\ \A v \in Unit \ {u} : memory'[v] = memory[v]
      /\ u \in Unit => memory'[u] = value
  BY <1>1, <1>2, <1>3 DEF Memories
<1>5. CASE Unused
  <2>1. BlocksOf(memory') = {}
    BY <1>3, <1>4, <1>5 DEF Unused, Blocks, BlocksOf
  <2>2. Unused'
    BY <1>1, <1>4, <1>5, <2>1 DEF Unused, Blocks
  <2> QED BY <1>4, <1>5, <2>1, <2>2 DEF Inv, UsedIn, Unused, Blocks
<1>6. CASE InService
  <2>1. /\ Running(memory, last, first, start, end, next, pages)
        /\ Sound(memory, last, start, next) /\ Settled(memory)
        /\ StaticEnd <= start /\ start \in Nat
    BY <1>6, RunningParts DEF InService
  <2>2. u \notin BlocksOf(memory)
    <3>1. CASE u \in Static
      <4>1. u \in Nat /\ u < start
        BY <2>1, <3>1, StaticEndFacts
      <4> QED BY <2>1, <4>1, BelowTheHeap DEF BlocksOf
    <3>2. CASE u \notin Static
      <4>1. PICK b \in InUse : u \in Payload(b) .. b + memory[b].size
        BY <3>2 DEF Owned
      <4>2. b \in BlocksOf(memory)
        BY DEF InUse, Blocks
      <4>3. b \in Nat /\ memory[b].size \in Nat
        BY <2>1, <4>2, Payloads
      <4>4. u \in b .. b + memory[b].size /\ u # b
        BY <4>1, <4>3 DEF Payload
      <4> QED BY <2>1, <4>2, <4>4, Payloads
    <3> QED BY <3>1, <3>2
  <2>3. /\ \A c \in BlocksOf(memory) : memory'[c] = memory[c]
        /\ \A v \in Unit \ BlocksOf(memory) : memory'[v] \notin Header
    BY <1>3, <1>4, <2>2 DEF BlocksOf
  <2>4. PICK q : q = memory'
    OBVIOUS
  <2>5. /\ q \in Memories /\ \A c \in BlocksOf(memory) : q[c] = memory[c]
        /\ \A v \in Unit \ BlocksOf(memory) : q[v] \notin Header
    BY <1>4, <2>3, <2>4
  <2>6. /\ Sound(q, last, start, next) /\ Settled(q)
        /\ BlocksOf(q) = BlocksOf(memory) /\ UsedIn(q) = UsedIn(memory)
    BY <2>1, <2>5, ContentsEffect
  <2>7. Running(q, last, first, start, end, next, pages)
    BY <2>1, <2>6 DEF Running
  <2>8. Inv'
    BY <1>1, <1>6, <2>4, <2>7 DEF Inv, InService
  <2> QED BY <1>4, <2>3, <2>4, <2>6, <2>8 DEF UsedIn
<1> QED BY <1>5, <1>6 DEF Inv

-----------------------------------------------------------------------------
(* The invariant and the properties it implies.                            *)

LEMMA InvInit == Init => Inv
<1> SUFFICES ASSUME Init PROVE Inv
  OBVIOUS
<1>1. memory \in Memories /\ Blocks = {}
  BY NotHeaders DEF Init, Memories, Value, Blocks, BlocksOf
<1> QED BY <1>1, PagesAssumption DEF Init, Inv, Unused

LEMMA InvNext == Inv /\ [Next]_vars => Inv'
<1> SUFFICES ASSUME Inv, [Next]_vars PROVE Inv'
  OBVIOUS
<1>1. ASSUME NEW size \in Sizes, Malloc(size) PROVE Inv'
  BY <1>1, MallocStep DEF Inv
<1>2. ASSUME NEW size \in Sizes, Calloc(size) PROVE Inv'
  BY <1>2, CallocStep DEF Inv
<1>3. ASSUME NEW size \in Sizes, MallocFails(size) PROVE Inv'
  BY <1>3, MallocFailsStep DEF Inv
<1>4. ASSUME NEW size \in Sizes, NEW p \in Live, Resize(p, size) PROVE Inv'
  <2>1. p - 1 \in Blocks /\ size \in Nat /\ memory[p - 1].size \in Nat
    BY LiveBlocks, SizesAssumption
  <2>2. CASE size <= memory[p - 1].size
    BY <1>4, <2>1, <2>2, ReducedStep DEF Resize, Inv
  <2>3. CASE ~(size <= memory[p - 1].size)
    <3>1. size > memory[p - 1].size
      BY <2>1, <2>3
    <3> QED BY <1>4, <2>1, <2>3, <3>1, ExpandedStep DEF Resize, Inv
  <2> QED BY <2>2, <2>3
<1>5. ASSUME NEW size \in Sizes, NEW p \in Live, Move(p, size) PROVE Inv'
  BY <1>5, MoveStep DEF Inv
<1>6. ASSUME NEW size \in Sizes, NEW p \in Live, ReallocFails(p, size) PROVE Inv'
  BY <1>6 DEF ReallocFails, vars, Inv, Unused, InService, Blocks
<1>7. ASSUME NEW size \in Sizes, NEW b \in Blocks, ExpandBlock(b, size) PROVE Inv'
  BY <1>7, ExpandedStep, SizesAssumption DEF ExpandBlock, Inv
<1>8. ASSUME NEW p \in Live, Free(p) PROVE Inv'
  BY <1>8, LiveBlocks, FreedStep DEF Free, Inv
<1>9. ASSUME NEW size \in Sizes \cup {0}, NEW b \in Blocks, ReduceBlock(b, size) PROVE Inv'
  <2>1. size \in Nat
    BY SizesAssumption
  <2> QED BY <1>9, <2>1, ReducedStep DEF ReduceBlock, Inv
<1>10. ASSUME NEW b \in Blocks, MergeFreeBlocks(b) PROVE Inv'
  BY <1>10, FreedStep DEF MergeFreeBlocks, Inv
<1>11. ASSUME GrowMemory PROVE Inv'
  BY <1>11, GrowMemoryStep
<1>12. ASSUME NEW u \in Owned, NEW value \in Data, Write(u, value) PROVE Inv'
  BY <1>12, WriteStep
<1>13. ASSUME CannotInitialize \/ UNCHANGED vars PROVE Inv'
  BY <1>13 DEF CannotInitialize, vars, Inv, Unused, InService, Blocks
<1> QED BY <1>1, <1>2, <1>3, <1>4, <1>5, <1>6, <1>7, <1>8, <1>9, <1>10, <1>11, <1>12, <1>13 DEF Next

LEMMA Invariant == Spec => []Inv
BY InvInit, InvNext, PTL DEF Spec

LEMMA InServiceFacts ==
  ASSUME InService
  PROVE  /\ Sound(memory, last, start, next) /\ Settled(memory)
         /\ memory \in Memories /\ start \in Nat \ {0} /\ next \in Nat
         /\ start <= next /\ next <= Limit /\ Limit \in Nat
         /\ Blocks # {} => start < next /\ last \in Blocks
<1>1. Sound(memory, last, start, next) /\ Settled(memory)
  BY DEF InService, Running
<1>2. /\ memory \in Memories /\ start \in Nat \ {0} /\ next \in Nat /\ next <= Limit
      /\ Limit \in Nat /\ (Blocks = {} => start = next)
      /\ (Blocks # {} => last \in Blocks)
  BY <1>1, LimitNat DEF Sound, Blocks
<1>3. ASSUME Blocks # {} PROVE start < next
  <2>1. PICK b : b \in BlocksOf(memory)
    BY <1>3 DEF Blocks
  <2>2. start <= b /\ b + memory[b].size < next /\ b \in Nat /\ memory[b].size \in Nat
    BY <1>1, <2>1, Payloads
  <2> QED BY <1>2, <2>2
<1>4. start <= next
  BY <1>2, <1>3
<1> QED BY <1>1, <1>2, <1>3, <1>4

LEMMA InvTypeOK == Inv => TypeOK
<1>1. CASE Unused
  <2>1. initialized \in BOOLEAN
    BY <1>1 DEF Unused
  <2>2. {first, last} \subseteq Link
    BY <1>1 DEF Unused, Link
  <2>3. next \in 0 .. Limit
    BY <1>1, LimitNat DEF Unused, Null
  <2>4. /\ memory \in [Unit -> Value \cup Header] /\ pages \in InitialPages .. MaxPages
        /\ start \in Starts /\ end \in Ends
    BY <1>1 DEF Unused, Memories
  <2> QED BY <2>1, <2>2, <2>3, <2>4 DEF TypeOK
<1>2. CASE InService
  <2>1. /\ memory \in [Unit -> Value \cup Header] /\ next \in 0 .. Limit
        /\ start \in 0 .. Limit /\ (Blocks # {} => start \in Unit /\ last \in Unit)
    BY <1>2, InServiceFacts DEF Memories, Unit, Blocks, BlocksOf
  <2>2. /\ pages \in InitialPages .. MaxPages /\ end \in 0 .. Limit
        /\ (Blocks # {} => first = start) /\ (Blocks = {} => first = Null)
    BY <1>2 DEF InService, Running, Blocks
  <2>3. Blocks = {} => last = Null
    BY <1>2, InServiceFacts DEF Sound, Blocks
  <2> QED BY <1>2, <2>1, <2>2, <2>3 DEF InService, TypeOK, Link
<1> QED BY <1>1, <1>2 DEF Inv

LEMMA InvTiled == Inv => Tiled
<1>1. CASE Unused
  BY <1>1 DEF Unused, Tiled
<1>2. CASE InService
  <2>1. Sound(memory, last, start, next) /\ start \in Nat /\ next \in Nat
    BY <1>2, InServiceFacts
  <2>2. \A b \in Blocks : b \in start .. next - 1
    <3> SUFFICES ASSUME NEW b \in BlocksOf(memory) PROVE b \in start .. next - 1
      BY DEF Blocks
    <3>1. start <= b /\ b + memory[b].size < next /\ b \in Nat /\ memory[b].size \in Nat
      BY <2>1, Payloads
    <3> QED BY <2>1, <3>1
  <2>3. /\ \A b, c \in Blocks : b < c => b + memory[b].size < c
        /\ \A u \in start .. next - 1 : \E b \in Blocks : b <= u /\ u <= b + memory[b].size
    BY <2>1 DEF Sound, Blocks
  <2> QED BY <2>2, <2>3 DEF Tiled
<1> QED BY <1>1, <1>2 DEF Inv

LEMMA InvLinked == Inv => Linked
<1>1. CASE Unused
  BY <1>1 DEF Unused, Linked
<1>2. CASE InService
  <2>1. Sound(memory, last, start, next)
    BY <1>2, InServiceFacts
  <2>2. \A b \in Blocks : b \in Nat /\ memory[b].size \in Nat
    BY <2>1, Payloads DEF Blocks
  <2>3. /\ \A b \in Blocks : memory[b].next = Null => b = last /\ b + 1 + memory[b].size = next
        /\ \A b \in Blocks : memory[b].next # Null =>
             /\ memory[b].next = b + 1 + memory[b].size /\ memory[b].next \in Blocks
             /\ memory[memory[b].next].previous = b
        /\ \A b \in Blocks : memory[b].previous = Null => b = start
        /\ \A b \in Blocks : memory[b].previous # Null =>
             memory[b].previous \in Blocks /\ memory[memory[b].previous].next = b
    BY <2>1 DEF Sound, Blocks
  <2>4. IF Blocks = {} THEN first = Null /\ last = Null
        ELSE first = start /\ last \in Blocks /\ memory[last].next = Null
    BY <1>2 DEF InService, Running, Sound, Blocks
  <2> QED BY <2>2, <2>3, <2>4 DEF Linked, Payload
<1> QED BY <1>1, <1>2 DEF Inv

LEMMA InvInRange == Inv => InRange
<1> SUFFICES ASSUME Inv, Blocks # {}
             PROVE  next <= MemoryEnd /\ next <= end /\ \A s \in Static : s < start
  BY DEF InRange
<1>1. InService
  BY BlocksMeanInService
<1>2. next <= MemoryEnd /\ next <= end /\ StaticEnd <= start
  BY <1>1 DEF InService, Running, MemoryEnd, Blocks
<1>3. start \in Nat
  BY <1>1, InServiceFacts
<1> QED BY <1>2, <1>3, StaticEndFacts

LEMMA InvFreeRunsServe == Inv => FreeRunsServe
<1> SUFFICES ASSUME Inv, NEW u \in start .. next - 1, NEW v \in start .. next - 1, u < v,
                    \A b \in InUse : v < b \/ b + memory[b].size < u
             PROVE  Fits(v - u) # {}
  BY DEF FreeRunsServe
<1>1. InService
  <2>1. ASSUME Unused PROVE FALSE
    <3>1. start \in Nat /\ next = 0
      BY <2>1, ConfigurationAssumption DEF Unused, Null
    <3>2. u >= start /\ u <= next - 1
      BY <3>1
    <3> QED BY <3>1, <3>2
  <2> QED BY <2>1 DEF Inv
<1>2. /\ Sound(memory, last, start, next) /\ Settled(memory)
      /\ start \in Nat /\ next \in Nat
  BY <1>1, InServiceFacts
<1>3. u \in Nat /\ v \in Nat /\ v < next
  BY <1>2
<1>4. \A b \in Blocks : b \in Nat /\ memory[b].size \in Nat
  BY <1>2, Payloads DEF Blocks
<1>5. PICK b \in Blocks : b <= u /\ u <= b + memory[b].size
  BY <1>2 DEF Sound, Blocks
<1>6. b \notin InUse /\ memory[b].free
  <2>1. ~(v < b) /\ ~(b + memory[b].size < u)
    BY <1>3, <1>4, <1>5
  <2> QED BY <1>5, <2>1 DEF InUse
<1>7. v <= b + memory[b].size
  <2> SUFFICES ASSUME ~(v <= b + memory[b].size) PROVE FALSE
    OBVIOUS
  <2>1. v > b + memory[b].size
    BY <1>3, <1>4, <1>5
  <2>2. memory[b].next # Null
    <3>1. memory[b].next = Null => b + 1 + memory[b].size = next
      BY <1>2, <1>5 DEF Sound, Blocks
    <3> QED BY <1>2, <1>3, <1>4, <1>5, <2>1, <3>1
  <2>3. PICK c : c = memory[b].next
    OBVIOUS
  <2>4. c = b + 1 + memory[b].size /\ c \in Blocks /\ ~memory[c].free
    BY <1>2, <1>5, <1>6, <2>2, <2>3 DEF Sound, Settled, Blocks
  <2>5. c \in InUse
    BY <2>4 DEF InUse
  <2> QED BY <1>3, <1>4, <1>5, <2>1, <2>4, <2>5
<1>8. memory[b].size >= v - u
  BY <1>3, <1>4, <1>5, <1>7
<1> QED BY <1>5, <1>6, <1>8 DEF Fits

\* Memory, configuration and ends of the list always have the values TypeOK says.
THEOREM TypeCorrect == Spec => []TypeOK
BY Invariant, InvTypeOK, PTL

\* vircon__heap_merge, _reduce, _append and realloc keep the blocks a tiling of
\* the heap: no header overlaps a block and no unit is lost.
THEOREM TilesHeap == Spec => []Tiled
BY Invariant, InvTiled, PTL

\* They also keep the list in address order with matching links.
THEOREM KeepsLinks == Spec => []Linked
BY Invariant, InvLinked, PTL

\* vircon__heap_grow_to leaves every block inside memory and its range.
THEOREM StaysInRange == Spec => []InRange
BY Invariant, InvInRange, PTL

\* Eager merging serves any request a run of free units has room for.
THEOREM ReusesFreeRuns == Spec => []FreeRunsServe
BY Invariant, InvFreeRunsServe, PTL

-----------------------------------------------------------------------------
(* Heap implements Allocations.                                            *)

\* The units the program holds, in terms of blocks.
LEMMA OwnedUnits ==
  ASSUME Inv, NEW gone, NEW u \in Promise!OwnedBut(gone)
  PROVE  \/ u \in Static
         \/ \E c \in UsedIn(memory) : c + 1 \notin gone /\ u \in c + 1 .. c + memory[c].size
<1> SUFFICES ASSUME u \notin Static
             PROVE  \E c \in UsedIn(memory) : c + 1 \notin gone /\ u \in c + 1 .. c + memory[c].size
  OBVIOUS
<1> DEFINE live == [p \in Live |-> memory[p - 1].size]
<1>1. PICK p \in Live \ gone : u \in Promise!Region(p, live[p])
  BY DEF Promise!OwnedBut
<1>2. u \in p .. p + memory[p - 1].size - 1
  BY <1>1 DEF Promise!Region
<1>3. /\ p - 1 \in UsedIn(memory) /\ p = (p - 1) + 1 /\ p \in Nat
      /\ memory[p - 1].size \in Nat
  BY LiveBlocks
<1>4. PICK c : c = p - 1
  OBVIOUS
<1>5. u \in c + 1 .. c + memory[c].size
  BY <1>2, <1>3, <1>4
<1> QED BY <1>1, <1>3, <1>4, <1>5

LEMMA StaticBelow ==
  ASSUME NEW s \in Nat, StaticEnd <= s, s <= Limit, NEW u \in Static
  PROVE  u \in Unit /\ u < s
BY StaticEndFacts, LimitNat DEF Unit

LEMMA KeptUnits ==
  ASSUME Inv, NEW s \in Nat, StaticEnd <= s, s <= Limit, NEW but, Keeps(memory, memory', s, but),
         NEW gone, \A c \in but : c + 1 \in gone
  PROVE  Promise!Kept(Promise!OwnedBut(gone))
<1> SUFFICES ASSUME NEW u \in Promise!OwnedBut(gone) PROVE memory'[u] = memory[u]
  BY DEF Promise!Kept
<1>1. CASE u \in Static
  BY <1>1, StaticBelow DEF Keeps
<1>2. CASE u \notin Static
  <2>1. PICK c \in UsedIn(memory) : c + 1 \notin gone /\ u \in c + 1 .. c + memory[c].size
    BY <1>2, OwnedUnits
  <2>2. c \in UsedIn(memory) \ but
    BY <2>1
  <2> QED BY <2>1, <2>2 DEF Keeps
<1> QED BY <1>1, <1>2

\* The allocations, by the addresses the program has.
LEMMA LiveDomain ==
  ASSUME Inv
  PROVE  Live = {c + 1 : c \in UsedIn(memory)} /\ \A c \in UsedIn(memory) : c \in Nat
<1>1. \A c \in Blocks : c \in Nat
  BY LimitNat DEF Blocks, BlocksOf, Unit
<1> QED BY <1>1 DEF Live, InUse, Payload, UsedIn, Blocks

LEMMA LiveDomainNext ==
  ASSUME Inv'
  PROVE  Live' = {c + 1 : c \in UsedIn(memory')} /\ \A c \in UsedIn(memory') : c \in Nat
<1>1. \A c \in BlocksOf(memory') : c \in Nat
  BY LimitNat DEF BlocksOf, Unit
<1> QED BY <1>1 DEF Live, InUse, Payload, UsedIn, Blocks

\* Memory q is m with one allocation, at k, in the place of those in `gone'.
Substituted(m, q, gone, k, s) ==
  /\ k \in UsedIn(q)
  /\ \A c : c \in UsedIn(q) <=> c = k \/ (c \in UsedIn(m) /\ c + 1 \notin gone)
  /\ \A c \in UsedIn(m) : c + 1 \notin gone => c # k /\ q[c].size = m[c].size
  /\ \E but : Keeps(m, q, s, but) /\ \A c \in but : c + 1 \in gone

LEMMA ReplacedStep ==
  ASSUME Inv, InService', NEW gone, NEW k, Substituted(memory, memory', gone, k, start')
  PROVE  /\ Promise!ReplacedBy(gone, k + 1, memory'[k].size)
         /\ k + 1 \in 0 .. Limit /\ memory'[k].size \in 0 .. Limit
<1>0. /\ k \in UsedIn(memory')
      /\ UsedIn(memory') = {c \in UsedIn(memory) : c + 1 \notin gone} \cup {k}
      /\ \A c \in UsedIn(memory) : c + 1 \notin gone => c # k /\ memory'[c].size = memory[c].size
  BY DEF Substituted
<1>k. PICK but : Keeps(memory, memory', start', but) /\ \A c \in but : c + 1 \in gone
  BY DEF Substituted
<1>1. PICK q, s : q = memory' /\ s = start'
  OBVIOUS
<1>2. /\ Running(q, last', first', s, end', next', pages') /\ Sound(q, last', s, next')
      /\ s \in Nat /\ StaticEnd <= s /\ next' \in Nat /\ next' <= Limit /\ Limit \in Nat
  <2>1. Running(q, last', first', s, end', next', pages')
    BY <1>1 DEF InService
  <2> QED BY <2>1, RunningParts, LimitNat DEF Sound
<1>3. k \in BlocksOf(q) /\ k \in UsedIn(q)
  BY <1>0, <1>1 DEF UsedIn
<1>4. k \in Nat /\ q[k].size \in Nat /\ s <= k /\ k + q[k].size < next'
  BY <1>2, <1>3, Payloads
<1>5. s <= Limit /\ q[k].size \in 0 .. Limit /\ k + 1 \in 0 .. Limit
  BY <1>2, <1>4
<1>6. Promise!Kept(Promise!OwnedBut(gone))
  BY <1>k, <1>1, <1>2, <1>5, KeptUnits
<1>7. \A u \in Promise!Region(k + 1, q[k].size) : u \in k .. k + q[k].size /\ u # k
  BY <1>4 DEF Promise!Region
<1>8. Promise!Region(k + 1, q[k].size) \subseteq Promise!Unit
  BY <1>2, <1>3, <1>7, Payloads DEF Promise!Unit, Unit
<1>9. ASSUME NEW u \in Promise!Region(k + 1, q[k].size), u \in Promise!OwnedBut(gone)
      PROVE  FALSE
  <2>1. u \in k .. k + q[k].size /\ u >= s /\ u \in Unit
    BY <1>2, <1>3, <1>7, <1>9, Payloads
  <2>2. CASE u \in Static
    BY <2>1, <2>2, <1>2, <1>5, StaticBelow
  <2>3. CASE u \notin Static
    <3>1. PICK c \in UsedIn(memory) : c + 1 \notin gone /\ u \in c + 1 .. c + memory[c].size
      BY <1>9, <2>3, OwnedUnits
    <3>2. c \in BlocksOf(q) /\ c # k /\ q[c].size = memory[c].size
      BY <1>0, <1>1, <3>1 DEF UsedIn
    <3>3. c \in Nat /\ q[c].size \in Nat
      BY <1>2, <3>2, Payloads
    <3>4. u \in c .. c + q[c].size
      BY <3>1, <3>2, <3>3
    <3> QED BY <1>2, <1>3, <2>1, <3>2, <3>4, Payloads
  <2> QED BY <2>2, <2>3
<1>10. /\ Live = {c + 1 : c \in UsedIn(memory)} /\ Live' = {c + 1 : c \in UsedIn(q)}
       /\ \A c \in UsedIn(memory) : c \in Nat
  BY <1>1, LiveDomain, LiveDomainNext DEF Inv
<1>11. Live' = (Live \ gone) \cup {k + 1}
  BY <1>0, <1>1, <1>10
<1>12. \A p \in Live' : q[p - 1].size = IF p = k + 1 THEN q[k].size ELSE memory[p - 1].size
  <2> SUFFICES ASSUME NEW p \in Live'
               PROVE  q[p - 1].size = IF p = k + 1 THEN q[k].size ELSE memory[p - 1].size
    OBVIOUS
  <2>1. CASE p = k + 1
    <3>1. p - 1 = k
      BY <1>4, <2>1
    <3> QED BY <2>1, <3>1
  <2>2. CASE p # k + 1
    <3>1. PICK c \in UsedIn(memory) : p = c + 1 /\ c + 1 \notin gone
      BY <1>10, <1>11, <2>2
    <3>2. p - 1 = c
      BY <1>10, <3>1
    <3> QED BY <1>0, <1>1, <2>2, <3>1, <3>2
  <2> QED BY <2>1, <2>2
<1>13. [p \in Live' |-> q[p - 1].size] =
         [p \in (Live \ gone) \cup {k + 1} |->
            IF p = k + 1 THEN q[k].size ELSE [r \in Live |-> memory[r - 1].size][p]]
  BY <1>11, <1>12
<1> QED BY <1>1, <1>5, <1>6, <1>8, <1>9, <1>13 DEF Promise!ReplacedBy

LEMMA NoUseBefore ==
  ASSUME Unused
  PROVE  UsedIn(memory) = {} /\ Live = {}
BY DEF Unused, UsedIn, Live, InUse, Blocks

\* malloc and calloc allocate.
LEMMA GrantedAllocates ==
  ASSUME Inv, InService', NEW size, NEW k \in BlocksOf(memory'),
         Granted(memory, memory', k, size, start')
  PROVE  Promise!Next
<1>1. /\ k \notin UsedIn(memory) /\ k \in Nat
      /\ UsedIn(memory') = UsedIn(memory) \cup {k}
      /\ \A c \in UsedIn(memory) : memory'[c].size = memory[c].size
      /\ Keeps(memory, memory', start', {})
  BY DEF Granted
<1>2. Substituted(memory, memory', {}, k, start')
  BY <1>1 DEF Substituted
<1>3. /\ Promise!ReplacedBy({}, k + 1, memory'[k].size)
      /\ k + 1 \in 0 .. Limit /\ memory'[k].size \in 0 .. Limit
  BY <1>2, ReplacedStep
<1>4. k + 1 \notin Live
  BY <1>1, LiveDomain
<1>5. Promise!Allocate(k + 1, memory'[k].size)
  BY <1>3, <1>4 DEF Promise!Allocate
<1> QED BY <1>3, <1>5 DEF Promise!Next

\* realloc in place, and the helpers that resize a block in use, resize.
LEMMA ResizedResizes ==
  ASSUME Inv, InService', NEW size, NEW k \in UsedIn(memory),
         Resized(memory, memory', k, size, start')
  PROVE  Promise!Next
<1>1. /\ UsedIn(memory') = UsedIn(memory)
      /\ \A c \in UsedIn(memory) \ {k} : memory'[c].size = memory[c].size
      /\ Keeps(memory, memory', start', {k})
      /\ \A u \in k + 1 .. k + memory'[k].size : u <= k + memory[k].size => memory'[u] = memory[u]
  BY DEF Resized
<1>2. /\ Live = {c + 1 : c \in UsedIn(memory)} /\ \A c \in UsedIn(memory) : c \in Nat
      /\ k + 1 \in Live
  BY LiveDomain
<1>3. \A c \in UsedIn(memory) : c + 1 \notin {k + 1} <=> c # k
  BY <1>2
<1>4. Substituted(memory, memory', {k + 1}, k, start')
  BY <1>1, <1>2, <1>3 DEF Substituted
<1>5. /\ Promise!ReplacedBy({k + 1}, k + 1, memory'[k].size)
      /\ k + 1 \in 0 .. Limit /\ memory'[k].size \in 0 .. Limit
  BY <1>4, ReplacedStep
<1>6. memory[k].size \in Nat /\ (k + 1) - 1 = k /\ k \in Nat
  <2>1. (k + 1) - 1 = k
    BY <1>2
  <2> QED BY <1>2, <2>1, LiveBlocks
<1> DEFINE n == memory'[k].size
<1>8. ASSUME NEW i \in 0 .. n - 1, i < memory[k].size
      PROVE  memory'[(k + 1) + i] = memory[(k + 1) + i]
  <2>1. n \in Nat
    BY <1>5, LimitNat
  <2>2. (k + 1) + i \in k + 1 .. k + n /\ (k + 1) + i <= k + memory[k].size
    BY <1>6, <1>8, <2>1
  <2> QED BY <1>1, <2>2
<1>9. [p \in Live |-> memory[p - 1].size][k + 1] = memory[k].size
  BY <1>2, <1>6
<1>10. Promise!Resize(k + 1, k + 1, n)
  <2>1. k + 1 \notin (DOMAIN [p \in Live |-> memory[p - 1].size]) \ {k + 1}
    OBVIOUS
  <2>2. Promise!ReplacedBy({k + 1}, k + 1, n)
    BY <1>5
  <2>3. \A i \in 0 .. n - 1 : i < [p \in Live |-> memory[p - 1].size][k + 1]
           => memory'[(k + 1) + i] = memory[(k + 1) + i]
    BY <1>8, <1>9
  <2> QED BY <2>1, <2>2, <2>3, Zenon DEF Promise!Resize
<1> QED BY <1>2, <1>5, <1>10 DEF Promise!Next

\* realloc that moves an allocation resizes it too.
LEMMA MovedResizes ==
  ASSUME Inv, InService', NEW size \in Nat, NEW b \in UsedIn(memory), NEW k \in BlocksOf(memory'),
         Moved(memory, memory', b, k, size, start')
  PROVE  Promise!Next
<1>1. /\ k \notin UsedIn(memory)
      /\ UsedIn(memory') = (UsedIn(memory) \ {b}) \cup {k}
      /\ \A c \in UsedIn(memory) \ {b} : memory'[c].size = memory[c].size
      /\ Keeps(memory, memory', start', {b})
      /\ \A i \in 1 .. memory[b].size : memory'[k + i] = memory[b + i]
  BY DEF Moved
<1>2. /\ Live = {c + 1 : c \in UsedIn(memory)} /\ \A c \in UsedIn(memory) : c \in Nat
      /\ b + 1 \in Live /\ k \in Nat /\ k \in UsedIn(memory')
  <2>1. k \in Nat
    BY LimitNat DEF BlocksOf, Unit
  <2> QED BY <1>1, <2>1, LiveDomain
<1>b. b \in Nat
  BY <1>2
<1>3. \A c \in UsedIn(memory) : c + 1 \notin {b + 1} <=> c # b
  <2> SUFFICES ASSUME NEW c \in UsedIn(memory) PROVE c + 1 \notin {b + 1} <=> c # b
    OBVIOUS
  <2>1. c \in Nat
    BY <1>2
  <2> QED BY <2>1, <1>b
<1>4. Substituted(memory, memory', {b + 1}, k, start')
  BY <1>1, <1>2, <1>3 DEF Substituted
<1>5. /\ Promise!ReplacedBy({b + 1}, k + 1, memory'[k].size)
      /\ k + 1 \in 0 .. Limit /\ memory'[k].size \in 0 .. Limit
  BY <1>4, ReplacedStep
<1>6. memory[b].size \in Nat /\ (b + 1) - 1 = b /\ b \in Nat
  <2>1. (b + 1) - 1 = b
    BY <1>b
  <2> QED BY <1>2, <2>1, LiveBlocks
<1> DEFINE n == memory'[k].size
<1>8. ASSUME NEW i \in 0 .. n - 1, i < memory[b].size
      PROVE  memory'[(k + 1) + i] = memory[(b + 1) + i]
  <2>1. n \in Nat
    BY <1>5, LimitNat
  <2>2. i + 1 \in 1 .. memory[b].size /\ (k + 1) + i = k + (i + 1) /\ (b + 1) + i = b + (i + 1)
    BY <1>2, <1>6, <1>8, <2>1
  <2> QED BY <1>1, <2>2
<1>9. [p \in Live |-> memory[p - 1].size][b + 1] = memory[b].size
  BY <1>2, <1>6
<1>10. k + 1 \notin Live
  BY <1>1, <1>2
<1>11. Promise!Resize(b + 1, k + 1, n)
  <2>1. k + 1 \notin (DOMAIN [p \in Live |-> memory[p - 1].size]) \ {b + 1}
    BY <1>10
  <2>2. Promise!ReplacedBy({b + 1}, k + 1, n)
    BY <1>5
  <2>3. \A i \in 0 .. n - 1 : i < [p \in Live |-> memory[p - 1].size][b + 1]
           => memory'[(k + 1) + i] = memory[(b + 1) + i]
    BY <1>8, <1>9
  <2> QED BY <2>1, <2>2, <2>3, Zenon DEF Promise!Resize
<1> QED BY <1>2, <1>5, <1>11 DEF Promise!Next

\* A step that leaves what the program holds alone is internal to the heap.
LEMMA UntouchedIsInternal ==
  ASSUME Inv, Inv', NEW s \in Nat, StaticEnd <= s, s <= Limit,
         UsedIn(memory') = UsedIn(memory),
         \A c \in UsedIn(memory) : memory'[c].size = memory[c].size,
         Keeps(memory, memory', s, {})
  PROVE  Promise!Next
<1>1. Promise!Kept(Promise!Owned)
  BY KeptUnits DEF Promise!Owned
<1>2. Live' = Live /\ \A p \in Live : memory'[p - 1].size = memory[p - 1].size
  BY LiveDomain, LiveDomainNext, LiveBlocks
<1>3. UNCHANGED [p \in Live |-> memory[p - 1].size]
  BY <1>2
<1> QED BY <1>1, <1>3 DEF Promise!Next, Promise!Internal

\* free, and merging a block the program has marked free, release.
LEMMA ReleasedReleases ==
  ASSUME Inv, InService', NEW b \in Blocks, Released(memory, memory', b, start')
  PROVE  Promise!Next
<1>1. /\ UsedIn(memory') = UsedIn(memory) \ {b}
      /\ \A c \in UsedIn(memory') : memory'[c].size = memory[c].size
      /\ Keeps(memory, memory', start', {b})
  BY DEF Released
<1>2. Inv' /\ start' \in Nat /\ StaticEnd <= start' /\ start' <= Limit
  <2>1. Running(memory', last', first', start', end', next', pages')
    BY DEF InService
  <2>2. start' \in Nat /\ StaticEnd <= start' /\ start' <= next' /\ next' \in 0 .. Limit
    <3>1. start' \in Nat /\ StaticEnd <= start' /\ Sound(memory', last', start', next')
      BY <2>1, RunningParts
    <3>2. next' \in 0 .. Limit /\ next' \in Nat
      BY <3>1, LimitNat DEF Sound
    <3>3. CASE BlocksOf(memory') = {}
      BY <3>1, <3>2, <3>3 DEF Sound
    <3>4. CASE BlocksOf(memory') # {}
      <4>1. PICK c \in BlocksOf(memory') : TRUE
        BY <3>4
      <4> QED BY <3>1, <3>2, <4>1, Payloads
    <3> QED BY <3>1, <3>2, <3>3, <3>4
  <2> QED BY <2>2, LimitNat DEF Inv
<1>3. /\ Live = {c + 1 : c \in UsedIn(memory)} /\ \A c \in UsedIn(memory) : c \in Nat
      /\ Live' = {c + 1 : c \in UsedIn(memory')}
  BY <1>2, LiveDomain, LiveDomainNext
<1>4. CASE b \in UsedIn(memory)
  <2>1. b \in Nat /\ b + 1 \in Live
    BY <1>3, <1>4
  <2>2. Live' = Live \ {b + 1}
    BY <1>1, <1>3, <2>1
  <2>3. \A p \in Live' : memory'[p - 1].size = memory[p - 1].size
    <3> SUFFICES ASSUME NEW p \in Live' PROVE memory'[p - 1].size = memory[p - 1].size
      OBVIOUS
    <3>1. PICK c \in UsedIn(memory') : p = c + 1
      BY <1>3
    <3>2. p - 1 = c
      BY <1>1, <1>3, <3>1
    <3> QED BY <1>1, <3>2
  <2>4. [p \in Live' |-> memory'[p - 1].size] =
          [p \in Live \ {b + 1} |-> [r \in Live |-> memory[r - 1].size][p]]
    BY <2>2, <2>3
  <2>5. Promise!Kept(Promise!OwnedBut({b + 1}))
    BY <1>1, <1>2, KeptUnits
  <2>6. Promise!Release(b + 1)
    BY <2>4, <2>5 DEF Promise!Release
  <2> QED BY <2>1, <2>6 DEF Promise!Next
<1>5. CASE b \notin UsedIn(memory)
  <2>1. UsedIn(memory') = UsedIn(memory) /\ Keeps(memory, memory', start', {})
    BY <1>1, <1>5 DEF Keeps
  <2> QED BY <1>1, <1>2, <2>1, UntouchedIsInternal
<1> QED BY <1>4, <1>5

LEMMA WriteWrites ==
  ASSUME Inv, NEW u \in Owned, NEW value \in Data, Write(u, value)
  PROVE  Promise!Next
<1>1. /\ Inv' /\ UsedIn(memory') = UsedIn(memory)
      /\ \A c \in UsedIn(memory) : memory'[c].size = memory[c].size
      /\ \A v \in Unit \ {u} : memory'[v] = memory[v]
  BY WriteStep
<1>2. /\ Live = {c + 1 : c \in UsedIn(memory)} /\ \A c \in UsedIn(memory) : c \in Nat
      /\ Live' = {c + 1 : c \in UsedIn(memory')}
  BY <1>1, LiveDomain, LiveDomainNext
<1>3. UNCHANGED [p \in Live |-> memory[p - 1].size]
  <2>1. Live' = Live
    BY <1>1, <1>2
  <2>2. \A p \in Live : memory'[p - 1].size = memory[p - 1].size
    BY <1>1, LiveBlocks
  <2> QED BY <2>1, <2>2
<1>4. u \in Promise!Owned
  <2>1. CASE u \in Static
    BY <2>1 DEF Promise!Owned, Promise!OwnedBut
  <2>2. CASE u \notin Static
    <3>1. PICK b \in InUse : u \in Payload(b) .. b + memory[b].size
      BY <2>2 DEF Owned
    <3>2. b \in UsedIn(memory) /\ b \in Nat
      BY <1>2 DEF InUse, UsedIn, Blocks
    <3>3. b + 1 \in Live /\ (b + 1) - 1 = b
      BY <1>2, <3>2
    <3>4. memory[b].size \in Nat
      BY <3>3, LiveBlocks
    <3>5. u \in (b + 1) .. (b + 1) + memory[b].size - 1
      BY <3>1, <3>2, <3>4 DEF Payload
    <3>6. u \in Promise!Region(b + 1, [p \in Live |-> memory[p - 1].size][b + 1])
      BY <3>3, <3>5 DEF Promise!Region
    <3> QED BY <3>3, <3>6 DEF Promise!Owned, Promise!OwnedBut
  <2> QED BY <2>1, <2>2
<1>5. \A v \in Promise!Owned : v \in Unit
  <2> SUFFICES ASSUME NEW v \in Promise!Owned PROVE v \in Unit
    OBVIOUS
  <2>1. CASE v \in Static
    <3>1. StaticEnd \in Nat /\ Static = 0 .. StaticEnd - 1 /\ StaticEnd <= Limit
      <4>1. InitialPages \in Nat /\ RegionPages \in Nat /\ RegionPages >= InitialPages
        BY PagesAssumption
      <4> QED BY <4>1, StaticEndFacts, PageArithmetic DEF StaticEnd, Limit
    <3> QED BY <2>1, <3>1, LimitNat DEF Unit
  <2>2. CASE v \notin Static
    <3>1. PICK c \in UsedIn(memory) : v \in c + 1 .. c + memory[c].size
      BY <2>2, OwnedUnits DEF Promise!Owned
    <3>2. c \in BlocksOf(memory)
      BY DEF UsedIn
    <3>3. Sound(memory, last, start, next)
      BY <3>2, BlocksMeanInService, InServiceFacts DEF Blocks
    <3>4. c \in Nat /\ memory[c].size \in Nat
      BY <3>2, <3>3, Payloads
    <3>5. v \in c .. c + memory[c].size
      BY <3>1, <3>4
    <3> QED BY <3>2, <3>3, <3>5, Payloads
  <2> QED BY <2>1, <2>2
<1>6. Promise!Kept(Promise!Owned \ {u})
  BY <1>1, <1>5 DEF Promise!Kept
<1>7. Promise!Write(u)
  BY <1>3, <1>4, <1>6 DEF Promise!Write
<1> QED BY <1>4, <1>7 DEF Promise!Next

LEMMA PromiseInit == Init => Promise!Init
<1> SUFFICES ASSUME Init PROVE Promise!Init
  OBVIOUS
<1>1. Live = {}
  BY NotHeaders DEF Init, Live, InUse, Blocks, BlocksOf
<1> QED BY <1>1 DEF Promise!Init

\* Every step of the heap is one of Allocations or changes nothing it can see.
LEMMA PromiseNext == Inv /\ [Next]_vars => [Promise!Next]_(Promise!vars)
<1> SUFFICES ASSUME Inv, [Next]_vars PROVE Promise!Next \/ UNCHANGED Promise!vars
  OBVIOUS
<1>1. ASSUME NEW size \in Sizes, Malloc(size) PROVE Promise!Next
  <2>1. PICK k \in BlocksOf(memory') : Granted(memory, memory', k, size, start')
    BY <1>1, MallocStep
  <2> QED BY <1>1, <2>1, MallocStep, GrantedAllocates
<1>2. ASSUME NEW size \in Sizes, Calloc(size) PROVE Promise!Next
  <2>1. PICK k \in BlocksOf(memory') : Granted(memory, memory', k, size, start')
    BY <1>2, CallocStep
  <2> QED BY <1>2, <2>1, CallocStep, GrantedAllocates
<1>3. ASSUME UNCHANGED memory PROVE UNCHANGED Promise!vars
  <2>1. Live' = Live
    BY <1>3 DEF Live, InUse, Blocks
  <2> QED BY <1>3, <2>1 DEF Promise!vars
<1>4. ASSUME NEW size \in Sizes, NEW p \in Live, Resize(p, size) PROVE Promise!Next
  <2>1. /\ p - 1 \in Blocks /\ size \in Nat /\ memory[p - 1].size \in Nat
        /\ p - 1 \in UsedIn(memory)
    BY LiveBlocks, SizesAssumption
  <2>2. start' = start
    BY <1>4 DEF Resize, frozen
  <2>3. InService' /\ Resized(memory, memory', p - 1, size, start)
    <3>1. CASE size <= memory[p - 1].size
      BY <1>4, <2>1, <3>1, ReducedStep DEF Resize
    <3>2. CASE ~(size <= memory[p - 1].size)
      <4>1. size > memory[p - 1].size
        BY <2>1, <3>2
      <4> QED BY <1>4, <2>1, <3>2, <4>1, ExpandedStep DEF Resize
    <3> QED BY <3>1, <3>2
  <2> QED BY <2>1, <2>2, <2>3, ResizedResizes
<1>5. ASSUME NEW size \in Sizes, NEW p \in Live, Move(p, size) PROVE Promise!Next
  <2>1. PICK k \in BlocksOf(memory') : Moved(memory, memory', p - 1, k, size, start)
    BY <1>5, MoveStep
  <2>2. start' = start /\ p - 1 \in UsedIn(memory) /\ size \in Nat
    BY <1>5, LiveBlocks, SizesAssumption DEF Move, frozen
  <2> QED BY <1>5, <2>1, <2>2, MoveStep, MovedResizes
<1>6. ASSUME NEW size \in Sizes, NEW b \in Blocks, ExpandBlock(b, size) PROVE Promise!Next
  <2>1. InService' /\ Resized(memory, memory', b, size, start) /\ b \in UsedIn(memory)
    BY <1>6, SizesAssumption, ExpandedStep DEF ExpandBlock
  <2>2. start' = start
    BY <1>6 DEF ExpandBlock, frozen
  <2> QED BY <2>1, <2>2, ResizedResizes
<1>7. ASSUME NEW p \in Live, Free(p) PROVE Promise!Next
  <2>1. p - 1 \in Blocks
    BY LiveBlocks
  <2>2. InService' /\ Released(memory, memory', p - 1, start)
    BY <1>7, <2>1, FreedStep DEF Free
  <2>3. start' = start
    BY <1>7 DEF Free, frozen
  <2> QED BY <2>1, <2>2, <2>3, ReleasedReleases
<1>8. ASSUME NEW size \in Sizes \cup {0}, NEW b \in Blocks, ReduceBlock(b, size)
      PROVE  Promise!Next
  <2>1. size \in Nat
    BY SizesAssumption
  <2>2. InService' /\ Resized(memory, memory', b, size, start) /\ InService
    BY <1>8, <2>1, ReducedStep DEF ReduceBlock
  <2>3. start' = start
    BY <1>8 DEF ReduceBlock, frozen
  <2>4. CASE b \in UsedIn(memory)
    BY <2>2, <2>3, <2>4, ResizedResizes
  <2>5. CASE b \notin UsedIn(memory)
    <3>1. /\ UsedIn(memory') = UsedIn(memory) /\ Keeps(memory, memory', start, {})
          /\ \A c \in UsedIn(memory) : memory'[c].size = memory[c].size
      BY <2>2, <2>5 DEF Resized, Keeps
    <3>2. start \in Nat /\ StaticEnd <= start /\ start <= Limit
      <4>1. start \in Nat /\ start <= next /\ next <= Limit /\ next \in Nat /\ Limit \in Nat
        BY <2>2, InServiceFacts
      <4>2. StaticEnd <= start
        BY <2>2 DEF InService, Running
      <4> QED BY <4>1, <4>2
    <3>3. Inv'
      BY <2>2 DEF Inv
    <3> QED BY <3>1, <3>2, <3>3, UntouchedIsInternal
  <2> QED BY <2>4, <2>5
<1>9. ASSUME NEW b \in Blocks, MergeFreeBlocks(b) PROVE Promise!Next
  <2>1. InService' /\ Released(memory, memory', b, start)
    BY <1>9, FreedStep DEF MergeFreeBlocks
  <2>2. start' = start
    BY <1>9 DEF MergeFreeBlocks, frozen
  <2> QED BY <2>1, <2>2, ReleasedReleases
<1>10. ASSUME NEW u \in Owned, NEW value \in Data, Write(u, value) PROVE Promise!Next
  BY <1>10, WriteWrites
<1>11. ASSUME NEW size \in Sizes, MallocFails(size) PROVE UNCHANGED memory
  BY <1>11 DEF MallocFails
<1>12. ASSUME NEW size \in Sizes, NEW p \in Live, ReallocFails(p, size) PROVE UNCHANGED memory
  BY <1>12 DEF ReallocFails, vars
<1>13. ASSUME GrowMemory \/ CannotInitialize \/ UNCHANGED vars PROVE UNCHANGED memory
  BY <1>13 DEF GrowMemory, CannotInitialize, vars
<1> QED BY <1>1, <1>2, <1>3, <1>4, <1>5, <1>6, <1>7, <1>8, <1>9, <1>10, <1>11, <1>12, <1>13
        DEF Next

\* The heap of vircon.h keeps the promise of Allocations: what the program
\* holds is disjoint, in memory, and changes only when the program writes it.
THEOREM HonoursPromise == Spec => KeepsPromise
BY Invariant, PromiseInit, PromiseNext, PTL DEF Spec, KeepsPromise, Promise!Spec
=============================================================================
