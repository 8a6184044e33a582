----------------------------- MODULE Allocations -----------------------------
(***************************************************************************)
(* What the heap of vircon.h promises a program, with no list of blocks:   *)
(* allocations never overlap each other or the program's own data, and     *)
(* whatever the heap does, the contents of what the program holds change   *)
(* only when the program writes them.                                      *)
(***************************************************************************)
EXTENDS Integers

CONSTANTS
  Limit,    \* the size of linear memory, in units of the alignment
  Static    \* the units the program owns from the start: data and stack

Unit == 0 .. Limit - 1

VARIABLES
  contents, \* what each unit of memory holds
  live      \* the size of every allocation, by its address

vars == <<contents, live>>

Region(p, n) == p .. p + n - 1
OwnedBut(gone) == Static \cup UNION {Region(p, live[p]) : p \in (DOMAIN live) \ gone}
Owned == OwnedBut({})

\* The contents of `units' are as they were.
Kept(units) == \A u \in units : contents'[u] = contents[u]

\* The allocations in `gone' are replaced by one of size n at p.
ReplacedBy(gone, p, n) ==
  /\ live' = [q \in ((DOMAIN live) \ gone) \cup {p} |-> IF q = p THEN n ELSE live[q]]
  /\ Region(p, n) \subseteq Unit
  /\ Region(p, n) \cap OwnedBut(gone) = {}
  /\ Kept(OwnedBut(gone))

-----------------------------------------------------------------------------

Allocate(p, n) ==
  /\ p \notin DOMAIN live
  /\ ReplacedBy({}, p, n)

Release(p) ==
  /\ live' = [q \in (DOMAIN live) \ {p} |-> live[q]]
  /\ Kept(OwnedBut({p}))

\* realloc and the helpers that resize in place: what fits is carried over.
Resize(p, q, n) ==
  /\ q \notin (DOMAIN live) \ {p}
  /\ ReplacedBy({p}, q, n)
  /\ \A i \in 0 .. n - 1 : i < live[p] => contents'[q + i] = contents[p + i]

\* The program writes a unit it owns.
Write(u) ==
  /\ UNCHANGED live
  /\ u \in Owned
  /\ Kept(Owned \ {u})

\* The heap changes what the program does not own.
Internal ==
  /\ UNCHANGED live
  /\ Kept(Owned)

Init == live = [p \in {} |-> 0]

Next ==
  \/ Internal
  \/ \E u \in Owned : Write(u)
  \/ \E p \in DOMAIN live : Release(p)
  \/ \E p, n \in 0 .. Limit : Allocate(p, n)
  \/ \E p \in DOMAIN live : \E q, n \in 0 .. Limit : Resize(p, q, n)

Spec == Init /\ [][Next]_vars
=============================================================================
