---------------------------- MODULE MCAlignment -----------------------------
(* Instances of Alignment for TLC.                                         *)
EXTENDS Alignment

CONSTANTS p, x, y

K(n) == [constant |-> TRUE, of |-> n]
V(v) == [constant |-> FALSE, of |-> v]
Plain(op) == [op |-> op, to |-> x, by |-> "add", left |-> K(0), right |-> K(0),
              match |-> 0, targets |-> {}, default |-> 0]
Set(to, left, by, right) ==
  [Plain("set") EXCEPT !.to = to, !.left = left, !.by = by, !.right = right]
Opening(op, match) == [Plain(op) EXCEPT !.match = match]
Branch(op, targets) == [Plain(op) EXCEPT !.targets = targets]
Table(targets, default) == [Plain("br_table") EXCEPT !.targets = targets, !.default = default]

Sets ==
  {Set(x, V(x), "add", K(4)), Set(x, V(x), "add", V(p)), Set(x, K(0), "sub", K(2)),
   Set(x, V(x), "shl", K(1)), Set(x, V(p), "mul", K(2)), Set(p, V(p), "and", K(4)),
   Set(p, V(x), "shl", V(p)), Set(x, V(result), "or", V(x)), Set(x, V(p), "xor", V(p)),
   Set(x, K(4), "select", V(p)), Set(x, K(0), "unknown", K(0))}

\* A loop in a block: branches out of both, back, and past the rest.
Jumps == {Branch("br_if", {2}), Branch("br_if", {1}), Branch("br", {2}), Branch("br", {1}),
          Table({1, 2}, 1), Branch("return", {})}
LoopInBlock(a, b, c, d) ==
  <<Opening("block", 8), Opening("loop", 6), a, b, c, Plain("end"), d, Plain("end"),
    Set(x, V(result), "add", V(x))>>

\* A conditional in a loop.
ArmJumps == {Branch("br", {1}), Branch("br_if", {1}), Branch("return", {})}
IfInLoop(a, b, c, d) ==
  <<Opening("loop", 8), a, Opening("if", 5), b, Opening("else", 7), c, Plain("end"), Plain("end"), d>>
IfThenInLoop(a, b, c, d) ==
  <<Opening("loop", 7), a, Opening("if", 5), b, Plain("end"), c, Plain("end"), d>>

\* A loop in a loop.
Inner == {Branch("br_if", {1}), Branch("br_if", {2}), Branch("br_if", {1, 2})}
LoopInLoop(a, b, c, d) ==
  <<Opening("loop", 8), Opening("loop", 5), a, b, Plain("end"), c, d, Plain("end")>>

\* What a local gets depends on what another one got in the walk before.
Chains == {Set(y, V(x), "or", K(0)), Set(y, V(x), "add", K(2)), Set(x, V(p), "add", K(0)),
           Set(x, K(2), "select", K(2)), Set(x, V(y), "mul", K(1)),
           Set(x, K(0), "or", K(0))}
Chain(a, b, c) == <<Opening("loop", 6), a, b, c, Branch("br_if", {1}), Plain("end")>>

Few == {Set(x, V(x), "add", V(p)), Set(x, V(x), "shl", K(1)), Set(p, V(x), "shl", V(p)),
        Set(x, K(0), "sub", K(2))}

MCPrograms ==
  {LoopInBlock(a, b, c, d) : a \in Sets, b \in Jumps, c \in Few, d \in Few \cup {Branch("br_if", {1})}}
  \cup {LoopInBlock(a, b, c, Plain("return")) : a \in Few, b \in Sets, c \in Jumps}
  \cup {IfInLoop(a, b, c, Set(x, V(result), "add", V(x))) :
          a \in Few, b \in Few \cup ArmJumps, c \in Few \cup ArmJumps}
  \cup {IfThenInLoop(a, b, c, Set(x, V(result), "add", V(x))) :
          a \in Few, b \in Few \cup ArmJumps, c \in {Branch("br_if", {1})}}
  \cup {LoopInLoop(a, b, c, d) : a \in Few, b \in Inner, c \in Few, d \in {Branch("br_if", {1})}}
  \cup {Chain(a, b, c) : a \in Chains, b \in Chains, c \in Chains}

\* A table whose default is none of its targets.
MCDefaults ==
  {LoopInBlock(a, b, c, d) : a \in Few, b \in {Table({2}, 1), Table({1}, 2)}, c \in Few, d \in Few}
=============================================================================
