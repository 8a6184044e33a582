----------------------------- MODULE MCOperands -----------------------------
(* Instances of Operands for TLC: what functions are made of.  Each menu is *)
(* one way for operands to disturb one another.                             *)
EXTENDS Operands

Always == {"const", "get", "nop", "pair", "block"}
\* Borrowed locals and what assigns them; results in R1 and what uses it.
Locals == {"tee", "set", "binary", "select", "cpu2", "drop"}
Retained == {"port", "unary", "cpu", "binary", "out", "select"}
Ports == {"port", "twoport", "ports", "size", "call", "binary"}
\* Branches out of operands that wait.
Branches == {"tee", "ifelse", "br", "brifvalue", "binary", "return"}
Jumps == {"scope", "brif", "table", "if", "set", "call"}
\* Memory, whose addresses use R1, and calls.
Memory == {"store", "packed", "bulk", "unary", "port", "cpu", "set"}
Calls == {"call", "indirect", "cpu", "tee", "call64", "wrap", "grow"}
\* Operands of two slots.
Pairs == {"wrap", "extend", "load64", "binary64", "mul64", "compare64", "binary", "extract"}
PairStores == {"store64", "copy64", "load64", "call64", "set", "if"}
MCMenus ==
  {Always \cup m : m \in {Locals, Retained, Ports, Branches, Jumps, Memory, Calls, Pairs, PairStores}}
=============================================================================
