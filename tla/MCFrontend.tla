----------------------------- MODULE MCFrontend -----------------------------
(* Instances of Frontend for TLC.                                          *)
EXTENDS Frontend

CONSTANTS main, callee, other, plain, binary

MCFn == {main, callee, other}
MCType == {plain, binary}
Of(kind, to) == [kind |-> kind, to |-> to, carried |-> FALSE]
Carried(s) == [s EXCEPT !.carried = TRUE]

Calls == {Of("call", callee), Of("call", other), Of("indirect", plain)}
Leaves == {Of("stack pointer", none), Of("helper", none), Of("unsupported", none),
           Of("valued loop", none)}

Image == <<[at |-> 0, size |-> 1, constant |-> TRUE, passive |-> FALSE],
           [at |-> 0, size |-> 1, constant |-> FALSE, passive |-> FALSE]>>
Passive == [at |-> 0, size |-> 1, constant |-> FALSE, passive |-> TRUE]
Elements ==
  {<<>>, <<[at |-> 0, items |-> <<callee, other>>, active |-> TRUE],
           [at |-> 1, items |-> <<main>>, active |-> TRUE]>>,
   <<[at |-> 1, items |-> <<callee, other>>, active |-> TRUE]>>,
   <<[at |-> 0, items |-> <<other>>, active |-> FALSE]>>}

\* Bodies of main of two expressions, and of the others of one; other may be
\* an import.
Module(inMain, inCallee, inOther, imports, known, elements, image) ==
  [functions |-> MCFn, imports |-> imports, known |-> known,
   supported |-> MCFn, oversized |-> {}, exported |-> {main, callee},
   type |-> [f \in MCFn |-> IF f = other THEN binary ELSE plain],
   body |-> [f \in MCFn |-> IF f = main THEN inMain ELSE IF f = callee THEN inCallee ELSE inOther],
   tables |-> IF elements = <<>> THEN 0 ELSE 1, size |-> 2, elements |-> elements,
   globals |-> 1, stackPointer |-> TRUE, tableExported |-> FALSE, globalExported |-> FALSE,
   memory |-> TRUE, pages |-> 1, image |-> image]

Bodies(n) == UNION {[1 .. k -> Calls \cup Leaves] : k \in 0 .. n}

\* Functions that validation accepts and lowering cannot finish.
MCLimitedInputs ==
  {Module(<<Of("call", callee)>>, b, <<>>, {}, {}, <<>>, <<>>) :
     b \in {<<Of("deep", none)>>, <<Of("absent operand", none), Of("deep", none)>>}}
  \cup {[Module(<<Of("indirect", plain)>>, <<>>, <<>>, {}, {}, e, <<>>)
           EXCEPT !.oversized = {callee}] : e \in Elements}

MCInputs ==
  {Module(a, b, c, {}, {}, e, SubSeq(Image, 1, 1)) :
     a \in {<<x, y>> : x \in Calls, y \in Calls \cup Leaves},
     b \in Bodies(1), c \in {<<>>, <<Of("call", main)>>},
     e \in Elements}
  \cup {Module(a, <<>>, <<>>, {other}, known, e, image) :
     a \in Bodies(1), known \in SUBSET {other}, e \in Elements,
     image \in {<<>>, Image, <<Image[2]>>, <<Passive>>}}
  \cup {[Module(<<Of("indirect", binary)>>, <<>>, <<>>, {other}, {other}, e, <<>>)
           EXCEPT !.memory = mem, !.supported = s, !.tableExported = x, !.globals = g,
                  !.globalExported = y] :
     mem \in BOOLEAN, s \in {MCFn, {main}, {callee, other}}, x \in BOOLEAN, y \in BOOLEAN,
     g \in 0 .. 2, e \in Elements}
  \cup MCLimitedInputs

\* The value of a branch holds a call, or an operation that the console cannot run.
MCCarriedInputs ==
  {Module(<<Of("call", callee), Carried(s)>>, b, <<>>, {}, {}, e, <<>>) :
     s \in Calls \cup Leaves, b \in Bodies(1), e \in Elements}
=============================================================================
