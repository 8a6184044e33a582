--------------------------- MODULE MCLoopVersions ---------------------------
(* Instances of LoopVersions for TLC: local 0 counts, local 1 is the base   *)
(* and local 2 is an alias or the limit.                                    *)
EXTENDS LoopVersions

At(local, off) == [loaded |-> FALSE, local |-> local, off |-> off, tee |-> none]
Tee(at, x) == [at EXCEPT !.tee = x]
FromLoaded(local, off) == [At(local, off) EXCEPT !.loaded = TRUE]
Do(op, at, offset, width, local) ==
  [op |-> op, at |-> at, offset |-> offset, width |-> width, local |-> local, guarded |-> FALSE]
Load(at, offset, width) == Do("load", at, offset, width, 0)
Store(at, offset, width) == Do("store", at, offset, width, 0)
SetTo(x, at) == Do("set", at, 0, 4, x)
Other(op) == Do(op, At(0, 0), 0, 4, 2)
If(s) == [s EXCEPT !.guarded = TRUE]

LoopOf(body, trip, bound, value) ==
  [body |-> body, trip |-> trip, counter |-> 0, bound |-> bound, value |-> value]
Countdown(body) == LoopOf(body, "countdown", "none", 0)
ExitCountdown(body) == LoopOf(body, "exit countdown", "none", 0)
To(body, bound, value) == LoopOf(body, "increment", bound, value)
Trips3 == {<<"countdown", "none", 0>>, <<"exit countdown", "none", 0>>, <<"increment", "constant", 3>>,
           <<"increment", "local", 2>>, <<"increment", "memory", 0>>}
Each(bodies) == {LoopOf(b, t[1], t[2], t[3]) : b \in bodies, t \in Trips3}

\* Two accesses through the base, something between them, and the stride.
Between == {Other("exit"), Other("import"), Other("clobber"), Other("divide"), Other("any"),
            If(Load(At(1, 0), 0, 4)), If(Other("exit")), Load(Tee(At(1, 4), 2), 0, 4),
            Load(At(0, 0), 0, 1), Load(At(1, -4), 4, 4), SetTo(2, At(1, 0))}
Strides == {SetTo(1, At(1, n)) : n \in {1, 4}} \cup {If(SetTo(1, At(1, 4)))}
AffineBodies ==
  {<<Load(At(1, 0), 0, 4), b, x, s>> :
     b \in Between, x \in {Load(At(1, 0), 4, 4), Store(At(1, 0), 0, 4), Load(At(2, 0), 0, 4)},
     s \in Strides}
  \cup {<<Load(At(1, 0), 0, 1), Store(At(1, 2), 0, w), s>> : w \in {1, 2}, s \in Strides}

\* Loads through a loaded base; an alias only where no local is promoted.
LoadedBodies ==
  {<<Load(FromLoaded(1, -4), 0, 4), Load(FromLoaded(1, 0), d, 4)>> \o b \o <<SetTo(1, At(1, 4))>> :
     d \in {0, 4}, b \in {<<>>, <<Other("any")>>, <<If(Load(FromLoaded(1, 0), 0, 4))>>}}
  \cup {<<e, Load(Tee(FromLoaded(1, 0), 2), 0, 4), Load(At(2, d), 0, w), SetTo(1, At(1, 4))>> :
     d \in {-4, 0, 4}, w \in {1, 4}, e \in {Other("exit"), Other("divide"), Other("call")}}

MCLoops == Each(AffineBodies \cup LoadedBodies)

ASSUME PlainAssumption == \A l \in MCLoops : PlanOf(l).valid => PlainLoop(l)

\* The loops that PlainLoop leaves out: a stride that is a tee in a pointer;
\* an access after the stride; a local that is a copy first; a loaded base
\* that is written; an alias in front of its tee; an alias of a promoted base;
\* a base that is also read without the loaded word.
MCTeedLoops ==
  Each({<<Load(Tee(At(1, 4), 1), 0, 4), Load(At(1, 4), 0, 4)>>,
        <<Load(Tee(At(1, 4), 1), 4, 4), Load(At(1, 4), 4, 4)>>})
MCMovedLoops == Each({<<Load(At(1, 0), 0, 4), SetTo(1, At(1, 4)), Load(At(1, 0), 0, 4)>>})
MCCopiedLoops ==
  Each({<<Load(At(1, 0), 0, 4), Load(At(1, 4), 0, 4), SetTo(2, At(1, 0)), Other("any"),
          Load(At(2, 0), 0, 4), SetTo(1, At(1, 4))>>})
Loaded2 == <<Load(FromLoaded(1, 0), 0, 4), Load(FromLoaded(1, 4), 0, 4)>>
MCClobberedLoops == Each({Loaded2 \o <<Other("clobber"), SetTo(1, At(1, 4))>>})
MCEarlyAliasLoops ==
  Each({<<Load(At(2, 0), 0, 4), Other("exit"), Load(Tee(FromLoaded(1, 0), 2), 0, 4),
          Load(At(2, 4), 0, 4), SetTo(1, At(1, 4))>>,
        <<Other("exit"), If(Load(Tee(FromLoaded(1, 0), 2), 0, 4)), Load(At(2, 4), 0, 4),
          SetTo(1, At(1, 4))>>})
MCPromotedAliasLoops ==
  Each({<<Load(Tee(FromLoaded(1, 0), 2), 0, 4), Load(At(2, 4), 0, 4), SetTo(1, At(1, 4))>>})
MCUnloadedLoops == Each({Loaded2 \o <<Load(At(1, 0), 0, 4), SetTo(1, At(1, 4))>>})

MCStarts == {s \in [Local -> {0, 1, 2, 3, 4, 31}] : s[1] \in {0, 1, 4, 31} /\ s[2] \in {0, 3}}
MCContents == {c \in [Slot -> {2, 4, 8}] : c[LimitAt] # 8 /\ c[BaseAt] # 2}
=============================================================================
