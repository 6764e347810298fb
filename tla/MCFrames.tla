------------------------------- MODULE MCFrames -------------------------------
(***************************************************************************)
(* Sources for model checking Frames: a macro, a second one, a file to     *)
(* include and the lines of the main file, each from a list of short texts.*)
(***************************************************************************)
EXTENDS FrameMeaning

CONSTANT NULL
MCNames == {"m", "n"}
MCPaths == {"main", "f", "lib"}
MCItems == {"a", "b", "M", "N", "F"}

L(op)    == [op |-> op, arg |-> NULL]
E(x)     == [op |-> "emit", arg |-> x]
Cond(op, v, l) == [op |-> op, arg |-> [val |-> v, later |-> l]]
IfT      == Cond("if", 1, FALSE)
IfF      == Cond("if", 0, FALSE)
IfLater  == Cond("if", 1, TRUE)
Twice    == Cond("repeat", 2, FALSE)
C(n)     == [op |-> "call", arg |-> n]
I        == [op |-> "include", arg |-> "f"]
M(n)     == [op |-> "mac", arg |-> n]
Def(n, b) == <<M(n)>> \o b \o <<L("endm")>>

\* Macros that leave nothing open.
GoodBodies ==
  {<<IfF, E("M"), L("else"), E("M"), L("endif"), L("mexit"), E("M")>>,
   <<L("subroutine"), E("M"), L("label"), I, E("M")>>,
   <<Twice, C("n"), E("M"), L("repend")>>,
   <<E("M"), C("m")>>}
\* Macros that leave a conditional or a loop, or end the file, or reach outside.
BadBodies ==
  {<<IfT, L("mexit"), L("endif")>>, <<E("M"), L("else")>>, <<L("endif"), L("end")>>,
   <<Twice, L("mexit"), L("repend")>>, <<L("repend"), E("M")>>, <<Twice>>, <<M("n"), E("M")>>}
Second    == {<<E("N")>>, <<I, L("mexit"), E("N")>>}
BadSecond == {<<E("N")>>, <<L("repend"), E("N")>>}
GoodFiles == {<<E("F")>>, <<IfT, C("n"), L("end"), L("endif"), E("F")>>, <<I, E("F")>>}
BadFiles  == {<<C("n"), IfT, E("F"), L("end"), E("F")>>, <<Twice, L("subroutine"), E("F")>>,
              <<L("else"), L("endif"), L("repend")>>}

UpTo(V, n) == UNION {[1 .. k -> V] : k \in 0 .. n}

\* The main file, the one it includes for two macros, and the one it may include.
Lib       == [op |-> "include", arg |-> "lib"]
Libs(M1, N1) == {Def("m", m) \o Def("n", n) : m \in M1, n \in N1}
Runs(mains, fs, libs) ==
  [files : [main : {<<Lib>> \o p : p \in mains}, f : fs, lib : libs], bStrictMode : {FALSE}]

\* Any three lines.
Vocabulary ==
  {E("a"), IfT, IfLater, Twice, L("else"), L("endif"), L("repend"), C("m"), I}
FreeSources ==
  Runs(UpTo(Vocabulary, 3), BadFiles,
       Libs(BadBodies \cup {<<Twice, C("n"), E("M"), L("repend")>>}, BadSecond))

\* Conditionals and loops inside one another.
Simple == {<<E("a")>>, <<C("m")>>, <<I>>}
Ifs(P, Q) ==
  {<<c>> \o p \o e \o <<L("endif")>> :
     c \in {IfT, IfF, IfLater}, p \in P, e \in {<<>>} \cup {<<L("else")>> \o q : q \in Q}}
Loops(P) == {<<c>> \o p \o <<L("repend")>> : c \in {Twice, Cond("repeat", -1, FALSE)}, p \in P}
Blocks   == Simple \cup Ifs(Simple, Simple) \cup Loops(Simple)
NestedSources ==
  Runs({p \o <<E("b")>> :
          p \in Ifs(Blocks, Simple) \cup Loops(Blocks) \cup Loops(Ifs(Simple, Simple))},
       GoodFiles, Libs(GoodBodies, Second))

\* Definitions that are repeated, skipped, unfinished or come after the first call.
Pieces ==
  {Def("m", <<E("M")>>), Def("m", <<E("N")>>), <<M("m"), E("a")>>, <<C("m")>>, <<IfF>>,
   <<IfLater>>, <<L("else")>>, <<L("endif")>>, <<Cond("repeat", 2, TRUE)>>, <<L("endm")>>}
DefinitionSources ==
  [files : [main : {q \o FlattenSeq(p) : q \in {<<>>, <<IfLater>> \o Def("m", <<E("M")>>)},
                                        p \in UpTo(Pieces, 3)}],
   bStrictMode : BOOLEAN]

\* A loop of a file that has ended is taken over by a macro.
LeftoverSources ==
  Runs({<<I, C("n"), C("n"), C("n")>>}, {<<Twice, C("m")>>},
       Libs({<<Twice, L("mexit"), L("repend")>>}, {<<L("repend"), E("N")>>}))

MCSources == {FreeSources, NestedSources, DefinitionSources, LeftoverSources}

\* A macro that is left from inside a conditional, called in another one.
MexitSources ==
  {Runs({<<IfT, C("m"), L("else"), E("a"), L("endif"), E("b")>>}, {<<E("F")>>},
        {Def("m", <<E("M"), IfT, L("mexit"), L("endif"), E("M")>>)})}
=============================================================================
