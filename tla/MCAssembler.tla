----------------------------- MODULE MCAssembler -----------------------------
(***************************************************************************)
(* Sources for model checking Assembler: all short sequences of statements *)
(* from a vocabulary, behind a prologue that brings them near the boundary *)
(* they are about, and sources written out statement by statement.         *)
(***************************************************************************)
EXTENDS Assembler, FiniteSets

MCSymbols    == {"a", "b", "c"}
MCSegments   == {"INITIAL CODE SEGMENT", "s"}
MCInitial    == "INITIAL CODE SEGMENT"
NoDefines    == [s \in {} |-> 0]
DefineC      == [s \in {"c"} |-> 2]

\* Expressions.
Num(n)    == [of |-> Nothing, add |-> n, cap |-> FALSE]
Sym(s)    == [of |-> s, add |-> 0, cap |-> FALSE]
Plus(s, n) == [of |-> s, add |-> n, cap |-> FALSE]
AtMost(s, n) == [of |-> s, add |-> n, cap |-> TRUE]
Here      == Sym(Dot)

\* Statements.
Stmt(lab, op, exp) == [op |-> op, lab |-> lab, exp |-> exp, seg |-> MCInitial]
Op(op, exp)   == Stmt(NoLabel, op, exp)
Bare(op)      == Op(op, Num(0))
Mark(s)       == Stmt(s, "label", Num(0))
InSeg(op, sg) == [Bare(op) EXCEPT !.seg = sg]

\* Sequences of at most n statements of V, behind a prologue.
UpTo(V, n)           == UNION {[1 .. k -> V] : k \in 0 .. n}
After(prologue, ps) == {prologue \o p : p \in ps}

-----------------------------------------------------------------------------
\* Forward references and the choice of an addressing mode at the end of page 0.
PageVocabulary ==
  {Op("lda", Sym("a")), Op("lda", Plus("b", 1)), Op("jmp", Sym("b")), Bare("nop"),
   Op("bne", Sym("a")), Op("dc", Sym("b")), Op("align", Num(4)), Op("rorg", Num(8)),
   Mark("a"), Mark("b"), Stmt("a", "equ", Sym("b")), Stmt("b", "equ", Here)}
PagePrograms == After(<<Op("org", Num(252))>>, UpTo(PageVocabulary, 3))

\* Conditionals and loops: something conditional, a statement in either part.
Openings ==
  {Op("if", Sym("a")), Op("if", Num(1)), Op("ifconst", Sym("a")), Op("ifnconst", Sym("a")),
   Op("repeat", Num(2)), Op("repeat", Sym("a")), Op("repeat", Num(-1))}
Bodies ==
  {Op("dc", Sym("a")), Mark("a"), Stmt("a", "set", Plus("a", 1)), Op("if", Num(0)),
   Stmt("b", "jmp", Sym("a"))}
Closings == {Bare("endif"), Bare("repend")}
ControlPrograms ==
  {<<Op("org", Num(1)), o>> \o p1 \o e \o p2 \o c \o p3 :
     o \in Openings, p1 \in UpTo(Bodies, 1), e \in UpTo({Bare("else")}, 1),
     p2 \in UpTo(Bodies, 1), c \in UpTo(Closings, 1), p3 \in UpTo({Mark("a"), Bare("endif")}, 1)}

\* Segments, origins and the ways an assembly is cut short.
SegmentVocabulary ==
  {InSeg("seg", MCInitial), InSeg("seg", "s"), InSeg("seg.u", "s"),
   Op("org", Num(5)), Op("org", Sym("a")), Op(".equ", Plus(Dot, 2)), Op("rorg", Sym("c")),
   Bare("rend"), Op("ds", Plus("a", -4)), Bare("nop"), Stmt("a", "nop", Num(0)),
   Stmt("a", "align", Sym("c")), Op("illegal", Num(0)), Bare("unknown"), Bare("err"),
   Bare("include"), Bare("end")}
SegmentPrograms ==
  UpTo(SegmentVocabulary, 3)
    \cup After(<<Op("org", Num(8)), Bare("nop")>>, UpTo(SegmentVocabulary, 2))

\* Branches of the F8, near the two ends of their reach.
BranchVocabulary ==
  {Op("br", Sym("a")), Op("br", Plus("a", 1)), Stmt("b", "br", Num(0)), Mark("a"),
   Bare("nop"), Op("ds", Num(127)), Op("org", Sym("b"))}
BranchPrograms == After(<<Op("org", Num(0))>>, UpTo(BranchVocabulary, 3))

MCPrograms == PagePrograms \cup ControlPrograms \cup SegmentPrograms \cup BranchPrograms

\* Sources of one to a few lines each, for what the documentation says of them.
\*     org 1 / repeat [[a < 11] ? [a-11]] + 11 / dc.b a / repend / a:
ContrivedPrograms ==
  {<<Op("org", Num(1)), Op("repeat", AtMost("a", 11)), Op("dc", Sym("a")),
     Bare("repend"), Mark("a")>>}

\*     org 1 / nop / org a+8192 / bne 8192 / a equ 5
UnknownOriginPrograms ==
  {<<Op("org", Num(1)), Bare("nop"), Op("org", Plus("a", 8192)), Op("bne", Num(8192)),
     Stmt("a", "equ", Num(5))>>}
=============================================================================
