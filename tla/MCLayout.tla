------------------------------ MODULE MCLayout ------------------------------
(* Straight sources across the end of page 0, for the reference layout.       *)
EXTENDS MCAssembler, Layout

LayoutSymbols == {"a", "b"}

LayoutVocabulary ==
  {Op("lda", Sym("a")), Op("lda", Plus("b", 1)), Op("bne", Sym("a")),
   Op("rorg", Num(254)), Bare("rend"), Op("org", Num(270)), Mark("a"), Mark("b"),
   Stmt("a", "align", Num(4)), Stmt("b", "equ", Plus("a", 1)), Stmt("b", "equ", Here)}
Page0End == Op("org", Num(251))
OnceDefined(p) ==
  \A s \in LayoutSymbols : Cardinality({i \in DOMAIN p : p[i].lab = s}) <= 1
LayoutPrograms ==
  {p \in After(<<Page0End>>, UpTo(LayoutVocabulary, 4)) :
     /\ OnceDefined(p)
     /\ \A s \in LayoutSymbols :
          (\E i \in DOMAIN p : p[i].exp.of = s) => \E i \in DOMAIN p : p[i].lab = s
     /\ Cardinality({i \in DOMAIN p : p[i].op = "org"}) <= 2
     /\ \E i \in DOMAIN p : p[i].op \in {"lda", "bne"}}

\* Sources that need not come to an end with success: code before the first ORG, origins
\* that depend on labels, long fills.
OriginVocabulary ==
  {Op("org", Plus("a", 5)), Op("org", Plus(Dot, 3)), Op("org", Num(5)),
   Op("rorg", Plus("a", 2)), Stmt("b", "align", Plus("a", 2)),
   Op("ds", Num(1030)), Op("ds", Sym("b")), Op("dc", Sym("a")),
   Mark("a"), Stmt("a", "equ", Num(6)), Stmt("b", "equ", Sym("a"))}
OriginPrograms ==
  {p \in UpTo(OriginVocabulary, 3) \cup After(<<Op("org", Num(250))>>, UpTo(OriginVocabulary, 3)) :
     OnceDefined(p) /\ \E i \in DOMAIN p : p[i].op \in {"ds", "dc"}}

SomePrograms == LayoutPrograms \cup ContrivedPrograms \cup OriginPrograms

\* With -P every source of the first family is resolved: the addresses only shrink from
\* the second pass on, so in the end a pass changes nothing.  (The sources have
\* what makes that true: no DS or ORG of a label, no branch out of reach.)  And
\* "This allows the following contrived example to resolve in 12 passes"
\* (docs/dasm.txt:611-620), where each pass repeats once more than the one before.
Resolves ==
  prog \in ContrivedPrograms \/ (prog # <<>> /\ prog[1] = Page0End) =>
    <>(nError = Driver!Success /\ (prog \in ContrivedPrograms => pass = 12))
=============================================================================
