------------------------------- MODULE Layout -------------------------------
(***************************************************************************)
(* What an assembled program is, with no passes in it: an assignment of    *)
(* values to the symbols under which the lines, laid out one behind the    *)
(* other, give the labels just those values.  It serves as the reference   *)
(* for sources without conditionals, loops, segments and reassignments.    *)
(***************************************************************************)
EXTENDS Assembler

StraightOps == {"lda", "jmp", "nop", "bne", "dc", "ds", "align", "label", "equ",
                "org", "rorg", "rend"}
OriginOps   == {"org", "rorg", "align"}

\* Sources without conditionals, loops and segments, whose symbols have one definition.
Straight ==
  /\ \A i \in DOMAIN prog : prog[i].op \in StraightOps
  /\ \A i, j \in DOMAIN prog : prog[i].lab = prog[j].lab /\ prog[i].lab # NoLabel => i = j

\* The values of the symbols, and of an expression at the address at.
Values == [s \in Symbols |-> symtab[s].val]

Amount(v, x, at) ==
  LET of == IF x.of = Nothing THEN 0 ELSE IF x.of = Dot THEN at ELSE v[x.of]
  IN  IF ~x.cap THEN of + x.add ELSE IF of < x.add THEN of ELSE x.add

-----------------------------------------------------------------------------
(***************************************************************************)
(* A place between two lines: where the next byte goes, the address it     *)
(* pretends to have between RORG and REND, and what lies before it.        *)
(***************************************************************************)
Start == [org |-> 0, rorg |-> 0, moved |-> FALSE, image |-> <<>>]

Address(here) == IF here.moved THEN here.rorg ELSE here.org

\* n bytes for the operand val.
Placed(here, n, val) ==
  [here EXCEPT !.org = @ + n,
               !.rorg = IF here.moved THEN @ + n ELSE @,
               !.image = Append(@, [at |-> here.org, len |-> n, val |-> val,
                                    unk |-> FALSE, lost |-> FALSE])]

\* n bytes of filler: the first block, and the others.
Filled(here, n) ==
  IF n <= 0 THEN here
  ELSE IF n <= GenSize THEN Placed(here, n, 0)
  ELSE Placed(Placed(here, GenSize, 0), n - GenSize, 0)

Behind(v, st, here) ==
  LET amount == Amount(v, st.exp, Address(here))
  IN  CASE st.op = "lda"   -> Placed(here, IF amount > 255 THEN 3 ELSE 2, amount)
        [] st.op = "jmp"   -> Placed(here, 3, amount)
        [] st.op = "bne"   -> Placed(here, 2, amount - (Address(here) + 2))
        [] st.op = "nop"   -> Placed(here, 1, 0)
        [] st.op = "dc"    -> Placed(here, 1, amount)
        [] st.op = "ds"    -> Filled(here, amount)
        [] st.op = "align" -> Filled(here, (-Address(here)) % amount)
        [] st.op = "org"   -> [here EXCEPT !.org = amount]
        [] st.op = "rorg"  -> [here EXCEPT !.rorg = amount, !.moved = TRUE]
        [] st.op = "rend"  -> [here EXCEPT !.moved = FALSE]
        [] OTHER           -> here

\* The place behind line i of the source.
Places[i \in 0 .. Len(prog)] ==
  IF i = 0 THEN Start ELSE Behind(Values, prog[i], Places[i - 1])

\* What a line gives its label: an EQU the value of its expression, ORG, RORG and ALIGN
\* the address behind the line, any other the address of the line.
LabelValue(v, st, here) ==
  IF st.op = "equ" THEN Amount(v, st.exp, Address(here))
  ELSE IF st.op \in OriginOps THEN Address(Behind(v, st, here)) ELSE Address(here)

IsLayout(places) ==
  /\ \A i \in DOMAIN prog :
       LET lab == prog[i].lab
       IN  lab # NoLabel /\ ~symtab[lab].unk =>
             Values[lab] = LabelValue(Values, prog[i], places[i - 1])
  /\ out = places[Len(prog)].image

\* Line i does not set the origin to something that was still unknown when the line was
\* reached: its operand is a number, "." for ORG, or a symbol that is known and not
\* defined below.  (For others dasm need not take another pass, see the README.)
Settled(i) ==
  LET x == prog[i].exp
  IN  /\ x.of \in Symbols => /\ ~symtab[x.of].unk
                             /\ \A j \in DOMAIN prog : prog[j].lab = x.of => j < i
      /\ x.of = Dot => prog[i].op = "org"
      /\ prog[i].op = "align" => Amount(Values, x, 0) > 0

OriginsSettled(n) == \A i \in 1 .. n : prog[i].op \in OriginOps => Settled(i)

\* Whatever passes it took, a successful assembly is a layout of the source under
\* the final symbol table: every label that is known has the address its line ended up
\* at, every EQU the value of its expression, and the bytes are those of the source
\* at those addresses.  (Checked at the very end, when nothing moves any more.)
SuccessIsLayout ==
  phase = "exited" /\ nError = Driver!Success /\ Straight /\ OriginsSettled(Len(prog)) =>
    \E places \in {Places} : IsLayout(places)
=============================================================================
