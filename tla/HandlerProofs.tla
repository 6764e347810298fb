---------------------------- MODULE HandlerProofs ----------------------------
(***************************************************************************)
(* Lemmas about the handlers of Assembler.  A handler is a composition of  *)
(* operators on the machine record, so there is one lemma per operator: it *)
(* keeps Good.  Good says of a machine that no operand is stale as long as *)
(* no other pass was asked for, and of every machine that the counters     *)
(* only grew and that its runs lie behind one another.                     *)
(* Wherever a value is arithmetic, a step names it and gives its type, and *)
(* the record is updated with the name.                                    *)
(***************************************************************************)
EXTENDS Assembler, SequenceTheorems, TLAPS

Machine ==
  [pc : Nat \ {0}, symtab : [Symbols -> SymbolEntry], segs : [Segments -> SegmentEntry],
   cs : Segments, ifs : Seq(IfEntry) \ {<<>>}, reps : Seq(RepeatEntry), fisclear : BOOLEAN,
   fileorg : Int, out : Seq(RunEntry), used : SUBSET (Symbols \X Int),
   Redo : Nat, why : SUBSET ReasonCodes, eval : Nat, rif : SUBSET {0, 1},
   raised : SUBSET ErrorCodes, abort : ErrorCodes \cup {NoError}]

Operands == [val : Int, unk : BOOLEAN]

\* A source for the F8.
OfF8 == \E i \in DOMAIN prog : prog[i].op = "br"

\* Errors that may be left in a pass that asks for no other one.
Final == FatalCodes \cup {"ERROR_REPEAT_NEGATIVE"}
                    \cup (IF OfF8 THEN {"ERROR_BRANCH_OUT_OF_RANGE"} ELSE {})

EquSymbols == LabelOf({"equ"})

\* The labels lines other than EQU and SET can have.
Labels == {NoLabel} \cup {s \in Symbols : s \in Stable => s \notin EquSymbols}

\* What the symbol table must remember of an operand computed from symbol u[1].
Remembers(tab, u) ==
  u[1] \in Stable =>
    /\ tab[u[1]].val = u[2] /\ ~tab[u[1]].unk
    /\ u[1] \notin EquSymbols => tab[u[1]].ref

AllKnown(runs) == \A i \in DOMAIN runs : ~runs[i].unk
Consistent(m) == m.Redo = 0 => \A u \in m.used : Remembers(m.symtab, u)

\* Redo is the counter before the handler: it never goes back to 0.
Harmless(m) == m.Redo = 0 => Redo = 0 /\ m.raised \subseteq Final

\* A machine that the handler of one line may leave: the counters only grow from what
\* they were before the line, and a new reason comes with a ++Redo.
Counted(m) ==
  /\ Redo \in Nat /\ m.Redo >= Redo
  /\ Redo_why \subseteq m.why
  /\ m.why # Redo_why => m.Redo > Redo
  /\ Redo_eval \in Nat /\ m.eval >= Redo_eval
  /\ m.rif \in {Redo_if, Redo_if \cup {0}}

Ascending(runs) ==
  \A i, j \in DOMAIN runs : i < j => runs[i].at + runs[i].len <= runs[j].at

\* No run reaches beyond the static org of generate(); before the first there is none.
InOrder(m) ==
  Format # "FORMAT_RAS" =>
    /\ Ascending(m.out)
    /\ \A i \in DOMAIN m.out : m.out[i].at + m.out[i].len <= m.fileorg
    /\ m.fisclear => m.out = <<>>

Allowed(m) == Counted(m) /\ InOrder(m)

\* Both predicates look at some of the fields only.
Alike(n, m) ==
  /\ n.Redo = m.Redo /\ n.why = m.why /\ n.eval = m.eval /\ n.rif = m.rif
  /\ n.out = m.out /\ n.fileorg = m.fileorg /\ n.fisclear = m.fisclear

Good(m) == /\ m \in Machine /\ AllKnown(m.out)
           /\ Consistent(m) /\ Harmless(m) /\ Allowed(m)

\* What is alike in these fields is allowed as well.
LEMMA AlikeAllowed ==
  ASSUME NEW m, Allowed(m), NEW n, Alike(n, m)
  PROVE  Allowed(n)
BY DEF Allowed, Counted, InOrder, Alike

\* Once another pass is asked for, only the type and the runs matter.
LEMMA GoodWhenRedo ==
  ASSUME NEW n \in Machine, AllKnown(n.out), n.Redo # 0, Allowed(n)
  PROVE  Good(n)
BY DEF Good, Consistent, Harmless

\* A ++Redo leaves nothing to show for the pass but the type.
LEMMA BumpType ==
  ASSUME NEW m \in Machine, NEW why \in ReasonCodes
  PROVE  /\ Bump(m, why) \in Machine
         /\ Bump(m, why).Redo # 0 /\ Bump(m, why).out = m.out
<1>1. m.Redo \in Nat /\ m.Redo + 1 \in Nat /\ m.Redo + 1 # 0
  BY DEF Machine
<1>2. m.why \cup {why} \in SUBSET ReasonCodes
  BY DEF Machine
<1> DEFINE r == m.Redo + 1
           w == m.why \cup {why}
<1>3. r \in Nat /\ r # 0 /\ w \in SUBSET ReasonCodes
  BY <1>1, <1>2
<1>4. Bump(m, why) = [m EXCEPT !.Redo = r, !.why = w]
  BY DEF Bump
<1> HIDE DEF r, w
<1>5. QED
  BY <1>3, <1>4 DEF Machine

\* ++Redo only counts up.
LEMMA BumpAllowed ==
  ASSUME NEW m \in Machine, Allowed(m), NEW why \in ReasonCodes
  PROVE  Allowed(Bump(m, why))
<1> DEFINE n == Bump(m, why)
<1>1. /\ n.Redo = m.Redo + 1 /\ n.why = m.why \cup {why} /\ n.eval = m.eval /\ n.rif = m.rif
      /\ n.out = m.out /\ n.fileorg = m.fileorg /\ n.fisclear = m.fisclear
  BY DEF Bump, Machine
<1>2. m.Redo \in Nat
  BY DEF Machine
<1> HIDE DEF n
<1>3. Counted(n)
  BY <1>1, <1>2 DEF Allowed, Counted
<1>4. InOrder(n)
  BY <1>1 DEF Allowed, InOrder
<1>5. QED
  BY <1>3, <1>4 DEF Allowed, n

\* A message changes no counter.
LEMMA AsmerrAllowed ==
  ASSUME NEW m \in Machine, Allowed(m), NEW e \in ErrorCodes
  PROVE  /\ Allowed(Asmerr(m, e)) /\ Asmerr(m, e) \in Machine
         /\ Allowed(Abort(m, e)) /\ Abort(m, e) \in Machine
<1>1. Asmerr(m, e) \in Machine /\ Alike(Asmerr(m, e), m)
  BY DEF Machine, Asmerr, Alike
<1>2. Abort(m, e) \in Machine /\ Alike(Abort(m, e), m)
  BY DEF Machine, Abort, Alike
<1>3. QED
  BY <1>1, <1>2, AlikeAllowed

\* ++Redo.
LEMMA BumpGood ==
  ASSUME NEW m, Good(m), NEW why \in ReasonCodes
  PROVE  Good(Bump(m, why)) /\ Bump(m, why).Redo # 0
<1>1. m \in Machine /\ AllKnown(m.out) /\ Allowed(m)
  BY DEF Good
<1>2. QED
  BY <1>1, BumpType, BumpAllowed, GoodWhenRedo

\* asmerr() with bAbort.
LEMMA AbortGood ==
  ASSUME NEW m, Good(m), NEW e \in ErrorCodes
  PROVE  Good(Abort(m, e))
<1>1. m \in Machine /\ Allowed(m)
  BY DEF Good
<1>2. Abort(m, e) \in Machine /\ Allowed(Abort(m, e))
  BY <1>1, AsmerrAllowed
<1>3. /\ Abort(m, e).out = m.out /\ Abort(m, e).used = m.used
      /\ Abort(m, e).symtab = m.symtab /\ Abort(m, e).Redo = m.Redo
      /\ Abort(m, e).raised = m.raised
  BY <1>1 DEF Machine, Abort
<1>4. QED
  BY <1>2, <1>3 DEF Good, Consistent, Harmless

\* asmerr alone, for an error that may be the last word.
LEMMA AsmerrGood ==
  ASSUME NEW m, Good(m), NEW e \in ErrorCodes, e \in Final \/ m.Redo # 0
  PROVE  Good(Asmerr(m, e)) /\ Asmerr(m, e).Redo = m.Redo
<1>1. m \in Machine /\ Allowed(m)
  BY DEF Good
<1>2. Asmerr(m, e) \in Machine /\ Allowed(Asmerr(m, e))
  BY <1>1, AsmerrAllowed
<1>3. /\ Asmerr(m, e).out = m.out /\ Asmerr(m, e).used = m.used
      /\ Asmerr(m, e).symtab = m.symtab /\ Asmerr(m, e).Redo = m.Redo
      /\ Asmerr(m, e).raised \subseteq m.raised \cup {e}
  BY <1>1 DEF Machine, Asmerr
<1>4. QED
  BY <1>2, <1>3 DEF Good, Consistent, Harmless

\* asmerr for any other error, with the ++Redo that follows it.
LEMMA RefuseGood ==
  ASSUME NEW m, Good(m), NEW e \in ErrorCodes, NEW why \in ReasonCodes
  PROVE  /\ Good(Bump(Asmerr(m, e), why))
         /\ Bump(Asmerr(m, e), why).Redo # 0
<1> DEFINE n == Bump(Asmerr(m, e), why)
<1>1. m \in Machine /\ AllKnown(m.out) /\ Allowed(m)
  BY DEF Good
<1>2. /\ Asmerr(m, e) \in Machine /\ Allowed(Asmerr(m, e))
      /\ Asmerr(m, e).out = m.out
  BY <1>1, AsmerrAllowed, ZenonT(30) DEF Machine, Asmerr
<1>3. n \in Machine /\ n.out = m.out /\ n.Redo # 0 /\ Allowed(n)
  BY <1>2, BumpType, BumpAllowed
<1>4. AllKnown(n.out)
  BY <1>1, <1>3
<1>5. QED
  BY <1>3, <1>4, GoodWhenRedo

\* The address of a line is a number with a flag.
LEMMA PCType ==
  ASSUME NEW m \in Machine
  PROVE  PC(m) \in Operands /\ Seg(m) \in SegmentEntry
BY DEF Machine, PC, Seg, SegmentEntry, Operands

\* So is the value of an operand.
LEMMA ValueType ==
  ASSUME NEW m \in Machine, NEW x \in Expressions
  PROVE  Value(m, x) \in Operands /\ Operand(m, x) \in Operands
<1>1. PC(m) \in Operands
  BY PCType
<1>2. x.of \in Symbols \cup {Nothing, Dot} /\ x.add \in Int /\ x.cap \in BOOLEAN
  BY DEF Expressions
<1>3. x.of \in Symbols => m.symtab[x.of] \in SymbolEntry
  BY DEF Machine
<1>4. Operand(m, x) \in Operands
  BY <1>1, <1>2, <1>3 DEF Operand, Operands, SymbolEntry
<1>5. QED
  BY <1>2, <1>4 DEF Value, Operands

\* eval changes nothing but the marks of symbols, Redo_eval and the history.
LEMMA EvalFields ==
  ASSUME NEW m \in Machine, NEW x \in Expressions
  PROVE  /\ Eval(m, x) \in Machine
         /\ Eval(m, x).out = m.out /\ Eval(m, x).Redo = m.Redo
         /\ Eval(m, x).raised = m.raised
         /\ \A s \in Symbols : /\ Eval(m, x).symtab[s].val = m.symtab[s].val
                               /\ Eval(m, x).symtab[s].unk = m.symtab[s].unk
                               /\ m.symtab[s].ref => Eval(m, x).symtab[s].ref
<1> DEFINE a == Operand(m, x)
           e == m.eval + IF a.unk THEN Occurrences(x) ELSE 0
           seen == [m EXCEPT !.eval = e]
           u == IF a.unk THEN m.used ELSE m.used \cup {<<x.of, a.val>>}
           tab == [m.symtab EXCEPT ![x.of] = [@ EXCEPT !.ref = TRUE]]
<1>1. a \in Operands
  BY ValueType
<1>2. e \in Nat
  BY <1>1 DEF Machine, Operands, Occurrences
<1> HIDE DEF e
<1>3. seen \in Machine /\ seen.symtab = m.symtab /\ seen.used = m.used
      /\ seen.out = m.out /\ seen.Redo = m.Redo /\ seen.raised = m.raised
  BY <1>2 DEF Machine
<1>4. CASE x.of \notin Symbols
  BY <1>3, <1>4 DEF Eval, e
<1>5. CASE x.of \in Symbols
  <2>1. u \in SUBSET (Symbols \X Int)
    BY <1>1, <1>5 DEF Machine, Operands
  <2>2. tab \in [Symbols -> SymbolEntry]
    BY <1>5 DEF Machine, SymbolEntry
  <2>3. Eval(m, x) = [seen EXCEPT !.symtab = tab, !.used = u]
    BY <1>3, <1>5 DEF Eval, e
  <2>4. \A s \in Symbols : /\ tab[s].val = m.symtab[s].val
                           /\ tab[s].unk = m.symtab[s].unk
                           /\ m.symtab[s].ref => tab[s].ref
    BY <1>5 DEF Machine, SymbolEntry
  <2> HIDE DEF u, tab, seen
  <2>5. /\ Eval(m, x) \in Machine
        /\ Eval(m, x).out = seen.out /\ Eval(m, x).Redo = seen.Redo
        /\ Eval(m, x).raised = seen.raised /\ Eval(m, x).symtab = tab
    BY <1>3, <2>1, <2>2, <2>3, ZenonT(30) DEF Machine
  <2>6. QED
    BY <1>3, <2>4, <2>5
<1>6. QED
  BY <1>4, <1>5

\* The new entry of the history is that of a symbol with its value, known and marked.
LEMMA EvalUsed ==
  ASSUME NEW m \in Machine, NEW x \in Expressions, NEW u \in Eval(m, x).used
  PROVE  \/ u \in m.used
         \/ /\ x.of \in Symbols /\ u = <<x.of, m.symtab[x.of].val>>
            /\ ~m.symtab[x.of].unk /\ Eval(m, x).symtab[x.of].ref
<1>1. CASE x.of \notin Symbols
  BY <1>1 DEF Eval, Machine
<1>2. CASE x.of \in Symbols
  <2>1. Operand(m, x).val = m.symtab[x.of].val /\ Operand(m, x).unk = m.symtab[x.of].unk
    BY <1>2, AssemblerAssumption DEF Operand
  <2>2. m.symtab[x.of] \in SymbolEntry /\ m.symtab \in [Symbols -> SymbolEntry]
    BY <1>2 DEF Machine
  <2>3. Eval(m, x).symtab[x.of].ref
    BY <1>2, <2>2 DEF Eval, SymbolEntry, Machine
  <2>4. Eval(m, x).used = IF Operand(m, x).unk THEN m.used
                          ELSE m.used \cup {<<x.of, Operand(m, x).val>>}
    BY <1>2 DEF Eval, Machine
  <2>5. QED
    BY <1>2, <2>1, <2>3, <2>4
<1>3. QED
  BY <1>1, <1>2

\* eval() counts what it could not resolve.
LEMMA EvalAllowed ==
  ASSUME NEW m \in Machine, Allowed(m), NEW x \in Expressions
  PROVE  Allowed(Eval(m, x))
<1> DEFINE e == m.eval + IF Operand(m, x).unk THEN Occurrences(x) ELSE 0
           n == Eval(m, x)
<1>1. e \in Nat /\ e >= m.eval
  BY DEF Machine, Occurrences
<1>2. /\ n.Redo = m.Redo /\ n.why = m.why /\ n.eval = e /\ n.rif = m.rif
      /\ n.out = m.out /\ n.fileorg = m.fileorg /\ n.fisclear = m.fisclear
  BY DEF Eval, Machine
<1>3. m.eval \in Nat
  BY DEF Machine
<1> HIDE DEF e, n
<1>4. Counted(n) /\ InOrder(n)
  BY <1>1, <1>2, <1>3 DEF Allowed, Counted, InOrder
<1>5. QED
  BY <1>4 DEF Allowed, n

\* eval() notes the value it has taken.
LEMMA EvalGood ==
  ASSUME NEW m, Good(m), NEW x \in Expressions
  PROVE  Good(Eval(m, x)) /\ Eval(m, x).Redo = m.Redo
<1>1. m \in Machine /\ AllKnown(m.out) /\ Consistent(m) /\ Harmless(m) /\ Allowed(m)
  BY DEF Good
<1> DEFINE n == Eval(m, x)
<1>2. /\ n \in Machine /\ n.out = m.out /\ n.Redo = m.Redo /\ n.raised = m.raised
      /\ \A s \in Symbols : /\ n.symtab[s].val = m.symtab[s].val
                            /\ n.symtab[s].unk = m.symtab[s].unk
                            /\ m.symtab[s].ref => n.symtab[s].ref
  BY <1>1, EvalFields
<1>3. ASSUME m.Redo = 0, NEW u \in n.used
      PROVE  Remembers(n.symtab, u)
  <2>1. CASE u \in m.used
    <3>1. Remembers(m.symtab, u) /\ u[1] \in Symbols
      BY <1>1, <1>3, <2>1 DEF Consistent, Machine
    <3>2. QED
      BY <1>2, <3>1 DEF Remembers
  <2>2. CASE /\ x.of \in Symbols /\ u = <<x.of, m.symtab[x.of].val>>
             /\ ~m.symtab[x.of].unk /\ n.symtab[x.of].ref
    BY <1>2, <2>2 DEF Remembers
  <2>3. QED
    BY <1>1, <2>1, <2>2, EvalUsed
<1>4. Consistent(n)
  BY <1>2, <1>3 DEF Consistent
<1>5. Allowed(n)
  BY <1>1, EvalAllowed
<1>6. QED
  BY <1>1, <1>2, <1>4, <1>5 DEF Good, Harmless

\* A new value for a label.
Relabel(m, l, a) == [m EXCEPT !.symtab[l].val = a.val, !.symtab[l].unk = a.unk]

\* programlabel() writes an entry of the right type.
LEMMA RelabelType ==
  ASSUME NEW m \in Machine, NEW l \in Symbols, NEW a \in Operands
  PROVE  /\ Relabel(m, l, a) \in Machine /\ Relabel(m, l, a).out = m.out
         /\ Relabel(m, l, a).Redo = m.Redo /\ Relabel(m, l, a).raised = m.raised
         /\ Relabel(m, l, a).used = m.used
         /\ \A s \in Symbols \ {l} : Relabel(m, l, a).symtab[s] = m.symtab[s]
         /\ Relabel(m, l, a).symtab[l].val = a.val
         /\ Relabel(m, l, a).symtab[l].unk = a.unk
         /\ Relabel(m, l, a).symtab[l].ref = m.symtab[l].ref
<1> DEFINE entry == [val |-> a.val, unk |-> a.unk, ref |-> m.symtab[l].ref]
           tab == [m.symtab EXCEPT ![l] = entry]
<1>1. m.symtab \in [Symbols -> SymbolEntry] /\ m.symtab[l] \in SymbolEntry
  BY DEF Machine
<1>2. entry \in SymbolEntry
  BY <1>1 DEF SymbolEntry, Operands
<1> DEFINE tab1 == [m.symtab EXCEPT ![l] = [@ EXCEPT !.val = a.val]]
           m1 == [m EXCEPT !.symtab = tab1]
<1>3. m1.symtab = tab1 /\ [m1 EXCEPT !.symtab = tab] = [m EXCEPT !.symtab = tab]
  BY DEF Machine
<1>4. Relabel(m, l, a) = [m EXCEPT !.symtab = tab]
  <2>1. [tab1 EXCEPT ![l] = [@ EXCEPT !.unk = a.unk]] = tab
    BY <1>1 DEF SymbolEntry
  <2>2. Relabel(m, l, a) = [m1 EXCEPT !.symtab = [tab1 EXCEPT ![l] = [@ EXCEPT !.unk = a.unk]]]
    BY <1>3 DEF Relabel
  <2>3. QED
    BY <1>3, <2>1, <2>2
<1>5. /\ tab \in [Symbols -> SymbolEntry] /\ \A s \in Symbols \ {l} : tab[s] = m.symtab[s]
      /\ tab[l].val = a.val /\ tab[l].unk = a.unk /\ tab[l].ref = m.symtab[l].ref
  BY <1>1, <1>2
<1> HIDE DEF tab
<1>6. QED
  BY <1>4, <1>5 DEF Machine

\* programlabel() counts up, or not.
LEMMA RelabelAllowed ==
  ASSUME NEW m \in Machine, Allowed(m), NEW l \in Symbols, NEW a \in Operands
  PROVE  Allowed(Relabel(m, l, a))
<1>1. Alike(Relabel(m, l, a), m)
  BY DEF Relabel, Alike, Machine
<1>2. QED
  BY <1>1, AlikeAllowed

\* So does a line without a label.
LEMMA LabelAllowed ==
  ASSUME NEW m \in Machine, Allowed(m), NEW l \in Symbols \cup {NoLabel}
  PROVE  Allowed(Label(m, l))
<1> DEFINE here == PC(m)
           old == m.symtab[l]
           quiet == IF 1 \in m.rif THEN m ELSE Asmerr(m, "ERROR_LABEL_MISMATCH")
           checked ==
             IF ForwardReference(old, here) THEN Bump(m, "FORWARD_REFERENCE")
             ELSE IF PhaseError(old, here) THEN Bump(quiet, "PHASE_ERROR") ELSE m
<1>1. here \in Operands
  BY PCType
<1>2. quiet \in Machine /\ Allowed(quiet)
  BY AsmerrAllowed DEF ErrorCodes, Warnings
<1> HIDE DEF quiet
<1>3. "FORWARD_REFERENCE" \in ReasonCodes /\ "PHASE_ERROR" \in ReasonCodes
  BY DEF ReasonCodes
<1>4. checked \in Machine /\ Allowed(checked)
  BY <1>2, <1>3, BumpType, BumpAllowed
<1>5. l # NoLabel => Label(m, l) = Relabel(checked, l, here)
  BY DEF Label, Relabel, quiet
<1> HIDE DEF checked, here
<1>6. CASE l = NoLabel
  BY <1>6 DEF Label
<1>7. CASE l # NoLabel
  BY <1>1, <1>4, <1>5, <1>7, RelabelAllowed
<1>8. QED
  BY <1>6, <1>7

\* A label that moves is noticed, unless nobody has looked at it.
LEMMA LabelGood ==
  ASSUME NEW m, Good(m), NEW l \in Labels
  PROVE  Good(Label(m, l))
<1>1. m \in Machine /\ AllKnown(m.out) /\ Consistent(m) /\ Harmless(m) /\ Allowed(m)
  BY DEF Good
<1>0. Allowed(Label(m, l))
  BY <1>1, LabelAllowed DEF Labels
<1> DEFINE here == PC(m)
           old == m.symtab[l]
           relabelled(n) == Relabel(n, l, here)
<1>2. here \in Operands
  BY <1>1, PCType
<1> HIDE DEF here
<1>3. CASE l = NoLabel
  BY <1>3 DEF Label
<1>4. CASE l # NoLabel /\ ForwardReference(old, here)
  <2>1. Label(m, l) = relabelled(Bump(m, "FORWARD_REFERENCE"))
    BY <1>4 DEF Label, here, Relabel
  <2>2. Bump(m, "FORWARD_REFERENCE") \in Machine /\ Bump(m, "FORWARD_REFERENCE").Redo # 0
        /\ Bump(m, "FORWARD_REFERENCE").out = m.out
    BY <1>1, BumpType DEF ReasonCodes
  <2>3. QED
    BY <1>0, <1>1, <1>2, <1>4, <2>1, <2>2, RelabelType, GoodWhenRedo DEF Labels
<1>5. CASE l # NoLabel /\ ~ForwardReference(old, here) /\ PhaseError(old, here)
  <2> DEFINE quiet == IF 1 \in m.rif THEN m ELSE Asmerr(m, "ERROR_LABEL_MISMATCH")
  <2>1. Label(m, l) = relabelled(Bump(quiet, "PHASE_ERROR"))
    BY <1>5 DEF Label, here, Relabel
  <2>2. quiet \in Machine /\ quiet.out = m.out
    BY <1>1 DEF Machine, Asmerr, ErrorCodes, Warnings
  <2> HIDE DEF quiet
  <2>3. Bump(quiet, "PHASE_ERROR") \in Machine /\ Bump(quiet, "PHASE_ERROR").Redo # 0
        /\ Bump(quiet, "PHASE_ERROR").out = m.out
    BY <2>2, BumpType DEF ReasonCodes
  <2>4. QED
    BY <1>0, <1>1, <1>2, <1>5, <2>1, <2>3, RelabelType, GoodWhenRedo DEF Labels
<1>6. CASE l # NoLabel /\ ~ForwardReference(old, here) /\ ~PhaseError(old, here)
  <2> DEFINE n == relabelled(m)
  <2>1. Label(m, l) = n
    BY <1>6 DEF Label, here, Relabel
  <2>2. l \in Symbols
    BY <1>6 DEF Labels
  <2>3. /\ n \in Machine /\ n.out = m.out /\ n.Redo = m.Redo
        /\ n.raised = m.raised /\ n.used = m.used
        /\ \A s \in Symbols \ {l} : n.symtab[s] = m.symtab[s]
        /\ n.symtab[l].val = here.val /\ n.symtab[l].unk = here.unk /\ n.symtab[l].ref = old.ref
    BY <1>1, <1>2, <2>2, RelabelType
  <2>4. ASSUME m.Redo = 0, NEW u \in m.used
        PROVE  Remembers(n.symtab, u)
    <3>1. Remembers(m.symtab, u) /\ u[1] \in Symbols
      BY <1>1, <2>4 DEF Consistent, Machine
    <3>2. CASE u[1] # l
      BY <2>3, <3>1, <3>2 DEF Remembers
    <3>3. CASE u[1] = l /\ l \notin Stable
      BY <3>3 DEF Remembers
    <3>4. CASE u[1] = l /\ l \in Stable
      <4>1. l \notin EquSymbols
        BY <1>6, <3>4 DEF Labels
      <4>2. old.val = u[2] /\ ~old.unk /\ old.ref
        BY <3>1, <3>4, <4>1 DEF Remembers
      <4>3. ~here.unk /\ here.val = old.val
        BY <1>6, <4>2 DEF ForwardReference, PhaseError
      <4>4. QED
        BY <2>3, <3>4, <4>2, <4>3 DEF Remembers
    <3>5. QED
      BY <3>2, <3>3, <3>4
  <2> HIDE DEF n
  <2>5. QED
    BY <1>0, <1>1, <2>1, <2>3, <2>4 DEF Good, Consistent, Harmless
<1>7. QED
  BY <1>3, <1>4, <1>5, <1>6

\* Only the output, the counters, the history, the errors and the symbols matter.
LEMMA SameGood ==
  ASSUME NEW m, Good(m), NEW n \in Machine, Alike(n, m), n.used = m.used,
         n.symtab = m.symtab, n.raised = m.raised
  PROVE  Good(n)
<1>1. Allowed(n) /\ n.out = m.out /\ n.Redo = m.Redo
  BY AlikeAllowed DEF Good, Alike
<1>2. QED
  BY <1>1 DEF Good, Consistent, Harmless

\* The origins and flags of one segment are set.
PutSegment(m, c, entry) == [m EXCEPT !.segs[c] = entry]

\* Any change of a segment.
LEMMA PutSegmentGood ==
  ASSUME NEW m, Good(m), NEW c \in Segments, NEW entry \in SegmentEntry
  PROVE  Good(PutSegment(m, c, entry))
<1>1. m \in Machine
  BY DEF Good
<1> DEFINE tab == [m.segs EXCEPT ![c] = entry]
<1>2. tab \in [Segments -> SegmentEntry]
  BY <1>1 DEF Machine
<1>3. PutSegment(m, c, entry) = [m EXCEPT !.segs = tab]
  BY DEF PutSegment
<1> HIDE DEF tab
<1>4. /\ PutSegment(m, c, entry) \in Machine
      /\ Alike(PutSegment(m, c, entry), m) /\ PutSegment(m, c, entry).used = m.used
      /\ PutSegment(m, c, entry).symtab = m.symtab
      /\ PutSegment(m, c, entry).raised = m.raised
  BY <1>1, <1>2, <1>3 DEF Machine, Alike
<1>5. QED
  BY <1>4, SameGood

\* Going on by some bytes.
LEMMA AdvanceGood ==
  ASSUME NEW m, Good(m), NEW k \in Int
  PROVE  Good(Advance(m, k))
<1>1. m \in Machine /\ m.cs \in Segments /\ Seg(m) \in SegmentEntry
  BY DEF Good, Machine, Seg
<1> DEFINE entry == [Seg(m) EXCEPT !.org = @ + k, !.rorg = IF Seg(m).inRorg THEN @ + k ELSE @]
           moved == [m EXCEPT !.segs[m.cs].org = @ + k,
                              !.segs[m.cs].rorg = IF Seg(m).inRorg THEN @ + k ELSE @]
<1>2. entry \in SegmentEntry
  <2> DEFINE o == Seg(m).org + k
             r == IF Seg(m).inRorg THEN Seg(m).rorg + k ELSE Seg(m).rorg
  <2>1. o \in Int /\ r \in Int
    BY <1>1 DEF SegmentEntry
  <2>2. entry = [Seg(m) EXCEPT !.org = o, !.rorg = r]
    BY <1>1 DEF SegmentEntry
  <2> HIDE DEF o, r
  <2>3. QED
    BY <1>1, <2>1, <2>2 DEF SegmentEntry
<1>3. moved = PutSegment(m, m.cs, entry)
  <2>1. [m.segs EXCEPT ![m.cs].org = @ + k,
                       ![m.cs].rorg = IF Seg(m).inRorg THEN @ + k ELSE @]
        = [m.segs EXCEPT ![m.cs] = entry]
    BY <1>1 DEF Machine, Seg, SegmentEntry
  <2>2. QED
    BY <1>1, <2>1 DEF PutSegment, Machine
<1>4. Good(moved)
  BY <1>1, <1>2, <1>3, PutSegmentGood
<1>5. Advance(m, k) = moved \/ Advance(m, k) = Abort(moved, "ERROR_AVOID_SEGFAULT")
  BY DEF Advance
<1> HIDE DEF moved
<1>6. QED
  BY <1>4, <1>5, AbortGood DEF ErrorCodes, FatalCodes

\* A run begins where the last one has ended or behind it.
LEMMA WriteAllowed ==
  ASSUME NEW m \in Machine, Allowed(m), NEW k \in Nat, NEW a,
         Format # "FORMAT_RAS" => m.fisclear \/ Seg(m).org >= m.fileorg
  PROVE  Allowed(Write(m, k, a))
<1> DEFINE n == Write(m, k, a)
           run == [at |-> Seg(m).org, len |-> k, val |-> a.val,
                   unk |-> a.unk, lost |-> Seg(m).unk]
<1>1. /\ n.Redo = m.Redo /\ n.why = m.why /\ n.eval = m.eval /\ n.rif = m.rif
      /\ n.out = Append(m.out, run) /\ n.fileorg = Seg(m).org + k /\ n.fisclear = FALSE
  BY DEF Write, Machine
<1>2. m.out \in Seq(RunEntry) /\ m.fileorg \in Int /\ Seg(m).org \in Int
  BY PCType DEF Machine, SegmentEntry
<1>3. run.at = Seg(m).org /\ run.len = k
  OBVIOUS
<1> HIDE DEF n, run
<1>4. Counted(n)
  BY <1>1 DEF Allowed, Counted
<1>5. ASSUME Format # "FORMAT_RAS"
      PROVE  /\ Ascending(n.out)
             /\ \A i \in DOMAIN n.out : n.out[i].at + n.out[i].len <= n.fileorg
  <2> DEFINE o == m.out
             s == Seg(m).org
  <2>1. /\ Ascending(o)
        /\ \A i \in DOMAIN o : o[i].at + o[i].len <= m.fileorg
        /\ m.fisclear => o = <<>>
    BY <1>5 DEF Allowed, InOrder
  <2>2. \A i \in DOMAIN o : o[i].at \in Int /\ o[i].len \in Nat
    <3>1. \A i \in DOMAIN o : o[i] \in RunEntry
      BY <1>2
    <3> HIDE DEF o
    <3>2. QED
      BY <3>1 DEF RunEntry
  <2>3. \A i \in DOMAIN o : o[i].at + o[i].len <= s
    BY <1>2, <1>5, <2>1, <2>2
  <2>4. /\ DOMAIN n.out = 1 .. Len(o) + 1 /\ DOMAIN o = 1 .. Len(o) /\ Len(o) \in Nat
        /\ n.out[Len(o) + 1] = run
        /\ \A i \in 1 .. Len(o) : n.out[i] = o[i]
    BY <1>1, <1>2
  <2> HIDE DEF o, s
  <2>5. ASSUME NEW i \in DOMAIN n.out, NEW j \in DOMAIN n.out, i < j
        PROVE  n.out[i].at + n.out[i].len <= n.out[j].at
    <3>1. CASE j = Len(o) + 1
      BY <1>3, <2>3, <2>4, <2>5, <3>1 DEF s
    <3>2. CASE j # Len(o) + 1
      BY <2>1, <2>4, <2>5, <3>2 DEF Ascending
    <3>3. QED
      BY <3>1, <3>2
  <2>6. ASSUME NEW i \in DOMAIN n.out
        PROVE  n.out[i].at + n.out[i].len <= n.fileorg
    <3>1. CASE i = Len(o) + 1
      BY <1>1, <1>2, <1>3, <2>4, <3>1
    <3>2. CASE i # Len(o) + 1
      <4>1. i \in DOMAIN o /\ n.out[i] = o[i]
        BY <2>4, <2>6, <3>2
      <4>2. o[i].at + o[i].len <= s /\ s \in Int /\ n.fileorg = s + k
        BY <1>1, <1>2, <2>3, <4>1 DEF s
      <4>3. QED
        BY <2>2, <4>1, <4>2
    <3>3. QED
      BY <3>1, <3>2
  <2>7. QED
    BY <2>5, <2>6 DEF Ascending
<1>6. InOrder(n)
  BY <1>1, <1>5 DEF InOrder
<1>7. QED
  BY <1>4, <1>6 DEF Allowed, n

\* Bytes are written only while no other pass is asked for, so their operand is known.
LEMMA WriteGood ==
  ASSUME NEW m, Good(m), NEW k \in Nat, NEW a \in Operands, ~a.unk,
         Format # "FORMAT_RAS" => m.fisclear \/ Seg(m).org >= m.fileorg
  PROVE  Good(Write(m, k, a))
<1>1. m \in Machine /\ AllKnown(m.out) /\ Seg(m) \in SegmentEntry
  BY PCType DEF Good
<1> DEFINE run == [at |-> Seg(m).org, len |-> k, val |-> a.val,
                   unk |-> a.unk, lost |-> Seg(m).unk]
           runs == Append(m.out, run)
           o == Seg(m).org + k
<1>2. run \in RunEntry /\ o \in Int
  BY <1>1 DEF RunEntry, SegmentEntry, Operands
<1>3. runs \in Seq(RunEntry) /\ \A i \in DOMAIN runs : ~runs[i].unk
  <2>1. m.out \in Seq(RunEntry) /\ run.unk = a.unk
    BY <1>1 DEF Machine
  <2> HIDE DEF run
  <2>2. QED
    BY <1>1, <1>2, <2>1 DEF AllKnown
<1>4. Write(m, k, a) = [m EXCEPT !.fisclear = FALSE, !.fileorg = o, !.out = runs]
  BY <1>1 DEF Write, Machine
<1> HIDE DEF runs, o
<1>5. /\ Write(m, k, a) \in Machine /\ Write(m, k, a).out = runs
      /\ Write(m, k, a).used = m.used /\ Write(m, k, a).symtab = m.symtab
      /\ Write(m, k, a).Redo = m.Redo /\ Write(m, k, a).raised = m.raised
  BY <1>1, <1>2, <1>3, <1>4, ZenonT(30) DEF Machine
<1>6. Allowed(Write(m, k, a))
  BY <1>1, WriteAllowed DEF Good
<1>7. QED
  BY <1>3, <1>5, <1>6 DEF Good, AllKnown, Consistent, Harmless

\* Runs are written only if known, in order and from a known origin on (src/ops.c generate).
LEMMA GenerateGood ==
  ASSUME NEW m, Good(m), NEW k \in Nat, NEW a \in Operands, m.Redo = 0 => ~a.unk
  PROVE  Good(Generate(m, k, a))
<1> DEFINE writes == m.Redo = 0 /\ ~Seg(m).bss
           reversed == writes /\ ~m.fisclear /\ Format # "FORMAT_RAS" /\ Seg(m).org < m.fileorg
<1>1. CASE writes /\ m.fisclear /\ Seg(m).unk
  <2>1. m \in Machine /\ AllKnown(m.out) /\ Allowed(m)
    BY DEF Good
  <2> DEFINE b == Bump(m, "OBSCURE")
             n == [b EXCEPT !.fisclear = FALSE]
  <2>2. b \in Machine /\ b.Redo # 0 /\ b.out = m.out /\ Allowed(b)
    BY <2>1, BumpType, BumpAllowed DEF ReasonCodes
  <2>3. Generate(m, k, a) = n
    BY <1>1 DEF Generate
  <2> HIDE DEF b
  <2>4. /\ n.Redo = b.Redo /\ n.why = b.why /\ n.eval = b.eval /\ n.rif = b.rif
        /\ n.out = b.out /\ n.fileorg = b.fileorg /\ n.fisclear = FALSE
        /\ n \in Machine
    BY <2>2 DEF Machine
  <2> HIDE DEF n
  <2>5. Allowed(n)
    BY <2>2, <2>4 DEF Allowed, Counted, InOrder
  <2>6. QED
    BY <2>1, <2>2, <2>3, <2>4, <2>5, GoodWhenRedo
<1>2. CASE ~(writes /\ m.fisclear /\ Seg(m).unk) /\ reversed
  BY <1>2, AbortGood DEF Generate, ErrorCodes, Warnings
<1>3. CASE ~(writes /\ m.fisclear /\ Seg(m).unk) /\ ~reversed
  <2> DEFINE n == IF writes THEN Write(m, k, a) ELSE m
  <2>1. Generate(m, k, a) = Advance(n, k)
    BY <1>3 DEF Generate
  <2>2. m.fileorg \in Int /\ Seg(m).org \in Int
    BY PCType DEF Good, Machine, SegmentEntry
  <2>3. writes => Good(Write(m, k, a))
    BY <1>3, <2>2, WriteGood
  <2>4. Good(n)
    BY <2>3
  <2> HIDE DEF n
  <2>5. QED
    BY <2>1, <2>4, AdvanceGood
<1>4. QED
  BY <1>1, <1>2, <1>3

\* genfill().
LEMMA GenfillGood ==
  ASSUME NEW m, Good(m), NEW k \in Int
  PROVE  Good(Genfill(m, k))
<1>1. Blank \in Operands /\ ~Blank.unk
  BY DEF Blank, Operands
<1>2. Good(Abort(m, "ERROR_ORIGIN_REVERSE_INDEXED"))
  BY AbortGood DEF ErrorCodes, Warnings
<1>3. \A n, j : Good(n) /\ j \in Nat => Good(Generate(n, j, Blank))
  BY <1>1, GenerateGood
<1>4. GenSize \in Nat
  BY DEF GenSize
<1>5. k > GenSize => k - GenSize \in Nat
  BY <1>4
<1>6. k < 0 \/ k \in Nat
  OBVIOUS
<1>7. QED
  BY <1>2, <1>3, <1>4, <1>5, <1>6 DEF Genfill

-----------------------------------------------------------------------------
(* The handlers keep Good. *)

\* The statements other than EQU and SET.
Plain == {st \in Statements : st.lab \in Labels}

\* The fields of a statement that is not EQU or SET.
LEMMA PlainFields ==
  ASSUME NEW st \in Plain
  PROVE  st.lab \in Labels /\ st.exp \in Expressions /\ st.seg \in Segments
BY DEF Plain, Statements

\* An operand that is not known has asked for another pass.
LEMMA OperatedGood ==
  ASSUME NEW m, Good(m), NEW st \in Plain
  PROVE  /\ Good(Operated(m, st)) /\ OperandOf(m, st) \in Operands
         /\ Operated(m, st).Redo = 0 => ~OperandOf(m, st).unk
<1> DEFINE labelled == Label(m, st.lab)
           seen == Eval(labelled, st.exp)
           bumped == Bump(seen, "MNEMONIC_NOT_RESOLVED")
           refused == Asmerr(bumped, "ERROR_UNKNOWN_MNEMONIC")
<1>1. Good(labelled)
  BY LabelGood, PlainFields
<1>2. Good(seen)
  BY <1>1, EvalGood, PlainFields
<1>3. Good(bumped) /\ bumped.Redo # 0
  BY <1>2, BumpGood DEF ReasonCodes
<1>4. Good(refused) /\ refused.Redo # 0
  BY <1>3, AsmerrGood DEF ErrorCodes, FatalCodes, Final
<1>5. OperandOf(m, st) \in Operands
  BY <1>1, ValueType, PlainFields DEF Good, OperandOf
<1>6. Operated(m, st) = IF ~OperandOf(m, st).unk THEN seen
                        ELSE IF Verbose THEN bumped ELSE refused
  BY DEF Operated, OperandOf
<1>7. QED
  BY <1>2, <1>3, <1>4, <1>5, <1>6

\* v_mnemonic() with a choice of page 0 and absolute.
LEMMA MnemonicMemGood ==
  ASSUME NEW m, Good(m), NEW st \in Plain
  PROVE  Good(MnemonicMem(m, st))
<1> DEFINE done == Operated(m, st)
           warned == Asmerr(done, "ERROR_ADDRESS_MUST_BE_LT_100")
<1>1. Good(done) /\ OperandOf(m, st) \in Operands
      /\ (done.Redo = 0 => ~OperandOf(m, st).unk)
  BY OperatedGood
<1>2. Good(warned) /\ warned.Redo = done.Redo
  BY <1>1, AsmerrGood DEF ErrorCodes, FatalCodes, Final
<1> HIDE DEF done, warned
<1>3. \A k \in Nat : Good(Generate(done, k, OperandOf(m, st)))
                     /\ Good(Generate(warned, k, OperandOf(m, st)))
  BY <1>1, <1>2, GenerateGood
<1>4. QED
  BY <1>3 DEF MnemonicMem, done, warned

\* v_mnemonic(), absolute only.
LEMMA MnemonicWordGood ==
  ASSUME NEW m, Good(m), NEW st \in Plain
  PROVE  Good(MnemonicWord(m, st))
BY OperatedGood, GenerateGood DEF MnemonicWord

\* v_mnemonic() without an operand.
LEMMA MnemonicImpliedGood ==
  ASSUME NEW m, Good(m), NEW st \in Plain
  PROVE  Good(MnemonicImplied(m, st))
<1>1. Blank \in Operands /\ ~Blank.unk
  BY DEF Blank, Operands
<1>2. Good(Label(m, st.lab))
  BY LabelGood, PlainFields
<1>3. QED
  BY <1>1, <1>2, GenerateGood DEF MnemonicImplied

\* v_mnemonic() without a form for the operand.
LEMMA MnemonicIllegalGood ==
  ASSUME NEW m, Good(m), NEW st \in Plain
  PROVE  Good(MnemonicIllegal(m, st))
<1> DEFINE refused == Bump(Asmerr(Operated(m, st), "ERROR_ILLEGAL_ADDRESSING_MODE"),
                           "MNEMONIC_NOT_RESOLVED")
<1>1. Good(refused) /\ refused.Redo # 0
  BY OperatedGood, RefuseGood DEF ErrorCodes, Warnings, ReasonCodes
<1>2. Good(Asmerr(refused, "ERROR_UNKNOWN_MNEMONIC"))
  BY <1>1, AsmerrGood DEF ErrorCodes, FatalCodes
<1>3. QED
  BY <1>1, <1>2 DEF MnemonicIllegal

\* v_mnemonic() for a branch.
LEMMA MnemonicRelGood ==
  ASSUME NEW m, Good(m), NEW st \in Plain
  PROVE  Good(MnemonicRel(m, st))
<1> DEFINE a == OperandOf(m, st)
           done == Operated(m, st)
           dest == a.val - PC(done).val - 2
           tooFar == ~a.unk /\ ~PC(done).unk /\ dest \notin -128 .. 127
           refused == Bump(Asmerr(done, "ERROR_BRANCH_OUT_OF_RANGE"), "BRANCH_OUT_OF_RANGE")
           reached == ~a.unk /\ ~PC(done).unk /\ dest \in -128 .. 127
           byte == [val |-> IF reached THEN dest ELSE 0, unk |-> a.unk]
<1>1. Good(done) /\ a \in Operands /\ (done.Redo = 0 => ~a.unk)
  BY OperatedGood
<1>2. Good(refused) /\ refused.Redo # 0
  BY <1>1, RefuseGood DEF ErrorCodes, Warnings, ReasonCodes
<1>3. byte \in Operands /\ byte.unk = a.unk
  <2>1. PC(done) \in Operands
    BY <1>1, PCType DEF Good
  <2>2. dest \in Int
    BY <1>1, <2>1 DEF Operands
  <2> HIDE DEF dest
  <2>3. QED
    BY <1>1, <2>2 DEF Operands
<1>4. MnemonicRel(m, st) = Generate(IF tooFar THEN refused ELSE done, 2, byte)
  BY DEF MnemonicRel
<1> HIDE DEF byte, refused, tooFar, done
<1>5. Good(Generate(refused, 2, byte)) /\ Good(Generate(done, 2, byte))
  BY <1>1, <1>2, <1>3, GenerateGood
<1>6. QED
  BY <1>4, <1>5

\* generate_branch().
LEMMA BranchGood ==
  ASSUME NEW m, Good(m), NEW st \in Plain, OfF8
  PROVE  Good(generate_branch(m, st))
<1> DEFINE a == OperandOf(m, st)
           seen == Eval(Label(m, st.lab), st.exp)
           known == ~a.unk /\ ~PC(seen).unk
           disp == a.val - PC(seen).val - 1
           bumped == Bump(seen, "MNEMONIC_NOT_RESOLVED")
           tooFar == known /\ disp \notin -128 .. 127
           reported == Asmerr(seen, "ERROR_BRANCH_OUT_OF_RANGE")
           byte == [val |-> IF known THEN disp ELSE 0, unk |-> a.unk]
<1>1. Good(Label(m, st.lab)) /\ st.exp \in Expressions
  BY LabelGood, PlainFields
<1>2. Good(seen) /\ a \in Operands
  BY <1>1, EvalGood, ValueType DEF OperandOf, Good
<1>3. Good(bumped) /\ bumped.Redo # 0
  BY <1>2, BumpGood DEF ReasonCodes
<1>4. Good(reported)
  BY <1>2, AsmerrGood DEF ErrorCodes, Warnings, Final
<1>5. byte \in Operands /\ byte.unk = a.unk
  <2>1. PC(seen) \in Operands
    BY <1>2, PCType DEF Good
  <2>2. disp \in Int
    BY <1>2, <2>1 DEF Operands
  <2> HIDE DEF disp
  <2>3. QED
    BY <1>2, <2>2 DEF Operands
<1>6. generate_branch(m, st)
      = Generate(IF a.unk THEN bumped ELSE IF tooFar THEN reported ELSE seen, 2, byte)
  BY DEF generate_branch
<1> HIDE DEF byte, bumped, reported, tooFar, seen
<1>7. /\ a.unk => Good(Generate(bumped, 2, byte))
      /\ ~a.unk => Good(Generate(reported, 2, byte)) /\ Good(Generate(seen, 2, byte))
  BY <1>2, <1>3, <1>4, <1>5, GenerateGood
<1>8. QED
  BY <1>6, <1>7

\* v_dc().
LEMMA DcGood ==
  ASSUME NEW m, Good(m), NEW st \in Plain
  PROVE  Good(v_dc(m, st))
<1> DEFINE a == OperandOf(m, st)
           seen == Eval(Label(m, st.lab), st.exp)
           bumped == IF a.unk THEN Bump(seen, "DC_NOT_RESOLVED") ELSE seen
           warned == Asmerr(bumped, "ERROR_ADDRESS_MUST_BE_LT_100")
<1>1. Good(seen)
  BY LabelGood, EvalGood, PlainFields
<1>2. a \in Operands
  BY OperatedGood
<1>3. Good(bumped) /\ (bumped.Redo = 0 => ~a.unk)
  BY <1>1, BumpGood DEF ReasonCodes
<1> HIDE DEF bumped
<1>4. Good(warned) /\ warned.Redo = bumped.Redo
  BY <1>3, AsmerrGood DEF ErrorCodes, FatalCodes, Final
<1> HIDE DEF warned
<1>5. Good(Generate(bumped, 1, a)) /\ Good(Generate(warned, 1, a))
  BY <1>2, <1>3, <1>4, GenerateGood
<1>6. QED
  BY <1>5 DEF v_dc, bumped, warned

\* v_ds().
LEMMA DsGood ==
  ASSUME NEW m, Good(m), NEW st \in Plain
  PROVE  Good(v_ds(m, st))
<1> DEFINE seen == Eval(Label(m, st.lab), st.exp)
<1>1. Good(seen)
  BY LabelGood, EvalGood, PlainFields
<1>2. OperandOf(m, st).val \in Int
  BY OperatedGood DEF Operands
<1>3. Good(Bump(seen, "DS_NOT_RESOLVED"))
  BY <1>1, BumpGood DEF ReasonCodes
<1>4. Good(Genfill(seen, OperandOf(m, st).val))
  BY <1>1, <1>2, GenfillGood
<1>5. QED
  BY <1>3, <1>4 DEF v_ds

\* v_org().
LEMMA OrgGood ==
  ASSUME NEW m, Good(m), NEW st \in Plain
  PROVE  Good(v_org(m, st))
<1> DEFINE a == Value(m, st.exp)
           seen == Eval(m, st.exp)
           entry == [seen.segs[m.cs] EXCEPT !.org = a.val, !.unk = a.unk]
<1>1. Good(seen) /\ m \in Machine
  BY EvalGood, PlainFields DEF Good
<1>2. a \in Operands
  BY <1>1, ValueType, PlainFields
<1>3. m.cs \in Segments /\ seen.segs[m.cs] \in SegmentEntry /\ seen \in Machine
  BY <1>1 DEF Good, Machine
<1>4. entry \in SegmentEntry
  BY <1>2, <1>3 DEF SegmentEntry, Operands
<1> HIDE DEF a, seen
<1>5. [seen EXCEPT !.segs[m.cs].org = a.val, !.segs[m.cs].unk = a.unk]
        = PutSegment(seen, m.cs, entry)
  <2>1. [seen.segs EXCEPT ![m.cs].org = a.val, ![m.cs].unk = a.unk]
        = [seen.segs EXCEPT ![m.cs] = entry]
    BY <1>3 DEF Machine, SegmentEntry
  <2>2. QED
    BY <1>3, <2>1 DEF PutSegment, Machine
<1> HIDE DEF entry
<1>6. Good(PutSegment(seen, m.cs, entry))
  BY <1>1, <1>3, <1>4, PutSegmentGood
<1>7. QED
  BY <1>5, <1>6, LabelGood, PlainFields DEF v_org, a, seen

\* v_rorg().
LEMMA RorgGood ==
  ASSUME NEW m, Good(m), NEW st \in Plain
  PROVE  Good(v_rorg(m, st))
<1> DEFINE a == Value(m, st.exp)
           seen == Eval(m, st.exp)
           entry == [seen.segs[m.cs] EXCEPT !.inRorg = TRUE, !.rorg = a.val, !.runk = a.unk]
<1>1. Good(seen) /\ m \in Machine
  BY EvalGood, PlainFields DEF Good
<1>2. a \in Operands
  BY <1>1, ValueType, PlainFields
<1>3. m.cs \in Segments /\ seen.segs[m.cs] \in SegmentEntry /\ seen \in Machine
  BY <1>1 DEF Good, Machine
<1>4. entry \in SegmentEntry
  BY <1>2, <1>3 DEF SegmentEntry, Operands
<1> HIDE DEF a, seen
<1>5. [seen EXCEPT !.segs[m.cs].inRorg = TRUE, !.segs[m.cs].rorg = a.val,
                   !.segs[m.cs].runk = a.unk]
        = PutSegment(seen, m.cs, entry)
  <2>1. [seen.segs EXCEPT ![m.cs].inRorg = TRUE, ![m.cs].rorg = a.val, ![m.cs].runk = a.unk]
        = [seen.segs EXCEPT ![m.cs] = entry]
    BY <1>3 DEF Machine, SegmentEntry
  <2>2. QED
    BY <1>3, <2>1 DEF PutSegment, Machine
<1> HIDE DEF entry
<1>6. Good(PutSegment(seen, m.cs, entry))
  BY <1>1, <1>3, <1>4, PutSegmentGood
<1>7. QED
  BY <1>5, <1>6, LabelGood, PlainFields DEF v_rorg, a, seen

\* v_rend().
LEMMA RendGood ==
  ASSUME NEW m, Good(m), NEW st \in Plain
  PROVE  Good(v_rend(m, st))
<1> DEFINE n == Label(m, st.lab)
           entry == [n.segs[m.cs] EXCEPT !.inRorg = FALSE]
<1>1. Good(n) /\ m \in Machine
  BY LabelGood, PlainFields DEF Good
<1>2. m.cs \in Segments /\ n.segs[m.cs] \in SegmentEntry
  BY <1>1 DEF Good, Machine
<1>3. entry \in SegmentEntry
  BY <1>2 DEF SegmentEntry
<1>4. v_rend(m, st) = PutSegment(n, m.cs, entry)
  BY <1>1, <1>2 DEF v_rend, PutSegment, Good, Machine
<1> HIDE DEF n, entry
<1>5. QED
  BY <1>1, <1>2, <1>3, <1>4, PutSegmentGood

\* v_align().
LEMMA AlignGood ==
  ASSUME NEW m, Good(m), NEW st \in Plain
  PROVE  Good(v_align(m, st))
<1> DEFINE a == Value(m, st.exp)
           seen == Eval(m, st.exp)
           why == IF Seg(m).inRorg THEN "ALIGN_RELOCATABLE_ORIGIN_NOT_KNOWN"
                  ELSE "ALIGN_NORMAL_ORIGIN_NOT_KNOWN"
           skip == Padding(PC(m).val, a.val)
<1>1. Good(seen) /\ m \in Machine
  BY EvalGood, PlainFields DEF Good
<1>2. skip \in Int
  BY <1>1, ValueType, PCType, PlainFields DEF Padding, Operands
<1>3. Good(Asmerr(seen, "ERROR_SYNTAX_ERROR"))
  BY <1>1, AsmerrGood DEF ErrorCodes, FatalCodes, Final
<1>4. why \in ReasonCodes
  BY DEF ReasonCodes
<1> HIDE DEF why, skip, seen
<1>5. Good(Label(Bump(seen, why), st.lab))
  BY <1>1, <1>4, BumpGood, LabelGood, PlainFields
<1>6. Good(Label(seen, st.lab)) /\ Good(Label(Genfill(seen, skip), st.lab))
  BY <1>1, <1>2, GenfillGood, LabelGood, PlainFields
<1>7. QED
  BY <1>3, <1>5, <1>6 DEF v_align, why, skip, seen

\* v_seg().
LEMMA SegGood ==
  ASSUME NEW m, Good(m), NEW st \in Plain
  PROVE  Good(v_seg(m, st))
<1> DEFINE old == m.segs[st.seg]
           n == [m EXCEPT !.cs = st.seg]
           entry == [old EXCEPT !.made = TRUE,
                                !.bss = IF old.made THEN @ ELSE st.op = "seg.u"]
           there == [m EXCEPT !.cs = st.seg, !.segs[st.seg].made = TRUE,
                              !.segs[st.seg].bss = IF old.made THEN @ ELSE st.op = "seg.u"]
<1>1. m \in Machine /\ st.seg \in Segments /\ st.lab \in Labels
  BY PlainFields DEF Good
<1>2. n \in Machine /\ Alike(n, m) /\ n.used = m.used /\ n.symtab = m.symtab
      /\ n.raised = m.raised /\ n.segs = m.segs
  BY <1>1 DEF Machine, Alike
<1>3. Good(n)
  BY <1>2, SameGood
<1>4. old \in SegmentEntry
  BY <1>1 DEF Machine
<1>5. entry \in SegmentEntry
  BY <1>4 DEF SegmentEntry
<1>6. there = PutSegment(n, st.seg, entry)
  <2>1. [m.segs EXCEPT ![st.seg].made = TRUE,
                       ![st.seg].bss = IF old.made THEN @ ELSE st.op = "seg.u"]
        = [m.segs EXCEPT ![st.seg] = entry]
    BY <1>1, <1>4 DEF Machine, SegmentEntry
  <2>2. QED
    BY <1>1, <1>2, <2>1 DEF PutSegment, Machine
<1> HIDE DEF n, entry
<1>7. Good(there)
  BY <1>1, <1>3, <1>5, <1>6, PutSegmentGood
<1> HIDE DEF there
<1>8. QED
  BY <1>1, <1>7, LabelGood DEF v_seg, there

\* What EQU and SET assign is an entry.
LEMMA AssignType ==
  ASSUME NEW m \in Machine, NEW l \in Symbols, NEW a \in Operands
  PROVE  /\ Assign(m, l, a) \in Machine /\ Assign(m, l, a).out = m.out
         /\ Assign(m, l, a).Redo = m.Redo /\ Assign(m, l, a).raised = m.raised
         /\ Assign(m, l, a).used = m.used /\ Alike(Assign(m, l, a), m)
         /\ \A s \in Symbols \ {l} : Assign(m, l, a).symtab[s] = m.symtab[s]
         /\ Assign(m, l, a).symtab[l].val = a.val
         /\ Assign(m, l, a).symtab[l].unk = a.unk
<1> DEFINE entry == [val |-> a.val, unk |-> a.unk, ref |-> FALSE]
           tab == [m.symtab EXCEPT ![l] = entry]
<1>1. entry \in SymbolEntry
  BY DEF SymbolEntry, Operands
<1>2. /\ tab \in [Symbols -> SymbolEntry] /\ \A s \in Symbols \ {l} : tab[s] = m.symtab[s]
      /\ tab[l].val = a.val /\ tab[l].unk = a.unk
  BY <1>1 DEF Machine
<1>3. Assign(m, l, a) = [m EXCEPT !.symtab = tab]
  BY DEF Assign
<1> HIDE DEF tab
<1>4. QED
  BY <1>2, <1>3 DEF Machine, Alike

\* An assignment disturbs no operand when the symbol may change, or keeps its value.
LEMMA AssignGood ==
  ASSUME NEW m, Good(m), NEW l \in Symbols, NEW a \in Operands,
         \/ m.Redo # 0
         \/ l \notin Stable
         \/ l \in EquSymbols /\ (m.symtab[l].unk \/ (~a.unk /\ m.symtab[l].val = a.val))
  PROVE  Good(Assign(m, l, a))
<1> DEFINE n == Assign(m, l, a)
<1>1. m \in Machine /\ AllKnown(m.out) /\ Consistent(m) /\ Harmless(m) /\ Allowed(m)
  BY DEF Good
<1>2. /\ n \in Machine /\ n.out = m.out /\ n.Redo = m.Redo
      /\ n.raised = m.raised /\ n.used = m.used
      /\ \A s \in Symbols \ {l} : n.symtab[s] = m.symtab[s]
      /\ n.symtab[l].val = a.val /\ n.symtab[l].unk = a.unk /\ Alike(n, m)
  BY <1>1, AssignType
<1> HIDE DEF n
<1>3. ASSUME m.Redo = 0, NEW u \in m.used
      PROVE  Remembers(n.symtab, u)
  <2>1. Remembers(m.symtab, u) /\ u[1] \in Symbols
    BY <1>1, <1>3 DEF Consistent, Machine
  <2>2. CASE u[1] # l
    BY <1>2, <2>1, <2>2 DEF Remembers
  <2>3. CASE u[1] = l
    BY <1>2, <1>3, <2>1, <2>3 DEF Remembers
  <2>4. QED
    BY <2>2, <2>3
<1>4. Allowed(n)
  BY <1>1, <1>2, AlikeAllowed
<1>5. QED
  BY <1>1, <1>2, <1>3, <1>4 DEF n, Good, Consistent, Harmless

\* v_equ().
LEMMA EquGood ==
  ASSUME NEW m, Good(m), NEW st \in Statements, st.lab \in Symbols, st.lab \in EquSymbols
  PROVE  Good(v_equ(m, st))
<1> DEFINE a == Value(m, st.exp)
           seen == Eval(m, st.exp)
           old == seen.symtab[st.lab]
           unresolved == Bump(seen, "EQU_NOT_RESOLVED")
           mismatch == Bump(Asmerr(seen, "ERROR_EQU_VALUE_MISMATCH"), "EQU_VALUE_MISMATCH")
<1>1. st.exp \in Expressions
  BY DEF Statements
<1>2. Good(seen) /\ a \in Operands
  BY <1>1, EvalGood, ValueType DEF Good
<1>3. Good(unresolved) /\ unresolved.Redo # 0
  BY <1>2, BumpGood DEF ReasonCodes
<1>4. Good(mismatch) /\ mismatch.Redo # 0
  BY <1>2, RefuseGood DEF ErrorCodes, Warnings, ReasonCodes
<1> HIDE DEF seen, unresolved, mismatch, a
<1>5. Good(Assign(unresolved, st.lab, a)) /\ Good(Assign(mismatch, st.lab, a))
  BY <1>2, <1>3, <1>4, AssignGood
<1>6. old.unk \/ (~a.unk /\ old.val = a.val) => Good(Assign(seen, st.lab, a))
  BY <1>2, AssignGood
<1>7. QED
  BY <1>5, <1>6 DEF v_equ, seen, unresolved, mismatch, a

\* v_set().
LEMMA SetGood ==
  ASSUME NEW m, Good(m), NEW st \in Statements, st.lab \in Symbols, st.lab \notin Stable
  PROVE  Good(v_set(m, st))
<1>1. st.exp \in Expressions
  BY DEF Statements
<1>2. Good(Eval(m, st.exp)) /\ Value(m, st.exp) \in Operands
  BY <1>1, EvalGood, ValueType DEF Good
<1>3. QED
  BY <1>2, AssignGood DEF v_set

\* EQU and SET of the origin.
LEMMA DotEquGood ==
  ASSUME NEW m, Good(m), NEW st \in Plain
  PROVE  Good(DotEqu(m, st))
<1>1. Good(Eval(m, st.exp))
  BY EvalGood, PlainFields
<1>2. QED
  BY <1>1, OrgGood, RorgGood DEF DotEqu

\* pushif().
LEMMA PushIfGood ==
  ASSUME NEW m, Good(m), NEW b \in BOOLEAN
  PROVE  Good(PushIf(m, b)) /\ PushIf(m, b).Redo = m.Redo
<1> DEFINE entry == [xtrue |-> b, acctrue |-> Active(m)]
           stack == <<entry>> \o m.ifs
<1>1. m \in Machine /\ m.ifs \in Seq(IfEntry)
  BY DEF Good, Machine
<1>2. entry \in IfEntry
  BY DEF IfEntry, Active
<1> HIDE DEF entry
<1>3. stack \in Seq(IfEntry) \ {<<>>}
  BY <1>1, <1>2
<1>4. PushIf(m, b) = [m EXCEPT !.ifs = stack]
  BY DEF PushIf, entry
<1> HIDE DEF stack
<1>5. /\ PushIf(m, b) \in Machine /\ Alike(PushIf(m, b), m)
      /\ PushIf(m, b).used = m.used /\ PushIf(m, b).symtab = m.symtab
      /\ PushIf(m, b).Redo = m.Redo /\ PushIf(m, b).raised = m.raised
  BY <1>1, <1>3, <1>4 DEF Machine, Alike
<1>6. QED
  BY <1>5, SameGood

\* The entry on top of a stack can be replaced.
LEMMA TopReplaced ==
  ASSUME NEW S, NEW q \in Seq(S) \ {<<>>}, NEW e \in S
  PROVE  [q EXCEPT ![1] = e] \in Seq(S) \ {<<>>} /\ q[1] \in S
<1>1. Len(q) \in Nat \ {0} /\ q[1] \in S
  BY EmptySeq
<1>2. [q EXCEPT ![1] = e] \in Seq(S) /\ Len([q EXCEPT ![1] = e]) = Len(q)
  BY <1>1, ExceptSeq
<1>3. QED
  BY <1>1, <1>2, EmptySeq

\* v_if().
LEMMA IfGood ==
  ASSUME NEW m, Good(m), NEW st \in Plain
  PROVE  Good(v_if(m, st))
<1> DEFINE a == OperandOf(m, st)
           seen == Eval(Label(m, st.lab), st.exp)
           unresolved == PushIf(Bump(seen, "IF_NOT_RESOLVED"), FALSE)
           stack == [unresolved.ifs EXCEPT ![1].acctrue = FALSE]
           undecided == [unresolved EXCEPT !.ifs[1].acctrue = FALSE, !.rif = @ \cup {0}]
<1>1. Good(seen)
  BY LabelGood, EvalGood, PlainFields
<1>2. Good(PushIf(m, FALSE)) /\ Good(PushIf(seen, a.val # 0))
  BY <1>1, PushIfGood
<1>3. Good(unresolved)
  BY <1>1, BumpGood, PushIfGood DEF ReasonCodes
<1> HIDE DEF unresolved
<1>4. unresolved \in Machine /\ unresolved.ifs \in Seq(IfEntry) \ {<<>>}
      /\ unresolved.rif \cup {0} \in SUBSET {0, 1}
  BY <1>3 DEF Good, Machine
<1>5. stack \in Seq(IfEntry) \ {<<>>}
  <2> DEFINE i == unresolved.ifs
             top == [i[1] EXCEPT !.acctrue = FALSE]
  <2>1. i[1] \in IfEntry
    BY <1>4, TopReplaced
  <2>2. top \in IfEntry /\ stack = [i EXCEPT ![1] = top]
    BY <2>1 DEF IfEntry
  <2> HIDE DEF top, i, stack
  <2>3. QED
    BY <1>4, <2>2, TopReplaced DEF i
<1>6. undecided = [unresolved EXCEPT !.ifs = stack, !.rif = unresolved.rif \cup {0}]
  BY <1>4 DEF Machine
<1> HIDE DEF stack
<1>7. /\ undecided \in Machine /\ undecided.out = unresolved.out
      /\ undecided.used = unresolved.used /\ undecided.symtab = unresolved.symtab
      /\ undecided.Redo = unresolved.Redo /\ undecided.raised = unresolved.raised
      /\ undecided.why = unresolved.why /\ undecided.eval = unresolved.eval
      /\ undecided.rif = unresolved.rif \cup {0}
      /\ undecided.fileorg = unresolved.fileorg /\ undecided.fisclear = unresolved.fisclear
  BY <1>4, <1>5, <1>6 DEF Machine
<1> HIDE DEF undecided
<1>8. Good(undecided)
  <2>1. Allowed(unresolved)
    BY <1>3 DEF Good
  <2>2. Counted(undecided) /\ InOrder(undecided)
    BY <1>7, <2>1 DEF Allowed, Counted, InOrder
  <2>3. QED
    BY <1>3, <1>7, <2>2 DEF Good, Consistent, Harmless, Allowed
<1> HIDE DEF seen, undecided
<1>9. QED
  BY <1>2, <1>8 DEF v_if, seen, undecided, unresolved

\* v_ifconst() and v_ifnconst().
LEMMA IfConstGood ==
  ASSUME NEW m, Good(m), NEW st \in Plain
  PROVE  Good(v_ifconst(m, st)) /\ Good(v_ifnconst(m, st))
<1>1. Good(Eval(Label(m, st.lab), st.exp))
  BY LabelGood, EvalGood, PlainFields
<1>2. OperandOf(m, st).unk \in BOOLEAN
  BY OperatedGood DEF Operands
<1>3. (~OperandOf(m, st).unk) \in BOOLEAN
  OBVIOUS
<1>4. Good(PushIf(Eval(Label(m, st.lab), st.exp), ~OperandOf(m, st).unk))
  BY <1>1, <1>3, PushIfGood
<1>5. Good(PushIf(Eval(Label(m, st.lab), st.exp), OperandOf(m, st).unk))
  BY <1>1, <1>2, PushIfGood
<1>6. QED
  BY <1>4, <1>5 DEF v_ifconst, v_ifnconst

\* Stacks can be changed at will.
LEMMA StacksGood ==
  ASSUME NEW m, Good(m), NEW i \in Seq(IfEntry) \ {<<>>}, NEW r \in Seq(RepeatEntry)
  PROVE  Good([m EXCEPT !.ifs = i, !.reps = r])
<1> DEFINE n == [m EXCEPT !.ifs = i, !.reps = r]
<1>1. /\ n \in Machine /\ Alike(n, m) /\ n.used = m.used /\ n.symtab = m.symtab
      /\ n.raised = m.raised
  BY DEF Good, Machine, Alike
<1>2. QED
  BY <1>1, SameGood

\* v_else().
LEMMA ElseGood ==
  ASSUME NEW m, Good(m), NEW st \in Plain
  PROVE  Good(v_else(m, st))
<1> DEFINE n == Label(m, st.lab)
           top == [n.ifs[1] EXCEPT !.xtrue = ~@]
           stack == [n.ifs EXCEPT ![1] = top]
<1>1. Good(n)
  BY LabelGood, PlainFields
<1> HIDE DEF n
<1>2. n \in Machine /\ n.ifs \in Seq(IfEntry) \ {<<>>} /\ n.reps \in Seq(RepeatEntry)
  BY <1>1 DEF Good, Machine
<1>3. n.ifs[1] \in IfEntry
  BY <1>2, TopReplaced
<1>4. top \in IfEntry
  BY <1>3 DEF IfEntry
<1>5. [n EXCEPT !.ifs[1].xtrue = ~@] = [n EXCEPT !.ifs = stack, !.reps = n.reps]
  BY <1>2 DEF Machine
<1> HIDE DEF top
<1>6. stack \in Seq(IfEntry) \ {<<>>}
  BY <1>2, <1>4, TopReplaced
<1> HIDE DEF stack
<1>7. Good([n EXCEPT !.ifs = stack, !.reps = n.reps])
  BY <1>1, <1>2, <1>6, StacksGood
<1>8. QED
  BY <1>5, <1>7 DEF v_else, n

\* v_endif().
LEMMA EndifGood ==
  ASSUME NEW m, Good(m), NEW st \in Plain
  PROVE  Good(v_endif(m, st))
<1> DEFINE n == IF m.ifs[1].acctrue THEN Label(m, st.lab) ELSE m
<1>1. Good(n)
  BY LabelGood, PlainFields
<1>2. n.ifs = m.ifs
  <2> DEFINE here == PC(m)
  <2>1. \A k \in Machine : \A why : Bump(k, why).ifs = k.ifs /\ Asmerr(k, why).ifs = k.ifs
    BY DEF Bump, Asmerr, Machine
  <2>2. m \in Machine /\ Asmerr(m, "ERROR_LABEL_MISMATCH") \in Machine
    BY DEF Good, Machine, Asmerr, ErrorCodes, Warnings
  <2>3. \A k : k \in Machine => Bump(k, "FORWARD_REFERENCE") \in Machine
                                /\ Bump(k, "PHASE_ERROR") \in Machine
    BY BumpType DEF ReasonCodes
  <2>4. ASSUME NEW k \in Machine
        PROVE  [k EXCEPT !.symtab[st.lab].val = here.val,
                         !.symtab[st.lab].unk = here.unk].ifs = k.ifs
    BY DEF Machine
  <2>5. QED
    BY <2>1, <2>2, <2>3, <2>4 DEF Label
<1> HIDE DEF n
<1>3. CASE IsBase(m)
  BY <1>3 DEF v_endif
<1>4. CASE ~IsBase(m)
  <2>1. n \in Machine /\ n.ifs \in Seq(IfEntry) \ {<<>>} /\ n.reps \in Seq(RepeatEntry)
    BY <1>1 DEF Good, Machine
  <2>2. Len(n.ifs) # 1
    BY <1>2, <1>4 DEF IsBase
  <2>3. Tail(n.ifs) \in Seq(IfEntry) \ {<<>>}
    <3> DEFINE i == n.ifs
    <3> HIDE DEF i
    <3>1. i \in Seq(IfEntry) /\ i # <<>> /\ Len(i) # 1
      BY <2>1, <2>2 DEF i
    <3>2. Tail(i) \in Seq(IfEntry) /\ Len(Tail(i)) = Len(i) - 1 /\ Len(i) \in Nat
      BY <3>1, HeadTailProperties
    <3>3. Len(Tail(i)) # 0
      BY <3>1, <3>2
    <3>4. Tail(i) # <<>>
      BY <3>3, EmptySeq
    <3>5. QED
      BY <3>2, <3>4 DEF i
  <2>4. v_endif(m, st) = [n EXCEPT !.ifs = Tail(n.ifs), !.reps = n.reps]
    BY <1>4, <2>1 DEF v_endif, n, Machine
  <2>5. Good([n EXCEPT !.ifs = Tail(n.ifs), !.reps = n.reps])
    BY <1>1, <2>1, <2>3, StacksGood
  <2>6. QED
    BY <2>4, <2>5
<1>5. QED
  BY <1>3, <1>4

\* v_repeat().
LEMMA RepeatGood ==
  ASSUME NEW m, Good(m), NEW st \in Plain
  PROVE  Good(v_repeat(m, st))
<1> DEFINE a == OperandOf(m, st)
           seen == Eval(Label(m, st.lab), st.exp)
           entry == [at |-> m.pc, count |-> a.val, unk |-> a.unk]
           inside == PushIf(seen, TRUE)
           stack == <<entry>> \o inside.reps
           pushed == [inside EXCEPT !.reps = stack]
<1>1. Good(seen)
  BY LabelGood, EvalGood, PlainFields
<1>2. Good(PushIf(m, FALSE)) /\ Good(PushIf(seen, FALSE)) /\ Good(inside)
  BY <1>1, PushIfGood
<1>3. Good(Asmerr(PushIf(seen, FALSE), "ERROR_REPEAT_NEGATIVE"))
  BY <1>2, AsmerrGood DEF ErrorCodes, Warnings, Final
<1>4. entry \in RepeatEntry
  BY OperatedGood DEF Operands, RepeatEntry, Good, Machine
<1> HIDE DEF entry, inside
<1>5. inside \in Machine /\ inside.reps \in Seq(RepeatEntry)
      /\ inside.ifs \in Seq(IfEntry) \ {<<>>}
  BY <1>2 DEF Good, Machine
<1>6. stack \in Seq(RepeatEntry)
  BY <1>4, <1>5
<1> HIDE DEF stack
<1>7. pushed = [inside EXCEPT !.ifs = inside.ifs, !.reps = stack]
  BY <1>5 DEF Machine
<1>8. Good(pushed)
  BY <1>2, <1>5, <1>6, <1>7, StacksGood
<1> HIDE DEF pushed
<1>9. Good(Bump(pushed, "REPEAT_NOT_RESOLVED"))
  BY <1>8, BumpGood DEF ReasonCodes
<1>10. v_repeat(m, st) \in {PushIf(m, FALSE), PushIf(seen, FALSE), pushed,
         Asmerr(PushIf(seen, FALSE), "ERROR_REPEAT_NEGATIVE"), Bump(pushed, "REPEAT_NOT_RESOLVED")}
  BY DEF v_repeat, pushed, stack, inside, entry
<1>11. QED
  BY <1>2, <1>3, <1>8, <1>9, <1>10

\* v_repend().
LEMMA RependGood ==
  ASSUME NEW m, Good(m), NEW st \in Plain
  PROVE  Good(v_repend(m, st))
<1> DEFINE entry == [m.reps[1] EXCEPT !.count = @ - 1]
           stack == [m.reps EXCEPT ![1] = entry]
           popped == [m EXCEPT !.reps = Tail(@)]
           back == [m EXCEPT !.reps[1].count = @ - 1, !.pc = m.reps[1].at]
<1>1. m \in Machine /\ m.reps \in Seq(RepeatEntry) /\ m.ifs \in Seq(IfEntry) \ {<<>>}
  BY DEF Good, Machine
<1>2. CASE m.reps = <<>>
  BY <1>2, EndifGood DEF v_repend
<1>3. CASE m.reps # <<>>
  <2>1. Tail(m.reps) \in Seq(RepeatEntry)
    BY <1>1, <1>3, HeadTailProperties
  <2>2. popped = [m EXCEPT !.ifs = m.ifs, !.reps = Tail(m.reps)]
    BY <1>1 DEF Machine
  <2>3. Good(popped)
    BY <1>1, <2>1, <2>2, StacksGood
  <2>4. m.reps[1] \in RepeatEntry
    BY <1>1, <1>3, TopReplaced
  <2>5. entry \in RepeatEntry /\ m.reps[1].at \in Nat \ {0}
    <3> DEFINE c == m.reps[1].count - 1
    <3>1. c \in Int /\ m.reps[1].at \in Nat \ {0}
      BY <2>4 DEF RepeatEntry
    <3> HIDE DEF c
    <3>2. [m.reps[1] EXCEPT !.count = c] \in RepeatEntry
      BY <2>4, <3>1 DEF RepeatEntry
    <3>3. QED
      BY <3>1, <3>2 DEF c
  <2>6. back = [m EXCEPT !.reps = stack, !.pc = m.reps[1].at]
    BY <1>1 DEF Machine
  <2>7. stack \in Seq(RepeatEntry)
    <3> HIDE DEF entry
    <3>1. QED
      BY <1>1, <1>3, <2>5, TopReplaced
  <2> HIDE DEF stack
  <2>8. /\ back \in Machine /\ Alike(back, m) /\ back.used = m.used
        /\ back.symtab = m.symtab /\ back.raised = m.raised
    BY <1>1, <2>5, <2>6, <2>7 DEF Machine, Alike
  <2>9. Good(back)
    BY <2>8, SameGood
  <2>10. Good(v_endif(m, st)) /\ Good(v_endif(popped, st))
    BY <2>3, EndifGood
  <2>11. QED
    BY <1>3, <2>9, <2>10 DEF v_repend
<1>4. QED
  BY <1>2, <1>3

=============================================================================
