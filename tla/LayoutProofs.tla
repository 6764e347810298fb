---------------------------- MODULE LayoutProofs ----------------------------
(***************************************************************************)
(* A successful assembly of a straight source is a layout of it, for every *)
(* source, every set of symbols and any number of passes.                  *)
(***************************************************************************)
EXTENDS Layout, AssemblerProofs, WellFoundedInduction

Place == [org : Int, rorg : Int, moved : BOOLEAN, image : Seq(RunEntry)]

\* The machine stands at the place here: it has written what lies before it, and goes on
\* at its addresses as far as it knows them.
Stands(m, here) ==
  /\ ~Seg(m).bss
  /\ here.moved = Seg(m).inRorg
  /\ ~Seg(m).unk => here.org = Seg(m).org
  /\ Seg(m).inRorg => ~Seg(m).runk /\ here.rorg = Seg(m).rorg
  /\ ~m.fisclear => ~Seg(m).unk
  /\ here.image = m.out

\* The operations that compute something from their operand in the pass.
Readers == {"lda", "jmp", "bne", "dc", "ds"} \cup OriginOps

Reads(st, tab) ==
  /\ st.exp.of \in Symbols
  /\ st.op \in Readers \/ (st.op = "equ" /\ ~tab[st.lab].unk)

\* P is the layout of the first n lines, with the labels and the history of operands.
Laid(P, n) ==
  /\ P \in [0 .. n -> Place] /\ P[0] = Start
  /\ \A i \in 1 .. n : P[i] = Behind(Values, prog[i], P[i - 1])

Named(P, n) ==
  \A i \in 1 .. n : prog[i].lab # NoLabel /\ ~symtab[prog[i].lab].unk =>
                      Values[prog[i].lab] = LabelValue(Values, prog[i], P[i - 1])

Noted(n) ==
  \A i \in 1 .. n : Reads(prog[i], symtab) =>
                      <<prog[i].exp.of, symtab[prog[i].exp.of].val>> \in used

Follows(n) == \E P : Laid(P, n) /\ Named(P, n) /\ Noted(n) /\ Stands(Current, P[n])

LayoutShape ==
  /\ Ifstack = BaseIf /\ Csegment = InitialSegment /\ ~segs[InitialSegment].bss
  /\ pc <= Len(prog) + 1

LayoutPhases ==
  /\ phase = "opening" => segs[InitialSegment].unk /\ ~segs[InitialSegment].inRorg
  /\ phase = "passdone" \/ nError \in Decided => pc = Len(prog) + 1

\* While no other pass is asked for, the machine follows the layout.
Following ==
  phase \in {"reading", "passdone"} \/ nError \in Decided =>
    \A n \in Nat : pc = n + 1 /\ Redo = 0 /\ OriginsSettled(n) => Follows(n)

LayoutInv == Straight => LayoutShape /\ LayoutPhases /\ Following

-----------------------------------------------------------------------------
(***************************************************************************)
(* What the operators a handler is made of leave alone.                    *)
(***************************************************************************)

\* What no handler of a straight source disturbs.
Shaped(n, m) ==
  /\ n \in Machine /\ m \in Machine
  /\ n.pc = m.pc /\ n.ifs = m.ifs /\ n.cs = m.cs /\ Seg(n).bss = Seg(m).bss
  /\ n.Redo >= m.Redo /\ (n.abort = NoError => m.abort = NoError)
  /\ m.used \subseteq n.used

\* A step that neither moves nor writes.
Unmoved(n, m) == Shaped(n, m) /\ n.segs = m.segs /\ n.fisclear = m.fisclear /\ n.out = m.out

\* The values and flags of the symbols in S are the same.
SameSymbols(n, m, S) ==
  \A s \in S : n.symtab[s].val = m.symtab[s].val /\ n.symtab[s].unk = m.symtab[s].unk

\* What two steps leave alone, both together leave alone.
LEMMA ShapedChain ==
  ASSUME NEW m, NEW n, NEW o, Shaped(n, m), Shaped(o, n)
  PROVE  Shaped(o, m)
<1>1. m.Redo \in Nat /\ n.Redo \in Nat /\ o.Redo \in Nat
  BY DEF Shaped, Machine
<1>2. o.Redo >= m.Redo
  BY <1>1 DEF Shaped
<1>3. QED
  BY <1>2 DEF Shaped

\* Nor do two steps that do not move.
LEMMA UnmovedChain ==
  ASSUME NEW m, NEW n, NEW o, Unmoved(n, m), Unmoved(o, n)
  PROVE  Unmoved(o, m)
BY ShapedChain DEF Unmoved

\* Doing nothing does not move.
LEMMA UnmovedSelf ==
  ASSUME NEW m \in Machine
  PROVE  Unmoved(m, m)
<1>1. m.Redo \in Nat
  BY DEF Machine
<1>2. m.Redo >= m.Redo
  BY <1>1
<1>3. QED
  BY <1>2 DEF Unmoved, Shaped

\* Where a machine stands depends on what Unmoved keeps.
LEMMA UnmovedStands ==
  ASSUME NEW m, NEW n, Unmoved(n, m), NEW here
  PROVE  /\ Stands(m, here) <=> Stands(n, here)
         /\ PC(n) = PC(m) /\ Seg(n) = Seg(m)
<1>1. Seg(n) = Seg(m) /\ n.fisclear = m.fisclear /\ n.out = m.out
  BY DEF Unmoved, Shaped, Seg
<1>2. QED
  BY <1>1 DEF Stands, PC

\* ++Redo does not move, and leaves the symbols.
LEMMA BumpUnmoved ==
  ASSUME NEW m \in Machine, NEW why \in ReasonCodes
  PROVE  Unmoved(Bump(m, why), m) /\ Bump(m, why).symtab = m.symtab
<1> DEFINE n == Bump(m, why)
<1>1. n \in Machine
  BY BumpType
<1>2. m.Redo \in Nat /\ n.Redo = m.Redo + 1
  BY DEF Bump, Machine
<1>3. n.Redo >= m.Redo
  BY <1>2
<1>4. /\ n.pc = m.pc /\ n.ifs = m.ifs /\ n.cs = m.cs /\ n.segs = m.segs /\ n.abort = m.abort
      /\ n.used = m.used /\ n.fisclear = m.fisclear /\ n.out = m.out /\ n.symtab = m.symtab
  BY DEF Bump, Machine
<1> HIDE DEF n
<1>5. QED
  BY <1>1, <1>3, <1>4 DEF Unmoved, Shaped, Seg, n

\* Neither does a message.
LEMMA AsmerrUnmoved ==
  ASSUME NEW m \in Machine, NEW e \in ErrorCodes
  PROVE  Unmoved(Asmerr(m, e), m) /\ Asmerr(m, e).symtab = m.symtab
<1> DEFINE n == Asmerr(m, e)
<1>1. n \in Machine
  BY DEF Machine, Asmerr
<1>2. m.Redo \in Nat /\ n.Redo = m.Redo
  BY DEF Asmerr, Machine
<1>3. n.Redo >= m.Redo
  BY <1>2
<1>4. /\ n.pc = m.pc /\ n.ifs = m.ifs /\ n.cs = m.cs /\ n.segs = m.segs /\ n.abort = m.abort
      /\ n.used = m.used /\ n.fisclear = m.fisclear /\ n.out = m.out /\ n.symtab = m.symtab
  BY DEF Asmerr, Machine
<1> HIDE DEF n
<1>5. QED
  BY <1>1, <1>3, <1>4 DEF Unmoved, Shaped, Seg, n

\* An abort leaves everything but the verdict of the line.
LEMMA AbortShaped ==
  ASSUME NEW m \in Machine, NEW e \in ErrorCodes
  PROVE  Shaped(Abort(m, e), m) /\ Abort(m, e).abort # NoError
<1> DEFINE n == Abort(m, e)
<1>1. n \in Machine
  BY DEF Machine, Abort
<1>2. m.Redo \in Nat /\ n.Redo = m.Redo
  BY DEF Abort, Machine
<1>3. n.Redo >= m.Redo
  BY <1>2
<1>4. /\ n.pc = m.pc /\ n.ifs = m.ifs /\ n.cs = m.cs /\ n.segs = m.segs
      /\ n.used = m.used
  BY DEF Abort, Machine
<1>5. NoError \notin ErrorCodes
  BY DEF NoError, ErrorCodes, Warnings, FatalCodes
<1>6. n.abort # NoError
  BY <1>5 DEF Abort, Machine
<1> HIDE DEF n
<1>7. QED
  BY <1>1, <1>3, <1>4, <1>6 DEF Shaped, Seg, n

\* An operand is looked up on the spot.
LEMMA EvalUnmoved ==
  ASSUME NEW m \in Machine, NEW x \in Expressions
  PROVE  /\ Unmoved(Eval(m, x), m) /\ SameSymbols(Eval(m, x), m, Symbols)
         /\ Eval(m, x).Redo = m.Redo
         /\ x.of \in Symbols /\ ~Value(m, x).unk =>
              <<x.of, m.symtab[x.of].val>> \in Eval(m, x).used
<1> DEFINE n == Eval(m, x)
<1>1. n \in Machine /\ n.Redo = m.Redo /\ n.out = m.out /\ SameSymbols(n, m, Symbols)
  BY EvalFields DEF SameSymbols
<1>2. n.Redo >= m.Redo
  BY <1>1 DEF Machine
<1>3. /\ n.pc = m.pc /\ n.ifs = m.ifs /\ n.cs = m.cs /\ n.segs = m.segs /\ n.abort = m.abort
      /\ n.fisclear = m.fisclear
  BY DEF Eval, Machine
<1>4. CASE x.of \notin Symbols
  <2>1. n.used = m.used
    BY <1>4 DEF Eval, Machine
  <2> HIDE DEF n
  <2>2. QED
    BY <1>1, <1>2, <1>3, <1>4, <2>1 DEF Unmoved, Shaped, Seg, n
<1>5. CASE x.of \in Symbols
  <2>1. /\ Operand(m, x).val = m.symtab[x.of].val
        /\ Value(m, x).unk = Operand(m, x).unk
    BY <1>5, AssemblerAssumption DEF Operand, Value
  <2>2. n.used = IF Operand(m, x).unk THEN m.used ELSE m.used \cup {<<x.of, Operand(m, x).val>>}
    BY <1>5 DEF Eval, Machine
  <2> HIDE DEF n
  <2>3. m.used \subseteq n.used
    BY <2>2
  <2>4. ~Value(m, x).unk => <<x.of, m.symtab[x.of].val>> \in n.used
    BY <2>1, <2>2
  <2>5. Unmoved(n, m)
    BY <1>1, <1>2, <1>3, <2>3 DEF Unmoved, Shaped, Seg
  <2>6. QED
    BY <1>1, <2>4, <2>5 DEF n
<1>6. QED
  BY <1>4, <1>5

\* programlabel() writes the entry of its label only.
LEMMA RelabelUnmoved ==
  ASSUME NEW m \in Machine, NEW l \in Symbols, NEW a \in Operands
  PROVE  /\ Unmoved(Relabel(m, l, a), m) /\ SameSymbols(Relabel(m, l, a), m, Symbols \ {l})
         /\ Relabel(m, l, a).symtab[l].val = a.val /\ Relabel(m, l, a).symtab[l].unk = a.unk
         /\ Relabel(m, l, a).Redo = m.Redo
<1> DEFINE n == Relabel(m, l, a)
<1>1. /\ n \in Machine /\ n.out = m.out /\ n.Redo = m.Redo /\ n.used = m.used
      /\ SameSymbols(n, m, Symbols \ {l}) /\ n.symtab[l].val = a.val /\ n.symtab[l].unk = a.unk
  BY RelabelType DEF SameSymbols
<1>2. n.Redo >= m.Redo
  BY <1>1 DEF Machine
<1>3. /\ n.pc = m.pc /\ n.ifs = m.ifs /\ n.cs = m.cs /\ n.segs = m.segs /\ n.abort = m.abort
      /\ n.fisclear = m.fisclear
  BY DEF Relabel, Machine
<1> HIDE DEF n
<1>4. QED
  BY <1>1, <1>2, <1>3 DEF Unmoved, Shaped, Seg, n

\* The names of a label field.
Names(l) == Symbols \ {l}

\* programlabel changes the entry of its label only.
LEMMA LabelUnmoved ==
  ASSUME NEW m \in Machine, NEW l \in Symbols \cup {NoLabel}
  PROVE  /\ Unmoved(Label(m, l), m) /\ SameSymbols(Label(m, l), m, Names(l))
         /\ l \in Symbols => /\ Label(m, l).symtab[l].val = PC(m).val
                             /\ Label(m, l).symtab[l].unk = PC(m).unk
<1> DEFINE here == PC(m)
           old == m.symtab[l]
           quiet == IF 1 \in m.rif THEN m ELSE Asmerr(m, "ERROR_LABEL_MISMATCH")
           checked == IF ForwardReference(old, here) THEN Bump(m, "FORWARD_REFERENCE")
                      ELSE IF PhaseError(old, here) THEN Bump(quiet, "PHASE_ERROR")
                      ELSE m
<1>1. here \in Operands
  BY PCType
<1>2. CASE l = NoLabel
  BY <1>2, UnmovedSelf, AssemblerAssumption DEF Label, SameSymbols, Names
<1>3. CASE l # NoLabel
  <2>1. l \in Symbols
    BY <1>3
  <2>2. Unmoved(quiet, m) /\ quiet.symtab = m.symtab
    BY AsmerrUnmoved, UnmovedSelf DEF ErrorCodes, Warnings
  <2> HIDE DEF quiet
  <2>3. quiet \in Machine
    BY <2>2 DEF Unmoved, Shaped
  <2>4. Unmoved(Bump(quiet, "PHASE_ERROR"), m) /\ Bump(quiet, "PHASE_ERROR").symtab = m.symtab
    BY <2>2, <2>3, BumpUnmoved, UnmovedChain DEF ReasonCodes
  <2>5. /\ Unmoved(Bump(m, "FORWARD_REFERENCE"), m)
        /\ Bump(m, "FORWARD_REFERENCE").symtab = m.symtab
    BY BumpUnmoved DEF ReasonCodes
  <2>6. Unmoved(checked, m) /\ checked.symtab = m.symtab
    BY <2>4, <2>5, UnmovedSelf
  <2>7. Label(m, l) = Relabel(checked, l, here)
    BY <1>3 DEF Label, Relabel, quiet
  <2> HIDE DEF checked, here
  <2>8. checked \in Machine
    BY <2>6 DEF Unmoved, Shaped
  <2>9. /\ Unmoved(Relabel(checked, l, here), checked)
        /\ SameSymbols(Relabel(checked, l, here), checked, Symbols \ {l})
        /\ Relabel(checked, l, here).symtab[l].val = here.val
        /\ Relabel(checked, l, here).symtab[l].unk = here.unk
    BY <1>1, <2>1, <2>8, RelabelUnmoved
  <2>10. QED
    BY <2>1, <2>6, <2>7, <2>9, UnmovedChain DEF SameSymbols, Names, here
<1>4. QED
  BY <1>2, <1>3

\* The current segment gets another entry.
LEMMA PutSegmentShaped ==
  ASSUME NEW m \in Machine, NEW entry \in SegmentEntry, entry.bss = Seg(m).bss
  PROVE  LET n == PutSegment(m, m.cs, entry)
         IN  /\ Shaped(n, m) /\ Seg(n) = entry /\ n.symtab = m.symtab /\ n.Redo = m.Redo
             /\ n.out = m.out /\ n.fisclear = m.fisclear /\ n.used = m.used
             /\ n.abort = m.abort
<1> DEFINE n == PutSegment(m, m.cs, entry)
           tab == [m.segs EXCEPT ![m.cs] = entry]
<1>1. tab \in [Segments -> SegmentEntry] /\ tab[m.cs] = entry
  BY DEF Machine
<1>2. n = [m EXCEPT !.segs = tab]
  BY DEF PutSegment
<1> HIDE DEF tab
<1>3. /\ n \in Machine /\ n.segs = tab /\ n.cs = m.cs /\ n.pc = m.pc /\ n.ifs = m.ifs
      /\ n.symtab = m.symtab /\ n.Redo = m.Redo /\ n.out = m.out /\ n.fisclear = m.fisclear
      /\ n.used = m.used /\ n.abort = m.abort
  BY <1>1, <1>2 DEF Machine
<1>4. n.Redo >= m.Redo
  BY <1>3 DEF Machine
<1> HIDE DEF n
<1>5. Seg(n) = entry
  BY <1>1, <1>3 DEF Seg
<1>6. QED
  BY <1>3, <1>4, <1>5 DEF Shaped, n

\* The entry t is s moved over k bytes.
Moved(t, s, k) ==
  /\ t.org = s.org + k /\ t.rorg = (IF s.inRorg THEN s.rorg + k ELSE s.rorg)
  /\ t.unk = s.unk /\ t.runk = s.runk /\ t.inRorg = s.inRorg /\ t.bss = s.bss

\* Both origins move, unless the addresses end.
LEMMA AdvanceShaped ==
  ASSUME NEW m \in Machine, NEW k \in Int
  PROVE  LET n == Advance(m, k)
         IN  /\ Shaped(n, m) /\ n.symtab = m.symtab /\ n.Redo = m.Redo
             /\ n.out = m.out /\ n.fisclear = m.fisclear
             /\ n.abort = NoError => Moved(Seg(n), Seg(m), k)
<1>1. m.cs \in Segments /\ Seg(m) \in SegmentEntry
  BY DEF Machine, Seg
<1> DEFINE entry == [Seg(m) EXCEPT !.org = @ + k, !.rorg = IF Seg(m).inRorg THEN @ + k ELSE @]
           moved == [m EXCEPT !.segs[m.cs].org = @ + k,
                              !.segs[m.cs].rorg = IF Seg(m).inRorg THEN @ + k ELSE @]
           o == Seg(m).org + k
           r == IF Seg(m).inRorg THEN Seg(m).rorg + k ELSE Seg(m).rorg
<1>2. o \in Int /\ r \in Int
  BY <1>1 DEF SegmentEntry
<1>3. entry = [Seg(m) EXCEPT !.org = o, !.rorg = r]
  BY <1>1 DEF SegmentEntry
<1>4. entry \in SegmentEntry /\ entry.bss = Seg(m).bss
  <2> HIDE DEF o, r
  <2>1. QED
    BY <1>1, <1>2, <1>3 DEF SegmentEntry
<1>13. Moved(entry, Seg(m), k)
  BY <1>1 DEF SegmentEntry, Moved
<1>5. moved = PutSegment(m, m.cs, entry)
  <2>1. [m.segs EXCEPT ![m.cs].org = @ + k,
                       ![m.cs].rorg = IF Seg(m).inRorg THEN @ + k ELSE @]
        = [m.segs EXCEPT ![m.cs] = entry]
    BY <1>1 DEF Machine, Seg, SegmentEntry
  <2>2. QED
    BY <1>1, <2>1 DEF PutSegment, Machine
<1>6. Advance(m, k) = moved \/ Advance(m, k) = Abort(moved, "ERROR_AVOID_SEGFAULT")
  BY DEF Advance
<1> HIDE DEF moved, entry
<1>7. /\ Shaped(moved, m) /\ Seg(moved) = entry /\ moved.symtab = m.symtab
      /\ moved.Redo = m.Redo /\ moved.out = m.out /\ moved.fisclear = m.fisclear
  BY <1>4, <1>5, PutSegmentShaped
<1>8. moved \in Machine
  BY <1>7 DEF Shaped
<1> DEFINE aborted == Abort(moved, "ERROR_AVOID_SEGFAULT")
<1>9. Shaped(aborted, moved) /\ aborted.abort # NoError
  BY <1>8, AbortShaped DEF ErrorCodes, FatalCodes
<1>10. /\ aborted.symtab = moved.symtab /\ aborted.Redo = moved.Redo
       /\ aborted.out = moved.out /\ aborted.fisclear = moved.fisclear
  BY <1>8 DEF Abort, Machine
<1>11. Shaped(aborted, m)
  BY <1>7, <1>9, ShapedChain
<1> HIDE DEF aborted
<1>12. QED
  BY <1>6, <1>7, <1>9, <1>10, <1>11, <1>13 DEF aborted

\* Writing appends a run, and touches neither segments nor symbols.
LEMMA WriteShaped ==
  ASSUME NEW m \in Machine, NEW k \in Nat, NEW a \in Operands
  PROVE  LET n == Write(m, k, a)
         IN  /\ Shaped(n, m) /\ n.symtab = m.symtab /\ n.Redo = m.Redo /\ n.segs = m.segs
             /\ n.abort = m.abort
             /\ ~n.fisclear
             /\ n.out = Append(m.out, [at |-> Seg(m).org, len |-> k, val |-> a.val,
                                       unk |-> a.unk, lost |-> Seg(m).unk])
<1>1. Seg(m) \in SegmentEntry /\ m.out \in Seq(RunEntry)
  BY PCType DEF Machine
<1> DEFINE run == [at |-> Seg(m).org, len |-> k, val |-> a.val,
                   unk |-> a.unk, lost |-> Seg(m).unk]
           runs == Append(m.out, run)
           o == Seg(m).org + k
           n == Write(m, k, a)
<1>2. run \in RunEntry /\ o \in Int
  BY <1>1 DEF RunEntry, SegmentEntry, Operands
<1>3. runs \in Seq(RunEntry)
  <2> HIDE DEF run
  <2>1. QED
    BY <1>1, <1>2
<1>4. n = [m EXCEPT !.fisclear = FALSE, !.fileorg = o, !.out = runs]
  BY <1>1 DEF Write, Machine
<1> HIDE DEF runs, o, n
<1>5. /\ n \in Machine /\ n.out = runs /\ n.used = m.used /\ n.symtab = m.symtab
      /\ n.Redo = m.Redo /\ n.segs = m.segs /\ n.cs = m.cs /\ n.pc = m.pc /\ n.ifs = m.ifs
      /\ n.abort = m.abort /\ n.fisclear = FALSE
  BY <1>2, <1>3, <1>4 DEF Machine
<1>6. n.Redo >= m.Redo
  BY <1>5 DEF Machine
<1>7. QED
  BY <1>5, <1>6 DEF Shaped, Seg, runs, n

\* A place behind bytes, in terms of what they are put behind.
LEMMA PlacedType ==
  ASSUME NEW here \in Place, NEW k \in Nat, NEW val \in Int
  PROVE  LET p == Placed(here, k, val)
         IN  /\ p \in Place
             /\ p.org = here.org + k
             /\ p.rorg = (IF here.moved THEN here.rorg + k ELSE here.rorg)
             /\ p.moved = here.moved
             /\ p.image = Append(here.image, [at |-> here.org, len |-> k, val |-> val,
                                              unk |-> FALSE, lost |-> FALSE])
<1> DEFINE run == [at |-> here.org, len |-> k, val |-> val, unk |-> FALSE, lost |-> FALSE]
           runs == Append(here.image, run)
           o == here.org + k
           r == IF here.moved THEN here.rorg + k ELSE here.rorg
           p == Placed(here, k, val)
<1>1. o \in Int /\ r \in Int
  BY DEF Place
<1>2. run \in RunEntry
  BY DEF Place, RunEntry
<1>3. runs \in Seq(RunEntry)
  <2>1. here.image \in Seq(RunEntry)
    BY DEF Place
  <2> HIDE DEF run
  <2>2. QED
    BY <1>2, <2>1
<1>4. p = [here EXCEPT !.org = o, !.rorg = r, !.image = runs]
  BY DEF Placed, Place
<1> HIDE DEF o, r, runs, p
<1>5. p \in Place /\ p.org = o /\ p.rorg = r /\ p.moved = here.moved /\ p.image = runs
  BY <1>1, <1>3, <1>4 DEF Place
<1>6. QED
  BY <1>5 DEF o, r, runs, p

\* generate() may move the origin and write, and leaves the symbols.
LEMMA GenerateShaped ==
  ASSUME NEW m \in Machine, NEW k \in Nat, NEW a \in Operands
  PROVE  Shaped(Generate(m, k, a), m) /\ Generate(m, k, a).symtab = m.symtab
<1> DEFINE writes == m.Redo = 0 /\ ~Seg(m).bss
           reversed == writes /\ ~m.fisclear /\ Format # "FORMAT_RAS" /\ Seg(m).org < m.fileorg
           obscure == writes /\ m.fisclear /\ Seg(m).unk
<1>1. CASE obscure
  <2> DEFINE b == Bump(m, "OBSCURE")
             n == [b EXCEPT !.fisclear = FALSE]
  <2>1. Shaped(b, m) /\ b.symtab = m.symtab /\ b.Redo \in Nat
    BY BumpUnmoved, BumpType, ZenonT(30) DEF ReasonCodes, Unmoved, Machine
  <2>2. Generate(m, k, a) = n
    BY <1>1 DEF Generate
  <2> HIDE DEF b
  <2>3. b \in Machine
    BY <2>1 DEF Shaped
  <2>4. /\ n \in Machine /\ n.pc = b.pc /\ n.ifs = b.ifs /\ n.cs = b.cs /\ n.segs = b.segs
        /\ n.Redo = b.Redo /\ n.abort = b.abort /\ n.used = b.used /\ n.symtab = b.symtab
    BY <2>3 DEF Machine
  <2> HIDE DEF n
  <2>5. n.Redo >= b.Redo
    BY <2>1, <2>4
  <2>6. Shaped(n, b)
    BY <2>3, <2>4, <2>5 DEF Shaped, Seg
  <2>7. QED
    BY <2>1, <2>2, <2>4, <2>6, ShapedChain
<1>2. CASE ~obscure /\ reversed
  <2>1. Generate(m, k, a) = Abort(m, "ERROR_ORIGIN_REVERSE_INDEXED")
    BY <1>2 DEF Generate
  <2>2. Abort(m, "ERROR_ORIGIN_REVERSE_INDEXED").symtab = m.symtab
    BY DEF Abort, Machine
  <2>3. QED
    BY <2>1, <2>2, AbortShaped DEF ErrorCodes, Warnings
<1>3. CASE ~obscure /\ ~reversed
  <2> DEFINE n == IF writes THEN Write(m, k, a) ELSE m
  <2>1. Generate(m, k, a) = Advance(n, k)
    BY <1>3 DEF Generate
  <2>2. Shaped(n, m) /\ n.symtab = m.symtab
    BY WriteShaped, UnmovedSelf DEF Unmoved
  <2> HIDE DEF n
  <2>3. n \in Machine
    BY <2>2 DEF Shaped
  <2> k \in Int
    OBVIOUS
  <2>4. Shaped(Advance(n, k), n) /\ Advance(n, k).symtab = n.symtab
    BY <2>3, AdvanceShaped
  <2>5. QED
    BY <2>1, <2>2, <2>4, ShapedChain
<1>4. QED
  BY <1>1, <1>2, <1>3

\* generate() puts its bytes where the machine stands, or the pass is not the last one.
LEMMA GenerateStands ==
  ASSUME NEW m \in Machine, NEW k \in Nat, NEW a \in Operands, ~a.unk,
         NEW here \in Place, Stands(m, here),
         Generate(m, k, a).Redo = 0, Generate(m, k, a).abort = NoError
  PROVE  /\ Stands(Generate(m, k, a), Placed(here, k, a.val))
         /\ ~Seg(m).unk /\ m.Redo = 0
<1> DEFINE writes == m.Redo = 0 /\ ~Seg(m).bss
           reversed == writes /\ ~m.fisclear /\ Format # "FORMAT_RAS" /\ Seg(m).org < m.fileorg
           w == Write(m, k, a)
           n == Generate(m, k, a)
           p == Placed(here, k, a.val)
<1>1. Seg(m) \in SegmentEntry
  BY PCType
<1>2. m.Redo = 0
  <2>1. m.Redo \in Nat /\ n.Redo >= m.Redo
    BY GenerateShaped DEF Shaped, Machine
  <2> HIDE DEF n
  <2>2. n.Redo = 0
    BY DEF n
  <2>3. QED
    BY <2>1, <2>2
<1>3. writes
  BY <1>2 DEF Stands
<1>4. ~(m.fisclear /\ Seg(m).unk)
  <2>1. SUFFICES ASSUME m.fisclear /\ Seg(m).unk
                 PROVE  FALSE
    OBVIOUS
  <2> DEFINE b == Bump(m, "OBSCURE")
  <2>2. n = [b EXCEPT !.fisclear = FALSE]
    BY <1>3, <2>1 DEF Generate
  <2>3. b \in Machine /\ b.Redo # 0
    BY BumpType DEF ReasonCodes
  <2> HIDE DEF b
  <2>4. n.Redo = b.Redo
    BY <2>2, <2>3 DEF Machine
  <2>5. QED
    BY <2>3, <2>4
<1>5. ~Seg(m).unk
  BY <1>4 DEF Stands
<1>6. ~reversed
  <2>1. SUFFICES ASSUME reversed
                 PROVE  FALSE
    OBVIOUS
  <2>2. n = Abort(m, "ERROR_ORIGIN_REVERSE_INDEXED")
    BY <1>3, <1>4, <2>1 DEF Generate
  <2>3. QED
    BY <2>2, AbortShaped DEF ErrorCodes, Warnings
<1>7. n = Advance(w, k)
  BY <1>3, <1>4, <1>6 DEF Generate
<1>8. /\ Shaped(w, m) /\ w.segs = m.segs /\ ~w.fisclear
      /\ w.out = Append(m.out, [at |-> Seg(m).org, len |-> k, val |-> a.val,
                                unk |-> a.unk, lost |-> Seg(m).unk])
  BY WriteShaped
<1> HIDE DEF w
<1>9. w \in Machine /\ Seg(w) = Seg(m)
  BY <1>8 DEF Shaped, Seg
<1> k \in Int
  OBVIOUS
<1>10. /\ n.out = w.out /\ n.fisclear = w.fisclear
       /\ Moved(Seg(n), Seg(w), k)
  BY <1>7, <1>9, AdvanceShaped
<1>11. a.unk = FALSE /\ Seg(m).unk = FALSE /\ a.val \in Int
  BY <1>1, <1>5 DEF Operands, SegmentEntry
<1>12. here.org = Seg(m).org /\ here.moved = Seg(m).inRorg /\ here.image = m.out
       /\ (Seg(m).inRorg => ~Seg(m).runk /\ here.rorg = Seg(m).rorg)
  BY <1>5 DEF Stands
<1>13. p.image = n.out
  <2>1. p.image = Append(here.image, [at |-> here.org, len |-> k, val |-> a.val,
                                      unk |-> FALSE, lost |-> FALSE])
    BY <1>11, PlacedType
  <2>2. n.out = Append(m.out, [at |-> Seg(m).org, len |-> k, val |-> a.val,
                               unk |-> FALSE, lost |-> FALSE])
    BY <1>8, <1>10, <1>11
  <2> HIDE DEF n, p
  <2>3. QED
    BY <1>12, <2>1, <2>2
<1>14. /\ p.org = here.org + k /\ p.moved = here.moved
       /\ p.rorg = (IF here.moved THEN here.rorg + k ELSE here.rorg)
  BY <1>11, PlacedType
<1>15. /\ Seg(n).org = Seg(m).org + k /\ Seg(n).unk = Seg(m).unk /\ Seg(n).bss = Seg(m).bss
       /\ Seg(n).inRorg = Seg(m).inRorg /\ Seg(n).runk = Seg(m).runk
       /\ (Seg(m).inRorg => Seg(n).rorg = Seg(m).rorg + k)
  BY <1>1, <1>9, <1>10 DEF SegmentEntry, Moved
<1> HIDE DEF n, p
<1>16. ~Seg(m).bss
  BY DEF Stands
<1>17. Stands(n, p)
  BY <1>5, <1>12, <1>13, <1>14, <1>15, <1>16 DEF Stands
<1>18. QED
  BY <1>2, <1>5, <1>17 DEF n, p

\* Filler leads from place to place.
LEMMA FilledType ==
  ASSUME NEW here \in Place, NEW k \in Int
  PROVE  Filled(here, k) \in Place
<1>1. GenSize \in Nat /\ 0 \in Int
  BY DEF GenSize
<1>2. \A p \in Place, j \in Nat : Placed(p, j, 0) \in Place
  BY <1>1, PlacedType
<1>3. k > GenSize => k - GenSize \in Nat
  BY <1>1
<1>4. k > 0 => k \in Nat
  OBVIOUS
<1>5. QED
  BY <1>1, <1>2, <1>3, <1>4 DEF Filled

\* Filler is known, and 0.
LEMMA BlankType == Blank \in Operands /\ ~Blank.unk /\ Blank.val = 0
BY DEF Blank, Operands

\* So does genfill().
LEMMA GenfillShaped ==
  ASSUME NEW m \in Machine, NEW k \in Int
  PROVE  Shaped(Genfill(m, k), m) /\ Genfill(m, k).symtab = m.symtab
<1> DEFINE rest == k - GenSize
           first == Generate(m, GenSize, Blank)
<1>1. GenSize \in Nat
  BY DEF GenSize
<1>2. Shaped(first, m) /\ first.symtab = m.symtab
  BY <1>1, GenerateShaped, BlankType
<1>3. first \in Machine
  BY <1>2 DEF Shaped
<1>4. k > GenSize => rest \in Nat
  BY <1>1
<1> HIDE DEF first, rest
<1>5. k > GenSize => /\ Shaped(Generate(first, rest, Blank), first)
                     /\ Generate(first, rest, Blank).symtab = first.symtab
  BY <1>3, <1>4, GenerateShaped, BlankType
<1>6. k > GenSize => /\ Shaped(Generate(first, rest, Blank), m)
                     /\ Generate(first, rest, Blank).symtab = m.symtab
  BY <1>2, <1>5, ShapedChain
<1>7. CASE k = 0
  BY <1>7, UnmovedSelf DEF Genfill, Unmoved
<1>8. CASE k < 0
  <2>1. Genfill(m, k) = Abort(m, "ERROR_ORIGIN_REVERSE_INDEXED")
    BY <1>8 DEF Genfill
  <2>2. Abort(m, "ERROR_ORIGIN_REVERSE_INDEXED").symtab = m.symtab
    BY DEF Abort, Machine
  <2>3. QED
    BY <2>1, <2>2, AbortShaped DEF ErrorCodes, Warnings
<1>9. CASE k > 0 /\ k <= GenSize
  <2>1. Genfill(m, k) = Generate(m, k, Blank) /\ k \in Nat
    BY <1>9 DEF Genfill
  <2>2. QED
    BY <2>1, GenerateShaped, BlankType
<1>10. CASE k > GenSize
  <2>1. Genfill(m, k) = Generate(first, rest, Blank)
    BY <1>1, <1>10 DEF Genfill, first, rest
  <2>2. QED
    BY <1>6, <1>10, <2>1
<1>11. QED
  BY <1>1, <1>7, <1>8, <1>9, <1>10

\* genfill() puts its blocks where the machine stands.
LEMMA GenfillStands ==
  ASSUME NEW m \in Machine, NEW k \in Int, NEW here \in Place, Stands(m, here),
         Genfill(m, k).Redo = 0, Genfill(m, k).abort = NoError
  PROVE  Stands(Genfill(m, k), Filled(here, k))
<1> DEFINE rest == k - GenSize
           first == Generate(m, GenSize, Blank)
<1>1. GenSize \in Nat /\ GenSize > 0 /\ 0 \in Int
  BY DEF GenSize
<1>2. CASE k = 0
  BY <1>2 DEF Genfill, Filled
<1>3. CASE k < 0
  <2>1. Genfill(m, k) = Abort(m, "ERROR_ORIGIN_REVERSE_INDEXED")
    BY <1>3 DEF Genfill
  <2>2. QED
    BY <2>1, AbortShaped DEF ErrorCodes, Warnings
<1>4. CASE k > 0 /\ k <= GenSize
  <2>1. Genfill(m, k) = Generate(m, k, Blank) /\ k \in Nat /\ Filled(here, k) = Placed(here, k, 0)
    BY <1>4 DEF Genfill, Filled
  <2>2. QED
    BY <2>1, GenerateStands, BlankType
<1>5. CASE k > GenSize
  <2>1. rest \in Nat
    BY <1>1, <1>5
  <2>2. /\ Genfill(m, k) = Generate(first, rest, Blank)
        /\ Filled(here, k) = Placed(Placed(here, GenSize, 0), rest, 0)
    BY <1>1, <1>5 DEF Genfill, Filled
  <2>3. Shaped(first, m)
    BY <1>1, GenerateShaped, BlankType
  <2>4. first \in Machine /\ first.Redo \in Nat
    BY <2>3 DEF Shaped, Machine
  <2>5. Placed(here, GenSize, 0) \in Place
    BY <1>1, PlacedType
  <2> HIDE DEF rest
  <2>6. Shaped(Generate(first, rest, Blank), first)
    BY <2>1, <2>4, GenerateShaped, BlankType
  <2>7. first.Redo = 0 /\ first.abort = NoError
    <3>1. Generate(first, rest, Blank).Redo = 0 /\ Generate(first, rest, Blank).abort = NoError
      BY <2>2
    <3> HIDE DEF first
    <3>2. QED
      BY <2>4, <2>6, <3>1 DEF Shaped
  <2>8. Stands(first, Placed(here, GenSize, 0))
    BY <1>1, <2>7, GenerateStands, BlankType
  <2> HIDE DEF first
  <2>9. QED
    BY <2>1, <2>2, <2>4, <2>5, <2>8, GenerateStands, BlankType
<1>6. QED
  BY <1>1, <1>2, <1>3, <1>4, <1>5

-----------------------------------------------------------------------------
(***************************************************************************)
(* Operands and labels at the place where the machine stands.              *)
(***************************************************************************)

\* The history of operands knows the values v.
Sees(v, m) == \A u \in m.used : v[u[1]] = u[2]

\* What agrees with all the operands agrees with those of before.
LEMMA SeesLess ==
  ASSUME NEW v, NEW m, NEW n, Shaped(n, m), Sees(v, n)
  PROVE  Sees(v, m)
BY DEF Sees, Shaped

\* An address that is known is that of the place.
LEMMA AddressKnown ==
  ASSUME NEW m, NEW here, Stands(m, here), ~PC(m).unk
  PROVE  PC(m).val = Address(here)
BY DEF Stands, PC, Address

\* A known operand is worth what the layout takes it for.
LEMMA OperandMeans ==
  ASSUME NEW m \in Machine, NEW x \in Expressions, NEW here, Stands(m, here),
         ~Value(m, x).unk, NEW v, Sees(v, Eval(m, x))
  PROVE  /\ Value(m, x).val = Amount(v, x, Address(here))
         /\ x.of \in Symbols => <<x.of, v[x.of]>> \in Eval(m, x).used
<1>1. x.of \in Symbols => <<x.of, m.symtab[x.of].val>> \in Eval(m, x).used
  BY EvalUnmoved
<1>2. x.of \in Symbols => v[x.of] = m.symtab[x.of].val
  BY <1>1 DEF Sees
<1>3. Operand(m, x).unk = Value(m, x).unk
  BY DEF Value
<1>4. x.of = Dot => Operand(m, x).val = Address(here)
  BY <1>3, AddressKnown DEF Operand, Dot, Nothing
<1> DEFINE of == IF x.of = Nothing THEN 0 ELSE IF x.of = Dot THEN Address(here) ELSE v[x.of]
<1>5. Operand(m, x).val = of
  <2>1. CASE x.of = Nothing
    BY <2>1 DEF Operand
  <2>2. CASE x.of = Dot
    BY <1>4, <2>2 DEF Dot, Nothing
  <2>3. CASE x.of \in Symbols
    BY <1>2, <2>3, AssemblerAssumption DEF Operand
  <2>4. QED
    BY <2>1, <2>2, <2>3 DEF Expressions
<1>6. ~Operand(m, x).unk
  BY <1>3
<1>7. Amount(v, x, Address(here)) = IF ~x.cap THEN of + x.add ELSE IF of < x.add THEN of ELSE x.add
  BY DEF Amount
<1> HIDE DEF of
<1>8. Value(m, x).val = Amount(v, x, Address(here))
  BY <1>5, <1>6, <1>7 DEF Value
<1>9. QED
  BY <1>1, <1>2, <1>8

\* A handler has dealt with the label and the operand, and written nothing yet.
Prepared(n, m, st) ==
  /\ Unmoved(n, m) /\ SameSymbols(n, m, Names(st.lab))
  /\ st.lab \in Symbols => /\ n.symtab[st.lab].val = PC(m).val
                           /\ n.symtab[st.lab].unk = PC(m).unk

\* A request or a message more still is a preparation.
LEMMA PreparedChain ==
  ASSUME NEW m, NEW n, NEW o, NEW st \in Plain, Prepared(n, m, st), Unmoved(o, n),
         SameSymbols(o, n, Symbols)
  PROVE  Prepared(o, m, st)
BY UnmovedChain DEF Prepared, SameSymbols, Names

\* programlabel() prepares a line.
LEMMA PreparedLabel ==
  ASSUME NEW m \in Machine, NEW st \in Plain
  PROVE  Prepared(Label(m, st.lab), m, st) /\ Label(m, st.lab) \in Machine
<1>1. st.lab \in Symbols \cup {NoLabel}
  BY DEF Plain, Statements
<1>2. QED
  BY <1>1, LabelUnmoved DEF Prepared, Unmoved, Shaped

\* So do programlabel() and eval() one after the other.
LEMMA PreparedSeen ==
  ASSUME NEW m \in Machine, NEW st \in Plain
  PROVE  LET seen == Eval(Label(m, st.lab), st.exp)
         IN  Prepared(seen, m, st) /\ seen \in Machine /\ OperandOf(m, st) \in Operands
<1> DEFINE l == Label(m, st.lab)
<1>1. Prepared(l, m, st) /\ l \in Machine
  BY PreparedLabel
<1>2. st.exp \in Expressions
  BY PlainFields
<1>3. OperandOf(m, st) \in Operands
  BY <1>1, <1>2, ValueType DEF OperandOf
<1> HIDE DEF l
<1>4. Unmoved(Eval(l, st.exp), l) /\ SameSymbols(Eval(l, st.exp), l, Symbols)
  BY <1>1, <1>2, EvalUnmoved
<1>5. Prepared(Eval(l, st.exp), m, st)
  BY <1>1, <1>4, PreparedChain
<1>6. QED
  BY <1>3, <1>4, <1>5 DEF l, Unmoved, Shaped

\* The operand of a line that is known, and the address of its label.
LEMMA SeenMeans ==
  ASSUME NEW m \in Machine, NEW st \in Plain, NEW here, Stands(m, here),
         ~OperandOf(m, st).unk, NEW v, Sees(v, Eval(Label(m, st.lab), st.exp))
  PROVE  /\ OperandOf(m, st).val = Amount(v, st.exp, Address(here))
         /\ st.exp.of \in Symbols =>
              <<st.exp.of, v[st.exp.of]>> \in Eval(Label(m, st.lab), st.exp).used
<1> DEFINE l == Label(m, st.lab)
<1>1. Unmoved(l, m) /\ l \in Machine
  BY PreparedLabel DEF Prepared
<1>2. st.exp \in Expressions
  BY PlainFields
<1>3. OperandOf(m, st) = Value(l, st.exp)
  BY DEF OperandOf
<1>4. Sees(v, Eval(l, st.exp))
  OBVIOUS
<1> HIDE DEF l
<1>5. Stands(l, here)
  BY <1>1, UnmovedStands
<1>6. QED
  BY <1>1, <1>2, <1>3, <1>4, <1>5, OperandMeans DEF l

-----------------------------------------------------------------------------
(***************************************************************************)
(* The handlers: what each of them does to a straight source.              *)
(***************************************************************************)

\* An origin is set to something known, or relative to itself.
Aimed(v, m, st) ==
  st.op \in OriginOps =>
    /\ Value(m, st.exp).unk => st.op = "org" /\ st.exp.of = Dot
    /\ st.op = "align" => st.exp.of # Dot /\ Amount(v, st.exp, 0) > 0

\* The machine n stands behind the line st, under the values v.
Advanced(n, st, v, here) ==
  /\ Behind(v, st, here) \in Place /\ Stands(n, Behind(v, st, here))
  /\ Reads(st, n.symtab) => <<st.exp.of, v[st.exp.of]>> \in n.used
  /\ st.lab # NoLabel /\ ~n.symtab[st.lab].unk =>
       n.symtab[st.lab].val = LabelValue(v, st, here)

\* The handler of st has made n of m: it disturbs nothing but its label, and when no other
\* pass is asked for it goes on from where it stood to the place behind the line.
Advances(n, m, st) ==
  /\ Shaped(n, m) /\ SameSymbols(n, m, Names(st.lab))
  /\ \A v \in [Symbols -> Int], here \in Place :
       Stands(m, here) /\ Sees(v, n) /\ Aimed(v, m, st) /\ n.Redo = 0 /\ n.abort = NoError =>
         Advanced(n, st, v, here)

\* What there is to show of a handler.
LEMMA AdvancesIntro ==
  ASSUME NEW n, NEW m, NEW st, Shaped(n, m), SameSymbols(n, m, Names(st.lab)),
         ASSUME NEW v \in [Symbols -> Int], NEW here \in Place, Stands(m, here), Sees(v, n),
                Aimed(v, m, st), n.Redo = 0, n.abort = NoError
         PROVE  Advanced(n, st, v, here)
  PROVE  Advances(n, m, st)
BY DEF Advances

\* The bytes of a line come behind its label and its operand.
LEMMA EmitShaped ==
  ASSUME NEW m \in Machine, NEW st \in Plain, NEW done \in Machine, Prepared(done, m, st),
         NEW n, Shaped(n, done), n.symtab = done.symtab
  PROVE  Shaped(n, m) /\ SameSymbols(n, m, Names(st.lab))
<1>1. Shaped(done, m) /\ SameSymbols(done, m, Names(st.lab))
  BY DEF Prepared, Unmoved
<1>2. QED
  BY <1>1, ShapedChain DEF SameSymbols

\* A label that is known once its line is prepared is where the line was.
LEMMA PreparedKnown ==
  ASSUME NEW m \in Machine, NEW st \in Plain, NEW done, Prepared(done, m, st),
         NEW here, Stands(m, here), st.lab # NoLabel, ~done.symtab[st.lab].unk
  PROVE  done.symtab[st.lab].val = Address(here)
<1>1. st.lab \in Symbols
  BY DEF Plain, Statements
<1>2. done.symtab[st.lab].val = PC(m).val /\ ~PC(m).unk
  BY <1>1 DEF Prepared
<1>3. QED
  BY <1>2, AddressKnown

\* The operand that was looked up, as seen from the end of the handler.
LEMMA SeenThen ==
  ASSUME NEW m \in Machine, NEW st \in Plain, NEW here, Stands(m, here),
         ~OperandOf(m, st).unk, NEW v,
         NEW n, Shaped(n, Eval(Label(m, st.lab), st.exp)), Sees(v, n)
  PROVE  /\ OperandOf(m, st).val = Amount(v, st.exp, Address(here))
         /\ st.exp.of \in Symbols => <<st.exp.of, v[st.exp.of]>> \in n.used
<1> DEFINE seen == Eval(Label(m, st.lab), st.exp)
<1>1. seen.used \subseteq n.used
  BY DEF Shaped
<1>2. Sees(v, seen)
  BY SeesLess
<1>3. /\ OperandOf(m, st).val = Amount(v, st.exp, Address(here))
      /\ st.exp.of \in Symbols => <<st.exp.of, v[st.exp.of]>> \in seen.used
  BY <1>2, SeenMeans
<1> HIDE DEF seen
<1>4. QED
  BY <1>1, <1>3

\* Redo never goes back, and an abort is not taken back.
LEMMA ShapedCalm ==
  ASSUME NEW m, NEW n, Shaped(n, m), n.Redo = 0, n.abort = NoError
  PROVE  m.Redo = 0 /\ m.abort = NoError
<1>1. m.Redo \in Nat /\ n.Redo >= m.Redo
  BY DEF Shaped, Machine
<1>2. QED
  BY <1>1 DEF Shaped

\* A line that generates k bytes for b, behind what prepares it.
LEMMA EmitAdvances ==
  ASSUME NEW m \in Machine, NEW st \in Plain, st.op \notin OriginOps, st.op # "equ",
         NEW done \in Machine, Prepared(done, m, st),
         NEW k \in Nat, NEW b \in Operands, NEW v, NEW here \in Place, Stands(m, here),
         ~b.unk, Behind(v, st, here) = Placed(here, k, b.val),
         Generate(done, k, b).Redo = 0, Generate(done, k, b).abort = NoError,
         Reads(st, m.symtab) => <<st.exp.of, v[st.exp.of]>> \in Generate(done, k, b).used
  PROVE  Advanced(Generate(done, k, b), st, v, here)
<1> DEFINE n == Generate(done, k, b)
<1>1. Stands(done, here)
  BY UnmovedStands DEF Prepared
<1>2. Stands(n, Placed(here, k, b.val))
  BY <1>1, GenerateStands
<1>3. Placed(here, k, b.val) \in Place
  BY PlacedType DEF Operands
<1>4. n.symtab = done.symtab
  BY GenerateShaped
<1>5. LabelValue(v, st, here) = Address(here)
  BY DEF LabelValue
<1>6. st.lab # NoLabel /\ ~done.symtab[st.lab].unk => done.symtab[st.lab].val = Address(here)
  BY PreparedKnown
<1>7. Reads(st, n.symtab) => Reads(st, m.symtab)
  BY DEF Reads
<1> HIDE DEF n
<1>8. QED
  BY <1>2, <1>3, <1>4, <1>5, <1>6, <1>7 DEF Advanced, n

\* The label and the operand have been dealt with, and an unknown operand was reported.
Ready(n, m, st) ==
  /\ n \in Machine /\ Prepared(n, m, st) /\ Shaped(n, Eval(Label(m, st.lab), st.exp))
  /\ n.Redo = 0 => ~OperandOf(m, st).unk

\* A request or a message more.
LEMMA ReadyChain ==
  ASSUME NEW m \in Machine, NEW st \in Plain, NEW n, Ready(n, m, st),
         NEW o, Unmoved(o, n), o.symtab = n.symtab
  PROVE  Ready(o, m, st)
<1>1. Prepared(o, m, st)
  <2>1. SameSymbols(o, n, Symbols)
    BY DEF SameSymbols
  <2>2. QED
    BY <2>1, PreparedChain DEF Ready
<1>2. Shaped(o, Eval(Label(m, st.lab), st.exp))
  BY ShapedChain DEF Ready, Unmoved
<1>3. o \in Machine /\ n \in Machine /\ o.Redo >= n.Redo
  BY DEF Unmoved, Shaped
<1>4. o.Redo = 0 => n.Redo = 0
  <2>1. o.Redo \in Nat /\ n.Redo \in Nat
    BY <1>3 DEF Machine
  <2>2. QED
    BY <1>3, <2>1
<1>5. QED
  BY <1>1, <1>2, <1>3, <1>4 DEF Ready

\* ++Redo and its reason.
LEMMA ReadyBump ==
  ASSUME NEW m \in Machine, NEW st \in Plain, NEW n, Ready(n, m, st), NEW why \in ReasonCodes
  PROVE  Ready(Bump(n, why), m, st) /\ Bump(n, why).Redo # 0
BY ReadyChain, BumpUnmoved, BumpType DEF Ready

\* A message.
LEMMA ReadyAsmerr ==
  ASSUME NEW m \in Machine, NEW st \in Plain, NEW n, Ready(n, m, st), NEW e \in ErrorCodes
  PROVE  Ready(Asmerr(n, e), m, st)
BY ReadyChain, AsmerrUnmoved DEF Ready

\* What looks the operand up is ready when it is known, or once it has asked for a pass.
LEMMA SeenReady ==
  ASSUME NEW m \in Machine, NEW st \in Plain, NEW why \in ReasonCodes
  PROVE  LET seen == Eval(Label(m, st.lab), st.exp)
         IN  Ready(IF OperandOf(m, st).unk THEN Bump(seen, why) ELSE seen, m, st)
<1> DEFINE seen == Eval(Label(m, st.lab), st.exp)
<1>1. Prepared(seen, m, st) /\ seen \in Machine
  BY PreparedSeen
<1>2. CASE ~OperandOf(m, st).unk
  <2>1. Shaped(seen, seen)
    BY <1>1, UnmovedSelf DEF Unmoved
  <2>2. QED
    BY <1>1, <1>2, <2>1 DEF Ready
<1>3. CASE OperandOf(m, st).unk
  <2> DEFINE n == Bump(seen, why)
  <2>1. Unmoved(n, seen) /\ n.symtab = seen.symtab /\ n.Redo # 0 /\ n \in Machine
    BY <1>1, BumpUnmoved, BumpType
  <2>2. SameSymbols(n, seen, Symbols)
    BY <2>1 DEF SameSymbols
  <2> HIDE DEF n, seen
  <2>3. Prepared(n, m, st)
    BY <1>1, <2>1, <2>2, PreparedChain
  <2>4. Ready(n, m, st)
    BY <2>1, <2>3 DEF Ready, seen, Unmoved
  <2>5. QED
    BY <1>3, <2>4 DEF n, seen
<1>4. QED
  BY <1>2, <1>3

\* What v_mnemonic() does before it chooses a form.
LEMMA OperatedReady ==
  ASSUME NEW m \in Machine, NEW st \in Plain
  PROVE  Ready(Operated(m, st), m, st)
<1> DEFINE seen == Eval(Label(m, st.lab), st.exp)
           bumped == Bump(seen, "MNEMONIC_NOT_RESOLVED")
           noted == IF OperandOf(m, st).unk THEN bumped ELSE seen
<1>1. Ready(noted, m, st)
  BY SeenReady DEF ReasonCodes
<1>2. Ready(Asmerr(noted, "ERROR_UNKNOWN_MNEMONIC"), m, st)
  BY <1>1, ReadyAsmerr DEF ErrorCodes, FatalCodes
<1>3. Operated(m, st) = noted \/ Operated(m, st) = Asmerr(noted, "ERROR_UNKNOWN_MNEMONIC")
  BY DEF Operated, OperandOf
<1>4. QED
  BY <1>1, <1>2, <1>3

\* A line of k bytes for its operand, or for something that is known with it.
LEMMA ReadyEmits ==
  ASSUME NEW m \in Machine, NEW st \in Plain, st.op \notin OriginOps, st.op # "equ",
         NEW done, Ready(done, m, st), NEW k \in Nat, NEW b \in Operands,
         b.unk = OperandOf(m, st).unk,
         ASSUME NEW v, NEW here \in Place, Stands(m, here), ~OperandOf(m, st).unk,
                OperandOf(m, st).val = Amount(v, st.exp, Address(here)),
                ~Seg(done).unk, done.Redo = 0
         PROVE  Behind(v, st, here) = Placed(here, k, b.val)
  PROVE  Advances(Generate(done, k, b), m, st)
<1> DEFINE n == Generate(done, k, b)
           seen == Eval(Label(m, st.lab), st.exp)
<1>1. done \in Machine /\ Prepared(done, m, st) /\ Shaped(done, seen)
  BY DEF Ready
<1>2. Shaped(n, done) /\ n.symtab = done.symtab
  BY <1>1, GenerateShaped
<1>3. Shaped(n, m) /\ SameSymbols(n, m, Names(st.lab)) /\ Shaped(n, seen)
  BY <1>1, <1>2, EmitShaped, ShapedChain
<1>4. ASSUME NEW v \in [Symbols -> Int], NEW here \in Place, Stands(m, here), Sees(v, n),
             n.Redo = 0, n.abort = NoError
      PROVE  Advanced(n, st, v, here)
  <2>1. done.Redo = 0
    BY <1>2, <1>4, ShapedCalm
  <2>2. ~OperandOf(m, st).unk
    BY <2>1 DEF Ready
  <2>3. /\ OperandOf(m, st).val = Amount(v, st.exp, Address(here))
        /\ st.exp.of \in Symbols => <<st.exp.of, v[st.exp.of]>> \in n.used
    BY <1>3, <1>4, <2>2, SeenThen
  <2>4. Stands(done, here)
    BY <1>1, <1>4, UnmovedStands DEF Prepared
  <2>5. ~Seg(done).unk
    BY <1>1, <1>4, <2>2, <2>4, GenerateStands
  <2>6. Behind(v, st, here) = Placed(here, k, b.val)
    BY <1>4, <2>1, <2>2, <2>3, <2>5
  <2>7. QED
    BY <1>1, <1>4, <2>2, <2>3, <2>6, EmitAdvances DEF Reads
<1> HIDE DEF n
<1>5. QED
  BY <1>3, <1>4, AdvancesIntro DEF n

\* v_mnemonic() for an operation with a form for page 0 and an absolute one.
LEMMA MnemonicMemAdvances ==
  ASSUME NEW m \in Machine, NEW st \in Plain, st.op = "lda"
  PROVE  Advances(MnemonicMem(m, st), m, st)
<1> DEFINE a == OperandOf(m, st)
           done == Operated(m, st)
           checked == IF a.val < -255 THEN Asmerr(done, "ERROR_ADDRESS_MUST_BE_LT_100") ELSE done
           k == IF NeedsWord(a) THEN 3 ELSE 2
<1>1. a \in Operands
  BY PreparedSeen
<1>2. Ready(checked, m, st)
  BY OperatedReady, ReadyAsmerr DEF ErrorCodes, FatalCodes
<1>3. ASSUME NEW v, NEW here, ~a.unk, a.val = Amount(v, st.exp, Address(here))
      PROVE  Behind(v, st, here) = Placed(here, k, a.val)
  <2>1. Behind(v, st, here) = Placed(here, IF a.val > 255 THEN 3 ELSE 2, a.val)
    BY <1>3 DEF Behind
  <2>2. NeedsWord(a) <=> a.val > 255
    BY <1>1, <1>3 DEF NeedsWord, Operands
  <2> HIDE DEF a
  <2>3. QED
    BY <2>1, <2>2
<1>4. MnemonicMem(m, st) = Generate(checked, k, a)
  BY DEF MnemonicMem
<1>5. k \in Nat /\ st.op \notin OriginOps
  BY DEF OriginOps
<1> HIDE DEF checked, k
<1>6. QED
  BY <1>1, <1>2, <1>3, <1>4, <1>5, ReadyEmits

\* v_mnemonic() for an operation that only has the absolute form.
LEMMA MnemonicWordAdvances ==
  ASSUME NEW m \in Machine, NEW st \in Plain, st.op = "jmp"
  PROVE  Advances(MnemonicWord(m, st), m, st)
<1> DEFINE a == OperandOf(m, st)
<1>1. a \in Operands
  BY PreparedSeen
<1>2. Ready(Operated(m, st), m, st)
  BY OperatedReady
<1>3. ASSUME NEW v, NEW here, a.val = Amount(v, st.exp, Address(here))
      PROVE  Behind(v, st, here) = Placed(here, 3, a.val)
  BY <1>3 DEF Behind
<1>4. MnemonicWord(m, st) = Generate(Operated(m, st), 3, a)
  BY DEF MnemonicWord
<1>5. 3 \in Nat /\ st.op \notin OriginOps
  BY DEF OriginOps
<1>6. QED
  BY <1>1, <1>2, <1>3, <1>4, <1>5, ReadyEmits

\* v_dc().
LEMMA DcAdvances ==
  ASSUME NEW m \in Machine, NEW st \in Plain, st.op = "dc"
  PROVE  Advances(v_dc(m, st), m, st)
<1> DEFINE a == OperandOf(m, st)
           seen == Eval(Label(m, st.lab), st.exp)
           bumped == IF a.unk THEN Bump(seen, "DC_NOT_RESOLVED") ELSE seen
           checked == IF a.val \in -255 .. 255 THEN bumped
                      ELSE Asmerr(bumped, "ERROR_ADDRESS_MUST_BE_LT_100")
<1>1. a \in Operands
  BY PreparedSeen
<1>2. Ready(bumped, m, st)
  BY SeenReady DEF ReasonCodes
<1> HIDE DEF bumped
<1>3. Ready(checked, m, st)
  BY <1>2, ReadyAsmerr DEF ErrorCodes, FatalCodes
<1>4. ASSUME NEW v, NEW here, a.val = Amount(v, st.exp, Address(here))
      PROVE  Behind(v, st, here) = Placed(here, 1, a.val)
  BY <1>4 DEF Behind
<1>5. v_dc(m, st) = Generate(checked, 1, a)
  BY DEF v_dc, bumped
<1>6. 1 \in Nat /\ st.op \notin OriginOps
  BY DEF OriginOps
<1> HIDE DEF checked
<1>7. QED
  BY <1>1, <1>3, <1>4, <1>5, <1>6, ReadyEmits

\* v_mnemonic() without an operand.
LEMMA MnemonicImpliedAdvances ==
  ASSUME NEW m \in Machine, NEW st \in Plain, st.op = "nop"
  PROVE  Advances(MnemonicImplied(m, st), m, st)
<1> DEFINE done == Label(m, st.lab)
           n == Generate(done, 1, Blank)
<1>1. Prepared(done, m, st) /\ done \in Machine
  BY PreparedLabel
<1>2. MnemonicImplied(m, st) = n /\ 1 \in Nat
  BY DEF MnemonicImplied
<1> HIDE DEF done
<1>3. Shaped(n, done) /\ n.symtab = done.symtab
  BY <1>1, <1>2, GenerateShaped, BlankType
<1>4. Shaped(n, m) /\ SameSymbols(n, m, Names(st.lab))
  BY <1>1, <1>3, EmitShaped
<1>5. ASSUME NEW v \in [Symbols -> Int], NEW here \in Place, Stands(m, here), Sees(v, n),
             n.Redo = 0, n.abort = NoError
      PROVE  Advanced(n, st, v, here)
  <2>1. Behind(v, st, here) = Placed(here, 1, Blank.val)
    BY BlankType DEF Behind
  <2>2. ~Reads(st, m.symtab) /\ st.op \notin OriginOps
    BY DEF Reads, Readers, OriginOps
  <2>3. QED
    BY <1>1, <1>2, <1>5, <2>1, <2>2, BlankType, EmitAdvances
<1> HIDE DEF n
<1>6. QED
  BY <1>2, <1>4, <1>5, AdvancesIntro DEF n

\* A branch that is written reaches its target from a known address.
LEMMA MnemonicRelAdvances ==
  ASSUME NEW m \in Machine, NEW st \in Plain, st.op = "bne"
  PROVE  Advances(MnemonicRel(m, st), m, st)
<1> DEFINE a == OperandOf(m, st)
           done == Operated(m, st)
           dest == a.val - PC(done).val - 2
           tooFar == ~a.unk /\ ~PC(done).unk /\ dest \notin -128 .. 127
           reached == ~a.unk /\ ~PC(done).unk /\ dest \in -128 .. 127
           refused == Bump(Asmerr(done, "ERROR_BRANCH_OUT_OF_RANGE"), "BRANCH_OUT_OF_RANGE")
           checked == IF tooFar THEN refused ELSE done
           byte == [val |-> IF reached THEN dest ELSE 0, unk |-> a.unk]
<1>1. a \in Operands
  BY PreparedSeen
<1>2. Ready(done, m, st)
  BY OperatedReady
<1>3. done \in Machine /\ PC(done) \in Operands
  BY <1>2, PCType DEF Ready
<1>4. dest \in Int
  BY <1>1, <1>3 DEF Operands
<1>5. byte \in Operands /\ byte.unk = a.unk
  <2> HIDE DEF dest, a
  <2>1. QED
    BY <1>1, <1>4 DEF Operands
<1>6. Ready(refused, m, st) /\ refused.Redo # 0
  BY <1>2, ReadyAsmerr, ReadyBump DEF ErrorCodes, Warnings, ReasonCodes
<1>7. Ready(checked, m, st)
  BY <1>2, <1>6
<1>8. MnemonicRel(m, st) = Generate(checked, 2, byte)
  BY DEF MnemonicRel
<1>9. ASSUME NEW v, NEW here \in Place, Stands(m, here), ~a.unk,
             a.val = Amount(v, st.exp, Address(here)), ~Seg(checked).unk, checked.Redo = 0
      PROVE  Behind(v, st, here) = Placed(here, 2, byte.val)
  <2>1. checked = done /\ ~tooFar
    BY <1>6, <1>9
  <2>2. Stands(done, here)
    BY <1>2, <1>9, UnmovedStands DEF Ready, Prepared
  <2>3. ~PC(done).unk
    BY <1>9, <2>1, <2>2 DEF PC, Stands
  <2>4. PC(done).val = Address(here)
    BY <2>2, <2>3, AddressKnown
  <2>5. reached
    BY <1>9, <2>1, <2>3
  <2>6. byte.val = dest
    <3> HIDE DEF dest, a
    <3>1. QED
      BY <2>5
  <2>7. dest = a.val - (Address(here) + 2)
    <3>1. a.val \in Int /\ PC(done).val \in Int
      BY <1>1, <1>3 DEF Operands
    <3>2. QED
      BY <2>4, <3>1
  <2>8. Behind(v, st, here) = Placed(here, 2, a.val - (Address(here) + 2))
    BY <1>9 DEF Behind
  <2> HIDE DEF dest, a, byte
  <2>9. QED
    BY <2>6, <2>7, <2>8
<1>10. 2 \in Nat /\ st.op \notin OriginOps
  BY DEF OriginOps
<1> HIDE DEF checked, byte
<1>11. QED
  BY <1>1, <1>5, <1>7, <1>8, <1>9, <1>10, ReadyEmits

\* v_ds(): as many bytes as the operand says, in one block or two.
LEMMA DsAdvances ==
  ASSUME NEW m \in Machine, NEW st \in Plain, st.op = "ds"
  PROVE  Advances(v_ds(m, st), m, st)
<1> DEFINE a == OperandOf(m, st)
           seen == Eval(Label(m, st.lab), st.exp)
           n == v_ds(m, st)
<1>1. Prepared(seen, m, st) /\ seen \in Machine /\ a \in Operands
  BY PreparedSeen
<1>2. a.val \in Int
  BY <1>1 DEF Operands
<1> HIDE DEF a
<1>3. n = IF a.unk THEN Bump(seen, "DS_NOT_RESOLVED") ELSE Genfill(seen, a.val)
  BY DEF v_ds, a
<1> HIDE DEF n, seen
<1>4. /\ Unmoved(Bump(seen, "DS_NOT_RESOLVED"), seen)
      /\ Bump(seen, "DS_NOT_RESOLVED").symtab = seen.symtab
      /\ Bump(seen, "DS_NOT_RESOLVED").Redo # 0
  BY <1>1, BumpUnmoved, BumpType DEF ReasonCodes
<1>5. /\ Shaped(Genfill(seen, a.val), seen)
      /\ Genfill(seen, a.val).symtab = seen.symtab
  BY <1>1, <1>2, GenfillShaped
<1>6. Shaped(n, seen) /\ n.symtab = seen.symtab
  BY <1>3, <1>4, <1>5 DEF Unmoved
<1>7. Shaped(n, m) /\ SameSymbols(n, m, Names(st.lab))
  BY <1>1, <1>6, EmitShaped
<1>8. ASSUME NEW v \in [Symbols -> Int], NEW here \in Place, Stands(m, here), Sees(v, n),
             n.Redo = 0, n.abort = NoError
      PROVE  Advanced(n, st, v, here)
  <2>1. ~a.unk /\ n = Genfill(seen, a.val)
    BY <1>3, <1>4, <1>8
  <2>2. /\ a.val = Amount(v, st.exp, Address(here))
        /\ st.exp.of \in Symbols => <<st.exp.of, v[st.exp.of]>> \in n.used
    BY <1>6, <1>8, <2>1, SeenThen DEF a, seen
  <2>3. Behind(v, st, here) = Filled(here, a.val)
    BY <2>2 DEF Behind
  <2>4. Stands(seen, here)
    BY <1>1, <1>8, UnmovedStands DEF Prepared
  <2>5. Stands(n, Filled(here, a.val)) /\ Filled(here, a.val) \in Place
    BY <1>1, <1>2, <1>8, <2>1, <2>4, GenfillStands, FilledType
  <2>6. st.lab # NoLabel /\ ~n.symtab[st.lab].unk => n.symtab[st.lab].val = Address(here)
    BY <1>1, <1>6, <1>8, PreparedKnown
  <2>7. LabelValue(v, st, here) = Address(here)
    BY DEF LabelValue, OriginOps
  <2>8. QED
    BY <2>2, <2>3, <2>5, <2>6, <2>7 DEF Advanced, Reads
<1>9. QED
  BY <1>7, <1>8, AdvancesIntro DEF n

\* A line that is a label.
LEMMA LabelOnlyAdvances ==
  ASSUME NEW m \in Machine, NEW st \in Plain, st.op = "label"
  PROVE  Advances(Label(m, st.lab), m, st)
<1> DEFINE n == Label(m, st.lab)
<1>1. Prepared(n, m, st)
  BY PreparedLabel
<1> HIDE DEF n
<1>2. ASSUME NEW v \in [Symbols -> Int], NEW here \in Place, Stands(m, here)
      PROVE  Advanced(n, st, v, here)
  <2>1. Behind(v, st, here) = here /\ LabelValue(v, st, here) = Address(here)
    BY DEF Behind, LabelValue, OriginOps
  <2>2. Stands(n, here)
    BY <1>1, <1>2, UnmovedStands DEF Prepared
  <2>3. ~Reads(st, n.symtab)
    BY DEF Reads, Readers, OriginOps
  <2>4. st.lab # NoLabel /\ ~n.symtab[st.lab].unk => n.symtab[st.lab].val = Address(here)
    BY <1>1, <1>2, PreparedKnown
  <2>5. QED
    BY <2>1, <2>2, <2>3, <2>4 DEF Advanced
<1>3. QED
  BY <1>1, <1>2, AdvancesIntro DEF Prepared, Unmoved, n

\* A line that sets the origin g of its operand, and then its label.
LEMMA OriginAdvances ==
  ASSUME NEW m \in Machine, NEW st \in Plain, st.op \in OriginOps,
         NEW g, Shaped(g, Eval(m, st.exp)), g.symtab = Eval(m, st.exp).symtab,
         ASSUME NEW v \in [Symbols -> Int], NEW here \in Place, Stands(m, here),
                Aimed(v, m, st), g.Redo = 0, g.abort = NoError,
                ~Value(m, st.exp).unk =>
                  Value(m, st.exp).val = Amount(v, st.exp, Address(here))
         PROVE  Behind(v, st, here) \in Place /\ Stands(g, Behind(v, st, here))
  PROVE  Advances(Label(g, st.lab), m, st)
<1> DEFINE seen == Eval(m, st.exp)
           a == Value(m, st.exp)
           n == Label(g, st.lab)
<1>1. st.exp \in Expressions /\ st.lab \in Symbols \cup {NoLabel}
  BY DEF Plain, Statements
<1>2. Unmoved(seen, m) /\ SameSymbols(seen, m, Symbols)
  BY <1>1, EvalUnmoved
<1>3. g \in Machine
  BY DEF Shaped
<1>4. /\ Unmoved(n, g) /\ SameSymbols(n, g, Names(st.lab))
      /\ st.lab \in Symbols => n.symtab[st.lab].val = PC(g).val /\ n.symtab[st.lab].unk = PC(g).unk
  BY <1>1, <1>3, LabelUnmoved
<1> HIDE DEF seen
<1>5. Shaped(n, seen) /\ Shaped(n, g) /\ Shaped(n, m)
  BY <1>2, <1>4, ShapedChain DEF Unmoved, seen
<1>6. SameSymbols(n, m, Names(st.lab))
  BY <1>2, <1>4 DEF SameSymbols, Names, seen
<1> HIDE DEF n
<1>7. ASSUME NEW v \in [Symbols -> Int], NEW here \in Place, Stands(m, here), Sees(v, n),
             Aimed(v, m, st), n.Redo = 0, n.abort = NoError
      PROVE  Advanced(n, st, v, here)
  <2> DEFINE there == Behind(v, st, here)
  <2>1. Sees(v, seen)
    BY <1>5, <1>7, SeesLess
  <2>2. ~a.unk => /\ a.val = Amount(v, st.exp, Address(here))
                  /\ st.exp.of \in Symbols => <<st.exp.of, v[st.exp.of]>> \in seen.used
    BY <1>1, <1>7, <2>1, OperandMeans DEF seen
  <2>3. g.Redo = 0 /\ g.abort = NoError
    BY <1>5, <1>7, ShapedCalm
  <2>4. there \in Place /\ Stands(g, there)
    BY <1>7, <2>2, <2>3
  <2>5. st.exp.of \in Symbols => ~a.unk
    BY <1>7, AssemblerAssumption DEF Aimed
  <2>6. Reads(st, n.symtab) => <<st.exp.of, v[st.exp.of]>> \in n.used
    BY <1>5, <2>2, <2>5 DEF Reads, Shaped
  <2> HIDE DEF there
  <2>7. Stands(n, there)
    BY <1>4, <2>4, UnmovedStands
  <2>8. st.lab # NoLabel /\ ~n.symtab[st.lab].unk => n.symtab[st.lab].val = Address(there)
    <3>1. SUFFICES ASSUME st.lab # NoLabel, ~n.symtab[st.lab].unk
                   PROVE  n.symtab[st.lab].val = Address(there)
      OBVIOUS
    <3>2. ~PC(g).unk /\ n.symtab[st.lab].val = PC(g).val
      BY <1>1, <1>4, <3>1
    <3>3. QED
      BY <2>4, <3>2, AddressKnown
  <2>9. LabelValue(v, st, here) = Address(there)
    BY DEF LabelValue, OriginOps, there
  <2>10. QED
    BY <2>4, <2>6, <2>7, <2>8, <2>9 DEF Advanced, there
<1>8. QED
  BY <1>5, <1>6, <1>7, AdvancesIntro DEF n

\* The value of an expression is a number.
LEMMA AmountType ==
  ASSUME NEW v \in [Symbols -> Int], NEW x \in Expressions, NEW at \in Int
  PROVE  Amount(v, x, at) \in Int
<1> DEFINE of == IF x.of = Nothing THEN 0 ELSE IF x.of = Dot THEN at ELSE v[x.of]
<1>1. of \in Int /\ x.add \in Int
  BY DEF Expressions
<1>2. Amount(v, x, at) = IF ~x.cap THEN of + x.add ELSE IF of < x.add THEN of ELSE x.add
  BY DEF Amount
<1> HIDE DEF of
<1>3. QED
  BY <1>1, <1>2

\* "." is the address of the place, as far as the machine has written.
LEMMA AddressFacts ==
  ASSUME NEW m \in Machine, NEW here \in Place, Stands(m, here)
  PROVE  Address(here) \in Int /\ (~m.fisclear => ~PC(m).unk)
BY DEF Stands, PC, Address, Place

\* v_org(): the label comes behind.
LEMMA OrgAdvances ==
  ASSUME NEW m \in Machine, NEW st \in Plain, st.op = "org"
  PROVE  Advances(v_org(m, st), m, st)
<1> DEFINE a == Value(m, st.exp)
           seen == Eval(m, st.exp)
           entry == [Seg(seen) EXCEPT !.org = a.val, !.unk = a.unk]
           g == PutSegment(seen, seen.cs, entry)
<1>1. st.exp \in Expressions
  BY PlainFields
<1>2. Unmoved(seen, m) /\ seen \in Machine /\ a \in Operands
  BY <1>1, EvalUnmoved, ValueType DEF Unmoved, Shaped
<1>3. seen.cs = m.cs /\ m.cs \in Segments /\ Seg(seen) \in SegmentEntry /\ Seg(seen) = Seg(m)
  BY <1>2, PCType DEF Unmoved, Shaped, Seg, Machine
<1>4. a.val \in Int /\ a.unk \in BOOLEAN
  BY <1>2 DEF Operands
<1> HIDE DEF a, seen
<1>5. /\ entry \in SegmentEntry /\ entry.bss = Seg(seen).bss /\ entry.org = a.val
      /\ entry.unk = a.unk /\ entry.inRorg = Seg(seen).inRorg /\ entry.rorg = Seg(seen).rorg
      /\ entry.runk = Seg(seen).runk
  BY <1>3, <1>4 DEF SegmentEntry
<1>6. [seen EXCEPT !.segs[m.cs].org = a.val, !.segs[m.cs].unk = a.unk] = g
  <2>1. [seen.segs EXCEPT ![m.cs].org = a.val, ![m.cs].unk = a.unk]
        = [seen.segs EXCEPT ![m.cs] = entry]
    BY <1>2, <1>3 DEF Machine, SegmentEntry, Seg
  <2>2. QED
    BY <1>2, <1>3, <2>1 DEF PutSegment, Machine
<1>7. v_org(m, st) = Label(g, st.lab)
  BY <1>6 DEF v_org, a, seen
<1> HIDE DEF entry
<1>8. /\ Shaped(g, seen) /\ Seg(g) = entry /\ g.symtab = seen.symtab /\ g.out = seen.out
      /\ g.fisclear = seen.fisclear
  BY <1>2, <1>5, PutSegmentShaped
<1> HIDE DEF g
<1>9. ASSUME NEW v \in [Symbols -> Int], NEW here \in Place, Stands(m, here), Aimed(v, m, st),
             ~a.unk => a.val = Amount(v, st.exp, Address(here))
      PROVE  Behind(v, st, here) \in Place /\ Stands(g, Behind(v, st, here))
  <2> DEFINE amount == Amount(v, st.exp, Address(here))
             there == [here EXCEPT !.org = amount]
  <2>1. Behind(v, st, here) = there
    BY DEF Behind
  <2>2. amount \in Int
    BY <1>1, <1>2, <1>9, AmountType, AddressFacts
  <2> HIDE DEF amount
  <2>3. /\ there \in Place /\ there.org = amount /\ there.rorg = here.rorg
        /\ there.moved = here.moved /\ there.image = here.image
    BY <2>2 DEF Place
  <2>4. ~a.unk => a.val = amount
    BY <1>9 DEF amount
  <2>5. ~m.fisclear => ~a.unk
    <3>1. SUFFICES ASSUME ~m.fisclear, a.unk
                   PROVE  FALSE
      OBVIOUS
    <3>2. st.exp.of = Dot
      BY <1>9, <3>1 DEF Aimed, OriginOps, a
    <3>3. ~PC(m).unk
      BY <1>9, <3>1, AddressFacts
    <3>4. QED
      BY <3>1, <3>2, <3>3 DEF a, Value, Operand, Dot, Nothing
  <2>6. Stands(seen, here) /\ seen.fisclear = m.fisclear
    BY <1>2, <1>9, UnmovedStands DEF Unmoved
  <2> HIDE DEF there
  <2>7. Stands(g, there)
    BY <1>5, <1>8, <2>3, <2>4, <2>5, <2>6 DEF Stands
  <2>8. QED
    BY <2>1, <2>3, <2>7
<1>10. st.op \in OriginOps
  BY DEF OriginOps
<1>11. QED
  BY <1>7, <1>8, <1>9, <1>10, OriginAdvances DEF a, seen

\* v_rorg(): the same for the address lines pretend to have.
LEMMA RorgAdvances ==
  ASSUME NEW m \in Machine, NEW st \in Plain, st.op = "rorg"
  PROVE  Advances(v_rorg(m, st), m, st)
<1> DEFINE a == Value(m, st.exp)
           seen == Eval(m, st.exp)
           entry == [Seg(seen) EXCEPT !.inRorg = TRUE, !.rorg = a.val, !.runk = a.unk]
           g == PutSegment(seen, seen.cs, entry)
<1>1. st.exp \in Expressions
  BY PlainFields
<1>2. Unmoved(seen, m) /\ seen \in Machine /\ a \in Operands
  BY <1>1, EvalUnmoved, ValueType DEF Unmoved, Shaped
<1>3. seen.cs = m.cs /\ m.cs \in Segments /\ Seg(seen) \in SegmentEntry /\ Seg(seen) = Seg(m)
  BY <1>2, PCType DEF Unmoved, Shaped, Seg, Machine
<1>4. a.val \in Int /\ a.unk \in BOOLEAN
  BY <1>2 DEF Operands
<1> HIDE DEF a, seen
<1>5. /\ entry \in SegmentEntry /\ entry.bss = Seg(seen).bss /\ entry.org = Seg(seen).org
      /\ entry.unk = Seg(seen).unk /\ entry.inRorg = TRUE /\ entry.rorg = a.val
      /\ entry.runk = a.unk
  BY <1>3, <1>4 DEF SegmentEntry
<1>6. [seen EXCEPT !.segs[m.cs].inRorg = TRUE, !.segs[m.cs].rorg = a.val,
                   !.segs[m.cs].runk = a.unk] = g
  <2>1. [seen.segs EXCEPT ![m.cs].inRorg = TRUE, ![m.cs].rorg = a.val, ![m.cs].runk = a.unk]
        = [seen.segs EXCEPT ![m.cs] = entry]
    BY <1>2, <1>3 DEF Machine, SegmentEntry, Seg
  <2>2. QED
    BY <1>2, <1>3, <2>1 DEF PutSegment, Machine
<1>7. v_rorg(m, st) = Label(g, st.lab)
  BY <1>6 DEF v_rorg, a, seen
<1> HIDE DEF entry
<1>8. /\ Shaped(g, seen) /\ Seg(g) = entry /\ g.symtab = seen.symtab /\ g.out = seen.out
      /\ g.fisclear = seen.fisclear
  BY <1>2, <1>5, PutSegmentShaped
<1> HIDE DEF g
<1>9. ASSUME NEW v \in [Symbols -> Int], NEW here \in Place, Stands(m, here), Aimed(v, m, st),
             ~a.unk => a.val = Amount(v, st.exp, Address(here))
      PROVE  Behind(v, st, here) \in Place /\ Stands(g, Behind(v, st, here))
  <2> DEFINE there == [here EXCEPT !.rorg = a.val, !.moved = TRUE]
  <2>1. ~a.unk
    BY <1>9 DEF Aimed, OriginOps, a
  <2>2. Behind(v, st, here) = there
    BY <1>9, <2>1 DEF Behind
  <2>3. /\ there \in Place /\ there.org = here.org /\ there.rorg = a.val
        /\ there.moved = TRUE /\ there.image = here.image
    BY <1>4 DEF Place
  <2>4. Stands(seen, here)
    BY <1>2, <1>9, UnmovedStands
  <2> HIDE DEF there
  <2>5. Stands(g, there)
    BY <1>5, <1>8, <2>1, <2>3, <2>4 DEF Stands
  <2>6. QED
    BY <2>2, <2>3, <2>5
<1>10. st.op \in OriginOps
  BY DEF OriginOps
<1>11. QED
  BY <1>7, <1>8, <1>9, <1>10, OriginAdvances DEF a, seen

\* v_rend(): back to the origin, which has gone on meanwhile.
LEMMA RendAdvances ==
  ASSUME NEW m \in Machine, NEW st \in Plain, st.op = "rend"
  PROVE  Advances(v_rend(m, st), m, st)
<1> DEFINE l == Label(m, st.lab)
           entry == [Seg(l) EXCEPT !.inRorg = FALSE]
           n == PutSegment(l, l.cs, entry)
<1>1. Prepared(l, m, st) /\ l \in Machine
  BY PreparedLabel
<1> HIDE DEF l
<1>2. l.cs = m.cs /\ m.cs \in Segments /\ Seg(l) \in SegmentEntry
  BY <1>1, PCType DEF Prepared, Unmoved, Shaped, Machine
<1>3. /\ entry \in SegmentEntry /\ entry.bss = Seg(l).bss /\ entry.org = Seg(l).org
      /\ entry.unk = Seg(l).unk /\ entry.inRorg = FALSE
  BY <1>2 DEF SegmentEntry
<1>4. v_rend(m, st) = n
  BY <1>1, <1>2 DEF v_rend, PutSegment, Machine, l, Seg
<1> HIDE DEF entry
<1>5. /\ Shaped(n, l) /\ Seg(n) = entry /\ n.symtab = l.symtab /\ n.out = l.out
      /\ n.fisclear = l.fisclear
  BY <1>1, <1>3, PutSegmentShaped
<1> HIDE DEF n
<1>6. Shaped(n, m) /\ SameSymbols(n, m, Names(st.lab))
  BY <1>1, <1>5, EmitShaped
<1>7. ASSUME NEW v \in [Symbols -> Int], NEW here \in Place, Stands(m, here)
      PROVE  Advanced(n, st, v, here)
  <2> DEFINE there == [here EXCEPT !.moved = FALSE]
  <2>1. Behind(v, st, here) = there /\ LabelValue(v, st, here) = Address(here)
    BY DEF Behind, LabelValue, OriginOps
  <2>2. /\ there \in Place /\ there.org = here.org /\ there.moved = FALSE
        /\ there.image = here.image
    BY DEF Place
  <2>3. Stands(l, here)
    BY <1>1, <1>7, UnmovedStands DEF Prepared
  <2> HIDE DEF there
  <2>4. Stands(n, there)
    BY <1>3, <1>5, <2>2, <2>3 DEF Stands
  <2>5. ~Reads(st, n.symtab)
    BY DEF Reads, Readers, OriginOps
  <2>6. st.lab # NoLabel /\ ~n.symtab[st.lab].unk => n.symtab[st.lab].val = Address(here)
    BY <1>1, <1>5, <1>7, PreparedKnown
  <2>7. QED
    BY <2>1, <2>2, <2>4, <2>5, <2>6 DEF Advanced
<1>8. QED
  BY <1>4, <1>6, <1>7, AdvancesIntro

\* The rest of the division of a negative number.
LEMMA NegativeRest ==
  ASSUME NEW at \in Int, NEW p \in Int, p > 0
  PROVE  ((-at) % p) = IF (at % p) = 0 THEN 0 ELSE p - (at % p)
<1> DEFINE r == at % p
           q == at \div p
           b == -at
           u == b % p
           w == b \div p
<1>1. r \in 0 .. p - 1 /\ q \in Int /\ at = p * q + r
  BY SMT
<1>2. b \in Int /\ b = -at
  OBVIOUS
<1>3. u \in 0 .. p - 1 /\ w \in Int /\ b = p * w + u
  <2> HIDE DEF b
  <2>1. QED
    BY <1>2, SMT
<1> HIDE DEF r, q, b, u, w
<1>4. p * (q + w) = -(r + u)
  BY <1>1, <1>2, <1>3, SMT
<1>5. u = IF r = 0 THEN 0 ELSE p - r
  BY <1>1, <1>3, <1>4, SMTT(30)
<1>6. QED
  BY <1>5 DEF u, r, b

\* Padding() yields what is missing to the next multiple.
LEMMA PaddingMeans ==
  ASSUME NEW at \in Int, NEW p \in Int, p > 0
  PROVE  /\ Padding(at, p) \in Int
         /\ ((-at) % p) = IF Padding(at, p) = p THEN 0 ELSE Padding(at, p)
<1> DEFINE r == at % p
           u == (-at) % p
<1>1. r \in Int /\ u = IF r = 0 THEN 0 ELSE p - r
  BY NegativeRest
<1>2. Padding(at, p) = p - r
  BY DEF Padding
<1> HIDE DEF r, u
<1>3. Padding(at, p) \in Int /\ u = IF Padding(at, p) = p THEN 0 ELSE Padding(at, p)
  BY <1>1, <1>2
<1>4. QED
  BY <1>3 DEF u

\* v_align(): filler up to the next multiple, of the origin or of the pretended one.
LEMMA AlignAdvances ==
  ASSUME NEW m \in Machine, NEW st \in Plain, st.op = "align"
  PROVE  Advances(v_align(m, st), m, st)
<1> DEFINE a == Value(m, st.exp)
           seen == Eval(m, st.exp)
           why == IF Seg(m).inRorg THEN "ALIGN_RELOCATABLE_ORIGIN_NOT_KNOWN"
                  ELSE "ALIGN_NORMAL_ORIGIN_NOT_KNOWN"
           skip == Padding(PC(m).val, a.val)
           refused == Asmerr(seen, "ERROR_SYNTAX_ERROR")
           bumped == Bump(seen, why)
           filled == Genfill(seen, skip)
<1>1. st.exp \in Expressions /\ st.op \in OriginOps
  BY PlainFields DEF OriginOps
<1>2. /\ Unmoved(seen, m) /\ SameSymbols(seen, m, Symbols) /\ seen \in Machine
      /\ a \in Operands /\ PC(m) \in Operands
  BY <1>1, EvalUnmoved, ValueType, PCType DEF Unmoved, Shaped
<1>3. a.val \in Int /\ PC(m).val \in Int /\ skip \in Int
  BY <1>2 DEF Operands, Padding
<1>4. v_align(m, st) =
        IF a.val = 0 THEN refused
        ELSE IF a.unk \/ PC(m).unk THEN Label(bumped, st.lab)
        ELSE IF skip = a.val THEN Label(seen, st.lab)
        ELSE Label(filled, st.lab)
  BY DEF v_align
\* What is aligned to, under the values v.
<1>5. ASSUME NEW v \in [Symbols -> Int], NEW here \in Place, Aimed(v, m, st),
             ~a.unk => a.val = Amount(v, st.exp, Address(here))
      PROVE  ~a.unk /\ a.val = Amount(v, st.exp, Address(here)) /\ a.val > 0
  <2>1. ~a.unk /\ st.exp.of # Dot /\ Amount(v, st.exp, 0) > 0
    BY <1>5 DEF Aimed, OriginOps
  <2>2. Amount(v, st.exp, Address(here)) = Amount(v, st.exp, 0)
    BY <2>1 DEF Amount
  <2>3. QED
    BY <1>5, <2>1, <2>2
<1>6. why \in ReasonCodes
  BY DEF ReasonCodes
<1> HIDE DEF a, seen, why, skip, refused, bumped, filled
<1>7. CASE a.val = 0
  <2>1. Unmoved(refused, seen) /\ refused.symtab = seen.symtab
    BY <1>2, AsmerrUnmoved DEF ErrorCodes, FatalCodes, refused
  <2>2. Shaped(refused, seen) /\ Shaped(refused, m) /\ SameSymbols(refused, m, Names(st.lab))
    BY <1>2, <2>1, ShapedChain DEF Unmoved, SameSymbols, Names
  <2>3. ASSUME NEW v \in [Symbols -> Int], NEW here \in Place, Stands(m, here),
               Sees(v, refused), Aimed(v, m, st)
        PROVE  FALSE
    <3>1. Sees(v, seen)
      BY <2>2, <2>3, SeesLess
    <3>2. ~a.unk => /\ a.val = Amount(v, st.exp, Address(here))
                    /\ st.exp.of \in Symbols => <<st.exp.of, v[st.exp.of]>> \in seen.used
      BY <1>1, <2>3, <3>1, OperandMeans DEF a, seen
    <3>3. QED
      BY <1>5, <1>7, <2>3, <3>2
  <2>4. QED
    BY <1>4, <1>7, <2>2, <2>3, AdvancesIntro
<1>8. CASE a.val # 0 /\ (a.unk \/ PC(m).unk)
  <2>1. Unmoved(bumped, seen) /\ bumped.symtab = seen.symtab /\ bumped.Redo # 0
    BY <1>2, <1>6, BumpUnmoved, BumpType DEF bumped
  <2>2. Advances(Label(bumped, st.lab), m, st)
    BY <1>1, <2>1, OriginAdvances DEF seen, Unmoved
  <2>3. QED
    BY <1>4, <1>8, <2>2
<1>9. ASSUME NEW v \in [Symbols -> Int], NEW here \in Place, Stands(m, here),
             Aimed(v, m, st), ~a.unk => a.val = Amount(v, st.exp, Address(here)),
             ~PC(m).unk
      PROVE  /\ Behind(v, st, here) = Filled(here, IF skip = a.val THEN 0 ELSE skip)
             /\ Behind(v, st, here) \in Place /\ Stands(seen, here)
  <2> DEFINE k == IF skip = a.val THEN 0 ELSE skip
  <2>1. a.val = Amount(v, st.exp, Address(here)) /\ a.val > 0
    BY <1>5, <1>9
  <2>2. PC(m).val = Address(here)
    BY <1>9, AddressKnown
  <2>3. Behind(v, st, here) = Filled(here, (-Address(here)) % Amount(v, st.exp, Address(here)))
    BY DEF Behind
  <2>4. k = ((-PC(m).val) % a.val)
    BY <1>3, <2>1, PaddingMeans DEF skip
  <2>5. k \in Int
    BY <1>3
  <2> HIDE DEF k
  <2>6. Behind(v, st, here) = Filled(here, k)
    BY <2>1, <2>2, <2>3, <2>4
  <2>7. Filled(here, k) \in Place /\ Stands(seen, here)
    BY <1>2, <1>9, <2>5, FilledType, UnmovedStands
  <2>8. QED
    BY <2>6, <2>7 DEF k
<1>10. CASE a.val # 0 /\ ~(a.unk \/ PC(m).unk) /\ skip = a.val
  <2>2. Shaped(seen, seen)
    BY <1>2, UnmovedSelf DEF Unmoved
  <2>3. ASSUME NEW v \in [Symbols -> Int], NEW here \in Place, Stands(m, here),
               Aimed(v, m, st), ~a.unk => a.val = Amount(v, st.exp, Address(here))
        PROVE  Behind(v, st, here) \in Place /\ Stands(seen, Behind(v, st, here))
    <3>1. Filled(here, 0) = here
      BY DEF Filled
    <3>2. QED
      BY <1>9, <1>10, <2>3, <3>1
  <2>4. Advances(Label(seen, st.lab), m, st)
    BY <1>1, <2>2, <2>3, OriginAdvances DEF a, seen
  <2>5. QED
    BY <1>4, <1>10, <2>4
<1>11. CASE a.val # 0 /\ ~(a.unk \/ PC(m).unk) /\ skip # a.val
  <2>1. Shaped(filled, seen) /\ filled.symtab = seen.symtab
    BY <1>2, <1>3, GenfillShaped DEF filled
  <2>2. ASSUME NEW v \in [Symbols -> Int], NEW here \in Place, Stands(m, here),
               Aimed(v, m, st), filled.Redo = 0, filled.abort = NoError,
               ~a.unk => a.val = Amount(v, st.exp, Address(here))
        PROVE  Behind(v, st, here) \in Place /\ Stands(filled, Behind(v, st, here))
    <3>1. /\ Behind(v, st, here) = Filled(here, skip)
          /\ Behind(v, st, here) \in Place /\ Stands(seen, here)
      BY <1>9, <1>11, <2>2
    <3>2. Stands(filled, Filled(here, skip))
      BY <1>2, <1>3, <2>2, <3>1, GenfillStands DEF filled
    <3>3. QED
      BY <3>1, <3>2
  <2>3. Advances(Label(filled, st.lab), m, st)
    BY <1>1, <2>1, <2>2, OriginAdvances DEF a, seen
  <2>4. QED
    BY <1>4, <1>11, <2>3
<1>12. QED
  BY <1>7, <1>8, <1>10, <1>11

\* EQU changes the entry of its symbol only.
LEMMA AssignUnmoved ==
  ASSUME NEW m \in Machine, NEW l \in Symbols, NEW a \in Operands
  PROVE  LET n == Assign(m, l, a)
         IN  /\ Unmoved(n, m) /\ SameSymbols(n, m, Names(l))
             /\ n.symtab[l].val = a.val /\ n.symtab[l].unk = a.unk
<1> DEFINE n == Assign(m, l, a)
<1>1. /\ n \in Machine /\ n.out = m.out /\ n.Redo = m.Redo /\ n.used = m.used
      /\ \A s \in Symbols \ {l} : n.symtab[s] = m.symtab[s]
      /\ n.symtab[l].val = a.val /\ n.symtab[l].unk = a.unk
  BY AssignType
<1>2. n.Redo >= m.Redo
  BY <1>1 DEF Machine
<1>3. /\ n.pc = m.pc /\ n.ifs = m.ifs /\ n.cs = m.cs /\ n.segs = m.segs /\ n.abort = m.abort
      /\ n.fisclear = m.fisclear
  BY DEF Assign, Machine
<1> HIDE DEF n
<1>4. QED
  BY <1>1, <1>2, <1>3 DEF Unmoved, Shaped, Seg, SameSymbols, Names, n

\* v_equ(): the symbol takes the value of the expression, or asks for a pass.
LEMMA EquAdvances ==
  ASSUME NEW m \in Machine, NEW st \in Statements, st.op = "equ", st.lab \in Symbols
  PROVE  Advances(v_equ(m, st), m, st)
<1> DEFINE a == Value(m, st.exp)
           seen == Eval(m, st.exp)
           old == seen.symtab[st.lab]
           unresolved == Bump(seen, "EQU_NOT_RESOLVED")
           reported == Asmerr(seen, "ERROR_EQU_VALUE_MISMATCH")
           mismatch == Bump(reported, "EQU_VALUE_MISMATCH")
           checked == IF old.unk THEN seen
                      ELSE IF a.unk THEN unresolved
                      ELSE IF old.val # a.val THEN mismatch ELSE seen
           n == Assign(checked, st.lab, a)
<1>1. st.exp \in Expressions
  BY DEF Statements
<1>2. /\ Unmoved(seen, m) /\ SameSymbols(seen, m, Symbols) /\ seen \in Machine
      /\ a \in Operands
  BY <1>1, EvalUnmoved, ValueType DEF Unmoved, Shaped
<1>3. v_equ(m, st) = n
  BY DEF v_equ
<1> HIDE DEF a, seen
<1>4. Unmoved(unresolved, seen) /\ unresolved.symtab = seen.symtab
  BY <1>2, BumpUnmoved DEF ReasonCodes
<1>5. Unmoved(reported, seen) /\ reported.symtab = seen.symtab
  BY <1>2, AsmerrUnmoved DEF ErrorCodes, Warnings
<1>6. Unmoved(mismatch, seen) /\ mismatch.symtab = seen.symtab
  <2>1. reported \in Machine
    BY <1>5 DEF Unmoved, Shaped
  <2> HIDE DEF reported
  <2>2. Unmoved(mismatch, reported) /\ mismatch.symtab = reported.symtab
    BY <2>1, BumpUnmoved DEF ReasonCodes
  <2>3. QED
    BY <1>5, <2>2, UnmovedChain
<1>7. Unmoved(checked, seen) /\ checked.symtab = seen.symtab
  BY <1>2, <1>4, <1>6, UnmovedSelf
<1> HIDE DEF checked
<1>8. checked \in Machine
  BY <1>7 DEF Unmoved, Shaped
<1>9. /\ Unmoved(n, checked) /\ SameSymbols(n, checked, Names(st.lab))
      /\ n.symtab[st.lab].val = a.val /\ n.symtab[st.lab].unk = a.unk
  BY <1>2, <1>8, AssignUnmoved
<1> HIDE DEF n
<1>10. Unmoved(n, seen) /\ Unmoved(n, m) /\ SameSymbols(n, m, Names(st.lab))
  BY <1>2, <1>7, <1>9, UnmovedChain DEF SameSymbols, Names
<1>11. ASSUME NEW v \in [Symbols -> Int], NEW here \in Place, Stands(m, here), Sees(v, n)
       PROVE  Advanced(n, st, v, here)
  <2>1. Sees(v, seen)
    BY <1>10, <1>11, SeesLess DEF Unmoved
  <2>2. ~a.unk => /\ a.val = Amount(v, st.exp, Address(here))
                  /\ st.exp.of \in Symbols => <<st.exp.of, v[st.exp.of]>> \in seen.used
    BY <1>1, <1>11, <2>1, OperandMeans DEF a, seen
  <2>3. Behind(v, st, here) = here
    BY DEF Behind
  <2>4. LabelValue(v, st, here) = Amount(v, st.exp, Address(here))
    BY DEF LabelValue
  <2>5. Stands(n, here)
    BY <1>10, <1>11, UnmovedStands
  <2>6. Reads(st, n.symtab) => <<st.exp.of, v[st.exp.of]>> \in n.used
    BY <1>9, <1>10, <2>2 DEF Reads, Readers, OriginOps, Unmoved, Shaped
  <2>7. QED
    BY <1>9, <2>2, <2>3, <2>4, <2>5, <2>6 DEF Advanced
<1>12. QED
  BY <1>3, <1>10, <1>11, AdvancesIntro DEF Unmoved

-----------------------------------------------------------------------------
(***************************************************************************)
(* A line of a straight source.                                            *)
(***************************************************************************)

\* No symbol has two definitions that could disagree.
LEMMA StraightStable ==
  ASSUME AssemblerInv, Straight
  PROVE  Stable = Symbols
<1>1. prog \in Programs
  BY DEF AssemblerInv
<1>2. \A i \in DOMAIN prog : prog[i].op \in EquOps => prog[i].lab \in Symbols
  BY <1>1, AssemblerAssumption
<1>3. \A i \in DOMAIN prog : prog[i].op # "set"
  BY DEF Straight, StraightOps
<1>4. LabelOf({"set"}) = {}
  BY <1>3 DEF LabelOf
<1>5. LabelOf({"equ"}) \cap LabelOf(Ops \ EquOps) = {}
  <2>1. SUFFICES ASSUME NEW i \in DOMAIN prog, NEW j \in DOMAIN prog, prog[i].op = "equ",
                        prog[j].op \notin EquOps, prog[i].lab = prog[j].lab
                 PROVE  FALSE
    BY DEF LabelOf
  <2>2. prog[i].lab # NoLabel
    BY <1>2, <2>1, AssemblerAssumption DEF EquOps
  <2>3. i = j
    BY <2>1, <2>2 DEF Straight
  <2>4. QED
    BY <2>1, <2>3 DEF EquOps
<1>6. QED
  BY <1>4, <1>5 DEF Stable

\* In a straight source the code is always active.
LEMMA StraightActive ==
  ASSUME Ifstack = BaseIf
  PROVE  Active(Current)
BY DEF Active, Current, BaseIf

\* The machine a line starts from.
LEMMA FetchedFields ==
  ASSUME AssemblerInv
  PROVE  /\ Fetched \in Machine
         /\ Fetched.pc = pc + 1 /\ Fetched.ifs = Ifstack /\ Fetched.cs = Csegment
         /\ Fetched.segs = segs /\ Fetched.fisclear = Fisclear /\ Fetched.out = out
         /\ Fetched.symtab = symtab /\ Fetched.used = used /\ Fetched.Redo = Redo
<1>1. Current \in Machine /\ pc \in Nat \ {0} /\ pc + 1 \in Nat \ {0}
  BY DEF AssemblerInv, Machine, Current
<1>2. Fetched = [Current EXCEPT !.pc = pc + 1]
  BY DEF Fetched, Current
<1>3. QED
  BY <1>1, <1>2 DEF Machine, Current

\* A line of a straight source is done by a handler that advances.
LineDone ==
  /\ phase = "reading" /\ pc <= Len(prog)
  /\ \E m : Good(m) /\ Advances(m, Fetched, Line) /\ Do(m)

\* The handler of a straight line is known.
LEMMA DoneBy ==
  ASSUME NEW op, At(op), NEW m, Good(m), Advances(m, Fetched, Line), Do(m)
  PROVE  LineDone
BY DEF LineDone, At

\* A line of a straight source is done by a handler that advances.
LEMMA StraightStatement ==
  ASSUME AssemblerInv, Straight, Ifstack = BaseIf, Statement
  PROVE  LineDone
<1>1. phase = "reading" /\ pc <= Len(prog)
  BY DEF Statement, Skip, Mnemonic, LabelOnly, Dc, Ds, Org, Rorg, Rend, Align, SegOp, Equ,
         SetOp, DotEquOp, Conditional, Repeat, ErrOp, Include, EndOp, WhenActive, Always, At
<1>2. Good(Fetched) /\ Fetched \in Machine
  BY <1>1, FetchedGood DEF Good
<1>3. Line.op \in StraightOps
  <2>1. prog \in Seq(Statements) /\ pc \in Nat \ {0}
    BY AssemblerAssumption DEF AssemblerInv, Current, Machine
  <2>2. pc \in DOMAIN prog
    BY <1>1, <2>1
  <2>3. QED
    BY <2>2 DEF Straight, Line
<1>4. \A op \in Ops : At(op) => op \in StraightOps
  BY <1>3 DEF At
<1>5. \A op \in Ops : At(op) /\ op # "equ" => Line \in Plain /\ Line.op = op
  <2>1. \A op \in StraightOps : op # "equ" => op \notin EquOps
    BY DEF StraightOps, EquOps
  <2>2. QED
    BY <1>4, <2>1, LineFields
<1>6. ~Skip
  BY StraightActive DEF Skip
<1>7. {"lda", "jmp", "nop", "bne", "label", "dc", "ds", "org", "rorg", "rend", "align",
       "equ"} \subseteq Ops
  BY DEF Ops, EquOps
<1>8. CASE WhenActive("lda", MnemonicMem(Fetched, Line))
  BY <1>2, <1>5, <1>7, <1>8, MnemonicMemGood, MnemonicMemAdvances, DoneBy DEF WhenActive
<1>9. CASE WhenActive("jmp", MnemonicWord(Fetched, Line))
  BY <1>2, <1>5, <1>7, <1>9, MnemonicWordGood, MnemonicWordAdvances, DoneBy DEF WhenActive
<1>10. CASE WhenActive("nop", MnemonicImplied(Fetched, Line))
  BY <1>2, <1>5, <1>7, <1>10, MnemonicImpliedGood, MnemonicImpliedAdvances, DoneBy
     DEF WhenActive
<1>11. CASE WhenActive("bne", MnemonicRel(Fetched, Line))
  BY <1>2, <1>5, <1>7, <1>11, MnemonicRelGood, MnemonicRelAdvances, DoneBy DEF WhenActive
<1>12. CASE LabelOnly
  <2>1. At("label") /\ Line \in Plain /\ Line.op = "label" /\ Do(Label(Fetched, Line.lab))
    BY <1>5, <1>7, <1>12 DEF LabelOnly, WhenActive
  <2>2. Good(Label(Fetched, Line.lab))
    BY <1>2, <2>1, LabelGood, PlainFields
  <2>3. QED
    BY <1>2, <2>1, <2>2, LabelOnlyAdvances, DoneBy
<1>13. CASE Dc
  BY <1>2, <1>5, <1>7, <1>13, DcGood, DcAdvances, DoneBy DEF Dc, WhenActive
<1>14. CASE Ds
  BY <1>2, <1>5, <1>7, <1>14, DsGood, DsAdvances, DoneBy DEF Ds, WhenActive
<1>15. CASE Org
  BY <1>2, <1>5, <1>7, <1>15, OrgGood, OrgAdvances, DoneBy DEF Org, WhenActive
<1>16. CASE Rorg
  BY <1>2, <1>5, <1>7, <1>16, RorgGood, RorgAdvances, DoneBy DEF Rorg, WhenActive
<1>17. CASE Rend
  BY <1>2, <1>5, <1>7, <1>17, RendGood, RendAdvances, DoneBy DEF Rend, WhenActive
<1>18. CASE Align
  BY <1>2, <1>5, <1>7, <1>18, AlignGood, AlignAdvances, DoneBy DEF Align, WhenActive
<1>19. CASE Equ
  <2>1. At("equ") /\ Do(v_equ(Fetched, Line))
    BY <1>19 DEF Equ, WhenActive
  <2>2. Line \in Statements /\ Line.op = "equ" /\ Line.lab \in Symbols /\ Line.lab \in EquSymbols
    BY <1>7, <2>1, LineFields DEF EquOps
  <2>3. QED
    BY <1>2, <2>1, <2>2, EquGood, EquAdvances, DoneBy
\* What a straight source does not have.
<1>20. /\ ~WhenActive("illegal", MnemonicIllegal(Fetched, Line))
       /\ ~WhenActive("unknown", Asmerr(Fetched, "ERROR_UNKNOWN_MNEMONIC"))
       /\ ~WhenActive("br", generate_branch(Fetched, Line))
       /\ ~SegOp /\ ~SetOp /\ ~DotEquOp /\ ~Conditional /\ ~Repeat /\ ~ErrOp /\ ~Include
       /\ ~EndOp
  <2>1. \A op : At(op) => op \in StraightOps
    BY <1>3 DEF At
  <2>2. QED
    BY <2>1 DEF StraightOps, WhenActive, Always, SegOp, SetOp, DotEquOp, Conditional, Repeat,
               ErrOp, Include, EndOp
<1>21. QED
  BY <1>6, <1>8, <1>9, <1>10, <1>11, <1>12, <1>13, <1>14, <1>15, <1>16, <1>17, <1>18, <1>19,
     <1>20 DEF Statement, Mnemonic

-----------------------------------------------------------------------------
(***************************************************************************)
(* The layout of the lines so far, and one line more.                      *)
(***************************************************************************)

\* A line that reads nothing the two assignments disagree about has the same effect.
LEMMA BehindSame ==
  ASSUME NEW st \in Statements, NEW v, NEW w, NEW here,
         st.exp.of \in Symbols /\ st.op \in Readers => v[st.exp.of] = w[st.exp.of]
  PROVE  Behind(v, st, here) = Behind(w, st, here)
<1>1. st.exp \in Expressions
  BY DEF Statements
<1>2. st.op \in Readers => Amount(v, st.exp, Address(here)) = Amount(w, st.exp, Address(here))
  BY <1>1 DEF Expressions, Amount
<1>3. CASE st.op \in Readers
  BY <1>2, <1>3 DEF Behind
<1>4. CASE st.op \notin Readers
  BY <1>4 DEF Behind, Readers, OriginOps
<1>5. QED
  BY <1>3, <1>4

\* Nor does it matter to what a line gives its label.
LEMMA LabelValueSame ==
  ASSUME NEW st \in Statements, NEW v, NEW w, NEW here,
         st.exp.of \in Symbols /\ st.op \in Readers \cup {"equ"} => v[st.exp.of] = w[st.exp.of]
  PROVE  LabelValue(v, st, here) = LabelValue(w, st, here)
<1>1. st.exp \in Expressions
  BY DEF Statements
<1>2. st.op = "equ" => Amount(v, st.exp, Address(here)) = Amount(w, st.exp, Address(here))
  BY <1>1 DEF Expressions, Amount
<1>3. Behind(v, st, here) = Behind(w, st, here)
  BY BehindSame
<1>4. QED
  BY <1>2, <1>3 DEF LabelValue

\* The step of a handler that returns, for the part of the state the layout is about.
Stepped(m) ==
  /\ prog' = prog /\ pc' = m.pc /\ symtab' = m.symtab /\ segs' = m.segs /\ Csegment' = m.cs
  /\ Ifstack' = m.ifs /\ Fisclear' = m.fisclear /\ out' = m.out /\ used' = m.used
  /\ Redo' = m.Redo /\ phase' = phase /\ nError' = nError

\* A handler that returns makes its machine the next state.
LEMMA BecomeStepped ==
  ASSUME NEW m, Become(m)
  PROVE  Stepped(m)
BY DEF Become, Stepped, loop

\* When the line pc leaves Redo at 0, the lines before it keep their labels and operands.
LEMMA OldLines ==
  ASSUME AssemblerInv, Straight, NEW k \in Nat, pc = k + 1, pc <= Len(prog),
         NEW m, Good(m), Advances(m, Fetched, Line), m.Redo = 0, Stepped(m),
         Noted(k), NEW i \in 1 .. k
  PROVE  /\ prog[i] \in Statements
         /\ prog[i].lab # NoLabel => /\ Values'[prog[i].lab] = Values[prog[i].lab]
                                     /\ symtab'[prog[i].lab].unk = symtab[prog[i].lab].unk
         /\ Reads(prog[i], symtab)' <=> Reads(prog[i], symtab)
         /\ Reads(prog[i], symtab) =>
              /\ Values'[prog[i].exp.of] = Values[prog[i].exp.of]
              /\ <<prog[i].exp.of, symtab'[prog[i].exp.of].val>> \in used'
<1>1. prog \in Seq(Statements)
  BY AssemblerAssumption DEF AssemblerInv
<1>2. i \in DOMAIN prog /\ pc \in DOMAIN prog /\ i # pc
  BY <1>1
<1>3. prog[i] \in Statements /\ Line \in Statements
  BY <1>1, <1>2 DEF Line
<1>4. prog[i].lab # NoLabel => prog[i].lab \in Symbols /\ prog[i].lab \in Names(Line.lab)
  <2>1. prog[i].lab # NoLabel => prog[i].lab # Line.lab
    BY <1>2 DEF Straight, Line
  <2>2. prog[i].lab \in Symbols \cup {NoLabel}
    BY <1>3 DEF Statements
  <2>3. QED
    BY <2>1, <2>2 DEF Names
<1>5. SameSymbols(m, Fetched, Names(Line.lab)) /\ Fetched.symtab = symtab
      /\ Fetched.used = used /\ used \subseteq m.used
  BY FetchedFields DEF Advances, Shaped
<1>6. symtab' = m.symtab /\ used' = m.used /\ prog' = prog
  BY DEF Stepped
<1>7. prog[i].lab # NoLabel => /\ symtab'[prog[i].lab].val = symtab[prog[i].lab].val
                               /\ symtab'[prog[i].lab].unk = symtab[prog[i].lab].unk
  BY <1>4, <1>5, <1>6 DEF SameSymbols
<1>8. prog[i].lab # NoLabel => /\ Values'[prog[i].lab] = symtab'[prog[i].lab].val
                               /\ Values[prog[i].lab] = symtab[prog[i].lab].val
  BY <1>4 DEF Values
<1>9. prog[i].op = "equ" => prog[i].lab # NoLabel
  <2>1. prog \in Programs
    BY DEF AssemblerInv
  <2>2. QED
    BY <1>2, <2>1, AssemblerAssumption DEF EquOps
<1>10. Reads(prog[i], symtab)' <=> Reads(prog[i], symtab)
  BY <1>6, <1>7, <1>9 DEF Reads
<1>11. ASSUME Reads(prog[i], symtab)
       PROVE  symtab'[prog[i].exp.of].val = symtab[prog[i].exp.of].val
              /\ <<prog[i].exp.of, symtab[prog[i].exp.of].val>> \in used'
              /\ prog[i].exp.of \in Symbols
  <2> DEFINE s == prog[i].exp.of
             u == <<s, symtab[s].val>>
  <2>1. u \in m.used /\ s \in Symbols
    BY <1>5, <1>11 DEF Noted, Reads
  <2>2. Remembers(m.symtab, u)
    BY <2>1 DEF Good, Consistent
  <2>3. u[1] = s /\ u[2] = symtab[s].val
    OBVIOUS
  <2> HIDE DEF s, u
  <2>4. m.symtab[s].val = symtab[s].val
    BY <2>1, <2>2, <2>3, StraightStable DEF Remembers
  <2>5. QED
    BY <1>6, <2>1, <2>4 DEF s, u
<1>12. Reads(prog[i], symtab) => /\ Values'[prog[i].exp.of] = symtab'[prog[i].exp.of].val
                                 /\ Values[prog[i].exp.of] = symtab[prog[i].exp.of].val
  BY <1>11 DEF Values
<1>13. QED
  BY <1>3, <1>7, <1>8, <1>10, <1>11, <1>12

\* What the layout says of an origin holds when the line is done.
LEMMA LineAimed ==
  ASSUME AssemblerInv, Straight, NEW n \in Nat, n = pc, pc <= Len(prog),
         NEW m, Good(m), Advances(m, Fetched, Line), Stepped(m), OriginsSettled(n)'
  PROVE  Aimed(Values', Fetched, Line)
<1>1. prog \in Seq(Statements) /\ pc \in Nat \ {0} /\ Fetched \in Machine
  BY AssemblerAssumption, FetchedFields DEF AssemblerInv, Current, Machine
<1>2. pc \in DOMAIN prog /\ n \in 1 .. n
  BY <1>1
<1>3. Line \in Statements /\ prog'[n] = Line /\ prog' = prog
  BY <1>1, <1>2 DEF Line, Stepped
<1>4. SUFFICES ASSUME Line.op \in OriginOps
               PROVE  /\ Value(Fetched, Line.exp).unk => Line.op = "org" /\ Line.exp.of = Dot
                      /\ Line.op = "align" => /\ Line.exp.of # Dot
                                              /\ Amount(Values', Line.exp, 0) > 0
  BY DEF Aimed
<1>5. Settled(n)'
  BY <1>2, <1>3, <1>4 DEF OriginsSettled
<1>6. /\ Line.exp.of \in Symbols => /\ ~symtab'[Line.exp.of].unk
                                    /\ \A j \in DOMAIN prog : prog[j].lab = Line.exp.of => j < n
      /\ Line.exp.of = Dot => Line.op = "org"
      /\ Line.op = "align" => Amount(Values', Line.exp, 0) > 0
  BY <1>3, <1>5 DEF Settled
<1>7. Line.exp.of \in Symbols => Line.exp.of \in Names(Line.lab)
  <2>1. SUFFICES ASSUME Line.exp.of \in Symbols, Line.lab = Line.exp.of
                 PROVE  FALSE
    BY DEF Names
  <2>2. n < n
    BY <1>2, <1>6, <2>1 DEF Line
  <2>3. QED
    BY <2>2
<1>8. SameSymbols(m, Fetched, Names(Line.lab)) /\ symtab' = m.symtab
  BY DEF Advances, Stepped
<1>9. Line.exp.of \in Symbols => ~Fetched.symtab[Line.exp.of].unk
  BY <1>6, <1>7, <1>8 DEF SameSymbols
<1>10. Line.exp \in Expressions
  BY <1>3 DEF Statements
<1>11. Value(Fetched, Line.exp).unk = Operand(Fetched, Line.exp).unk
  BY DEF Value
<1>12. Value(Fetched, Line.exp).unk => Line.exp.of = Dot
  BY <1>9, <1>10, <1>11 DEF Operand, Expressions
<1>13. QED
  BY <1>6, <1>12 DEF Dot

\* A line that leaves Redo at 0 carries the layout on.
LEMMA FollowsOn ==
  ASSUME AssemblerInv, Straight, NEW k \in Nat, NEW n \in Nat, n = k + 1, pc = n, n <= Len(prog),
         NEW m, Good(m), Advances(m, Fetched, Line), m.Redo = 0, m.abort = NoError, Stepped(m),
         Follows(k), OriginsSettled(n)'
  PROVE  Follows(n)'
<1>1. prog \in Seq(Statements) /\ m \in Machine /\ Fetched \in Machine
  BY AssemblerAssumption, FetchedFields DEF AssemblerInv, Good
<1>2. /\ prog' = prog /\ symtab' = m.symtab /\ segs' = m.segs /\ Csegment' = m.cs
      /\ Fisclear' = m.fisclear /\ out' = m.out /\ used' = m.used
  BY DEF Stepped
<1>3. n \in DOMAIN prog /\ Line = prog[n]
  BY <1>1 DEF Line
<1>4. PICK P : Laid(P, k) /\ Named(P, k) /\ Noted(k) /\ Stands(Current, P[k])
  BY DEF Follows
<1>a. PICK v : v = Values'
  OBVIOUS
<1>b. PICK there : there = Behind(v, Line, P[k])
  OBVIOUS
<1>c. PICK Q : Q = [i \in 0 .. n |-> IF i = n THEN there ELSE P[i]]
  OBVIOUS
<1>5. P \in [0 .. k -> Place] /\ P[0] = Start /\ P[k] \in Place
  BY <1>4 DEF Laid
<1>6. v \in [Symbols -> Int]
  <2>1. m.symtab \in [Symbols -> SymbolEntry]
    BY <1>1 DEF Machine
  <2>2. \A s \in Symbols : m.symtab[s].val \in Int
    BY <2>1 DEF SymbolEntry
  <2>3. QED
    BY <1>2, <1>a, <2>2 DEF Values
<1>7. \A s \in Symbols : v[s] = m.symtab[s].val
  BY <1>2, <1>a DEF Values
<1>8. Sees(v, m)
  <2>1. SUFFICES ASSUME NEW u \in m.used
                 PROVE  v[u[1]] = u[2]
    BY DEF Sees
  <2>2. u[1] \in Symbols
    BY <1>1 DEF Machine
  <2>3. m.symtab[u[1]].val = u[2]
    BY <2>2, StraightStable DEF Good, Consistent, Remembers
  <2>4. QED
    BY <1>7, <2>2, <2>3
<1>9. Stands(Fetched, P[k])
  <2>1. /\ Fetched.segs = Current.segs /\ Fetched.cs = Current.cs /\ Fetched.out = Current.out
        /\ Fetched.fisclear = Current.fisclear
    BY FetchedFields DEF Current
  <2>2. QED
    BY <1>4, <2>1 DEF Stands, Seg
<1>10. Aimed(v, Fetched, Line)
  BY <1>a, LineAimed
<1>11. Advanced(m, Line, v, P[k])
  BY <1>5, <1>6, <1>8, <1>9, <1>10 DEF Advances
<1>12. there \in Place /\ Stands(m, there)
  BY <1>11, <1>b DEF Advanced
<1>13. /\ 0 \in 0 .. k /\ 0 # n /\ n \in 0 .. n /\ n - 1 = k /\ k # n
       /\ \A i \in 0 .. n : i # n => i \in 0 .. k
       /\ \A i \in 0 .. k : i # n /\ i \in 0 .. n
       /\ \A i \in 1 .. n : i # n => i \in 1 .. k
       /\ \A i \in 1 .. k : i - 1 \in 0 .. k /\ i \in 0 .. k
  OBVIOUS
<1>14. /\ Q \in [0 .. n -> Place] /\ Q[n] = there
       /\ \A i \in 0 .. k : Q[i] = P[i]
  BY <1>5, <1>12, <1>13, <1>c
<1>15. \A i \in 1 .. k : /\ Q[i] = P[i] /\ Q[i - 1] = P[i - 1]
                         /\ P[i - 1] \in Place
  BY <1>5, <1>13, <1>14
<1>16. \A i \in 1 .. k :
         /\ prog[i] \in Statements
         /\ prog[i].lab # NoLabel => /\ v[prog[i].lab] = Values[prog[i].lab]
                                     /\ symtab'[prog[i].lab].unk = symtab[prog[i].lab].unk
         /\ Reads(prog[i], symtab)' <=> Reads(prog[i], symtab)
         /\ Reads(prog[i], symtab) =>
              /\ v[prog[i].exp.of] = Values[prog[i].exp.of]
              /\ <<prog[i].exp.of, symtab'[prog[i].exp.of].val>> \in used'
  BY <1>4, <1>a, OldLines
<1>17. Laid(Q, n)'
  <2>1. ASSUME NEW i \in 1 .. n
        PROVE  Q[i] = Behind(v, prog[i], Q[i - 1])
    <3>1. CASE i = n
      BY <1>3, <1>13, <1>14, <1>b, <3>1
    <3>2. CASE i # n
      <4>1. i \in 1 .. k
        BY <1>13, <2>1, <3>2
      <4>2. P[i] = Behind(Values, prog[i], P[i - 1])
        BY <1>4, <4>1 DEF Laid
      <4>3. Behind(v, prog[i], P[i - 1]) = Behind(Values, prog[i], P[i - 1])
        <5> DEFINE st == prog[i]
                   here == P[i - 1]
                   w == Values
        <5>1. /\ st \in Statements
              /\ st.exp.of \in Symbols /\ st.op \in Readers => v[st.exp.of] = w[st.exp.of]
          BY <1>16, <4>1 DEF Reads
        <5> HIDE DEF st, here, w
        <5>2. Behind(v, st, here) = Behind(w, st, here)
          BY <5>1, BehindSame
        <5>3. QED
          BY <5>2 DEF st, here, w
      <4>4. QED
        BY <1>15, <4>1, <4>2, <4>3
    <3>3. QED
      BY <3>1, <3>2
  <2>2. Q[0] = Start
    BY <1>5, <1>13, <1>14
  <2>3. QED
    BY <1>2, <1>14, <1>a, <2>1, <2>2 DEF Laid
<1>18. Named(Q, n)'
  <2>1. ASSUME NEW i \in 1 .. n, prog[i].lab # NoLabel, ~symtab'[prog[i].lab].unk
        PROVE  v[prog[i].lab] = LabelValue(v, prog[i], Q[i - 1])
    <3>1. CASE i = n
      <4>1. Line.lab \in Symbols
        <5>1. Line \in Statements
          BY <1>1, <1>3
        <5>2. Line.lab # NoLabel
          BY <1>3, <2>1, <3>1
        <5>3. QED
          BY <5>1, <5>2 DEF Statements
      <4>2. m.symtab[Line.lab].val = LabelValue(v, Line, P[k])
        BY <1>2, <1>3, <1>11, <2>1, <3>1 DEF Advanced
      <4>3. QED
        BY <1>3, <1>7, <1>13, <1>14, <3>1, <4>1, <4>2
    <3>2. CASE i # n
      <4>1. i \in 1 .. k
        BY <1>13, <2>1, <3>2
      <4>2. Values[prog[i].lab] = LabelValue(Values, prog[i], P[i - 1])
        BY <1>4, <1>16, <2>1, <4>1 DEF Named
      <4>3. LabelValue(v, prog[i], P[i - 1]) = LabelValue(Values, prog[i], P[i - 1])
        <5> DEFINE st == prog[i]
                   here == P[i - 1]
                   w == Values
        <5>1. st.exp.of \in Symbols /\ st.op \in Readers \cup {"equ"} => Reads(st, symtab)
          BY <1>16, <2>1, <4>1 DEF Reads
        <5>2. st \in Statements /\ (Reads(st, symtab) => v[st.exp.of] = w[st.exp.of])
          BY <1>16, <4>1
        <5> HIDE DEF st, here, w
        <5>3. LabelValue(v, st, here) = LabelValue(w, st, here)
          BY <5>1, <5>2, LabelValueSame
        <5>4. QED
          BY <5>3 DEF st, here, w
      <4>4. QED
        BY <1>15, <1>16, <2>1, <4>1, <4>2, <4>3
    <3>3. QED
      BY <3>1, <3>2
  <2>2. QED
    BY <1>2, <1>a, <2>1 DEF Named
<1>19. Noted(n)'
  <2>1. ASSUME NEW i \in 1 .. n, Reads(prog[i], symtab)'
        PROVE  <<prog[i].exp.of, symtab'[prog[i].exp.of].val>> \in used'
    <3>1. CASE i = n
      <4>1. Reads(Line, m.symtab)
        BY <1>2, <1>3, <2>1, <3>1 DEF Reads
      <4>2. <<Line.exp.of, v[Line.exp.of]>> \in m.used /\ Line.exp.of \in Symbols
        BY <1>11, <4>1 DEF Advanced, Reads
      <4>3. v[Line.exp.of] = symtab'[Line.exp.of].val
        BY <1>2, <1>7, <4>2
      <4>4. QED
        BY <1>2, <1>3, <3>1, <4>2, <4>3
    <3>2. CASE i # n
      BY <1>13, <1>16, <2>1, <3>2
    <3>3. QED
      BY <3>1, <3>2
  <2>2. QED
    BY <1>2, <2>1 DEF Noted, Reads
<1>20. Stands(Current, Q[n])'
  <2>1. /\ Current'.segs = m.segs /\ Current'.cs = m.cs /\ Current'.out = m.out
        /\ Current'.fisclear = m.fisclear
    BY <1>2 DEF Current
  <2>2. QED
    BY <1>12, <1>14, <2>1 DEF Stands, Seg
<1>21. QED
  BY <1>17, <1>18, <1>19, <1>20 DEF Follows

-----------------------------------------------------------------------------
(***************************************************************************)
(* The invariant.                                                          *)
(***************************************************************************)

\* What the layout is about stays the same between the passes' ends.
LayoutKept ==
  /\ prog' = prog /\ symtab' = symtab /\ segs' = segs /\ Csegment' = Csegment
  /\ Fisclear' = Fisclear /\ out' = out /\ used' = used /\ pc' = pc

\* Whoever follows the layout still does when nothing moves.
LEMMA FollowsSame ==
  ASSUME LayoutKept, NEW n
  PROVE  (Follows(n)' <=> Follows(n)) /\ (OriginsSettled(n)' <=> OriginsSettled(n))
<1>1. prog' = prog /\ symtab' = symtab /\ used' = used /\ Values' = Values
  BY DEF LayoutKept, Values
<1>2. \A p : Stands(Current, p)' <=> Stands(Current, p)
  BY DEF LayoutKept, Stands, Seg, Current
<1>3. \A P : Laid(P, n)' <=> Laid(P, n)
  BY <1>1 DEF Laid
<1>4. \A P : Named(P, n)' <=> Named(P, n)
  BY <1>1 DEF Named
<1>5. Noted(n)' <=> Noted(n)
  BY <1>1 DEF Noted, Reads
<1>6. Follows(n)' <=> Follows(n)
  BY <1>2, <1>3, <1>4, <1>5 DEF Follows
<1>7. \A i : Settled(i)' <=> Settled(i)
  BY <1>1 DEF Settled
<1>8. OriginsSettled(n)' <=> OriginsSettled(n)
  BY <1>1, <1>7 DEF OriginsSettled
<1>9. QED
  BY <1>6, <1>8

\* Nothing is decided before the last pass is over.
LEMMA NotDecided ==
  ASSUME AssemblerInv, phase \in {"opening", "reading", "passdone"}
  PROVE  nError \notin Decided /\ nError = Driver!Running
BY DEF AssemblerInv, PassInv, Decided, Driver!Running, Driver!Success, Driver!NonAbort

\* The invariant after a step, for a straight source.
LEMMA LayoutAfter ==
  ASSUME LayoutInv, prog' = prog,
         ASSUME Straight, LayoutShape, LayoutPhases, Following
         PROVE  LayoutShape' /\ LayoutPhases' /\ Following'
  PROVE  LayoutInv'
<1>1. Straight' <=> Straight
  BY DEF Straight
<1>2. QED
  BY <1>1 DEF LayoutInv

\* Before the first pass there is nothing to follow.
LEMMA LayoutInit ==
  ASSUME Init, AssemblerInv
  PROVE  LayoutInv
<1>1. phase = "opening" /\ nError \notin Decided
  BY NotDecided DEF Init, Driver!DriverInit
<1>2. /\ InitialSegment \in Segments
      /\ segs[InitialSegment] = [NewSegment EXCEPT !.made = (InitialSegment = InitialSegment)]
  BY AssemblerAssumption DEF Init
<1>3. /\ segs[InitialSegment].unk /\ ~segs[InitialSegment].inRorg /\ ~segs[InitialSegment].bss
  BY <1>2 DEF NewSegment
<1>4. pc = 1 /\ Len(prog) \in Nat
  <2>1. prog \in Seq(Statements)
    BY AssemblerAssumption DEF AssemblerInv
  <2>2. QED
    BY <2>1 DEF Init
<1>5. LayoutShape
  BY <1>3, <1>4 DEF LayoutShape, Init
<1>6. QED
  BY <1>1, <1>3, <1>5 DEF LayoutInv, LayoutPhases, Following

\* The place before the first line.
LEMMA LayoutOpenPass ==
  ASSUME AssemblerInv, LayoutInv, OpenPass, AssemblerInv'
  PROVE  LayoutInv'
<1>1. /\ phase = "opening" /\ phase' = "reading" /\ prog' = prog
      /\ pc' = 1 /\ Fisclear' = TRUE /\ out' = <<>> /\ used' = {}
      /\ segs' = segs /\ Csegment' = Csegment /\ Ifstack' = Ifstack
  BY DEF OpenPass, Driver!OpenPass
<1>2. SUFFICES ASSUME Straight, LayoutShape, LayoutPhases, Following
               PROVE  LayoutShape' /\ LayoutPhases' /\ Following'
  BY <1>1, LayoutAfter
<1>3. LayoutShape /\ LayoutPhases
  BY <1>2
<1>4. prog \in Seq(Statements) /\ Len(prog) \in Nat
  BY AssemblerAssumption DEF AssemblerInv
<1>5. LayoutShape'
  BY <1>1, <1>3, <1>4 DEF LayoutShape
<1>6. LayoutPhases'
  <2>1. nError' \notin Decided'
    BY <1>1, NotDecided DEF OpenPass, Driver!OpenPass, Decided, Driver!Success, Driver!NonAbort
  <2>2. QED
    BY <1>1, <2>1 DEF LayoutPhases
<1>7. ASSUME NEW n \in Nat, pc' = n + 1
      PROVE  Follows(n)'
  <2>1. n = 0
    BY <1>1, <1>7
  <2>2. PICK P : P = [i \in 0 .. 0 |-> Start]
    OBVIOUS
  <2>3. Start \in Place
    BY DEF Start, Place
  <2>4. P \in [0 .. 0 -> Place] /\ P[0] = Start
    BY <2>2, <2>3
  <2>5. Laid(P, 0)'
    BY <2>4 DEF Laid
  <2>6. Named(P, 0)' /\ Noted(0)'
    BY DEF Named, Noted
  <2>7. /\ segs'[Csegment'].unk /\ ~segs'[Csegment'].inRorg /\ ~segs'[Csegment'].bss
    BY <1>1, <1>3 DEF LayoutShape, LayoutPhases
  <2>8. Stands(Current, P[0])'
    <3>1. /\ Current'.segs = segs' /\ Current'.cs = Csegment' /\ Current'.out = <<>>
          /\ Current'.fisclear = TRUE
      BY <1>1 DEF Current
    <3>2. Seg(Current)' = segs'[Csegment']
      BY DEF Current, Seg
    <3>3. Seg(Current)' \in SegmentEntry
      BY PCType DEF AssemblerInv
    <3>4. Seg(Current)'.inRorg = FALSE
      BY <2>7, <3>2, <3>3 DEF SegmentEntry
    <3>5. P[0].moved = FALSE /\ P[0].image = <<>>
      BY <2>4 DEF Start
    <3>6. QED
      BY <2>7, <3>1, <3>2, <3>4, <3>5 DEF Stands
  <2>9. QED
    BY <2>1, <2>5, <2>6, <2>8 DEF Follows
<1>8. QED
  BY <1>5, <1>6, <1>7 DEF Following

\* What was settled for an earlier line after the line pc was settled before it: that line
\* does not define the symbol.
LEMMA SettledBefore ==
  ASSUME AssemblerInv, Straight, NEW k \in Nat, pc = k + 1, pc <= Len(prog),
         NEW m, Advances(m, Fetched, Line), Stepped(m),
         NEW i \in 1 .. k, Settled(i)'
  PROVE  Settled(i)
<1>1. prog \in Seq(Statements)
  BY AssemblerAssumption DEF AssemblerInv
<1>2. i \in DOMAIN prog /\ pc \in DOMAIN prog /\ ~(pc < i)
  BY <1>1
<1>3. prog' = prog /\ symtab' = m.symtab /\ Fetched.symtab = symtab
  BY FetchedFields DEF Stepped
<1>4. prog[i].exp \in Expressions
  <2>1. prog[i] \in Statements
    BY <1>1, <1>2
  <2>2. QED
    BY <2>1 DEF Statements
<1>5. PICK x : x = prog[i].exp
  OBVIOUS
<1>6. PICK v : v = Values'
  OBVIOUS
<1>7. /\ x.of \in Symbols => /\ ~symtab'[x.of].unk
                             /\ \A j \in DOMAIN prog : prog[j].lab = x.of => j < i
      /\ x.of = Dot => prog[i].op = "org"
      /\ prog[i].op = "align" => Amount(v, x, 0) > 0
  BY <1>3, <1>5, <1>6 DEF Settled
<1>8. ASSUME x.of \in Symbols
      PROVE  symtab'[x.of].unk = symtab[x.of].unk /\ v[x.of] = Values[x.of]
  <2>1. x.of # Line.lab
    BY <1>2, <1>7, <1>8 DEF Line
  <2>2. x.of \in Names(Line.lab)
    BY <1>8, <2>1 DEF Names
  <2>3. /\ symtab'[x.of].val = symtab[x.of].val
        /\ symtab'[x.of].unk = symtab[x.of].unk
    BY <1>3, <2>2 DEF Advances, SameSymbols
  <2>4. QED
    BY <1>6, <1>8, <2>3 DEF Values
<1>9. Amount(v, x, 0) = Amount(Values, x, 0)
  BY <1>4, <1>5, <1>8 DEF Amount, Expressions
<1>10. QED
  BY <1>5, <1>7, <1>8, <1>9 DEF Settled

\* The line pc done.
LEMMA LayoutLine ==
  ASSUME AssemblerInv, AssemblerInv', LayoutInv, Statement
  PROVE  LayoutInv'
<1>1. prog' = prog
  <2>1. phase = "reading" /\ \E m : Good(m) /\ Do(m)
    BY StatementGood DEF GoodStep
  <2>2. QED
    BY <2>1 DEF Do, Become, Stop
<1>2. SUFFICES ASSUME Straight, LayoutShape, LayoutPhases, Following
               PROVE  LayoutShape' /\ LayoutPhases' /\ Following'
  BY <1>1, LayoutAfter
<1>3. LineDone
  BY <1>2, StraightStatement DEF LayoutShape
<1>4. PICK m : Good(m) /\ Advances(m, Fetched, Line) /\ Do(m)
  BY <1>3 DEF LineDone
<1>5. phase = "reading" /\ pc <= Len(prog) /\ nError \notin Decided /\ pc \in Nat \ {0}
      /\ Len(prog) \in Nat
  <2>1. prog \in Seq(Statements)
    BY AssemblerAssumption DEF AssemblerInv
  <2>2. QED
    BY <1>3, <2>1, NotDecided, SMTT(30) DEF LineDone, AssemblerInv, Current, Machine
<1>6. CASE m.abort = NoError
  <2>1. Stepped(m)
    BY <1>4, <1>6, BecomeStepped DEF Do
  <2>2. /\ pc' = m.pc /\ Ifstack' = m.ifs /\ Csegment' = m.cs /\ segs' = m.segs
        /\ phase' = phase /\ nError' = nError /\ Redo' = m.Redo
    BY <2>1 DEF Stepped
  <2>3. /\ m.pc = pc + 1 /\ m.ifs = Ifstack /\ m.cs = Csegment
        /\ Seg(m).bss = segs[Csegment].bss
    BY <1>4, FetchedFields DEF Advances, Shaped, Seg
  <2>4. LayoutShape'
    BY <1>1, <1>2, <1>5, <2>2, <2>3 DEF LayoutShape, Seg
  <2>5. nError' \notin Decided'
    BY <1>5, <2>2 DEF Decided, Driver!Success, Driver!NonAbort
  <2>6. LayoutPhases'
    BY <1>5, <2>2, <2>5 DEF LayoutPhases
  <2>7. ASSUME NEW n \in Nat, pc' = n + 1, Redo' = 0, OriginsSettled(n)'
        PROVE  Follows(n)'
    <3>1. n = pc /\ pc - 1 \in Nat /\ n = (pc - 1) + 1
      BY <1>5, <2>2, <2>3, <2>7
    <3>2. PICK k \in Nat : k = pc - 1
      BY <3>1
    <3>3. n = k + 1 /\ pc = k + 1 /\ pc = n
      BY <3>1, <3>2
    <3>4. m.Redo = 0 /\ Redo = 0
      BY <1>4, <2>2, <2>7 DEF Good, Harmless
    <3>5. OriginsSettled(k)
      <4>1. SUFFICES ASSUME NEW i \in 1 .. k, prog[i].op \in OriginOps
                     PROVE  Settled(i)
        BY DEF OriginsSettled
      <4>2. i \in 1 .. n
        BY <3>3, <4>1
      <4>3. Settled(i)'
        BY <1>1, <2>7, <4>1, <4>2 DEF OriginsSettled
      <4>4. QED
        BY <1>2, <1>4, <1>5, <2>1, <3>3, <4>1, <4>3, SettledBefore
    <3>6. Follows(k)
      BY <1>2, <1>5, <3>3, <3>4, <3>5 DEF Following
    <3>7. QED
      BY <1>2, <1>4, <1>5, <1>6, <2>1, <2>7, <3>3, <3>4, <3>6, FollowsOn
  <2>8. QED
    BY <2>4, <2>6, <2>7 DEF Following
<1>7. CASE m.abort # NoError
  <2>1. /\ pc' = pc /\ Ifstack' = Ifstack /\ Csegment' = Csegment /\ segs' = segs
        /\ phase' = "exited" /\ nError' = m.abort
    BY <1>4, <1>7 DEF Do, Stop, Driver!AbortWith, machine
  <2>2. m.abort \in ErrorCodes
    BY <1>4, <1>7 DEF Good, Machine
  <2>3. nError' \notin Decided'
    BY <2>1, <2>2 DEF ErrorCodes, Warnings, FatalCodes, Decided, Driver!Success, Driver!NonAbort
  <2>4. LayoutShape'
    BY <1>1, <1>2, <2>1 DEF LayoutShape
  <2>5. QED
    BY <2>1, <2>3, <2>4 DEF LayoutPhases, Following
<1>8. QED
  BY <1>6, <1>7

\* The last line done: nothing moves.
LEMMA LayoutEndOfSource ==
  ASSUME AssemblerInv, LayoutInv, EndOfSource
  PROVE  LayoutInv'
<1>1. /\ phase = "reading" /\ phase' = "passdone" /\ pc > Len(prog)
      /\ LayoutKept /\ Redo' = Redo /\ nError' = nError /\ Ifstack' = BaseIf
  BY DEF EndOfSource, Driver!EndOfSource, Driver!counters, LayoutKept
<1>2. SUFFICES ASSUME Straight, LayoutShape, LayoutPhases, Following
               PROVE  LayoutShape' /\ LayoutPhases' /\ Following'
  BY <1>1, LayoutAfter DEF LayoutKept
<1>3. pc = Len(prog) + 1
  <2>1. prog \in Seq(Statements) /\ pc \in Nat
    BY AssemblerAssumption DEF AssemblerInv, Current, Machine
  <2>2. QED
    BY <1>1, <1>2, <2>1 DEF LayoutShape
<1>4. LayoutShape'
  BY <1>1, <1>2 DEF LayoutShape, LayoutKept
<1>5. LayoutPhases'
  BY <1>1, <1>3 DEF LayoutPhases, LayoutKept
<1>6. Following'
  BY <1>1, <1>2, FollowsSame DEF Following, LayoutKept
<1>7. QED
  BY <1>4, <1>5, <1>6

\* clearsegs: the next pass starts at an origin nobody knows.
LEMMA LayoutNextPass ==
  ASSUME AssemblerInv, LayoutInv, NextPass
  PROVE  LayoutInv'
<1>1. /\ phase = "passdone" /\ phase' = "opening" /\ nError' = nError
      /\ prog' = prog /\ pc' = pc /\ segs' = ClearSegs /\ Csegment' = Csegment
      /\ Ifstack' = Ifstack
  BY DEF NextPass, Driver!NextPass, Driver!TakeNextPass, Driver!Deciding
<1>2. SUFFICES ASSUME Straight, LayoutShape, LayoutPhases, Following
               PROVE  LayoutShape' /\ LayoutPhases' /\ Following'
  BY <1>1, LayoutAfter
<1>3. nError' \notin Decided'
  BY <1>1, NotDecided DEF Decided, Driver!Success, Driver!NonAbort
<1>4. /\ segs'[InitialSegment].unk /\ ~segs'[InitialSegment].inRorg
      /\ segs'[InitialSegment].bss = segs[InitialSegment].bss
  <2>1. segs \in [Segments -> SegmentEntry] /\ InitialSegment \in Segments
    BY AssemblerAssumption DEF AssemblerInv, Current, Machine
  <2>2. segs[InitialSegment] \in SegmentEntry
    BY <2>1
  <2>3. segs'[InitialSegment] =
          [segs[InitialSegment] EXCEPT !.unk = TRUE, !.runk = TRUE, !.inRorg = FALSE]
    BY <1>1, <2>1 DEF ClearSegs
  <2>4. QED
    BY <2>2, <2>3 DEF SegmentEntry
<1>5. QED
  BY <1>1, <1>2, <1>3, <1>4 DEF LayoutShape, LayoutPhases, Following

\* Nothing moves any more once the pass is over.
LEMMA LayoutFinish ==
  ASSUME AssemblerInv, LayoutInv, Finish
  PROVE  LayoutInv'
<1>1. LayoutKept /\ Ifstack' = Ifstack
  BY DEF Finish, machine, LayoutKept
<1>2. SUFFICES ASSUME Straight, LayoutShape, LayoutPhases, Following
               PROVE  LayoutShape' /\ LayoutPhases' /\ Following'
  BY <1>1, LayoutAfter DEF LayoutKept
<1>3. LayoutShape'
  BY <1>1, <1>2 DEF LayoutShape, LayoutKept
<1>4. phase' \in {"returned", "exited"}
  BY DEF Finish, Driver!GiveUp, Driver!LastPass, Driver!MainEnds, Driver!OutOfPasses,
         Driver!ReturnWith
<1>5. CASE Driver!GiveUp \/ Driver!OutOfPasses
  <2>1. nError' \notin Decided'
    BY <1>5 DEF Driver!GiveUp, Driver!OutOfPasses, Driver!ReturnWith, Decided,
                Driver!NotResolvable, Driver!TooManyPasses, Driver!Success, Driver!NonAbort
  <2>2. QED
    BY <1>3, <1>4, <2>1 DEF LayoutPhases, Following
<1>6. CASE Driver!LastPass \/ Driver!MainEnds
  <2>1. /\ Redo' = Redo
        /\ phase = "passdone" \/ nError' = nError
    BY <1>6 DEF Driver!LastPass, Driver!Deciding, Driver!MainEnds, Driver!counters
  <2>2. nError' \in Decided' => phase = "passdone" \/ nError \in Decided
    BY <2>1 DEF Decided, Driver!Success, Driver!NonAbort
  <2>3. LayoutPhases'
    BY <1>1, <1>2, <1>4, <2>2 DEF LayoutPhases, LayoutKept
  <2>4. Following'
    BY <1>1, <1>2, <1>4, <2>1, <2>2, FollowsSame DEF Following, LayoutKept
  <2>5. QED
    BY <1>3, <2>3, <2>4
<1>7. QED
  BY <1>5, <1>6 DEF Finish

\* Nothing happens.
LEMMA LayoutStutter ==
  ASSUME LayoutInv, UNCHANGED vars
  PROVE  LayoutInv'
<1>1. /\ LayoutKept /\ Ifstack' = Ifstack /\ Redo' = Redo /\ phase' = phase /\ nError' = nError
  BY DEF vars, machine, counters, loop, LayoutKept
<1>2. SUFFICES ASSUME Straight, LayoutShape, LayoutPhases, Following
               PROVE  LayoutShape' /\ LayoutPhases' /\ Following'
  BY <1>1, LayoutAfter DEF LayoutKept
<1>3. Decided' = Decided
  BY DEF Decided, Driver!Success, Driver!NonAbort
<1>4. LayoutShape' /\ LayoutPhases'
  BY <1>1, <1>2, <1>3 DEF LayoutShape, LayoutPhases, LayoutKept
<1>5. Following'
  BY <1>1, <1>2, <1>3, FollowsSame DEF Following, LayoutKept
<1>6. QED
  BY <1>4, <1>5

\* The layout is followed in every reachable state of a straight source.
THEOREM LayoutInvariant == Spec => [](AssemblerInv /\ LayoutInv)
<1>1. Init => AssemblerInv /\ LayoutInv
  BY InvInit, LayoutInit
<1>2. AssemblerInv /\ LayoutInv /\ [Next]_vars => (AssemblerInv /\ LayoutInv)'
  <2>1. SUFFICES ASSUME AssemblerInv, LayoutInv, [Next]_vars
                 PROVE  (AssemblerInv /\ LayoutInv)'
    OBVIOUS
  <2>2. CASE OpenPass
    BY <2>1, <2>2, OpenPassStep, LayoutOpenPass
  <2>3. CASE Statement
    BY <2>1, <2>3, StatementStep, LayoutLine
  <2>4. CASE EndOfSource
    BY <2>1, <2>4, EndOfSourceStep, LayoutEndOfSource
  <2>5. CASE NextPass
    BY <2>1, <2>5, NextPassStep, LayoutNextPass
  <2>6. CASE Finish
    BY <2>1, <2>6, FinishStep, LayoutFinish
  <2>7. CASE UNCHANGED vars
    BY <2>1, <2>7, StutterStep, LayoutStutter
  <2>8. QED
    BY <2>1, <2>2, <2>3, <2>4, <2>5, <2>6, <2>7 DEF Next
<1>3. QED
  BY <1>1, <1>2, PTL DEF Spec

-----------------------------------------------------------------------------
(***************************************************************************)
(* At the end                                                              *)
(***************************************************************************)
Lower == {ss \in Nat \X Nat : ss[1] < ss[2]}

\* What holds of 0, and of the number behind each for which it holds, holds of all.
LEMMA Inductive ==
  ASSUME NEW S, 0 \in S, \A n \in Nat : n \in S => n + 1 \in S
  PROVE  Nat \subseteq S
<1>1. SUFFICES ASSUME Nat \ S # {} PROVE FALSE
  OBVIOUS
<1>2. IsWellFoundedOn(Lower, Nat)
  BY NatLessThanWellFounded DEF OpToRel, Lower
<1>3. PICK m \in Nat \ S : \A n \in Nat \ S : ~(<<n, m>> \in Lower)
  BY <1>1, <1>2, WFMin
<1>4. m # 0 /\ m - 1 \in Nat /\ m - 1 < m /\ (m - 1) + 1 = m
  BY <1>3
<1>5. m - 1 \in S
  BY <1>3, <1>4 DEF Lower
<1>6. QED
  BY <1>3, <1>4, <1>5

\* The places of the source are the only ones that lay out all its lines.
LEMMA LaidIsPlaces ==
  ASSUME Len(prog) \in Nat, NEW P, Laid(P, Len(prog))
  PROVE  Places = P
<1>1. PICK N \in Nat : N = Len(prog)
  OBVIOUS
<1>2. PICK w : w = Values
  OBVIOUS
<1>3. \A i \in 0 .. N : i # 0 => i \in 1 .. N
  OBVIOUS
<1>4. P = [i \in 0 .. N |-> IF i = 0 THEN Start ELSE Behind(w, prog[i], P[i - 1])]
  <2>1. /\ P \in [0 .. N -> Place] /\ P[0] = Start
        /\ \A i \in 1 .. N : P[i] = Behind(w, prog[i], P[i - 1])
    BY <1>1, <1>2 DEF Laid
  <2>2. \A i \in 0 .. N : P[i] = IF i = 0 THEN Start ELSE Behind(w, prog[i], P[i - 1])
    BY <1>3, <2>1
  <2>3. QED
    BY <2>1, <2>2
<1>5. PICK Q : Q = Places
  OBVIOUS
<1>6. Q = [i \in 0 .. N |-> IF i = 0 THEN Start ELSE Behind(w, prog[i], Q[i - 1])]
  <2>1. Q = CHOOSE g : g = [i \in 0 .. N |->
                             IF i = 0 THEN Start ELSE Behind(w, prog[i], g[i - 1])]
    BY <1>1, <1>2, <1>5 DEF Places
  <2>2. QED
    BY <1>4, <2>1
<1>7. \A n \in 0 .. N : Q[n] = P[n]
  <2>1. PICK S : S = {n \in Nat : n \in 0 .. N => Q[n] = P[n]}
    OBVIOUS
  <2>2. 0 \in S
    BY <1>4, <1>6, <2>1
  <2>3. ASSUME NEW n \in Nat, n \in S
        PROVE  n + 1 \in S
    <3>1. PICK j : j = n + 1
      OBVIOUS
    <3>2. SUFFICES ASSUME j \in 0 .. N
                   PROVE  Q[j] = P[j]
      BY <2>1, <3>1
    <3>3. j # 0 /\ j - 1 = n /\ n \in 0 .. N
      BY <3>1, <3>2
    <3>4. Q[n] = P[n]
      BY <2>1, <2>3, <3>3
    <3>5. Q[j] = Behind(w, prog[j], Q[j - 1]) /\ P[j] = Behind(w, prog[j], P[j - 1])
      BY <1>4, <1>6, <3>2, <3>3
    <3>6. QED
      BY <3>3, <3>4, <3>5
  <2>4. Nat \subseteq S
    BY <2>2, <2>3, Inductive
  <2>5. QED
    BY <2>1, <2>4
<1>8. QED
  BY <1>4, <1>5, <1>6, <1>7

\* A layout that is followed to the end is the layout of the source.
LEMMA LayoutAtTheEnd ==
  ASSUME AssemblerInv, LayoutInv
  PROVE  SuccessIsLayout
<1>1. SUFFICES ASSUME nError = Driver!Success, Straight, OriginsSettled(Len(prog))
               PROVE  IsLayout(Places)
  BY DEF SuccessIsLayout
<1>2. prog \in Seq(Statements) /\ Len(prog) \in Nat /\ DOMAIN prog = 1 .. Len(prog)
  BY AssemblerAssumption DEF AssemblerInv
<1>3. nError \in Decided /\ Redo = 0
  BY <1>1 DEF AssemblerInv, Decided
<1>4. pc = Len(prog) + 1
  BY <1>1, <1>3 DEF LayoutInv, LayoutPhases
<1>5. Follows(Len(prog))
  BY <1>1, <1>2, <1>3, <1>4 DEF LayoutInv, Following
<1>6. PICK P : /\ Laid(P, Len(prog)) /\ Named(P, Len(prog))
               /\ Stands(Current, P[Len(prog)])
  BY <1>5 DEF Follows
<1>7. Places = P
  BY <1>2, <1>6, LaidIsPlaces
<1>8. out = P[Len(prog)].image
  BY <1>6 DEF Stands, Current
<1>9. QED
  BY <1>2, <1>6, <1>7, <1>8 DEF IsLayout, Named

\* Whatever the source, and however many passes it took: a successful assembly of a
\* straight source is a layout of it, so that the labels, the EQUs and the bytes of the
\* last pass agree with each other (src/main.c MainShadow's decision that no other pass
\* is needed; src/symbols.c programlabel, src/ops.c v_equ, v_mnemonic, v_dc, v_ds,
\* v_org, v_rorg, v_align, generate).
THEOREM LayoutCorrect == Spec => []SuccessIsLayout
<1>1. AssemblerInv /\ LayoutInv => SuccessIsLayout
  BY LayoutAtTheEnd
<1>2. QED
  BY <1>1, LayoutInvariant, PTL
=============================================================================
