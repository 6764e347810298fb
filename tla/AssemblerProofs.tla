--------------------------- MODULE AssemblerProofs ---------------------------
(***************************************************************************)
(* Proofs about Assembler, for all sources, symbols, segments and options: *)
(* the invariant that ties the symbol table, the history of operands, the  *)
(* errors and Redo together in a pass; what follows when a pass is the     *)
(* last one; the order of the output; and that the assembler, with every   *)
(* handler, implements the pass loop.                                      *)
(***************************************************************************)
EXTENDS HandlerProofs

\* What holds of a pass that has asked for no other one, and of the runs of every pass.
PassGood ==
  Redo = 0 => /\ \A u \in used : Remembers(symtab, u)
              /\ \A msg \in ERRORBUF : msg[2] \in Final

Decided == {Driver!Success, Driver!NonAbort}

PassInv ==
  /\ nError = Driver!Running /\ pass \in 1 .. MaxPasses
  /\ \A msg \in ERRORBUF : msg[2] \in FatalCodes => bStopAtEnd[pass]

AssemblerInv ==
  /\ prog \in Programs /\ Current \in Machine /\ AllKnown(out) /\ InOrder(Current)
  /\ bStopAtEnd \in [1 .. MaxPasses -> BOOLEAN]
  /\ phase \in {"opening", "reading", "passdone"} => PassInv
  /\ phase = "opening" => ERRORBUF = {}
  /\ phase \in {"reading", "passdone"} => PassGood
  /\ nError \in Decided => Redo = 0 /\ PassGood
  /\ nError = Driver!Success => \A msg \in ERRORBUF : msg[2] \notin FatalCodes

\* The machine that has read a line.
LEMMA FetchedGood ==
  ASSUME AssemblerInv, phase = "reading"
  PROVE  Good(Fetched)
<1>1. Current \in Machine /\ AllKnown(out) /\ PassGood
  BY DEF AssemblerInv
<1>2. Current.pc = pc /\ pc \in Nat \ {0} /\ pc + 1 \in Nat \ {0}
  BY <1>1 DEF Current, Machine
<1>3. Fetched = [Current EXCEPT !.pc = pc + 1]
  BY <1>2 DEF Fetched
<1>4. Fetched \in Machine
  BY <1>1, <1>2, <1>3 DEF Machine
<1>5. /\ Fetched.out = out /\ Fetched.used = used /\ Fetched.symtab = symtab
      /\ Fetched.Redo = Redo /\ Fetched.raised = {}
  BY <1>3 DEF Current
<1>6. Alike(Fetched, Current)
  BY <1>3 DEF Current, Alike
<1>7. Counted(Current)
  <2>1. /\ Current.Redo = Redo /\ Current.why = Redo_why /\ Current.eval = Redo_eval
        /\ Current.rif = Redo_if
    BY DEF Current
  <2>2. Redo \in Nat /\ Redo_eval \in Nat
    BY <1>1, <2>1 DEF Machine
  <2>3. QED
    BY <2>1, <2>2 DEF Counted
<1>8. Allowed(Fetched)
  BY <1>6, <1>7, AlikeAllowed DEF Allowed, AssemblerInv
<1>9. QED
  BY <1>1, <1>4, <1>5, <1>8 DEF Good, Consistent, Harmless, PassGood

\* A line is a statement, with a label that fits its operation.
LEMMA LineFields ==
  ASSUME AssemblerInv, NEW op \in Ops, At(op)
  PROVE  /\ Line \in Statements /\ Line.op = op
         /\ op \notin EquOps => Line \in Plain
         /\ op \in EquOps => Line.lab \in Symbols
         /\ op = "equ" => Line.lab \in EquSymbols
         /\ op = "set" => Line.lab \notin Stable
<1>1. prog \in Programs /\ pc \in Nat \ {0} /\ pc <= Len(prog) /\ Line.op = op
  BY DEF AssemblerInv, Current, Machine, At
<1>2. prog \in Seq(Statements)
  BY <1>1, AssemblerAssumption
<1>3. pc \in DOMAIN prog /\ Line \in Statements
  BY <1>1, <1>2 DEF Line
<1>4. op \in EquOps => Line.lab \in Symbols
  <2>1. \A i \in DOMAIN prog : prog[i].op \in EquOps => prog[i].lab \in Symbols
    BY <1>1, AssemblerAssumption
  <2>2. QED
    BY <1>1, <1>3, <2>1 DEF Line
<1>5. \A lines : op \in lines => Line.lab \in LabelOf(lines)
  BY <1>1, <1>3 DEF LabelOf, Line
<1>6. op = "equ" => Line.lab \in EquSymbols
  BY <1>5 DEF EquSymbols
<1>7. op = "set" => Line.lab \notin Stable
  BY <1>5 DEF Stable
<1>8. ASSUME op \notin EquOps
      PROVE  Line.lab \in Labels
  <2>1. Line.lab \in LabelOf(Ops \ EquOps)
    BY <1>5, <1>8
  <2>2. Line.lab \in Symbols \cup {NoLabel}
    BY <1>3 DEF Statements
  <2>3. Line.lab \in EquSymbols => Line.lab \notin Stable
    BY <2>1 DEF Stable, EquSymbols
  <2>4. QED
    BY <2>2, <2>3 DEF Labels
<1>9. QED
  BY <1>1, <1>3, <1>4, <1>6, <1>7, <1>8 DEF Plain

\* The names of the program's lines, and so what is stable, do not change.
LEMMA SourceFixed ==
  ASSUME prog' = prog
  PROVE  Stable' = Stable /\ EquSymbols' = EquSymbols /\ Final' = Final
BY DEF Stable, EquSymbols, LabelOf, Final, OfF8

\* The error of the loop itself is none that a handler reports.
LEMMA HandlersReport ==
  /\ Driver!StatementErrors = ErrorCodes
  /\ \A es \in SUBSET ErrorCodes : es \cap LoopErrors(FatalCodes) = es \cap FatalCodes
BY DEF Driver!StatementErrors, Driver!TooManyPasses, LoopErrors, ErrorCodes, Warnings, FatalCodes

\* The step of a handler that returns.
LEMMA BecomeGood ==
  ASSUME AssemblerInv, phase = "reading", NEW m, Good(m), Become(m)
  PROVE  AssemblerInv'
<1>1. m \in Machine /\ AllKnown(m.out) /\ Consistent(m) /\ Harmless(m)
  BY DEF Good
<1>2. /\ pc' = m.pc /\ symtab' = m.symtab /\ segs' = m.segs /\ Csegment' = m.cs
      /\ Ifstack' = m.ifs /\ Reploop' = m.reps /\ Fisclear' = m.fisclear
      /\ fileorg' = m.fileorg /\ out' = m.out /\ used' = m.used
      /\ Redo' = m.Redo /\ Redo_why' = m.why /\ Redo_eval' = m.eval /\ Redo_if' = m.rif
  BY DEF Become
<1>3. prog' = prog /\ pass' = pass /\ phase' = "reading" /\ nError' = nError
  BY DEF Become, loop
<1>4. /\ bStopAtEnd' = IF pass <= MaxPasses /\ m.raised \cap FatalCodes # {}
                       THEN [bStopAtEnd EXCEPT ![pass] = TRUE] ELSE bStopAtEnd
      /\ ERRORBUF' = ERRORBUF \cup {<<pass, e>> : e \in m.raised}
  <2>1. m.raised \in SUBSET ErrorCodes
    BY <1>1 DEF Machine
  <2>2. m.raised \cap LoopErrors(FatalCodes) = m.raised \cap FatalCodes
    BY <2>1, HandlersReport
  <2>3. QED
    BY <2>2 DEF Become, Driver!Report
<1>5. /\ prog \in Programs /\ bStopAtEnd \in [1 .. MaxPasses -> BOOLEAN]
      /\ PassInv /\ PassGood
  BY DEF AssemblerInv
<1>6. Current' \in Machine
  BY <1>1, <1>2 DEF Current, Machine, NoError
<1>7. AllKnown(out)' /\ InOrder(Current)'
  <2>1. InOrder(m)
    BY DEF Good, Allowed
  <2>2. Current'.out = m.out /\ Current'.fileorg = m.fileorg /\ Current'.fisclear = m.fisclear
    BY <1>2 DEF Current
  <2>3. QED
    BY <1>1, <1>2, <2>1, <2>2 DEF AllKnown, InOrder
<1>8. bStopAtEnd' \in [1 .. MaxPasses -> BOOLEAN]
  BY <1>4, <1>5
<1>9. pass <= MaxPasses /\ pass \in 1 .. MaxPasses
  BY <1>5, AssemblerAssumption DEF PassInv
<1>10. PassInv'
  <2>1. ASSUME NEW msg \in ERRORBUF', msg[2] \in FatalCodes
        PROVE  bStopAtEnd'[pass]
    <3>1. CASE msg \in ERRORBUF
      BY <1>4, <1>5, <1>9, <2>1, <3>1 DEF PassInv
    <3>2. CASE \E e \in m.raised : msg = <<pass, e>>
      BY <1>4, <1>5, <1>9, <2>1, <3>2
    <3>3. QED
      BY <1>4, <2>1, <3>1, <3>2
  <2>2. QED
    BY <1>3, <1>5, <2>1 DEF PassInv
<1>11. PassGood'
  <2>1. ASSUME m.Redo = 0, NEW u \in m.used
        PROVE  Remembers(symtab, u)'
    BY <1>1, <1>2, <1>3, <2>1, SourceFixed DEF Consistent, Remembers
  <2>2. ASSUME m.Redo = 0, NEW msg \in ERRORBUF'
        PROVE  msg[2] \in Final
    BY <1>1, <1>4, <1>5, <2>2 DEF Harmless, PassGood
  <2>3. QED
    BY <1>2, <1>3, <2>1, <2>2, SourceFixed DEF PassGood
<1>12. nError' \notin Decided
  BY <1>3, <1>5 DEF PassInv, Decided, Driver!Running, Driver!Success, Driver!NonAbort
<1>13. QED
  BY <1>3, <1>5, <1>6, <1>7, <1>8, <1>10, <1>11, <1>12 DEF AssemblerInv, Decided

\* The step of a handler that does not return.
LEMMA StopGood ==
  ASSUME AssemblerInv, NEW m, Good(m), m.abort # NoError, Stop(m)
  PROVE  AssemblerInv'
<1>1. m.abort \in ErrorCodes
  BY DEF Good, Machine
<1>2. phase' = "exited" /\ nError' = m.abort
  BY DEF Stop, Driver!AbortWith
<1>3. nError' \notin Decided /\ nError' # Driver!Success
  BY <1>1, <1>2 DEF ErrorCodes, Warnings, FatalCodes, Decided, Driver!Success, Driver!NonAbort
<1>4. prog' = prog /\ Current' = Current /\ out' = out /\ pass' = pass
      /\ InOrder(Current)' = InOrder(Current)
  BY DEF Stop, machine, counters, Current, InOrder
<1>5. bStopAtEnd' \in [1 .. MaxPasses -> BOOLEAN]
  <2>1. \/ bStopAtEnd' = bStopAtEnd
        \/ bStopAtEnd' = [bStopAtEnd EXCEPT ![pass] = TRUE]
    BY DEF Stop, Driver!AbortWith, Driver!Report
  <2>2. QED
    BY <2>1 DEF AssemblerInv
<1>6. QED
  BY <1>2, <1>3, <1>4, <1>5 DEF AssemblerInv, AllKnown

\* A handler that keeps Good keeps the invariant.
LEMMA DoGood ==
  ASSUME AssemblerInv, phase = "reading", NEW m, Good(m), Do(m)
  PROVE  AssemblerInv'
<1>1. IF m.abort = NoError THEN Become(m) ELSE Stop(m)
  BY DEF Do
<1>2. QED
  BY <1>1, BecomeGood, StopGood

\* A step of a handler whose result is Good.
GoodStep == phase = "reading" /\ \E m : Good(m) /\ Do(m)

\* Either way.
LEMMA DoneWith ==
  ASSUME phase = "reading", NEW m, Good(m), Do(m)
  PROVE  GoodStep
BY DEF GoodStep

\* The statements, one by one.
LEMMA StatementGood ==
  ASSUME AssemblerInv, Statement
  PROVE  GoodStep
<1>1. phase = "reading"
  BY DEF Statement, Skip, Mnemonic, LabelOnly, Dc, Ds, Org, Rorg, Rend, Align, SegOp, Equ,
         SetOp, DotEquOp, Conditional, Repeat, ErrOp, Include, EndOp, WhenActive, Always, At
<1>2. Good(Fetched)
  BY <1>1, FetchedGood
<1>3. \A op \in Ops : At(op) /\ op \notin EquOps => Line \in Plain
  BY LineFields
<1>4. CASE Skip
  <2>1. Fetched.abort = NoError
    BY DEF Fetched, Current
  <2>2. QED
    BY <1>1, <1>2, <1>4, <2>1, DoneWith DEF Skip, Do
<1>5. CASE Mnemonic
  <2>1. CASE WhenActive("lda", MnemonicMem(Fetched, Line))
    BY <1>1, <1>2, <1>3, <2>1, MnemonicMemGood, DoneWith DEF WhenActive, Ops, EquOps
  <2>2. CASE WhenActive("jmp", MnemonicWord(Fetched, Line))
    BY <1>1, <1>2, <1>3, <2>2, MnemonicWordGood, DoneWith DEF WhenActive, Ops, EquOps
  <2>3. CASE WhenActive("nop", MnemonicImplied(Fetched, Line))
    BY <1>1, <1>2, <1>3, <2>3, MnemonicImpliedGood, DoneWith DEF WhenActive, Ops, EquOps
  <2>4. CASE WhenActive("bne", MnemonicRel(Fetched, Line))
    BY <1>1, <1>2, <1>3, <2>4, MnemonicRelGood, DoneWith DEF WhenActive, Ops, EquOps
  <2>5. CASE WhenActive("illegal", MnemonicIllegal(Fetched, Line))
    BY <1>1, <1>2, <1>3, <2>5, MnemonicIllegalGood, DoneWith DEF WhenActive, Ops, EquOps
  <2>6. CASE WhenActive("unknown", Asmerr(Fetched, "ERROR_UNKNOWN_MNEMONIC"))
    <3>1. Good(Asmerr(Fetched, "ERROR_UNKNOWN_MNEMONIC"))
      BY <1>2, AsmerrGood DEF ErrorCodes, FatalCodes, Final
    <3>2. QED
      BY <1>1, <2>6, <3>1, DoneWith DEF WhenActive
  <2>7. CASE WhenActive("br", generate_branch(Fetched, Line))
    <3>1. pc \in DOMAIN prog /\ Line.op = "br"
      <4>1. pc \in Nat \ {0}
        BY DEF AssemblerInv, Current, Machine
      <4>2. prog \in Seq(Statements)
        BY AssemblerAssumption DEF AssemblerInv
      <4>3. QED
        BY <2>7, <4>1, <4>2 DEF WhenActive, At
    <3>2. OfF8
      BY <3>1 DEF OfF8, Line
    <3>3. QED
      BY <1>1, <1>2, <1>3, <2>7, <3>2, BranchGood, DoneWith DEF WhenActive, Ops, EquOps
  <2>8. QED
    BY <1>5, <2>1, <2>2, <2>3, <2>4, <2>5, <2>6, <2>7 DEF Mnemonic
<1>6. CASE LabelOnly
  BY <1>1, <1>2, <1>3, <1>6, LabelGood, PlainFields, DoneWith DEF LabelOnly, WhenActive, Ops, EquOps
<1>7. CASE Dc
  BY <1>1, <1>2, <1>3, <1>7, DcGood, DoneWith DEF Dc, WhenActive, Ops, EquOps
<1>8. CASE Ds
  BY <1>1, <1>2, <1>3, <1>8, DsGood, DoneWith DEF Ds, WhenActive, Ops, EquOps
<1>9. CASE Org
  BY <1>1, <1>2, <1>3, <1>9, OrgGood, DoneWith DEF Org, WhenActive, Ops, EquOps
<1>10. CASE Rorg
  BY <1>1, <1>2, <1>3, <1>10, RorgGood, DoneWith DEF Rorg, WhenActive, Ops, EquOps
<1>11. CASE Rend
  BY <1>1, <1>2, <1>3, <1>11, RendGood, DoneWith DEF Rend, WhenActive, Ops, EquOps
<1>12. CASE Align
  BY <1>1, <1>2, <1>3, <1>12, AlignGood, DoneWith DEF Align, WhenActive, Ops, EquOps
<1>13. CASE SegOp
  BY <1>1, <1>2, <1>3, <1>13, SegGood, DoneWith DEF SegOp, WhenActive, Ops, EquOps
<1>14. CASE Equ
  <2>1. At("equ") /\ Do(v_equ(Fetched, Line))
    BY <1>14 DEF Equ, WhenActive
  <2>2. Line \in Statements /\ Line.lab \in Symbols /\ Line.lab \in EquSymbols
    BY <2>1, LineFields DEF Ops, EquOps
  <2>3. QED
    BY <1>1, <1>2, <2>1, <2>2, EquGood, DoneWith
<1>15. CASE SetOp
  <2>1. At("set") /\ Do(v_set(Fetched, Line))
    BY <1>15 DEF SetOp, WhenActive
  <2>2. Line \in Statements /\ Line.lab \in Symbols /\ Line.lab \notin Stable
    BY <2>1, LineFields DEF Ops, EquOps
  <2>3. QED
    BY <1>1, <1>2, <2>1, <2>2, SetGood, DoneWith
<1>16. CASE DotEquOp
  BY <1>1, <1>2, <1>3, <1>16, DotEquGood, DoneWith DEF DotEquOp, WhenActive, Ops, EquOps
<1>17. CASE Conditional
  <2>1. CASE Always("if", v_if(Fetched, Line))
    BY <1>1, <1>2, <1>3, <2>1, IfGood, DoneWith DEF Always, Ops, ConditionalOps, EquOps
  <2>2. CASE Always("ifconst", v_ifconst(Fetched, Line))
    BY <1>1, <1>2, <1>3, <2>2, IfConstGood, DoneWith DEF Always, Ops, ConditionalOps, EquOps
  <2>3. CASE Always("ifnconst", v_ifnconst(Fetched, Line))
    BY <1>1, <1>2, <1>3, <2>3, IfConstGood, DoneWith DEF Always, Ops, ConditionalOps, EquOps
  <2>4. CASE Always("else", v_else(Fetched, Line))
    BY <1>1, <1>2, <1>3, <2>4, ElseGood, DoneWith DEF Always, Ops, ConditionalOps, EquOps
  <2>5. CASE Always("endif", v_endif(Fetched, Line))
    BY <1>1, <1>2, <1>3, <2>5, EndifGood, DoneWith DEF Always, Ops, ConditionalOps, EquOps
  <2>6. QED
    BY <1>17, <2>1, <2>2, <2>3, <2>4, <2>5 DEF Conditional
<1>18. CASE Repeat
  <2>1. CASE Always("repeat", v_repeat(Fetched, Line))
    BY <1>1, <1>2, <1>3, <2>1, RepeatGood, DoneWith DEF Always, Ops, ConditionalOps, EquOps
  <2>2. CASE Always("repend", v_repend(Fetched, Line))
    BY <1>1, <1>2, <1>3, <2>2, RependGood, DoneWith DEF Always, Ops, ConditionalOps, EquOps
  <2>3. QED
    BY <1>18, <2>1, <2>2 DEF Repeat
<1>19. CASE ErrOp
  <2>1. Line.lab \in Labels
    BY <1>3, <1>19, PlainFields DEF ErrOp, WhenActive, Ops, EquOps
  <2>2. Good(Abort(Label(Fetched, Line.lab), "ERROR_ERR_PSEUDO_OP_ENCOUNTERED"))
    BY <1>2, <2>1, LabelGood, AbortGood DEF ErrorCodes, FatalCodes
  <2>3. QED
    BY <1>1, <1>19, <2>2, DoneWith DEF ErrOp, WhenActive
<1>20. CASE Include
  <2>1. Line.lab \in Labels
    BY <1>3, <1>20, PlainFields DEF Include, WhenActive, Ops, EquOps
  <2>2. Good(Bump(Asmerr(Label(Fetched, Line.lab), "ERROR_FILE_ERROR"), "INCLUDE_FAILED"))
    BY <1>2, <2>1, LabelGood, RefuseGood DEF ErrorCodes, FatalCodes, ReasonCodes
  <2>3. QED
    BY <1>1, <1>20, <2>2, DoneWith DEF Include, WhenActive
<1>21. CASE EndOp
  <2> DEFINE n == [Fetched EXCEPT !.pc = Len(prog) + 1]
  <2>1. Len(prog) + 1 \in Nat \ {0}
    BY AssemblerAssumption DEF AssemblerInv
  <2>2. /\ n \in Machine /\ Alike(n, Fetched) /\ n.used = Fetched.used
        /\ n.symtab = Fetched.symtab /\ n.raised = Fetched.raised
    BY <1>2, <2>1 DEF Good, Machine, Alike
  <2>3. Good(n)
    BY <1>2, <2>2, SameGood
  <2> HIDE DEF n
  <2>4. QED
    BY <1>1, <1>21, <2>3, DoneWith DEF EndOp, WhenActive, n
<1>22. QED
  BY <1>4, <1>5, <1>6, <1>7, <1>8, <1>9, <1>10, <1>11, <1>12, <1>13, <1>14, <1>15, <1>16,
     <1>17, <1>18, <1>19, <1>20, <1>21 DEF Statement

\* A line keeps the invariant.
LEMMA StatementStep ==
  ASSUME AssemblerInv, Statement
  PROVE  AssemblerInv'
BY StatementGood, DoGood DEF GoodStep

\* The steps between the passes leave the output alone.
LEMMA OrderKept ==
  ASSUME InOrder(Current), out' = out, fileorg' = fileorg, Fisclear' = Fisclear
  PROVE  InOrder(Current)'
<1>1. /\ Current'.out = Current.out /\ Current'.fileorg = Current.fileorg
      /\ Current'.fisclear = Current.fisclear
  BY DEF Current
<1>2. QED
  BY <1>1 DEF InOrder

\* The invariant holds before the first pass.
LEMMA InvInit ==
  ASSUME Init
  PROVE  AssemblerInv
<1>1. /\ Redo = 0 /\ Redo_why = {} /\ Redo_eval = 0 /\ Redo_if = {} /\ pass = 1
      /\ phase = "opening" /\ ERRORBUF = {} /\ nError = Driver!Running
      /\ bStopAtEnd = [p \in 1 .. MaxPasses |-> FALSE]
  BY DEF Init, Driver!DriverInit
<1>2. symtab \in [Symbols -> SymbolEntry]
  <2>1. \A s \in DOMAIN Predefined : Predefined[s] \in Int
    BY AssemblerAssumption
  <2>2. QED
    BY <2>1 DEF Init, SymbolEntry
<1>3. segs \in [Segments -> SegmentEntry]
  <2>1. NewSegment \in SegmentEntry
    BY DEF NewSegment, SegmentEntry
  <2>2. \A b \in BOOLEAN : [NewSegment EXCEPT !.made = b] \in SegmentEntry
    BY <2>1 DEF SegmentEntry
  <2>3. \A s \in Segments : (s = InitialSegment) \in BOOLEAN
    OBVIOUS
  <2>4. \A s \in Segments : [NewSegment EXCEPT !.made = (s = InitialSegment)] \in SegmentEntry
    BY <2>2, <2>3
  <2>5. QED
    BY <2>4 DEF Init
<1>4. Csegment \in Segments
  BY AssemblerAssumption DEF Init
<1>5. BaseIf \in Seq(IfEntry) \ {<<>>}
  BY DEF BaseIf, IfEntry
<1>6. Current \in Machine
  BY <1>1, <1>2, <1>3, <1>4, <1>5 DEF Init, Current, Machine, NoError
<1>7. AllKnown(out) /\ InOrder(Current)
  BY DEF Init, AllKnown, InOrder, Ascending, Current
<1>8. 1 \in 1 .. MaxPasses
  BY AssemblerAssumption
<1>9. prog \in Programs
  BY DEF Init
<1>10. nError \notin Decided /\ nError # Driver!Success
  BY <1>1 DEF Decided, Driver!Running, Driver!Success, Driver!NonAbort
<1>11. QED
  BY <1>1, <1>6, <1>7, <1>8, <1>9, <1>10 DEF AssemblerInv, PassInv

\* A pass begins.
LEMMA OpenPassStep ==
  ASSUME AssemblerInv, OpenPass
  PROVE  AssemblerInv'
<1>1. /\ phase = "opening" /\ phase' = "reading" /\ prog' = prog
      /\ Redo' = Redo /\ Redo_why' = Redo_why /\ Redo_eval' = Redo_eval /\ Redo_if' = Redo_if
      /\ pass' = pass /\ bStopAtEnd' = bStopAtEnd /\ ERRORBUF' = ERRORBUF /\ nError' = nError
      /\ pc' = 1 /\ Fisclear' = TRUE /\ out' = <<>> /\ used' = {}
      /\ symtab' = symtab /\ segs' = segs /\ Csegment' = Csegment /\ Ifstack' = Ifstack
      /\ Reploop' = Reploop /\ fileorg' = fileorg
  BY DEF OpenPass, Driver!OpenPass, Driver!counters
<1>2. Current' \in Machine
  BY <1>1 DEF AssemblerInv, Current, Machine
<1>3. AllKnown(out)' /\ InOrder(Current)'
  BY <1>1 DEF AllKnown, InOrder, Ascending, Current
<1>4. PassInv /\ ERRORBUF = {}
  BY <1>1 DEF AssemblerInv
<1>5. PassInv' /\ PassGood'
  BY <1>1, <1>4 DEF PassInv, PassGood
<1>6. nError' \notin Decided /\ nError' # Driver!Success
  BY <1>1, <1>4 DEF PassInv, Decided, Driver!Running, Driver!Success, Driver!NonAbort
<1>7. QED
  BY <1>1, <1>2, <1>3, <1>5, <1>6 DEF AssemblerInv, Decided

\* The last line is done.
LEMMA EndOfSourceStep ==
  ASSUME AssemblerInv, EndOfSource
  PROVE  AssemblerInv'
<1>1. /\ phase = "reading" /\ phase' = "passdone" /\ prog' = prog
      /\ Redo' = Redo /\ Redo_why' = Redo_why /\ Redo_eval' = Redo_eval /\ Redo_if' = Redo_if
      /\ pass' = pass /\ bStopAtEnd' = bStopAtEnd /\ ERRORBUF' = ERRORBUF /\ nError' = nError
      /\ pc' = pc /\ Fisclear' = Fisclear /\ out' = out /\ used' = used
      /\ symtab' = symtab /\ segs' = segs /\ Csegment' = Csegment
      /\ Ifstack' = BaseIf /\ Reploop' = <<>> /\ fileorg' = fileorg
  BY DEF EndOfSource, Driver!EndOfSource, Driver!counters
<1>2. BaseIf \in Seq(IfEntry) \ {<<>>} /\ <<>> \in Seq(RepeatEntry)
  BY DEF BaseIf, IfEntry
<1>3. Current' \in Machine
  BY <1>1, <1>2 DEF AssemblerInv, Current, Machine
<1>4. AllKnown(out)' /\ PassInv' /\ PassGood' /\ InOrder(Current)'
  BY <1>1, SourceFixed, OrderKept DEF AssemblerInv, AllKnown, PassInv, PassGood, Remembers
<1>5. nError' \notin Decided /\ nError' # Driver!Success
  BY <1>4 DEF PassInv, Decided, Driver!Running, Driver!Success, Driver!NonAbort
<1>6. QED
  BY <1>1, <1>3, <1>4, <1>5 DEF AssemblerInv, Decided

\* Another pass is taken.
LEMMA NextPassStep ==
  ASSUME AssemblerInv, NextPass
  PROVE  AssemblerInv'
<1>1. /\ phase = "passdone" /\ phase' = "opening" /\ prog' = prog
      /\ Redo' = 0 /\ Redo_why' = {} /\ Redo_eval' = 0 /\ Redo_if' = Driver!Shifted(Redo_if)
      /\ pass' = pass + 1 /\ pass < MaxPasses
      /\ bStopAtEnd' = bStopAtEnd /\ ERRORBUF' = {} /\ nError' = nError
      /\ pc' = pc /\ Fisclear' = Fisclear /\ out' = out /\ used' = used
      /\ symtab' = ClearRefs /\ segs' = ClearSegs /\ Csegment' = Csegment
      /\ Ifstack' = Ifstack /\ Reploop' = Reploop /\ fileorg' = fileorg
  BY DEF NextPass, Driver!NextPass, Driver!TakeNextPass, Driver!Deciding
<1>2. Driver!Shifted(Redo_if) \subseteq {0, 1}
  BY DEF Driver!Shifted
<1>3. symtab \in [Symbols -> SymbolEntry] /\ segs \in [Segments -> SegmentEntry]
  BY DEF AssemblerInv, Current, Machine
<1>4. ClearRefs \in [Symbols -> SymbolEntry]
  BY <1>3 DEF ClearRefs, SymbolEntry
<1>5. ClearSegs \in [Segments -> SegmentEntry]
  <2>1. \A s \in Segments : [segs[s] EXCEPT !.unk = TRUE, !.runk = TRUE, !.inRorg = FALSE]
                              \in SegmentEntry
    BY <1>3 DEF SegmentEntry
  <2>2. QED
    BY <2>1 DEF ClearSegs
<1>6. Current' \in Machine
  BY <1>1, <1>2, <1>4, <1>5 DEF AssemblerInv, Current, Machine
<1>7. AllKnown(out)' /\ PassInv /\ InOrder(Current)'
  BY <1>1, OrderKept DEF AssemblerInv, AllKnown
<1>8. PassInv'
  BY <1>1, <1>7, AssemblerAssumption DEF PassInv
<1>9. nError' \notin Decided /\ nError' # Driver!Success
  BY <1>8 DEF PassInv, Decided, Driver!Running, Driver!Success, Driver!NonAbort
<1>10. QED
  BY <1>1, <1>6, <1>7, <1>8, <1>9 DEF AssemblerInv, Decided

\* The ways out of the loop: only LastPass decides, and it does so when Redo is 0.
LEMMA FinishStep ==
  ASSUME AssemblerInv, Finish
  PROVE  AssemblerInv'
<1>1. /\ prog' = prog /\ pc' = pc /\ symtab' = symtab /\ segs' = segs /\ Csegment' = Csegment
      /\ Ifstack' = Ifstack /\ Reploop' = Reploop /\ Fisclear' = Fisclear
      /\ fileorg' = fileorg /\ out' = out /\ used' = used
  BY DEF Finish, machine
<1>2. AllKnown(out)' /\ InOrder(Current)'
  BY <1>1, OrderKept DEF AssemblerInv, AllKnown
<1>3. CASE Driver!GiveUp \/ Driver!LastPass \/ Driver!MainEnds
  <2>1. /\ Redo' = Redo /\ Redo_why' = Redo_why /\ Redo_eval' = Redo_eval
        /\ Redo_if' = Redo_if /\ pass' = pass /\ bStopAtEnd' = bStopAtEnd
        /\ ERRORBUF' = ERRORBUF /\ phase' \in {"returned", "exited"}
    BY <1>3 DEF Driver!GiveUp, Driver!LastPass, Driver!MainEnds, Driver!ReturnWith,
                Driver!counters
  <2>2. Current' \in Machine
    BY <1>1, <2>1 DEF AssemblerInv, Current, Machine
  <2>3. PassGood' = PassGood
    BY <1>1, <2>1, SourceFixed DEF PassGood, Remembers
  <2>4. CASE Driver!GiveUp
    <3>1. nError' \notin Decided /\ nError' # Driver!Success
      BY <2>4 DEF Driver!GiveUp, Driver!ReturnWith, Decided, Driver!NotResolvable,
                  Driver!Success, Driver!NonAbort
    <3>2. QED
      BY <1>1, <1>2, <2>1, <2>2, <3>1 DEF AssemblerInv, Decided
  <2>5. CASE Driver!LastPass
    <3>1. phase = "passdone" /\ Redo = 0
      BY <2>5 DEF Driver!LastPass, Driver!Deciding, Driver!NeedsPass
    <3>2. PassInv /\ PassGood
      BY <3>1 DEF AssemblerInv
    <3>3. nError' = Driver!Success => ~bStopAtEnd[pass]
      BY <2>5, <3>2, AssemblerAssumption DEF Driver!LastPass, Driver!ReturnWith, Driver!Failed,
         PassInv, Driver!Success, Driver!NonAbort, Driver!MissingEndm
    <3>4. nError' = Driver!Success => \A msg \in ERRORBUF' : msg[2] \notin FatalCodes
      BY <2>1, <3>2, <3>3 DEF PassInv
    <3>5. QED
      BY <1>1, <1>2, <2>1, <2>2, <2>3, <3>1, <3>2, <3>4 DEF AssemblerInv, Decided
  <2>6. CASE Driver!MainEnds
    <3>1. nError' = nError
      BY <2>6 DEF Driver!MainEnds
    <3>2. QED
      BY <1>1, <1>2, <2>1, <2>2, <2>3, <3>1 DEF AssemblerInv, Decided
  <2>7. QED
    BY <1>3, <2>4, <2>5, <2>6
<1>4. CASE Driver!OutOfPasses
  <2>1. /\ Redo' = 0 /\ Redo_why' = {} /\ Redo_eval' = 0 /\ Redo_if' = Driver!Shifted(Redo_if)
        /\ bStopAtEnd' = bStopAtEnd /\ phase' = "exited" /\ nError' = Driver!TooManyPasses
    BY <1>4 DEF Driver!OutOfPasses, Driver!TakeNextPass
  <2>2. Driver!Shifted(Redo_if) \subseteq {0, 1}
    BY DEF Driver!Shifted
  <2>3. Current' \in Machine
    BY <1>1, <2>1, <2>2 DEF AssemblerInv, Current, Machine
  <2>4. nError' \notin Decided /\ nError' # Driver!Success
    BY <2>1 DEF Decided, Driver!TooManyPasses, Driver!Success, Driver!NonAbort
  <2>5. QED
    BY <1>1, <1>2, <2>1, <2>3, <2>4 DEF AssemblerInv, Decided
<1>5. QED
  BY <1>3, <1>4 DEF Finish

\* Nothing happens.
LEMMA StutterStep ==
  ASSUME AssemblerInv, UNCHANGED vars
  PROVE  AssemblerInv'
<1>1. Current' = Current /\ prog' = prog /\ out' = out /\ bStopAtEnd' = bStopAtEnd
      /\ phase' = phase /\ nError' = nError /\ ERRORBUF' = ERRORBUF /\ pass' = pass
      /\ Redo' = Redo /\ used' = used /\ symtab' = symtab
      /\ fileorg' = fileorg /\ Fisclear' = Fisclear
  BY DEF vars, machine, counters, loop, Current
<1>2. PassGood' = PassGood /\ PassInv' = PassInv /\ InOrder(Current)'
  BY <1>1, OrderKept, SourceFixed DEF AssemblerInv, PassGood, PassInv, Remembers
<1>3. QED
  BY <1>1, <1>2 DEF AssemblerInv, AllKnown, Decided

\* The invariant of the assembler: in a pass that has asked for no other one, the
\* symbol table still holds every value an operand was computed from, and only
\* errors that may stand were reported (src/symbols.c programlabel, src/ops.c v_equ,
\* generate; src/main.c asmerr).
THEOREM AssemblerInvariant == Spec => []AssemblerInv
<1>1. Init => AssemblerInv
  BY InvInit
<1>2. AssemblerInv /\ [Next]_vars => AssemblerInv'
  BY OpenPassStep, StatementStep, EndOfSourceStep, NextPassStep, FinishStep, StutterStep DEF Next
<1>3. QED
  BY <1>1, <1>2, PTL DEF Spec

\* No byte of the output was computed from an unknown operand: every handler raises
\* Redo before it calls generate (src/ops.c:1621).
THEOREM OutputKnown == Spec => []UnknownNeverWritten
<1>1. AssemblerInv => UnknownNeverWritten
  BY DEF AssemblerInv, AllKnown, UnknownNeverWritten
<1>2. QED
  BY <1>1, AssemblerInvariant, PTL

\* When dasm finishes, every operand whose symbol was known when it was looked up has
\* the value its symbol has at the end: the SYM_UNKNOWN and SYM_REF flags catch every
\* change of a known value (src/symbols.c:178).  Operands that were not known, which
\* ORG, RORG, EQU, SET, IFCONST and REPEAT accept, are not part of the statement.
THEOREM FixpointReached == Spec => []FinalPassConsistent
<1>1. AssemblerInv => FinalPassConsistent
  <2>1. SUFFICES ASSUME AssemblerInv, nError \in Decided, NEW u \in used, u[1] \in Stable
                 PROVE  ~symtab[u[1]].unk /\ symtab[u[1]].val = u[2]
    BY DEF FinalPassConsistent, Decided
  <2>2. Remembers(symtab, u)
    BY <2>1 DEF AssemblerInv, PassGood
  <2>3. QED
    BY <2>1, <2>2 DEF Remembers
<1>2. QED
  BY <1>1, AssemblerInvariant, PTL

\* Of the errors of a pass, success drops the warning of REPEAT and the branch of the F8
\* that is out of range (src/mnef8.c:589), and nothing else (src/main.c:735): all
\* others are fatal or come with a ++Redo.
THEOREM NothingElseDropped == Spec => []OnlyTwoDropped
<1>1. AssemblerInv => OnlyTwoDropped
  BY DEF AssemblerInv, Decided, PassGood, OnlyTwoDropped, Final, OfF8
<1>2. QED
  BY <1>1, AssemblerInvariant, PTL

\* In the formats without hunks the runs of a pass are in the order of their addresses:
\* the static org of generate() is never behind any of them (src/ops.c generate).
THEOREM OutputAlwaysInOrder == Spec => []OutputInOrder
<1>1. AssemblerInv => OutputInOrder
  <2>1. Current.out = out
    BY DEF Current
  <2>2. QED
    BY <2>1 DEF AssemblerInv, InOrder, Ascending, OutputInOrder
<1>2. QED
  BY <1>1, AssemblerInvariant, PTL

-----------------------------------------------------------------------------
(***************************************************************************)
(* The assembler implements the pass loop: a line is a step of PassDriver  *)
(* whatever its handler does, and so are the other steps.                  *)
(***************************************************************************)

\* A handler that returns: it counts up, gives reasons and reports, no more.
LEMMA BecomeReads ==
  ASSUME AssemblerInv, phase = "reading", NEW m, Good(m), Become(m)
  PROVE  Driver!ReadLine
<1>1. m \in Machine /\ Counted(m)
  BY DEF Good, Allowed
<1>2. m.Redo \in Nat /\ m.eval \in Nat /\ m.why \in SUBSET ReasonCodes
      /\ m.raised \in SUBSET ErrorCodes
  BY <1>1 DEF Machine
<1>3. /\ Redo' = m.Redo /\ Redo_why' = m.why /\ Redo_eval' = m.eval /\ Redo_if' = m.rif
      /\ Driver!Report(m.raised)
      /\ UNCHANGED <<pass, phase, oldredo, oldwhy, oldeval, shown, outfile, nError>>
  BY DEF Become, loop
<1>4. Driver!Handled(m.raised)
  BY <1>1, <1>2, <1>3 DEF Counted, Driver!Handled
<1>5. QED
  BY <1>2, <1>3, <1>4, HandlersReport DEF Driver!ReadLine, Driver!olds

\* asmerr ends the process inside a handler.
LEMMA StopAborts ==
  ASSUME AssemblerInv, phase = "reading", NEW m, Good(m), m.abort # NoError, Stop(m)
  PROVE  Driver!ReadLineAborts
<1>1. m.raised \in SUBSET ErrorCodes /\ m.abort \in ErrorCodes
  BY DEF Good, Machine
<1>2. /\ Driver!AbortWith(m.raised, m.abort) /\ nError' = m.abort
      /\ UNCHANGED <<pass, Redo, Redo_why, Redo_eval, Redo_if, oldredo, oldwhy, oldeval, outfile>>
  BY DEF Stop, counters, Driver!AbortWith
<1>3. QED
  BY <1>1, <1>2, HandlersReport DEF Driver!ReadLineAborts, Driver!SourceKept, Driver!counters, Driver!olds

\* A line is a line for the pass loop.
LEMMA StatementReads ==
  ASSUME AssemblerInv, Statement
  PROVE  Driver!ReadLine \/ Driver!ReadLineAborts
<1>1. PICK m : phase = "reading" /\ Good(m) /\ Do(m)
  BY StatementGood DEF GoodStep
<1>2. CASE m.abort = NoError
  BY <1>1, <1>2, BecomeReads DEF Do
<1>3. CASE m.abort # NoError
  BY <1>1, <1>3, StopAborts DEF Do
<1>4. QED
  BY <1>2, <1>3

\* The initial states are those of the pass loop.
LEMMA InitRefines == Init => Driver!DriverInit
BY DEF Init

\* Every step is one of the pass loop, or none.
LEMMA StepRefines ==
  ASSUME AssemblerInv, [Next]_vars
  PROVE  [Driver!DriverNext]_Driver!driverVars
<1>1. CASE OpenPass
  BY <1>1 DEF OpenPass, Driver!DriverNext
<1>2. CASE Statement
  BY <1>2, StatementReads DEF Driver!DriverNext
<1>3. CASE EndOfSource
  BY <1>3 DEF EndOfSource, Driver!DriverNext
<1>4. CASE NextPass
  BY <1>4 DEF NextPass, Driver!DriverNext
<1>5. CASE Finish
  BY <1>5 DEF Finish, Driver!DriverNext
<1>6. CASE UNCHANGED vars
  BY <1>6 DEF vars, counters, loop, Driver!driverVars, Driver!counters, Driver!olds,
              Driver!sourceView
<1>7. QED
  BY <1>1, <1>2, <1>3, <1>4, <1>5, <1>6 DEF Next

\* The assembler takes only the steps the pass loop allows: no handler counts down,
\* gives a reason without ++Redo or touches what belongs to MainShadow (src/main.c).
THEOREM AssemblerImplementsDriver == Spec => ImplementsDriver
<1>1. QED
  BY InitRefines, StepRefines, AssemblerInvariant, PTL
  DEF Spec, ImplementsDriver, Driver!DriverSpec

\* The types of the loop's own variables; the rest of it needs no more than the
\* steps of PassDriver.
LEMMA LoopTypeInit == Init => Driver!DriverTypeOK
<1> SUFFICES ASSUME Init PROVE Driver!DriverTypeOK
  OBVIOUS
<1>1. /\ pass = 1 /\ phase = "opening" /\ Redo = 0 /\ Redo_why = {} /\ Redo_eval = 0
      /\ oldredo = -1 /\ oldwhy = {} /\ oldeval = 0 /\ Redo_if = {}
      /\ bStopAtEnd = [p \in 1 .. MaxPasses |-> FALSE]
      /\ ERRORBUF = {} /\ shown = {} /\ outfile = "absent" /\ nError = Driver!Running
  BY DEF Init, Driver!DriverInit
<1>2. 1 \in 1 .. MaxPasses + 1
  BY AssemblerAssumption
<1>3. QED
  BY <1>1, <1>2 DEF Driver!DriverTypeOK, Driver!Phases, Driver!Results

\* asmerr stays within bStopAtEnd and the messages of the passes there are.
LEMMA ReportTyped ==
  ASSUME Driver!DriverTypeOK, NEW es \in SUBSET LoopErrors(ErrorCodes), Driver!Report(es)
  PROVE  /\ bStopAtEnd' \in [1 .. MaxPasses -> BOOLEAN]
         /\ ERRORBUF' \subseteq Driver!Messages
<1>1. bStopAtEnd \in [1 .. MaxPasses -> BOOLEAN] /\ pass \in 1 .. MaxPasses + 1
      /\ ERRORBUF \subseteq Driver!Messages
  BY DEF Driver!DriverTypeOK
<1>2. bStopAtEnd' \in [1 .. MaxPasses -> BOOLEAN]
  BY <1>1 DEF Driver!Report
<1>3. {<<pass, e>> : e \in es} \subseteq Driver!Messages
  BY <1>1 DEF Driver!Messages
<1>4. QED
  BY <1>1, <1>2, <1>3 DEF Driver!Report

\* The types of what the pass loop keeps.
LEMMA LoopTypeStep ==
  ASSUME Driver!DriverTypeOK, [Driver!DriverNext]_Driver!driverVars
  PROVE  Driver!DriverTypeOK'
<1> USE AssemblerAssumption
    DEF Driver!DriverTypeOK, Driver!Phases, Driver!Results, Driver!Verdicts, Driver!Success,
        Driver!NonAbort, Driver!NotResolvable, Driver!MissingComment, Driver!MissingEndm,
        Driver!counters, Driver!olds
<1>1. CASE Driver!OpenPass \/ Driver!EndOfSource
  BY <1>1 DEF Driver!OpenPass, Driver!EndOfSource
<1>2. Driver!FileError \in LoopErrors(ErrorCodes) /\ Driver!TooManyPasses \in LoopErrors(ErrorCodes)
  BY DEF LoopErrors, ErrorCodes, FatalCodes, Driver!FileError, Driver!TooManyPasses
<1>3. CASE Driver!OpenFails
  BY <1>2, <1>3 DEF Driver!OpenFails, Driver!ReturnWith
<1>4. CASE Driver!SourceMissing
  <2>1. Driver!Report({Driver!FileError}) /\ nError' = Driver!FileError /\ shown' = ERRORBUF'
        /\ phase' = "exited" /\ outfile' = "partial"
        /\ UNCHANGED <<pass, Redo, Redo_why, Redo_eval, Redo_if, oldredo, oldwhy, oldeval>>
    BY <1>4 DEF Driver!SourceMissing, Driver!AbortWith
  <2>2. bStopAtEnd' \in [1 .. MaxPasses -> BOOLEAN] /\ ERRORBUF' \subseteq Driver!Messages
    BY <1>2, <2>1, ReportTyped
  <2>3. QED
    BY <1>2, <2>1, <2>2
<1>5. CASE Driver!ReadLine
  <2>1. PICK es \in SUBSET LoopErrors(ErrorCodes) : Driver!Handled(es)
    BY <1>5 DEF Driver!ReadLine, Driver!StatementErrors
  <2>2. bStopAtEnd' \in [1 .. MaxPasses -> BOOLEAN] /\ ERRORBUF' \subseteq Driver!Messages
    BY <2>1, ReportTyped DEF Driver!Handled
  <2>3. QED
    BY <1>5, <2>1, <2>2 DEF Driver!ReadLine, Driver!Handled
<1>6. CASE Driver!ReadLineAborts
  <2>1. PICK es \in SUBSET LoopErrors(ErrorCodes), e \in LoopErrors(ErrorCodes) : Driver!AbortWith(es, e)
    BY <1>6 DEF Driver!ReadLineAborts, Driver!StatementErrors
  <2>2. es \cup {e} \in SUBSET LoopErrors(ErrorCodes) /\ Driver!Report(es \cup {e})
    BY <2>1 DEF Driver!AbortWith
  <2>3. bStopAtEnd' \in [1 .. MaxPasses -> BOOLEAN] /\ ERRORBUF' \subseteq Driver!Messages
    BY <2>2, ReportTyped
  <2>4. QED
    BY <1>6, <2>1, <2>3 DEF Driver!ReadLineAborts, Driver!AbortWith
<1>7. CASE Driver!CommentOpen \/ Driver!GiveUp \/ Driver!MainEnds
  BY <1>7 DEF Driver!CommentOpen, Driver!GiveUp, Driver!MainEnds, Driver!ReturnWith
<1>8. CASE Driver!NextPass
  BY <1>8 DEF Driver!NextPass, Driver!TakeNextPass, Driver!Deciding, Driver!Shifted,
              Driver!Messages
<1>9. CASE Driver!OutOfPasses
  BY <1>2, <1>9 DEF Driver!OutOfPasses, Driver!TakeNextPass, Driver!Deciding, Driver!Shifted,
                    Driver!Messages
<1>10. CASE Driver!LastPass
  BY <1>10 DEF Driver!LastPass, Driver!ReturnWith
<1>11. CASE UNCHANGED Driver!driverVars
  BY <1>11 DEF Driver!driverVars, Driver!sourceView
<1>12. CASE Driver!ReadLinePanics
  <2>1. PICK es \in SUBSET LoopErrors(ErrorCodes) : Driver!Report(es)
    BY <1>12 DEF Driver!ReadLinePanics, Driver!StatementErrors
  <2>2. bStopAtEnd' \in [1 .. MaxPasses -> BOOLEAN] /\ ERRORBUF' \subseteq Driver!Messages
    BY <2>1, ReportTyped
  <2>3. QED
    BY <1>12, <2>2 DEF Driver!ReadLinePanics
<1>13. QED
  BY <1>1, <1>3, <1>4, <1>5, <1>6, <1>7, <1>8, <1>9, <1>10, <1>11, <1>12 DEF Driver!DriverNext

\* Types of the whole assembler: the symbol table, segments and stacks keep their
\* shape, Ifstack is never empty (its IFF_BASE entry stays), and pass never exceeds
\* nMaxPasses + 1 (src/main.c asmerr writes bStopAtEnd[pass]).
THEOREM AssemblerTypeCorrect == Spec => []TypeOK
<1>1. Init => Driver!DriverTypeOK
  BY LoopTypeInit
<1>2. AssemblerInv /\ Driver!DriverTypeOK /\ [Next]_vars => Driver!DriverTypeOK'
  BY StepRefines, LoopTypeStep
<1>3. AssemblerInv /\ Driver!DriverTypeOK => TypeOK
  <2>1. SUFFICES ASSUME AssemblerInv, Driver!DriverTypeOK PROVE TypeOK
    OBVIOUS
  <2>2. prog \in Seq(Statements)
    BY <2>1, AssemblerAssumption DEF AssemblerInv
  <2>3. Current \in Machine
    BY <2>1 DEF AssemblerInv
  <2>4. QED
    BY <2>1, <2>2, <2>3 DEF TypeOK, Current, Machine
<1>4. QED
  BY <1>1, <1>2, <1>3, AssemblerInvariant, PTL DEF Spec
=============================================================================
