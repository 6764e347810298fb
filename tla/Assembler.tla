------------------------------ MODULE Assembler ------------------------------
(***************************************************************************)
(* One assembly: a source file is run, statement by statement and pass     *)
(* after pass, by the handlers of src/ops.c on the symbol table            *)
(* (src/symbols.c), the segments and the output.  The pass loop is the one *)
(* of PassDriver; here the effect of a line is what its handler does.      *)
(*                                                                         *)
(* A handler is a composition of the functions it calls, each an operator  *)
(* from one machine record to the next, in the order of the calls.  Bytes  *)
(* are abstracted to runs: where they go, how many and for which operand.  *)
(***************************************************************************)
EXTENDS Integers, Sequences

CONSTANTS
  Symbols,         \* names that occur in the sources
  NoLabel,         \* an empty label field
  Segments,        \* names of segments
  InitialSegment,  \* ISEGNAME, which exists from the start
  Predefined,      \* values given with -D, a function on a subset of Symbols
  Programs,        \* the sources considered: sequences of statements
  MaxPasses, AllPasses, RemoveOut,   \* options, see PassDriver
  Verbose,         \* F_verbose # 0
  Format           \* F_format

\* An expression is of + add, where of is a symbol, "." or nothing; a capped one
\* is [[of < add] ? [of - add]] + add, that is of, but at most add.
Nothing == "nothing"
Dot     == "dot"
Expressions == [of : Symbols \cup {Nothing, Dot}, add : Int, cap : BOOLEAN]

\* Pseudo-ops that must have a symbol in the label field and give it a value.
EquOps == {"equ", "set"}

\* The handlers called even where the code is skipped (MF_IF), and the others.
ConditionalOps == {"if", "ifconst", "ifnconst", "else", "endif", "repeat", "repend"}
Ops == ConditionalOps \cup EquOps \cup
  {"lda", "jmp", "nop", "bne", "br", "illegal", "unknown", "label", "dc", "ds", "org", "rorg",
   "rend", "align", "seg", "seg.u", ".equ", "err", "include", "end"}

\* A parsed line: label field, mnemonic or pseudo-op, operand, segment name.
Statements ==
  [op : Ops, lab : Symbols \cup {NoLabel}, exp : Expressions, seg : Segments]

ASSUME AssemblerAssumption ==
  /\ NoLabel \notin Symbols /\ {Nothing, Dot} \cap Symbols = {}
  /\ \A p \in Programs :
       /\ p \in Seq(Statements)
       /\ \A i \in DOMAIN p : /\ p[i].op \in EquOps => p[i].lab \in Symbols
                              /\ p[i].op = ".equ" => p[i].lab = NoLabel
  /\ InitialSegment \in Segments
  /\ DOMAIN Predefined \subseteq Symbols
  /\ \A s \in DOMAIN Predefined : Predefined[s] \in Int
  /\ MaxPasses \in Nat \ {0}
  /\ AllPasses \in BOOLEAN /\ RemoveOut \in BOOLEAN /\ Verbose \in BOOLEAN
  /\ Format \in {"FORMAT_DEFAULT", "FORMAT_RAS", "FORMAT_RAW"}

VARIABLES
  prog,        \* the source file
  pc,          \* next line of it
  symtab,      \* SHash: value and flags of every symbol
  segs,        \* Seglist: origins and flags of every segment
  Csegment,
  Ifstack,     \* top first; the entry at the bottom is the one with IFF_BASE
  Reploop,     \* top first
  Fisclear,    \* nothing was written in this pass yet
  fileorg,     \* the static org of generate(): address of the next byte written
  out,         \* what this pass has written, as runs of bytes
  used,        \* history: the symbol values operands were computed from in this pass
  pass, phase, Redo, Redo_why, Redo_eval, Redo_if, oldredo, oldwhy, oldeval,
  bStopAtEnd, ERRORBUF, shown, outfile, nError    \* see PassDriver

machine  == <<pc, symtab, segs, Csegment, Ifstack, Reploop, Fisclear, fileorg, out, used>>
counters == <<Redo, Redo_why, Redo_eval, Redo_if>>
loop     == <<pass, phase, oldredo, oldwhy, oldeval, shown, outfile, nError>>
vars     == <<prog, machine, counters, bStopAtEnd, ERRORBUF, loop>>

ReasonCodes ==
  {"MNEMONIC_NOT_RESOLVED", "OBSCURE", "DC_NOT_RESOLVED", "DS_NOT_RESOLVED",
   "ALIGN_RELOCATABLE_ORIGIN_NOT_KNOWN", "ALIGN_NORMAL_ORIGIN_NOT_KNOWN",
   "EQU_NOT_RESOLVED", "EQU_VALUE_MISMATCH", "IF_NOT_RESOLVED", "REPEAT_NOT_RESOLVED",
   "FORWARD_REFERENCE", "PHASE_ERROR", "BRANCH_OUT_OF_RANGE", "INCLUDE_FAILED"}

\* The entries of sErrorDef the handlers below use, and those with bFatal.
Warnings ==
  {"ERROR_ILLEGAL_ADDRESSING_MODE", "ERROR_BRANCH_OUT_OF_RANGE",
   "ERROR_ORIGIN_REVERSE_INDEXED", "ERROR_EQU_VALUE_MISMATCH",
   "ERROR_LABEL_MISMATCH", "ERROR_REPEAT_NEGATIVE"}
FatalCodes ==
  {"ERROR_FILE_ERROR", "ERROR_SYNTAX_ERROR",
   "ERROR_UNKNOWN_MNEMONIC", "ERROR_ERR_PSEUDO_OP_ENCOUNTERED",
   "ERROR_ADDRESS_MUST_BE_LT_100", "ERROR_AVOID_SEGFAULT"}
ErrorCodes == Warnings \cup FatalCodes
NoError    == "none"

\* The pass loop reports one more, and it is fatal.
LoopErrors(codes) == codes \cup {"ERROR_TOO_MANY_PASSES"}

\* The pass loop.  The sources here have no comments and no macros.
Driver == INSTANCE PassDriver
  WITH Counts <- Nat, Reasons <- ReasonCodes, Errors <- LoopErrors(ErrorCodes),
       FatalErrors <- LoopErrors(FatalCodes), mlflag <- FALSE, macroOpen <- FALSE

-----------------------------------------------------------------------------
(***************************************************************************)
(* The machine record: the variables a handler works on, the errors it has *)
(* reported and the one it aborted with.                                   *)
(***************************************************************************)

Current ==
  [pc |-> pc, symtab |-> symtab, segs |-> segs, cs |-> Csegment, ifs |-> Ifstack,
   reps |-> Reploop, fisclear |-> Fisclear, fileorg |-> fileorg, out |-> out, used |-> used,
   Redo |-> Redo, why |-> Redo_why, eval |-> Redo_eval, rif |-> Redo_if,
   raised |-> {}, abort |-> NoError]

\* Mutant of Bump: a reason without a request.
BumpOnlyWhy(m, why) == [m EXCEPT !.why = @ \cup {why}]

\* ++Redo; Redo_why |= why
Bump(m, why) == [m EXCEPT !.Redo = @ + 1, !.why = @ \cup {why}]

\* asmerr(e, true, ...): the process exits inside the call, and nothing that
\* comes later in the handler reports anything.
Abort(m, e) == [m EXCEPT !.abort = IF @ = NoError THEN e ELSE @]

\* asmerr(e, false, ...)
Asmerr(m, e) == [m EXCEPT !.raised = IF m.abort = NoError THEN @ \cup {e} ELSE @]

Seg(m) == m.segs[m.cs]

\* The program counter a label or "." stands for, and whether it is known.
PC(m) == IF Seg(m).inRorg
         THEN [val |-> Seg(m).rorg, unk |-> Seg(m).runk]
         ELSE [val |-> Seg(m).org, unk |-> Seg(m).unk]

-----------------------------------------------------------------------------
(***************************************************************************)
(* eval                                                                    *)
(***************************************************************************)

Operand(m, x) == IF x.of = Nothing THEN [val |-> 0, unk |-> FALSE]
                 ELSE IF x.of = Dot THEN PC(m)
                 ELSE [val |-> m.symtab[x.of].val, unk |-> m.symtab[x.of].unk]

\* Value and SYM_UNKNOWN flag of what eval() returns.  op_add adds the values of
\* unknown operands too; op_question yields 0 when its condition is unknown.
Value(m, x) ==
  LET a == Operand(m, x)
  IN  [val |-> IF x.cap
               THEN IF ~a.unk /\ a.val < x.add THEN a.val ELSE x.add
               ELSE a.val + x.add,
       unk |-> a.unk]

\* How often the operand occurs in the expression.
Occurrences(x) == IF x.cap THEN 2 ELSE 1

\* What eval() changes: pushsymbol marks the symbol SYM_REF, creating it if need
\* be, and counts it in Redo_eval when it is unknown.
Eval(m, x) ==
  LET a == Operand(m, x)
      seen == [m EXCEPT !.eval = @ + IF a.unk THEN Occurrences(x) ELSE 0]
  IN  IF x.of \notin Symbols THEN seen
      ELSE [seen EXCEPT !.symtab[x.of].ref = TRUE,
                        !.used = IF a.unk THEN @ ELSE @ \cup {<<x.of, a.val>>}]

-----------------------------------------------------------------------------
(***************************************************************************)
(* programlabel                                                            *)
(***************************************************************************)

\* A label that was referenced before anybody knew its value.
ForwardReference(old, here) == old.ref /\ (old.unk \/ here.unk)

\* Mutant of PhaseError: a label that moved down is not noticed.
PhaseErrorUpwards(old, here) == ~old.unk /\ ~here.unk /\ here.val > old.val

\* A label that moved since the last pass.
PhaseError(old, here) == ~old.unk /\ ~here.unk /\ here.val # old.val

\* Mutant of Label: a phase error asks for no other pass.
LabelReportsOnly(m, l) ==
  IF l = NoLabel THEN m
  ELSE LET here == PC(m)
           old == m.symtab[l]
           checked ==
             IF ForwardReference(old, here) THEN Bump(m, "FORWARD_REFERENCE")
             ELSE IF PhaseError(old, here) THEN Asmerr(m, "ERROR_LABEL_MISMATCH")
             ELSE m
       IN  [checked EXCEPT !.symtab[l].val = here.val, !.symtab[l].unk = here.unk]

\* programlabel: the label gets the value of the program counter, and a change of it
\* that an operand of this pass may have missed asks for another pass.
Label(m, l) ==
  IF l = NoLabel THEN m
  ELSE LET here == PC(m)
           old == m.symtab[l]
           quiet == 1 \in m.rif    \* Redo_if & REASON_OBSCURE
           checked ==
             IF ForwardReference(old, here) THEN Bump(m, "FORWARD_REFERENCE")
             ELSE IF PhaseError(old, here)
             THEN Bump(IF quiet THEN m ELSE Asmerr(m, "ERROR_LABEL_MISMATCH"), "PHASE_ERROR")
             ELSE m
       IN  [checked EXCEPT !.symtab[l].val = here.val, !.symtab[l].unk = here.unk]

-----------------------------------------------------------------------------
(***************************************************************************)
(* generate and genfill                                                    *)
(***************************************************************************)
MaxFileSize == 640 * 1024    \* maxFileSize

\* Both origins move over n bytes.
Advance(m, n) ==
  LET s == Seg(m)
      moved == [m EXCEPT !.segs[m.cs].org = @ + n,
                         !.segs[m.cs].rorg = IF s.inRorg THEN @ + n ELSE @]
  IN  IF s.org + n > MaxFileSize THEN Abort(moved, "ERROR_AVOID_SEGFAULT") ELSE moved

\* The run goes to the output file.
Write(m, n, a) ==
  [m EXCEPT !.fisclear = FALSE,
            !.fileorg = Seg(m).org + n,
            !.out = Append(@, [at |-> Seg(m).org, len |-> n, val |-> a.val,
                               unk |-> a.unk, lost |-> Seg(m).unk])]

\* Mutant of Generate: the origin may go back.
GenerateAnywhere(m, n, a) ==
  LET writes == m.Redo = 0 /\ ~Seg(m).bss
  IN  IF writes /\ m.fisclear /\ Seg(m).unk
      THEN [Bump(m, "OBSCURE") EXCEPT !.fisclear = FALSE]
      ELSE Advance(IF writes THEN Write(m, n, a) ELSE m, n)

\* n bytes for the operand a.  They are written only while no other pass has
\* been asked for; the first ones need a known origin, and in the formats
\* without hunks the origin must not be behind what was written.
Generate(m, n, a) ==
  LET writes == m.Redo = 0 /\ ~Seg(m).bss
  IN  IF writes /\ m.fisclear /\ Seg(m).unk
      THEN [Bump(m, "OBSCURE") EXCEPT !.fisclear = FALSE]
      ELSE IF writes /\ ~m.fisclear /\ Format # "FORMAT_RAS" /\ Seg(m).org < m.fileorg
      THEN Abort(m, "ERROR_ORIGIN_REVERSE_INDEXED")
      ELSE Advance(IF writes THEN Write(m, n, a) ELSE m, n)

GenSize == 1024              \* sizeof(Gen)
Blank   == [val |-> 0, unk |-> FALSE]

\* generate() is called block by block.  Only the first call can differ from the
\* others (it may ask for another pass), so those are one call here.
Genfill(m, n) ==
  IF n = 0 THEN m
  ELSE IF n < 0 THEN Abort(m, "ERROR_ORIGIN_REVERSE_INDEXED")
  ELSE IF n <= GenSize THEN Generate(m, n, Blank)
  ELSE Generate(Generate(m, GenSize, Blank), n - GenSize, Blank)

-----------------------------------------------------------------------------
(***************************************************************************)
(* The handlers.  st is the statement: its label st.lab, its expression    *)
(* st.exp, and for SEG the name st.seg.                                    *)
(***************************************************************************)

\* v_mnemonic up to the choice of an addressing mode: the label, the operand,
\* and another pass if the operand is unknown.
Operated(m, st) ==
  LET labelled == Label(m, st.lab)
      seen == Eval(labelled, st.exp)
      bumped == Bump(seen, "MNEMONIC_NOT_RESOLVED")
  IN  IF ~Value(labelled, st.exp).unk THEN seen
      ELSE IF Verbose THEN bumped ELSE Asmerr(bumped, "ERROR_UNKNOWN_MNEMONIC")

\* The operand as the handler sees it: after the label, before its own effects.
OperandOf(m, st) == Value(Label(m, st.lab), st.exp)

\* Mutant of NeedsWord: $100 is taken for a zero page address.
NeedsWordLate(a) == a.unk \/ a.val > 256

\* AM_BYTEADR becomes AM_WORDADR when the operand is unknown or needs two bytes.
NeedsWord(a) == a.unk \/ a.val >= 256

\* A mnemonic with a zero page and an absolute form.
MnemonicMem(m, st) ==
  LET a == OperandOf(m, st)
      done == Operated(m, st)
      checked == IF a.val < -255 THEN Asmerr(done, "ERROR_ADDRESS_MUST_BE_LT_100") ELSE done
  IN  Generate(checked, IF NeedsWord(a) THEN 3 ELSE 2, a)

\* A mnemonic with an absolute form only, such as JMP.
MnemonicWord(m, st) == Generate(Operated(m, st), 3, OperandOf(m, st))

\* A mnemonic without operand.
MnemonicImplied(m, st) ==
  Generate(Label(m, st.lab), 1, Blank)

\* A mnemonic that has no form for its operand (badcode): nothing is generated.
MnemonicIllegal(m, st) ==
  LET refused == Bump(Asmerr(Operated(m, st), "ERROR_ILLEGAL_ADDRESSING_MODE"),
                      "MNEMONIC_NOT_RESOLVED")
  IN  IF Verbose THEN refused ELSE Asmerr(refused, "ERROR_UNKNOWN_MNEMONIC")

\* A relative branch, two bytes long.  Nothing is computed from an unknown pc.
MnemonicRel(m, st) ==
  LET a == OperandOf(m, st)
      done == Operated(m, st)
      dest == a.val - PC(done).val - 2
      reached == ~a.unk /\ ~PC(done).unk /\ dest \in -128 .. 127
      tooFar == ~a.unk /\ ~PC(done).unk /\ dest \notin -128 .. 127
      checked == IF tooFar
                 THEN Bump(Asmerr(done, "ERROR_BRANCH_OUT_OF_RANGE"), "BRANCH_OUT_OF_RANGE")
                 ELSE done
  IN  Generate(checked, 2, [val |-> IF reached THEN dest ELSE 0, unk |-> a.unk])

\* A branch of the F8.  A target that is out of reach is reported, but no other
\* pass is asked for, and the bytes are generated all the same.
generate_branch(m, st) ==
  LET a == OperandOf(m, st)
      seen == Eval(Label(m, st.lab), st.exp)
      known == ~a.unk /\ ~PC(seen).unk
      disp == a.val - PC(seen).val - 1
      checked == IF a.unk THEN Bump(seen, "MNEMONIC_NOT_RESOLVED")
                 ELSE IF known /\ disp \notin -128 .. 127
                 THEN Asmerr(seen, "ERROR_BRANCH_OUT_OF_RANGE")
                 ELSE seen
  IN  Generate(checked, 2, [val |-> IF known THEN disp ELSE 0, unk |-> a.unk])

\* Mutant of v_dc: the other pass is asked for when the bytes are out.
v_dcLate(m, st) ==
  LET a == OperandOf(m, st)
      written == Generate(Eval(Label(m, st.lab), st.exp), 1, a)
  IN  IF a.unk THEN Bump(written, "DC_NOT_RESOLVED") ELSE written

v_dc(m, st) ==
  LET a == OperandOf(m, st)
      seen == Eval(Label(m, st.lab), st.exp)
      bumped == IF a.unk THEN Bump(seen, "DC_NOT_RESOLVED") ELSE seen
      checked == IF a.val \in -255 .. 255 THEN bumped
                 ELSE Asmerr(bumped, "ERROR_ADDRESS_MUST_BE_LT_100")
  IN  Generate(checked, 1, a)

v_ds(m, st) ==
  LET a == OperandOf(m, st)
      seen == Eval(Label(m, st.lab), st.exp)
  IN  IF a.unk THEN Bump(seen, "DS_NOT_RESOLVED") ELSE Genfill(seen, a.val)

v_org(m, st) ==
  LET a == Value(m, st.exp)
      seen == Eval(m, st.exp)
  IN  Label([seen EXCEPT !.segs[m.cs].org = a.val, !.segs[m.cs].unk = a.unk], st.lab)

v_rorg(m, st) ==
  LET a == Value(m, st.exp)
      seen == Eval(m, st.exp)
  IN  Label([seen EXCEPT !.segs[m.cs].inRorg = TRUE, !.segs[m.cs].rorg = a.val,
                         !.segs[m.cs].runk = a.unk], st.lab)

v_rend(m, st) == [Label(m, st.lab) EXCEPT !.segs[m.cs].inRorg = FALSE]

\* Bytes to the next multiple of n, n itself when there is none to skip.  The
\* division is one of unsigned longs, where a negative n is larger than any at.
Padding(at, n) == n - (IF n > 0 THEN at % n ELSE at)

v_align(m, st) ==
  LET a == Value(m, st.exp)
      seen == Eval(m, st.exp)
      why == IF Seg(m).inRorg THEN "ALIGN_RELOCATABLE_ORIGIN_NOT_KNOWN"
             ELSE "ALIGN_NORMAL_ORIGIN_NOT_KNOWN"
  IN  IF a.val = 0 THEN Asmerr(seen, "ERROR_SYNTAX_ERROR")
      ELSE IF a.unk \/ PC(m).unk THEN Label(Bump(seen, why), st.lab)
      ELSE IF Padding(PC(m).val, a.val) = a.val THEN Label(seen, st.lab)
      ELSE Label(Genfill(seen, Padding(PC(m).val, a.val)), st.lab)

\* A segment as clearsegs leaves it and v_seg creates it.
v_seg(m, st) ==
  LET old == m.segs[st.seg]
  IN  Label([m EXCEPT !.cs = st.seg,
                      !.segs[st.seg].made = TRUE,
                      !.segs[st.seg].bss = IF old.made THEN @ ELSE st.op = "seg.u"], st.lab)

\* lab->value = sym->value; lab->flags = sym->flags & ...: SYM_REF is lost.
Assign(m, l, a) ==
  [m EXCEPT !.symtab[l] = [val |-> a.val, unk |-> a.unk, ref |-> FALSE]]

\* The symbol must not change its value once it is known; it may become known.
v_equ(m, st) ==
  LET a == Value(m, st.exp)
      seen == Eval(m, st.exp)
      old == seen.symtab[st.lab]
      checked ==
        IF old.unk THEN seen
        ELSE IF a.unk THEN Bump(seen, "EQU_NOT_RESOLVED")
        ELSE IF old.val # a.val
        THEN Bump(Asmerr(seen, "ERROR_EQU_VALUE_MISMATCH"), "EQU_VALUE_MISMATCH")
        ELSE seen
  IN  Assign(checked, st.lab, a)

v_set(m, st) ==
  Assign(Eval(m, st.exp), st.lab, Value(m, st.exp))

\* ". EQU exp" evaluates exp and then is ORG or RORG, which evaluates it again.
DotEqu(m, st) ==
  IF Seg(m).inRorg THEN v_rorg(Eval(m, st.exp), st) ELSE v_org(Eval(m, st.exp), st)

-----------------------------------------------------------------------------
(***************************************************************************)
(* Conditional assembly and loops                                          *)
(***************************************************************************)
IsBase(m)    == Len(m.ifs) = 1
Active(m)    == m.ifs[1].xtrue /\ m.ifs[1].acctrue
PushIf(m, b) == [m EXCEPT !.ifs = <<[xtrue |-> b, acctrue |-> Active(m)]>> \o @]

v_if(m, st) ==
  LET a == OperandOf(m, st)
      seen == Eval(Label(m, st.lab), st.exp)
      unresolved == PushIf(Bump(seen, "IF_NOT_RESOLVED"), FALSE)
  IN  IF ~Active(m) THEN PushIf(m, FALSE)
      ELSE IF a.unk THEN [unresolved EXCEPT !.ifs[1].acctrue = FALSE, !.rif = @ \cup {0}]
      ELSE PushIf(seen, a.val # 0)

\* These two do not look whether they are in a part that is skipped.
v_ifconst(m, st) ==
  PushIf(Eval(Label(m, st.lab), st.exp), ~OperandOf(m, st).unk)
v_ifnconst(m, st) ==
  PushIf(Eval(Label(m, st.lab), st.exp), OperandOf(m, st).unk)

v_else(m, st) ==
  IF IsBase(m) \/ ~m.ifs[1].acctrue THEN m
  ELSE [Label(m, st.lab) EXCEPT !.ifs[1].xtrue = ~@]

\* Mutant of v_endif: without the test for IFF_BASE.
v_endifAlways(m, st) ==
  [IF m.ifs[1].acctrue THEN Label(m, st.lab) ELSE m EXCEPT !.ifs = Tail(@)]

v_endif(m, st) ==
  IF IsBase(m) THEN m
  ELSE [IF m.ifs[1].acctrue THEN Label(m, st.lab) ELSE m EXCEPT !.ifs = Tail(@)]

\* m.pc is already the line after REPEAT, which is where REPEND goes back to.
v_repeat(m, st) ==
  LET a == OperandOf(m, st)
      seen == Eval(Label(m, st.lab), st.exp)
      entry == [at |-> m.pc, count |-> a.val, unk |-> a.unk]
      pushed == [PushIf(seen, TRUE) EXCEPT !.reps = <<entry>> \o @]
  IN  IF ~Active(m) THEN PushIf(m, FALSE)
      ELSE IF a.val = 0 THEN PushIf(seen, FALSE)
      ELSE IF a.val < 0 THEN Asmerr(PushIf(seen, FALSE), "ERROR_REPEAT_NEGATIVE")
      ELSE IF a.unk THEN Bump(pushed, "REPEAT_NOT_RESOLVED") ELSE pushed

\* Mutant of v_repend: the count is not counted down.
v_rependForever(m, st) ==
  IF ~Active(m) THEN v_endif(m, st)
  ELSE IF m.reps = <<>> THEN m
  ELSE IF ~m.reps[1].unk /\ m.reps[1].count > 1 THEN [m EXCEPT !.pc = m.reps[1].at]
  ELSE v_endif([m EXCEPT !.reps = Tail(@)], st)

v_repend(m, st) ==
  IF ~Active(m) THEN v_endif(m, st)
  ELSE IF m.reps = <<>> THEN m
  ELSE IF ~m.reps[1].unk /\ m.reps[1].count > 1
  THEN [m EXCEPT !.reps[1].count = @ - 1, !.pc = m.reps[1].at]
  ELSE v_endif([m EXCEPT !.reps = Tail(@)], st)

-----------------------------------------------------------------------------
(***************************************************************************)
(* Actions                                                                 *)
(***************************************************************************)

\* One file: MainShadow calls a handler with the line counter already advanced.
Fetched == [Current EXCEPT !.pc = @ + 1]
Line    == prog[pc]
At(op)  == phase = "reading" /\ pc <= Len(prog) /\ Line.op = op

\* The handler has returned m, or asmerr has ended the process inside it.
Become(m) ==
  /\ pc' = m.pc /\ symtab' = m.symtab /\ segs' = m.segs /\ Csegment' = m.cs
  /\ Ifstack' = m.ifs /\ Reploop' = m.reps /\ Fisclear' = m.fisclear
  /\ fileorg' = m.fileorg /\ out' = m.out /\ used' = m.used
  /\ Redo' = m.Redo /\ Redo_why' = m.why /\ Redo_eval' = m.eval /\ Redo_if' = m.rif
  /\ Driver!Report(m.raised)
  /\ UNCHANGED <<prog, loop>>

Stop(m) ==
  /\ Driver!AbortWith(m.raised, m.abort)
  /\ UNCHANGED <<prog, machine, counters, pass, oldredo, oldwhy, oldeval, outfile>>

\* (The quantifier has TLC compute m once.)
Do(m) == \E n \in {m} : IF n.abort = NoError THEN Become(n) ELSE Stop(n)

\* Mnemonics and most pseudo-ops are called only where the code is active; those
\* with MF_IF are called everywhere.
WhenActive(op, m) == At(op) /\ Active(Current) /\ Do(m)
Always(op, m)     == At(op) /\ Do(m)

Skip == /\ phase = "reading" /\ pc <= Len(prog)
        /\ ~Active(Current) /\ Line.op \notin ConditionalOps
        /\ Become(Fetched)

Mnemonic ==
  \/ WhenActive("lda", MnemonicMem(Fetched, Line))
  \/ WhenActive("jmp", MnemonicWord(Fetched, Line))
  \/ WhenActive("nop", MnemonicImplied(Fetched, Line))
  \/ WhenActive("bne", MnemonicRel(Fetched, Line))
  \/ WhenActive("br", generate_branch(Fetched, Line))
  \/ WhenActive("illegal", MnemonicIllegal(Fetched, Line))
  \/ WhenActive("unknown", Asmerr(Fetched, "ERROR_UNKNOWN_MNEMONIC"))

LabelOnly == WhenActive("label", Label(Fetched, Line.lab))
Dc     == WhenActive("dc", v_dc(Fetched, Line))
Ds     == WhenActive("ds", v_ds(Fetched, Line))
Org    == WhenActive("org", v_org(Fetched, Line))
Rorg   == WhenActive("rorg", v_rorg(Fetched, Line))
Rend   == WhenActive("rend", v_rend(Fetched, Line))
Align  == WhenActive("align", v_align(Fetched, Line))
SegOp  == \/ WhenActive("seg", v_seg(Fetched, Line))
          \/ WhenActive("seg.u", v_seg(Fetched, Line))
Equ    == WhenActive("equ", v_equ(Fetched, Line))
SetOp  == WhenActive("set", v_set(Fetched, Line))
DotEquOp == WhenActive(".equ", DotEqu(Fetched, Line))
Conditional ==
  \/ Always("if", v_if(Fetched, Line))
  \/ Always("ifconst", v_ifconst(Fetched, Line))
  \/ Always("ifnconst", v_ifnconst(Fetched, Line))
  \/ Always("else", v_else(Fetched, Line))
  \/ Always("endif", v_endif(Fetched, Line))
Repeat == \/ Always("repeat", v_repeat(Fetched, Line))
          \/ Always("repend", v_repend(Fetched, Line))

\* ERR; INCLUDE of a file that does not exist; END, which seeks to the end.
ErrOp   == WhenActive("err",
             Abort(Label(Fetched, Line.lab), "ERROR_ERR_PSEUDO_OP_ENCOUNTERED"))
Include == WhenActive("include",
             Bump(Asmerr(Label(Fetched, Line.lab), "ERROR_FILE_ERROR"), "INCLUDE_FAILED"))
EndOp   == WhenActive("end", [Fetched EXCEPT !.pc = Len(prog) + 1])

Statement ==
  \/ Skip \/ Mnemonic \/ LabelOnly
  \/ Dc \/ Ds \/ Org \/ Rorg \/ Rend \/ Align \/ SegOp \/ Equ \/ SetOp \/ DotEquOp
  \/ Conditional \/ Repeat
  \/ ErrOp \/ Include \/ EndOp

-----------------------------------------------------------------------------
BaseIf == <<[xtrue |-> TRUE, acctrue |-> TRUE]>>

\* The stacks are unwound to what they were before the file was opened.
EndOfSource ==
  /\ pc > Len(prog)
  /\ Driver!EndOfSource
  /\ Ifstack' = BaseIf /\ Reploop' = <<>>
  /\ UNCHANGED <<prog, pc, symtab, segs, Csegment, Fisclear, fileorg, out, used>>

OpenPass ==
  /\ Driver!OpenPass
  /\ pc' = 1 /\ Fisclear' = TRUE /\ out' = <<>> /\ used' = {}
  /\ UNCHANGED <<prog, symtab, segs, Csegment, Ifstack, Reploop, fileorg>>

\* clearrefs; the values and SYM_UNKNOWN flags stay.
ClearRefs == [s \in Symbols |-> [symtab[s] EXCEPT !.ref = FALSE]]

\* clearsegs; the origins stay but count as unknown.
ClearSegs == [s \in Segments |-> [segs[s] EXCEPT !.unk = TRUE, !.runk = TRUE, !.inRorg = FALSE]]

NextPass ==
  /\ Driver!NextPass
  /\ symtab' = ClearRefs /\ segs' = ClearSegs
  /\ UNCHANGED <<prog, pc, Csegment, Ifstack, Reploop, Fisclear, fileorg, out, used>>

\* The ways out of the loop leave the machine as it is.
Finish ==
  /\ Driver!GiveUp \/ Driver!OutOfPasses \/ Driver!LastPass \/ Driver!MainEnds
  /\ UNCHANGED <<prog, machine>>

NewSegment == [org |-> 0, unk |-> TRUE, rorg |-> 0, runk |-> TRUE,
               inRorg |-> FALSE, bss |-> FALSE, made |-> FALSE]

Init ==
  /\ prog \in Programs
  /\ pc = 1
  /\ symtab = [s \in Symbols |->
                 IF s \in DOMAIN Predefined
                 THEN [val |-> Predefined[s], unk |-> FALSE, ref |-> FALSE]
                 ELSE [val |-> 0, unk |-> TRUE, ref |-> FALSE]]
  /\ segs = [s \in Segments |-> [NewSegment EXCEPT !.made = (s = InitialSegment)]]
  /\ Csegment = InitialSegment
  /\ Ifstack = BaseIf /\ Reploop = <<>>
  /\ Fisclear = TRUE /\ fileorg = 0 /\ out = <<>> /\ used = {}
  /\ Redo_eval = 0 /\ Driver!DriverInit

Next == OpenPass \/ Statement \/ EndOfSource \/ NextPass \/ Finish

Spec == Init /\ [][Next]_vars

\* dasm is one sequential process.
FairSpec == Spec /\ WF_vars(Next)

-----------------------------------------------------------------------------
(***************************************************************************)
(* Types                                                                   *)
(***************************************************************************)
SymbolEntry  == [val : Int, unk : BOOLEAN, ref : BOOLEAN]
SegmentEntry == [org : Int, unk : BOOLEAN, rorg : Int, runk : BOOLEAN,
                 inRorg : BOOLEAN, bss : BOOLEAN, made : BOOLEAN]
IfEntry      == [xtrue : BOOLEAN, acctrue : BOOLEAN]
RepeatEntry  == [at : Nat \ {0}, count : Int, unk : BOOLEAN]
RunEntry     == [at : Int, len : Nat, val : Int, unk : BOOLEAN, lost : BOOLEAN]

TypeOK ==
  /\ prog \in Seq(Statements) /\ pc \in Nat \ {0}
  /\ symtab \in [Symbols -> SymbolEntry]
  /\ segs \in [Segments -> SegmentEntry] /\ Csegment \in Segments
  /\ Ifstack \in Seq(IfEntry) /\ Ifstack # <<>> /\ Reploop \in Seq(RepeatEntry)
  /\ Fisclear \in BOOLEAN /\ fileorg \in Int /\ out \in Seq(RunEntry)
  /\ used \subseteq Symbols \X Int
  /\ Driver!DriverTypeOK

-----------------------------------------------------------------------------
(***************************************************************************)
(* Properties                                                              *)
(***************************************************************************)
LabelOf(lines) == {prog[i].lab : i \in {j \in DOMAIN prog : prog[j].op \in lines}}

\* The symbols that can have one value only: not reassigned with SET, and not
\* defined both as a label and with EQU, which forgets who referred to it.
Stable == Symbols \ (LabelOf({"set"}) \cup (LabelOf({"equ"}) \cap LabelOf(Ops \ EquOps)))

\* When dasm decides that no other pass is needed, every operand of the pass whose
\* symbol was known when it was looked up was computed from the value that symbol
\* has at the end: no forward reference, phase error or EQU mismatch slips through
\* the flags that ask for another pass.  Nothing is said of operands that were not
\* known: ORG, RORG, EQU, SET and REPEAT take them for 0, IFCONST for absent, and
\* the pass can be accepted (see BranchFromUnknownRetried for such a source).
FinalPassConsistent ==
  nError \in {Driver!Success, Driver!NonAbort} =>
    \A u \in used : u[1] \in Stable => ~symtab[u[1]].unk /\ symtab[u[1]].val = u[2]

\* No byte of the output comes from an operand that was not known: the counter
\* is raised before the bytes of the statement are generated.
UnknownNeverWritten == \A i \in DOMAIN out : ~out[i].unk

\* The output has no hunks: runs lie in the file in the order of their addresses
\* and never overlap, whatever segments and origins they come from, so an
\* address is its offset in the file.
OutputInOrder ==
  Format # "FORMAT_RAS" =>
    \A i, j \in DOMAIN out : i < j => out[i].at + out[i].len <= out[j].at

\* LastPass drops the errors of a successful pass.  All it ever drops are the
\* warning of REPEAT and, in sources for the F8, the branch that is out of range:
\* every other error that is not fatal asks for another pass.
OnlyTwoDropped ==
  nError = Driver!Success =>
    \A msg \in ERRORBUF :
      \/ msg[2] = "ERROR_REPEAT_NEGATIVE"
      \/ msg[2] = "ERROR_BRANCH_OUT_OF_RANGE" /\ \E i \in DOMAIN prog : prog[i].op = "br"

\* Every assembly ends: all loops of the source are finite, and the passes too.
Terminates == <>(phase = "exited")

\* The assembler takes only the steps the pass loop allows its statements.
ImplementsDriver == Driver!DriverSpec

\* "Don't bother - we'll take another pass" (ops.c:475): a branch from an unknown
\* program counter is never part of the final output.
BranchFromUnknownRetried ==
  [][At("bne") /\ Active(Current) /\ PC(Label(Current, Line.lab)).unk /\ nError' = nError
     => Redo' > 0]_vars
=============================================================================
