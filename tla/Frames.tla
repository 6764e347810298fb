-------------------------------- MODULE Frames --------------------------------
(***************************************************************************)
(* Include files, macro calls, conditionals and loops: the four stacks the *)
(* lines of a source work on (pIncfile, Ifstack, Reploop and the scopes of *)
(* local labels), over several passes.                                     *)
(*                                                                         *)
(* A frame of pIncfile is a file or a macro.  The entries of Ifstack and   *)
(* Reploop remember the frame they belong to by its address.  An INCFILE   *)
(* is freed when its frame ends, and the next one may get the same address.*)
(***************************************************************************)
EXTENDS Integers, Sequences, FiniteSets

CONSTANTS
  Items,        \* what the lines that generate code are told apart by
  Names,        \* names of macros
  Paths,        \* names of files
  MainFile,     \* the one given to dasm
  Sources,      \* families of runs: the lines of the files that exist, and option -S
  Addresses,    \* where an INCFILE may be allocated
  Null,
  MAXMACLEVEL,
  MaxOpenFiles, \* how many fopen() allows at a time
  MaxPasses     \* option -p

\* The operand of IF and REPEAT; with later, it is not known in the first pass.
Conditions == [val : Int, later : BOOLEAN]

Bare == {"else", "endif", "repend", "endm", "mexit", "end", "subroutine", "label"}

\* A parsed line: mnemonic and operand.  A label field matters for "label" only.
Lines ==
  [op : Bare, arg : {Null}] \cup [op : {"emit"}, arg : Items]
    \cup [op : {"if", "repeat"}, arg : Conditions]
    \cup [op : {"mac", "call"}, arg : Names] \cup [op : {"include"}, arg : Paths]

ASSUME FrameAssumption ==
  /\ Addresses # {} /\ Null \notin Addresses
  /\ \A S \in Sources : \A s \in S :
       /\ DOMAIN s.files \subseteq Paths /\ MainFile \in DOMAIN s.files
       /\ \A p \in DOMAIN s.files : s.files[p] \in Seq(Lines)
       /\ s.bStrictMode \in BOOLEAN
  /\ MAXMACLEVEL \in Nat /\ MaxOpenFiles \in Nat \ {0} /\ MaxPasses \in Nat \ {0}

VARIABLES
  source,
  pIncfile,    \* the frames, innermost first
  Inclevel, Mlevel,
  Ifstack,     \* innermost first; the last is the one with IFF_BASE
  Reploop,     \* innermost first
  macros,      \* the macros in MHash
  Localindex, Lastlocalindex,              \* scope of .labels
  Localdollarindex, Lastlocaldollarindex,  \* scope of labels$
  nMacroDeclarations, nMacroClosings,
  pass,
  Redo,        \* somebody asked for another pass
  bStopAtEnd,  \* of this pass
  status,
  out,         \* history: the items generated in this pass
  calls,       \* history: macro calls in this pass
  uses         \* history: the scopes in which this pass has generated something

frames  == <<pIncfile, Inclevel, Mlevel>>
stacks  == <<Ifstack, Reploop>>
scopes  == <<Localindex, Lastlocalindex, Localdollarindex, Lastlocaldollarindex>>
counts  == <<nMacroDeclarations, nMacroClosings>>
verdict == <<Redo, bStopAtEnd>>
loop    == <<source, pass, status>>
history == <<out, calls, uses>>
vars    == <<frames, stacks, macros, scopes, counts, verdict, loop, history>>

-----------------------------------------------------------------------------
Top       == Head(pIncfile)
Text(f)   == IF f.macro THEN macros[f.text].strlist ELSE source.files[f.text]
Fetched   == <<[Top EXCEPT !.pos = @ + 1]>> \o Tail(pIncfile)
AtLine    == status = "reading" /\ pIncfile # <<>> /\ Top.pos <= Len(Text(Top))
AtEnd     == status = "reading" /\ pIncfile # <<>> /\ Top.pos > Len(Text(Top))
Line      == Text(Top)[Top.pos]
At(op)    == AtLine /\ Line.op = op
Active    == Head(Ifstack).xtrue /\ Head(Ifstack).acctrue
Unknown(c) == c.later /\ pass = 1

\* The addresses malloc() may return.  One that nothing refers to is as good as another.
Live       == {pIncfile[i].addr : i \in DOMAIN pIncfile}
Referenced == {Ifstack[i].file : i \in DOMAIN Ifstack}
                \cup {Reploop[i].file : i \in DOMAIN Reploop}
Unused     == Addresses \ (Live \cup Referenced)
Allocated  == ((Referenced \cap Addresses) \ Live)
                \cup (IF Unused = {} THEN {} ELSE {CHOOSE a \in Unused : TRUE})

BaseIf == [file |-> Null, xtrue |-> TRUE, acctrue |-> TRUE]

-----------------------------------------------------------------------------
(***************************************************************************)
(* Frames of files                                                         *)
(***************************************************************************)

FileFrame(a, path, call) ==
  [addr |-> a, macro |-> FALSE, text |-> path, pos |-> 1, saveidx |-> 0,
   savedolidx |-> 0, call |-> call]

\* INCLUDE: pushinclude() is all there is to it.
Include ==
  /\ At("include") /\ Active
  /\ IF Line.arg \in DOMAIN source.files /\ Inclevel < MaxOpenFiles
     THEN /\ \E a \in Allocated :
               pIncfile' = <<FileFrame(a, Line.arg, Top.call)>> \o Fetched
          /\ Inclevel' = Inclevel + 1
          /\ UNCHANGED verdict
     ELSE /\ pIncfile' = Fetched
          /\ Redo' = TRUE /\ bStopAtEnd' = TRUE
          /\ UNCHANGED Inclevel
  /\ UNCHANGED <<Mlevel, stacks, macros, scopes, counts, loop, history>>

\* The entries of a stack above the first one of another frame are removed.
Others(stack, a) == {k \in DOMAIN stack : stack[k].file # a}

\* Mutant of Unwound: if in place of while.
UnwoundOne(stack, a) ==
  IF stack # <<>> /\ Head(stack).file = a THEN Tail(stack) ELSE stack

Unwound(stack, a) ==
  IF Others(stack, a) = {} THEN <<>>
  ELSE SubSeq(stack, CHOOSE k \in Others(stack, a) : \A j \in Others(stack, a) : k <= j,
              Len(stack))

\* fgets() returns NULL.
EndOfFile ==
  /\ AtEnd /\ ~Top.macro
  /\ Ifstack' = Unwound(Ifstack, Top.addr)
  /\ Reploop' = Unwound(Reploop, Top.addr)
  /\ pIncfile' = Tail(pIncfile)
  /\ Inclevel' = Inclevel - 1
  /\ UNCHANGED <<Mlevel, macros, scopes, counts, verdict, loop, history>>

-----------------------------------------------------------------------------
(***************************************************************************)
(* Macros                                                                  *)
(***************************************************************************)

\* The frame of the file whose FILE* the frame on top has.
FileIndex(fs) ==
  CHOOSE k \in DOMAIN fs : ~fs[k].macro /\ \A j \in 1 .. k - 1 : fs[j].macro

\* MAC name: the lines up to ENDM are read from the file, even if the MAC is in a macro.
\* Only the first definition of a name is stored; a skipped one is not stored either.
Mac ==
  /\ At("mac")
  /\ LET name == Line.arg
         k    == FileIndex(Fetched)
         from == Fetched[k].pos
         text == source.files[Fetched[k].text]
         ends == {i \in from .. Len(text) : text[i].op = "endm"}
         to   == CHOOSE i \in ends : \A j \in ends : i <= j
         body == SubSeq(text, from, to - 1)
         repeated == /\ source.bStrictMode /\ name \in DOMAIN macros
                     /\ macros[name].defpass = pass
     IN IF repeated \/ ends = {}
        THEN /\ status' = "aborted"
             /\ UNCHANGED <<pIncfile, macros, counts, source, pass>>
        ELSE /\ pIncfile' = [Fetched EXCEPT ![k].pos = to + 1]
             /\ macros' = IF Active /\ name \notin DOMAIN macros
                          THEN [n \in DOMAIN macros \cup {name} |->
                                  IF n = name THEN [strlist |-> body, defpass |-> pass]
                                              ELSE macros[n]]
                          ELSE macros
             /\ nMacroDeclarations' = nMacroDeclarations + 1
                  + Cardinality({i \in DOMAIN body : body[i].op = "mac"})
             /\ nMacroClosings' = nMacroClosings + 1
             /\ UNCHANGED loop
  /\ UNCHANGED <<Inclevel, Mlevel, stacks, scopes, verdict, history>>

MacroFrame(a, name) ==
  [addr |-> a, macro |-> TRUE, text |-> name, pos |-> 1, saveidx |-> Localindex,
   savedolidx |-> Localdollarindex, call |-> calls + 1]

\* A line whose mnemonic is the name of a macro: v_execmac.
Call ==
  /\ At("call") /\ Active /\ Line.arg \in DOMAIN macros
  /\ IF Mlevel = MAXMACLEVEL
     THEN /\ status' = "aborted"
          /\ UNCHANGED <<pIncfile, Mlevel, scopes, calls, source, pass>>
     ELSE /\ \E a \in Allocated : pIncfile' = <<MacroFrame(a, Line.arg)>> \o Fetched
          /\ Mlevel' = Mlevel + 1
          /\ Localindex' = Lastlocalindex + 1 /\ Lastlocalindex' = Lastlocalindex + 1
          /\ Localdollarindex' = Lastlocaldollarindex + 1
          /\ Lastlocaldollarindex' = Lastlocaldollarindex + 1
          /\ calls' = calls + 1
          /\ UNCHANGED loop
  /\ UNCHANGED <<Inclevel, stacks, macros, counts, verdict, out, uses>>

\* asmerr(ERROR_UNKNOWN_MNEMONIC, false, ...)
UnknownMnemonic ==
  /\ At("call") /\ Active /\ Line.arg \notin DOMAIN macros
  /\ pIncfile' = Fetched
  /\ bStopAtEnd' = TRUE
  /\ UNCHANGED <<Inclevel, Mlevel, stacks, macros, scopes, counts, Redo, loop, history>>

\* Mutant of LeaveMacros: the scope of the labels$ is not restored.
LeaveMacrosKeepDollar(n) ==
  /\ Mlevel' = Mlevel - n
  /\ Localindex' = IF n = 0 THEN Localindex ELSE pIncfile[n].saveidx
  /\ UNCHANGED <<Inclevel, stacks, macros, Lastlocalindex, Localdollarindex,
                 Lastlocaldollarindex, verdict, loop, history>>

\* Mutant of LeaveMacros: the level is not counted down.
LeaveMacrosKeepLevel(n) ==
  /\ Localindex' = IF n = 0 THEN Localindex ELSE pIncfile[n].saveidx
  /\ Localdollarindex' = IF n = 0 THEN Localdollarindex ELSE pIncfile[n].savedolidx
  /\ UNCHANGED <<Inclevel, Mlevel, stacks, macros, Lastlocalindex, Lastlocaldollarindex,
                 verdict, loop, history>>

\* v_endm, called for the n innermost frames, which are macros.  What they have left
\* in Ifstack and Reploop stays there.
LeaveMacros(n) ==
  /\ Mlevel' = Mlevel - n
  /\ Localindex' = IF n = 0 THEN Localindex ELSE pIncfile[n].saveidx
  /\ Localdollarindex' = IF n = 0 THEN Localdollarindex ELSE pIncfile[n].savedolidx
  /\ UNCHANGED <<Inclevel, stacks, macros, Lastlocalindex, Lastlocaldollarindex,
                 verdict, loop, history>>

\* The frames are popped, and the one below goes on where it was.
Endm(n) == pIncfile' = SubSeq(Fetched, n + 1, Len(pIncfile)) /\ LeaveMacros(n)

\* The list of lines of a macro is at its end.
EndOfMacro == AtEnd /\ Top.macro /\ Endm(1) /\ UNCHANGED counts

\* MEXIT, which does nothing outside a macro.
Mexit == At("mexit") /\ Active /\ Endm(IF Top.macro THEN 1 ELSE 0) /\ UNCHANGED counts

\* ENDM without MAC: as MEXIT, but parse() counts it even where lines are skipped.
StrayEndm ==
  /\ At("endm")
  /\ Endm(IF Active /\ Top.macro THEN 1 ELSE 0)
  /\ nMacroClosings' = nMacroClosings + 1
  /\ UNCHANGED nMacroDeclarations

\* END: the macros called from this file are left, and its position is at the end.
End ==
  /\ At("end") /\ Active
  /\ LET n == FileIndex(Fetched) - 1
         f == Fetched[n + 1]
     IN /\ pIncfile' = <<[f EXCEPT !.pos = Len(Text(f)) + 1]>>
                         \o SubSeq(Fetched, n + 2, Len(pIncfile))
        /\ LeaveMacros(n)
  /\ UNCHANGED counts

-----------------------------------------------------------------------------
(***************************************************************************)
(* Conditionals and loops                                                  *)
(***************************************************************************)

\* Mutant of IfEntry: forgets that the code around is skipped.
IfEntryAlone(x) == [file |-> Top.addr, xtrue |-> x, acctrue |-> TRUE]

IfEntry(x) == [file |-> Top.addr, xtrue |-> x, acctrue |-> Active]

\* pushif(x)
PushIf(x) == Ifstack' = <<IfEntry(x)>> \o Ifstack

If ==
  /\ At("if")
  /\ IF Active /\ Unknown(Line.arg)
     THEN /\ Redo' = TRUE
          /\ Ifstack' = <<[IfEntry(FALSE) EXCEPT !.acctrue = FALSE]>> \o Ifstack
     ELSE /\ PushIf(Active /\ Line.arg.val # 0)
          /\ UNCHANGED Redo
  /\ pIncfile' = Fetched
  /\ UNCHANGED <<Inclevel, Mlevel, Reploop, macros, scopes, counts, bStopAtEnd, loop,
                 history>>

\* ELSE flips the entry on top, whatever frame it belongs to.
Else ==
  /\ At("else")
  /\ Ifstack' = IF Head(Ifstack).acctrue /\ Head(Ifstack).file # Null
                THEN <<[Head(Ifstack) EXCEPT !.xtrue = ~@]>> \o Tail(Ifstack)
                ELSE Ifstack
  /\ pIncfile' = Fetched
  /\ UNCHANGED <<Inclevel, Mlevel, Reploop, macros, scopes, counts, verdict, loop, history>>

\* Mutant of v_endif: even the last entry is popped.
v_endifLast == Ifstack' = IF Head(Ifstack).file \in {Null, Top.addr} THEN Tail(Ifstack)
                          ELSE Ifstack

\* The entry with IFF_BASE stays, and so does ("too many endif's") one of another frame.
v_endif == Ifstack' = IF Head(Ifstack).file = Top.addr THEN Tail(Ifstack) ELSE Ifstack

Endif ==
  /\ At("endif")
  /\ v_endif
  /\ pIncfile' = Fetched
  /\ UNCHANGED <<Inclevel, Mlevel, Reploop, macros, scopes, counts, verdict, loop, history>>

\* seek is a position in the file, or a pointer into the lines of a macro.
LoopEntry(c) ==
  [file |-> Top.addr, macro |-> Top.macro, text |-> Top.text, pos |-> Top.pos + 1,
   count |-> c.val, known |-> ~Unknown(c)]

\* A count of 0, and (#ifdef DAD) one below, skips the loop.
Repeat ==
  /\ At("repeat")
  /\ IF Active /\ Line.arg.val > 0
     THEN /\ PushIf(TRUE)
          /\ Reploop' = <<LoopEntry(Line.arg)>> \o Reploop
          /\ Redo' = (Redo \/ Unknown(Line.arg))
     ELSE PushIf(FALSE) /\ UNCHANGED <<Reploop, Redo>>
  /\ pIncfile' = Fetched
  /\ UNCHANGED <<Inclevel, Mlevel, macros, scopes, counts, bStopAtEnd, loop, history>>

InLoop   == Reploop # <<>> /\ Head(Reploop).file = Top.addr

\* Mutant of OnceMore: Reploop->count-- in place of --Reploop->count.
OnceMorePost == Head(Reploop).known /\ Head(Reploop).count # 0

OnceMore == Head(Reploop).known /\ Head(Reploop).count # 1

\* Where a frame goes on after seek is put into it.  A file sought to the value of a
\* pointer is at its end, unless the pointer is NULL.
Sought(f, r) ==
  IF f.macro THEN [f EXCEPT !.text = r.text, !.pos = r.pos]
  ELSE IF ~r.macro THEN [f EXCEPT !.pos = r.pos]
  ELSE [f EXCEPT !.pos = IF r.pos > Len(macros[r.text].strlist) THEN 1 ELSE Len(Text(f)) + 1]

Seek ==
  IF Top.macro /\ ~Head(Reploop).macro
  THEN status' = "crashed" /\ UNCHANGED pIncfile
  ELSE pIncfile' = <<Sought(Top, Head(Reploop))>> \o Tail(pIncfile) /\ UNCHANGED status

\* Mutant of JumpBack: the count is not decremented.
JumpBackForever == Seek /\ UNCHANGED stacks

\* Back to the line after REPEAT.  A file position used as a pointer is a crash.
JumpBack ==
  /\ Seek
  /\ Reploop' = <<[Head(Reploop) EXCEPT !.count = @ - 1]>> \o Tail(Reploop)
  /\ UNCHANGED Ifstack

LeaveLoop ==
  /\ Reploop' = Tail(Reploop)
  /\ v_endif
  /\ pIncfile' = Fetched
  /\ UNCHANGED status

Repend ==
  /\ At("repend")
  /\ \/ ~Active /\ v_endif /\ pIncfile' = Fetched /\ UNCHANGED <<Reploop, status>>
     \/ Active /\ InLoop /\ OnceMore /\ JumpBack
     \/ Active /\ InLoop /\ ~OnceMore /\ LeaveLoop
     \/ Active /\ ~InLoop /\ pIncfile' = Fetched /\ UNCHANGED <<stacks, status>>
  /\ UNCHANGED <<Inclevel, Mlevel, macros, scopes, counts, verdict, source, pass, history>>

-----------------------------------------------------------------------------
(***************************************************************************)
(* The other lines, and the passes                                         *)
(***************************************************************************)

\* A line that generates something.
Emit ==
  /\ At("emit") /\ Active
  /\ out' = Append(out, Line.arg)
  /\ uses' = uses \cup {[kind |-> ".", index |-> Localindex, call |-> Top.call],
                        [kind |-> "$", index |-> Localdollarindex, call |-> Top.call]}
  /\ pIncfile' = Fetched
  /\ UNCHANGED <<Inclevel, Mlevel, stacks, macros, scopes, counts, verdict, loop, calls>>

\* SUBROUTINE opens a scope of .labels.
Subroutine ==
  /\ At("subroutine") /\ Active
  /\ Localindex' = Lastlocalindex + 1 /\ Lastlocalindex' = Lastlocalindex + 1
  /\ pIncfile' = Fetched
  /\ UNCHANGED <<Inclevel, Mlevel, stacks, macros, Localdollarindex, Lastlocaldollarindex,
                 counts, verdict, loop, history>>

\* programlabel() with a label that is not local opens a scope of labels$.
Label ==
  /\ At("label") /\ Active
  /\ Localdollarindex' = Lastlocaldollarindex + 1
  /\ Lastlocaldollarindex' = Lastlocaldollarindex + 1
  /\ pIncfile' = Fetched
  /\ UNCHANGED <<Inclevel, Mlevel, stacks, macros, Localindex, Lastlocalindex, counts,
                 verdict, loop, history>>

\* Only the handlers with MF_IF are called where the code is skipped.
Skipped == {"emit", "call", "include", "mexit", "end", "subroutine", "label"}
Skip ==
  /\ AtLine /\ Line.op \in Skipped /\ ~Active
  /\ pIncfile' = Fetched
  /\ UNCHANGED <<Inclevel, Mlevel, stacks, macros, scopes, counts, verdict, loop, history>>

ReadLine ==
  \/ Include \/ Mac \/ Call \/ UnknownMnemonic \/ Mexit \/ StrayEndm \/ End \/ If \/ Else
  \/ Endif \/ Repeat \/ Repend \/ Emit \/ Subroutine \/ Label \/ Skip

PassOver == status = "reading" /\ pIncfile = <<>>

\* The next pass starts with what this one left in the stacks and in MHash.
NextPass ==
  /\ PassOver /\ Redo /\ pass < MaxPasses
  /\ pass' = pass + 1
  /\ Redo' = FALSE /\ bStopAtEnd' = FALSE
  /\ Localindex' = 0 /\ Lastlocalindex' = 0
  /\ Localdollarindex' = 0 /\ Lastlocaldollarindex' = 0
  /\ \E a \in Allocated : pIncfile' = <<FileFrame(a, MainFile, 0)>>
  /\ Inclevel' = Inclevel + 1
  /\ out' = <<>> /\ calls' = 0 /\ uses' = {}
  /\ UNCHANGED <<Mlevel, stacks, macros, counts, source, status>>

\* No pass follows: all were used, or (see PassDriver) this one was like the last.
GiveUp ==
  /\ PassOver /\ Redo /\ (pass > 1 \/ pass = MaxPasses)
  /\ status' = "failed"
  /\ UNCHANGED <<frames, stacks, macros, scopes, counts, verdict, source, pass, history>>

LastPass ==
  /\ PassOver /\ ~Redo
  /\ status' = IF nMacroClosings # nMacroDeclarations THEN "missing endm"
               ELSE IF bStopAtEnd THEN "failed" ELSE "complete"
  /\ UNCHANGED <<frames, stacks, macros, scopes, counts, verdict, source, pass, history>>

Init ==
  /\ \E S \in Sources : source \in S
  /\ pIncfile = <<FileFrame(CHOOSE a \in Addresses : TRUE, MainFile, 0)>>
  /\ Inclevel = 1 /\ Mlevel = 0
  /\ Ifstack = <<BaseIf>> /\ Reploop = <<>>
  /\ macros = [n \in {} |-> 0]
  /\ Localindex = 0 /\ Lastlocalindex = 0
  /\ Localdollarindex = 0 /\ Lastlocaldollarindex = 0
  /\ nMacroDeclarations = 0 /\ nMacroClosings = 0
  /\ pass = 1 /\ status = "reading"
  /\ Redo = FALSE /\ bStopAtEnd = FALSE
  /\ out = <<>> /\ calls = 0 /\ uses = {}

Next == ReadLine \/ EndOfFile \/ EndOfMacro \/ NextPass \/ GiveUp \/ LastPass

Spec     == Init /\ [][Next]_vars

\* A single process that never waits.
FairSpec == Spec /\ WF_vars(Next)

-----------------------------------------------------------------------------
(***************************************************************************)
(* Properties                                                              *)
(***************************************************************************)

Frame == [addr : Addresses, macro : BOOLEAN, text : Names \cup Paths, pos : Nat \ {0},
          saveidx : Nat, savedolidx : Nat, call : Nat]
IfNode == [file : Addresses \cup {Null}, xtrue : BOOLEAN, acctrue : BOOLEAN]
LoopNode == [file : Addresses, macro : BOOLEAN, text : Names \cup Paths, pos : Nat \ {0},
             count : Nat \ {0}, known : BOOLEAN]

\* The types of the variables.
TypeOK ==
  /\ pIncfile \in Seq(Frame)
  /\ \A i \in DOMAIN pIncfile :
       pIncfile[i].text \in (IF pIncfile[i].macro THEN DOMAIN macros ELSE DOMAIN source.files)
  /\ Ifstack \in Seq(IfNode) /\ Reploop \in Seq(LoopNode)
  /\ DOMAIN macros \subseteq Names
  /\ \A n \in DOMAIN macros : /\ macros[n].strlist \in Seq(Lines)
                              /\ macros[n].defpass \in 1 .. pass
  /\ {Localindex, Lastlocalindex, Localdollarindex, Lastlocaldollarindex} \subseteq Nat
  /\ {Mlevel, Inclevel, nMacroDeclarations, nMacroClosings, calls} \subseteq Nat
  /\ pass \in 1 .. MaxPasses /\ Redo \in BOOLEAN /\ bStopAtEnd \in BOOLEAN
  /\ status \in {"reading", "complete", "failed", "aborted", "missing endm", "crashed"}
  /\ out \in Seq(Items)
  /\ uses \subseteq [kind : {".", "$"}, index : Nat, call : Nat]

\* Whatever the source, Ifstack never loses the entry every handler relies on
\* (Ifstack->xtrue is read without a test), and there is only one.
BottomKept ==
  /\ Ifstack # <<>>
  /\ \A i \in DOMAIN Ifstack : Ifstack[i].file = Null <=> i = Len(Ifstack)
  /\ Ifstack[Len(Ifstack)] = BaseIf

\* The levels count the frames, through MEXIT, END and the end of a file, so the limits
\* concern what is nested now and not what was called before.
LevelsCount ==
  /\ Mlevel = Cardinality({i \in DOMAIN pIncfile : pIncfile[i].macro})
  /\ Inclevel = Cardinality({i \in DOMAIN pIncfile : ~pIncfile[i].macro})
  /\ Mlevel <= MAXMACLEVEL /\ Inclevel <= MaxOpenFiles

\* A .label or label$ generated for one macro call is never the one of another call or
\* of the code around it: a scope is used by one call.
ScopesNotShared ==
  \A u, v \in uses : u.kind = v.kind /\ u.index = v.index => u.call = v.call

\* Every source ends, whatever its files and macros call and repeat, if every line of it
\* can be read (arguments that hold themselves are the concern of cleanup()).
Terminates == <>(status # "reading")
=============================================================================
