----------------------------- MODULE PassDriver -----------------------------
(***************************************************************************)
(* The pass loop of dasm: MainShadow from the label `nextpass` on, asmerr, *)
(* the two pass buffers and the end of main (src/main.c).  What the        *)
(* statements of the source do inside a pass is reduced to what the loop   *)
(* can see of it: they ask for another pass and give a reason (Redo,       *)
(* Redo_why), they meet unresolved symbols (Redo_eval) and they call       *)
(* asmerr.  Module Assembler replaces that part by the real handlers.      *)
(***************************************************************************)
EXTENDS Integers

CONSTANTS
  MaxPasses,    \* nMaxPasses: the argument of -p or -P, 10 without either
  AllPasses,    \* bDoAllPasses: -P was given
  RemoveOut,    \* bRemoveOutBin: -R was given
  Counts,       \* the values Redo and Redo_eval can have within a pass
  Reasons,      \* the bits of Redo_why
  Errors,       \* the entries of sErrorDef given to asmerr
  FatalErrors   \* those of them that have bFatal set

TooManyPasses == "ERROR_TOO_MANY_PASSES"
FileError     == "ERROR_FILE_ERROR"

\* Statements report every error but the one of the loop itself.
StatementErrors == Errors \ {TooManyPasses}

\* What MainShadow can return besides an error a statement reported.
Running        == "running"
Panicked       == "panic"
Success        == "ERROR_NONE"
NonAbort       == "ERROR_NON_ABORT"
NotResolvable  == "ERROR_NOT_RESOLVABLE"
MissingComment == "ERROR_MISSING_COMMENT_END"
MissingEndm    == "ERROR_MISSING_ENDM"
Verdicts == {Success, NonAbort, NotResolvable, MissingComment, MissingEndm}
Results  == {Running, Panicked} \cup Verdicts \cup Errors

ASSUME DriverAssumption ==
  /\ MaxPasses \in Nat \ {0}       \* -p and -P panic on anything smaller
  /\ AllPasses \in BOOLEAN /\ RemoveOut \in BOOLEAN
  /\ Counts \subseteq Nat /\ 0 \in Counts
  /\ FatalErrors \subseteq Errors
  /\ {TooManyPasses, FileError} \subseteq FatalErrors
  /\ Errors \cap ({Running, Panicked} \cup Verdicts) = {}   \* never given to asmerr

VARIABLES
  pass,         \* number of the current pass
  phase,        \* where control is, see Phases
  Redo, Redo_why, Redo_eval,    \* what this pass asked for
  oldredo, oldwhy, oldeval,     \* what the pass before it asked for
  Redo_if,      \* the two low bits of Redo_if: bit 0 this pass, bit 1 the last
  bStopAtEnd,   \* a fatal error was reported in that pass
  ERRORBUF,     \* the error messages buffered, as <<pass, error>>
  shown,        \* the error messages printed
  mlflag,       \* a multi-line comment is open
  macroOpen,    \* nMacroDeclarations # nMacroClosings
  outfile,      \* the output file: absent, partial or complete
  nError        \* what MainShadow returned or exit was called with

counters   == <<Redo, Redo_why, Redo_eval, Redo_if>>
olds       == <<oldredo, oldwhy, oldeval>>
sourceView == <<mlflag, macroOpen>>
driverVars == <<pass, phase, counters, olds, bStopAtEnd, ERRORBUF, shown,
                sourceView, outfile, nError>>

\* Written with equations, for the modules that put constants for the variables.
SourceKept == mlflag' = mlflag /\ macroOpen' = macroOpen

Phases == {"opening",    \* at nextpass
           "reading",    \* in the line loop, some include file is open
           "passdone",   \* the last include file was closed
           "returned",   \* MainShadow has returned to main
           "exited"}     \* the process is gone

Messages == (1 .. MaxPasses + 1) \X Errors

DriverTypeOK ==
  /\ pass \in 1 .. MaxPasses + 1
  /\ phase \in Phases
  /\ Redo \in Counts /\ Redo_why \subseteq Reasons /\ Redo_eval \in Counts
  /\ oldredo \in Counts \cup {-1} /\ oldwhy \subseteq Reasons /\ oldeval \in Counts
  /\ Redo_if \subseteq {0, 1}
  /\ bStopAtEnd \in [1 .. MaxPasses -> BOOLEAN]
  /\ ERRORBUF \subseteq Messages /\ shown \subseteq Messages
  /\ mlflag \in BOOLEAN /\ macroOpen \in BOOLEAN
  /\ outfile \in {"absent", "partial", "complete"}
  /\ nError \in Results

\* State at the label nextpass in the first pass (MainShadow, up to
\* set_deferred_errors).  The -D and -M options have been evaluated by then and
\* leave their count of unresolved symbols in Redo_eval.
DriverInit ==
  /\ pass = 1 /\ phase = "opening"
  /\ Redo = 0 /\ Redo_why = {} /\ Redo_eval \in Counts
  /\ oldredo = -1 /\ oldwhy = {} /\ oldeval = 0
  /\ Redo_if = {}
  /\ bStopAtEnd = [p \in 1 .. MaxPasses |-> FALSE]
  /\ ERRORBUF = {} /\ shown = {}
  /\ mlflag = FALSE /\ macroOpen = FALSE
  /\ outfile = "absent" /\ nError = Running

-----------------------------------------------------------------------------
(***************************************************************************)
(* asmerr                                                                  *)
(***************************************************************************)

\* Mutant of Report: bStopAtEnd is an element too short.
ReportNotInLast(es) ==
  /\ bStopAtEnd' = IF pass < MaxPasses /\ es \cap FatalErrors # {}
                   THEN [bStopAtEnd EXCEPT ![pass] = TRUE] ELSE bStopAtEnd
  /\ ERRORBUF' = ERRORBUF \cup {<<pass, e>> : e \in es}

\* The bookkeeping of asmerr for a set of errors reported one after another:
\* a fatal one marks the pass, the text of each is appended to ERRORBUF.
Report(es) ==
  /\ bStopAtEnd' = IF pass <= MaxPasses /\ es \cap FatalErrors # {}
                   THEN [bStopAtEnd EXCEPT ![pass] = TRUE] ELSE bStopAtEnd
  /\ ERRORBUF' = ERRORBUF \cup {<<pass, e>> : e \in es}

\* asmerr(e, true, ...), or any call while no include file is open: the errors
\* of the pass are printed and exit(e) is called, so main never continues.
AbortWith(es, e) ==
  /\ phase' = "exited" /\ nError' = e
  /\ Report(es \cup {e})
  /\ shown' = ERRORBUF'

\* MainShadow returns err to main.
ReturnWith(err) ==
  /\ phase' = "returned" /\ nError' = err

-----------------------------------------------------------------------------
(***************************************************************************)
(* One pass                                                                *)
(***************************************************************************)

\* nextpass: the output file is truncated, the source file is pushed.
OpenPass ==
  /\ phase = "opening"
  /\ outfile' = "partial"
  /\ phase' = "reading"
  /\ SourceKept
  /\ UNCHANGED <<pass, counters, olds, bStopAtEnd, ERRORBUF, shown, nError>>

\* nextpass: fopen of the output file, or of the list file after it, fails.
OpenFails ==
  /\ phase = "opening"
  /\ outfile' \in {outfile, "partial"}
  /\ ReturnWith(FileError)
  /\ SourceKept
  /\ UNCHANGED <<pass, counters, olds, bStopAtEnd, ERRORBUF, shown>>

\* pushinclude(av[1]) fails: asmerr finds pIncfile NULL and aborts.
SourceMissing ==
  /\ phase = "opening"
  /\ outfile' = "partial"
  /\ AbortWith({}, FileError)
  /\ SourceKept
  /\ UNCHANGED <<pass, counters, olds>>

\* What any handler can do to the state the loop looks at: every bit it sets in
\* Redo_why comes with a ++Redo, and the errors it reports are not aborting.
Handled(es) ==
  /\ Redo' \in Counts /\ Redo' >= Redo
  /\ Redo_why' \in SUBSET Reasons /\ Redo_why \subseteq Redo_why'
  /\ Redo_why' # Redo_why => Redo' > Redo
  /\ Redo_eval' \in Counts /\ Redo_eval' >= Redo_eval
  /\ Redo_if' \in {Redo_if, Redo_if \cup {0}}
  /\ Report(es)

\* One line of the source is read and its handler called.
ReadLine ==
  /\ phase = "reading"
  /\ UNCHANGED <<pass, phase, olds, shown, outfile, nError>>
  /\ mlflag' \in BOOLEAN /\ macroOpen' \in BOOLEAN
  /\ \E es \in SUBSET StatementErrors : Handled(es)

\* A handler calls asmerr with bAbort.
ReadLineAborts ==
  /\ phase = "reading"
  /\ \E e \in StatementErrors : nError' = e /\ \E es \in SUBSET StatementErrors : AbortWith(es, e)
  /\ SourceKept
  /\ UNCHANGED <<pass, counters, olds, outfile>>

\* cleanup, parse or genfill calls panic(): a macro argument or a label makes the line
\* too long, or the count of DS is too large.  What it prints is its own
\* message; what asmerr has buffered stays in ERRORBUF.
ReadLinePanics ==
  /\ phase = "reading"
  /\ phase' = "exited" /\ nError' = Panicked
  /\ \E es \in SUBSET StatementErrors : Report(es)
  /\ SourceKept
  /\ UNCHANGED <<pass, counters, olds, shown, outfile>>

\* The last include file is closed; closegenerate patches the file if the pass
\* was written to the end.
EndOfSource ==
  /\ phase = "reading"
  /\ phase' = "passdone"
  /\ outfile' = IF Redo = 0 THEN "complete" ELSE "partial"
  /\ SourceKept
  /\ UNCHANGED <<pass, counters, olds, bStopAtEnd, ERRORBUF, shown, nError>>

-----------------------------------------------------------------------------
(***************************************************************************)
(* The decision after a pass                                               *)
(***************************************************************************)

CommentOpen ==
  /\ phase = "passdone" /\ mlflag
  /\ ReturnWith(MissingComment)
  /\ SourceKept
  /\ UNCHANGED <<pass, counters, olds, bStopAtEnd, ERRORBUF, shown, outfile>>

\* The pass before this one asked for exactly the same.
NoProgress == Redo = oldredo /\ Redo_why = oldwhy /\ Redo_eval = oldeval

\* Mutant of MayGoOn: -P does not keep the loop from looking for progress.
MayGoOnIfProgress == ~NoProgress

\* Another pass can help; with -P that is always assumed.
MayGoOn == AllPasses \/ ~NoProgress

\* The pass is over and no comment is open; was another one asked for?
Deciding  == phase = "passdone" /\ ~mlflag
NeedsPass == Redo # 0

GiveUp ==
  /\ Deciding /\ NeedsPass /\ ~MayGoOn
  /\ ReturnWith(NotResolvable)
  /\ SourceKept
  /\ UNCHANGED <<pass, counters, olds, bStopAtEnd, ERRORBUF, shown, outfile>>

\* Redo_if <<= 1; only bits 0 and 1 are ever looked at.
Shifted(bits) == IF 0 \in bits THEN {1} ELSE {}

\* Mutant of TakeNextPass: without ++pass, so that the limit is never reached.
TakeNextPassUncounted ==
  /\ Deciding /\ NeedsPass /\ MayGoOn
  /\ oldredo' = Redo /\ oldwhy' = Redo_why /\ oldeval' = Redo_eval
  /\ Redo' = 0 /\ Redo_why' = {} /\ Redo_eval' = 0
  /\ Redo_if' = Shifted(Redo_if)
  /\ pass' = pass

\* oldredo = Redo ... ++pass
TakeNextPass ==
  /\ Deciding /\ NeedsPass /\ MayGoOn
  /\ oldredo' = Redo /\ oldwhy' = Redo_why /\ oldeval' = Redo_eval
  /\ Redo' = 0 /\ Redo_why' = {} /\ Redo_eval' = 0
  /\ Redo_if' = Shifted(Redo_if)
  /\ pass' = pass + 1

\* Mutants of NextPass: without the limit; without passbuffer_clear(ERRORBUF).
NextPassUnlimited ==
  /\ TakeNextPass
  /\ ERRORBUF' = {}
  /\ phase' = "opening"
  /\ SourceKept
  /\ UNCHANGED <<bStopAtEnd, shown, outfile, nError>>
NextPassKeepsErrors ==
  /\ TakeNextPass
  /\ pass < MaxPasses
  /\ phase' = "opening"
  /\ SourceKept
  /\ UNCHANGED <<bStopAtEnd, ERRORBUF, shown, outfile, nError>>

\* Another pass: the buffers of this one are dropped.
NextPass ==
  /\ TakeNextPass
  /\ pass < MaxPasses
  /\ ERRORBUF' = {}
  /\ phase' = "opening"
  /\ SourceKept
  /\ UNCHANGED <<bStopAtEnd, shown, outfile, nError>>

\* asmerr(ERROR_TOO_MANY_PASSES): no include file is open, so it aborts.
OutOfPasses ==
  /\ TakeNextPass
  /\ pass = MaxPasses
  /\ ERRORBUF' = ERRORBUF \cup {<<pass + 1, TooManyPasses>>}
  /\ shown' = ERRORBUF'
  /\ phase' = "exited" /\ nError' = TooManyPasses
  /\ SourceKept
  /\ UNCHANGED <<bStopAtEnd, outfile>>

\* A fatal error was reported in the last pass.
Failed == pass <= MaxPasses /\ bStopAtEnd[pass]

\* The last pass is over: its errors are printed only if one was fatal.
LastPass ==
  /\ Deciding /\ ~NeedsPass
  /\ shown' = IF Failed THEN ERRORBUF ELSE {}
  /\ IF macroOpen
     THEN phase' = "exited" /\ nError' = MissingEndm
     ELSE ReturnWith(IF Failed THEN NonAbort ELSE Success)
  /\ SourceKept
  /\ UNCHANGED <<pass, counters, olds, bStopAtEnd, ERRORBUF, outfile>>

\* Mutant of MainEnds: an unresolvable source ends like a finished one.
MainEndsSilently ==
  /\ phase = "returned"
  /\ shown' = IF nError \notin {Success, NonAbort, NotResolvable} THEN ERRORBUF ELSE shown
  /\ outfile' = IF nError # Success /\ RemoveOut THEN "absent" ELSE outfile
  /\ phase' = "exited"
  /\ SourceKept
  /\ UNCHANGED <<pass, counters, olds, bStopAtEnd, ERRORBUF, nError>>

\* main after MainShadow: print what was not printed yet, unlink for -R.
MainEnds ==
  /\ phase = "returned"
  /\ shown' = IF nError \notin {Success, NonAbort} THEN ERRORBUF ELSE shown
  /\ outfile' = IF nError # Success /\ RemoveOut THEN "absent" ELSE outfile
  /\ phase' = "exited"
  /\ SourceKept
  /\ UNCHANGED <<pass, counters, olds, bStopAtEnd, ERRORBUF, nError>>

DriverNext ==
  \/ OpenPass \/ OpenFails \/ SourceMissing
  \/ ReadLine \/ ReadLineAborts \/ ReadLinePanics \/ EndOfSource
  \/ CommentOpen \/ GiveUp \/ NextPass \/ OutOfPasses \/ LastPass
  \/ MainEnds

DriverSpec == DriverInit /\ [][DriverNext]_driverVars

\* dasm is one sequential process and its sources are finite: it reaches the end
\* of the source, and always takes the next step of the loop.
DriverFairness ==
  /\ WF_driverVars(OpenPass \/ OpenFails \/ SourceMissing)
  /\ WF_driverVars(EndOfSource)
  /\ WF_driverVars(CommentOpen \/ GiveUp \/ NextPass \/ OutOfPasses \/ LastPass)
  /\ WF_driverVars(MainEnds)

FairDriverSpec == DriverSpec /\ DriverFairness

-----------------------------------------------------------------------------
(***************************************************************************)
(* Properties                                                              *)
(***************************************************************************)

\* The verdict is about the last pass and no other: dasm succeeds or fails
\* according to whether a fatal error was reported in that pass, whatever was
\* reported in earlier passes, and only after a pass that asked for no more.
VerdictFollowsLastPass ==
  nError \in {Success, NonAbort} =>
    /\ Redo = 0 /\ Redo_why = {}
    /\ outfile # "partial"
    /\ nError = NonAbort <=> \E e \in FatalErrors : <<pass, e>> \in ERRORBUF

\* "Only print messages/errors from the final pass" (main.c:734): a message of a
\* pass that was retried is never printed.
OnlyLastPassShown ==
  \A msg \in shown : msg[1] = pass \/ (pass = MaxPasses + 1 /\ msg[1] = MaxPasses)

\* Every fatal error of the last pass has been printed when dasm ends, whether
\* MainShadow returned, with a verdict or for lack of a file, a comment's end or
\* progress, or called exit itself, or asmerr did.  The one way out that leaves fatal
\* errors in the buffer is panic(), see ReadLinePanics.
FatalNeverSilent ==
  phase = "exited" /\ nError # Panicked =>
    \A msg \in ERRORBUF : msg[2] \in FatalErrors => msg \in shown

\* Every assembly ends, after at most MaxPasses passes.
Termination == <>(phase = "exited")
=============================================================================
