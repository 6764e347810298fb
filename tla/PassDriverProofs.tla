-------------------------- MODULE PassDriverProofs --------------------------
(***************************************************************************)
(* Proofs about the pass loop, for every number of passes and every set of *)
(* errors and reasons.                                                     *)
(***************************************************************************)
EXTENDS PassDriver, TLAPS

\* While a pass is running nothing has been printed and no verdict is reached.
Undecided == phase \in {"opening", "reading", "passdone"}

\* The inductive invariant.  VerdictFollowsLastPass relates the verdict to the
\* messages of the last pass, but the code decides by bStopAtEnd: the two agree
\* because asmerr always changes them together and a retry clears the buffer.
MarkedIffFatal ==
  \A p \in 1 .. MaxPasses :
    /\ p > pass => ~bStopAtEnd[p]
    /\ p = pass => (bStopAtEnd[p] <=> \E e \in FatalErrors : <<p, e>> \in ERRORBUF)

BufferIsOfLastPass ==
  \A msg \in ERRORBUF : msg[1] = pass \/ (pass = MaxPasses + 1 /\ msg[1] = MaxPasses)

NothingEarly ==
  /\ Undecided => nError = Running /\ shown = {}
  /\ pass = MaxPasses + 1 => phase = "exited" /\ nError = TooManyPasses
  /\ phase = "returned" => nError \in {FileError} \cup Verdicts
  /\ phase = "returned" /\ nError = NonAbort => shown = ERRORBUF
  /\ phase = "returned" /\ nError = Success =>
       \A msg \in ERRORBUF : msg[2] \notin FatalErrors
  /\ shown \subseteq ERRORBUF

ReasonsCounted == Redo = 0 => Redo_why = {}

OutputFollowsRedo == phase = "passdone" => (Redo = 0 <=> outfile = "complete")

DriverIInv ==
  /\ DriverTypeOK
  /\ MarkedIffFatal /\ BufferIsOfLastPass /\ NothingEarly
  /\ ReasonsCounted /\ OutputFollowsRedo
  /\ VerdictFollowsLastPass /\ FatalNeverSilent

\* The invariant holds at the start.
LEMMA DriverInitInv == DriverInit => DriverIInv
<1> SUFFICES ASSUME DriverInit PROVE DriverIInv
  OBVIOUS
<1>1. DriverTypeOK
  <2>1. pass \in 1 .. MaxPasses + 1 /\ bStopAtEnd \in [1 .. MaxPasses -> BOOLEAN]
    BY DriverAssumption DEF DriverInit
  <2>2. oldredo \in Counts \cup {-1}
    BY DEF DriverInit
  <2>3. Redo \in Counts /\ Redo_eval \in Counts /\ oldeval \in Counts
    BY DriverAssumption DEF DriverInit
  <2>4. /\ phase \in Phases /\ Redo_why \subseteq Reasons /\ oldwhy \subseteq Reasons
        /\ Redo_if \subseteq {0, 1} /\ ERRORBUF \subseteq Messages /\ shown \subseteq Messages
        /\ mlflag \in BOOLEAN /\ macroOpen \in BOOLEAN
        /\ outfile \in {"absent", "partial", "complete"} /\ nError \in Results
    BY DEF DriverInit, Phases, Results
  <2> QED
    BY <2>1, <2>2, <2>3, <2>4 DEF DriverTypeOK
<1>2. MarkedIffFatal /\ BufferIsOfLastPass
  BY DriverAssumption DEF DriverInit, MarkedIffFatal, BufferIsOfLastPass
<1>3. NothingEarly /\ ReasonsCounted /\ OutputFollowsRedo
  BY DriverAssumption DEF DriverInit, NothingEarly, Undecided, ReasonsCounted, OutputFollowsRedo
<1>4. VerdictFollowsLastPass /\ FatalNeverSilent
  BY DEF DriverInit, VerdictFollowsLastPass, FatalNeverSilent, Running, Success, NonAbort
<1> QED
  BY <1>1, <1>2, <1>3, <1>4 DEF DriverIInv

\* A step that reports errors keeps the mark of the pass and its messages in line.
LEMMA ReportKeepsMark ==
  ASSUME NEW es \in SUBSET Errors, pass \in 1 .. MaxPasses, pass' = pass,
         bStopAtEnd \in [1 .. MaxPasses -> BOOLEAN], ERRORBUF \subseteq Messages,
         MarkedIffFatal, BufferIsOfLastPass, Report(es)
  PROVE  /\ bStopAtEnd' \in [1 .. MaxPasses -> BOOLEAN]
         /\ ERRORBUF' \subseteq Messages
         /\ MarkedIffFatal' /\ BufferIsOfLastPass'
<1>1. bStopAtEnd' \in [1 .. MaxPasses -> BOOLEAN]
  BY DEF Report
<1>2. ERRORBUF' \subseteq Messages
  BY DriverAssumption DEF Report, Messages
<1>3. BufferIsOfLastPass'
  BY DEF BufferIsOfLastPass, Report
<1>4. \A e \in Errors : <<pass, e>> \in ERRORBUF' <=> <<pass, e>> \in ERRORBUF \/ e \in es
  BY DEF Report
<1>5. bStopAtEnd'[pass] <=> bStopAtEnd[pass] \/ es \cap FatalErrors # {}
  BY DEF Report
<1>6. \A p \in 1 .. MaxPasses : p # pass => bStopAtEnd'[p] = bStopAtEnd[p]
  BY DEF Report
<1>7. ASSUME NEW p \in 1 .. MaxPasses
      PROVE  /\ p > pass' => ~bStopAtEnd'[p]
             /\ p = pass' => (bStopAtEnd'[p] <=> \E e \in FatalErrors : <<p, e>> \in ERRORBUF')
  <2>1. CASE p = pass
    <3>1. bStopAtEnd[pass] <=> \E e \in FatalErrors : <<pass, e>> \in ERRORBUF
      BY DEF MarkedIffFatal
    <3>2. (\E e \in FatalErrors : <<pass, e>> \in ERRORBUF')
          <=> (\E e \in FatalErrors : <<pass, e>> \in ERRORBUF) \/ es \cap FatalErrors # {}
      BY <1>4, DriverAssumption
    <3> QED
      BY <2>1, <3>1, <3>2, <1>5
  <2>2. CASE p # pass
    BY <2>2, <1>6 DEF MarkedIffFatal
  <2> QED
    BY <2>1, <2>2
<1>8. MarkedIffFatal'
  BY <1>7 DEF MarkedIffFatal
<1> QED
  BY <1>1, <1>2, <1>3, <1>8

\* Every step keeps the invariant.
LEMMA DriverStepInv == DriverIInv /\ [DriverNext]_driverVars => DriverIInv'
<1> SUFFICES ASSUME DriverIInv, [DriverNext]_driverVars PROVE DriverIInv'
  OBVIOUS
<1> USE DriverAssumption
    DEF DriverIInv, DriverTypeOK, NothingEarly, ReasonsCounted, OutputFollowsRedo,
        VerdictFollowsLastPass, FatalNeverSilent, Undecided, Phases, Results, Verdicts,
        Running, Panicked, Success, NonAbort, NotResolvable, MissingComment, MissingEndm,
        TooManyPasses, FileError, counters, olds, SourceKept, sourceView
<1>1. CASE OpenPass
  BY <1>1 DEF OpenPass, MarkedIffFatal, BufferIsOfLastPass
<1>2. CASE OpenFails
  BY <1>2 DEF OpenFails, ReturnWith, MarkedIffFatal, BufferIsOfLastPass
<1>3. CASE SourceMissing
  <2>1. Report({FileError})
    BY <1>3 DEF SourceMissing, AbortWith
  <2>2. MarkedIffFatal' /\ BufferIsOfLastPass' /\ ERRORBUF' \subseteq Messages
        /\ bStopAtEnd' \in [1 .. MaxPasses -> BOOLEAN]
    BY <1>3, <2>1, ReportKeepsMark DEF SourceMissing
  <2> QED
    BY <1>3, <2>2 DEF SourceMissing, AbortWith
<1>4. CASE ReadLine
  <2>1. PICK es \in SUBSET Errors : Handled(es)
    BY <1>4 DEF ReadLine, StatementErrors
  <2>2. MarkedIffFatal' /\ BufferIsOfLastPass' /\ ERRORBUF' \subseteq Messages
        /\ bStopAtEnd' \in [1 .. MaxPasses -> BOOLEAN]
    BY <1>4, <2>1, ReportKeepsMark DEF ReadLine, Handled
  <2>3. Redo' \in Counts /\ Redo_eval' \in Counts /\ Redo_why' \subseteq Reasons
        /\ Redo_if' \subseteq {0, 1} /\ ReasonsCounted'
    BY <2>1 DEF Handled
  <2> QED
    BY <1>4, <2>2, <2>3 DEF ReadLine
<1>5. CASE ReadLineAborts
  <2>1. PICK es \in SUBSET Errors, e \in Errors : AbortWith(es, e)
    BY <1>5 DEF ReadLineAborts, StatementErrors
  <2>2. es \cup {e} \in SUBSET Errors /\ Report(es \cup {e})
    BY <2>1 DEF AbortWith
  <2>3. MarkedIffFatal' /\ BufferIsOfLastPass' /\ ERRORBUF' \subseteq Messages
        /\ bStopAtEnd' \in [1 .. MaxPasses -> BOOLEAN]
    BY <1>5, <2>2, ReportKeepsMark DEF ReadLineAborts
  <2>4. nError' = e /\ phase' = "exited" /\ shown' = ERRORBUF' /\ e \notin {Running} \cup Verdicts
    BY <2>1 DEF AbortWith
  <2> QED
    BY <1>5, <2>3, <2>4 DEF ReadLineAborts
<1>6. CASE EndOfSource
  BY <1>6 DEF EndOfSource, MarkedIffFatal, BufferIsOfLastPass
<1>7. CASE CommentOpen
  BY <1>7 DEF CommentOpen, ReturnWith, MarkedIffFatal, BufferIsOfLastPass
<1>8. CASE GiveUp
  BY <1>8 DEF GiveUp, Deciding, ReturnWith, MarkedIffFatal, BufferIsOfLastPass
<1>9. CASE NextPass
  BY <1>9 DEF NextPass, TakeNextPass, Deciding, Shifted, MarkedIffFatal,
              BufferIsOfLastPass, Messages
<1>10. CASE OutOfPasses
  BY <1>10 DEF OutOfPasses, TakeNextPass, Deciding, Shifted, MarkedIffFatal,
               BufferIsOfLastPass, Messages
<1>11. CASE LastPass
  <2>1. Redo = 0 /\ outfile = "complete" /\ pass \in 1 .. MaxPasses /\ Redo_why = {}
    BY <1>11 DEF LastPass, Deciding, NeedsPass, Failed
  <2>2. bStopAtEnd[pass] <=> \E e \in FatalErrors : <<pass, e>> \in ERRORBUF
    BY <2>1 DEF MarkedIffFatal
  <2>3. \A msg \in ERRORBUF : msg = <<pass, msg[2]>>
    BY <2>1 DEF BufferIsOfLastPass, Messages
  <2>4. shown' = IF bStopAtEnd[pass] THEN ERRORBUF ELSE {}
    BY <1>11 DEF LastPass, Deciding, NeedsPass, Failed
  <2>5. \A msg \in ERRORBUF : msg[2] \in FatalErrors => msg \in shown'
    BY <2>2, <2>3, <2>4
  <2>6. UNCHANGED <<pass, counters, olds, bStopAtEnd, ERRORBUF, sourceView, outfile>>
    BY <1>11 DEF LastPass, Deciding, NeedsPass, Failed
  <2>7. MarkedIffFatal' /\ BufferIsOfLastPass'
    BY <2>6 DEF MarkedIffFatal, BufferIsOfLastPass
  <2>8. shown' \subseteq ERRORBUF' /\ (bStopAtEnd[pass] => shown' = ERRORBUF')
    BY <2>4, <2>6
  <2>9. /\ nError' \in {MissingEndm, NonAbort, Success}
        /\ phase' \in {"returned", "exited"}
        /\ nError' = NonAbort => bStopAtEnd[pass]
        /\ nError' = Success => ~bStopAtEnd[pass]
    BY <1>11 DEF LastPass, Deciding, NeedsPass, Failed, ReturnWith
  <2>10. nError' = Success => \A msg \in ERRORBUF' : msg[2] \notin FatalErrors
    BY <2>2, <2>3, <2>6, <2>9
  <2>11. DriverTypeOK'
    BY <2>6, <2>8, <2>9
  <2>12. NothingEarly'
    BY <2>1, <2>6, <2>8, <2>9, <2>10
  <2>13. VerdictFollowsLastPass'
    BY <2>1, <2>2, <2>6, <2>9
  <2>14. FatalNeverSilent'
    BY <2>5, <2>6
  <2> QED
    BY <2>6, <2>7, <2>9, <2>11, <2>12, <2>13, <2>14
<1>12. CASE MainEnds
  BY <1>12 DEF MainEnds, MarkedIffFatal, BufferIsOfLastPass
<1>14. CASE ReadLinePanics
  <2>1. PICK es \in SUBSET Errors : Report(es)
    BY <1>14 DEF ReadLinePanics, StatementErrors
  <2>2. MarkedIffFatal' /\ BufferIsOfLastPass' /\ ERRORBUF' \subseteq Messages
        /\ bStopAtEnd' \in [1 .. MaxPasses -> BOOLEAN]
    BY <1>14, <2>1, ReportKeepsMark DEF ReadLinePanics
  <2>3. phase' = "exited" /\ nError' = Panicked /\ shown' = {}
    BY <1>14 DEF ReadLinePanics
  <2> QED
    BY <1>14, <2>2, <2>3 DEF ReadLinePanics
<1>13. CASE UNCHANGED driverVars
  <2>1. UNCHANGED <<pass, phase, Redo, Redo_why, Redo_eval, Redo_if, oldredo, oldwhy, oldeval>>
        /\ UNCHANGED <<bStopAtEnd, ERRORBUF, shown, mlflag, macroOpen, outfile, nError>>
    BY <1>13 DEF driverVars
  <2>2. DriverTypeOK' /\ MarkedIffFatal' /\ BufferIsOfLastPass'
    BY <2>1 DEF MarkedIffFatal, BufferIsOfLastPass
  <2> QED
    BY <2>1, <2>2
<1> QED
  BY <1>1, <1>2, <1>3, <1>4, <1>5, <1>6, <1>7, <1>8, <1>9, <1>10, <1>11, <1>12, <1>13,
     <1>14
  DEF DriverNext

\* The inductive invariant holds of the pass loop.
THEOREM DriverInvariant == DriverSpec => []DriverIInv
  BY DriverInitInv, DriverStepInv, PTL DEF DriverSpec

\* Type correctness; in particular pass never exceeds nMaxPasses + 1, the value
\* for which asmerr would write behind bStopAtEnd without its guard.
THEOREM DriverTypeCorrect == DriverSpec => []DriverTypeOK
<1>1. DriverIInv => DriverTypeOK
  BY DEF DriverIInv
<1> QED
  BY <1>1, DriverInvariant, PTL

\* The verdict follows from the last pass alone.
THEOREM VerdictCorrect == DriverSpec => []VerdictFollowsLastPass
<1>1. DriverIInv => VerdictFollowsLastPass
  BY DEF DriverIInv
<1> QED
  BY <1>1, DriverInvariant, PTL

\* No fatal error of the last pass is lost, whichever way dasm ends (src/main.c main,
\* asmerr), unless it ends in panic(), which prints nothing but its own message.
THEOREM MessagesCorrect == DriverSpec => []FatalNeverSilent
<1>1. DriverIInv => FatalNeverSilent
  BY DEF DriverIInv
<1> QED
  BY <1>1, DriverInvariant, PTL

\* No message of a pass that was retried is printed: every retry empties the buffer
\* (src/main.c:734), and nothing is printed before the loop ends.
THEOREM RetriedMessagesDropped == DriverSpec => []OnlyLastPassShown
<1>1. DriverIInv => OnlyLastPassShown
  BY DEF DriverIInv, NothingEarly, BufferIsOfLastPass, OnlyLastPassShown
<1> QED
  BY <1>1, DriverInvariant, PTL
=============================================================================
