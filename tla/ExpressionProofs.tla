--------------------------- MODULE ExpressionProofs ---------------------------
(***************************************************************************)
(* Proofs about the stacks of the expression evaluator, for every set of   *)
(* tokens and values, every capacity and every depth of EQM symbols: how   *)
(* the calls of eval() share them, and what they hold.                     *)
(***************************************************************************)
EXTENDS ExpressionMeaning, SequenceTheorems, WellFoundedInduction, TLAPS

-----------------------------------------------------------------------------
(***************************************************************************)
(* The inductive invariant                                                 *)
(***************************************************************************)
Bases == [Argibase : Int, Opibase : Nat]

StackShape ==
  /\ Opi \in 0 .. MAXOPS
  /\ Argi \in Int /\ Argi <= MAXARGS
  /\ bases \in Seq(Bases)
  /\ DOMAIN Argstack = Slots
  /\ DOMAIN Oppri = 0 .. MAXOPS - 1 /\ DOMAIN Opdis = 0 .. MAXOPS - 1

\* The outermost call starts on empty stacks, and there is one as long as
\* something is being evaluated.
Outermost ==
  /\ todo = "idle" => bases = <<>>
  /\ todo \notin {"idle", "exit"} => bases # <<>>
  /\ bases = <<>> => Opi = 0 /\ Argi = 0
  /\ bases # <<>> => bases[1] = [Argibase |-> 0, Opibase |-> 0]

\* The operators of a call lie above those of its caller, always;
OpsNested ==
  /\ \A i \in 1 .. Len(bases) - 1 : bases[i].Opibase <= bases[i + 1].Opibase
  /\ bases # <<>> => Opibase <= Opi

\* its arguments do until an error is raised: a misplaced ',' takes one too many.
ArgsNested ==
  /\ \A i \in 1 .. Len(bases) : bases[i].Argibase <= MAXARGS
  /\ raised = {} =>
       /\ \A i \in 1 .. Len(bases) : 0 <= bases[i].Argibase
       /\ \A i \in 1 .. Len(bases) - 1 : bases[i].Argibase <= bases[i + 1].Argibase
       /\ bases # <<>> => Argibase <= Argi

StackInv == StackShape /\ Outermost /\ OpsNested /\ ArgsNested

\* The state in which eval() is at work.
Working == todo \notin {"idle", "exit"}

-----------------------------------------------------------------------------
(***************************************************************************)
(* Steps that change the stacks in the same way                            *)
(***************************************************************************)
\* The capacities are numbers.
LEMMA Capacities ==
  /\ MAXOPS \in Nat \ {0} /\ MAXARGS \in Nat \ {0}
  /\ MaxTokens \in Nat \ {0} /\ MaxRecursion \in Nat \ {0}
BY ExpressionAssumption DEF ExpressionAssumption

\* The bases of the innermost call are numbers.
LEMMA BaseType ==
  ASSUME StackInv, bases # <<>>
  PROVE  /\ Len(bases) \in Nat \ {0}
         /\ Argibase \in Int /\ Argibase <= MAXARGS
         /\ Opibase \in Nat /\ Opibase <= Opi
<1>1. Len(bases) \in Nat \ {0} /\ bases[Len(bases)] \in Bases
  BY DEF StackInv, StackShape
<1> QED
  BY <1>1 DEF StackInv, OpsNested, ArgsNested, Argibase, Opibase, Bases

\* A step that leaves the stacks alone.
LEMMA Untouched ==
  ASSUME StackInv, Working, UNCHANGED <<argVars, opVars, bases>>, todo' # "idle",
         raised' = {} => raised = {}
  PROVE  StackInv'
BY DEF StackInv, StackShape, Outermost, OpsNested, ArgsNested, Working, argVars, opVars,
       Argibase, Opibase

\* A step that stacks an argument.
LEMMA ArgPushed ==
  ASSUME StackInv, Working, Argi < MAXARGS,
         NEW arg, StackArg(arg), UNCHANGED <<opVars, bases>>,
         raised' = {} => raised = {}
  PROVE  StackInv'
<1>1. bases # <<>> BY DEF Working, StackInv, Outermost
<1>2. Argi \in Int /\ Argibase \in Int BY <1>1, BaseType DEF StackInv, StackShape
<1>3. StackShape' BY <1>2, Capacities DEF StackInv, StackShape, StackArg, opVars, Slots
<1>4. Outermost' BY <1>1 DEF StackInv, Outermost, StackArg
<1>5. OpsNested' BY DEF StackInv, OpsNested, opVars, Opibase
<1>6. ArgsNested' BY <1>2 DEF StackInv, ArgsNested, StackArg, Argibase
<1> QED BY <1>3, <1>4, <1>5, <1>6 DEF StackInv

\* A step that changes the operators above the base of the innermost call.
LEMMA OpsChanged ==
  ASSUME StackInv, Working, UNCHANGED <<argVars, bases>>, todo' # "idle",
         Opi' \in 0 .. MAXOPS, Opibase <= Opi',
         DOMAIN Oppri' = DOMAIN Oppri, DOMAIN Opdis' = DOMAIN Opdis,
         raised' = {} => raised = {}
  PROVE  StackInv'
<1>1. bases # <<>> BY DEF Working, StackInv, Outermost
<1>2. StackShape' BY DEF StackInv, StackShape, argVars
<1>3. Outermost' BY <1>1 DEF StackInv, Outermost, argVars
<1>4. OpsNested' BY DEF StackInv, OpsNested, Opibase
<1>5. ArgsNested' BY DEF StackInv, ArgsNested, argVars, Argibase
<1> QED BY <1>2, <1>3, <1>4, <1>5 DEF StackInv

-----------------------------------------------------------------------------
(***************************************************************************)
(* One lemma per group of actions                                          *)
(***************************************************************************)
LEMMA InitStacks == Init => StackInv
<1> SUFFICES ASSUME Init PROVE StackInv OBVIOUS
<1>0. bases = <<>> /\ Len(bases) = 0 /\ Opi = 0 /\ Argi = 0 /\ todo = "idle" BY DEF Init
<1>1. StackShape
  <2>1. bases \in Seq(Bases) BY <1>0
  <2>2. DOMAIN Argstack = Slots BY DEF Init
  <2>3. DOMAIN Oppri = 0 .. MAXOPS - 1 /\ DOMAIN Opdis = 0 .. MAXOPS - 1 BY DEF Init
  <2> QED BY <1>0, <2>1, <2>2, <2>3, Capacities DEF StackShape
<1>2. Outermost BY <1>0 DEF Outermost
<1>3. OpsNested /\ ArgsNested BY <1>0 DEF OpsNested, ArgsNested
<1> QED BY <1>1, <1>2, <1>3 DEF StackInv

\* A text is begun on empty stacks.
LEMMA EvalStacks == StackInv /\ Eval => StackInv'
<1> SUFFICES ASSUME StackInv, Eval PROVE StackInv' OBVIOUS
<1>1. Opi = 0 /\ Argi = 0 BY DEF StackInv, Outermost, Eval
<1>2. bases' = <<[Argibase |-> 0, Opibase |-> 0]>> BY <1>1 DEF Eval, NewBase
<1>3. StackShape' BY <1>2 DEF StackInv, StackShape, Eval, argVars, opVars, Bases
<1>4. Outermost' BY <1>2 DEF Outermost, Eval
<1>5. OpsNested' BY <1>1, <1>2 DEF OpsNested, Opibase, Eval, opVars
<1>6. ArgsNested' BY <1>1, <1>2, Capacities DEF ArgsNested, Argibase, Eval, argVars
<1> QED BY <1>3, <1>4, <1>5, <1>6 DEF StackInv

\* A text is only read while a call is in progress.
LEMMA ScanningWorks == Scanning => Working
BY DEF Scanning, Working

\* A failed evaluation leaves the stacks as they are.
LEMMA AbortStacks ==
  ASSUME StackInv, Working, NEW e, Abort(e)
  PROVE  StackInv'
BY Untouched DEF Abort, Raise

\* An operand is pushed on top.
LEMMA OperandStacks ==
  ASSUME StackInv, NEW t, PushConstant(t) \/ PushSymbol(t) \/ IllegalCharacter(t)
  PROVE  StackInv'
<1>1. Working BY ScanningWorks DEF PushConstant, PushSymbol, IllegalCharacter, Read
<1>2. Argi \in Int /\ MAXARGS \in Int BY Capacities DEF StackInv, StackShape
<1>3. CASE PushConstant(t)
  <2>1. CASE Argi >= MAXARGS
    BY <1>1, <1>3, <2>1, AbortStacks DEF PushConstant, ArgsFull
  <2>2. CASE ~(Argi >= MAXARGS)
    <3>1. PICK arg : StackArg(arg) BY <1>3, <2>2 DEF PushConstant, ArgsFull
    <3> QED BY <1>1, <1>2, <1>3, <2>2, <3>1, ArgPushed DEF PushConstant, ArgsFull
  <2> QED BY <2>1, <2>2
<1>4. CASE PushSymbol(t)
  <2>1. CASE symbolRecursionCount + 1 > MaxRecursion \/ Argi >= MAXARGS
    <3>1. \E e : Abort(e) BY <1>4, <2>1 DEF PushSymbol, ArgsFull
    <3> QED BY <1>1, <3>1, AbortStacks
  <2>2. CASE ~(symbolRecursionCount + 1 > MaxRecursion \/ Argi >= MAXARGS)
    <3>1. raised' = raised /\ UNCHANGED <<opVars, bases>>
      BY <1>4, <2>2 DEF PushSymbol, ArgsFull
    <3>2. PICK arg : StackArg(arg) BY <1>4, <2>2 DEF PushSymbol, StackSymbol, ArgsFull
    <3>3. Argi < MAXARGS BY <1>2, <2>2
    <3> QED BY <1>1, <3>1, <3>2, <3>3, ArgPushed
  <2> QED BY <2>1, <2>2
<1>5. CASE IllegalCharacter(t)
  <2>1. CASE \E e : Abort(e) BY <1>1, <2>1, AbortStacks
  <2>2. CASE ~\E e : Abort(e)
    BY <1>1, <1>5, <2>2, Untouched DEF IllegalCharacter, Raise
  <2> QED BY <2>1, <2>2
<1> QED BY <1>3, <1>4, <1>5

\* The expression of an EQM symbol begins where its user has arrived.
LEMMA EnterMacroStacks ==
  ASSUME StackInv, NEW t, EnterMacro(t)
  PROVE  StackInv'
<1>1. Working BY ScanningWorks DEF EnterMacro, Read
<1>2. bases # <<>> BY <1>1 DEF Working, StackInv, Outermost
<1>3. CASE \E e : Abort(e) BY <1>1, <1>3, AbortStacks
<1>4. CASE ~\E e : Abort(e)
  <2>1. /\ bases' = Append(bases, NewBase) /\ todo' = "scan"
        /\ UNCHANGED <<argVars, opVars, raised>>
    BY <1>4 DEF EnterMacro
  <2>2. /\ Opi \in Nat /\ Argi \in Int /\ Argi <= MAXARGS /\ bases \in Seq(Bases)
        /\ NewBase \in Bases
    BY DEF StackInv, StackShape, NewBase, Bases
  <2>3. /\ Len(bases') = Len(bases) + 1 /\ Len(bases) \in Nat \ {0}
        /\ \A i \in 1 .. Len(bases) : bases'[i] = bases[i]
        /\ bases'[Len(bases) + 1] = NewBase
    BY <1>2, <2>1, <2>2
  <2>4. StackShape' BY <2>1, <2>2 DEF StackInv, StackShape, argVars, opVars
  <2>5. Outermost' BY <1>2, <2>1, <2>3 DEF StackInv, Outermost, argVars, opVars
  <2>6. /\ Opibase' = Opi /\ Argibase' = Argi
        /\ Opibase = bases[Len(bases)].Opibase /\ Argibase = bases[Len(bases)].Argibase
    BY <2>1, <2>3 DEF Opibase, Argibase, NewBase
  <2>7. OpsNested'
    <3>1. SUFFICES ASSUME NEW i \in 1 .. Len(bases)
                   PROVE  bases'[i].Opibase <= bases'[i + 1].Opibase
      BY <2>1, <2>2, <2>3, <2>6 DEF OpsNested, opVars
    <3>2. CASE i = Len(bases)
      BY <1>2, <2>3, <2>6, <3>2 DEF StackInv, OpsNested, NewBase
    <3>3. CASE i < Len(bases)
      BY <2>3, <3>3 DEF StackInv, OpsNested
    <3> QED BY <2>3, <3>2, <3>3
  <2>8. ArgsNested'
    <3>1. \A i \in 1 .. Len(bases') : bases'[i].Argibase <= MAXARGS
      BY <2>2, <2>3 DEF StackInv, ArgsNested, NewBase
    <3>2. ASSUME raised = {}, NEW i \in 1 .. Len(bases)
          PROVE  bases'[i].Argibase <= bases'[i + 1].Argibase
      <4>1. CASE i = Len(bases)
        BY <1>2, <2>3, <2>6, <3>2, <4>1 DEF StackInv, ArgsNested, NewBase
      <4>2. CASE i < Len(bases)
        BY <2>3, <3>2, <4>2 DEF StackInv, ArgsNested
      <4> QED BY <2>3, <4>1, <4>2
    <3>3. ASSUME raised = {} PROVE 0 <= Argibase /\ Argibase <= Argi
      BY <1>2, <2>3, <2>6, <3>3 DEF StackInv, ArgsNested
    <3>4. Argibase \in Int BY <1>2, BaseType
    <3>5. ASSUME raised = {}, NEW i \in 1 .. Len(bases')
          PROVE  0 <= bases'[i].Argibase
      <4>1. CASE i = Len(bases')
        <5>1. bases'[i].Argibase = Argi BY <2>1, <2>3, <4>1 DEF NewBase
        <5> QED BY <2>2, <3>3, <3>4, <3>5, <5>1
      <4>2. CASE i < Len(bases')
        BY <2>3, <3>5, <4>2 DEF StackInv, ArgsNested
      <4> QED BY <2>3, <4>1, <4>2
    <3> QED BY <2>1, <2>2, <2>3, <2>6, <3>1, <3>2, <3>5 DEF ArgsNested, argVars
  <2> QED BY <2>4, <2>5, <2>7, <2>8 DEF StackInv
<1> QED BY <1>3, <1>4

\* doop() of a unary operator, and '[': the stack is not full.
LEMMA OpenStacks ==
  ASSUME StackInv, NEW t, UnaryOp(t) \/ OpenBracket(t)
  PROVE  StackInv'
<1>1. Working BY ScanningWorks DEF UnaryOp, OpenBracket, Read
<1>2. bases # <<>> BY <1>1 DEF Working, StackInv, Outermost
<1>3. Opi \in 0 .. MAXOPS /\ Opibase \in Nat /\ Opibase <= Opi
  BY <1>2, BaseType DEF StackInv, StackShape
<1>4. CASE UnaryOp(t)
  <2>1. CASE Opi >= MAXOPS
    BY <1>1, <1>4, <2>1, AbortStacks DEF UnaryOp
  <2>2. CASE ~(Opi >= MAXOPS)
    <3>1. /\ PushOp(UnaryName[t], UNARY) /\ todo' = "scan"
          /\ UNCHANGED <<argVars, bases, raised>>
      BY <1>4, <2>2 DEF UnaryOp
    <3>2. Opi' \in 0 .. MAXOPS /\ Opibase <= Opi'
      BY <1>3, <2>2, <3>1, Capacities DEF PushOp
    <3>3. DOMAIN Oppri' = DOMAIN Oppri /\ DOMAIN Opdis' = DOMAIN Opdis
      BY <3>1 DEF PushOp
    <3> QED BY <1>1, <3>1, <3>2, <3>3, OpsChanged
  <2> QED BY <2>1, <2>2
<1>5. CASE OpenBracket(t)
  <2>1. /\ UNCHANGED <<argVars, bases, raised, Opdis>> /\ todo' = "scan"
        /\ \/ Opi = MAXOPS /\ UNCHANGED <<Oppri, Opi>>
           \/ Opi # MAXOPS /\ Oppri' = [Oppri EXCEPT ![Opi] = 0] /\ Opi' = Opi + 1
    BY <1>5 DEF OpenBracket
  <2>2. Opi' \in 0 .. MAXOPS /\ Opibase <= Opi' BY <1>3, <2>1, Capacities
  <2>3. DOMAIN Oppri' = DOMAIN Oppri BY <2>1
  <2> QED BY <1>1, <2>1, <2>2, <2>3, OpsChanged
<1> QED BY <1>4, <1>5

\* So is an operator.
LEMMA NewOpStacks ==
  ASSUME StackInv, NewOp
  PROVE  StackInv'
<1>1. Working BY DEF NewOp, Reduced, Working
<1>2. bases # <<>> BY <1>1 DEF Working, StackInv, Outermost
<1>3. Opi \in 0 .. MAXOPS /\ Opibase \in Nat /\ Opibase <= Opi
  BY <1>2, BaseType DEF StackInv, StackShape
<1>4. /\ UNCHANGED <<argVars, bases>> /\ todo' # "idle"
      /\ raised' = {} => raised = {}
  BY DEF NewOp, Raise
<1>5. /\ Opi' \in 0 .. MAXOPS /\ Opibase <= Opi'
      /\ DOMAIN Oppri' = DOMAIN Oppri /\ DOMAIN Opdis' = DOMAIN Opdis
  <2>1. CASE Opi < MAXOPS
    <3>1. PushOp(tok, Pri(tok)) BY <2>1 DEF NewOp
    <3> QED BY <1>3, <2>1, <3>1, Capacities DEF PushOp
  <2>2. CASE ~(Opi < MAXOPS)
    <3>1. UNCHANGED <<Oppri, Opdis>> /\ (Opi' = Opi \/ Opi' = Opibase)
      BY <2>2 DEF NewOp
    <3> QED BY <1>3, <3>1, Capacities
  <2> QED BY <2>1, <2>2
<1> QED BY <1>1, <1>4, <1>5, OpsChanged

\* A bracket is closed above the base of its call.
LEMMA ClosedStacks ==
  ASSUME StackInv, Closed
  PROVE  StackInv'
<1>1. Working BY DEF Closed, Reduced, Working
<1>2. bases # <<>> BY <1>1 DEF Working, StackInv, Outermost
<1>3. Opi \in 0 .. MAXOPS /\ Opibase \in Nat /\ Opibase <= Opi
  BY <1>2, BaseType DEF StackInv, StackShape
<1>4. /\ UNCHANGED <<argVars, bases, Oppri, Opdis, raised>> /\ todo' = "scan"
      /\ Opi' = IF Opi # Opibase THEN Opi - 1 ELSE Opi
  BY DEF Closed
<1>5. Opi' \in 0 .. MAXOPS /\ Opibase <= Opi' BY <1>3, <1>4, Capacities
<1> QED BY <1>1, <1>4, <1>5, OpsChanged

\* Tokens that change the phase, the mode or the errors, and no stack.
LEMMA QuietStacks ==
  ASSUME StackInv,
         \/ \E t : \/ MisplacedInvert(t) \/ BinaryOp(t) \/ CloseBracket(t)
                   \/ ModeMark(t) \/ IndirectX(t) \/ Comma(t)
         \/ Indexed \/ EndOfText
  PROVE  StackInv'
<1>1. Working
  BY ScanningWorks DEF MisplacedInvert, BinaryOp, CloseBracket, ModeMark, IndirectX,
     Comma, Read, Indexed, EndOfText, Reduced, Working
<1>2. UNCHANGED <<argVars, opVars, bases>> /\ todo' # "idle"
  BY DEF MisplacedInvert, BinaryOp, CloseBracket, ModeMark, IndirectX, Comma,
     Indexed, EndOfText
<1>3. raised' = {} => raised = {}
  BY DEF MisplacedInvert, BinaryOp, CloseBracket, ModeMark, IndirectX, Comma,
     Indexed, EndOfText, Raise
<1> QED BY <1>1, <1>2, <1>3, Untouched

\* evaltop() takes operands of the innermost call only, or reports an error.
LEMMA EvalTopEffect ==
  ASSUME StackInv, EvalTop
  PROVE  /\ Opi' = Opi - 1 /\ Opibase < Opi
         /\ UNCHANGED <<bases, Oppri, Opdis>> /\ todo' # "idle"
         /\ DOMAIN Argstack' = DOMAIN Argstack
         /\ raised \subseteq raised'
         /\ \/ Argi' = Argi /\ UNCHANGED Argstack
            \/ Argi' = Argibase /\ UNCHANGED Argstack /\ raised' # {}
            \/ \E n \in {1, 2} : \E arg :
                 /\ Argi >= Argibase + n /\ Argi' = Argi - n + 1
                 /\ Argstack' = [Argstack EXCEPT ![Argi - n] = arg]
<1>1. Working BY DEF EvalTop, MustEval, Working
<1>2. bases # <<>> BY <1>1 DEF Working, StackInv, Outermost
<1>3. /\ Opi \in 0 .. MAXOPS /\ Argi \in Int /\ Argibase \in Int
      /\ Opibase \in Nat /\ Opibase <= Opi
  BY <1>2, BaseType DEF StackInv, StackShape
<1>4. Opi' = Opi - 1 /\ Opibase < Opi /\ UNCHANGED <<bases, Oppri, Opdis>>
  <2>1. Opi' = Opi - 1 /\ Opi # Opibase /\ UNCHANGED <<bases, Oppri, Opdis>>
    BY DEF EvalTop, MustEval
  <2> QED BY <1>3, <2>1
<1> DEFINE f == Opdis[Opi - 1]
           k == IF Oppri[Opi - 1] = UNARY THEN 1 ELSE 2
           x == Argstack[Argi - k]
           y == Argstack[Argi - 1]
<1>5. k \in {1, 2} OBVIOUS
<1>6. CASE f = NULL
  <2>1. todo' = "exit" /\ UNCHANGED <<Argi, Argstack>> /\ raised \subseteq raised'
    BY <1>6 DEF EvalTop, Raise
  <2> QED BY <1>4, <2>1
<1>7. CASE f # NULL /\ ~(Argi >= Argibase + k)
  <2>1. todo' = todo /\ Argi' = Argibase /\ UNCHANGED Argstack
        /\ raised' = raised \cup {"ERROR_SYNTAX_ERROR"}
    BY <1>7 DEF EvalTop, Raise, EnoughArgs
  <2> QED BY <1>1, <1>4, <2>1 DEF Working
<1>8. CASE f # NULL /\ Argi >= Argibase + k
  <2>0. Argi >= Argibase + k BY <1>8
  <2>1. CASE f \in Divides /\ f \notin Unary /\ ~x.unk /\ ~y.unk /\ y.value = 0
    <3>1. todo' = "exit" /\ UNCHANGED <<Argi, Argstack>> /\ raised \subseteq raised'
      BY <1>3, <1>5, <1>8, <2>0, <2>1 DEF EvalTop, Raise, EnoughArgs
    <3> QED BY <1>4, <3>1
  <2>2. CASE ~(f \in Divides /\ f \notin Unary /\ ~x.unk /\ ~y.unk /\ y.value = 0)
    <3>1. \E arg : /\ Argstack' = [Argstack EXCEPT ![Argi - k] = arg]
                   /\ Argi' = Argi - k + 1 /\ UNCHANGED <<todo, raised>>
      BY <1>8, <2>0, <2>2 DEF EvalTop, EnoughArgs
    <3>2. DOMAIN Argstack' = DOMAIN Argstack BY <3>1
    <3>3. todo' # "idle" /\ raised \subseteq raised' BY <1>1, <3>1 DEF Working
    <3>4. \E m \in {1, 2} : \E arg :
            /\ Argi >= Argibase + m /\ Argi' = Argi - m + 1
            /\ Argstack' = [Argstack EXCEPT ![Argi - m] = arg]
      BY <1>5, <2>0, <3>1
    <3> QED BY <1>4, <3>2, <3>3, <3>4
  <2> QED BY <2>1, <2>2
<1> QED BY <1>6, <1>7, <1>8

\* evaltop() takes from above the base of its call.
LEMMA EvalTopStacks ==
  ASSUME StackInv, EvalTop
  PROVE  StackInv'
<1>1. Working BY DEF EvalTop, MustEval, Working
<1>2. bases # <<>> BY <1>1 DEF Working, StackInv, Outermost
<1>3. /\ Opi \in 0 .. MAXOPS /\ Argi \in Int /\ Argi <= MAXARGS
      /\ Argibase \in Int /\ Argibase <= MAXARGS
      /\ Opibase \in Nat /\ Opibase <= Opi
  BY <1>2, BaseType DEF StackInv, StackShape
<1>4. /\ Opi' = Opi - 1 /\ Opibase < Opi
      /\ UNCHANGED <<bases, Oppri, Opdis>> /\ todo' # "idle"
      /\ DOMAIN Argstack' = DOMAIN Argstack /\ raised \subseteq raised'
  BY EvalTopEffect
<1>5. /\ Argi' \in Int /\ Argi' <= MAXARGS
      /\ Argibase <= Argi => Argibase <= Argi'
  <2>1. CASE Argi' = Argi \/ Argi' = Argibase BY <1>3, <2>1
  <2>2. CASE \E n \in {1, 2} : Argi >= Argibase + n /\ Argi' = Argi - n + 1
    BY <1>3, <2>2, Capacities
  <2> QED BY <2>1, <2>2, EvalTopEffect
<1>6. StackShape'
  <2>1. Opi' \in 0 .. MAXOPS BY <1>3, <1>4, Capacities
  <2> QED BY <1>4, <1>5, <2>1 DEF StackInv, StackShape
<1>7. Outermost' BY <1>2, <1>4 DEF StackInv, Outermost
<1>8. OpsNested'
  <2>1. Opibase <= Opi' BY <1>3, <1>4, Capacities
  <2> QED BY <1>4, <2>1 DEF StackInv, OpsNested, Opibase
<1>9. ArgsNested'
  <2>1. raised' = {} => raised = {} BY <1>4
  <2> QED BY <1>4, <1>5, <2>1 DEF StackInv, ArgsNested, Argibase
<1> QED BY <1>6, <1>7, <1>8, <1>9 DEF StackInv

\* ',' may take an argument of the caller, but only with an error.
LEMMA NextElementStacks ==
  ASSUME StackInv, NextElement
  PROVE  StackInv'
<1>1. Working BY DEF NextElement, Reduced, Working
<1>2. bases # <<>> BY <1>1 DEF Working, StackInv, Outermost
<1>3. Argi \in Int /\ Argi <= MAXARGS /\ Argibase \in Int
  BY <1>2, BaseType DEF StackInv, StackShape
<1>4. /\ Argi' = Argi - 1 /\ todo' = "scan" /\ UNCHANGED <<Argstack, opVars, bases>>
  BY DEF NextElement
<1>5. raised' = {} => raised = {} /\ Argi - 1 = Argibase
  BY DEF NextElement, Raise
<1>6. StackShape' BY <1>3, <1>4, Capacities DEF StackInv, StackShape, opVars
<1>7. Outermost' BY <1>2, <1>4 DEF StackInv, Outermost
<1>8. OpsNested' BY <1>4 DEF StackInv, OpsNested, Opibase, opVars
<1>9. ArgsNested' BY <1>3, <1>4, <1>5 DEF StackInv, ArgsNested, Argibase
<1> QED BY <1>6, <1>7, <1>8, <1>9 DEF StackInv

\* The outermost call leaves the stacks as empty as it found them.
LEMMA ReturnStacks ==
  ASSUME StackInv, Return
  PROVE  StackInv'
<1>1. Working BY DEF Return, Reduced, Working
<1>2. bases # <<>> BY <1>1 DEF Working, StackInv, Outermost
<1>3. Argibase = 0 /\ Opibase = 0
  BY <1>2 DEF Return, StackInv, Outermost, Argibase, Opibase
<1>4. /\ Argi' = 0 /\ Opi' = 0 /\ bases' = <<>> /\ todo' = "idle"
      /\ UNCHANGED <<Argstack, Oppri, Opdis>>
  BY <1>3 DEF Return
<1>5. StackShape' BY <1>4, Capacities DEF StackInv, StackShape
<1>6. Outermost' BY <1>4 DEF Outermost
<1>7. OpsNested' /\ ArgsNested' BY <1>4 DEF OpsNested, ArgsNested
<1> QED BY <1>5, <1>6, <1>7 DEF StackInv

\* So does the evaluation of an EQM symbol, but for the value of the symbol.
LEMMA LeaveMacroStacks ==
  ASSUME StackInv, LeaveMacro
  PROVE  StackInv'
<1>1. Working BY DEF LeaveMacro, Reduced, Working
<1>2. bases # <<>> /\ bases \in Seq(Bases)
  BY <1>1 DEF Working, StackInv, StackShape, Outermost
<1>3. /\ Opi \in 0 .. MAXOPS /\ Argibase \in Int /\ Argibase <= MAXARGS
      /\ Opibase \in Nat /\ Opibase <= Opi
  BY <1>2, BaseType DEF StackInv, StackShape
<1>4. /\ Opi' = Opibase /\ UNCHANGED <<Oppri, Opdis>>
      /\ bases' = SubSeq(bases, 1, Len(bases) - 1) /\ Len(bases) > 1
  BY DEF LeaveMacro
<1>5. /\ raised \subseteq raised' /\ todo' # "idle"
      /\ \/ Argi' = Argibase /\ UNCHANGED Argstack /\ raised' # {}
         \/ \E arg : /\ Argstack' = [Argstack EXCEPT ![Argibase] = arg]
                     /\ Argi' = Argibase + 1 /\ ~(Argibase >= MAXARGS)
  <2>1. CASE Argibase >= MAXARGS BY <2>1 DEF LeaveMacro, Leaving
  <2>2. CASE ~(Argibase >= MAXARGS)
    <3>1. /\ \E arg : Argstack' = [Argstack EXCEPT ![Argibase] = arg]
          /\ Argi' = Argibase + 1 /\ raised' = Leaving /\ todo' = "stackarg"
      BY <2>2 DEF LeaveMacro
    <3> QED BY <2>2, <3>1 DEF Leaving
  <2> QED BY <2>1, <2>2
<1>6. /\ Argi' \in Int /\ Argi' <= MAXARGS /\ Argibase <= Argi'
      /\ DOMAIN Argstack' = DOMAIN Argstack
  BY <1>3, <1>5, Capacities
<1>7. /\ Len(bases) \in Nat /\ bases' \in Seq(Bases) /\ Len(bases') = Len(bases) - 1
      /\ \A i \in 1 .. Len(bases) - 1 : bases'[i] = bases[i]
      /\ bases' # <<>>
  <2>1. Len(bases) \in Nat /\ Len(bases) - 1 \in 1 .. Len(bases) BY <1>2, <1>4
  <2>2. /\ bases' \in Seq(Bases) /\ Len(bases') = Len(bases) - 1
        /\ \A i \in 1 .. Len(bases) - 1 : bases'[i] = bases[i]
    BY <1>2, <1>4, <2>1, SubSeqProperties
  <2>3. bases' # <<>> BY <2>1, <2>2
  <2> QED BY <2>1, <2>2, <2>3
<1>8. /\ Opibase' = bases[Len(bases) - 1].Opibase /\ Argibase' = bases[Len(bases) - 1].Argibase
      /\ Opibase = bases[Len(bases)].Opibase /\ Argibase = bases[Len(bases)].Argibase
  BY <1>4, <1>7 DEF Opibase, Argibase
<1>9. \A i \in 1 .. Len(bases) : bases[i].Argibase \in Int /\ bases[i].Opibase \in Nat
  <2>1. \A i \in 1 .. Len(bases) : bases[i] \in Bases BY <1>2
  <2> QED BY <2>1 DEF Bases
<1>10. StackShape'
  <2>1. Opi' \in 0 .. MAXOPS BY <1>3, <1>4, Capacities
  <2> QED BY <1>4, <1>6, <1>7, <2>1 DEF StackInv, StackShape
<1>11. Outermost' BY <1>4, <1>5, <1>7 DEF StackInv, Outermost
<1>12. OpsNested'
  <2>1. \A i \in 1 .. Len(bases') - 1 : bases'[i].Opibase <= bases'[i + 1].Opibase
    BY <1>4, <1>7 DEF StackInv, OpsNested
  <2>2. Opibase' <= Opi' BY <1>4, <1>7, <1>8 DEF StackInv, OpsNested
  <2> QED BY <2>1, <2>2 DEF OpsNested
<1>13. ArgsNested'
  <2>1. \A i \in 1 .. Len(bases') : bases'[i].Argibase <= MAXARGS
    BY <1>7 DEF StackInv, ArgsNested
  <2>2. ASSUME raised' = {}
        PROVE  /\ \A i \in 1 .. Len(bases') : 0 <= bases'[i].Argibase
               /\ \A i \in 1 .. Len(bases') - 1 : bases'[i].Argibase <= bases'[i + 1].Argibase
               /\ Argibase' <= Argi'
    <3>1. \A i \in 1 .. Len(bases) - 1 : bases[i].Argibase <= bases[i + 1].Argibase
      BY <1>5, <2>2 DEF StackInv, ArgsNested
    <3>2. Argibase' <= Argibase
      <4>1. Len(bases) - 1 \in 1 .. Len(bases) - 1 /\ (Len(bases) - 1) + 1 = Len(bases)
        BY <1>4, <1>7
      <4> QED BY <1>8, <3>1, <4>1
    <3>3. Argibase' \in Int BY <1>4, <1>7, <1>8, <1>9
    <3>4. Argibase' <= Argi' BY <1>3, <1>6, <3>2, <3>3
    <3>5. \A i \in 1 .. Len(bases') - 1 : bases'[i].Argibase <= bases'[i + 1].Argibase
      BY <1>7, <3>1
    <3>6. \A i \in 1 .. Len(bases) : 0 <= bases[i].Argibase
      BY <1>5, <2>2 DEF StackInv, ArgsNested
    <3>7. \A i \in 1 .. Len(bases') : 0 <= bases'[i].Argibase BY <1>7, <3>6
    <3> QED BY <3>4, <3>5, <3>7
  <2> QED BY <2>1, <2>2 DEF ArgsNested
<1> QED BY <1>10, <1>11, <1>12, <1>13 DEF StackInv

\* Every step keeps the stacks of the callers.
LEMMA NextStacks == StackInv /\ [Next]_vars => StackInv'
<1> SUFFICES ASSUME StackInv, [Next]_vars PROVE StackInv' OBVIOUS
<1>1. CASE Eval BY <1>1, EvalStacks
<1>2. CASE \E t \in Tokens : ReadToken(t)
  <2>1. PICK t \in Tokens : ReadToken(t) BY <1>2
  <2>2. CASE PushConstant(t) \/ PushSymbol(t) \/ IllegalCharacter(t)
    BY <2>2, OperandStacks
  <2>3. CASE EnterMacro(t) BY <2>3, EnterMacroStacks
  <2>4. CASE UnaryOp(t) \/ OpenBracket(t) BY <2>4, OpenStacks
  <2>5. CASE \/ MisplacedInvert(t) \/ BinaryOp(t) \/ CloseBracket(t)
             \/ ModeMark(t) \/ IndirectX(t) \/ Comma(t)
    BY <2>5, QuietStacks
  <2> QED BY <2>1, <2>2, <2>3, <2>4, <2>5 DEF ReadToken
<1>3. CASE EvalTop BY <1>3, EvalTopStacks
<1>4. CASE NewOp BY <1>4, NewOpStacks
<1>5. CASE Closed BY <1>5, ClosedStacks
<1>6. CASE Indexed \/ EndOfText BY <1>6, QuietStacks
<1>7. CASE NextElement BY <1>7, NextElementStacks
<1>8. CASE Return BY <1>8, ReturnStacks
<1>9. CASE LeaveMacro BY <1>9, LeaveMacroStacks
<1>10. CASE UNCHANGED vars
  BY <1>10 DEF vars, argVars, opVars, StackInv, StackShape, Outermost, OpsNested,
     ArgsNested, Argibase, Opibase
<1> QED
  BY <1>1, <1>2, <1>3, <1>4, <1>5, <1>6, <1>7, <1>8, <1>9, <1>10 DEF Next, Stopped

(***************************************************************************)
(* The calls of eval() in progress are nested on both stacks: each begins  *)
(* where its caller had arrived, the operators at any time and the         *)
(* arguments as long as no error was raised.                               *)
(***************************************************************************)
THEOREM StackInvariant == Spec => []StackInv
BY InitStacks, NextStacks, PTL DEF Spec

-----------------------------------------------------------------------------
(***************************************************************************)
(* An EQM expression does not disturb the one that uses it                 *)
(***************************************************************************)
\* What lies below the bases of the innermost call is as it was.
BelowKept ==
  /\ \A i \in 0 .. MAXARGS - 1 : i < Argibase => Argstack'[i] = Argstack[i]
  /\ \A i \in 0 .. MAXOPS - 1 : i < Opibase => Oppri'[i] = Oppri[i] /\ Opdis'[i] = Opdis[i]

\* An error is not taken back within a call.
LEMMA ErrorsStay ==
  ASSUME [Next]_vars, bases # <<>>, StackInv, raised' = {}
  PROVE  raised = {}
<1>1. CASE \E t : ReadToken(t)
  BY <1>1 DEF ReadToken, PushConstant, PushSymbol, IllegalCharacter, EnterMacro, UnaryOp,
     MisplacedInvert, BinaryOp, OpenBracket, CloseBracket, ModeMark, IndirectX, Comma,
     Abort, Raise
<1>2. CASE EvalTop BY <1>2, EvalTopEffect
<1>3. CASE NewOp \/ Closed \/ Indexed \/ NextElement \/ EndOfText \/ Return \/ LeaveMacro
  BY <1>3 DEF NewOp, Closed, Indexed, NextElement, EndOfText, Return, LeaveMacro, Raise,
     Leaving
<1>4. CASE UNCHANGED vars BY <1>4 DEF vars
<1>5. ~Eval BY DEF Eval, StackInv, Outermost
<1> QED BY <1>1, <1>2, <1>3, <1>4, <1>5 DEF Next, Stopped

\* No step touches what a caller has on the stacks.
LEMMA CallerKeptStep ==
  ASSUME [Next]_vars, bases # <<>>, StackInv, raised' = {}
  PROVE  BelowKept
<1>1. raised = {} BY ErrorsStay
<1>2. /\ Argibase \in Int /\ Argi \in Int /\ Argibase <= Argi
      /\ Opibase \in Nat /\ Opi \in Nat /\ Opibase <= Opi
  BY <1>1, BaseType DEF StackInv, StackShape, ArgsNested
<1>3. /\ \A i \in 0 .. MAXARGS - 1 : i \in DOMAIN Argstack
      /\ \A i \in 0 .. MAXOPS - 1 : i \in DOMAIN Oppri /\ i \in DOMAIN Opdis
  BY Capacities DEF StackInv, StackShape, Slots
<1>4. CASE UNCHANGED <<Argstack, Oppri, Opdis>> BY <1>4 DEF BelowKept
<1>5. CASE (\E arg : Argstack' = [Argstack EXCEPT ![Argi] = arg]) /\ UNCHANGED <<Oppri, Opdis>>
  BY <1>2, <1>3, <1>5 DEF BelowKept
<1>6. CASE /\ UNCHANGED Argstack
           /\ \E pri : Oppri' = [Oppri EXCEPT ![Opi] = pri]
           /\ \/ UNCHANGED Opdis
              \/ \E f : Opdis' = [Opdis EXCEPT ![Opi] = f]
  BY <1>2, <1>3, <1>6 DEF BelowKept
<1>7. CASE \E t : ReadToken(t)
  <2>1. PICK t : ReadToken(t) BY <1>7
  <2>2. CASE PushConstant(t) \/ PushSymbol(t)
    BY <1>4, <1>5, <2>2 DEF PushConstant, PushSymbol, StackSymbol, Abort, StackArg, argVars, opVars
  <2>3. CASE UnaryOp(t)
    BY <1>4, <1>6, <2>3 DEF UnaryOp, Abort, PushOp, argVars, opVars
  <2>4. CASE OpenBracket(t)
    BY <1>4, <1>6, <2>4 DEF OpenBracket, argVars
  <2>5. CASE IllegalCharacter(t) \/ EnterMacro(t)
    BY <1>4, <2>5 DEF IllegalCharacter, EnterMacro, Abort, argVars, opVars
  <2>6. CASE \/ MisplacedInvert(t) \/ BinaryOp(t) \/ CloseBracket(t)
             \/ ModeMark(t) \/ IndirectX(t) \/ Comma(t)
    BY <1>4, <2>6 DEF MisplacedInvert, BinaryOp, CloseBracket, ModeMark, IndirectX, Comma,
       argVars, opVars
  <2> QED BY <2>1, <2>2, <2>3, <2>4, <2>5, <2>6 DEF ReadToken
<1>8. CASE EvalTop
  <2>1. UNCHANGED <<Oppri, Opdis>> BY <1>8, EvalTopEffect
  <2>2. CASE UNCHANGED Argstack BY <1>4, <2>1, <2>2
  <2>3. CASE \E n \in {1, 2} : \E arg :
               Argi >= Argibase + n /\ Argstack' = [Argstack EXCEPT ![Argi - n] = arg]
    BY <1>2, <1>3, <2>1, <2>3 DEF BelowKept
  <2> QED BY <1>8, <2>2, <2>3, EvalTopEffect
<1>9. CASE NewOp
  BY <1>4, <1>6, <1>9 DEF NewOp, PushOp, argVars
<1>10. CASE Closed \/ Indexed \/ NextElement \/ EndOfText \/ Return
  BY <1>4, <1>10 DEF Closed, Indexed, NextElement, EndOfText, Return, argVars, opVars
<1>11. CASE LeaveMacro
  <2>1. UNCHANGED <<Oppri, Opdis>> BY <1>11 DEF LeaveMacro
  <2>2. \/ UNCHANGED Argstack
        \/ \E arg : Argstack' = [Argstack EXCEPT ![Argibase] = arg]
    BY <1>11 DEF LeaveMacro
  <2> QED BY <1>2, <1>3, <2>1, <2>2 DEF BelowKept
<1>12. CASE UNCHANGED vars BY <1>4, <1>12 DEF vars, argVars, opVars
<1>13. ~Eval BY DEF Eval, StackInv, Outermost
<1> QED
  BY <1>7, <1>8, <1>9, <1>10, <1>11, <1>12, <1>13 DEF Next, Stopped

(***************************************************************************)
(* As long as nothing is wrong, no step of eval() changes an argument or   *)
(* an operator that belongs to a caller: pushsymbol() may evaluate the     *)
(* expression of an EQM symbol in the middle of another expression.        *)
(***************************************************************************)
THEOREM CallerAlwaysKept == Spec => CallerKept
<1>1. StackInv /\ [Next]_vars => (bases # <<>> /\ raised' = {} => BelowKept)
  BY CallerKeptStep
<1>2. StackInv /\ [Next]_vars =>
        [bases # <<>> /\ raised' = {} =>
           /\ \A i \in 0 .. MAXARGS - 1 : i < Argibase => Argstack'[i] = Argstack[i]
           /\ \A i \in 0 .. MAXOPS - 1 :
                i < Opibase => Oppri'[i] = Oppri[i] /\ Opdis'[i] = Opdis[i]]_vars
  BY <1>1 DEF BelowKept
<1> QED BY <1>2, StackInvariant, PTL DEF Spec, CallerKept

-----------------------------------------------------------------------------
(***************************************************************************)
(* Values                                                                  *)
(***************************************************************************)
Lower == {ss \in Nat \X Nat : ss[1] < ss[2]}

\* What holds of 0, and of n + 1 if of n, holds of every number.
LEMMA Inductive ==
  ASSUME NEW S, 0 \in S, \A n \in Nat : n \in S => n + 1 \in S
  PROVE  Nat \subseteq S
<1>1. SUFFICES ASSUME Nat \ S # {} PROVE FALSE OBVIOUS
<1>2. IsWellFoundedOn(Lower, Nat) BY NatLessThanWellFounded DEF OpToRel, Lower
<1>3. PICK m \in Nat \ S : \A n \in Nat \ S : ~(<<n, m>> \in Lower)
  BY <1>1, <1>2, WFMin
<1>4. m # 0 /\ m - 1 \in Nat /\ m - 1 < m /\ (m - 1) + 1 = m BY <1>3
<1>5. m - 1 \in S BY <1>3, <1>4 DEF Lower
<1> QED BY <1>3, <1>4, <1>5

\* A step applied n times to a value of R gives a sequence of them.
LEMMA StepsExist ==
  ASSUME NEW R, NEW a \in R, NEW n \in Nat, NEW step \in [1 .. n -> [R -> R]]
  PROVE  \E f \in [0 .. n -> R] : f[0] = a /\ \A i \in 1 .. n : f[i] = step[i][f[i - 1]]
<1> DEFINE Good(f, k) == f[0] = a /\ \A i \in 1 .. k : f[i] = step[i][f[i - 1]]
           S == {k \in Nat : k <= n => \E f \in [0 .. k -> R] : Good(f, k)}
<1>1. 0 \in S
  <2>1. [i \in 0 .. 0 |-> a] \in [0 .. 0 -> R] /\ Good([i \in 0 .. 0 |-> a], 0) OBVIOUS
  <2> QED BY <2>1
<1>2. ASSUME NEW k \in Nat, k \in S
      PROVE  k + 1 \in S
  <2> DEFINE top == k + 1
  <2>1. SUFFICES ASSUME top <= n PROVE \E f \in [0 .. top -> R] : Good(f, top) OBVIOUS
  <2>2. PICK f \in [0 .. k -> R] : Good(f, k) BY <1>2, <2>1
  <2> DEFINE g == [i \in 0 .. top |-> IF i = top THEN step[top][f[k]] ELSE f[i]]
  <2>3. /\ top \in 1 .. n /\ top \in 0 .. top /\ top - 1 = k /\ 0 # top /\ 0 \in 0 .. top
        /\ k \in 0 .. k
        /\ \A i \in 0 .. top : i # top => i \in 0 .. k
        /\ \A i \in 0 .. k : i # top /\ i \in 0 .. top
        /\ \A i \in 1 .. top : i # top => i \in 1 .. k /\ i - 1 \in 0 .. k /\ i \in 0 .. k
    BY <2>1
  <2> HIDE DEF top
  <2>4. step[top][f[k]] \in R BY <2>2, <2>3
  <2>5. g \in [0 .. top -> R] BY <2>2, <2>3, <2>4
  <2>6. g[top] = step[top][f[k]] /\ \A i \in 0 .. k : g[i] = f[i] BY <2>3
  <2>7. f[0] = a /\ \A i \in 1 .. k : f[i] = step[i][f[i - 1]] BY <2>2
  <2> HIDE DEF g
  <2>8. g[0] = a BY <2>3, <2>6, <2>7
  <2>9. ASSUME NEW i \in 1 .. top PROVE g[i] = step[i][g[i - 1]]
    <3>1. CASE i = top BY <2>3, <2>6, <3>1
    <3>2. CASE i # top BY <2>3, <2>6, <2>7, <3>2
    <3> QED BY <3>1, <3>2
  <2> QED BY <2>5, <2>8, <2>9
<1> HIDE DEF S
<1>3. n \in S BY <1>1, <1>2, Inductive
<1> QED BY <1>3 DEF S

\* What keeps R, step by step, stays in it.
LEMMA StepsTyped ==
  ASSUME NEW R, NEW n \in Nat, NEW f, f[0] \in R,
         \A i \in 1 .. n : f[i - 1] \in R => f[i] \in R
  PROVE  \A i \in 0 .. n : f[i] \in R
<1> DEFINE S == {k \in Nat : k <= n => f[k] \in R}
<1>1. 0 \in S OBVIOUS
<1>2. ASSUME NEW k \in Nat, k \in S
      PROVE  k + 1 \in S
  <2> DEFINE top == k + 1
  <2>1. top \in Nat /\ top - 1 = k /\ (top <= n => k <= n /\ top \in 1 .. n) OBVIOUS
  <2> HIDE DEF top
  <2>2. top <= n => f[top] \in R BY <1>2, <2>1
  <2> QED BY <2>1, <2>2 DEF top
<1> HIDE DEF S
<1>3. \A i \in 0 .. n : i \in S BY <1>1, <1>2, Inductive
<1> QED BY <1>3 DEF S

\* Powers of 2 are positive.
LEMMA PowerType == Power2 \in [0 .. 63 -> Nat \ {0}]
<1> DEFINE Powers(g) == g = [i \in 0 .. 63 |-> IF i = 0 THEN 1 ELSE 2 * g[i - 1]]
           twice == [v \in Nat \ {0} |-> 2 * v]
           step  == [i \in 1 .. 63 |-> twice]
<1>1. \E g : Powers(g)
  <2> DEFINE Positive == Nat \ {0}
             n == 63
             a == 1
  <2>1. twice \in [Positive -> Positive] OBVIOUS
  <2>2. step \in [1 .. n -> [Positive -> Positive]] BY <2>1
  <2>3. a \in Positive /\ n \in Nat OBVIOUS
  <2>4. \A i \in 1 .. 63 : step[i] = twice OBVIOUS
  <2> HIDE DEF step, Positive, n, a
  <2>5. \E g \in [0 .. n -> Positive] : g[0] = a /\ \A i \in 1 .. n : g[i] = step[i][g[i - 1]]
    BY <2>2, <2>3, StepsExist
  <2> USE DEF Positive, n, a
  <2>6. PICK g \in [0 .. 63 -> Nat \ {0}] : g[0] = 1 /\ \A i \in 1 .. 63 : g[i] = step[i][g[i - 1]]
    BY <2>5
  <2>7. \A i \in 1 .. 63 : g[i] = 2 * g[i - 1] BY <2>4, <2>6
  <2>8. g = [i \in 0 .. 63 |-> g[i]] OBVIOUS
  <2>9. \A i \in 0 .. 63 : g[i] = IF i = 0 THEN 1 ELSE 2 * g[i - 1] BY <2>6, <2>7
  <2>10. Powers(g) BY <2>8, <2>9
  <2> QED BY <2>10
<1>2. Powers(Power2)
  <2>1. Power2 = CHOOSE g : Powers(g) BY DEF Power2
  <2> HIDE DEF Powers
  <2> QED BY <1>1, <2>1
<1>3. Power2[0] = 1 /\ \A i \in 1 .. 63 : Power2[i] = 2 * Power2[i - 1] BY <1>2
<1>4. \A i \in 0 .. 63 : Power2[i] \in Nat \ {0}
  <2>1. \A i \in 1 .. 63 : Power2[i - 1] \in Nat \ {0} => Power2[i] \in Nat \ {0} BY <1>3
  <2> QED BY <1>3, <2>1, StepsTyped
<1>5. Power2 = [i \in 0 .. 63 |-> Power2[i]] BY <1>2
<1> QED BY <1>4, <1>5

\* A set of bits is a number.
LEMMA NumberType == \A S : Number(S) \in Int
<1> SUFFICES ASSUME NEW S PROVE Number(S) \in Int OBVIOUS
<1> DEFINE Bit(i)  == IF i - 1 \in S THEN BitValue[i - 1] ELSE 0
           Sums(g) == g = [i \in 0 .. Width |->
             IF i = 0 THEN 0 ELSE g[i - 1] + (IF i - 1 \in S THEN BitValue[i - 1] ELSE 0)]
           step    == [i \in 1 .. Width |-> [v \in Int |-> v + Bit(i)]]
<1>1. \A i \in 1 .. Width : Bit(i) \in Int
  <2>1. SUFFICES ASSUME NEW i \in 0 .. Width - 1 PROVE BitValue[i] \in Int BY DEF Width
  <2>2. Power2[i] \in Int BY PowerType DEF Width
  <2>3. BitValue[i] = IF i = Width - 1 THEN -Power2[i] ELSE Power2[i] BY DEF BitValue
  <2> QED BY <2>2, <2>3
<1> HIDE DEF Bit
<1>2. \E g : Sums(g)
  <2>1. step \in [1 .. Width -> [Int -> Int]] BY <1>1
  <2>2. \A i \in 1 .. Width : \A v \in Int : step[i][v] = v + Bit(i) OBVIOUS
  <2> DEFINE R == Int
             a == 0
  <2> HIDE DEF step
  <2>3. Width \in Nat BY DEF Width
  <2>4. step \in [1 .. Width -> [R -> R]] /\ a \in R BY <2>1
  <2> HIDE DEF a, R
  <2>5. \E g \in [0 .. Width -> R] : g[0] = a /\ \A i \in 1 .. Width : g[i] = step[i][g[i - 1]]
    BY <2>3, <2>4, StepsExist
  <2>6. PICK g \in [0 .. Width -> Int] : g[0] = 0 /\ \A i \in 1 .. Width : g[i] = step[i][g[i - 1]]
    BY <2>5 DEF a, R
  <2>7. \A i \in 1 .. Width : g[i] = g[i - 1] + Bit(i) BY <2>2, <2>3, <2>6, SMTT(30)
  <2>8. \A i \in 0 .. Width : g[i] = IF i = 0 THEN 0 ELSE g[i - 1] + Bit(i)
    BY <2>3, <2>6, <2>7
  <2>9. g = [i \in 0 .. Width |-> g[i]] OBVIOUS
  <2>10. Sums(g) BY <2>8, <2>9 DEF Bit
  <2> QED BY <2>10
<1> DEFINE sum == CHOOSE g : Sums(g)
<1>3. Number(S) = sum[Width] BY DEF Number
<1>4. Sums(sum) BY <1>2
<1> HIDE DEF sum
<1>5. sum[0] = 0 /\ \A i \in 1 .. Width : sum[i] = sum[i - 1] + Bit(i) BY <1>4 DEF Bit, Width
<1>6. \A i \in 1 .. Width : sum[i - 1] \in Int => sum[i] \in Int BY <1>1, <1>5
<1>7. Width \in Nat /\ Width \in 0 .. Width BY DEF Width
<1> DEFINE R == Int
<1>8. sum[0] \in R /\ \A i \in 1 .. Width : sum[i - 1] \in R => sum[i] \in R BY <1>5, <1>6
<1> HIDE DEF R
<1>9. \A i \in 0 .. Width : sum[i] \in R BY <1>7, <1>8, StepsTyped
<1> QED BY <1>3, <1>7, <1>9 DEF R

\* C's division of two numbers, by one that is not 0, gives a number.
LEMMA QuotType ==
  ASSUME NEW a \in Int, NEW b \in Int, b # 0
  PROVE  Quot(a, b) \in Int /\ Rem(a, b) \in Int
<1>1. Abs(a) \in Int /\ Abs(b) \in Nat /\ Abs(b) > 0 BY DEF Abs
<1>2. Abs(a) \div Abs(b) \in Int BY <1>1
<1>3. Sign(a) \in {-1, 1} /\ Sign(b) \in {-1, 1} BY DEF Sign
<1> DEFINE q == Abs(a) \div Abs(b)
<1> HIDE DEF q
<1>4. q \in Int BY <1>2 DEF q
<1>5. Quot(a, b) \in {q, -q} BY <1>3, <1>4 DEF Quot, q
<1>6. Quot(a, b) \in Int BY <1>4, <1>5
<1> DEFINE c == Quot(a, b)
<1>7. Rem(a, b) = a - b * c BY DEF Rem
<1>8. c \in Int BY <1>6
<1> HIDE DEF c
<1> QED BY <1>7, <1>8 DEF c

\* So does every operator: a division by 0 is caught before.
LEMMA UnaryType ==
  ASSUME NEW f \in Unary, NEW a \in Int
  PROVE  UnaryValue(f, a) \in Int
<1>1. f \in {"op_negate", "op_invert", "op_not", "op_takelsb", "op_takemsb"}
  BY DEF Unary, UnaryName
<1>2. -a \in Int /\ -a - 1 \in Int /\ Truth(a = 0) \in Int /\ a % 256 \in Int
      /\ (a \div 256) % 256 \in Int
  BY DEF Truth
<1> QED BY <1>1, <1>2 DEF UnaryValue

BinaryNames == {"?", "||", "&&", "|", "^", "&", "==", "!=", "<", "<=", ">", ">=",
                "<<", ">>", "+", "-", "*", "/", "%"}

\* The operators of all levels.
LEMMA BinarySpelled == Binary = BinaryNames
<1>1. DOMAIN Levels = 1 .. 11 BY DEF Levels
<1>2. 1 .. 11 = {1, 2, 3, 4, 5, 6, 7, 8, 9, 10, 11} OBVIOUS
<1>3. Binary = Levels[1] \cup Levels[2] \cup Levels[3] \cup Levels[4] \cup Levels[5] \cup Levels[6]
        \cup Levels[7] \cup Levels[8] \cup Levels[9] \cup Levels[10] \cup Levels[11]
  BY <1>1, <1>2 DEF Binary
<1> QED BY <1>3 DEF Levels, BinaryNames

\* The priority of a binary operator fits a slot.
LEMMA PriType ==
  ASSUME NEW op \in Binary
  PROVE  Pri(op) \in 0 .. UNARY
<1>1. DOMAIN Levels = 1 .. 11 BY DEF Levels
<1>2. \E i \in DOMAIN Levels : op \in Levels[i] BY DEF Binary
<1> DEFINE level == CHOOSE i \in DOMAIN Levels : op \in Levels[i]
<1>3. level \in 1 .. 11 BY <1>1, <1>2
<1>4. Pri(op) = 9 + level BY DEF Pri
<1> HIDE DEF level
<1> QED BY <1>3, <1>4 DEF UNARY

\* An operator with two operands gives a number.
LEMMA BinaryType ==
  ASSUME NEW f \in Binary, NEW a \in Int, NEW b \in Int, f \in Divides => b # 0
  PROVE  BinaryValue(f, a, b) \in Int
<1> DEFINE p == Power2[Shift(b)]
<1>1. p \in Nat \ {0}
  <2>1. Shift(b) \in 0 .. 63 BY DEF Shift
  <2> QED BY <2>1, PowerType
<1> HIDE DEF p
<1>2. a * p \in Int /\ a \div p \in Int BY <1>1
<1>3. a * b \in Int /\ a + b \in Int /\ a - b \in Int OBVIOUS
<1>4. \A c : Truth(c) \in Int BY DEF Truth
<1>5. (IF a # 0 THEN b ELSE 0) \in Int OBVIOUS
<1>6. f \in BinaryNames BY BinarySpelled
<1>7. CASE f \in Divides
  <2>1. Quot(a, b) \in Int /\ Rem(a, b) \in Int BY <1>7, QuotType
  <2> QED BY <1>7, <2>1 DEF Divides, BinaryValue
<1>8. CASE f \in {"&", "^", "|"}
  BY <1>8, NumberType DEF BinaryValue
<1>9. CASE f \in {"<<", ">>"}
  BY <1>2, <1>9 DEF p, BinaryValue
<1>10. CASE f \in {"==", "!=", "<", "<=", ">", ">=", "&&", "||"}
  BY <1>4, <1>10 DEF BinaryValue
<1>11. CASE f \in {"*", "+", "-", "?"}
  BY <1>3, <1>5, <1>11 DEF BinaryValue
<1> QED BY <1>6, <1>7, <1>8, <1>9, <1>10, <1>11 DEF BinaryNames, Divides

\* What evaltop() stacks is an argument.
LEMMA ApplyType ==
  ASSUME NEW f \in Binary, NEW x \in Args, NEW y \in Args,
         ~(f \in Divides /\ ~x.unk /\ ~y.unk /\ y.value = 0)
  PROVE  ApplyBinary(f, x, y) \in Args
<1> DEFINE u == x.unk \/ y.unk
<1>1. x.value \in Int /\ y.value \in Int /\ x.unk \in BOOLEAN /\ y.unk \in BOOLEAN BY DEF Args
<1>2. u \in BOOLEAN OBVIOUS
<1>3. \A v \in Int : \A k \in BOOLEAN : Result(v, k) \in Args BY DEF Result, Args
<1>4. CASE f = "?"
  <2>1. \/ ApplyBinary(f, x, y) = Result(0, TRUE)
        \/ ApplyBinary(f, x, y) = Result(0, FALSE)
        \/ ApplyBinary(f, x, y) = Result(y.value, y.unk)
    <3>1. ApplyBinary(f, x, y) =
            IF x.unk THEN Result(0, TRUE)
            ELSE IF x.value # 0 THEN Result(y.value, y.unk) ELSE Result(0, FALSE)
      BY <1>4 DEF ApplyBinary, ZeroIfUnknown, Divides
    <3> QED BY <3>1
  <2>2. /\ Result(0, TRUE) \in Args /\ Result(0, FALSE) \in Args
        /\ Result(y.value, y.unk) \in Args
    <3>1. 0 \in Int /\ TRUE \in BOOLEAN /\ FALSE \in BOOLEAN OBVIOUS
    <3> QED BY <1>1, <1>3, <3>1, Zenon
  <2> QED BY <2>1, <2>2
<1>5. CASE f = "&&" \/ f = "||"
  <2>1. \/ ApplyBinary(f, x, y) = Result(0, FALSE) \/ ApplyBinary(f, x, y) = Result(1, u)
        \/ ApplyBinary(f, x, y) = Result(1, FALSE) \/ ApplyBinary(f, x, y) = Result(0, u)
    <3>1. CASE f = "&&"
      <4>1. ApplyBinary(f, x, y) =
              IF \E z \in {x, y} : ~z.unk /\ z.value = 0 THEN Result(0, FALSE) ELSE Result(1, u)
        BY <3>1 DEF ApplyBinary, ZeroIfUnknown, Divides
      <4> QED BY <4>1, Zenon
    <3>2. CASE f = "||"
      <4>1. ApplyBinary(f, x, y) =
              IF \E z \in {x, y} : ~z.unk /\ z.value # 0 THEN Result(1, FALSE) ELSE Result(0, u)
        BY <3>2 DEF ApplyBinary, ZeroIfUnknown, Divides
      <4> QED BY <4>1, Zenon
    <3> QED BY <1>5, <3>1, <3>2
  <2>2. 0 \in Int /\ 1 \in Int /\ FALSE \in BOOLEAN OBVIOUS
  <2> QED BY <1>2, <1>3, <2>1, <2>2, Zenon
<1>6. CASE f \notin {"?", "&&", "||"} /\ f \in ZeroIfUnknown /\ u
  <2>1. ApplyBinary(f, x, y) = Result(0, TRUE) BY <1>6 DEF ApplyBinary
  <2>2. 0 \in Int /\ TRUE \in BOOLEAN OBVIOUS
  <2> QED BY <1>3, <2>1, <2>2, Zenon
<1>7. CASE f \notin {"?", "&&", "||"} /\ ~(f \in ZeroIfUnknown /\ u)
  <2>1. ApplyBinary(f, x, y) = Result(BinaryValue(f, x.value, y.value), u)
    BY <1>7 DEF ApplyBinary
  <2>2. f \in Divides => y.value # 0 BY <1>7 DEF ZeroIfUnknown
  <2>3. BinaryValue(f, x.value, y.value) \in Int BY <1>1, <2>2, BinaryType
  <2> QED BY <1>2, <1>3, <2>1, <2>3
<1> QED BY <1>4, <1>5, <1>6, <1>7

-----------------------------------------------------------------------------
(***************************************************************************)
(* Types                                                                   *)
(***************************************************************************)
Functions == {NULL} \cup Unary \cup Binary
Phases    == {"idle", "scan", "stackarg", "doop", "]", ",", "end", "exit"}

\* What the text of an element is kept as; "{" and "}" delimit an EQM expression.
Spellings == Tokens \cup Spelled \cup {"{", "}"}
Elements  == [toks : Seq(Spellings), addrmode : AddrModes,
             value : Int, unk : BOOLEAN, str : BOOLEAN]
Calls     == [text : Texts, wantmode : BOOLEAN, toks : Seq(Spellings),
             addrmode : AddrModes, done : Seq(Elements)]

SlotTypes ==
  /\ Argstack \in [Slots -> Args]
  /\ Oppri \in [0 .. MAXOPS - 1 -> 0 .. UNARY]
  /\ Opdis \in [0 .. MAXOPS - 1 -> Functions]

\* doop() has an operator at hand and ',' what it has read.
Listing == todo = ","
PhaseTypes ==
  /\ {Lastwasop} \subseteq BOOLEAN
  /\ todo \in Phases
  /\ todo = "doop" => tok \in Binary
  /\ Listing => tok \in Commas /\ read # 0

\* One frame per call; every EQM symbol being evaluated was counted.
CallTypes ==
  /\ frames \in Seq(Calls) /\ Len(frames) = Len(bases)
  /\ read \in 0 .. MaxTokens
  /\ symbolRecursionCount \in 0 .. MaxRecursion
  /\ Len(bases) <= symbolRecursionCount + 1

\* Each token that was dealt with has taken at most one argument too many.
Done == IF Listing THEN read - 1 ELSE read
ArgsAbove ==
  bases # <<>> =>
    /\ -Done <= Argi
    /\ \A i \in 1 .. Len(bases) : -Done <= bases[i].Argibase

TypeInv == SlotTypes /\ PhaseTypes /\ CallTypes /\ ArgsAbove

-----------------------------------------------------------------------------
(***************************************************************************)
(* What the steps have in common                                           *)
(***************************************************************************)
\* The next free slot, and the one before, are slots.
LEMMA ArgSlots ==
  ASSUME StackInv, TypeInv, bases # <<>>
  PROVE  /\ Done \in 0 .. MaxTokens
         /\ Argi \in Int /\ -Done <= Argi /\ Argi - 1 \in Slots
         /\ Argi < MAXARGS => Argi \in Slots
         /\ Argibase \in Int /\ -Done <= Argibase
         /\ Argibase < MAXARGS => Argibase \in Slots
<1>1. Done \in 0 .. MaxTokens
  <2>1. read \in 0 .. MaxTokens /\ (Listing => read # 0) BY DEF TypeInv, PhaseTypes, CallTypes
  <2> QED BY <2>1, Capacities DEF Done
<1>2. Len(bases) \in 1 .. Len(bases) /\ Argibase \in Int
  BY BaseType
<1>3. -Done <= Argi /\ -Done <= Argibase
  BY <1>2 DEF TypeInv, ArgsAbove, Argibase
<1>4. Argi \in Int /\ Argi <= MAXARGS
  BY DEF StackInv, StackShape
<1> QED BY <1>1, <1>2, <1>3, <1>4, Capacities DEF Slots

\* The bases stay above the slots that the tokens account for.
LEMMA StayAbove ==
  ASSUME StackInv, TypeInv, bases # <<>>, bases' = bases,
         Done' \in Int, Done <= Done', -Done' <= Argi'
  PROVE  ArgsAbove'
<1>1. \A i \in 1 .. Len(bases) : bases[i].Argibase \in Int
  <2>1. \A i \in 1 .. Len(bases) : bases[i] \in Bases BY DEF StackInv, StackShape
  <2> QED BY <2>1 DEF Bases
<1>2. Done \in Int BY ArgSlots
<1>3. \A i \in 1 .. Len(bases) : -Done <= bases[i].Argibase BY DEF TypeInv, ArgsAbove
<1>4. \A i \in 1 .. Len(bases) : -Done' <= bases[i].Argibase BY <1>1, <1>2, <1>3
<1> QED BY <1>4 DEF ArgsAbove

\* The innermost call.
LEMMA TopType ==
  ASSUME StackInv, TypeInv, bases # <<>>
  PROVE  Len(frames) \in 1 .. Len(frames) /\ Len(frames) \in Nat /\ Top \in Calls
<1>1. Len(frames) \in Nat \ {0}
  BY BaseType DEF TypeInv, CallTypes
<1> QED BY <1>1 DEF Top, TypeInv, CallTypes

\* The frames with another innermost one.
LEMMA TopReplaced ==
  ASSUME StackInv, TypeInv, bases # <<>>, NEW call \in Calls
  PROVE  /\ [frames EXCEPT ![Len(frames)] = call] \in Seq(Calls)
         /\ Len([frames EXCEPT ![Len(frames)] = call]) = Len(frames)
BY TopType DEF TypeInv, CallTypes

\* What is read is kept with the innermost call,
LEMMA ReadingTypes ==
  ASSUME StackInv, TypeInv, bases # <<>>, NEW t \in Spellings
  PROVE  /\ JustReading(t) \in Seq(Calls) /\ Len(JustReading(t)) = Len(frames)
         /\ \A mode \in AddrModes :
              ReadingMode(t, mode) \in Seq(Calls) /\ Len(ReadingMode(t, mode)) = Len(frames)
<1>1. Top \in Calls BY TopType
<1>2. Append(Top.toks, t) \in Seq(Spellings) BY <1>1 DEF Calls
<1>3. [Top EXCEPT !.toks = Append(@, t)] \in Calls BY <1>1, <1>2 DEF Calls
<1>4. \A mode \in AddrModes :
        [Top EXCEPT !.toks = Append(@, t), !.addrmode = mode] \in Calls
  BY <1>1, <1>2 DEF Calls
<1>5. JustReading(t) = [frames EXCEPT ![Len(frames)] = [Top EXCEPT !.toks = Append(@, t)]]
  BY DEF JustReading, Top
<1>6. \A mode : ReadingMode(t, mode) =
        [frames EXCEPT ![Len(frames)] = [Top EXCEPT !.toks = Append(@, t), !.addrmode = mode]]
  BY TopType DEF ReadingMode, Top, TypeInv, CallTypes
<1>7. JustReading(t) \in Seq(Calls) /\ Len(JustReading(t)) = Len(frames)
  BY <1>3, <1>5, TopReplaced
<1>8. ASSUME NEW mode \in AddrModes
      PROVE  ReadingMode(t, mode) \in Seq(Calls) /\ Len(ReadingMode(t, mode)) = Len(frames)
  <2> DEFINE call == [Top EXCEPT !.toks = Append(@, t), !.addrmode = mode]
  <2>1. call \in Calls BY <1>4
  <2>2. ReadingMode(t, mode) = [frames EXCEPT ![Len(frames)] = call] BY <1>6
  <2> HIDE DEF call
  <2> QED BY <2>1, <2>2, TopReplaced
<1> QED BY <1>7, <1>8

\* and counted.
LEMMA ReadTypes ==
  ASSUME StackInv, TypeInv, NEW t, Read(t)
  PROVE  /\ bases # <<>> /\ todo \in {"scan", "stackarg"} /\ Done = read
         /\ read \in Nat /\ read' = read + 1 /\ read' \in 1 .. MaxTokens
         /\ t \in Tokens /\ t \in Spellings
<1>1. todo \in {"scan", "stackarg"} BY DEF Read, Scanning
<1>2. bases # <<>> BY <1>1 DEF StackInv, Outermost
<1>3. Top.text \in Texts BY <1>2, TopType DEF Calls
<1>4. Top.text.length \in 0 .. MaxTokens BY <1>3, ExpressionAssumption DEF ExpressionAssumption
<1>5. t \in Tokens BY <1>3 DEF Tokens, Read
<1>6. read' = read + 1 /\ read \in 0 .. MaxTokens /\ read < Top.text.length
  BY DEF Read, TypeInv, CallTypes
<1>7. Done = read BY <1>1 DEF Done, Listing
<1>8. t \in Spellings BY <1>5 DEF Spellings
<1> QED BY <1>1, <1>2, <1>4, <1>5, <1>6, <1>7, <1>8, Capacities

\* A token that does not change the calls in progress.
LEMMA AfterToken ==
  ASSUME StackInv, TypeInv, NEW t, Read(t), bases' = bases, SlotTypes', PhaseTypes',
         frames' \in Seq(Calls), Len(frames') = Len(frames),
         symbolRecursionCount' \in symbolRecursionCount .. MaxRecursion, Argi' \in Int,
         Argi <= Argi'
  PROVE  TypeInv'
<1>1. /\ bases # <<>> /\ Done = read /\ read \in Nat /\ read' = read + 1
      /\ read' \in 1 .. MaxTokens
  BY ReadTypes
<1>2. Done' \in {read', read' - 1} BY DEF Done
<1>3. Done' \in Int /\ Done <= Done' BY <1>1, <1>2
<1>4. Argi \in Int /\ -Done <= Argi /\ Done \in Int BY <1>1, ArgSlots
<1>5. -Done' <= Argi'
  <2>1. \A a, b, c, d \in Int : -a <= c /\ a <= b /\ c <= d => -b <= d OBVIOUS
  <2> QED BY <1>3, <1>4, <2>1, Zenon
<1>6. ArgsAbove' BY <1>1, <1>3, <1>5, StayAbove
<1>7. Len(bases) \in Nat /\ symbolRecursionCount \in Nat
  BY DEF StackInv, StackShape, TypeInv, CallTypes
<1>8. CallTypes' BY <1>1, <1>7, Capacities DEF TypeInv, CallTypes
<1> QED BY <1>6, <1>8 DEF TypeInv

\* A step between two tokens that does not.
LEMMA BetweenTokens ==
  ASSUME StackInv, TypeInv, bases # <<>>, UNCHANGED <<bases, read, symbolRecursionCount>>,
         SlotTypes', PhaseTypes', frames' \in Seq(Calls), Len(frames') = Len(frames),
         Done' \in Int, Done <= Done', -Done' <= Argi'
  PROVE  TypeInv'
<1>1. CallTypes' BY DEF TypeInv, CallTypes
<1> QED BY <1>1, StayAbove DEF TypeInv

\* What is expected next, in a phase that needs no token.
LEMMA PlainPhase ==
  ASSUME (Lastwasop') \in BOOLEAN, todo' \in Phases \ {"doop", ","}
  PROVE  PhaseTypes' /\ ~Listing'
BY Zenon DEF PhaseTypes, Listing

\* An error that ends the run.
LEMMA AbortTypes ==
  ASSUME StackInv, TypeInv, NEW t, Read(t), NEW e, Abort(e)
  PROVE  TypeInv'
<1>1. /\ UNCHANGED <<argVars, opVars, Lastwasop, frames, symbolRecursionCount, bases>>
      /\ todo' = "exit"
  BY DEF Abort
<1>2. PhaseTypes'
  <2>1. todo' \in Phases \ {"doop", ","} BY <1>1 DEF Phases
  <2>2. (Lastwasop') \in BOOLEAN BY <1>1, Zenon DEF TypeInv, PhaseTypes
  <2> QED BY <2>1, <2>2, PlainPhase
<1>3. SlotTypes' BY <1>1 DEF TypeInv, SlotTypes, argVars, opVars
<1>4. frames' \in Seq(Calls) /\ Len(frames') = Len(frames) BY <1>1 DEF TypeInv, CallTypes
<1>5. symbolRecursionCount' \in symbolRecursionCount .. MaxRecursion
  BY <1>1 DEF TypeInv, CallTypes
<1>6. Argi' \in Int /\ Argi <= Argi' /\ bases' = bases
  BY <1>1 DEF argVars, StackInv, StackShape
<1> QED BY <1>2, <1>3, <1>4, <1>5, <1>6, AfterToken

\* A stacked argument is in a slot.
LEMMA StackArgTypes ==
  ASSUME StackInv, TypeInv, bases # <<>>, Argi < MAXARGS, NEW arg \in Args, StackArg(arg),
         UNCHANGED opVars
  PROVE  /\ SlotTypes' /\ PhaseTypes' /\ Argi' \in Int /\ Argi <= Argi'
<1>1. Argi \in Slots /\ Argi \in Int BY ArgSlots
<1>2. Argstack' = [Argstack EXCEPT ![Argi] = arg] /\ Argi' = Argi + 1 BY DEF StackArg
<1>3. SlotTypes' BY <1>1, <1>2 DEF TypeInv, SlotTypes, opVars
<1>4. (Lastwasop') \in BOOLEAN BY DEF StackArg
<1>5. todo' \in Phases \ {"doop", ","} BY DEF StackArg, Phases
<1>6. PhaseTypes' BY <1>4, <1>5, PlainPhase
<1> QED BY <1>1, <1>2, <1>3, <1>6

-----------------------------------------------------------------------------
(***************************************************************************)
(* One lemma per group of actions                                          *)
(***************************************************************************)
\* Values are arguments.
LEMMA ResultType == \A v \in Int : \A u \in BOOLEAN : Result(v, u) \in Args
BY DEF Result, Args

\* A number, a character or the program counter is pushed.
LEMMA PushConstantTypes ==
  ASSUME StackInv, TypeInv, NEW t, PushConstant(t)
  PROVE  TypeInv'
<1>1. Read(t) /\ (t \in DOMAIN Literals \cup DOMAIN Strings \/ t = "%") BY DEF PushConstant
<1>2. bases # <<>> /\ t \in Spellings BY <1>1, ReadTypes
<1>3. CASE ArgsFull
  <2>1. \E e : Abort(e) BY <1>3 DEF PushConstant
  <2> QED BY <1>1, <2>1, AbortTypes
<1>4. CASE ~ArgsFull
  <2> DEFINE arg == IF t \in DOMAIN Strings
                    THEN [value |-> Strings[t], unk |-> FALSE, str |-> TRUE]
                    ELSE Result(IF t = "%" THEN 0 ELSE Literals[t], FALSE)
  <2>1. /\ StackArg(arg) /\ frames' = JustReading(t)
        /\ UNCHANGED <<opVars, symbolRecursionCount, bases>>
    BY <1>4 DEF PushConstant
  <2>2. arg \in Args
    <3>1. CASE t \in DOMAIN Strings
      BY <3>1, ExpressionAssumption DEF ExpressionAssumption, Args
    <3>2. CASE t \notin DOMAIN Strings
      <4>1. \A s \in DOMAIN Literals : Literals[s] \in Int
        BY ExpressionAssumption DEF ExpressionAssumption
      <4>2. (IF t = "%" THEN 0 ELSE Literals[t]) \in Int
        <5>1. 0 \in Int OBVIOUS
        <5> QED BY <1>1, <3>2, <4>1, <5>1, Zenon
      <4> QED BY <3>2, <4>2, ResultType
    <3> QED BY <3>1, <3>2
  <2> HIDE DEF arg
  <2>3. Argi < MAXARGS BY <1>2, <1>4, ArgSlots, Capacities DEF ArgsFull
  <2>4. SlotTypes' /\ PhaseTypes' /\ Argi' \in Int /\ Argi <= Argi'
    BY <1>2, <2>1, <2>2, <2>3, StackArgTypes
  <2>5. frames' \in Seq(Calls) /\ Len(frames') = Len(frames) BY <1>2, <2>1, ReadingTypes
  <2>6. symbolRecursionCount' \in symbolRecursionCount .. MaxRecursion
    BY <2>1 DEF TypeInv, CallTypes
  <2> QED BY <1>1, <2>1, <2>4, <2>5, <2>6, AfterToken
<1> QED BY <1>3, <1>4

\* A symbol is pushed.
LEMMA PushSymbolTypes ==
  ASSUME StackInv, TypeInv, NEW t, PushSymbol(t)
  PROVE  TypeInv'
<1>1. Read(t) BY DEF PushSymbol
<1>2. bases # <<>> /\ t \in Spellings BY <1>1, ReadTypes
<1>3. CASE symbolRecursionCount + 1 > MaxRecursion \/ ArgsFull
  <2>1. \E e : Abort(e) BY <1>3 DEF PushSymbol
  <2> QED BY <1>1, <2>1, AbortTypes
<1>4. CASE ~(symbolRecursionCount + 1 > MaxRecursion \/ ArgsFull)
  <2>1. /\ frames' = JustReading(t)
        /\ UNCHANGED <<opVars, symbolRecursionCount, bases>>
    BY <1>4 DEF PushSymbol
  <2>2. PICK name \in DOMAIN Resolved \cup Unresolved : StackSymbol(name)
    BY <1>4 DEF PushSymbol
  <2>3. PICK arg \in Args : StackArg(arg)
    <3>1. CASE name \in Unresolved
      <4>1. PICK v \in Stale : StackArg(Result(v, TRUE)) BY <2>2, <3>1 DEF StackSymbol
      <4>2. v \in Int /\ TRUE \in BOOLEAN BY ExpressionAssumption DEF ExpressionAssumption
      <4>3. Result(v, TRUE) \in Args BY <4>2, ResultType, Zenon
      <4> QED BY <4>1, <4>3
    <3>2. CASE name \notin Unresolved
      <4>1. StackArg(Result(Resolved[name], FALSE)) BY <2>2, <3>2 DEF StackSymbol
      <4>2. Resolved[name] \in Int /\ FALSE \in BOOLEAN
        BY <3>2, ExpressionAssumption DEF ExpressionAssumption
      <4>3. Result(Resolved[name], FALSE) \in Args BY <4>2, ResultType, Zenon
      <4> QED BY <4>1, <4>3
    <3> QED BY <3>1, <3>2
  <2>4. Argi < MAXARGS BY <1>2, <1>4, ArgSlots, Capacities DEF ArgsFull
  <2>5. SlotTypes' /\ PhaseTypes' /\ Argi' \in Int /\ Argi <= Argi'
    BY <1>2, <2>1, <2>3, <2>4, StackArgTypes
  <2>6. frames' \in Seq(Calls) /\ Len(frames') = Len(frames) BY <1>2, <2>1, ReadingTypes
  <2>7. symbolRecursionCount' \in symbolRecursionCount .. MaxRecursion
    BY <2>1 DEF TypeInv, CallTypes
  <2> QED BY <1>1, <2>1, <2>5, <2>6, <2>7, AfterToken
<1> QED BY <1>3, <1>4

\* A character that nothing begins with.
LEMMA IllegalCharacterTypes ==
  ASSUME StackInv, TypeInv, NEW t, IllegalCharacter(t)
  PROVE  TypeInv'
<1>1. Read(t) BY DEF IllegalCharacter
<1>2. bases # <<>> /\ t \in Spellings BY <1>1, ReadTypes
<1>3. CASE symbolRecursionCount + 1 > MaxRecursion
  <2>1. \E e : Abort(e) BY <1>3 DEF IllegalCharacter
  <2> QED BY <1>1, <2>1, AbortTypes
<1>4. CASE ~(symbolRecursionCount + 1 > MaxRecursion)
  <2>1. /\ frames' = JustReading(t) /\ symbolRecursionCount' = symbolRecursionCount + 1
        /\ todo' = "scan" /\ UNCHANGED <<argVars, opVars, Lastwasop, bases>>
    BY <1>4 DEF IllegalCharacter
  <2>2. SlotTypes' BY <2>1 DEF TypeInv, SlotTypes, argVars, opVars
  <2>3. PhaseTypes'
    <3>1. todo' \in Phases \ {"doop", ","} BY <2>1 DEF Phases
    <3>2. (Lastwasop') \in BOOLEAN BY <2>1, Zenon DEF TypeInv, PhaseTypes
    <3> QED BY <3>1, <3>2, PlainPhase
  <2>4. frames' \in Seq(Calls) /\ Len(frames') = Len(frames) BY <1>2, <2>1, ReadingTypes
  <2>5. symbolRecursionCount' \in symbolRecursionCount .. MaxRecursion
    BY <1>4, <2>1, Capacities DEF TypeInv, CallTypes
  <2>6. Argi' \in Int /\ Argi <= Argi' /\ bases' = bases
    BY <2>1 DEF argVars, StackInv, StackShape
  <2> QED BY <1>1, <2>2, <2>3, <2>4, <2>5, <2>6, AfterToken
<1> QED BY <1>3, <1>4

\* A call begins as it is given, and so does that of an EQM expression.
LEMMA NewFrameType ==
  ASSUME NEW text \in Texts, NEW wantmode \in BOOLEAN
  PROVE  NewFrame(text, wantmode) \in Calls
BY DEF NewFrame, Calls, AddrModes

\* The text of an EQM symbol is evaluated in place of the symbol.
LEMMA EnterMacroTypes ==
  ASSUME StackInv, TypeInv, NEW t, EnterMacro(t)
  PROVE  TypeInv'
<1>1. Read(t) BY DEF EnterMacro
<1>2. /\ bases # <<>> /\ Done = read /\ read \in Nat /\ read' = read + 1
      /\ read' \in 1 .. MaxTokens
  BY <1>1, ReadTypes
<1>3. CASE symbolRecursionCount + 1 > MaxRecursion
  <2>1. \E e : Abort(e) BY <1>3 DEF EnterMacro
  <2> QED BY <1>1, <2>1, AbortTypes
<1>4. CASE ~(symbolRecursionCount + 1 > MaxRecursion)
  <2>1. /\ symbolRecursionCount' = symbolRecursionCount + 1
        /\ frames' = Append(frames, NewFrame(Top.text, FALSE))
        /\ bases' = Append(bases, NewBase) /\ (Lastwasop') \in BOOLEAN
        /\ todo' = "scan" /\ UNCHANGED <<argVars, opVars>>
    BY <1>4 DEF EnterMacro
  <2>2. SlotTypes' BY <2>1 DEF TypeInv, SlotTypes, argVars, opVars
  <2>3. PhaseTypes' /\ ~Listing'
    <3>1. todo' \in Phases \ {"doop", ","} BY <2>1 DEF Phases
    <3> QED BY <2>1, <3>1, PlainPhase
  <2>4. NewFrame(Top.text, FALSE) \in Calls
    <3>1. Top.text \in Texts BY <1>2, TopType DEF Calls
    <3> QED BY <3>1, NewFrameType
  <2>5. NewBase = [Argibase |-> Argi, Opibase |-> Opi] /\ bases \in Seq(Bases)
    BY DEF NewBase, StackInv, StackShape
  <2>6. /\ Len(bases') = Len(bases) + 1 /\ Len(bases) \in Nat
        /\ \A i \in 1 .. Len(bases) : bases'[i] = bases[i] /\ bases[i].Argibase \in Int
        /\ bases'[Len(bases) + 1].Argibase = Argi
    <3>1. NewBase \in Bases /\ NewBase.Argibase = Argi BY <2>5 DEF Bases, StackInv, StackShape
    <3>2. \A i \in 1 .. Len(bases) : bases[i].Argibase \in Int
      <4>1. \A i \in 1 .. Len(bases) : bases[i] \in Bases BY <2>5
      <4> QED BY <4>1 DEF Bases
    <3> HIDE DEF NewBase
    <3> QED BY <2>1, <2>5, <3>1, <3>2, AppendProperties
  <2>7. CallTypes'
    <3>1. frames' \in Seq(Calls) /\ Len(frames') = Len(bases')
      <4>1. frames \in Seq(Calls) /\ Len(frames) = Len(bases) BY DEF TypeInv, CallTypes
      <4> DEFINE new == NewFrame(Top.text, FALSE)
      <4>2. frames' = Append(frames, new) /\ new \in Calls BY <2>1, <2>4
      <4> HIDE DEF new
      <4> QED BY <2>6, <4>1, <4>2, AppendProperties
    <3>2. symbolRecursionCount' \in 0 .. MaxRecursion /\ Len(bases') <= symbolRecursionCount' + 1
      BY <1>4, <2>1, <2>6, Capacities DEF TypeInv, CallTypes
    <3> QED BY <1>2, <3>1, <3>2, Capacities DEF CallTypes
  <2>8. ArgsAbove'
    <3>1. Done' = read' BY <2>3 DEF Done
    <3>2. Done \in Int /\ Done' \in Int /\ Done <= Done' BY <1>2, <3>1
    <3>3. Argi \in Int /\ -Done <= Argi /\ Argi' = Argi BY <1>2, <2>1, ArgSlots DEF argVars
    <3>4. \A b \in Int : -Done <= b => -Done' <= b
      <4>1. \A a, b, c \in Int : -a <= b /\ a <= c => -c <= b OBVIOUS
      <4> QED BY <3>2, <4>1, Zenon
    <3>5. \A i \in 1 .. Len(bases) : -Done <= bases[i].Argibase
      BY <1>2 DEF TypeInv, ArgsAbove
    <3>6. \A i \in 1 .. Len(bases') : -Done' <= bases'[i].Argibase
      <4>1. SUFFICES ASSUME NEW i \in 1 .. Len(bases') PROVE -Done' <= bases'[i].Argibase OBVIOUS
      <4>2. CASE i = Len(bases) + 1 BY <2>6, <3>3, <3>4, <4>2
      <4>3. CASE i # Len(bases) + 1
        <5>1. i \in 1 .. Len(bases) BY <2>6, <4>3
        <5> QED BY <2>6, <3>4, <3>5, <5>1
      <4> QED BY <4>2, <4>3
    <3>7. -Done' <= Argi' BY <3>3, <3>4
    <3> QED BY <3>6, <3>7 DEF ArgsAbove
  <2> QED BY <2>2, <2>3, <2>7, <2>8 DEF TypeInv
<1> QED BY <1>3, <1>4

\* doop() of a unary operator, and '['.
LEMMA OpenTypes ==
  ASSUME StackInv, TypeInv, NEW t, UnaryOp(t) \/ OpenBracket(t)
  PROVE  TypeInv'
<1>1. Read(t) BY DEF UnaryOp, OpenBracket
<1>2. bases # <<>> /\ t \in Spellings BY <1>1, ReadTypes
<1>3. CASE \E e : Abort(e) BY <1>1, <1>3, AbortTypes
<1>4. CASE ~\E e : Abort(e)
  <2>1. /\ UNCHANGED <<argVars, Lastwasop, bases, symbolRecursionCount>> /\ todo' = "scan"
        /\ \E s \in Spellings : frames' = JustReading(s)
    BY <1>2, <1>4 DEF UnaryOp, OpenBracket, Spellings, Spelled, Openers
  <2>2. SlotTypes'
    <3>1. UNARY \in 0 .. UNARY /\ 0 \in 0 .. UNARY BY DEF UNARY
    <3>2. UnaryOp(t) => UnaryName[t] \in Functions BY DEF UnaryOp, Functions, Unary
    <3>3. Opi \in 0 .. MAXOPS BY DEF StackInv, StackShape
    <3>4. CASE UnaryOp(t)
      <4>1. PushOp(UnaryName[t], UNARY) /\ ~(Opi >= MAXOPS) BY <1>4, <3>4 DEF UnaryOp
      <4>2. Opi \in 0 .. MAXOPS - 1 BY <3>3, <4>1, Capacities
      <4> QED BY <2>1, <3>1, <3>2, <3>4, <4>1, <4>2 DEF TypeInv, SlotTypes, PushOp, argVars
    <3>5. CASE OpenBracket(t)
      <4>1. /\ UNCHANGED Opdis
            /\ \/ UNCHANGED Oppri
               \/ Opi # MAXOPS /\ Oppri' = [Oppri EXCEPT ![Opi] = 0]
        BY <3>5 DEF OpenBracket
      <4> QED BY <2>1, <3>1, <3>3, <4>1, Capacities DEF TypeInv, SlotTypes, argVars
    <3> QED BY <3>4, <3>5
  <2>3. PhaseTypes'
    <3>1. todo' \in Phases \ {"doop", ","} BY <2>1 DEF Phases
    <3>2. (Lastwasop') \in BOOLEAN BY <2>1, Zenon DEF TypeInv, PhaseTypes
    <3> QED BY <3>1, <3>2, PlainPhase
  <2>4. frames' \in Seq(Calls) /\ Len(frames') = Len(frames) BY <1>2, <2>1, ReadingTypes
  <2>5. symbolRecursionCount' \in symbolRecursionCount .. MaxRecursion
    BY <2>1 DEF TypeInv, CallTypes
  <2>6. Argi' \in Int /\ Argi <= Argi' /\ bases' = bases
    BY <2>1 DEF argVars, StackInv, StackShape
  <2> QED BY <1>1, <2>2, <2>3, <2>4, <2>5, <2>6, AfterToken
<1> QED BY <1>3, <1>4

\* Tokens that change the phase, the mode or the errors: what is read is kept, or a
\* ',' still has to be dealt with.
LEMMA QuietTokenTypes ==
  ASSUME StackInv, TypeInv, NEW t,
         \/ MisplacedInvert(t) \/ BinaryOp(t) \/ CloseBracket(t) \/ ModeMark(t)
         \/ IndirectX(t) \/ Comma(t)
  PROVE  TypeInv'
<1>1. /\ Read(t)
      /\ UNCHANGED <<argVars, opVars, bases, symbolRecursionCount>>
  BY DEF MisplacedInvert, BinaryOp, CloseBracket, ModeMark, IndirectX, Comma
<1>2. bases # <<>> /\ t \in Spellings /\ read' # 0 BY <1>1, ReadTypes
<1>3. SlotTypes' BY <1>1 DEF TypeInv, SlotTypes, argVars, opVars
<1>4. PhaseTypes'
  <2>1. CASE MisplacedInvert(t) \/ CloseBracket(t) \/ ModeMark(t)
    <3>1. todo' \in Phases \ {"doop", ","} /\ Lastwasop' = Lastwasop
      BY <2>1 DEF MisplacedInvert, CloseBracket, ModeMark, Phases
    <3>2. (Lastwasop') \in BOOLEAN BY <3>1, Zenon DEF TypeInv, PhaseTypes
    <3> QED BY <3>1, <3>2, PlainPhase
  <2>2. CASE BinaryOp(t)
    BY <2>2, Zenon DEF BinaryOp, PhaseTypes, Phases, Listing
  <2>3. CASE IndirectX(t) \/ Comma(t)
    <3>1. todo' = "," /\ tok' \in Commas /\ Lastwasop' = Lastwasop
      BY <2>3, Zenon DEF IndirectX, Comma, Commas
    <3> QED BY <1>2, <3>1, Zenon DEF TypeInv, PhaseTypes, Phases, Listing
  <2> QED BY <2>1, <2>2, <2>3
<1>5. frames' \in Seq(Calls) /\ Len(frames') = Len(frames)
  <2>1. CASE MisplacedInvert(t) \/ BinaryOp(t) \/ CloseBracket(t) \/ IndirectX(t)
    <3>1. \E s \in Spellings : frames' = JustReading(s)
      BY <1>2, <2>1 DEF MisplacedInvert, BinaryOp, CloseBracket, IndirectX, Spellings, Spelled,
         Closers
    <3> QED BY <1>2, <3>1, ReadingTypes
  <2>2. CASE ModeMark(t)
    <3>1. {"AM_INDWORD", "AM_INDBYTEY", "AM_IMM8"} \subseteq AddrModes BY DEF AddrModes
    <3>2. CASE t # "#"
      <4>1. \/ frames' = ReadingMode(t, "AM_INDWORD") \/ frames' = JustReading(t)
            \/ frames' = ReadingMode(t, "AM_INDBYTEY")
        BY <2>2, <3>2 DEF ModeMark
      <4> QED BY <1>2, <3>1, <4>1, ReadingTypes
    <3>3. CASE t = "#"
      <4>1. frames' = [ReadingMode(t, "AM_IMM8") EXCEPT ![Len(frames)].wantmode = FALSE]
        BY <2>2, <3>3 DEF ModeMark
      <4>2. /\ ReadingMode(t, "AM_IMM8") \in Seq(Calls)
            /\ Len(ReadingMode(t, "AM_IMM8")) = Len(frames)
        BY <1>2, <3>1, ReadingTypes
      <4> DEFINE r == ReadingMode(t, "AM_IMM8")
                 n == Len(frames)
      <4>3. n \in 1 .. Len(r) /\ r \in Seq(Calls) /\ Len(r) = n BY <1>2, <4>2, TopType
      <4>4. frames' = [r EXCEPT ![n] = [r[n] EXCEPT !.wantmode = FALSE]] BY <4>1
      <4> HIDE DEF r, n
      <4>5. [r[n] EXCEPT !.wantmode = FALSE] \in Calls
        <5>1. r[n] \in Calls BY <4>3
        <5> QED BY <5>1 DEF Calls
      <4>6. frames' \in Seq(Calls) /\ Len(frames') = n BY <4>3, <4>4, <4>5
      <4> QED BY <4>6 DEF n
    <3> QED BY <3>2, <3>3
  <2>3. CASE Comma(t) BY <2>3 DEF Comma, TypeInv, CallTypes
  <2> QED BY <2>1, <2>2, <2>3
<1>6. symbolRecursionCount' \in symbolRecursionCount .. MaxRecursion
  BY <1>1 DEF TypeInv, CallTypes
<1>7. Argi' \in Int /\ Argi <= Argi' /\ bases' = bases
  BY <1>1 DEF argVars, StackInv, StackShape
<1> QED BY <1>1, <1>3, <1>4, <1>5, <1>6, <1>7, AfterToken

\* The end of doop(), of ']' and of the text.
LEMMA ReducedTypes ==
  ASSUME StackInv, TypeInv, NewOp \/ Closed \/ EndOfText
  PROVE  TypeInv'
<1>1. /\ UNCHANGED <<argVars, frames, bases, read, symbolRecursionCount>>
      /\ ~Listing /\ todo' \in Phases \ {"doop", ","}
      /\ Working
  BY DEF NewOp, Closed, EndOfText, Reduced, Scanning, Listing, Phases, Working
<1>2. bases # <<>> BY <1>1 DEF Working, StackInv, Outermost
<1>3. SlotTypes'
  <2>1. CASE Closed \/ EndOfText
    BY <1>1, <2>1 DEF Closed, EndOfText, TypeInv, SlotTypes, argVars, opVars
  <2>2. CASE NewOp
    <3>1. tok \in Binary /\ tok \in Functions
      BY <2>2 DEF NewOp, Reduced, TypeInv, PhaseTypes, Functions
    <3>2. Pri(tok) \in 0 .. UNARY BY <3>1, PriType
    <3>3. CASE Opi < MAXOPS
      <4>1. Opi \in 0 .. MAXOPS - 1 BY <3>3, Capacities DEF StackInv, StackShape
      <4>2. PushOp(tok, Pri(tok)) BY <2>2, <3>3 DEF NewOp
      <4> QED BY <1>1, <3>1, <3>2, <4>1, <4>2 DEF TypeInv, SlotTypes, PushOp, argVars
    <3>4. CASE ~(Opi < MAXOPS)
      <4>1. UNCHANGED <<Oppri, Opdis>> BY <2>2, <3>4 DEF NewOp
      <4> QED BY <1>1, <4>1 DEF TypeInv, SlotTypes, argVars
    <3> QED BY <3>3, <3>4
  <2> QED BY <2>1, <2>2
<1>4. (Lastwasop') \in BOOLEAN
  <2>1. (Lastwasop) \in BOOLEAN BY DEF TypeInv, PhaseTypes
  <2>2. Lastwasop' = Lastwasop \/ Lastwasop' = (Lastwasop /\ Argi = Argibase)
    BY DEF NewOp, Closed, EndOfText
  <2> QED BY <2>1, <2>2
<1>5. PhaseTypes' /\ ~Listing' BY <1>1, <1>4, PlainPhase
<1>6. Done = read /\ Done' = read BY <1>1, <1>5 DEF Done
<1>7. Done' \in Int /\ Done <= Done' /\ Argi' = Argi
  <2>1. Done \in Int BY <1>2, ArgSlots
  <2>2. Done' = Done BY <1>6
  <2>3. Argi' = Argi BY <1>1 DEF argVars
  <2> QED BY <2>1, <2>2, <2>3
<1>8. -Done' <= Argi'
  <2>1. -Done <= Argi BY <1>2, ArgSlots
  <2> QED BY <1>6, <1>7, <2>1
<1> QED BY <1>1, <1>2, <1>3, <1>5, <1>7, <1>8, BetweenTokens DEF TypeInv, CallTypes

\* What evaltop() puts on the stack is an argument, in place of one of its call.
LEMMA EvalTopValue ==
  ASSUME StackInv, TypeInv, EvalTop
  PROVE  \/ UNCHANGED Argstack
         \/ \E n \in {1, 2} : \E arg \in Args :
              Argi >= Argibase + n /\ Argstack' = [Argstack EXCEPT ![Argi - n] = arg]
<1> DEFINE f == Opdis[Opi - 1]
           n == IF Oppri[Opi - 1] = UNARY THEN 1 ELSE 2
           x == Argstack[Argi - n]
           y == Argstack[Argi - 1]
<1>1. bases # <<>> BY DEF EvalTop, MustEval, StackInv, Outermost
<1>2. f \in Functions
  <2>1. Opi - 1 \in 0 .. MAXOPS - 1
    BY <1>1, EvalTopEffect, BaseType, Capacities DEF StackInv, StackShape
  <2> QED BY <2>1 DEF TypeInv, SlotTypes
<1>3. n \in {1, 2} /\ (n # 1 => n = 2) OBVIOUS
<1>4. CASE f = NULL
  BY <1>4 DEF EvalTop
<1>5. CASE f # NULL /\ ~EnoughArgs(n)
  BY <1>5 DEF EvalTop
<1>6. CASE f # NULL /\ EnoughArgs(n)
  <2>1. Argi >= Argibase + n BY <1>6 DEF EnoughArgs
  <2>2. Argi - n \in Slots /\ Argi - 1 \in Slots
    <3>1. /\ Argi - 1 \in Slots /\ Argi \in Int /\ Argibase \in Int /\ -Done <= Argibase
          /\ Done \in 0 .. MaxTokens /\ Argi <= MAXARGS
      BY <1>1, ArgSlots DEF StackInv, StackShape
    <3> HIDE DEF n
    <3> QED BY <1>3, <2>1, <3>1, Capacities DEF Slots
  <2>3. x \in Args /\ y \in Args BY <2>2 DEF TypeInv, SlotTypes
  <2>4. CASE f \in Unary
    <3>1. PICK u \in IF n = 1 THEN {x.unk} ELSE BOOLEAN :
            Argstack' = [Argstack EXCEPT ![Argi - n] = Result(UnaryValue(f, x.value), u)]
      BY <1>6, <2>4 DEF EvalTop
    <3>2. x.value \in Int /\ x.unk \in BOOLEAN BY <2>3 DEF Args
    <3>3. UnaryValue(f, x.value) \in Int BY <2>4, <3>2, UnaryType
    <3>4. u \in BOOLEAN BY <3>1, <3>2
    <3> DEFINE arg == Result(UnaryValue(f, x.value), u)
    <3>5. arg \in Args BY <3>3, <3>4, ResultType, Zenon
    <3> HIDE DEF arg
    <3>6. Argstack' = [Argstack EXCEPT ![Argi - n] = arg] BY <3>1 DEF arg
    <3> HIDE DEF n
    <3> QED BY <1>3, <2>1, <3>5, <3>6
  <2>5. CASE f \notin Unary /\ f \in Divides /\ ~x.unk /\ ~y.unk /\ y.value = 0
    BY <1>6, <2>5 DEF EvalTop
  <2>6. CASE f \notin Unary /\ ~(f \in Divides /\ ~x.unk /\ ~y.unk /\ y.value = 0)
    <3> DEFINE arg == ApplyBinary(f, x, y)
    <3>1. Argstack' = [Argstack EXCEPT ![Argi - n] = arg] BY <1>6, <2>6 DEF EvalTop
    <3>2. f \in Binary BY <1>2, <1>6, <2>6 DEF Functions
    <3>3. arg \in Args BY <2>3, <2>6, <3>2, ApplyType
    <3> HIDE DEF arg, n
    <3> QED BY <1>3, <2>1, <3>1, <3>3
  <2> QED BY <2>4, <2>5, <2>6
<1> QED BY <1>4, <1>5, <1>6

\* The operator on top of Opstack is applied.
LEMMA EvalTopTypes ==
  ASSUME StackInv, TypeInv, EvalTop
  PROVE  TypeInv'
<1>1. bases # <<>> BY DEF EvalTop, MustEval, StackInv, Outermost
<1>2. /\ UNCHANGED <<Oppri, Opdis, frames, tok, read, bases, symbolRecursionCount>>
      /\ todo' = todo \/ todo' = "exit"
  BY DEF EvalTop
<1>3. /\ Argi \in Int /\ Argibase \in Int /\ -Done <= Argi /\ -Done <= Argibase
      /\ Done \in 0 .. MaxTokens /\ Argi <= MAXARGS
  BY <1>1, ArgSlots DEF StackInv, StackShape
<1>4. SlotTypes'
  <2>1. Argstack' \in [Slots -> Args]
    <3>1. CASE UNCHANGED Argstack BY <3>1 DEF TypeInv, SlotTypes
    <3>2. CASE \E n \in {1, 2} : \E arg \in Args :
                 Argi >= Argibase + n /\ Argstack' = [Argstack EXCEPT ![Argi - n] = arg]
      <4>1. PICK n \in {1, 2}, arg \in Args :
              Argi >= Argibase + n /\ Argstack' = [Argstack EXCEPT ![Argi - n] = arg]
        BY <3>2
      <4>2. Argi - n \in Slots BY <1>3, <4>1, Capacities DEF Slots
      <4> QED BY <4>1, <4>2 DEF TypeInv, SlotTypes
    <3> QED BY <3>1, <3>2, EvalTopValue
  <2> QED BY <1>2, <2>1 DEF TypeInv, SlotTypes
<1>5. (Lastwasop') \in BOOLEAN
  <2>1. \/ Lastwasop' = Lastwasop \/ Lastwasop' = FALSE
        \/ \E g, x, y : Lastwasop' = OperandAfter(g, x, y)
    BY DEF EvalTop
  <2>2. (Lastwasop) \in BOOLEAN BY DEF TypeInv, PhaseTypes
  <2>3. \A g, x, y : OperandAfter(g, x, y) \in BOOLEAN BY DEF OperandAfter
  <2> QED BY <2>1, <2>2, <2>3, Zenon
<1>6. PhaseTypes' /\ Done' \in Int /\ Done <= Done'
  <2>1. CASE todo' = todo
    <3>1. PhaseTypes' /\ Listing' = Listing
      BY <1>2, <1>5, <2>1, Zenon DEF TypeInv, PhaseTypes, Listing
    <3>2. Done' = Done BY <1>2, <3>1 DEF Done
    <3> QED BY <1>3, <3>1, <3>2
  <2>2. CASE todo' = "exit"
    <3>1. todo' \in Phases \ {"doop", ","} BY <2>2 DEF Phases
    <3>2. PhaseTypes' /\ ~Listing' BY <1>5, <3>1, PlainPhase
    <3>3. Done' = read /\ read \in Int BY <1>2, <3>2 DEF Done, TypeInv, CallTypes
    <3>4. Done \in {read, read - 1} BY DEF Done
    <3> QED BY <3>2, <3>3, <3>4
  <2> QED BY <1>2, <2>1, <2>2
<1>7. -Done' <= Argi'
  <2>1. Argi' \in Int /\ -Done <= Argi'
    <3>1. CASE Argi' = Argi \/ Argi' = Argibase BY <1>3, <3>1
    <3>2. CASE \E n \in {1, 2} : Argi >= Argibase + n /\ Argi' = Argi - n + 1
      BY <1>3, <3>2, Capacities
    <3> QED BY <3>1, <3>2, EvalTopEffect
  <2>2. \A a, b, c \in Int : -a <= b /\ a <= c => -c <= b OBVIOUS
  <2>3. Done \in Int BY <1>3
  <2> QED BY <1>6, <2>1, <2>2, <2>3, Zenon
<1>8. frames' \in Seq(Calls) /\ Len(frames') = Len(frames) BY <1>2 DEF TypeInv, CallTypes
<1> QED BY <1>1, <1>2, <1>4, <1>6, <1>7, <1>8, BetweenTokens

\* An element holds what was read and an argument.
LEMMA ElementType ==
  ASSUME StackInv, TypeInv, bases # <<>>, NEW arg \in Args
  PROVE  Element(arg) \in Elements
BY TopType DEF Element, Elements, Calls, Args

\* ',' accounts for the token that was read.
LEMMA CommaDone ==
  ASSUME StackInv, TypeInv, Listing, todo' = "scan", (Lastwasop') \in BOOLEAN,
         UNCHANGED read
  PROVE  /\ bases # <<>> /\ PhaseTypes' /\ Done \in Int /\ Done' = Done + 1
         /\ tok \in Commas /\ tok \in Spellings
<1>1. bases # <<>> BY Zenon DEF StackInv, Outermost, Listing
<1>2. PhaseTypes' /\ ~Listing'
  <2>1. todo' \in Phases \ {"doop", ","} BY DEF Phases
  <2> QED BY <2>1, PlainPhase
<1>3. Done = read - 1 /\ Done' = read BY <1>2 DEF Done
<1>4. read \in Int BY DEF TypeInv, CallTypes
<1>5. tok \in Commas BY DEF TypeInv, PhaseTypes
<1>6. tok \in Spellings BY <1>5 DEF Spellings, Spelled
<1> QED BY <1>1, <1>2, <1>3, <1>4, <1>5, <1>6

\* An index register sets the mode.
LEMMA IndexedTypes ==
  ASSUME StackInv, TypeInv, Indexed
  PROVE  TypeInv'
<1>1. /\ UNCHANGED <<argVars, opVars, bases, read, symbolRecursionCount>>
      /\ Listing /\ tok # "," /\ todo' = "scan" /\ (Lastwasop') \in BOOLEAN
      /\ frames' = ReadingMode(tok, IndexedMode(tok, Top.addrmode))
  BY DEF Indexed, Reduced, Listing
<1>2. /\ bases # <<>> /\ PhaseTypes' /\ Done \in Int /\ Done' = Done + 1
      /\ tok \in Commas /\ tok \in Spellings
  BY <1>1, CommaDone
<1>3. IndexedMode(tok, Top.addrmode) \in AddrModes
  <2>1. {"AM_INDBYTEX", "AM_0X", "AM_0Y", "AM_BYTEADR_SP"} \subseteq AddrModes
    BY DEF AddrModes
  <2>2. tok \in {",x", ",y", ",y)", ",sp"} BY <1>1, <1>2, Zenon DEF Commas
  <2>3. IndexedMode(tok, Top.addrmode) \in {"AM_INDBYTEX", "AM_0X", "AM_0Y", "AM_BYTEADR_SP"}
    <3> DEFINE mode == Top.addrmode
    <3> HIDE DEF mode
    <3>1. CASE tok = ",x" BY <3>1, Zenon DEF IndexedMode
    <3>2. CASE tok \in {",y", ",y)"} BY <3>2, Zenon DEF IndexedMode
    <3>3. CASE tok = ",sp" BY <3>3, Zenon DEF IndexedMode
    <3> QED BY <2>2, <3>1, <3>2, <3>3, Zenon
  <2> QED BY <2>1, <2>3
<1>4. frames' \in Seq(Calls) /\ Len(frames') = Len(frames) BY <1>1, <1>2, <1>3, ReadingTypes
<1>5. SlotTypes' BY <1>1 DEF TypeInv, SlotTypes, argVars, opVars
<1>6. Done' \in Int /\ Done <= Done' BY <1>2
<1>7. -Done' <= Argi'
  <2>1. Argi' = Argi /\ Argi \in Int /\ -Done <= Argi BY <1>1, <1>2, ArgSlots DEF argVars
  <2>2. \A a, b, c \in Int : -a <= b /\ a <= c => -c <= b OBVIOUS
  <2> QED BY <1>2, <1>6, <2>1, <2>2
<1> QED BY <1>1, <1>2, <1>4, <1>5, <1>6, <1>7, BetweenTokens

\* ',' ends an element, and takes the argument below what was read.
LEMMA NextElementTypes ==
  ASSUME StackInv, TypeInv, NextElement
  PROVE  TypeInv'
<1>1. /\ UNCHANGED <<Argstack, opVars, bases, read, symbolRecursionCount>>
      /\ Listing /\ todo' = "scan" /\ (Lastwasop') \in BOOLEAN /\ Argi' = Argi - 1
  BY DEF NextElement, Reduced, Listing
<1>2. bases # <<>> /\ PhaseTypes' /\ Done \in Int /\ Done' = Done + 1
  BY <1>1, CommaDone
<1>3. Argi \in Int /\ Argi - 1 \in Slots /\ -Done <= Argi BY <1>2, ArgSlots
<1>4. LastArg \in Args BY <1>3 DEF LastArg, TypeInv, SlotTypes
<1>5. frames' \in Seq(Calls) /\ Len(frames') = Len(frames)
  <2> DEFINE e    == Element(LastArg)
             call == [Top EXCEPT !.done = Append(@, e), !.toks = <<>>, !.addrmode = "AM_IMP"]
  <2>1. e \in Elements BY <1>2, <1>4, ElementType
  <2>2. frames' = [frames EXCEPT ![Len(frames)] = call]
    <3>1. frames' = [frames EXCEPT ![Len(frames)].done = Append(@, e),
                                   ![Len(frames)].toks = <<>>,
                                   ![Len(frames)].addrmode = "AM_IMP"]
      BY DEF NextElement
    <3> HIDE DEF e
    <3> QED BY <1>2, <3>1, TopType DEF Top, TypeInv, CallTypes
  <2> HIDE DEF e
  <2>3. call \in Calls
    <3>1. Top \in Calls BY <1>2, TopType
    <3>2. Append(Top.done, e) \in Seq(Elements) /\ <<>> \in Seq(Spellings)
      BY <2>1, <3>1 DEF Calls
    <3>3. "AM_IMP" \in AddrModes BY DEF AddrModes
    <3> QED BY <3>1, <3>2, <3>3 DEF Calls
  <2> HIDE DEF call
  <2> QED BY <1>2, <2>2, <2>3, TopReplaced
<1>6. SlotTypes' BY <1>1 DEF TypeInv, SlotTypes, opVars
<1>7. Done' \in Int /\ Done <= Done' BY <1>2
<1>8. -Done' <= Argi'
  <2>1. \A a, b \in Int : -a <= b => -(a + 1) <= b - 1 OBVIOUS
  <2> QED BY <1>1, <1>2, <1>3, <2>1
<1> QED BY <1>1, <1>2, <1>5, <1>6, <1>7, <1>8, BetweenTokens

\* eval() returns at least one element.
LEMMA ListType ==
  ASSUME StackInv, TypeInv, bases # <<>>
  PROVE  List \in Seq(Elements) /\ Len(List) \in Nat \ {0}
<1> DEFINE arg == IF Taken THEN LastArg ELSE NoArg
           l   == Append(Top.done, Element(arg))
<1>1. arg \in Args
  <2>1. LastArg \in Args BY ArgSlots DEF LastArg, TypeInv, SlotTypes
  <2>2. NoArg \in Args BY DEF NoArg, Args
  <2> QED BY <2>1, <2>2
<1> HIDE DEF arg
<1>2. Element(arg) \in Elements BY <1>1, ElementType
<1>3. Top.done \in Seq(Elements) BY TopType DEF Calls
<1>4. l \in Seq(Elements) /\ Len(l) \in Nat \ {0} BY <1>2, <1>3, AppendProperties
<1>5. List = IF Taken /\ l[1].addrmode = "AM_IMP"
             THEN [l EXCEPT ![1].addrmode = "AM_BYTEADR"] ELSE l
  BY DEF List, arg
<1> HIDE DEF l
<1>6. 1 \in 1 .. Len(l) /\ l[1] \in Elements BY <1>4
<1>7. "AM_BYTEADR" \in AddrModes BY DEF AddrModes
<1>8. [l EXCEPT ![1].addrmode = "AM_BYTEADR"] \in Seq(Elements)
  <2> DEFINE e == [l[1] EXCEPT !.addrmode = "AM_BYTEADR"]
  <2>1. e \in Elements BY <1>6, <1>7 DEF Elements
  <2>2. [l EXCEPT ![1].addrmode = "AM_BYTEADR"] = [l EXCEPT ![1] = e] OBVIOUS
  <2> HIDE DEF e
  <2> QED BY <1>4, <1>6, <2>1, <2>2
<1>9. Len([l EXCEPT ![1].addrmode = "AM_BYTEADR"]) = Len(l) BY <1>4
<1> QED BY <1>4, <1>5, <1>8, <1>9

\* The outermost evaluation returns its list.
LEMMA ReturnTypes ==
  ASSUME StackInv, TypeInv, Return
  PROVE  TypeInv'
<1>1. /\ UNCHANGED <<Argstack, Oppri, Opdis, Lastwasop, symbolRecursionCount, read>>
      /\ bases' = <<>> /\ frames' = <<>> /\ todo' = "idle"
  BY DEF Return
<1>2. SlotTypes' BY <1>1 DEF TypeInv, SlotTypes
<1>3. PhaseTypes'
  <2>1. todo' \in Phases \ {"doop", ","} BY <1>1 DEF Phases
  <2>2. (Lastwasop') \in BOOLEAN BY <1>1, Zenon DEF TypeInv, PhaseTypes
  <2> QED BY <2>1, <2>2, PlainPhase
<1>4. CallTypes' BY <1>1 DEF TypeInv, CallTypes
<1>5. ArgsAbove' BY <1>1 DEF ArgsAbove
<1> QED BY <1>2, <1>3, <1>4, <1>5 DEF TypeInv

\* What pushsymbol() stacks is the first value of the list, and the text of the caller
\* has a place for the expression.
LEMMA LeaveMacroTypes ==
  ASSUME StackInv, TypeInv, LeaveMacro
  PROVE  TypeInv'
<1>1. /\ UNCHANGED <<Oppri, Opdis, read>> /\ ~Listing /\ Len(bases) > 1
      /\ bases' = SubSeq(bases, 1, Len(bases) - 1)
      /\ symbolRecursionCount' = symbolRecursionCount - 1
      /\ todo' \in {"exit", "stackarg"}
      /\ Lastwasop' = Lastwasop \/ Lastwasop' = FALSE
  BY DEF LeaveMacro, Reduced, Listing
<1>2. bases # <<>> BY <1>1
<1>3. /\ Done \in 0 .. MaxTokens /\ Argibase \in Int /\ -Done <= Argibase
      /\ Argibase < MAXARGS => Argibase \in Slots
  BY <1>2, ArgSlots
<1> DEFINE first == List[1]
           n     == Len(bases) - 1
<1>4. first \in Elements BY <1>2, ListType
<1>5. SlotTypes'
  <2> DEFINE arg == [value |-> first.value, unk |-> first.unk, str |-> first.str]
  <2>1. arg \in Args BY <1>4 DEF Elements, Args
  <2>2. \/ UNCHANGED Argstack
        \/ ~(Argibase >= MAXARGS) /\ Argstack' = [Argstack EXCEPT ![Argibase] = arg]
    BY DEF LeaveMacro
  <2> HIDE DEF arg
  <2>3. Argstack' \in [Slots -> Args]
    BY <1>3, <2>1, <2>2, Capacities DEF TypeInv, SlotTypes
  <2> QED BY <1>1, <2>3 DEF TypeInv, SlotTypes
<1>6. PhaseTypes' /\ ~Listing'
  <2>1. todo' \in Phases \ {"doop", ","} BY <1>1 DEF Phases
  <2>2. (Lastwasop') \in BOOLEAN BY <1>1, Zenon DEF TypeInv, PhaseTypes
  <2> QED BY <2>1, <2>2, PlainPhase
<1>7. /\ n \in Nat \ {0} /\ Len(bases) = n + 1 /\ Len(bases') = n
      /\ \A i \in 1 .. n : bases'[i] = bases[i]
  <2>1. bases \in Seq(Bases) /\ Len(bases) \in Nat BY DEF StackInv, StackShape
  <2> QED BY <1>1, <2>1, SubSeqProperties
<1>8. frames' \in Seq(Calls) /\ Len(frames') = n
  <2> DEFINE outer  == SubSeq(frames, 1, n)
             commas == [i \in 1 .. Len(List) - 1 |-> ","]
             text   == outer[n].toks \o <<"{">> \o first.toks \o commas \o <<"}">>
             call   == [outer[n] EXCEPT !.toks = text]
  <2>1. frames \in Seq(Calls) /\ Len(frames) = n + 1 BY <1>7 DEF TypeInv, CallTypes
  <2>2. outer \in Seq(Calls) /\ Len(outer) = n /\ n \in 1 .. n
    <3> HIDE DEF n
    <3> QED BY <1>7, <2>1, SubSeqProperties
  <2>3. outer[n] \in Calls
    <3> HIDE DEF outer, n
    <3> QED BY <2>2
  <2>4. frames' = [outer EXCEPT ![n] = call]
    <3>1. frames' =
            LET out == SubSeq(frames, 1, Len(frames) - 1)
            IN  [out EXCEPT ![Len(out)].toks =
                   @ \o <<"{">> \o first.toks \o commas \o <<"}">>]
      BY DEF LeaveMacro
    <3>2. n = Len(frames) - 1 BY <1>7, <2>1
    <3>3. frames' = [outer EXCEPT ![n].toks = text] BY <2>2, <3>1, <3>2
    <3> HIDE DEF outer, n
    <3> QED BY <2>2, <3>3
  <2>5. text \in Seq(Spellings)
    <3> DEFINE comma == ","
               open  == "{"
               close == "}"
               k     == Len(List) - 1
    <3>1. comma \in Spellings /\ open \in Spellings /\ close \in Spellings
      BY Zenon DEF Spellings, Spelled, Commas
    <3>2. outer[n].toks \in Seq(Spellings) BY <2>3 DEF Calls
    <3>3. first.toks \in Seq(Spellings) BY <1>4 DEF Elements
    <3>4. k \in Nat BY <1>2, ListType
    <3> DEFINE before == outer[n].toks
               inside == first.toks
               marks  == [i \in 1 .. k |-> comma]
    <3>5. text = before \o <<open>> \o inside \o marks \o <<close>> OBVIOUS
    <3>6. before \in Seq(Spellings) /\ inside \in Seq(Spellings) BY <3>2, <3>3
    <3> HIDE DEF comma, open, close, k, before, inside, text
    <3>7. marks \in Seq(Spellings) BY <3>1, <3>4
    <3>8. <<open>> \in Seq(Spellings) /\ <<close>> \in Seq(Spellings) BY <3>1
    <3> HIDE DEF marks
    <3> QED BY <3>5, <3>6, <3>7, <3>8, ConcatProperties
  <2> HIDE DEF outer, n, text
  <2>6. call \in Calls BY <2>3, <2>5 DEF Calls
  <2> HIDE DEF call
  <2> QED BY <2>2, <2>4, <2>6
<1>9. CallTypes'
  <2>1. symbolRecursionCount' \in 0 .. MaxRecursion /\ Len(bases') <= symbolRecursionCount' + 1
    BY <1>1, <1>7, Capacities DEF TypeInv, CallTypes
  <2> QED BY <1>1, <1>7, <1>8, <2>1 DEF TypeInv, CallTypes
<1>10. ArgsAbove'
  <2>1. Done' = Done BY <1>1, <1>6 DEF Done
  <2>2. -Done <= Argi'
    <3>1. Argi' = Argibase \/ Argi' = Argibase + 1 BY DEF LeaveMacro
    <3> QED BY <1>3, <3>1, Capacities
  <2>3. \A i \in 1 .. n : -Done <= bases[i].Argibase
    BY <1>2, <1>7 DEF TypeInv, ArgsAbove
  <2> QED BY <1>7, <2>1, <2>2, <2>3 DEF ArgsAbove
<1> QED BY <1>5, <1>6, <1>9, <1>10 DEF TypeInv

\* Before the first evaluation.
LEMMA InitTypes == Init => TypeInv
<1> SUFFICES ASSUME Init PROVE TypeInv OBVIOUS
<1>1. SlotTypes
  <2>1. NoArg \in Args /\ NULL \in Functions /\ 0 \in 0 .. UNARY
    BY DEF NoArg, Args, Functions, UNARY
  <2> QED BY <2>1 DEF Init, SlotTypes
<1>2. PhaseTypes BY Zenon DEF Init, PhaseTypes, Phases, Listing
<1>3. CallTypes
  <2>1. frames = <<>> /\ bases = <<>> /\ read = 0 /\ symbolRecursionCount = 0 BY DEF Init
  <2> QED BY <2>1, Capacities DEF CallTypes
<1>4. ArgsAbove BY DEF Init, ArgsAbove
<1> QED BY <1>1, <1>2, <1>3, <1>4 DEF TypeInv

\* A text is begun with nothing read.
LEMMA EvalTypes ==
  ASSUME StackInv, TypeInv, Eval
  PROVE  TypeInv'
<1>1. Opi = 0 /\ Argi = 0 BY DEF StackInv, Outermost, Eval
<1>2. PICK text \in Texts : frames' = <<NewFrame(text, text.wantmode)>> BY DEF Eval
<1>3. /\ bases' = <<[Argibase |-> 0, Opibase |-> 0]>> /\ Argi' = 0
      /\ read' = 0 /\ todo' = "scan" /\ (Lastwasop') \in BOOLEAN
      /\ UNCHANGED <<Argstack, Oppri, Opdis, symbolRecursionCount>>
  BY <1>1 DEF Eval, NewBase, argVars, opVars
<1>4. SlotTypes' BY <1>3 DEF TypeInv, SlotTypes
<1>5. PhaseTypes' /\ ~Listing'
  <2>1. todo' \in Phases \ {"doop", ","} BY <1>3 DEF Phases
  <2> QED BY <1>3, <2>1, PlainPhase
<1>6. CallTypes'
  <2> DEFINE call == NewFrame(text, text.wantmode)
  <2>1. text.wantmode \in BOOLEAN BY ExpressionAssumption DEF ExpressionAssumption
  <2>2. call \in Calls BY <2>1, NewFrameType
  <2>3. frames' = <<call>> BY <1>2
  <2> HIDE DEF call
  <2>4. frames' \in Seq(Calls) /\ Len(frames') = 1 BY <2>2, <2>3
  <2>5. Len(bases') = 1 BY <1>3
  <2> QED BY <1>3, <2>4, <2>5, Capacities DEF TypeInv, CallTypes
<1>7. ArgsAbove'
  <2>1. Done' = 0 BY <1>3, <1>5 DEF Done
  <2>2. Len(bases') = 1 /\ bases'[1].Argibase = 0 BY <1>3
  <2> QED BY <1>3, <2>1, <2>2 DEF ArgsAbove
<1> QED BY <1>4, <1>5, <1>6, <1>7 DEF TypeInv

\* Every step keeps the types.
LEMMA NextTypes == StackInv /\ TypeInv /\ [Next]_vars => TypeInv'
<1> SUFFICES ASSUME StackInv, TypeInv, [Next]_vars PROVE TypeInv' OBVIOUS
<1>1. CASE Eval BY <1>1, EvalTypes
<1>2. CASE \E t \in Tokens : ReadToken(t)
  <2>1. PICK t \in Tokens : ReadToken(t) BY <1>2
  <2>2. CASE PushConstant(t) BY <2>2, PushConstantTypes
  <2>3. CASE PushSymbol(t) BY <2>3, PushSymbolTypes
  <2>4. CASE IllegalCharacter(t) BY <2>4, IllegalCharacterTypes
  <2>5. CASE EnterMacro(t) BY <2>5, EnterMacroTypes
  <2>6. CASE UnaryOp(t) \/ OpenBracket(t) BY <2>6, OpenTypes
  <2>7. CASE \/ MisplacedInvert(t) \/ BinaryOp(t) \/ CloseBracket(t)
             \/ ModeMark(t) \/ IndirectX(t) \/ Comma(t)
    BY <2>7, QuietTokenTypes
  <2> QED BY <2>1, <2>2, <2>3, <2>4, <2>5, <2>6, <2>7 DEF ReadToken
<1>3. CASE EvalTop BY <1>3, EvalTopTypes
<1>4. CASE NewOp \/ Closed \/ EndOfText BY <1>4, ReducedTypes
<1>5. CASE Indexed BY <1>5, IndexedTypes
<1>6. CASE NextElement BY <1>6, NextElementTypes
<1>7. CASE Return BY <1>7, ReturnTypes
<1>8. CASE LeaveMacro BY <1>8, LeaveMacroTypes
<1>9. CASE UNCHANGED vars
  BY <1>9 DEF vars, argVars, opVars, TypeInv, SlotTypes, PhaseTypes, CallTypes, ArgsAbove,
     Listing, Done
<1> QED
  BY <1>1, <1>2, <1>3, <1>4, <1>5, <1>6, <1>7, <1>8, <1>9 DEF Next, Stopped

(***************************************************************************)
(* The two stacks hold arguments and operators, doop() and ',' find what   *)
(* they deal with, and misplaced ',' take at most one slot per token of    *)
(* the text from the memory in front of Argstack.                          *)
(***************************************************************************)
THEOREM ExpressionTypes == Spec => []TypeInv
<1>1. Init => StackInv /\ TypeInv BY InitStacks, InitTypes
<1>2. StackInv /\ TypeInv /\ [Next]_vars => (StackInv /\ TypeInv)'
  BY NextStacks, NextTypes
<1> QED BY <1>1, <1>2, PTL DEF Spec

(***************************************************************************)
(* Whatever text is read, malformed ones included: the operators stay in   *)
(* Oppri and Opdis; the arguments stay in Argstack until an error is       *)
(* raised, and after one Argi never passes its end and lies in front of it *)
(* by no more slots than tokens were read; and every call of eval() by the *)
(* assembler leaves both stacks empty for the next.                        *)
(***************************************************************************)
THEOREM StacksAlwaysRestored == Spec => []StacksRestored
<1>1. StackInv /\ TypeInv => StacksRestored
  <2> SUFFICES ASSUME StackInv, TypeInv PROVE StacksRestored OBVIOUS
  <2>1. Opi \in 0 .. MAXOPS /\ Argi <= MAXARGS /\ (todo = "idle" => Opi = 0 /\ Argi = 0)
    BY DEF StackInv, StackShape, Outermost
  <2>2. -read <= Argi /\ (raised = {} => 0 <= Argi)
    <3>1. read \in 0 .. MaxTokens /\ read \in Int BY DEF TypeInv, CallTypes
    <3>2. CASE bases = <<>> BY <3>1, <3>2 DEF StackInv, Outermost
    <3>3. CASE bases # <<>>
      <4>1. Argi \in Int /\ -Done <= Argi /\ Done \in Int BY <3>3, ArgSlots
      <4>2. Done <= read BY <3>1 DEF Done
      <4>3. ASSUME raised = {} PROVE 0 <= Argi
        <5>1. Len(bases) \in 1 .. Len(bases) /\ Argibase \in Int BY <3>3, BaseType
        <5>2. 0 <= Argibase /\ Argibase <= Argi
          BY <3>3, <4>3, <5>1 DEF StackInv, ArgsNested, Argibase
        <5> QED BY <4>1, <5>1, <5>2
      <4> QED BY <3>1, <4>1, <4>2, <4>3
    <3> QED BY <3>2, <3>3
  <2> QED BY <2>1, <2>2 DEF StacksRestored
<1> QED BY <1>1, StackInvariant, ExpressionTypes, PTL

(***************************************************************************)
(* The type invariant of the runs, for texts of any tokens and length, any *)
(* values and any capacity of the stacks.                                  *)
(***************************************************************************)
THEOREM ExpressionTypeCorrect == Spec => []TypeOK
<1>1. StackInv /\ TypeInv => TypeOK
  <2> SUFFICES ASSUME StackInv, TypeInv PROVE TypeOK OBVIOUS
  <2>1. \A i \in Slots : Argstack[i] \in Args BY DEF TypeInv, SlotTypes
  <2>2. Argi \in -(MaxTokens + 1) .. MAXARGS
    <3>1. CASE bases = <<>> BY <3>1, Capacities DEF StackInv, Outermost
    <3>2. CASE bases # <<>>
      <4>1. Argi \in Int /\ -Done <= Argi /\ Done \in 0 .. MaxTokens /\ Argi <= MAXARGS
        BY <3>2, ArgSlots DEF StackInv, StackShape
      <4> QED BY <4>1, Capacities
    <3> QED BY <3>1, <3>2
  <2>3. Opi \in 0 .. MAXOPS BY DEF StackInv, StackShape
  <2>4. \A i \in 0 .. MAXOPS - 1 : /\ Oppri[i] \in 0 .. UNARY
                                   /\ Opdis[i] \in {NULL} \cup Unary \cup Binary
    BY DEF TypeInv, SlotTypes, Functions
  <2>5. \A i \in DOMAIN frames :
          frames[i].wantmode \in BOOLEAN /\ frames[i].addrmode \in AddrModes
    <3>1. \A i \in DOMAIN frames : frames[i] \in Calls BY DEF TypeInv, CallTypes
    <3> QED BY <3>1 DEF Calls
  <2>6. {Lastwasop} \subseteq BOOLEAN BY DEF TypeInv, PhaseTypes
  <2>7. todo \in {"idle", "scan", "stackarg", "doop", "]", ",", "end", "exit"}
    BY Zenon DEF TypeInv, PhaseTypes, Phases
  <2>8. symbolRecursionCount \in 0 .. MaxRecursion BY DEF TypeInv, CallTypes
  <2> QED BY <2>1, <2>2, <2>3, <2>4, <2>5, <2>6, <2>7, <2>8 DEF TypeOK
<1> QED BY <1>1, StackInvariant, ExpressionTypes, PTL
=============================================================================
