------------------------------ MODULE FrameProofs ------------------------------
(***************************************************************************)
(* Proofs about Frames, for every source, any nesting of files and macros  *)
(* and any number of passes.                                               *)
(***************************************************************************)
EXTENDS Frames, SequenceTheorems, FiniteSetTheorems, FunctionTheorems, WellFoundedInduction,
        TLAPS

-----------------------------------------------------------------------------
(***************************************************************************)
(* Least elements, and sequences that are used as stacks                   *)
(***************************************************************************)

Lower == {ss \in Nat \X Nat : ss[1] < ss[2]}

\* The order of the natural numbers is well-founded.
LEMMA LowerWellFounded == IsWellFoundedOn(Lower, Nat)
BY NatLessThanWellFounded DEF OpToRel, Lower

\* A set of natural numbers has a least element, the one that is chosen as such.
LEMMA Least ==
  ASSUME NEW S \in SUBSET Nat, S # {}
  PROVE  LET m == CHOOSE k \in S : \A j \in S : k <= j
         IN m \in S /\ \A j \in S : m <= j
<1>1. PICK m \in S : \A n \in S : ~(<<n, m>> \in Lower)
  BY LowerWellFounded, WFMin
<1>2. \A n \in S : ~(n < m)
  BY <1>1 DEF Lower
<1>3. m \in S /\ \A n \in S : m <= n
  BY <1>2
<1> QED
  BY <1>3

\* What a push does.
LEMMA Pushed ==
  ASSUME NEW S, NEW s \in Seq(S), NEW e \in S
  PROVE  /\ <<e>> \o s \in Seq(S)
         /\ Len(<<e>> \o s) = Len(s) + 1
         /\ (<<e>> \o s)[1] = e
         /\ \A i \in 1 .. Len(s) : (<<e>> \o s)[i + 1] = s[i]
         /\ <<e>> \o s # <<>>
<1>1. <<e>> \in Seq(S) /\ Len(<<e>>) = 1 /\ <<e>>[1] = e
  OBVIOUS
<1>2. Len(s) \in Nat
  OBVIOUS
<1>3. /\ <<e>> \o s \in Seq(S)
      /\ Len(<<e>> \o s) = 1 + Len(s)
      /\ \A i \in 1 .. 1 + Len(s) : (<<e>> \o s)[i] = IF i <= 1 THEN e ELSE s[i - 1]
  BY <1>1, ConcatProperties
<1> QED
  BY <1>2, <1>3

\* What is left when the first n entries are gone.
LEMMA Dropped ==
  ASSUME NEW S, NEW s \in Seq(S), NEW n \in 0 .. Len(s)
  PROVE  /\ SubSeq(s, n + 1, Len(s)) \in Seq(S)
         /\ Len(SubSeq(s, n + 1, Len(s))) = Len(s) - n
         /\ \A i \in 1 .. Len(s) - n : SubSeq(s, n + 1, Len(s))[i] = s[i + n]
<1>1. Len(s) \in Nat /\ n \in Nat
  OBVIOUS
<1>2. \A i \in n + 1 .. Len(s) : s[i] \in S
  BY <1>1, ElementOfSeq
<1>3. /\ SubSeq(s, n + 1, Len(s)) \in Seq(S)
      /\ Len(SubSeq(s, n + 1, Len(s)))
           = IF n + 1 <= Len(s) THEN Len(s) - (n + 1) + 1 ELSE 0
      /\ \A i \in 1 .. Len(s) - (n + 1) + 1 :
           SubSeq(s, n + 1, Len(s))[i] = s[(n + 1) + i - 1]
  BY <1>1, <1>2, SubSeqProperties
<1> QED
  BY <1>1, <1>3

\* Head and Tail of a stack.
LEMMA Popped ==
  ASSUME NEW S, NEW s \in Seq(S), s # <<>>
  PROVE  /\ Len(s) \in Nat \ {0} /\ Head(s) = s[1] /\ s[1] \in S
         /\ Tail(s) = SubSeq(s, 1 + 1, Len(s))
         /\ Tail(s) \in Seq(S) /\ Len(Tail(s)) = Len(s) - 1
         /\ \A i \in 1 .. Len(s) - 1 : Tail(s)[i] = s[i + 1]
<1>1. Len(s) \in Nat \ {0} /\ Head(s) = s[1] /\ s[1] \in S
  BY HeadTailProperties
<1> QED
  BY <1>1, HeadTailProperties, TailIsSubSeq

-----------------------------------------------------------------------------
(***************************************************************************)
(* The frames, apart from how far each has been read                       *)
(***************************************************************************)

\* Typed frames, the last of which is a file, with texts among those of D and F.
FramesOK(fs, D, F) ==
  /\ fs \in Seq(Frame)
  /\ fs # <<>> => ~fs[Len(fs)].macro
  /\ \A i \in 1 .. Len(fs) : fs[i].text \in (IF fs[i].macro THEN D ELSE F)

\* The same frames; where they read, and what, may differ.
Same(f, g) ==
  /\ g.addr = f.addr /\ g.macro = f.macro /\ g.call = f.call
  /\ g.saveidx = f.saveidx /\ g.savedolidx = f.savedolidx
SameFrames(fs, gs) == Len(gs) = Len(fs) /\ \A i \in 1 .. Len(fs) : Same(fs[i], gs[i])

\* A frame that is read on is the same frame.
LEMMA FrameMoved ==
  ASSUME NEW f \in Frame, NEW p \in Nat \ {0}
  PROVE  LET g == [f EXCEPT !.pos = p]
         IN /\ g \in Frame /\ g.macro = f.macro /\ g.call = f.call /\ g.text = f.text
            /\ g.addr = f.addr /\ g.pos = p
            /\ g.saveidx = f.saveidx /\ g.savedolidx = f.savedolidx
BY DEF Frame

\* The frame on top is read on, or put somewhere else.
LEMMA TopMoved ==
  ASSUME NEW D, NEW F, NEW fs, FramesOK(fs, D, F), fs # <<>>,
         NEW g \in Frame, Same(fs[1], g), g.text \in (IF g.macro THEN D ELSE F)
  PROVE  LET gs == <<g>> \o Tail(fs)
         IN FramesOK(gs, D, F) /\ SameFrames(fs, gs) /\ gs # <<>>
<1> DEFINE gs == <<g>> \o Tail(fs)
<1>1. /\ fs \in Seq(Frame) /\ Len(fs) \in Nat \ {0}
      /\ Tail(fs) \in Seq(Frame) /\ Len(Tail(fs)) = Len(fs) - 1
      /\ \A i \in 1 .. Len(fs) - 1 : Tail(fs)[i] = fs[i + 1]
  BY Popped DEF FramesOK
<1>2. /\ gs \in Seq(Frame) /\ Len(gs) = Len(fs) /\ gs # <<>> /\ gs[1] = g
      /\ \A i \in 1 .. Len(fs) - 1 : gs[i + 1] = Tail(fs)[i]
  BY <1>1, Pushed
<1> HIDE DEF gs
<1>3. \A i \in 2 .. Len(fs) : gs[i] = fs[i]
  <2>1. SUFFICES ASSUME NEW i \in 2 .. Len(fs) PROVE gs[i] = fs[i]
    OBVIOUS
  <2>2. i - 1 \in 1 .. Len(fs) - 1 /\ (i - 1) + 1 = i
    BY <1>1
  <2> QED
    BY <1>1, <1>2, <2>2
<1>4. SameFrames(fs, gs)
  BY <1>1, <1>2, <1>3 DEF SameFrames, Same
<1>5. \A i \in 1 .. Len(gs) : gs[i].text \in (IF gs[i].macro THEN D ELSE F)
  BY <1>1, <1>2, <1>3 DEF FramesOK
<1>6. ~gs[Len(gs)].macro
  BY <1>1, <1>2, <1>4 DEF FramesOK, SameFrames, Same
<1>7. FramesOK(gs, D, F)
  BY <1>2, <1>5, <1>6 DEF FramesOK
<1> QED
  BY <1>2, <1>4, <1>7 DEF gs

\* fgets(), or the step to the next line of a macro, moves the frame on top only.
LEMMA FetchedFrames ==
  ASSUME NEW D, NEW F, FramesOK(pIncfile, D, F), pIncfile # <<>>
  PROVE  /\ FramesOK(Fetched, D, F) /\ SameFrames(pIncfile, Fetched) /\ Fetched # <<>>
         /\ Top \in Frame /\ Top = pIncfile[1] /\ Len(pIncfile) \in Nat \ {0}
<1> DEFINE top == [Top EXCEPT !.pos = @ + 1]
<1>1. Len(pIncfile) \in Nat \ {0} /\ Top = pIncfile[1] /\ Top \in Frame
  BY Popped DEF FramesOK, Top
<1>2. Top.pos + 1 \in Nat \ {0}
  BY <1>1 DEF Frame
<1>3. top \in Frame /\ Same(Top, top) /\ top.text = Top.text
  BY <1>1, <1>2, FrameMoved DEF Same
<1>4. top.text \in (IF top.macro THEN D ELSE F)
  BY <1>1, <1>3 DEF FramesOK, Same
<1>5. Fetched = <<top>> \o Tail(pIncfile)
  BY DEF Fetched
<1> HIDE DEF top
<1> QED
  BY <1>1, <1>3, <1>4, <1>5, TopMoved

\* A file, or a macro on top of other frames, is pushed.
LEMMA FramesPushed ==
  ASSUME NEW D, NEW F, NEW fs, FramesOK(fs, D, F), NEW f \in Frame,
         f.text \in (IF f.macro THEN D ELSE F), fs = <<>> => ~f.macro
  PROVE  FramesOK(<<f>> \o fs, D, F)
<1> DEFINE gs == <<f>> \o fs
<1>1. fs \in Seq(Frame) /\ Len(fs) \in Nat
  BY DEF FramesOK
<1>2. /\ gs \in Seq(Frame) /\ Len(gs) = Len(fs) + 1 /\ gs[1] = f
      /\ \A i \in 1 .. Len(fs) : gs[i + 1] = fs[i]
  BY <1>1, Pushed
<1> HIDE DEF gs
<1>3. \A i \in 2 .. Len(gs) : i - 1 \in 1 .. Len(fs) /\ gs[i] = fs[i - 1]
  <2>1. SUFFICES ASSUME NEW i \in 2 .. Len(gs) PROVE i - 1 \in 1 .. Len(fs) /\ gs[i] = fs[i - 1]
    OBVIOUS
  <2>2. i - 1 \in 1 .. Len(fs) /\ (i - 1) + 1 = i
    BY <1>1, <1>2
  <2> QED
    BY <1>2, <2>2
<1>4. \A i \in 1 .. Len(gs) : gs[i].text \in (IF gs[i].macro THEN D ELSE F)
  BY <1>1, <1>2, <1>3 DEF FramesOK
<1>5. ~gs[Len(gs)].macro
  <2>1. CASE fs = <<>>
    BY <1>2, <2>1
  <2>2. CASE fs # <<>>
    <3>1. Len(fs) \in 1 .. Len(fs)
      BY <1>1, <2>2
    <3> QED
      BY <1>2, <2>2, <3>1 DEF FramesOK
  <2> QED
    BY <2>1, <2>2
<1> QED
  BY <1>2, <1>4, <1>5 DEF FramesOK, gs

\* Frames are left.
LEMMA FramesDropped ==
  ASSUME NEW D, NEW F, NEW fs, FramesOK(fs, D, F), NEW n \in 0 .. Len(fs)
  PROVE  FramesOK(SubSeq(fs, n + 1, Len(fs)), D, F)
<1> DEFINE gs == SubSeq(fs, n + 1, Len(fs))
<1>1. fs \in Seq(Frame) /\ Len(fs) \in Nat /\ n \in Nat
  BY DEF FramesOK
<1>2. /\ gs \in Seq(Frame) /\ Len(gs) = Len(fs) - n
      /\ \A i \in 1 .. Len(fs) - n : gs[i] = fs[i + n]
  BY <1>1, Dropped
<1> HIDE DEF gs
<1>3. \A i \in 1 .. Len(gs) : i + n \in 1 .. Len(fs) /\ gs[i] = fs[i + n]
  BY <1>1, <1>2
<1>4. gs # <<>> => fs # <<>> /\ gs[Len(gs)] = fs[Len(fs)]
  <2>1. SUFFICES ASSUME gs # <<>> PROVE fs # <<>> /\ gs[Len(gs)] = fs[Len(fs)]
    OBVIOUS
  <2>2. Len(gs) \in 1 .. Len(gs) /\ Len(gs) + n = Len(fs)
    BY <1>1, <1>2, <2>1
  <2> QED
    BY <1>1, <1>3, <2>2
<1> QED
  BY <1>2, <1>3, <1>4 DEF FramesOK, gs

\* Below the macros there is a file.
LEMMA FileBelow ==
  ASSUME NEW D, NEW F, NEW fs, FramesOK(fs, D, F), fs # <<>>
  PROVE  /\ FileIndex(fs) \in 1 .. Len(fs) /\ ~fs[FileIndex(fs)].macro
         /\ \A j \in 1 .. FileIndex(fs) - 1 : fs[j].macro
<1> DEFINE S == {i \in DOMAIN fs : ~fs[i].macro}
           m == CHOOSE k \in S : \A j \in S : k <= j
<1>1. fs \in Seq(Frame) /\ Len(fs) \in Nat \ {0} /\ DOMAIN fs = 1 .. Len(fs)
  BY DEF FramesOK
<1>2. S \in SUBSET Nat /\ Len(fs) \in S
  BY <1>1 DEF FramesOK
<1>3. m \in S /\ \A j \in S : m <= j
  BY <1>2, Least
<1> HIDE DEF m
<1>4. /\ m \in DOMAIN fs /\ ~fs[m].macro
      /\ \A j \in 1 .. m - 1 : fs[j].macro
  BY <1>1, <1>3
<1> QED
  BY <1>1, <1>4 DEF FileIndex

-----------------------------------------------------------------------------
(***************************************************************************)
(* What the other variables hold                                           *)
(***************************************************************************)

RunOK ==
  /\ DOMAIN source.files \subseteq Paths /\ MainFile \in DOMAIN source.files
  /\ \A p \in DOMAIN source.files : source.files[p] \in Seq(Lines)

MacrosOK ==
  /\ DOMAIN macros \subseteq Names
  /\ \A n \in DOMAIN macros : /\ macros[n].strlist \in Seq(Lines)
                              /\ macros[n].defpass \in 1 .. pass

\* Ifstack: only the last entry is the one with IFF_BASE.
StackOK(stack) ==
  /\ stack \in Seq(IfNode) /\ stack # <<>>
  /\ \A i \in 1 .. Len(stack) : stack[i].file = Null <=> i = Len(stack)
  /\ stack[Len(stack)] = BaseIf

\* Reploop: a loop in a macro has a text that is still there.
LoopsOK(ls, D) ==
  /\ ls \in Seq(LoopNode)
  /\ \A i \in 1 .. Len(ls) : ls[i].macro => ls[i].text \in D

\* What the handlers rely on.
FrameTypes ==
  /\ FramesOK(pIncfile, DOMAIN macros, DOMAIN source.files)
  /\ RunOK /\ MacrosOK /\ pass \in 1 .. MaxPasses
  /\ StackOK(Ifstack) /\ LoopsOK(Reploop, DOMAIN macros)

\* malloc() returns one of the addresses.
LEMMA AllocatedAddress == Allocated \subseteq Addresses
<1>1. Unused \subseteq Addresses
  BY DEF Unused
<1>2. Unused # {} => (CHOOSE a \in Unused : TRUE) \in Addresses
  BY <1>1
<1> QED
  BY <1>2 DEF Allocated

\* A line is one of the lines there may be.
LEMMA LineTyped ==
  ASSUME FrameTypes, AtLine
  PROVE  /\ pIncfile # <<>> /\ Text(Top) \in Seq(Lines) /\ Line \in Lines
         /\ Line.op = "emit" => Line.arg \in Items
         /\ Line.op \in {"if", "repeat"} => Line.arg.val \in Int
         /\ Line.op = "mac" => Line.arg \in Names
<1>1. pIncfile # <<>> /\ Top \in Frame /\ Top = pIncfile[1] /\ 1 \in 1 .. Len(pIncfile)
  BY FetchedFrames DEF FrameTypes, AtLine
<1>2. Top.text \in (IF Top.macro THEN DOMAIN macros ELSE DOMAIN source.files)
  BY <1>1 DEF FrameTypes, FramesOK
<1>3. Text(Top) \in Seq(Lines)
  BY <1>2 DEF Text, FrameTypes, RunOK, MacrosOK
<1>4. Top.pos \in 1 .. Len(Text(Top))
  BY <1>1, <1>3 DEF AtLine, Frame
<1>5. Line \in Lines
  <2> HIDE DEF Text
  <2> QED
    BY <1>3, <1>4, ElementOfSeq DEF Line
<1>6. \A l \in Lines : /\ l.op = "emit" => l.arg \in Items
                       /\ l.op \in {"if", "repeat"} => l.arg \in Conditions
                       /\ l.op = "mac" => l.arg \in Names
  BY DEF Lines, Bare
<1>7. \A c \in Conditions : c.val \in Int
  BY DEF Conditions
<1> QED
  BY <1>1, <1>3, <1>5, <1>6, <1>7

-----------------------------------------------------------------------------
(***************************************************************************)
(* Ifstack and Reploop                                                     *)
(***************************************************************************)

\* pushif() leaves the last entry where it is.
LEMMA StackPushed ==
  ASSUME NEW st, StackOK(st), NEW e \in IfNode, e.file # Null
  PROVE  StackOK(<<e>> \o st)
<1> DEFINE tt == <<e>> \o st
<1>1. st \in Seq(IfNode) /\ Len(st) \in Nat \ {0}
  BY DEF StackOK
<1>2. /\ tt \in Seq(IfNode) /\ Len(tt) = Len(st) + 1 /\ tt[1] = e /\ tt # <<>>
      /\ \A i \in 1 .. Len(st) : tt[i + 1] = st[i]
  BY <1>1, Pushed
<1> HIDE DEF tt
<1>3. \A i \in 2 .. Len(tt) : i - 1 \in 1 .. Len(st) /\ tt[i] = st[i - 1]
  <2>1. SUFFICES ASSUME NEW i \in 2 .. Len(tt) PROVE i - 1 \in 1 .. Len(st) /\ tt[i] = st[i - 1]
    OBVIOUS
  <2>2. i - 1 \in 1 .. Len(st) /\ (i - 1) + 1 = i
    BY <1>1, <1>2
  <2> QED
    BY <1>2, <2>2
<1>4. tt[Len(tt)] = BaseIf
  BY <1>1, <1>2 DEF StackOK
<1>5. \A i \in 1 .. Len(tt) : tt[i].file = Null <=> i = Len(tt)
  <2>1. SUFFICES ASSUME NEW i \in 1 .. Len(tt) PROVE tt[i].file = Null <=> i = Len(tt)
    OBVIOUS
  <2>2. CASE i = 1
    BY <1>1, <1>2, <2>2
  <2>3. CASE i # 1
    <3>1. i \in 2 .. Len(tt)
      BY <1>1, <1>2, <2>3
    <3> QED
      BY <1>1, <1>2, <1>3, <3>1 DEF StackOK
  <2> QED
    BY <2>2, <2>3
<1> QED
  BY <1>2, <1>4, <1>5 DEF StackOK, tt

\* Entries above the last one are removed.
LEMMA StackDropped ==
  ASSUME NEW st, StackOK(st), NEW n \in 0 .. Len(st) - 1
  PROVE  StackOK(SubSeq(st, n + 1, Len(st)))
<1> DEFINE tt == SubSeq(st, n + 1, Len(st))
<1>1. st \in Seq(IfNode) /\ Len(st) \in Nat \ {0} /\ n \in Nat /\ n \in 0 .. Len(st)
  BY DEF StackOK
<1>2. /\ tt \in Seq(IfNode) /\ Len(tt) = Len(st) - n
      /\ \A i \in 1 .. Len(st) - n : tt[i] = st[i + n]
  BY <1>1, Dropped
<1> HIDE DEF tt
<1>3. \A i \in 1 .. Len(tt) : i + n \in 1 .. Len(st) /\ tt[i] = st[i + n]
  BY <1>1, <1>2
<1>4. Len(tt) \in 1 .. Len(tt) /\ Len(tt) + n = Len(st) /\ tt # <<>>
  BY <1>1, <1>2
<1>5. tt[Len(tt)] = BaseIf
  BY <1>3, <1>4 DEF StackOK
<1>6. \A i \in 1 .. Len(tt) : tt[i].file = Null <=> i = Len(tt)
  <2>1. SUFFICES ASSUME NEW i \in 1 .. Len(tt) PROVE tt[i].file = Null <=> i = Len(tt)
    OBVIOUS
  <2>2. st[i + n].file = Null <=> i + n = Len(st)
    BY <1>3 DEF StackOK
  <2>3. i + n = Len(st) <=> i = Len(tt)
    BY <1>1, <1>2
  <2> QED
    BY <1>3, <2>2, <2>3
<1> QED
  BY <1>2, <1>4, <1>5, <1>6 DEF StackOK, tt

\* The entry on top of Ifstack may be removed unless it is the last.
LEMMA StackPopped ==
  ASSUME NEW st, StackOK(st)
  PROVE  /\ Head(st) \in IfNode
         /\ Head(st).file # Null => StackOK(Tail(st))
<1>1. /\ st \in Seq(IfNode) /\ Len(st) \in Nat \ {0} /\ Head(st) = st[1]
      /\ Head(st) \in IfNode /\ Tail(st) = SubSeq(st, 1 + 1, Len(st))
  BY Popped DEF StackOK
<1>2. Head(st).file # Null => 1 \in 0 .. Len(st) - 1
  BY <1>1 DEF StackOK
<1> QED
  BY <1>1, <1>2, StackDropped

\* A loop is pushed, and loops are left.
LEMMA LoopPushed ==
  ASSUME NEW D, NEW ls, LoopsOK(ls, D), NEW e \in LoopNode, e.macro => e.text \in D
  PROVE  LoopsOK(<<e>> \o ls, D)
<1> DEFINE ms == <<e>> \o ls
<1>1. ls \in Seq(LoopNode) /\ Len(ls) \in Nat
  BY DEF LoopsOK
<1>2. /\ ms \in Seq(LoopNode) /\ Len(ms) = Len(ls) + 1 /\ ms[1] = e
      /\ \A i \in 1 .. Len(ls) : ms[i + 1] = ls[i]
  BY <1>1, Pushed
<1> HIDE DEF ms
<1>3. \A i \in 1 .. Len(ms) : ms[i].macro => ms[i].text \in D
  <2>1. SUFFICES ASSUME NEW i \in 1 .. Len(ms) PROVE ms[i].macro => ms[i].text \in D
    OBVIOUS
  <2>2. CASE i = 1
    BY <1>2, <2>2
  <2>3. CASE i # 1
    <3>1. i - 1 \in 1 .. Len(ls) /\ (i - 1) + 1 = i
      BY <1>1, <1>2, <2>3
    <3> QED
      BY <1>2, <3>1 DEF LoopsOK
  <2> QED
    BY <2>2, <2>3
<1> QED
  BY <1>2, <1>3 DEF LoopsOK, ms

\* What is left of Reploop has texts that are still there.
LEMMA LoopsDropped ==
  ASSUME NEW D, NEW ls, LoopsOK(ls, D), NEW n \in 0 .. Len(ls)
  PROVE  LoopsOK(SubSeq(ls, n + 1, Len(ls)), D)
<1> DEFINE ms == SubSeq(ls, n + 1, Len(ls))
<1>1. ls \in Seq(LoopNode) /\ Len(ls) \in Nat /\ n \in Nat
  BY DEF LoopsOK
<1>2. /\ ms \in Seq(LoopNode) /\ Len(ms) = Len(ls) - n
      /\ \A i \in 1 .. Len(ls) - n : ms[i] = ls[i + n]
  BY <1>1, Dropped
<1> HIDE DEF ms
<1>3. \A i \in 1 .. Len(ms) : i + n \in 1 .. Len(ls) /\ ms[i] = ls[i + n]
  BY <1>1, <1>2
<1> QED
  BY <1>2, <1>3 DEF LoopsOK, ms

\* The unwinding at the end of a file removes entries from the top, all of that file.
LEMMA UnwoundDrops ==
  ASSUME NEW S, NEW s \in Seq(S), NEW a
  PROVE  \E n \in 0 .. Len(s) : /\ Unwound(s, a) = SubSeq(s, n + 1, Len(s))
                                /\ \A i \in 1 .. n : s[i].file = a
<1> DEFINE T == Others(s, a)
           m == CHOOSE k \in T : \A j \in T : k <= j
<1>1. Len(s) \in Nat /\ DOMAIN s = 1 .. Len(s) /\ T \in SUBSET Nat /\ T \subseteq DOMAIN s
  BY DEF Others
<1>2. CASE T = {}
  <2>1. Unwound(s, a) = <<>> /\ SubSeq(s, Len(s) + 1, Len(s)) = <<>>
    BY <1>1, <1>2, SubSeqEmpty DEF Unwound
  <2>2. \A i \in 1 .. Len(s) : s[i].file = a
    BY <1>1, <1>2 DEF Others
  <2>3. Len(s) \in 0 .. Len(s)
    BY <1>1
  <2> QED
    BY <2>1, <2>2, <2>3
<1>3. CASE T # {}
  <2>1. m \in T /\ \A j \in T : m <= j
    BY <1>1, <1>3, Least
  <2>2. Unwound(s, a) = SubSeq(s, m, Len(s))
    BY <1>3 DEF Unwound
  <2> HIDE DEF m
  <2>3. m - 1 \in 0 .. Len(s) /\ (m - 1) + 1 = m
    BY <1>1, <2>1
  <2>4. \A i \in 1 .. m - 1 : s[i].file = a
    BY <1>1, <2>1, <2>3 DEF Others
  <2> QED
    BY <2>2, <2>3, <2>4
<1> QED
  BY <1>2, <1>3

\* So the last entry of Ifstack stays, and the loops that are left are typed.
LEMMA UnwoundOK ==
  ASSUME NEW D, NEW a \in Addresses, StackOK(Ifstack), LoopsOK(Reploop, D)
  PROVE  StackOK(Unwound(Ifstack, a)) /\ LoopsOK(Unwound(Reploop, a), D)
<1>1. Ifstack \in Seq(IfNode) /\ Reploop \in Seq(LoopNode) /\ Len(Ifstack) \in Nat \ {0}
  BY DEF StackOK, LoopsOK
<1>2. PICK n \in 0 .. Len(Ifstack) :
        /\ Unwound(Ifstack, a) = SubSeq(Ifstack, n + 1, Len(Ifstack))
        /\ \A i \in 1 .. n : Ifstack[i].file = a
  BY <1>1, UnwoundDrops
<1>3. n # Len(Ifstack)
  BY <1>1, <1>2, FrameAssumption DEF StackOK
<1>4. StackOK(Unwound(Ifstack, a))
  BY <1>1, <1>2, <1>3, StackDropped
<1>5. PICK k \in 0 .. Len(Reploop) : Unwound(Reploop, a) = SubSeq(Reploop, k + 1, Len(Reploop))
  BY <1>1, UnwoundDrops
<1> QED
  BY <1>4, <1>5, LoopsDropped

-----------------------------------------------------------------------------
(***************************************************************************)
(* What a step does to the frames                                          *)
(***************************************************************************)

\* The n frames on top are left.
Left(n) ==
  /\ n \in 0 .. Len(pIncfile)
  /\ Len(pIncfile') = Len(pIncfile) - n
  /\ \A i \in 1 .. Len(pIncfile) - n : Same(pIncfile[i + n], pIncfile'[i])

\* A frame is put on top.
Entered ==
  /\ Len(pIncfile') = Len(pIncfile) + 1
  /\ \A i \in 1 .. Len(pIncfile) : Same(pIncfile[i], pIncfile'[i + 1])

\* The frames stay, and one of them is read on.
LEMMA StayedBy ==
  ASSUME NEW D, NEW F, FramesOK(pIncfile, D, F), SameFrames(pIncfile, pIncfile')
  PROVE  Left(0)
<1>1. Len(pIncfile) \in Nat
  BY DEF FramesOK
<1> QED
  BY <1>1 DEF SameFrames, Left

\* The n frames on top of gs, the same frames as before, are left.
LEMMA LeftBy ==
  ASSUME NEW D, NEW F, FramesOK(pIncfile, D, F), NEW gs, FramesOK(gs, D, F),
         SameFrames(pIncfile, gs), NEW n \in 0 .. Len(pIncfile),
         SameFrames(SubSeq(gs, n + 1, Len(gs)), pIncfile')
  PROVE  Left(n)
<1>1. Len(pIncfile) \in Nat /\ gs \in Seq(Frame) /\ Len(gs) = Len(pIncfile) /\ n \in Nat
  BY DEF FramesOK, SameFrames
<1>2. /\ Len(SubSeq(gs, n + 1, Len(gs))) = Len(pIncfile) - n
      /\ \A i \in 1 .. Len(pIncfile) - n : SubSeq(gs, n + 1, Len(gs))[i] = gs[i + n]
  BY <1>1, Dropped
<1>3. \A i \in 1 .. Len(pIncfile) - n : i + n \in 1 .. Len(pIncfile)
  BY <1>1
<1> QED
  BY <1>1, <1>2, <1>3 DEF SameFrames, Same, Left

\* A frame is pushed on gs, the same frames as before.
LEMMA EnteredBy ==
  ASSUME NEW D, NEW F, FramesOK(pIncfile, D, F), NEW gs, FramesOK(gs, D, F),
         SameFrames(pIncfile, gs), NEW f \in Frame, pIncfile' = <<f>> \o gs
  PROVE  Entered /\ pIncfile'[1] = f
<1>1. Len(pIncfile) \in Nat /\ gs \in Seq(Frame) /\ Len(gs) = Len(pIncfile)
  BY DEF FramesOK, SameFrames
<1>2. /\ Len(pIncfile') = Len(pIncfile) + 1 /\ pIncfile'[1] = f
      /\ \A i \in 1 .. Len(pIncfile) : pIncfile'[i + 1] = gs[i]
  BY <1>1, Pushed
<1> QED
  BY <1>2 DEF SameFrames, Entered

\* More macros do no harm.
LEMMA MoreMacros ==
  ASSUME NEW D, NEW E, D \subseteq E
  PROVE  /\ \A fs, F : FramesOK(fs, D, F) => FramesOK(fs, E, F)
         /\ \A ls : LoopsOK(ls, D) => LoopsOK(ls, E)
BY DEF FramesOK, LoopsOK

-----------------------------------------------------------------------------
(***************************************************************************)
(* Each step keeps the types                                               *)
(***************************************************************************)

\* A line that leaves the frames alone.
LEMMA PlainLine ==
  ASSUME FrameTypes, AtLine, pIncfile' = Fetched, UNCHANGED <<macros, source, pass>>,
         StackOK(Ifstack'), LoopsOK(Reploop', DOMAIN macros)
  PROVE  FrameTypes' /\ Left(0)
<1>1. FramesOK(Fetched, DOMAIN macros, DOMAIN source.files) /\ SameFrames(pIncfile, Fetched)
  BY FetchedFrames DEF FrameTypes, AtLine
<1>2. Left(0)
  BY <1>1, StayedBy DEF FrameTypes
<1> QED
  BY <1>1, <1>2 DEF FrameTypes, RunOK, MacrosOK

\* What pushif() pushes.
LEMMA IfEntryTyped ==
  ASSUME FrameTypes, AtLine
  PROVE  /\ Top.addr \in Addresses /\ Top.addr # Null
         /\ \A x \in BOOLEAN : IfEntry(x) \in IfNode /\ IfEntry(x).file # Null
         /\ [IfEntry(FALSE) EXCEPT !.acctrue = FALSE] \in IfNode
         /\ [IfEntry(FALSE) EXCEPT !.acctrue = FALSE].file # Null
<1>1. Top \in Frame
  BY FetchedFrames DEF FrameTypes, AtLine
<1>2. Top.addr \in Addresses /\ Top.addr # Null
  BY <1>1, FrameAssumption DEF Frame
<1>3. Head(Ifstack) \in IfNode
  BY StackPopped DEF FrameTypes
<1>4. Active \in BOOLEAN
  BY <1>3 DEF Active, IfNode
<1> QED
  BY <1>2, <1>4 DEF IfEntry, IfNode

\* IF pushes an entry of the frame on top.
LEMMA IfTypes == ASSUME FrameTypes, If PROVE FrameTypes' /\ Left(0)
<1>1. AtLine /\ pIncfile' = Fetched /\ UNCHANGED <<macros, source, pass, Reploop>>
  BY DEF If, At, loop
<1>2. StackOK(Ifstack')
  <2>1. CASE Active /\ Unknown(Line.arg)
    <3>1. Ifstack' = <<[IfEntry(FALSE) EXCEPT !.acctrue = FALSE]>> \o Ifstack
      BY <2>1 DEF If
    <3> QED
      BY <1>1, <3>1, IfEntryTyped, StackPushed DEF FrameTypes
  <2>2. CASE ~(Active /\ Unknown(Line.arg))
    <3>1. Ifstack' = <<IfEntry(Active /\ Line.arg.val # 0)>> \o Ifstack
      BY <2>2 DEF If, PushIf
    <3>2. (Active /\ Line.arg.val # 0) \in BOOLEAN
      OBVIOUS
    <3> HIDE DEF IfEntry
    <3> QED
      BY <1>1, <3>1, <3>2, IfEntryTyped, StackPushed DEF FrameTypes
  <2> QED
    BY <2>1, <2>2
<1> QED
  BY <1>1, <1>2, PlainLine DEF FrameTypes

\* ELSE changes the entry on top, never the last one.
LEMMA ElseTypes == ASSUME FrameTypes, Else PROVE FrameTypes' /\ Left(0)
<1>1. AtLine /\ pIncfile' = Fetched /\ UNCHANGED <<macros, source, pass, Reploop>>
  BY DEF Else, At, loop
<1> DEFINE flipped == [Head(Ifstack) EXCEPT !.xtrue = ~@]
<1>2. StackOK(Ifstack')
  <2>1. Head(Ifstack) \in IfNode /\ (Head(Ifstack).file # Null => StackOK(Tail(Ifstack)))
    BY StackPopped DEF FrameTypes
  <2>2. flipped \in IfNode /\ flipped.file = Head(Ifstack).file
    BY <2>1 DEF IfNode
  <2>3. \/ Ifstack' = Ifstack
        \/ Head(Ifstack).file # Null /\ Ifstack' = <<flipped>> \o Tail(Ifstack)
    BY DEF Else
  <2> HIDE DEF flipped
  <2> QED
    BY <2>1, <2>2, <2>3, StackPushed DEF FrameTypes
<1> QED
  BY <1>1, <1>2, PlainLine DEF FrameTypes

\* v_endif() pops only entries of the frame on top, which the last one is not.
LEMMA EndifStack == ASSUME FrameTypes, AtLine, v_endif PROVE StackOK(Ifstack')
<1>1. Ifstack' = Ifstack \/ (Head(Ifstack).file = Top.addr /\ Ifstack' = Tail(Ifstack))
  BY DEF v_endif
<1> QED
  BY <1>1, IfEntryTyped, StackPopped DEF FrameTypes

\* ENDIF pops only an entry of the frame on top.
LEMMA EndifTypes == ASSUME FrameTypes, Endif PROVE FrameTypes' /\ Left(0)
<1>1. /\ AtLine /\ v_endif /\ pIncfile' = Fetched
      /\ UNCHANGED <<macros, source, pass, Reploop>>
  BY DEF Endif, At, loop
<1> QED
  BY <1>1, EndifStack, PlainLine DEF FrameTypes

\* REPEAT pushes an entry on each stack.
LEMMA RepeatTypes == ASSUME FrameTypes, Repeat PROVE FrameTypes' /\ Left(0)
<1>1. AtLine /\ pIncfile' = Fetched /\ UNCHANGED <<macros, source, pass>>
  BY DEF Repeat, At, loop
<1>2. StackOK(Ifstack')
  <2>1. \E x \in BOOLEAN : Ifstack' = <<IfEntry(x)>> \o Ifstack
    BY DEF Repeat, PushIf
  <2> QED
    BY <1>1, <2>1, IfEntryTyped, StackPushed DEF FrameTypes
<1>3. LoopsOK(Reploop', DOMAIN macros)
  <2>1. CASE Active /\ Line.arg.val > 0
    <3>1. Reploop' = <<LoopEntry(Line.arg)>> \o Reploop
      BY <2>1 DEF Repeat
    <3>2. Line.op = "repeat" /\ Line.arg.val \in Int
      BY <1>1, LineTyped DEF Repeat, At
    <3>3. Top \in Frame /\ (Top.macro => Top.text \in DOMAIN macros)
      <4>1. Top \in Frame /\ Top = pIncfile[1] /\ 1 \in 1 .. Len(pIncfile)
        BY <1>1, FetchedFrames DEF FrameTypes, AtLine
      <4> QED
        BY <4>1 DEF FrameTypes, FramesOK
    <3>4. (~Unknown(Line.arg)) \in BOOLEAN
      BY DEF Unknown
    <3>5. LoopEntry(Line.arg) \in LoopNode
      BY <2>1, <3>2, <3>3, <3>4 DEF LoopEntry, LoopNode, Frame
    <3>6. LoopEntry(Line.arg).macro => LoopEntry(Line.arg).text \in DOMAIN macros
      BY <3>3 DEF LoopEntry
    <3> QED
      BY <3>1, <3>5, <3>6, LoopPushed DEF FrameTypes
  <2>2. CASE ~(Active /\ Line.arg.val > 0)
    BY <2>2 DEF Repeat, FrameTypes
  <2> QED
    BY <2>1, <2>2
<1> QED
  BY <1>1, <1>2, <1>3, PlainLine

\* Going back to the line after REPEAT, in whatever frame.
LEMMA JumpTypes ==
  ASSUME FrameTypes, AtLine, InLoop, OnceMore, JumpBack, UNCHANGED <<macros, source, pass>>
  PROVE  FrameTypes' /\ Left(0)
<1> DEFINE r == Head(Reploop)
           again == [r EXCEPT !.count = @ - 1]
<1>1. /\ r \in LoopNode /\ (r.macro => r.text \in DOMAIN macros)
      /\ LoopsOK(Tail(Reploop), DOMAIN macros)
  <2>1. /\ Reploop \in Seq(LoopNode) /\ Reploop # <<>>
        /\ Len(Reploop) \in Nat \ {0} /\ r = Reploop[1] /\ r \in LoopNode
        /\ Tail(Reploop) = SubSeq(Reploop, 1 + 1, Len(Reploop))
    BY Popped DEF InLoop, FrameTypes, LoopsOK
  <2>2. 1 \in 0 .. Len(Reploop) /\ 1 \in 1 .. Len(Reploop)
    BY <2>1
  <2> QED
    BY <2>1, <2>2, LoopsDropped DEF FrameTypes, LoopsOK
<1>2. LoopsOK(Reploop', DOMAIN macros)
  <2>1. r.count # 1
    BY DEF OnceMore
  <2>2. again \in LoopNode /\ again.macro = r.macro /\ again.text = r.text
    BY <1>1, <2>1 DEF LoopNode
  <2>3. Reploop' = <<again>> \o Tail(Reploop)
    BY DEF JumpBack
  <2> HIDE DEF again, r
  <2> QED
    BY <1>1, <2>2, <2>3, LoopPushed
<1>3. FramesOK(pIncfile', DOMAIN macros, DOMAIN source.files) /\ SameFrames(pIncfile, pIncfile')
  <2>1. CASE pIncfile' = pIncfile
    BY <2>1 DEF FrameTypes, SameFrames, Same
  <2>2. CASE pIncfile' # pIncfile
    <3>1. ~(Top.macro /\ ~r.macro) /\ pIncfile' = <<Sought(Top, r)>> \o Tail(pIncfile)
      BY <2>2 DEF JumpBack, Seek
    <3>2. pIncfile # <<>> /\ Top \in Frame /\ Top = pIncfile[1] /\ 1 \in 1 .. Len(pIncfile)
      BY FetchedFrames DEF FrameTypes, AtLine
    <3>3. Len(Text(Top)) \in Nat
      BY LineTyped
    <3>4. Sought(Top, r) \in Frame /\ Same(Top, Sought(Top, r))
      <4>1. CASE Top.macro
        BY <1>1, <3>1, <3>2, <4>1 DEF Sought, Frame, LoopNode, Same
      <4>2. CASE ~Top.macro /\ ~r.macro
        BY <1>1, <3>2, <4>2 DEF Sought, Frame, LoopNode, Same
      <4>3. CASE ~Top.macro /\ r.macro
        <5> DEFINE p == IF r.pos > Len(macros[r.text].strlist) THEN 1 ELSE Len(Text(Top)) + 1
        <5>1. p \in Nat \ {0}
          BY <3>3
        <5>2. Sought(Top, r) = [Top EXCEPT !.pos = p]
          BY <4>3 DEF Sought
        <5> HIDE DEF p, r
        <5> QED
          BY <3>2, <5>1, <5>2, FrameMoved DEF Same
      <4> QED
        BY <4>1, <4>2, <4>3
    <3>5. Sought(Top, r).text = IF Top.macro THEN r.text ELSE Top.text
      BY <3>2 DEF Sought, Frame
    <3>6. Sought(Top, r).text
            \in (IF Sought(Top, r).macro THEN DOMAIN macros ELSE DOMAIN source.files)
      BY <1>1, <3>1, <3>2, <3>4, <3>5 DEF Same, FrameTypes, FramesOK
    <3> HIDE DEF r
    <3> QED
      BY <3>1, <3>2, <3>4, <3>6, TopMoved DEF FrameTypes
  <2> QED
    BY <2>1, <2>2
<1>4. Left(0)
  BY <1>3, StayedBy DEF FrameTypes
<1>5. Ifstack' = Ifstack
  BY DEF JumpBack
<1> QED
  BY <1>2, <1>3, <1>4, <1>5 DEF FrameTypes, RunOK, MacrosOK

\* REPEND goes back to a text that is still there, or leaves the loop.
LEMMA RependTypes == ASSUME FrameTypes, Repend PROVE FrameTypes' /\ Left(0)
<1>1. AtLine /\ UNCHANGED <<macros, source, pass>>
  BY DEF Repend, At
<1>2. CASE ~Active /\ v_endif /\ pIncfile' = Fetched /\ UNCHANGED Reploop
  BY <1>1, <1>2, EndifStack, PlainLine DEF FrameTypes
<1>3. CASE InLoop /\ OnceMore /\ JumpBack
  BY <1>1, <1>3, JumpTypes
<1>4. CASE InLoop /\ LeaveLoop
  <2>1. v_endif /\ pIncfile' = Fetched /\ Reploop' = Tail(Reploop)
    BY <1>4 DEF LeaveLoop
  <2>2. LoopsOK(Reploop', DOMAIN macros)
    <3>1. /\ Reploop \in Seq(LoopNode) /\ Reploop # <<>> /\ 1 \in 0 .. Len(Reploop)
          /\ Tail(Reploop) = SubSeq(Reploop, 1 + 1, Len(Reploop))
      BY <1>4, Popped DEF InLoop, FrameTypes, LoopsOK
    <3> QED
      BY <2>1, <3>1, LoopsDropped DEF FrameTypes
  <2> QED
    BY <1>1, <2>1, <2>2, EndifStack, PlainLine
<1>5. CASE pIncfile' = Fetched /\ UNCHANGED stacks
  BY <1>1, <1>5, PlainLine DEF FrameTypes, stacks
<1> QED
  BY <1>2, <1>3, <1>4, <1>5 DEF Repend

\* A frame somewhere below is read on.
LEMMA FrameMovedAt ==
  ASSUME NEW D, NEW F, NEW fs, FramesOK(fs, D, F), NEW k \in 1 .. Len(fs), NEW p \in Nat \ {0}
  PROVE  LET gs == [fs EXCEPT ![k].pos = p] IN FramesOK(gs, D, F) /\ SameFrames(fs, gs)
<1> DEFINE g == [fs[k] EXCEPT !.pos = p]
           gs == [fs EXCEPT ![k] = g]
<1>1. fs \in Seq(Frame) /\ Len(fs) \in Nat /\ fs[k] \in Frame
  BY ElementOfSeq DEF FramesOK
<1>2. g \in Frame /\ Same(fs[k], g) /\ g.text = fs[k].text
  BY <1>1, FrameMoved DEF Same
<1>3. [fs EXCEPT ![k].pos = p] = gs
  OBVIOUS
<1> HIDE DEF g
<1>4. /\ gs \in Seq(Frame) /\ Len(gs) = Len(fs)
      /\ \A j \in 1 .. Len(fs) : gs[j] = IF j = k THEN g ELSE fs[j]
  BY <1>1, <1>2, ExceptSeq
<1> HIDE DEF gs
<1>5. SameFrames(fs, gs)
  BY <1>2, <1>4 DEF SameFrames, Same
<1>6. \A i \in 1 .. Len(gs) : gs[i].text \in (IF gs[i].macro THEN D ELSE F)
  BY <1>2, <1>4 DEF FramesOK, Same
<1>7. gs # <<>> => ~gs[Len(gs)].macro
  BY <1>1, <1>4, <1>5 DEF FramesOK, SameFrames, Same
<1>8. FramesOK(gs, D, F)
  BY <1>4, <1>6, <1>7 DEF FramesOK
<1> QED
  BY <1>3, <1>5, <1>8

\* What an INCLUDE that succeeds puts on top belongs to the same call.
IncludeEnters ==
  /\ Entered /\ pIncfile'[1].addr \in Allocated
  /\ pIncfile # <<>> /\ ~pIncfile'[1].macro /\ pIncfile'[1].call = pIncfile[1].call
  /\ Inclevel' = Inclevel + 1 /\ Inclevel < MaxOpenFiles

\* INCLUDE enters a file, or is an error and reads on.
LEMMA IncludeTypes ==
  ASSUME FrameTypes, Include
  PROVE  FrameTypes' /\ (IncludeEnters \/ (Left(0) /\ UNCHANGED Inclevel))
<1>1. AtLine /\ UNCHANGED <<macros, source, pass, Ifstack, Reploop>>
  BY DEF Include, At, loop, stacks
<1>2. CASE Line.arg \in DOMAIN source.files /\ Inclevel < MaxOpenFiles
  <2>1. PICK a \in Allocated : pIncfile' = <<FileFrame(a, Line.arg, Top.call)>> \o Fetched
    BY <1>2 DEF Include
  <2> DEFINE f == FileFrame(a, Line.arg, Top.call)
  <2>2. /\ FramesOK(Fetched, DOMAIN macros, DOMAIN source.files) /\ SameFrames(pIncfile, Fetched)
        /\ Fetched # <<>> /\ Top \in Frame /\ Top = pIncfile[1] /\ pIncfile # <<>>
    BY <1>1, FetchedFrames DEF FrameTypes, AtLine
  <2>3. f \in Frame /\ ~f.macro /\ f.text = Line.arg /\ f.call = Top.call /\ f.addr = a
    BY <1>2, <2>2, AllocatedAddress DEF FileFrame, Frame, FrameTypes, RunOK
  <2>4. pIncfile' = <<f>> \o Fetched
    BY <2>1
  <2> HIDE DEF f
  <2>5. Entered /\ pIncfile'[1] = f
    BY <2>2, <2>3, <2>4, EnteredBy DEF FrameTypes
  <2>6. FramesOK(pIncfile', DOMAIN macros, DOMAIN source.files)
    BY <1>2, <2>2, <2>3, <2>4, FramesPushed
  <2>7. IncludeEnters
    BY <1>2, <2>2, <2>3, <2>5 DEF IncludeEnters, Include
  <2> QED
    BY <1>1, <2>6, <2>7 DEF FrameTypes, RunOK, MacrosOK
<1>3. CASE ~(Line.arg \in DOMAIN source.files /\ Inclevel < MaxOpenFiles)
  <2>1. pIncfile' = Fetched /\ UNCHANGED Inclevel
    BY <1>3 DEF Include
  <2> QED
    BY <1>1, <2>1, PlainLine DEF FrameTypes
<1> QED
  BY <1>2, <1>3

\* The unwinding at the end of a file.
LEMMA EndOfFileTypes ==
  ASSUME FrameTypes, EndOfFile
  PROVE  FrameTypes' /\ Left(1) /\ ~pIncfile[1].macro
<1>1. /\ pIncfile # <<>> /\ ~Top.macro /\ pIncfile' = Tail(pIncfile)
      /\ Ifstack' = Unwound(Ifstack, Top.addr) /\ Reploop' = Unwound(Reploop, Top.addr)
      /\ UNCHANGED <<macros, source, pass>>
  BY DEF EndOfFile, AtEnd, loop
<1>2. Top \in Frame /\ Top = pIncfile[1] /\ Len(pIncfile) \in Nat \ {0}
  BY <1>1, FetchedFrames DEF FrameTypes
<1>3. Top.addr \in Addresses
  BY <1>2 DEF Frame
<1>4. StackOK(Ifstack') /\ LoopsOK(Reploop', DOMAIN macros)
  BY <1>1, <1>3, UnwoundOK DEF FrameTypes
<1>5. Tail(pIncfile) = SubSeq(pIncfile, 1 + 1, Len(pIncfile)) /\ 1 \in 0 .. Len(pIncfile)
  BY <1>1, <1>2, Popped DEF FrameTypes, FramesOK
<1>6. FramesOK(pIncfile', DOMAIN macros, DOMAIN source.files)
  BY <1>1, <1>5, FramesDropped DEF FrameTypes
<1>7. \A fs : SameFrames(fs, fs)
  BY DEF SameFrames, Same
<1>8. Left(1)
  BY <1>1, <1>5, <1>7, LeftBy DEF FrameTypes
<1> QED
  BY <1>1, <1>2, <1>4, <1>6, <1>8 DEF FrameTypes, RunOK, MacrosOK

\* A definition is read from the file, wherever the MAC is.
LEMMA MacTypes ==
  ASSUME FrameTypes, Mac
  PROVE  /\ FrameTypes' /\ Left(0)
         /\ \/ UNCHANGED counts
            \/ /\ nMacroClosings' = nMacroClosings + 1
               /\ \E n \in Nat : nMacroDeclarations' = nMacroDeclarations + 1 + n
<1> DEFINE name == Line.arg
           k    == FileIndex(Fetched)
           from == Fetched[k].pos
           text == source.files[Fetched[k].text]
           ends == {i \in from .. Len(text) : text[i].op = "endm"}
           to   == CHOOSE i \in ends : \A j \in ends : i <= j
           body == SubSeq(text, from, to - 1)
           Aborted == pIncfile' = pIncfile /\ macros' = macros /\ UNCHANGED counts
<1>1. AtLine /\ UNCHANGED <<source, pass, Ifstack, Reploop>> /\ name \in Names
  <2>1. AtLine /\ Line.op = "mac" /\ UNCHANGED <<source, pass, Ifstack, Reploop>>
    BY DEF Mac, At, loop, stacks
  <2> QED
    BY <2>1, LineTyped
<1>2. /\ FramesOK(Fetched, DOMAIN macros, DOMAIN source.files) /\ SameFrames(pIncfile, Fetched)
      /\ Fetched # <<>>
  BY <1>1, FetchedFrames DEF FrameTypes, AtLine
<1>3. \/ pIncfile' = pIncfile /\ macros' = macros /\ UNCHANGED counts
      \/ /\ ends # {}
         /\ pIncfile' = [Fetched EXCEPT ![k].pos = to + 1]
         /\ macros' = IF Active /\ name \notin DOMAIN macros
                      THEN [n \in DOMAIN macros \cup {name} |->
                              IF n = name THEN [strlist |-> body, defpass |-> pass]
                                          ELSE macros[n]]
                      ELSE macros
         /\ nMacroDeclarations' = nMacroDeclarations + 1
              + Cardinality({i \in DOMAIN body : body[i].op = "mac"})
         /\ nMacroClosings' = nMacroClosings + 1
  BY DEF Mac
<1>4. k \in 1 .. Len(Fetched) /\ ~Fetched[k].macro /\ Fetched[k] \in Frame
  <2>1. k \in 1 .. Len(Fetched) /\ ~Fetched[k].macro
    BY <1>2, FileBelow
  <2> QED
    BY <1>2, <2>1, ElementOfSeq DEF FramesOK
<1>5. text \in Seq(Lines) /\ from \in Nat \ {0}
  <2>1. Fetched[k].text \in DOMAIN source.files
    BY <1>2, <1>4 DEF FramesOK
  <2> QED
    BY <1>4, <2>1 DEF FrameTypes, RunOK, Frame
<1> HIDE DEF k, text, from, name
<1>6. CASE ends = {} \/ Aborted
  <2>1. pIncfile' = pIncfile /\ macros' = macros /\ UNCHANGED counts
    BY <1>3, <1>6
  <2>2. SameFrames(pIncfile, pIncfile')
    BY <2>1 DEF SameFrames, Same
  <2>3. Left(0)
    BY <2>2, StayedBy DEF FrameTypes
  <2> QED
    BY <1>1, <2>1, <2>3 DEF FrameTypes, RunOK, MacrosOK
<1>7. CASE ~(ends = {} \/ Aborted)
  <2>1. to \in ends
    <3>1. ends \in SUBSET Nat
      BY <1>5
    <3> HIDE DEF ends
    <3> QED
      BY <1>7, <3>1, Least
  <2> HIDE DEF to
  <2>2. to \in Nat \ {0} /\ to \in from .. Len(text) /\ to + 1 \in Nat \ {0}
    BY <1>5, <2>1
  <2> HIDE DEF ends
  <2>3. body \in Seq(Lines)
    <3>1. \A i \in from .. to - 1 : text[i] \in Lines
      BY <1>5, <2>2, ElementOfSeq
    <3> QED
      BY <1>5, <2>2, <3>1, SubSeqProperties
  <2>4. FramesOK(pIncfile', DOMAIN macros, DOMAIN source.files) /\ SameFrames(Fetched, pIncfile')
    <3>1. pIncfile' = [Fetched EXCEPT ![k].pos = to + 1]
      BY <1>3, <1>7
    <3> QED
      BY <1>2, <1>4, <2>2, <3>1, FrameMovedAt
  <2>5. Left(0)
    <3>1. SameFrames(pIncfile, pIncfile')
      BY <1>2, <2>4 DEF SameFrames, Same
    <3> QED
      BY <3>1, StayedBy DEF FrameTypes
  <2> HIDE DEF body
  <2>6. MacrosOK' /\ DOMAIN macros \subseteq DOMAIN macros'
    BY <1>1, <1>3, <1>7, <2>3 DEF FrameTypes, MacrosOK
  <2>7. /\ FramesOK(pIncfile', DOMAIN macros', DOMAIN source.files)
        /\ LoopsOK(Reploop', DOMAIN macros')
    BY <1>1, <2>4, <2>6, MoreMacros DEF FrameTypes
  <2>8. Cardinality({i \in DOMAIN body : body[i].op = "mac"}) \in Nat
    <3>1. DOMAIN body = 1 .. Len(body) /\ Len(body) \in Nat
      BY <2>3
    <3>2. IsFiniteSet(DOMAIN body)
      BY <3>1, FS_Interval
    <3>3. IsFiniteSet({i \in DOMAIN body : body[i].op = "mac"})
      BY <3>2, FS_Subset
    <3> QED
      BY <3>3, FS_CardinalityType
  <2>9. /\ nMacroClosings' = nMacroClosings + 1
        /\ \E n \in Nat : nMacroDeclarations' = nMacroDeclarations + 1 + n
    BY <1>3, <1>7, <2>8
  <2> QED
    BY <1>1, <2>5, <2>6, <2>7, <2>9 DEF FrameTypes, RunOK
<1> QED
  BY ONLY <1>6, <1>7

Kinds == {".", "$"}
Uses  == [kind : Kinds, index : Nat, call : Nat]
Statuses == {"reading", "complete", "failed", "aborted", "missing endm", "crashed"}
UsesTyped == uses \subseteq Uses

\* The variables that count and decide, and what was generated.
OthersTyped ==
  /\ Localindex \in Nat /\ Lastlocalindex \in Nat
  /\ Localdollarindex \in Nat /\ Lastlocaldollarindex \in Nat
  /\ nMacroDeclarations \in Nat /\ nMacroClosings \in Nat /\ calls \in Nat
  /\ Redo \in BOOLEAN /\ bStopAtEnd \in BOOLEAN
  /\ status \in Statuses
  /\ out \in Seq(Items) /\ UsesTyped

\* A macro call remembers the scopes around it, and opens one of each kind.
CallEnters ==
  /\ Entered /\ pIncfile'[1].addr \in Allocated /\ pIncfile'[1].macro
  /\ pIncfile'[1].saveidx = Localindex /\ pIncfile'[1].savedolidx = Localdollarindex
  /\ Mlevel # MAXMACLEVEL /\ Mlevel' = Mlevel + 1
  /\ Localindex' = Lastlocalindex + 1 /\ Lastlocalindex' = Lastlocalindex + 1
  /\ Localdollarindex' = Lastlocaldollarindex + 1
  /\ Lastlocaldollarindex' = Lastlocaldollarindex + 1

\* A call enters a macro, or is one too many and ends the run.
LEMMA CallTypes ==
  ASSUME FrameTypes, OthersTyped, Call
  PROVE  FrameTypes' /\ (CallEnters \/ (Left(0) /\ UNCHANGED <<Mlevel, scopes>>))
<1>1. AtLine /\ Line.arg \in DOMAIN macros /\ UNCHANGED <<macros, source, pass, Ifstack, Reploop>>
  BY DEF Call, At, loop, stacks
<1>2. CASE Mlevel = MAXMACLEVEL
  <2>1. pIncfile' = pIncfile /\ UNCHANGED <<Mlevel, scopes>>
    BY <1>2 DEF Call
  <2>2. SameFrames(pIncfile, pIncfile')
    BY <2>1 DEF SameFrames, Same
  <2>3. Left(0)
    BY <2>2, StayedBy DEF FrameTypes
  <2> QED
    BY <1>1, <2>1, <2>3 DEF FrameTypes, RunOK, MacrosOK
<1>3. CASE Mlevel # MAXMACLEVEL
  <2>1. PICK a \in Allocated : pIncfile' = <<MacroFrame(a, Line.arg)>> \o Fetched
    BY <1>3 DEF Call
  <2> DEFINE f == MacroFrame(a, Line.arg)
  <2>2. /\ FramesOK(Fetched, DOMAIN macros, DOMAIN source.files) /\ SameFrames(pIncfile, Fetched)
        /\ Fetched # <<>>
    BY <1>1, FetchedFrames DEF FrameTypes, AtLine
  <2>3. /\ f \in Frame /\ f.macro /\ f.text = Line.arg /\ f.addr = a
        /\ f.saveidx = Localindex /\ f.savedolidx = Localdollarindex
    <3>1. a \in Addresses /\ Line.arg \in Names
      BY <1>1, AllocatedAddress DEF FrameTypes, MacrosOK
    <3>2. Localindex \in Nat /\ Localdollarindex \in Nat /\ calls + 1 \in Nat
      BY DEF OthersTyped
    <3> QED
      BY <3>1, <3>2 DEF MacroFrame, Frame
  <2>4. pIncfile' = <<f>> \o Fetched
    BY <2>1
  <2> HIDE DEF f
  <2>5. Entered /\ pIncfile'[1] = f
    BY <2>2, <2>3, <2>4, EnteredBy DEF FrameTypes
  <2>6. FramesOK(pIncfile', DOMAIN macros, DOMAIN source.files)
    BY <1>1, <2>2, <2>3, <2>4, FramesPushed
  <2>7. CallEnters
    BY <1>3, <2>3, <2>5 DEF CallEnters, Call
  <2> QED
    BY <1>1, <2>6, <2>7 DEF FrameTypes, RunOK, MacrosOK
<1> QED
  BY <1>2, <1>3

\* Macros are left, by ENDM, MEXIT, END or at their end.
MacrosLeft(n) ==
  /\ Left(n) /\ LeaveMacros(n)
  /\ \A i \in 1 .. n : pIncfile[i].macro

\* v_endm() leaves the macro on top, if any.
LEMMA EndmTypes ==
  ASSUME FrameTypes, pIncfile # <<>>, NEW n \in {0, 1}, n = 1 => Top.macro, Endm(n)
  PROVE  FrameTypes' /\ MacrosLeft(n)
<1>1. /\ pIncfile' = SubSeq(Fetched, n + 1, Len(pIncfile)) /\ LeaveMacros(n)
      /\ UNCHANGED <<macros, source, pass, Ifstack, Reploop>>
  BY DEF Endm, LeaveMacros, loop, stacks
<1>2. /\ FramesOK(Fetched, DOMAIN macros, DOMAIN source.files) /\ SameFrames(pIncfile, Fetched)
      /\ Top = pIncfile[1] /\ Len(pIncfile) \in Nat \ {0} /\ Len(Fetched) = Len(pIncfile)
  BY FetchedFrames DEF FrameTypes, SameFrames
<1>3. n \in 0 .. Len(pIncfile) /\ n \in 0 .. Len(Fetched)
  BY <1>2
<1>4. FramesOK(pIncfile', DOMAIN macros, DOMAIN source.files)
  BY <1>1, <1>2, <1>3, FramesDropped
<1>5. \A fs : SameFrames(fs, fs)
  BY DEF SameFrames, Same
<1>6. Left(n)
  BY <1>1, <1>2, <1>3, <1>5, LeftBy DEF FrameTypes
<1>7. MacrosLeft(n)
  BY <1>1, <1>2, <1>6 DEF MacrosLeft
<1> QED
  BY <1>1, <1>4, <1>7 DEF FrameTypes, RunOK, MacrosOK

\* END leaves the macros above the file, and the file keeps its frame.
LEMMA EndTypes ==
  ASSUME FrameTypes, End
  PROVE  FrameTypes' /\ \E n \in Nat : MacrosLeft(n)
<1> DEFINE k  == FileIndex(Fetched)
           n  == k - 1
           f  == Fetched[n + 1]
           g  == [f EXCEPT !.pos = Len(Text(f)) + 1]
           gs == SubSeq(Fetched, n + 1, Len(Fetched))
<1>1. /\ pIncfile # <<>> /\ LeaveMacros(n)
      /\ pIncfile' = <<g>> \o SubSeq(Fetched, n + 2, Len(pIncfile))
      /\ UNCHANGED <<macros, source, pass, Ifstack, Reploop>>
  BY DEF End, At, AtLine, LeaveMacros, loop, stacks
<1>2. /\ FramesOK(Fetched, DOMAIN macros, DOMAIN source.files) /\ SameFrames(pIncfile, Fetched)
      /\ Fetched # <<>> /\ Len(pIncfile) \in Nat \ {0} /\ Len(Fetched) = Len(pIncfile)
  BY <1>1, FetchedFrames DEF FrameTypes, SameFrames
<1>3. /\ k \in 1 .. Len(Fetched) /\ ~Fetched[k].macro
      /\ \A j \in 1 .. k - 1 : Fetched[j].macro
  BY <1>2, FileBelow
<1> HIDE DEF k
<1>4. n \in Nat /\ n + 1 = k /\ n \in 0 .. Len(Fetched) /\ n \in 0 .. Len(pIncfile)
  BY <1>2, <1>3
<1>5. f \in Frame /\ ~f.macro /\ f.text \in DOMAIN source.files
  BY <1>2, <1>3, <1>4, ElementOfSeq DEF FramesOK
<1>6. g \in Frame /\ Same(f, g) /\ g.text = f.text
  <2>1. Len(Text(f)) + 1 \in Nat \ {0}
    BY <1>5 DEF Text, FrameTypes, RunOK
  <2> QED
    BY <1>5, <2>1, FrameMoved DEF Same
<1>7. FramesOK(gs, DOMAIN macros, DOMAIN source.files)
  BY <1>2, <1>4, FramesDropped
<1>8. gs[1] = f /\ gs # <<>> /\ Tail(gs) = SubSeq(Fetched, n + 2, Len(pIncfile))
  <2>1. n + 1 \in 1 .. Len(Fetched) /\ Len(Fetched) \in n + 1 .. Len(Fetched)
    BY <1>2, <1>3, <1>4
  <2>2. Fetched \in Seq(Frame)
    BY <1>2 DEF FramesOK
  <2>3. Tail(gs) = SubSeq(Fetched, (n + 1) + 1, Len(Fetched))
    BY <2>1, <2>2, HeadTailOfSubSeq
  <2>4. Len(gs) = Len(Fetched) - n /\ gs[1] = Fetched[1 + n]
    BY <1>2, <1>4, <2>1, <2>2, Dropped
  <2>5. (n + 1) + 1 = n + 2 /\ 1 + n = n + 1 /\ Len(Fetched) - n # 0
    BY <1>4, <2>1
  <2>6. gs # <<>>
    BY <2>4, <2>5
  <2> QED
    BY <1>2, <2>3, <2>4, <2>5, <2>6
<1> HIDE DEF gs, g, f
<1>9. FramesOK(pIncfile', DOMAIN macros, DOMAIN source.files) /\ SameFrames(gs, pIncfile')
  <2>1. g.text \in (IF g.macro THEN DOMAIN macros ELSE DOMAIN source.files)
    BY <1>5, <1>6 DEF Same
  <2> QED
    BY <1>1, <1>6, <1>7, <1>8, <2>1, TopMoved
<1>10. Left(n)
  BY <1>2, <1>4, <1>9, LeftBy DEF FrameTypes, gs
<1>11. \A i \in 1 .. n : pIncfile[i].macro
  BY <1>2, <1>3, <1>4 DEF SameFrames, Same
<1>12. MacrosLeft(n)
  BY <1>1, <1>10, <1>11 DEF MacrosLeft
<1> QED
  BY <1>1, <1>4, <1>9, <1>12 DEF FrameTypes, RunOK, MacrosOK

\* Lines that are not about the stacks.
LEMMA OtherLines ==
  ASSUME FrameTypes, Emit \/ Subroutine \/ Label \/ Skip \/ UnknownMnemonic
  PROVE  FrameTypes' /\ Left(0)
<1>1. AtLine /\ pIncfile' = Fetched /\ UNCHANGED <<macros, source, pass, Ifstack, Reploop>>
  BY DEF Emit, Subroutine, Label, Skip, UnknownMnemonic, At, loop, stacks
<1> QED
  BY <1>1, PlainLine DEF FrameTypes

\* A pass starts with the first file alone, whatever the one before has left.
LEMMA NextPassTypes ==
  ASSUME FrameTypes, NextPass
  PROVE  /\ FrameTypes' /\ Entered /\ pIncfile = <<>> /\ ~pIncfile'[1].macro
         /\ pIncfile'[1].addr \in Allocated
<1>1. pIncfile = <<>> /\ UNCHANGED <<macros, source, Ifstack, Reploop>> /\ pass < MaxPasses
  BY DEF NextPass, PassOver, stacks
<1>2. pass' = pass + 1 /\ pass' \in 1 .. MaxPasses
  BY <1>1, FrameAssumption DEF NextPass, FrameTypes
<1>3. PICK a \in Allocated : pIncfile' = <<FileFrame(a, MainFile, 0)>>
  BY DEF NextPass
<1> DEFINE f == FileFrame(a, MainFile, 0)
<1>4. f \in Frame /\ ~f.macro /\ f.text \in DOMAIN source.files /\ f.addr = a
  BY AllocatedAddress DEF FileFrame, Frame, FrameTypes, RunOK
<1>5. pIncfile' = <<f>>
  BY <1>3
<1> HIDE DEF f
<1>6. FramesOK(pIncfile', DOMAIN macros, DOMAIN source.files)
  BY <1>4, <1>5 DEF FramesOK
<1>7. Entered /\ ~pIncfile'[1].macro /\ pIncfile'[1].addr \in Allocated
  BY <1>1, <1>4, <1>5 DEF Entered
<1>8. MacrosOK'
  BY <1>1, <1>2 DEF FrameTypes, MacrosOK
<1> QED
  BY <1>1, <1>2, <1>6, <1>7, <1>8 DEF FrameTypes, RunOK

\* Nothing happens to the frames any more.
LEMMA FinishedTypes ==
  ASSUME FrameTypes, GiveUp \/ LastPass \/ UNCHANGED vars
  PROVE  FrameTypes' /\ Left(0)
<1>1. UNCHANGED <<pIncfile, macros, source, pass, Ifstack, Reploop>>
  BY DEF GiveUp, LastPass, vars, frames, stacks, loop
<1>2. SameFrames(pIncfile, pIncfile')
  BY <1>1 DEF SameFrames, Same
<1>3. Left(0)
  BY <1>2, StayedBy DEF FrameTypes
<1> QED
  BY <1>1, <1>3 DEF FrameTypes, RunOK, MacrosOK

-----------------------------------------------------------------------------
(***************************************************************************)
(* The theorem about Ifstack                                               *)
(***************************************************************************)

\* dasm starts with the frame of the file on the command line.
LEMMA InitFrames == Init => FrameTypes /\ OthersTyped
<1> SUFFICES ASSUME Init PROVE FrameTypes /\ OthersTyped
  OBVIOUS
<1> DEFINE a == CHOOSE x \in Addresses : TRUE
           f == FileFrame(a, MainFile, 0)
<1>1. RunOK
  BY FrameAssumption DEF Init, RunOK
<1>2. a \in Addresses
  BY FrameAssumption
<1> HIDE DEF a
<1>3. f \in Frame /\ ~f.macro /\ f.text \in DOMAIN source.files
  BY <1>1, <1>2 DEF FileFrame, Frame, RunOK
<1>4. pIncfile = <<f>>
  BY DEF Init, a
<1> HIDE DEF f
<1>5. FramesOK(pIncfile, DOMAIN macros, DOMAIN source.files)
  BY <1>3, <1>4 DEF FramesOK
<1>6. MacrosOK
  BY DEF Init, MacrosOK
<1>7. StackOK(Ifstack)
  BY DEF Init, StackOK, BaseIf, IfNode
<1>8. LoopsOK(Reploop, DOMAIN macros)
  BY DEF Init, LoopsOK
<1>9. pass \in 1 .. MaxPasses
  BY FrameAssumption DEF Init
<1>10. OthersTyped
  <2>1. status \in Statuses
    BY DEF Init, Statuses
  <2>2. UsesTyped
    BY DEF Init, UsesTyped
  <2>3. /\ Localindex = 0 /\ Lastlocalindex = 0
        /\ Localdollarindex = 0 /\ Lastlocaldollarindex = 0
        /\ nMacroDeclarations = 0 /\ nMacroClosings = 0 /\ calls = 0
        /\ Redo = FALSE /\ bStopAtEnd = FALSE /\ out = <<>>
    BY DEF Init
  <2>4. Redo \in BOOLEAN /\ bStopAtEnd \in BOOLEAN
    BY <2>3, Zenon
  <2>5. out \in Seq(Items)
    BY <2>3
  <2> QED
    BY <2>1, <2>2, <2>3, <2>4, <2>5 DEF OthersTyped
<1> QED
  BY <1>1, <1>5, <1>6, <1>7, <1>8, <1>9, <1>10 DEF FrameTypes

\* The end of a macro.
LEMMA EndOfMacroTypes ==
  ASSUME FrameTypes, EndOfMacro
  PROVE  FrameTypes' /\ MacrosLeft(1)
BY EndmTypes DEF EndOfMacro, AtEnd

\* MEXIT leaves a macro, or does nothing.
LEMMA MexitTypes ==
  ASSUME FrameTypes, Mexit
  PROVE  FrameTypes' /\ \E n \in {0, 1} : MacrosLeft(n)
<1>1. pIncfile # <<>> /\ Endm(IF Top.macro THEN 1 ELSE 0)
  BY DEF Mexit, At, AtLine
<1> QED
  BY <1>1, EndmTypes

\* ENDM leaves a macro that is active, or does nothing.
LEMMA StrayEndmTypes ==
  ASSUME FrameTypes, StrayEndm
  PROVE  FrameTypes' /\ \E n \in {0, 1} : MacrosLeft(n)
<1>1. pIncfile # <<>> /\ Endm(IF Active /\ Top.macro THEN 1 ELSE 0)
  BY DEF StrayEndm, At, AtLine
<1> QED
  BY <1>1, EndmTypes

\* The fields of the variables that changes are about.
LEMMA OthersStep ==
  ASSUME FrameTypes, OthersTyped, [Next]_vars
  PROVE  OthersTyped'
<1>1. CASE Emit
  <2>1. AtLine /\ Line.op = "emit" /\ Top.call \in Nat
    <3>1. AtLine /\ Line.op = "emit" /\ pIncfile # <<>>
      BY <1>1 DEF Emit, At, AtLine
    <3>2. Top \in Frame
      BY <3>1, FetchedFrames DEF FrameTypes
    <3> QED
      BY <3>1, <3>2 DEF Frame
  <2>2. out' \in Seq(Items)
    BY <1>1, <2>1, LineTyped DEF Emit, OthersTyped
  <2>3. UsesTyped'
    <3>1. uses' = uses \cup {[kind |-> ".", index |-> Localindex, call |-> Top.call],
                             [kind |-> "$", index |-> Localdollarindex, call |-> Top.call]}
      BY <1>1 DEF Emit
    <3>2. Localindex \in Nat /\ Localdollarindex \in Nat /\ UsesTyped
      BY DEF OthersTyped
    <3> QED
      BY <2>1, <3>1, <3>2 DEF UsesTyped, Uses, Kinds
  <2>4. UNCHANGED <<scopes, counts, verdict, status, calls>>
    BY <1>1 DEF Emit, loop
  <2> QED
    BY <2>2, <2>3, <2>4 DEF scopes, counts, verdict, OthersTyped
<1>2. CASE Call
  <2>1. UNCHANGED <<counts, verdict, out, uses>>
    BY <1>2 DEF Call
  <2>2. CASE Mlevel = MAXMACLEVEL
    <3>1. UNCHANGED <<scopes, calls>> /\ status' \in Statuses
      BY <1>2, <2>2 DEF Call, Statuses
    <3> QED
      BY <2>1, <3>1 DEF scopes, counts, verdict, OthersTyped, UsesTyped
  <2>3. CASE Mlevel # MAXMACLEVEL
    <3>1. UNCHANGED status
      BY <1>2, <2>3 DEF Call, loop
    <3>2. /\ Localindex' = Lastlocalindex + 1 /\ Lastlocalindex' = Lastlocalindex + 1
          /\ Localdollarindex' = Lastlocaldollarindex + 1
          /\ Lastlocaldollarindex' = Lastlocaldollarindex + 1
          /\ calls' = calls + 1
      BY <1>2, <2>3 DEF Call
    <3> QED
      BY <2>1, <3>1, <3>2 DEF counts, verdict, OthersTyped, UsesTyped
  <2> QED
    BY <2>2, <2>3
<1>3. CASE Mac
  <2>1. UNCHANGED <<scopes, verdict, history>>
    BY <1>3 DEF Mac
  <2>2. status' \in Statuses
    BY <1>3 DEF Mac, loop, OthersTyped, Statuses
  <2>3. nMacroDeclarations' \in Nat /\ nMacroClosings' \in Nat
    BY <1>3, MacTypes DEF counts, OthersTyped
  <2> QED
    BY <2>1, <2>2, <2>3 DEF scopes, verdict, history, OthersTyped, UsesTyped
<1>4. ASSUME NEW n \in Nat, MacrosLeft(n), status' = status, calls' = calls,
             nMacroDeclarations' = nMacroDeclarations,
             nMacroClosings' \in {nMacroClosings, nMacroClosings + 1}
      PROVE  OthersTyped'
  <2>1. /\ UNCHANGED <<Lastlocalindex, Lastlocaldollarindex, verdict, history>>
        /\ Localindex' = IF n = 0 THEN Localindex ELSE pIncfile[n].saveidx
        /\ Localdollarindex' = IF n = 0 THEN Localdollarindex ELSE pIncfile[n].savedolidx
        /\ n \in 0 .. Len(pIncfile)
    BY <1>4 DEF MacrosLeft, LeaveMacros, Left
  <2>2. n # 0 => pIncfile[n] \in Frame
    <3>1. pIncfile \in Seq(Frame)
      BY DEF FrameTypes, FramesOK
    <3> QED
      BY <2>1, <3>1, ElementOfSeq
  <2>3. Localindex' \in Nat /\ Localdollarindex' \in Nat
    BY <2>1, <2>2 DEF Frame, OthersTyped
  <2> QED
    BY <1>4, <2>1, <2>3 DEF verdict, history, OthersTyped, UsesTyped
<1>5. CASE Mexit \/ EndOfMacro \/ End
  <2>1. \E n \in Nat : MacrosLeft(n)
    BY <1>5, MexitTypes, EndOfMacroTypes, EndTypes
  <2>2. UNCHANGED <<status, calls, counts>>
    BY <1>5 DEF Mexit, EndOfMacro, End, Endm, LeaveMacros, loop, history
  <2> QED
    BY <1>4, <2>1, <2>2 DEF counts
<1>6. CASE StrayEndm
  <2>1. \E n \in Nat : MacrosLeft(n)
    BY <1>6, StrayEndmTypes
  <2>2. UNCHANGED <<status, calls, nMacroDeclarations>> /\ nMacroClosings' = nMacroClosings + 1
    BY <1>6 DEF StrayEndm, Endm, LeaveMacros, loop, history
  <2> QED
    BY <1>4, <2>1, <2>2
<1>7. CASE NextPass
  <2>1. /\ Redo' \in BOOLEAN /\ bStopAtEnd' \in BOOLEAN
        /\ Localindex' \in Nat /\ Lastlocalindex' \in Nat
        /\ Localdollarindex' \in Nat /\ Lastlocaldollarindex' \in Nat
        /\ out' = <<>> /\ calls' \in Nat /\ uses' = {} /\ UNCHANGED <<counts, status>>
    BY <1>7 DEF NextPass
  <2>2. UsesTyped' /\ out' \in Seq(Items)
    BY <2>1 DEF UsesTyped
  <2> QED
    BY <2>1, <2>2 DEF counts, OthersTyped
<1>8. CASE GiveUp \/ LastPass
  <2>1. UNCHANGED <<scopes, counts, verdict, history>>
    BY <1>8 DEF GiveUp, LastPass
  <2>2. status' \in Statuses
    BY <1>8, Zenon DEF GiveUp, LastPass, Statuses
  <2> QED
    BY <2>1, <2>2 DEF scopes, counts, verdict, history, OthersTyped, UsesTyped
<1>9. CASE Subroutine \/ Label
  <2>1. /\ UNCHANGED <<counts, verdict, loop, history>>
        /\ \/ UNCHANGED <<Localdollarindex, Lastlocaldollarindex>>
              /\ Localindex' = Lastlocalindex + 1 /\ Lastlocalindex' = Lastlocalindex + 1
           \/ UNCHANGED <<Localindex, Lastlocalindex>>
              /\ Localdollarindex' = Lastlocaldollarindex + 1
              /\ Lastlocaldollarindex' = Lastlocaldollarindex + 1
    BY <1>9 DEF Subroutine, Label
  <2> QED
    BY <2>1 DEF counts, verdict, loop, history, OthersTyped, UsesTyped
<1>10. CASE Repend
  <2>1. UNCHANGED <<scopes, counts, verdict, history>>
    BY <1>10 DEF Repend
  <2>2. status' \in Statuses
    BY <1>10 DEF Repend, JumpBack, Seek, LeaveLoop, OthersTyped, Statuses
  <2> QED
    BY <2>1, <2>2 DEF scopes, counts, verdict, history, OthersTyped, UsesTyped
<1>11. CASE Include \/ If \/ Else \/ Endif \/ Repeat \/ UnknownMnemonic \/ Skip \/ EndOfFile
  <2>1. UNCHANGED <<scopes, counts, loop, history>>
    BY <1>11 DEF Include, If, Else, Endif, Repeat, UnknownMnemonic, Skip, EndOfFile
  <2>2. Redo' \in BOOLEAN /\ bStopAtEnd' \in BOOLEAN
    <3>1. /\ Redo' \in {TRUE, FALSE, Redo} /\ bStopAtEnd' \in {TRUE, bStopAtEnd}
      BY <1>11 DEF Include, If, Else, Endif, Repeat, UnknownMnemonic, Skip, EndOfFile, verdict
    <3> QED
      BY <3>1 DEF OthersTyped
  <2> QED
    BY <2>1, <2>2 DEF scopes, counts, loop, history, OthersTyped, UsesTyped
<1>12. CASE UNCHANGED vars
  BY <1>12 DEF vars, scopes, counts, verdict, loop, history, OthersTyped, UsesTyped
<1> QED
  BY <1>1, <1>2, <1>3, <1>5, <1>6, <1>7, <1>8, <1>9, <1>10, <1>11, <1>12 DEF Next, ReadLine

\* No step breaks the types of the stacks.
LEMMA FrameStep ==
  ASSUME FrameTypes, OthersTyped, [Next]_vars
  PROVE  FrameTypes'
<1>1. CASE Include \/ Mac \/ Call \/ UnknownMnemonic \/ Mexit \/ StrayEndm \/ End
  BY <1>1, IncludeTypes, MacTypes, CallTypes, OtherLines, MexitTypes, StrayEndmTypes, EndTypes
<1>2. CASE If \/ Else \/ Endif \/ Repeat \/ Repend
  BY <1>2, IfTypes, ElseTypes, EndifTypes, RepeatTypes, RependTypes
<1>3. CASE Emit \/ Subroutine \/ Label \/ Skip
  BY <1>3, OtherLines
<1>4. CASE EndOfFile \/ EndOfMacro \/ NextPass
  BY <1>4, EndOfFileTypes, EndOfMacroTypes, NextPassTypes
<1>5. CASE GiveUp \/ LastPass \/ UNCHANGED vars
  BY <1>5, FinishedTypes
<1> QED
  BY <1>1, <1>2, <1>3, <1>4, <1>5 DEF Next, ReadLine

\* BottomKept: whatever the sources contain, however files, macros, conditionals and
\* loops are nested, and in every pass, Ifstack keeps its last entry, which every
\* handler reads without a test.
THEOREM BottomAlwaysKept == Spec => []BottomKept
<1>1. Init => FrameTypes /\ OthersTyped
  BY InitFrames
<1>2. FrameTypes /\ OthersTyped /\ [Next]_vars => (FrameTypes /\ OthersTyped)'
  BY FrameStep, OthersStep
<1>3. FrameTypes => BottomKept
  <2>1. StackOK(Ifstack) => DOMAIN Ifstack = 1 .. Len(Ifstack)
    BY DEF StackOK
  <2> QED
    BY <2>1 DEF FrameTypes, StackOK, BottomKept
<1> QED
  BY <1>1, <1>2, <1>3, PTL DEF Spec


-----------------------------------------------------------------------------
(***************************************************************************)
(* How many frames there are of each kind                                  *)
(***************************************************************************)

\* T is S shifted by k, with a part of 1 .. k.
Shift(S, T, n, k) ==
  /\ S \in SUBSET (1 .. n) /\ T \in SUBSET (1 .. n + k)
  /\ \A i \in 1 .. n : i \in S <=> i + k \in T

\* The size of T, from that of S and of the part.
LEMMA Shifted ==
  ASSUME NEW n \in Nat, NEW k \in Nat, NEW S, NEW T, Shift(S, T, n, k),
         NEW R, R = T \cap (1 .. k)
  PROVE  /\ Cardinality(S) \in Nat /\ Cardinality(R) \in Nat
         /\ Cardinality(T) = Cardinality(S) + Cardinality(R)
<1> DEFINE U == T \ (1 .. k)
           F == [i \in S |-> i + k]
<1>1. /\ S \in SUBSET (1 .. n) /\ T \in SUBSET (1 .. n + k)
      /\ \A i \in 1 .. n : i \in S <=> i + k \in T
  BY DEF Shift
<1>2. IsFiniteSet(1 .. n) /\ IsFiniteSet(1 .. n + k) /\ IsFiniteSet(1 .. k)
  BY FS_Interval
<1>3. IsFiniteSet(S) /\ IsFiniteSet(T) /\ IsFiniteSet(U)
  <2>1. IsFiniteSet(S)
    BY <1>1, <1>2, FS_Subset
  <2>2. IsFiniteSet(T)
    BY <1>1, <1>2, FS_Subset
  <2> QED
    BY <2>1, <2>2, FS_Difference
<1>4. \A i \in S : F[i] = i + k /\ F[i] \in U
  BY <1>1
<1>5. \A j \in U : j - k \in S /\ F[j - k] = j
  BY <1>1
<1>6. F \in Bijection(S, U)
  <2>1. F \in [S -> U]
    BY <1>4
  <2>2. \A i, j \in S : F[i] = F[j] => i = j
    BY <1>1, <1>4
  <2>3. \A j \in U : \E i \in S : F[i] = j
    BY <1>5
  <2> HIDE DEF F, U
  <2> QED
    BY <2>1, <2>2, <2>3, Fun_IsBij
<1>7. Cardinality(U) = Cardinality(S)
  <2>1. ExistsBijection(S, U)
    BY <1>6 DEF ExistsBijection
  <2> QED
    BY <1>3, <2>1, FS_Bijection
<1>8. Cardinality(U) = Cardinality(T) - Cardinality(R)
  BY <1>3, FS_Difference
<1>9. IsFiniteSet(R)
  BY <1>2, FS_Subset
<1>10. Cardinality(S) \in Nat /\ Cardinality(T) \in Nat /\ Cardinality(R) \in Nat
  BY <1>3, <1>9, FS_CardinalityType
<1> HIDE DEF U, F
<1> QED
  BY <1>3, <1>7, <1>8, <1>10

MacroFrames(fs) == {i \in DOMAIN fs : fs[i].macro}
FileFrames(fs)  == {i \in DOMAIN fs : ~fs[i].macro}

\* fs has k frames more on top than gs has: all of them macros, or all files.
LEMMA FramesCounted ==
  ASSUME NEW fs \in Seq(Frame), NEW gs \in Seq(Frame), NEW k \in Nat,
         Len(fs) = Len(gs) + k, \A i \in 1 .. Len(gs) : Same(fs[i + k], gs[i])
  PROVE  /\ (\A i \in 1 .. k : fs[i].macro) =>
              /\ Cardinality(MacroFrames(fs)) = Cardinality(MacroFrames(gs)) + k
              /\ Cardinality(FileFrames(fs)) = Cardinality(FileFrames(gs))
         /\ (\A i \in 1 .. k : ~fs[i].macro) =>
              /\ Cardinality(MacroFrames(fs)) = Cardinality(MacroFrames(gs))
              /\ Cardinality(FileFrames(fs)) = Cardinality(FileFrames(gs)) + k
         /\ Cardinality(MacroFrames(gs)) \in Nat /\ Cardinality(FileFrames(gs)) \in Nat
<1> DEFINE n == Len(gs)
<1>1. n \in Nat /\ DOMAIN gs = 1 .. n /\ DOMAIN fs = 1 .. n + k
  OBVIOUS
<1>2. \A i \in 1 .. n : i + k \in 1 .. n + k /\ fs[i + k].macro = gs[i].macro
  BY <1>1 DEF Same
<1> HIDE DEF n
<1>3. /\ MacroFrames(gs) \in SUBSET (1 .. n) /\ FileFrames(gs) \in SUBSET (1 .. n)
      /\ MacroFrames(fs) \in SUBSET (1 .. n + k) /\ FileFrames(fs) \in SUBSET (1 .. n + k)
  BY <1>1 DEF MacroFrames, FileFrames
<1>4. Shift(MacroFrames(gs), MacroFrames(fs), n, k)
  BY <1>1, <1>2, <1>3 DEF MacroFrames, Shift
<1>5. Shift(FileFrames(gs), FileFrames(fs), n, k)
  BY <1>1, <1>2, <1>3 DEF FileFrames, Shift
<1> DEFINE M == MacroFrames(fs) \cap (1 .. k)
           F == FileFrames(fs) \cap (1 .. k)
<1>6. M = MacroFrames(fs) \cap (1 .. k) /\ F = FileFrames(fs) \cap (1 .. k)
  OBVIOUS
<1> HIDE DEF M, F
<1>7. /\ Cardinality(MacroFrames(gs)) \in Nat /\ Cardinality(M) \in Nat
      /\ Cardinality(MacroFrames(fs)) = Cardinality(MacroFrames(gs)) + Cardinality(M)
  BY <1>1, <1>4, <1>5, <1>6, Shifted
<1>8. /\ Cardinality(FileFrames(gs)) \in Nat /\ Cardinality(F) \in Nat
      /\ Cardinality(FileFrames(fs)) = Cardinality(FileFrames(gs)) + Cardinality(F)
  BY <1>1, <1>4, <1>5, <1>6, Shifted
<1>9. Cardinality(1 .. k) = k /\ Cardinality({}) = 0
  BY FS_Interval, FS_EmptySet
<1>10. ASSUME \A i \in 1 .. k : fs[i].macro
      PROVE  Cardinality(M) = k /\ Cardinality(F) = 0
  <2>1. M = 1 .. k
    BY <1>1, <1>10 DEF M, MacroFrames
  <2>2. F = {}
    BY <1>1, <1>10 DEF F, FileFrames
  <2> QED
    BY <1>9, <2>1, <2>2
<1>11. ASSUME \A i \in 1 .. k : ~fs[i].macro
       PROVE  Cardinality(M) = 0 /\ Cardinality(F) = k
  <2>1. M = {}
    BY <1>1, <1>11 DEF M, MacroFrames
  <2>2. F = 1 .. k
    BY <1>1, <1>11 DEF F, FileFrames
  <2> QED
    BY <1>9, <2>1, <2>2
<1> QED
  BY <1>7, <1>8, <1>10, <1>11
-----------------------------------------------------------------------------
(***************************************************************************)
(* The levels                                                              *)
(***************************************************************************)

LevelsOK ==
  /\ Mlevel = Cardinality(MacroFrames(pIncfile))
  /\ Inclevel = Cardinality(FileFrames(pIncfile))
  /\ Mlevel <= MAXMACLEVEL /\ Inclevel <= MaxOpenFiles

\* The two levels after n frames of one kind were left.
LEMMA LevelsLeft ==
  ASSUME FrameTypes, FrameTypes', LevelsOK, NEW n \in Nat, Left(n),
         \/ /\ \A i \in 1 .. n : pIncfile[i].macro
            /\ Mlevel' = Mlevel - n /\ Inclevel' = Inclevel
         \/ /\ \A i \in 1 .. n : ~pIncfile[i].macro
            /\ Mlevel' = Mlevel /\ Inclevel' = Inclevel - n
  PROVE  LevelsOK'
<1> DEFINE fs == pIncfile
           gs == pIncfile'
<1>1. /\ fs \in Seq(Frame) /\ gs \in Seq(Frame)
      /\ Len(fs) \in Nat /\ Len(gs) \in Nat
  BY DEF FrameTypes, FramesOK
<1>2. Len(fs) = Len(gs) + n /\ \A i \in 1 .. Len(gs) : Same(fs[i + n], gs[i])
  BY <1>1 DEF Left
<1>3. /\ (\A i \in 1 .. n : fs[i].macro) =>
           /\ Cardinality(MacroFrames(fs)) = Cardinality(MacroFrames(gs)) + n
           /\ Cardinality(FileFrames(fs)) = Cardinality(FileFrames(gs))
      /\ (\A i \in 1 .. n : ~fs[i].macro) =>
           /\ Cardinality(MacroFrames(fs)) = Cardinality(MacroFrames(gs))
           /\ Cardinality(FileFrames(fs)) = Cardinality(FileFrames(gs)) + n
      /\ Cardinality(MacroFrames(gs)) \in Nat /\ Cardinality(FileFrames(gs)) \in Nat
  <2> HIDE DEF fs, gs
  <2> QED
    BY <1>1, <1>2, FramesCounted
<1>4. MAXMACLEVEL \in Nat /\ MaxOpenFiles \in Nat
  BY FrameAssumption
<1>5. /\ Mlevel = Cardinality(MacroFrames(fs)) /\ Inclevel = Cardinality(FileFrames(fs))
      /\ Mlevel <= MAXMACLEVEL /\ Inclevel <= MaxOpenFiles
  BY DEF LevelsOK
<1>6. /\ Mlevel' = Cardinality(MacroFrames(gs)) /\ Inclevel' = Cardinality(FileFrames(gs))
      /\ Mlevel' <= MAXMACLEVEL /\ Inclevel' <= MaxOpenFiles
  <2>1. CASE /\ \A i \in 1 .. n : fs[i].macro
             /\ Mlevel' = Mlevel - n /\ Inclevel' = Inclevel
    <3> HIDE DEF fs, gs
    <3> QED
      BY <1>3, <1>4, <1>5, <2>1
  <2>2. CASE /\ \A i \in 1 .. n : ~fs[i].macro
             /\ Mlevel' = Mlevel /\ Inclevel' = Inclevel - n
    <3> HIDE DEF fs, gs
    <3> QED
      BY <1>3, <1>4, <1>5, <2>2
  <2> QED
    BY <2>1, <2>2
<1> QED
  BY <1>6 DEF LevelsOK

\* The two levels after a frame was put on top.
LEMMA LevelsEntered ==
  ASSUME FrameTypes, FrameTypes', LevelsOK, Entered,
         \/ /\ pIncfile'[1].macro /\ Mlevel # MAXMACLEVEL
            /\ Mlevel' = Mlevel + 1 /\ Inclevel' = Inclevel
         \/ /\ ~pIncfile'[1].macro /\ Inclevel < MaxOpenFiles
            /\ Mlevel' = Mlevel /\ Inclevel' = Inclevel + 1
  PROVE  LevelsOK'
<1> DEFINE fs == pIncfile'
           gs == pIncfile
<1>1. /\ fs \in Seq(Frame) /\ gs \in Seq(Frame)
      /\ Len(fs) \in Nat /\ Len(gs) \in Nat
  BY DEF FrameTypes, FramesOK
<1>2. Len(fs) = Len(gs) + 1 /\ \A i \in 1 .. Len(gs) : Same(fs[i + 1], gs[i])
  BY <1>1 DEF Entered, Same
<1>3. /\ (\A i \in 1 .. 1 : fs[i].macro) =>
           /\ Cardinality(MacroFrames(fs)) = Cardinality(MacroFrames(gs)) + 1
           /\ Cardinality(FileFrames(fs)) = Cardinality(FileFrames(gs))
      /\ (\A i \in 1 .. 1 : ~fs[i].macro) =>
           /\ Cardinality(MacroFrames(fs)) = Cardinality(MacroFrames(gs))
           /\ Cardinality(FileFrames(fs)) = Cardinality(FileFrames(gs)) + 1
      /\ Cardinality(MacroFrames(gs)) \in Nat /\ Cardinality(FileFrames(gs)) \in Nat
  <2> HIDE DEF fs, gs
  <2> QED
    BY <1>1, <1>2, FramesCounted
<1>4. MAXMACLEVEL \in Nat /\ MaxOpenFiles \in Nat
  BY FrameAssumption
<1>5. /\ Mlevel = Cardinality(MacroFrames(gs)) /\ Inclevel = Cardinality(FileFrames(gs))
      /\ Mlevel <= MAXMACLEVEL /\ Inclevel <= MaxOpenFiles
  BY DEF LevelsOK
<1>6. /\ Mlevel' = Cardinality(MacroFrames(fs)) /\ Inclevel' = Cardinality(FileFrames(fs))
      /\ Mlevel' <= MAXMACLEVEL /\ Inclevel' <= MaxOpenFiles
  <2>1. CASE /\ fs[1].macro /\ Mlevel # MAXMACLEVEL
             /\ Mlevel' = Mlevel + 1 /\ Inclevel' = Inclevel
    <3> HIDE DEF fs, gs
    <3> QED
      BY <1>3, <1>4, <1>5, <2>1
  <2>2. CASE /\ ~fs[1].macro /\ Inclevel < MaxOpenFiles
             /\ Mlevel' = Mlevel /\ Inclevel' = Inclevel + 1
    <3> HIDE DEF fs, gs
    <3> QED
      BY <1>3, <1>4, <1>5, <2>2
  <2> QED
    BY <2>1, <2>2
<1> QED
  BY <1>6 DEF LevelsOK

\* The levels are numbers.
LEMMA FrameLevels ==
  ASSUME FrameTypes, LevelsOK
  PROVE  Mlevel \in Nat /\ Inclevel \in Nat
<1>1. pIncfile \in Seq(Frame) /\ Len(pIncfile) = Len(pIncfile) + 0
  BY DEF FrameTypes, FramesOK
<1>2. \A i \in 1 .. Len(pIncfile) : Same(pIncfile[i + 0], pIncfile[i])
  BY <1>1 DEF Same
<1>3. /\ Cardinality(MacroFrames(pIncfile)) \in Nat
      /\ Cardinality(FileFrames(pIncfile)) \in Nat
  BY <1>1, <1>2, FramesCounted
<1> QED
  BY <1>3 DEF LevelsOK

\* Every step counts the frames it enters and leaves.
LEMMA LevelsStep ==
  ASSUME FrameTypes, OthersTyped, LevelsOK, [Next]_vars
  PROVE  LevelsOK'
<1>1. FrameTypes'
  BY FrameStep
<1>2. ASSUME Left(0), UNCHANGED <<Mlevel, Inclevel>>
      PROVE  LevelsOK'
  <2>1. Mlevel' = Mlevel - 0
    <3>1. Mlevel \in Nat
      BY FrameLevels
    <3> QED
      BY <1>2, <3>1
  <2>2. \A i \in 1 .. 0 : pIncfile[i].macro
    OBVIOUS
  <2> QED
    BY <1>1, <1>2, <2>1, <2>2, LevelsLeft
<1>3. ASSUME NEW n \in Nat, MacrosLeft(n)
      PROVE  LevelsOK'
  BY <1>1, <1>3, LevelsLeft DEF MacrosLeft, LeaveMacros
<1>4. CASE Include
  <2>1. CASE IncludeEnters
    BY <1>1, <1>4, <2>1, LevelsEntered DEF IncludeEnters, Include
  <2>2. CASE Left(0) /\ UNCHANGED Inclevel
    BY <1>2, <1>4, <2>2 DEF Include
  <2> QED
    BY <1>4, <2>1, <2>2, IncludeTypes
<1>5. CASE Call
  <2>1. CASE CallEnters
    BY <1>1, <1>5, <2>1, LevelsEntered DEF CallEnters, Call
  <2>2. CASE Left(0) /\ UNCHANGED Mlevel
    BY <1>2, <1>5, <2>2 DEF Call
  <2> QED
    BY <1>5, <2>1, <2>2, CallTypes
<1>6. CASE Mexit \/ StrayEndm \/ EndOfMacro \/ End
  BY <1>3, <1>6, MexitTypes, StrayEndmTypes, EndOfMacroTypes, EndTypes
<1>7. CASE EndOfFile
  <2>1. Left(1) /\ Mlevel' = Mlevel /\ Inclevel' = Inclevel - 1
    BY <1>7, EndOfFileTypes DEF EndOfFile
  <2>2. \A i \in 1 .. 1 : ~pIncfile[i].macro
    BY <1>7, EndOfFileTypes
  <2> QED
    BY <1>1, <2>1, <2>2, LevelsLeft
<1>8. CASE NextPass
  <2>1. Entered /\ pIncfile = <<>> /\ ~pIncfile'[1].macro
    BY <1>8, NextPassTypes
  <2>2. Inclevel = 0
    <3>1. FileFrames(pIncfile) = {}
      BY <2>1 DEF FileFrames
    <3> QED
      BY <3>1, FS_EmptySet DEF LevelsOK
  <2>3. Inclevel < MaxOpenFiles
    BY <2>2, FrameAssumption
  <2>4. Mlevel' = Mlevel /\ Inclevel' = Inclevel + 1
    BY <1>8 DEF NextPass
  <2> QED
    BY <1>1, <2>1, <2>3, <2>4, LevelsEntered
<1>9. CASE Mac
  BY <1>2, <1>9, MacTypes DEF Mac
<1>10. CASE UnknownMnemonic \/ Emit \/ Subroutine \/ Label \/ Skip
  <2>1. UNCHANGED <<Mlevel, Inclevel>>
    BY <1>10 DEF UnknownMnemonic, Emit, Subroutine, Label, Skip
  <2> QED
    BY <1>2, <1>10, <2>1, OtherLines
<1>11. CASE If \/ Else \/ Endif \/ Repeat \/ Repend
  <2>1. UNCHANGED <<Mlevel, Inclevel>>
    BY <1>11 DEF If, Else, Endif, Repeat, Repend
  <2> QED
    BY <1>2, <1>11, <2>1, IfTypes, ElseTypes, EndifTypes, RepeatTypes, RependTypes
<1>12. CASE GiveUp \/ LastPass \/ UNCHANGED vars
  <2>1. UNCHANGED <<Mlevel, Inclevel>>
    BY <1>12 DEF GiveUp, LastPass, vars, frames
  <2> QED
    BY <1>2, <1>12, <2>1, FinishedTypes
<1> QED
  BY <1>4, <1>5, <1>6, <1>7, <1>8, <1>9, <1>10, <1>11, <1>12 DEF Next, ReadLine

\* One file is open at the start.
LEMMA LevelsInit == Init => LevelsOK
<1> SUFFICES ASSUME Init PROVE LevelsOK
  OBVIOUS
<1>1. Mlevel = 0 /\ Inclevel = 1
  BY DEF Init
<1> DEFINE f == FileFrame(CHOOSE a \in Addresses : TRUE, MainFile, 0)
<1>2. pIncfile = <<f>> /\ ~f.macro
  BY DEF Init, FileFrame
<1> HIDE DEF f
<1>3. MacroFrames(pIncfile) = {} /\ FileFrames(pIncfile) = {1}
  BY <1>2 DEF MacroFrames, FileFrames
<1>4. Cardinality(MacroFrames(pIncfile)) = 0 /\ Cardinality(FileFrames(pIncfile)) = 1
  <2>1. Cardinality({}) = 0
    BY FS_EmptySet
  <2>2. Cardinality({1}) = 1
    BY FS_Singleton
  <2> QED
    BY <1>3, <2>1, <2>2
<1>5. MAXMACLEVEL \in Nat /\ MaxOpenFiles \in Nat \ {0}
  BY FrameAssumption
<1> QED
  BY <1>1, <1>4, <1>5 DEF LevelsOK

\* LevelsCount: in every state of every run, the levels that v_execmac() and
\* pushinclude() test are the numbers of macros and of files that are open, and
\* neither is above its limit.
THEOREM LevelsAlwaysCount == Spec => []LevelsCount
<1>1. Init => FrameTypes /\ OthersTyped /\ LevelsOK
  BY InitFrames, LevelsInit
<1>2. FrameTypes /\ OthersTyped /\ LevelsOK /\ [Next]_vars
        => (FrameTypes /\ OthersTyped /\ LevelsOK)'
  BY FrameStep, OthersStep, LevelsStep
<1>3. LevelsOK => LevelsCount
  BY DEF LevelsOK, LevelsCount, MacroFrames, FileFrames
<1> QED
  BY <1>1, <1>2, <1>3, PTL DEF Spec
-----------------------------------------------------------------------------
(***************************************************************************)
(* The scopes of local labels                                              *)
(***************************************************************************)

Saved(f, k) == IF k = "." THEN f.saveidx ELSE f.savedolidx
Local(k)    == IF k = "." THEN Localindex ELSE Localdollarindex
Last(k)     == IF k = "." THEN Lastlocalindex ELSE Lastlocaldollarindex

\* A file that is included belongs to the call that includes it.
CallsOK(fs) ==
  \A i \in 1 .. Len(fs) - 1 : ~fs[i].macro => fs[i].call = fs[i + 1].call

\* No scope has an index above the last one; the scopes that macros on the stack will
\* come back to are older than the one in force, the innermost the youngest, ...
IndicesOK(k, local, last, fs, us) ==
  /\ local \in Nat /\ last \in Nat /\ local <= last
  /\ \A u \in us : u.kind = k => u.index \in Nat /\ u.index <= last
  /\ \A i \in 1 .. Len(fs) : fs[i].macro => Saved(fs[i], k) \in Nat /\ Saved(fs[i], k) < local
  /\ \A i, j \in 1 .. Len(fs) :
       i < j /\ fs[i].macro /\ fs[j].macro => Saved(fs[j], k) < Saved(fs[i], k)

\* ... each belongs to the call it is used in when it is in force again, and no scope
\* belongs to two calls.
OwnersOK(k, local, fs, us) ==
  /\ \A u \in us : u.kind = k /\ u.index = local /\ Len(fs) > 0 => u.call = fs[1].call
  /\ \A u \in us, i \in 1 .. Len(fs) - 1 :
       fs[i].macro /\ u.kind = k /\ u.index = Saved(fs[i], k) => u.call = fs[i + 1].call
  /\ \A u, v \in us : u.kind = k /\ v.kind = k /\ u.index = v.index => u.call = v.call

ScopeOK(k, local, last, fs, us) ==
  IndicesOK(k, local, last, fs, us) /\ OwnersOK(k, local, fs, us)

\* The same frame comes back to the same scopes.
LEMMA SameSaved == \A f, g, k : Same(f, g) => Saved(g, k) = Saved(f, k)
BY DEF Same, Saved

FramesLeft(fs, gs, n) ==
  /\ n \in 0 .. Len(fs) /\ Len(gs) = Len(fs) - n
  /\ \A i \in 1 .. Len(gs) : Same(fs[i + n], gs[i])

\* The n frames on top are left: none, a file, or macros, of which the outermost tells
\* the scope to come back to.
LEMMA ScopeLeft ==
  ASSUME NEW k, NEW local, NEW last, NEW us, NEW fs \in Seq(Frame), NEW gs \in Seq(Frame),
         NEW n, FramesLeft(fs, gs, n), ScopeOK(k, local, last, fs, us), CallsOK(fs), NEW l,
         \/ n = 0 /\ l = local
         \/ n = 1 /\ l = local /\ ~fs[1].macro
         \/ n > 0 /\ l = Saved(fs[n], k) /\ \A i \in 1 .. n : fs[i].macro
  PROVE  ScopeOK(k, l, last, gs, us) /\ CallsOK(gs)
<1>1. /\ n \in 0 .. Len(fs) /\ n \in Nat /\ Len(fs) \in Nat /\ Len(gs) \in Nat
      /\ Len(gs) = Len(fs) - n
  BY DEF FramesLeft
<1>2. \A i \in 1 .. Len(gs) :
        /\ i + n \in 1 .. Len(fs) /\ gs[i].macro = fs[i + n].macro
        /\ gs[i].call = fs[i + n].call /\ Saved(gs[i], k) = Saved(fs[i + n], k)
  <2>1. \A i \in 1 .. Len(gs) : i + n \in 1 .. Len(fs)
    BY <1>1
  <2>2. \A i \in 1 .. Len(gs) : Same(fs[i + n], gs[i])
    BY DEF FramesLeft
  <2>3. \A i \in 1 .. Len(gs) : Saved(gs[i], k) = Saved(fs[i + n], k)
    BY <2>2, SameSaved
  <2> QED
    BY <2>1, <2>2, <2>3 DEF Same
<1>3. \A i \in 1 .. Len(gs) - 1 : /\ i \in 1 .. Len(gs) /\ i + 1 \in 1 .. Len(gs)
                                  /\ i + n \in 1 .. Len(fs) - 1 /\ (i + 1) + n = (i + n) + 1
  BY <1>1
<1>4. /\ local \in Nat /\ last \in Nat /\ local <= last
      /\ \A u \in us : u.kind = k => u.index \in Nat /\ u.index <= last
      /\ \A i \in 1 .. Len(fs) : fs[i].macro => Saved(fs[i], k) \in Nat /\ Saved(fs[i], k) < local
      /\ \A i, j \in 1 .. Len(fs) :
           i < j /\ fs[i].macro /\ fs[j].macro => Saved(fs[j], k) < Saved(fs[i], k)
  BY DEF ScopeOK, IndicesOK
<1>5. l \in Nat /\ l <= last /\ \A i \in 1 .. Len(gs) : gs[i].macro => Saved(gs[i], k) < l
  <2>1. CASE l = local
    BY <1>2, <1>4, <2>1
  <2>2. CASE n > 0 /\ l = Saved(fs[n], k) /\ \A i \in 1 .. n : fs[i].macro
    <3>1. n \in 1 .. Len(fs) /\ fs[n].macro
      BY <1>1, <2>2
    <3>2. \A i \in 1 .. Len(gs) : n < i + n
      BY <1>1
    <3>3. l \in Nat /\ l < local
      BY <1>4, <2>2, <3>1
    <3>4. \A i \in 1 .. Len(gs) : gs[i].macro => Saved(gs[i], k) < l
      BY <1>2, <1>4, <2>2, <3>1, <3>2
    <3> QED
      BY <1>4, <3>3, <3>4
  <2> QED
    BY <2>1, <2>2
<1>6. \A i, j \in 1 .. Len(gs) :
        i < j /\ gs[i].macro /\ gs[j].macro => Saved(gs[j], k) < Saved(gs[i], k)
  <2>1. \A i, j \in 1 .. Len(gs) : i < j => i + n < j + n
    BY <1>1
  <2> QED
    BY <1>2, <1>4, <2>1
<1>7. IndicesOK(k, l, last, gs, us)
  BY <1>2, <1>4, <1>5, <1>6 DEF IndicesOK
<1>8. /\ \A u \in us : u.kind = k /\ u.index = local /\ Len(fs) > 0 => u.call = fs[1].call
      /\ \A u \in us, i \in 1 .. Len(fs) - 1 :
           fs[i].macro /\ u.kind = k /\ u.index = Saved(fs[i], k) => u.call = fs[i + 1].call
      /\ \A u, v \in us : u.kind = k /\ v.kind = k /\ u.index = v.index => u.call = v.call
  BY DEF ScopeOK, OwnersOK
<1>9. ASSUME NEW u \in us, u.kind = k, u.index = l, Len(gs) > 0
      PROVE  u.call = gs[1].call
  <2>1. gs[1].call = fs[1 + n].call /\ Len(fs) > 0
    BY <1>1, <1>2, <1>9
  <2>2. CASE n = 0 /\ l = local
    BY <1>8, <1>9, <2>1, <2>2
  <2>3. CASE n = 1 /\ l = local /\ ~fs[1].macro
    <3>1. 1 \in 1 .. Len(fs) - 1
      BY <1>1, <1>9, <2>3
    <3>2. fs[1].call = fs[1 + 1].call
      BY <2>3, <3>1 DEF CallsOK
    <3> QED
      BY <1>8, <1>9, <2>1, <2>3, <3>2
  <2>4. CASE n > 0 /\ l = Saved(fs[n], k) /\ \A i \in 1 .. n : fs[i].macro
    <3>1. n \in 1 .. Len(fs) - 1 /\ fs[n].macro /\ n + 1 = 1 + n
      BY <1>1, <1>9, <2>4
    <3> QED
      BY <1>8, <1>9, <2>1, <2>4, <3>1
  <2> QED
    BY <2>2, <2>3, <2>4
<1>10. ASSUME NEW u \in us, NEW i \in 1 .. Len(gs) - 1, gs[i].macro, u.kind = k,
              u.index = Saved(gs[i], k)
       PROVE  u.call = gs[i + 1].call
  <2>1. /\ i \in 1 .. Len(gs) /\ i + 1 \in 1 .. Len(gs)
        /\ i + n \in 1 .. Len(fs) - 1 /\ (i + 1) + n = (i + n) + 1
    BY <1>3
  <2>2. fs[i + n].macro /\ u.index = Saved(fs[i + n], k) /\ gs[i + 1].call = fs[(i + n) + 1].call
    BY <1>2, <1>10, <2>1
  <2> QED
    BY <1>8, <1>10, <2>1, <2>2
<1>11. OwnersOK(k, l, gs, us)
  BY <1>8, <1>9, <1>10 DEF OwnersOK
<1>12. CallsOK(gs)
  BY <1>2, <1>3 DEF CallsOK
<1> QED
  BY <1>7, <1>11, <1>12 DEF ScopeOK

\* A file, or a macro with a scope of its own, is put on top.
LEMMA ScopeEntered ==
  ASSUME NEW k, NEW local, NEW last, NEW us, NEW fs \in Seq(Frame), NEW gs \in Seq(Frame),
         Len(fs) > 0, Len(gs) = Len(fs) + 1, \A i \in 1 .. Len(fs) : Same(fs[i], gs[i + 1]),
         ScopeOK(k, local, last, fs, us), CallsOK(fs), NEW l, NEW m,
         \/ ~gs[1].macro /\ gs[1].call = fs[1].call /\ l = local /\ m = last
         \/ gs[1].macro /\ Saved(gs[1], k) = local /\ l = last + 1 /\ m = last + 1
  PROVE  ScopeOK(k, l, m, gs, us) /\ CallsOK(gs)
<1>1. Len(fs) \in Nat \ {0} /\ Len(gs) \in Nat /\ Len(gs) = Len(fs) + 1 /\ 1 \in 1 .. Len(fs)
  OBVIOUS
<1>2. \A i \in 2 .. Len(gs) :
        /\ i - 1 \in 1 .. Len(fs) /\ gs[i].macro = fs[i - 1].macro
        /\ gs[i].call = fs[i - 1].call /\ Saved(gs[i], k) = Saved(fs[i - 1], k)
  <2>1. SUFFICES ASSUME NEW i \in 2 .. Len(gs)
                 PROVE  i - 1 \in 1 .. Len(fs) /\ Same(fs[i - 1], gs[i])
    BY SameSaved, ZenonT(30) DEF Same
  <2>2. i - 1 \in 1 .. Len(fs) /\ (i - 1) + 1 = i
    BY <1>1
  <2>3. Same(fs[i - 1], gs[(i - 1) + 1])
    BY <2>2
  <2> QED
    BY <2>2, <2>3
<1>3. /\ local \in Nat /\ last \in Nat /\ local <= last
      /\ \A u \in us : u.kind = k => u.index \in Nat /\ u.index <= last
      /\ \A i \in 1 .. Len(fs) : fs[i].macro => Saved(fs[i], k) \in Nat /\ Saved(fs[i], k) < local
      /\ \A i, j \in 1 .. Len(fs) :
           i < j /\ fs[i].macro /\ fs[j].macro => Saved(fs[j], k) < Saved(fs[i], k)
  BY DEF ScopeOK, IndicesOK
<1>4. /\ l \in Nat /\ m \in Nat /\ l <= m /\ local <= l /\ last <= m
      /\ gs[1].macro => Saved(gs[1], k) = local /\ local < l
  BY <1>3
<1>5. \A i \in 2 .. Len(gs) : gs[i].macro => Saved(gs[i], k) \in Nat /\ Saved(gs[i], k) < local
  BY <1>2, <1>3
<1>6. \A i \in 1 .. Len(gs) : i = 1 \/ i \in 2 .. Len(gs)
  BY <1>1
<1>7. \A i \in 1 .. Len(gs) : gs[i].macro => Saved(gs[i], k) \in Nat /\ Saved(gs[i], k) < l
  BY <1>3, <1>4, <1>5, <1>6
<1>8. ASSUME NEW i \in 1 .. Len(gs), NEW j \in 1 .. Len(gs), i < j, gs[i].macro, gs[j].macro
      PROVE  Saved(gs[j], k) < Saved(gs[i], k)
  <2>1. j \in 2 .. Len(gs)
    BY <1>1, <1>8
  <2>2. CASE i = 1
    BY <1>4, <1>5, <1>8, <2>1, <2>2
  <2>3. CASE i \in 2 .. Len(gs)
    <3>1. i - 1 < j - 1
      BY <1>8
    <3> QED
      BY <1>2, <1>3, <1>8, <2>1, <2>3, <3>1
  <2> QED
    BY <1>6, <2>2, <2>3
<1>9. \A u \in us : u.kind = k => u.index \in Nat /\ u.index <= m
  BY <1>3, <1>4
<1>10. IndicesOK(k, l, m, gs, us)
  BY <1>4, <1>7, <1>8, <1>9 DEF IndicesOK
<1>11. /\ \A u \in us : u.kind = k /\ u.index = local /\ Len(fs) > 0 => u.call = fs[1].call
       /\ \A u \in us, i \in 1 .. Len(fs) - 1 :
            fs[i].macro /\ u.kind = k /\ u.index = Saved(fs[i], k) => u.call = fs[i + 1].call
       /\ \A u, v \in us : u.kind = k /\ v.kind = k /\ u.index = v.index => u.call = v.call
  BY DEF ScopeOK, OwnersOK
<1>12. \A u \in us : u.kind = k /\ u.index = l => u.call = gs[1].call
  <2>1. CASE l = local /\ gs[1].call = fs[1].call
    BY <1>1, <1>11, <2>1
  <2>2. CASE l = last + 1
    BY <1>3, <2>2
  <2> QED
    BY <2>1, <2>2
<1>13. ASSUME NEW u \in us, NEW i \in 1 .. Len(gs) - 1, gs[i].macro, u.kind = k,
              u.index = Saved(gs[i], k)
       PROVE  u.call = gs[i + 1].call
  <2>1. i + 1 \in 2 .. Len(gs) /\ (i + 1) - 1 = i /\ i \in 1 .. Len(gs)
    BY <1>1
  <2>2. gs[i + 1].call = fs[i].call
    BY <1>2, <2>1
  <2>3. CASE i = 1
    BY <1>1, <1>4, <1>11, <1>13, <2>2, <2>3
  <2>4. CASE i \in 2 .. Len(gs)
    <3>1. i - 1 \in 1 .. Len(fs) - 1 /\ (i - 1) + 1 = i
      BY <1>1, <2>4
    <3> QED
      BY <1>2, <1>11, <1>13, <2>2, <2>4, <3>1
  <2> QED
    BY <1>6, <2>1, <2>3, <2>4
<1>14. OwnersOK(k, l, gs, us)
  BY <1>11, <1>12, <1>13 DEF OwnersOK
<1>15. ASSUME NEW i \in 1 .. Len(gs) - 1, ~gs[i].macro
       PROVE  gs[i].call = gs[i + 1].call
  <2>1. i + 1 \in 2 .. Len(gs) /\ (i + 1) - 1 = i /\ i \in 1 .. Len(gs)
    BY <1>1
  <2>2. gs[i + 1].call = fs[i].call
    BY <1>2, <2>1
  <2>3. CASE i = 1
    BY <1>15, <2>2, <2>3
  <2>4. CASE i \in 2 .. Len(gs)
    <3>1. i - 1 \in 1 .. Len(fs) - 1 /\ (i - 1) + 1 = i
      BY <1>1, <2>4
    <3>2. fs[i - 1].call = fs[(i - 1) + 1].call
      BY <1>2, <1>15, <2>4, <3>1 DEF CallsOK
    <3> QED
      BY <1>2, <2>2, <2>4, <3>1, <3>2
  <2> QED
    BY <1>6, <2>1, <2>3, <2>4
<1>16. CallsOK(gs)
  BY <1>15 DEF CallsOK
<1> QED
  BY <1>10, <1>14, <1>16 DEF ScopeOK

\* A new scope is opened in the same frame.
LEMMA ScopeFresh ==
  ASSUME NEW k, NEW local, NEW last, NEW us, NEW fs \in Seq(Frame),
         ScopeOK(k, local, last, fs, us)
  PROVE  ScopeOK(k, last + 1, last + 1, fs, us)
<1>1. /\ local \in Nat /\ last \in Nat /\ local <= last
      /\ \A u \in us : u.kind = k => u.index \in Nat /\ u.index <= last
  BY DEF ScopeOK, IndicesOK
<1>2. IndicesOK(k, last + 1, last + 1, fs, us)
  BY <1>1 DEF ScopeOK, IndicesOK
<1>3. OwnersOK(k, last + 1, fs, us)
  BY <1>1 DEF ScopeOK, OwnersOK
<1> QED
  BY <1>2, <1>3 DEF ScopeOK

\* The scope in force is used.
LEMMA ScopeUsed ==
  ASSUME NEW k, NEW local, NEW last, NEW us, NEW vs, NEW fs \in Seq(Frame),
         ScopeOK(k, local, last, fs, us), Len(fs) > 0,
         \A v \in vs : v \in us \/ (v.kind = k => v.index = local /\ v.call = fs[1].call)
  PROVE  ScopeOK(k, local, last, fs, vs)
<1>1. IndicesOK(k, local, last, fs, us) /\ OwnersOK(k, local, fs, us)
  BY DEF ScopeOK
<1>2. IndicesOK(k, local, last, fs, vs)
  BY <1>1 DEF IndicesOK
<1>3. /\ \A u \in us : u.kind = k /\ u.index = local => u.call = fs[1].call
      /\ \A u \in us, i \in 1 .. Len(fs) - 1 :
           fs[i].macro /\ u.kind = k /\ u.index = Saved(fs[i], k) => u.call = fs[i + 1].call
      /\ \A u, v \in us : u.kind = k /\ v.kind = k /\ u.index = v.index => u.call = v.call
      /\ \A i \in 1 .. Len(fs) : fs[i].macro => Saved(fs[i], k) \in Nat /\ Saved(fs[i], k) < local
      /\ local \in Nat
  BY <1>1 DEF IndicesOK, OwnersOK
<1>4. \A u \in vs : u.kind = k /\ u.index = local => u.call = fs[1].call
  BY <1>3
<1>5. ASSUME NEW u \in vs, NEW i \in 1 .. Len(fs) - 1, fs[i].macro, u.kind = k,
             u.index = Saved(fs[i], k)
      PROVE  u.call = fs[i + 1].call
  <2>1. i \in 1 .. Len(fs)
    OBVIOUS
  <2>2. u.index # local
    BY <1>3, <1>5, <2>1
  <2> QED
    BY <1>3, <1>5, <2>2
<1>6. ASSUME NEW u \in vs, NEW v \in vs, u.kind = k, v.kind = k, u.index = v.index
      PROVE  u.call = v.call
  <2>1. CASE u.index = local
    BY <1>4, <1>6, <2>1
  <2>2. CASE u.index # local
    BY <1>3, <1>6, <2>2
  <2> QED
    BY <2>1, <2>2
<1>7. OwnersOK(k, local, fs, vs)
  BY <1>4, <1>5, <1>6 DEF OwnersOK
<1> QED
  BY <1>2, <1>7 DEF ScopeOK

\* The first file of a pass, in which nothing has been used yet.
LEMMA ScopeStart ==
  ASSUME NEW k, NEW fs \in Seq(Frame), Len(fs) = 1, ~fs[1].macro
  PROVE  ScopeOK(k, 0, 0, fs, {}) /\ CallsOK(fs)
BY DEF ScopeOK, IndicesOK, OwnersOK, CallsOK

ScopesOK ==
  /\ CallsOK(pIncfile)
  /\ ScopeOK(".", Localindex, Lastlocalindex, pIncfile, uses)
  /\ ScopeOK("$", Localdollarindex, Lastlocaldollarindex, pIncfile, uses)

\* Every step keeps the scopes of different calls apart.
LEMMA ScopesStep ==
  ASSUME FrameTypes, OthersTyped, ScopesOK, [Next]_vars
  PROVE  ScopesOK'
<1>1. FrameTypes'
  BY FrameStep
<1>2. /\ pIncfile \in Seq(Frame) /\ pIncfile' \in Seq(Frame)
      /\ Len(pIncfile) \in Nat /\ Len(pIncfile') \in Nat
  BY <1>1 DEF FrameTypes, FramesOK
<1>3. /\ CallsOK(pIncfile)
      /\ ScopeOK(".", Localindex, Lastlocalindex, pIncfile, uses)
      /\ ScopeOK("$", Localdollarindex, Lastlocaldollarindex, pIncfile, uses)
  BY DEF ScopesOK
<1>4. ASSUME NEW n \in Nat, Left(n)
      PROVE  FramesLeft(pIncfile, pIncfile', n)
  <2>1. \A i \in 1 .. Len(pIncfile') : i \in 1 .. Len(pIncfile) - n
    BY <1>4 DEF Left
  <2> QED
    BY <1>4, <2>1 DEF Left, FramesLeft
<1>5. ASSUME Left(0)
      PROVE  /\ CallsOK(pIncfile')
             /\ ScopeOK(".", Localindex, Lastlocalindex, pIncfile', uses)
             /\ ScopeOK("$", Localdollarindex, Lastlocaldollarindex, pIncfile', uses)
  BY <1>2, <1>3, <1>4, <1>5, ScopeLeft
<1>6. ASSUME Left(0), UNCHANGED <<scopes, uses>>
      PROVE  ScopesOK'
  BY <1>5, <1>6 DEF ScopesOK, scopes
<1>7. CASE Mac
  BY <1>6, <1>7, MacTypes DEF Mac, history
<1>8. CASE If \/ Else \/ Endif \/ Repeat \/ Repend
  <2>1. UNCHANGED <<scopes, uses>>
    BY <1>8 DEF If, Else, Endif, Repeat, Repend, history
  <2> QED
    BY <1>6, <1>8, <2>1, IfTypes, ElseTypes, EndifTypes, RepeatTypes, RependTypes
<1>9. CASE UnknownMnemonic \/ Skip
  <2>1. UNCHANGED <<scopes, uses>>
    BY <1>9 DEF UnknownMnemonic, Skip, history
  <2> QED
    BY <1>6, <1>9, <2>1, OtherLines
<1>10. CASE GiveUp \/ LastPass \/ UNCHANGED vars
  <2>1. UNCHANGED <<scopes, uses>>
    BY <1>10 DEF GiveUp, LastPass, vars, history
  <2> QED
    BY <1>6, <1>10, <2>1, FinishedTypes
<1>11. CASE Include
  <2>1. UNCHANGED <<scopes, uses>>
    BY <1>11 DEF Include, history
  <2>2. CASE IncludeEnters
    <3>1. /\ Len(pIncfile') = Len(pIncfile) + 1 /\ Len(pIncfile) > 0
          /\ \A i \in 1 .. Len(pIncfile) : Same(pIncfile[i], pIncfile'[i + 1])
          /\ ~pIncfile'[1].macro /\ pIncfile'[1].call = pIncfile[1].call
      BY <1>2, <2>2 DEF IncludeEnters, Entered
    <3>2. /\ CallsOK(pIncfile')
          /\ ScopeOK(".", Localindex, Lastlocalindex, pIncfile', uses)
          /\ ScopeOK("$", Localdollarindex, Lastlocaldollarindex, pIncfile', uses)
      BY <1>2, <1>3, <3>1, ScopeEntered, SMTT(30)
    <3> QED
      BY <2>1, <3>2 DEF ScopesOK, scopes
  <2>3. CASE Left(0)
    BY <1>6, <2>1, <2>3
  <2> QED
    BY <1>11, <2>2, <2>3, IncludeTypes
<1>12. CASE Call
  <2>1. UNCHANGED uses
    BY <1>12 DEF Call
  <2>2. CASE CallEnters
    <3>1. /\ Len(pIncfile') = Len(pIncfile) + 1 /\ Len(pIncfile) > 0
          /\ \A i \in 1 .. Len(pIncfile) : Same(pIncfile[i], pIncfile'[i + 1])
          /\ pIncfile'[1].macro
      BY <1>2, <1>12, <2>2, SMTT(30) DEF CallEnters, Entered, Call, At, AtLine
    <3>2. Saved(pIncfile'[1], ".") = Localindex /\ Saved(pIncfile'[1], "$") = Localdollarindex
      BY <2>2 DEF CallEnters, Saved
    <3>3. /\ CallsOK(pIncfile')
          /\ ScopeOK(".", Lastlocalindex + 1, Lastlocalindex + 1, pIncfile', uses)
      BY <1>2, <1>3, <3>1, <3>2, ScopeEntered
    <3>4. ScopeOK("$", Lastlocaldollarindex + 1, Lastlocaldollarindex + 1, pIncfile', uses)
      BY <1>2, <1>3, <3>1, <3>2, ScopeEntered
    <3> QED
      BY <2>1, <2>2, <3>3, <3>4 DEF ScopesOK, CallEnters
  <2>3. CASE Left(0) /\ UNCHANGED scopes
    BY <1>6, <2>1, <2>3
  <2> QED
    BY <1>12, <2>2, <2>3, CallTypes
<1>13. ASSUME NEW n \in Nat, MacrosLeft(n)
       PROVE  ScopesOK'
  <2>1. /\ UNCHANGED <<Lastlocalindex, Lastlocaldollarindex, uses>>
        /\ Localindex' = IF n = 0 THEN Localindex ELSE pIncfile[n].saveidx
        /\ Localdollarindex' = IF n = 0 THEN Localdollarindex ELSE pIncfile[n].savedolidx
        /\ Left(n) /\ \A i \in 1 .. n : pIncfile[i].macro
    BY <1>13 DEF MacrosLeft, LeaveMacros, history
  <2>2. CASE n = 0
    <3>1. Left(0) /\ UNCHANGED <<Localindex, Localdollarindex>>
      BY <2>1, <2>2
    <3> QED
      BY <1>5, <2>1, <3>1 DEF ScopesOK
  <2>3. CASE n > 0
    <3>1. Localindex' = Saved(pIncfile[n], ".") /\ Localdollarindex' = Saved(pIncfile[n], "$")
      BY <2>1, <2>3 DEF Saved
    <3>2. FramesLeft(pIncfile, pIncfile', n) /\ \A i \in 1 .. n : pIncfile[i].macro
      BY <1>4, <2>1
    <3>3. /\ CallsOK(pIncfile')
          /\ ScopeOK(".", Saved(pIncfile[n], "."), Lastlocalindex, pIncfile', uses)
      BY <1>2, <1>3, <2>3, <3>2, ScopeLeft
    <3>4. ScopeOK("$", Saved(pIncfile[n], "$"), Lastlocaldollarindex, pIncfile', uses)
      BY <1>2, <1>3, <2>3, <3>2, ScopeLeft
    <3> QED
      BY <2>1, <3>1, <3>3, <3>4 DEF ScopesOK
  <2> QED
    BY <2>2, <2>3
<1>14. CASE Mexit \/ StrayEndm \/ EndOfMacro \/ End
  BY <1>13, <1>14, MexitTypes, StrayEndmTypes, EndOfMacroTypes, EndTypes
<1>15. CASE EndOfFile
  <2>1. Left(1) /\ ~pIncfile[1].macro /\ UNCHANGED <<scopes, uses>>
    BY <1>15, EndOfFileTypes DEF EndOfFile, history
  <2>2. FramesLeft(pIncfile, pIncfile', 1)
    BY <1>4, <2>1
  <2>3. CallsOK(pIncfile') /\ ScopeOK(".", Localindex, Lastlocalindex, pIncfile', uses)
    BY <1>2, <1>3, <2>1, <2>2, ScopeLeft
  <2>4. ScopeOK("$", Localdollarindex, Lastlocaldollarindex, pIncfile', uses)
    BY <1>2, <1>3, <2>1, <2>2, ScopeLeft
  <2> QED
    BY <2>1, <2>3, <2>4 DEF ScopesOK, scopes
<1>16. CASE NextPass
  <2>1. Len(pIncfile') = 1 /\ ~pIncfile'[1].macro
    BY <1>16, NextPassTypes DEF Entered
  <2>2. /\ Localindex' = 0 /\ Lastlocalindex' = 0
        /\ Localdollarindex' = 0 /\ Lastlocaldollarindex' = 0 /\ uses' = {}
    BY <1>16 DEF NextPass
  <2>3. /\ CallsOK(pIncfile') /\ ScopeOK(".", 0, 0, pIncfile', {})
        /\ ScopeOK("$", 0, 0, pIncfile', {})
    BY <1>2, <2>1, ScopeStart
  <2> QED
    BY <2>2, <2>3 DEF ScopesOK
<1>17. CASE Subroutine
  <2>1. /\ Localindex' = Lastlocalindex + 1 /\ Lastlocalindex' = Lastlocalindex + 1
        /\ UNCHANGED <<Localdollarindex, Lastlocaldollarindex, uses>>
    BY <1>17 DEF Subroutine, history
  <2>2. Left(0)
    BY <1>17, OtherLines
  <2>3. ScopeOK(".", Lastlocalindex + 1, Lastlocalindex + 1, pIncfile', uses)
    BY <1>2, <1>5, <2>2, ScopeFresh
  <2> QED
    BY <1>5, <2>1, <2>2, <2>3 DEF ScopesOK
<1>18. CASE Label
  <2>1. /\ Localdollarindex' = Lastlocaldollarindex + 1
        /\ Lastlocaldollarindex' = Lastlocaldollarindex + 1
        /\ UNCHANGED <<Localindex, Lastlocalindex, uses>>
    BY <1>18 DEF Label, history
  <2>2. Left(0)
    BY <1>18, OtherLines
  <2>3. ScopeOK("$", Lastlocaldollarindex + 1, Lastlocaldollarindex + 1, pIncfile', uses)
    BY <1>2, <1>5, <2>2, ScopeFresh
  <2> QED
    BY <1>5, <2>1, <2>2, <2>3 DEF ScopesOK
<1>19. CASE Emit
  <2> DEFINE a == [kind |-> ".", index |-> Localindex, call |-> Top.call]
             b == [kind |-> "$", index |-> Localdollarindex, call |-> Top.call]
  <2>1. UNCHANGED scopes /\ uses' = uses \cup {a, b}
    BY <1>19 DEF Emit
  <2>2. Len(pIncfile) > 0 /\ Top = pIncfile[1]
    <3>1. pIncfile # <<>>
      BY <1>19 DEF Emit, At, AtLine
    <3> QED
      BY <1>2, <3>1, FetchedFrames DEF FrameTypes
  <2>3. Left(0)
    BY <1>19, OtherLines
  <2>4. Len(pIncfile') > 0 /\ pIncfile'[1].call = Top.call
    BY <1>2, <2>2, <2>3 DEF Left, Same
  <2>5. /\ a.kind = "." /\ a.index = Localindex /\ a.call = Top.call
        /\ b.kind = "$" /\ b.index = Localdollarindex /\ b.call = Top.call
    OBVIOUS
  <2> HIDE DEF a, b
  <2>6. \A v \in uses' : \/ v \in uses
                         \/ v.kind = "." => v.index = Localindex /\ v.call = pIncfile'[1].call
    BY <2>1, <2>4, <2>5
  <2>7. \A v \in uses' : \/ v \in uses
                         \/ v.kind = "$" => v.index = Localdollarindex /\ v.call = pIncfile'[1].call
    BY <2>1, <2>4, <2>5
  <2>8. ScopeOK(".", Localindex, Lastlocalindex, pIncfile', uses')
    BY <1>2, <1>5, <2>3, <2>4, <2>6, ScopeUsed
  <2>9. ScopeOK("$", Localdollarindex, Lastlocaldollarindex, pIncfile', uses')
    BY <1>2, <1>5, <2>3, <2>4, <2>7, ScopeUsed
  <2> QED
    BY <1>5, <2>1, <2>3, <2>8, <2>9 DEF ScopesOK, scopes
<1> QED
  BY <1>7, <1>8, <1>9, <1>10, <1>11, <1>12, <1>14, <1>15, <1>16, <1>17, <1>18, <1>19
     DEF Next, ReadLine

\* Nothing has been used at the start.
LEMMA ScopesInit == Init => ScopesOK
<1> SUFFICES ASSUME Init PROVE ScopesOK
  OBVIOUS
<1> DEFINE f == FileFrame(CHOOSE a \in Addresses : TRUE, MainFile, 0)
<1>1. pIncfile = <<f>> /\ ~f.macro
  BY DEF Init, FileFrame
<1> HIDE DEF f
<1>2. Len(pIncfile) = 1 /\ ~pIncfile[1].macro
  BY <1>1
<1>3. pIncfile \in Seq(Frame)
  BY InitFrames DEF FrameTypes, FramesOK
<1>4. /\ Localindex = 0 /\ Lastlocalindex = 0
      /\ Localdollarindex = 0 /\ Lastlocaldollarindex = 0 /\ uses = {}
  BY DEF Init
<1> QED
  BY <1>2, <1>3, <1>4, ScopeStart DEF ScopesOK

\* ScopesNotShared: however macro calls and files are nested, and whatever opens scopes
\* in between, a .label or label$ of one macro call is never that of another call or of
\* the code around it.
THEOREM ScopesNeverShared == Spec => []ScopesNotShared
<1>1. Init => FrameTypes /\ OthersTyped /\ ScopesOK
  BY InitFrames, ScopesInit
<1>2. FrameTypes /\ OthersTyped /\ ScopesOK /\ [Next]_vars
        => (FrameTypes /\ OthersTyped /\ ScopesOK)'
  BY FrameStep, OthersStep, ScopesStep
<1>3. OthersTyped /\ ScopesOK => ScopesNotShared
  <2> SUFFICES ASSUME OthersTyped, ScopesOK, NEW u \in uses, NEW v \in uses,
                      u.kind = v.kind, u.index = v.index
               PROVE  u.call = v.call
    BY DEF ScopesNotShared
  <2>1. u.kind \in Kinds
    BY DEF OthersTyped, UsesTyped, Uses
  <2>2. \A k \in Kinds : OwnersOK(k, IF k = "." THEN Localindex ELSE Localdollarindex,
                                  pIncfile, uses)
    BY DEF ScopesOK, ScopeOK, Kinds
  <2> QED
    BY <2>1, <2>2 DEF OwnersOK
<1> QED
  BY <1>1, <1>2, <1>3, PTL DEF Spec

-----------------------------------------------------------------------------
\* TypeOK: the types of all variables; in particular the text of every frame and of
\* every loop is there as long as it is read, and the levels are never negative.
THEOREM FramesTypeCorrect == Spec => []TypeOK
<1>1. Init => FrameTypes /\ OthersTyped /\ LevelsOK
  BY InitFrames, LevelsInit
<1>2. FrameTypes /\ OthersTyped /\ LevelsOK /\ [Next]_vars
        => (FrameTypes /\ OthersTyped /\ LevelsOK)'
  BY FrameStep, OthersStep, LevelsStep
<1>3. FrameTypes /\ OthersTyped /\ LevelsOK => TypeOK
  <2> SUFFICES ASSUME FrameTypes, OthersTyped, LevelsOK PROVE TypeOK
    OBVIOUS
  <2>1. /\ pIncfile \in Seq(Frame) /\ DOMAIN pIncfile = 1 .. Len(pIncfile)
        /\ \A i \in 1 .. Len(pIncfile) :
             pIncfile[i].text
               \in (IF pIncfile[i].macro THEN DOMAIN macros ELSE DOMAIN source.files)
    BY DEF FrameTypes, FramesOK
  <2>2. Ifstack \in Seq(IfNode) /\ Reploop \in Seq(LoopNode) /\ pass \in 1 .. MaxPasses
    BY DEF FrameTypes, StackOK, LoopsOK
  <2>3. /\ DOMAIN macros \subseteq Names
        /\ \A n \in DOMAIN macros : /\ macros[n].strlist \in Seq(Lines)
                                    /\ macros[n].defpass \in 1 .. pass
    BY DEF FrameTypes, MacrosOK
  <2>4. {Localindex, Lastlocalindex, Localdollarindex, Lastlocaldollarindex} \subseteq Nat
    BY DEF OthersTyped
  <2>5. {Mlevel, Inclevel, nMacroDeclarations, nMacroClosings, calls} \subseteq Nat
    BY FrameLevels DEF OthersTyped
  <2>6. Redo \in BOOLEAN /\ bStopAtEnd \in BOOLEAN
    BY DEF OthersTyped
  <2>7. status \in {"reading", "complete", "failed", "aborted", "missing endm", "crashed"}
    BY Zenon DEF OthersTyped, Statuses
  <2>8. out \in Seq(Items) /\ uses \subseteq [kind : {".", "$"}, index : Nat, call : Nat]
    BY DEF OthersTyped, UsesTyped, Uses, Kinds
  <2> QED
    BY <2>1, <2>2, <2>3, <2>4, <2>5, <2>6, <2>7, <2>8, Zenon DEF TypeOK
<1> QED
  BY <1>1, <1>2, <1>3, PTL DEF Spec
=============================================================================
