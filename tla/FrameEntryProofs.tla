--------------------------- MODULE FrameEntryProofs ---------------------------
(***************************************************************************)
(* Proofs about Frames: the entries of Ifstack and Reploop belong to the   *)
(* frames that are there, in their order.                                  *)
(***************************************************************************)
EXTENDS FrameProofs, FrameDiscipline

-----------------------------------------------------------------------------
(***************************************************************************)
(* Induction, and recursive functions on 0 .. n                            *)
(***************************************************************************)

\* Complete induction.
LEMMA Complete ==
  ASSUME NEW S, \A k \in Nat : (\A j \in Nat : j < k => j \in S) => k \in S
  PROVE  \A k \in Nat : k \in S
<1> DEFINE T == Nat \ S
<1>1. SUFFICES ASSUME T # {} PROVE FALSE
  OBVIOUS
<1>2. T \in SUBSET Nat
  OBVIOUS
<1> HIDE DEF T
<1>3. PICK m \in T : \A j \in T : m <= j
  BY <1>1, <1>2, Least
<1>4. m \in Nat /\ \A j \in Nat : j < m => j \in S
  BY <1>2, <1>3 DEF T
<1>5. m \in S
  BY <1>4
<1> QED
  BY <1>3, <1>5 DEF T

\* Induction from k to k + 1.
LEMMA Inductive ==
  ASSUME NEW S, 0 \in S, \A k \in Nat : k \in S => k + 1 \in S
  PROVE  \A k \in Nat : k \in S
<1>1. ASSUME NEW k \in Nat, \A j \in Nat : j < k => j \in S
      PROVE  k \in S
  <2>1. CASE k = 0
    BY <2>1
  <2>2. CASE k # 0
    <3>1. k - 1 \in Nat /\ k - 1 < k /\ (k - 1) + 1 = k
      BY <2>2
    <3>2. k - 1 \in S
      BY <1>1, <3>1
    <3> QED
      BY <3>1, <3>2
  <2> QED
    BY <2>1, <2>2
<1> QED
  BY <1>1, Complete

\* A function that is defined step by step exists.
LEMMA StepsExist ==
  ASSUME NEW R, NEW a \in R, NEW n \in Nat, NEW step \in [1 .. n -> [R -> R]]
  PROVE  \E f \in [0 .. n -> R] : f[0] = a /\ \A i \in 1 .. n : f[i] = step[i][f[i - 1]]
<1> DEFINE Good(f, k) == f[0] = a /\ \A i \in 1 .. k : f[i] = step[i][f[i - 1]]
           S == {k \in Nat : k <= n => \E f \in [0 .. k -> R] : Good(f, k)}
<1>1. 0 \in S
  <2>1. [i \in 0 .. 0 |-> a] \in [0 .. 0 -> R] /\ Good([i \in 0 .. 0 |-> a], 0)
    OBVIOUS
  <2> QED
    BY <2>1
<1>2. ASSUME NEW k \in Nat, k \in S
      PROVE  k + 1 \in S
  <2> DEFINE top == k + 1
  <2>1. SUFFICES ASSUME top <= n PROVE \E f \in [0 .. top -> R] : Good(f, top)
    OBVIOUS
  <2>2. PICK f \in [0 .. k -> R] : Good(f, k)
    BY <1>2, <2>1
  <2> DEFINE g == [i \in 0 .. top |-> IF i = top THEN step[top][f[k]] ELSE f[i]]
  <2>3. /\ top \in 1 .. n /\ top \in 0 .. top /\ top - 1 = k /\ 0 # top /\ 0 \in 0 .. top
        /\ k \in 0 .. k
        /\ \A i \in 0 .. top : i # top => i \in 0 .. k
        /\ \A i \in 0 .. k : i # top /\ i \in 0 .. top
        /\ \A i \in 1 .. top : i # top => i \in 1 .. k /\ i - 1 \in 0 .. k /\ i \in 0 .. k
    BY <2>1
  <2> HIDE DEF top
  <2>4. step[top][f[k]] \in R
    BY <2>2, <2>3
  <2>5. g \in [0 .. top -> R]
    BY <2>2, <2>3, <2>4
  <2>6. g[top] = step[top][f[k]] /\ \A i \in 0 .. k : g[i] = f[i]
    BY <2>3
  <2>7. f[0] = a /\ \A i \in 1 .. k : f[i] = step[i][f[i - 1]]
    BY <2>2
  <2> HIDE DEF g
  <2>8. g[0] = a
    BY <2>3, <2>6, <2>7
  <2>9. ASSUME NEW i \in 1 .. top PROVE g[i] = step[i][g[i - 1]]
    <3>1. CASE i = top
      BY <2>3, <2>6, <3>1
    <3>2. CASE i # top
      BY <2>3, <2>6, <2>7, <3>2
    <3> QED
      BY <3>1, <3>2
  <2> QED
    BY <2>5, <2>8, <2>9
<1> HIDE DEF S
<1>3. n \in S
  BY <1>1, <1>2, Inductive
<1> QED
  BY <1>3 DEF S

-----------------------------------------------------------------------------
(***************************************************************************)
(* What a text has opened                                                  *)
(***************************************************************************)

Readings(n) == [open : Seq(1 .. n), mac : BOOLEAN]

\* One more line gives a reading.
LEMMA ReadingTyped ==
  ASSUME NEW n \in Nat, NEW s \in Readings(n), NEW i \in 1 .. n, NEW op
  PROVE  Reading(s, i, op) \in Readings(n)
<1>1. s.open \in Seq(1 .. n) /\ s.mac \in BOOLEAN
  BY DEF Readings
<1>2. \A b \in BOOLEAN : [s EXCEPT !.mac = b] \in Readings(n)
  BY DEF Readings
<1>3. \A o \in Seq(1 .. n) : [s EXCEPT !.open = o] \in Readings(n)
  BY DEF Readings
<1>4. <<i>> \o s.open \in Seq(1 .. n)
  BY <1>1
<1>5. s.open # <<>> => Tail(s.open) \in Seq(1 .. n)
  BY <1>1, Popped
<1>6. (op # "endm") \in BOOLEAN /\ (op = "mac") \in BOOLEAN
  BY Zenon
<1>7. \/ Reading(s, i, op) = [s EXCEPT !.mac = (op # "endm")]
      \/ Reading(s, i, op) = [s EXCEPT !.open = <<i>> \o s.open]
      \/ s.open # <<>> /\ Reading(s, i, op) = [s EXCEPT !.open = Tail(s.open)]
      \/ Reading(s, i, op) = [s EXCEPT !.mac = (op = "mac")]
  BY Zenon DEF Reading
<1> QED
  BY <1>2, <1>3, <1>4, <1>5, <1>6, <1>7, Zenon

Fresh == [open |-> <<>>, mac |-> FALSE]

\* Seen is what its definition says.
LEMMA SeenSteps ==
  ASSUME NEW ls \in Seq(Lines)
  PROVE  /\ \A i \in 0 .. Len(ls) : Seen(ls)[i] \in Readings(Len(ls))
         /\ Seen(ls)[0] = Fresh
         /\ \A i \in 1 .. Len(ls) : Seen(ls)[i] = Reading(Seen(ls)[i - 1], i, ls[i].op)
<1> DEFINE n == Len(ls)
           R == Readings(n)
           step == [i \in 1 .. n |-> [s \in R |-> Reading(s, i, ls[i].op)]]
           Sees(g) == g = [i \in 0 .. Len(ls) |->
                            IF i = 0 THEN [open |-> <<>>, mac |-> FALSE]
                            ELSE Reading(g[i - 1], i, ls[i].op)]
<1>1. n \in Nat /\ Fresh \in R
  BY DEF Readings, Fresh
<1>2. step \in [1 .. n -> [R -> R]]
  BY <1>1, ReadingTyped
<1>3. \A i \in 1 .. n : \A s \in R : step[i][s] = Reading(s, i, ls[i].op)
  OBVIOUS
<1> HIDE DEF step, R, n
<1>4. PICK g \in [0 .. n -> R] : g[0] = Fresh /\ \A i \in 1 .. n : g[i] = step[i][g[i - 1]]
  <2>1. PICK Q, m, a, next : Q = R /\ m = n /\ a = Fresh /\ next = step
    OBVIOUS
  <2>2. a \in Q /\ m \in Nat /\ next \in [1 .. m -> [Q -> Q]]
    BY <1>1, <1>2, <2>1
  <2>3. \E g \in [0 .. m -> Q] : g[0] = a /\ \A i \in 1 .. m : g[i] = next[i][g[i - 1]]
    BY ONLY <2>2, StepsExist
  <2> QED
    BY <2>1, <2>3
<1>5. \A i \in 1 .. n : g[i] = Reading(g[i - 1], i, ls[i].op)
  BY <1>1, <1>3, <1>4
<1>6. Sees(g)
  <2>1. \A i \in 0 .. n : g[i] = IF i = 0 THEN Fresh ELSE Reading(g[i - 1], i, ls[i].op)
    BY <1>1, <1>4, <1>5
  <2>2. g = [i \in 0 .. n |-> g[i]]
    BY <1>4
  <2> QED
    BY <2>1, <2>2 DEF Fresh, n
<1> DEFINE seen == CHOOSE h : Sees(h)
<1>7. Sees(seen)
  <2> HIDE DEF Sees
  <2> QED
    BY <1>6
<1>8. Seen(ls) = seen
  BY DEF Seen
<1> HIDE DEF seen
<1>9. /\ seen[0] = Fresh
      /\ \A i \in 1 .. n : seen[i] = Reading(seen[i - 1], i, ls[i].op)
  <2>1. seen = [i \in 0 .. n |-> IF i = 0 THEN Fresh ELSE Reading(seen[i - 1], i, ls[i].op)]
    BY <1>7 DEF Fresh, n
  <2>2. \A i \in 0 .. n : seen[i] = IF i = 0 THEN Fresh ELSE Reading(seen[i - 1], i, ls[i].op)
    BY <2>1
  <2>3. 0 \in 0 .. n /\ \A i \in 1 .. n : i \in 0 .. n /\ i # 0
    BY <1>1
  <2> QED
    BY <2>2, <2>3
<1> DEFINE S == {k \in Nat : k <= n => seen[k] \in R}
<1>10. 0 \in S
  BY <1>1, <1>9
<1>11. ASSUME NEW k \in Nat, k \in S PROVE k + 1 \in S
  <2>1. SUFFICES ASSUME k + 1 <= n PROVE seen[k + 1] \in R
    OBVIOUS
  <2>2. k + 1 \in 1 .. n /\ (k + 1) - 1 = k /\ seen[k] \in R
    BY <1>1, <1>11, <2>1
  <2> QED
    BY <1>1, <1>9, <2>2, ReadingTyped DEF R
<1> HIDE DEF S
<1>12. \A k \in Nat : k \in S
  BY <1>10, <1>11, Inductive
<1>13. \A i \in 0 .. n : seen[i] \in R
  BY <1>12 DEF S
<1> QED
  BY <1>8, <1>9, <1>13 DEF R, n

\* What one line does to what is open.
LEMMA SeenNext ==
  ASSUME NEW ls \in Seq(Lines), NEW i \in 1 .. Len(ls)
  PROVE  LET s == Seen(ls)[i - 1]
             t == Seen(ls)[i]
         IN /\ s.open \in Seq(1 .. Len(ls)) /\ t.open \in Seq(1 .. Len(ls))
            /\ s.mac => t.open = s.open /\ (t.mac <=> ls[i].op # "endm")
            /\ ~s.mac =>
                 /\ ls[i].op \in Openings => t.open = <<i>> \o s.open /\ ~t.mac
                 /\ ls[i].op \in Closings =>
                      /\ t.open = IF s.open = <<>> THEN <<>> ELSE Tail(s.open)
                      /\ ~t.mac
                 /\ ls[i].op \notin Openings \cup Closings =>
                      t.open = s.open /\ (t.mac <=> ls[i].op = "mac")
<1> DEFINE s  == Seen(ls)[i - 1]
           t  == Seen(ls)[i]
           op == ls[i].op
<1>1. i \in 0 .. Len(ls) /\ i - 1 \in 0 .. Len(ls)
  OBVIOUS
<1>2. s \in Readings(Len(ls)) /\ t \in Readings(Len(ls)) /\ t = Reading(s, i, op)
  BY <1>1, SeenSteps
<1> HIDE DEF s, t, op
<1>3. /\ s.open \in Seq(1 .. Len(ls)) /\ t.open \in Seq(1 .. Len(ls)) /\ s.mac \in BOOLEAN
      /\ s = [open |-> s.open, mac |-> s.mac]
  BY <1>2 DEF Readings
<1>4. PICK o, m : o = s.open /\ m = s.mac
  OBVIOUS
<1>5. s = [open |-> o, mac |-> m]
  BY <1>3, <1>4
<1>6. /\ \A b : [s EXCEPT !.mac = b] = [open |-> o, mac |-> b]
      /\ \A q : [s EXCEPT !.open = q] = [open |-> q, mac |-> m]
  BY <1>5
<1>7. m => t.open = o /\ (t.mac <=> op # "endm")
  <2>1. SUFFICES ASSUME m PROVE t.open = o /\ (t.mac <=> op # "endm")
    OBVIOUS
  <2>2. t = [open |-> o, mac |-> op # "endm"]
    BY <1>2, <1>4, <1>6, <2>1, Zenon DEF Reading
  <2> QED
    BY <2>2
<1>8. ~m /\ op \in Openings => t.open = <<i>> \o o /\ ~t.mac
  <2>1. SUFFICES ASSUME ~m, op \in Openings PROVE t.open = <<i>> \o o /\ ~t.mac
    OBVIOUS
  <2>2. t = [open |-> <<i>> \o o, mac |-> m]
    BY <1>2, <1>4, <1>6, <2>1, Zenon DEF Reading
  <2> QED
    BY <2>1, <2>2
<1>9. Openings \cap Closings = {} /\ "mac" \notin Openings \cup Closings
  BY DEF Openings, Closings
<1>10. ~m /\ op \in Closings => t.open = (IF o = <<>> THEN <<>> ELSE Tail(o)) /\ ~t.mac
  <2>1. SUFFICES ASSUME ~m, op \in Closings
                 PROVE  t.open = (IF o = <<>> THEN <<>> ELSE Tail(o)) /\ ~t.mac
    OBVIOUS
  <2>2. op \notin Openings /\ op # "mac"
    BY <1>9, <2>1
  <2>3. CASE o # <<>>
    <3>1. t = [open |-> Tail(o), mac |-> m]
      BY <1>2, <1>4, <1>6, <2>1, <2>2, <2>3, Zenon DEF Reading
    <3> QED
      BY <2>1, <2>3, <3>1
  <2>4. CASE o = <<>>
    <3>1. t = [open |-> o, mac |-> op = "mac"]
      BY <1>2, <1>4, <1>6, <2>1, <2>2, <2>4, Zenon DEF Reading
    <3> QED
      BY <2>2, <2>4, <3>1
  <2> QED
    BY <2>3, <2>4
<1>11. ~m /\ op \notin Openings \cup Closings => t.open = o /\ (t.mac <=> op = "mac")
  <2>1. SUFFICES ASSUME ~m, op \notin Openings \cup Closings
                 PROVE  t.open = o /\ (t.mac <=> op = "mac")
    OBVIOUS
  <2>2. op \notin Openings /\ op \notin Closings
    BY <2>1
  <2>3. t = [open |-> o, mac |-> op = "mac"]
    BY <1>2, <1>4, <1>6, <2>1, <2>2, Zenon DEF Reading
  <2> QED
    BY <2>3
<1> QED
  BY <1>3, <1>4, <1>7, <1>8, <1>10, <1>11 DEF s, t, op

\* A push is undone by Tail.
LEMMA TailConcat ==
  ASSUME NEW S, NEW s \in Seq(S), NEW e \in S
  PROVE  Head(<<e>> \o s) = e /\ Tail(<<e>> \o s) = s
<1>1. /\ <<e>> \o s \in Seq(S) /\ Len(<<e>> \o s) = Len(s) + 1 /\ (<<e>> \o s)[1] = e
      /\ \A i \in 1 .. Len(s) : (<<e>> \o s)[i + 1] = s[i]
      /\ <<e>> \o s # <<>>
  BY Pushed
<1> DEFINE t == <<e>> \o s
<1>2. /\ t \in Seq(S) /\ Len(t) = Len(s) + 1 /\ t[1] = e /\ t # <<>>
      /\ \A i \in 1 .. Len(s) : t[i + 1] = s[i]
  BY <1>1
<1> HIDE DEF t
<1>3. /\ Head(t) = t[1] /\ Tail(t) \in Seq(S) /\ Len(Tail(t)) = Len(t) - 1
      /\ \A i \in 1 .. Len(t) - 1 : Tail(t)[i] = t[i + 1]
  BY <1>2, Popped
<1>4. Len(s) \in Nat /\ Len(t) - 1 = Len(s)
  BY <1>2
<1>5. Tail(t) = s
  BY <1>2, <1>3, <1>4, SeqEqual
<1> QED
  BY <1>2, <1>3, <1>5 DEF t

\* What is open innermost is a line that has opened it; then the same was open.
LEMMA SeenOpen ==
  ASSUME NEW ls \in Seq(Lines), NEW p \in 0 .. Len(ls), Seen(ls)[p].open # <<>>
  PROVE  LET h == Head(Seen(ls)[p].open)
         IN /\ h \in 1 .. p /\ ls[h].op \in Openings
            /\ ~Seen(ls)[h].mac /\ Seen(ls)[h].open = Seen(ls)[p].open
<1> DEFINE O(i) == Seen(ls)[i].open
           Good(i) == O(i) # <<>> => /\ Head(O(i)) \in 1 .. i /\ ls[Head(O(i))].op \in Openings
                                     /\ ~Seen(ls)[Head(O(i))].mac /\ O(Head(O(i))) = O(i)
           S == {k \in Nat : k <= Len(ls) => Good(k)}
<1>1. Len(ls) \in Nat
  OBVIOUS
<1>2. ASSUME NEW k \in Nat, \A j \in Nat : j < k => j \in S
      PROVE  k \in S
  <2>1. SUFFICES ASSUME k <= Len(ls), O(k) # <<>> PROVE Good(k)
    OBVIOUS
  <2>2. k # 0
    BY <2>1, SeenSteps DEF Fresh
  <2>3. k \in 1 .. Len(ls) /\ k - 1 \in Nat /\ k - 1 < k /\ k - 1 <= Len(ls)
    BY <1>1, <2>1, <2>2
  <2>4. /\ O(k - 1) \in Seq(1 .. Len(ls)) /\ O(k) \in Seq(1 .. Len(ls))
        /\ ls[k].op \in Openings /\ ~Seen(ls)[k - 1].mac =>
             O(k) = <<k>> \o O(k - 1) /\ ~Seen(ls)[k].mac
        /\ \/ ls[k].op \in Openings /\ ~Seen(ls)[k - 1].mac
           \/ O(k) = O(k - 1)
           \/ O(k) = IF O(k - 1) = <<>> THEN <<>> ELSE Tail(O(k - 1))
    BY <2>3, SeenNext
  <2>5. Good(k - 1)
    BY <1>2, <2>3
  <2>6. CASE ls[k].op \in Openings /\ ~Seen(ls)[k - 1].mac
    <3>1. O(k) = <<k>> \o O(k - 1) /\ ~Seen(ls)[k].mac
      BY <2>4, <2>6
    <3>2. Head(O(k)) = k
      <4> HIDE DEF O
      <4>1. (<<k>> \o O(k - 1))[1] = k /\ <<k>> \o O(k - 1) # <<>>
        BY <2>3, <2>4, Pushed
      <4> QED
        BY <2>4, <3>1, <4>1, Popped
    <3> QED
      BY <2>3, <2>6, <3>1, <3>2
  <2>7. CASE O(k) = O(k - 1)
    <3> HIDE DEF O
    <3> QED
      BY <2>1, <2>3, <2>5, <2>7
  <2>8. CASE O(k - 1) # <<>> /\ O(k) = Tail(O(k - 1))
    <3> DEFINE h == Head(O(k - 1))
    <3>1. h \in 1 .. k - 1 /\ ls[h].op \in Openings /\ ~Seen(ls)[h].mac /\ O(h) = O(k - 1)
      BY <2>5, <2>8
    <3> HIDE DEF h
    <3>2. h \in 1 .. Len(ls) /\ h - 1 \in Nat /\ h - 1 < k /\ h - 1 <= Len(ls)
      BY <2>3, <3>1
    <3>3. O(h - 1) \in Seq(1 .. Len(ls)) /\ O(h) = <<h>> \o O(h - 1)
      <4>1. /\ O(h - 1) \in Seq(1 .. Len(ls))
            /\ Seen(ls)[h - 1].mac => Seen(ls)[h].mac \/ ls[h].op = "endm"
            /\ ls[h].op \in Openings /\ ~Seen(ls)[h - 1].mac => O(h) = <<h>> \o O(h - 1)
        BY <3>2, SeenNext
      <4>2. ls[h].op # "endm"
        BY <3>1 DEF Openings
      <4> QED
        BY <3>1, <4>1, <4>2
    <3>4. O(k) = O(h - 1)
      <4> HIDE DEF O
      <4>1. PICK s : s = O(h - 1)
        OBVIOUS
      <4>2. s \in Seq(1 .. Len(ls)) /\ h \in 1 .. Len(ls)
        BY <3>2, <3>3, <4>1
      <4>3. Tail(<<h>> \o s) = s
        BY ONLY <4>2, TailConcat
      <4> QED
        BY <2>8, <3>1, <3>3, <4>1, <4>3
    <3>5. Good(h - 1)
      BY <1>2, <3>2
    <3> HIDE DEF O
    <3> QED
      BY <2>1, <2>3, <3>1, <3>4, <3>5
  <2> HIDE DEF O
  <2> QED
    BY <2>1, <2>4, <2>6, <2>7, <2>8
<1> HIDE DEF S
<1>3. \A k \in Nat : k \in S
  BY <1>2, Complete
<1>4. Good(p)
  BY <1>1, <1>3 DEF S
<1> QED
  BY <1>4

\* After a definition the same is open as before.
LEMMA SeenDefinition ==
  ASSUME NEW ls \in Seq(Lines), NEW p \in 1 .. Len(ls), NEW to \in p + 1 .. Len(ls),
         ~Seen(ls)[p - 1].mac, ls[p].op = "mac", ls[to].op = "endm",
         \A j \in p + 1 .. to - 1 : ls[j].op # "endm"
  PROVE  Seen(ls)[to].open = Seen(ls)[p - 1].open /\ ~Seen(ls)[to].mac
<1> DEFINE Inside(k) == Seen(ls)[k].mac /\ Seen(ls)[k].open = Seen(ls)[p - 1].open
           S == {k \in Nat : p + k < to => Inside(p + k)}
<1>1. Len(ls) \in Nat /\ p \in Nat /\ to \in Nat
  OBVIOUS
<1>2. Inside(p)
  <2>1. ls[p].op \notin Openings \cup Closings
    BY DEF Openings, Closings
  <2>2. ~Seen(ls)[p - 1].mac /\ ls[p].op \notin Openings \cup Closings =>
          Seen(ls)[p].open = Seen(ls)[p - 1].open /\ (Seen(ls)[p].mac <=> ls[p].op = "mac")
    BY SeenNext
  <2> QED
    BY <2>1, <2>2
<1>3. 0 \in S
  BY <1>1, <1>2
<1>4. ASSUME NEW k \in Nat, k \in S PROVE k + 1 \in S
  <2> DEFINE q == p + (k + 1)
  <2>1. SUFFICES ASSUME q < to PROVE Inside(q)
    OBVIOUS
  <2>2. q \in 1 .. Len(ls) /\ q - 1 = p + k /\ p + k < to /\ q \in p + 1 .. to - 1
    BY <1>1, <2>1
  <2> HIDE DEF q
  <2>3. Inside(q - 1)
    BY <1>4, <2>2
  <2>4. Seen(ls)[q - 1].mac =>
          Seen(ls)[q].open = Seen(ls)[q - 1].open /\ (Seen(ls)[q].mac <=> ls[q].op # "endm")
    BY <2>2, SeenNext
  <2> QED
    BY <2>2, <2>3, <2>4
<1> HIDE DEF S
<1>5. \A k \in Nat : k \in S
  BY <1>3, <1>4, Inductive
<1>6. Inside(to - 1)
  <2>1. to - 1 - p \in Nat /\ p + (to - 1 - p) = to - 1 /\ to - 1 < to
    BY <1>1
  <2>2. to - 1 - p \in S
    BY <1>5, <2>1
  <2> QED
    BY <2>1, <2>2 DEF S
<1>7. Seen(ls)[to - 1].mac =>
        Seen(ls)[to].open = Seen(ls)[to - 1].open /\ (Seen(ls)[to].mac <=> ls[to].op # "endm")
  <2>1. to \in 1 .. Len(ls)
    BY <1>1
  <2> QED
    BY <2>1, SeenNext
<1> QED
  BY <1>6, <1>7

-----------------------------------------------------------------------------
(***************************************************************************)
(* The entries of one frame                                                *)
(***************************************************************************)

\* The entry e of what line o has opened, with the loops C from it on: a loop that is
\* repeated has one of its own, which leads back to the line after o.
Linked(op, o, e, C, D) ==
  IF op = "repeat" /\ e.xtrue
  THEN e.acctrue /\ C # <<>> /\ Head(C).pos = o + 1 /\ Tail(C) = D
  ELSE C = D

\* The entries I and the loops R are those of the open lines s, in that order.
Corresponds(ls, s, I, R) ==
  /\ Len(I) = Len(s)
  /\ \E C \in Seq(Seq(LoopNode)) :
       /\ Len(C) = Len(s) + 1 /\ C[1] = R /\ C[Len(s) + 1] = <<>>
       /\ \A m \in 1 .. Len(s) : Linked(ls[s[m]].op, s[m], I[m], C[m], C[m + 1])

\* Nothing is open.
LEMMA NothingOpen ==
  ASSUME NEW ls, NEW I \in Seq(IfNode), NEW R \in Seq(LoopNode)
  PROVE  Corresponds(ls, <<>>, I, R) <=> I = <<>> /\ R = <<>>
<1>1. Len(<<>>) = 0 /\ (Len(I) = 0 <=> I = <<>>)
  OBVIOUS
<1>2. ASSUME Corresponds(ls, <<>>, I, R)
      PROVE  I = <<>> /\ R = <<>>
  <2>1. PICK C \in Seq(Seq(LoopNode)) : C[1] = R /\ C[Len(<<>>) + 1] = <<>>
    BY <1>2 DEF Corresponds
  <2>2. Len(I) = 0
    BY <1>1, <1>2 DEF Corresponds
  <2> QED
    BY <1>1, <2>1, <2>2
<1>3. ASSUME I = <<>>, R = <<>>
      PROVE  Corresponds(ls, <<>>, I, R)
  <2>1. <<>> \in Seq(LoopNode)
    OBVIOUS
  <2> DEFINE C == << <<>> >>
  <2>2. C \in Seq(Seq(LoopNode)) /\ Len(C) = 1 /\ C[1] = <<>>
    BY <2>1
  <2> HIDE DEF C
  <2>3. \A m \in 1 .. 0 : Linked(ls[<<>>[m]].op, <<>>[m], I[m], C[m], C[m + 1])
    OBVIOUS
  <2> QED
    BY <1>1, <1>3, <2>2, <2>3 DEF Corresponds
<1> QED
  BY <1>2, <1>3

\* One more line is open.
LEMMA OneMoreOpen ==
  ASSUME NEW ls, NEW n \in Nat, NEW s \in Seq(1 .. n), NEW I \in Seq(IfNode),
         NEW R \in Seq(LoopNode), Corresponds(ls, s, I, R),
         NEW o \in 1 .. n, NEW e \in IfNode, NEW Q \in Seq(LoopNode),
         Linked(ls[o].op, o, e, Q, R)
  PROVE  Corresponds(ls, <<o>> \o s, <<e>> \o I, Q)
<1>1. PICK C \in Seq(Seq(LoopNode)) :
        /\ Len(C) = Len(s) + 1 /\ C[1] = R /\ C[Len(s) + 1] = <<>>
        /\ \A m \in 1 .. Len(s) : Linked(ls[s[m]].op, s[m], I[m], C[m], C[m + 1])
  BY DEF Corresponds
<1> DEFINE t == <<o>> \o s
           J == <<e>> \o I
           D == <<Q>> \o C
<1>2. /\ Len(t) = Len(s) + 1 /\ t[1] = o /\ \A i \in 1 .. Len(s) : t[i + 1] = s[i]
      /\ Len(J) = Len(I) + 1 /\ J[1] = e /\ \A i \in 1 .. Len(I) : J[i + 1] = I[i]
      /\ D \in Seq(Seq(LoopNode)) /\ Len(D) = Len(C) + 1 /\ D[1] = Q
      /\ \A i \in 1 .. Len(C) : D[i + 1] = C[i]
  <2>1. /\ Len(t) = Len(s) + 1 /\ t[1] = o /\ \A i \in 1 .. Len(s) : t[i + 1] = s[i]
    BY Pushed
  <2>2. /\ Len(J) = Len(I) + 1 /\ J[1] = e /\ \A i \in 1 .. Len(I) : J[i + 1] = I[i]
    BY Pushed
  <2>3. /\ D \in Seq(Seq(LoopNode)) /\ Len(D) = Len(C) + 1 /\ D[1] = Q
        /\ \A i \in 1 .. Len(C) : D[i + 1] = C[i]
    <3>1. PICK E : E = Seq(LoopNode)
      OBVIOUS
    <3>2. C \in Seq(E) /\ Q \in E
      BY <3>1
    <3>3. /\ <<Q>> \o C \in Seq(E) /\ Len(<<Q>> \o C) = Len(C) + 1 /\ (<<Q>> \o C)[1] = Q
          /\ \A i \in 1 .. Len(C) : (<<Q>> \o C)[i + 1] = C[i]
      BY ONLY <3>2, Pushed
    <3> QED
      BY <3>1, <3>3
  <2> QED
    BY <2>1, <2>2, <2>3
<1>3. Len(s) \in Nat /\ Len(I) = Len(s)
  BY DEF Corresponds
<1> HIDE DEF t, J, D
<1>4. ASSUME NEW m \in 1 .. Len(t)
      PROVE  Linked(ls[t[m]].op, t[m], J[m], D[m], D[m + 1])
  <2>1. CASE m = 1
    <3>1. D[1 + 1] = C[1]
      <4>1. 1 \in 1 .. Len(C)
        BY ONLY <1>1, <1>3
      <4> QED
        BY ONLY <1>2, <4>1
    <3>2. Linked(ls[o].op, o, e, Q, R)
      OBVIOUS
    <3> QED
      BY <1>1, <1>2, <2>1, <3>1, <3>2
  <2>2. CASE m # 1
    <3> DEFINE k == m - 1
    <3>1. k \in 1 .. Len(s) /\ k \in 1 .. Len(C) /\ k + 1 \in 1 .. Len(C) /\ m = k + 1
      BY <1>1, <1>2, <1>3, <2>2
    <3> HIDE DEF k
    <3>2. /\ t[m] = s[k] /\ J[m] = I[k] /\ D[m] = C[k] /\ D[m + 1] = C[k + 1]
      BY <1>2, <1>3, <3>1
    <3>3. Linked(ls[s[k]].op, s[k], I[k], C[k], C[k + 1])
      BY <1>1, <3>1
    <3> QED
      BY <3>2, <3>3
  <2> QED
    BY <2>1, <2>2
<1>5. D[Len(t) + 1] = <<>>
  <2>1. Len(t) \in 1 .. Len(C) /\ Len(t) = Len(s) + 1
    BY <1>1, <1>2, <1>3
  <2> QED
    BY <1>1, <1>2, <2>1
<1>6. Len(J) = Len(t) /\ Len(D) = Len(t) + 1
  BY <1>1, <1>2, <1>3
<1>7. Corresponds(ls, t, J, Q)
  BY <1>2, <1>4, <1>5, <1>6 DEF Corresponds
<1> QED
  BY <1>7 DEF t, J

\* The innermost of the open lines, and the others.
LEMMA OneLessOpen ==
  ASSUME NEW ls, NEW n \in Nat, NEW s \in Seq(1 .. n), NEW I \in Seq(IfNode),
         NEW R \in Seq(LoopNode), Corresponds(ls, s, I, R), s # <<>>
  PROVE  /\ I # <<>> /\ Head(s) \in 1 .. n
         /\ \E Q \in Seq(LoopNode) :
              /\ Linked(ls[Head(s)].op, Head(s), Head(I), R, Q)
              /\ Corresponds(ls, Tail(s), Tail(I), Q)
<1>1. PICK C \in Seq(Seq(LoopNode)) :
        /\ Len(C) = Len(s) + 1 /\ C[1] = R /\ C[Len(s) + 1] = <<>>
        /\ \A m \in 1 .. Len(s) : Linked(ls[s[m]].op, s[m], I[m], C[m], C[m + 1])
  BY DEF Corresponds
<1>2. Len(I) = Len(s) /\ Len(s) \in Nat \ {0} /\ Len(C) \in Nat \ {0}
  BY <1>1 DEF Corresponds
<1>3. I # <<>> /\ C # <<>>
  BY <1>2
<1> DEFINE t == Tail(s)
           J == Tail(I)
           D == Tail(C)
<1>4. /\ Head(s) = s[1] /\ s[1] \in 1 .. n /\ t \in Seq(1 .. n) /\ Len(t) = Len(s) - 1
      /\ \A i \in 1 .. Len(s) - 1 : t[i] = s[i + 1]
  BY Popped
<1>5. /\ Head(I) = I[1] /\ J \in Seq(IfNode) /\ Len(J) = Len(I) - 1
      /\ \A i \in 1 .. Len(I) - 1 : J[i] = I[i + 1]
  BY <1>3, Popped
<1>6. /\ D \in Seq(Seq(LoopNode)) /\ Len(D) = Len(C) - 1
      /\ \A i \in 1 .. Len(C) - 1 : D[i] = C[i + 1]
  BY <1>3, Popped
<1> HIDE DEF t, J, D
<1>7. D[1] = C[2] /\ D[1] \in Seq(LoopNode)
  <2>1. 1 \in 1 .. Len(C) - 1 /\ 1 \in 1 .. Len(D) /\ 1 + 1 = 2
    BY <1>1, <1>2, <1>6
  <2>2. D[1] \in Seq(LoopNode)
    BY <1>6, <2>1, ElementOfSeq
  <2> QED
    BY <1>6, <2>1, <2>2
<1>8. Linked(ls[Head(s)].op, Head(s), Head(I), R, D[1])
  <2>1. 1 \in 1 .. Len(s) /\ 1 + 1 = 2
    BY <1>2
  <2>2. Linked(ls[s[1]].op, s[1], I[1], C[1], C[1 + 1])
    BY <1>1, <2>1
  <2> QED
    BY <1>1, <1>4, <1>5, <1>7, <2>1, <2>2
<1>9. Corresponds(ls, t, J, D[1])
  <2>1. Len(J) = Len(t) /\ Len(D) = Len(t) + 1
    BY <1>1, <1>2, <1>4, <1>5, <1>6
  <2>2. D[Len(t) + 1] = <<>>
    <3>1. Len(t) + 1 \in 1 .. Len(C) - 1 /\ (Len(t) + 1) + 1 = Len(s) + 1
      BY <1>1, <1>2, <1>4
    <3> QED
      BY <1>1, <1>6, <3>1
  <2>3. ASSUME NEW m \in 1 .. Len(t)
        PROVE  Linked(ls[t[m]].op, t[m], J[m], D[m], D[m + 1])
    <3> DEFINE k == m + 1
    <3>1. /\ k \in 1 .. Len(s) /\ m \in 1 .. Len(s) - 1 /\ m \in 1 .. Len(I) - 1
          /\ m \in 1 .. Len(C) - 1 /\ k \in 1 .. Len(C) - 1
      BY <1>1, <1>2, <1>4
    <3>2. t[m] = s[k] /\ J[m] = I[k] /\ D[m] = C[k] /\ D[k] = C[k + 1]
      BY <1>4, <1>5, <1>6, <3>1
    <3>3. Linked(ls[s[k]].op, s[k], I[k], C[k], C[k + 1])
      BY <1>1, <3>1
    <3> QED
      BY <3>2, <3>3
  <2> QED
    BY <1>6, <2>1, <2>2, <2>3 DEF Corresponds
<1> QED
  BY <1>3, <1>4, <1>7, <1>8, <1>9 DEF t, J

\* Every entry of a frame is marked as its own, and a loop leads back into its text.
Own(f, I, R) ==
  /\ \A i \in 1 .. Len(I) : I[i].file = f.addr
  /\ \A i \in 1 .. Len(R) : R[i].file = f.addr /\ R[i].macro = f.macro /\ R[i].text = f.text

\* A file without ELSE, or one that has ended, may have left anything.
Watched(ls, f) == f.macro \/ (HasElse(ls) /\ f.pos <= Len(ls))

Following(ls, f, I, R) ==
  /\ f.pos \in 1 .. Len(ls) + 1
  /\ ~Seen(ls)[f.pos - 1].mac
  /\ Corresponds(ls, Seen(ls)[f.pos - 1].open, I, R)

\* The frame f, which reads ls, has the entries I and the loops R.
Has(ls, f, I, R) == Own(f, I, R) /\ (Watched(ls, f) => Following(ls, f, I, R))

-----------------------------------------------------------------------------
(***************************************************************************)
(* The entries of all frames                                               *)
(***************************************************************************)

TextOf(ms, files, f) == IF f.macro THEN ms[f.text].strlist ELSE files[f.text]

\* P and Q are S and T with the entries and the loops of f on top.
OnTop(ms, files, f, P, Q, S, T) ==
  \E I \in Seq(IfNode), R \in Seq(LoopNode) :
    P = I \o S /\ Q = R \o T /\ Has(TextOf(ms, files, f), f, I, R)

\* Ifstack and Reploop from each frame on.
Chain(ms, files, fs, A, B) ==
  /\ A \in Seq(Seq(IfNode)) /\ Len(A) = Len(fs) + 1 /\ A[Len(fs) + 1] = <<BaseIf>>
  /\ B \in Seq(Seq(LoopNode)) /\ Len(B) = Len(fs) + 1 /\ B[Len(fs) + 1] = <<>>
  /\ \A k \in 1 .. Len(fs) : OnTop(ms, files, fs[k], A[k], B[k], A[k + 1], B[k + 1])

\* The stacks hold the entries of the frames, in their order, and the base.
Stacked(ms, files, fs, ifs, loops) ==
  \E A, B : Chain(ms, files, fs, A, B) /\ A[1] = ifs /\ B[1] = loops

\* They are stacks.
LEMMA StackedTyped ==
  ASSUME NEW ms, NEW files, NEW fs \in Seq(Frame), NEW P, NEW Q, Stacked(ms, files, fs, P, Q)
  PROVE  P \in Seq(IfNode) /\ Q \in Seq(LoopNode)
<1>1. PICK A, B : Chain(ms, files, fs, A, B) /\ A[1] = P /\ B[1] = Q
  BY DEF Stacked
<1>2. /\ A \in Seq(Seq(IfNode)) /\ Len(A) = Len(fs) + 1
      /\ B \in Seq(Seq(LoopNode)) /\ Len(B) = Len(fs) + 1
  BY <1>1 DEF Chain
<1>3. 1 \in 1 .. Len(A) /\ 1 \in 1 .. Len(B)
  BY <1>2
<1>4. A[1] \in Seq(IfNode)
  BY <1>2, <1>3, ElementOfSeq
<1>5. B[1] \in Seq(LoopNode)
  BY <1>2, <1>3, ElementOfSeq
<1> QED
  BY <1>1, <1>4, <1>5

\* No frames.
LEMMA StackedNone ==
  ASSUME NEW ms, NEW files, NEW P, NEW Q
  PROVE  Stacked(ms, files, <<>>, P, Q) <=> P = <<BaseIf>> /\ Q = <<>>
<1>1. Len(<<>>) = 0 /\ 0 + 1 = 1
  OBVIOUS
<1>2. ASSUME Stacked(ms, files, <<>>, P, Q)
      PROVE  P = <<BaseIf>> /\ Q = <<>>
  BY <1>1, <1>2 DEF Stacked, Chain
<1>3. ASSUME P = <<BaseIf>>, Q = <<>>
      PROVE  Stacked(ms, files, <<>>, P, Q)
  <2> DEFINE A == <<P>>
             B == <<Q>>
  <2>1. P \in Seq(IfNode) /\ Q \in Seq(LoopNode)
    BY <1>3 DEF BaseIf, IfNode
  <2>2. A \in Seq(Seq(IfNode)) /\ Len(A) = 1 /\ A[1] = P
    BY <2>1
  <2>3. B \in Seq(Seq(LoopNode)) /\ Len(B) = 1 /\ B[1] = Q
    BY <2>1
  <2> HIDE DEF A, B
  <2>4. Chain(ms, files, <<>>, A, B)
    BY <1>1, <1>3, <2>2, <2>3 DEF Chain
  <2> QED
    BY <2>2, <2>3, <2>4 DEF Stacked
<1> QED
  BY <1>2, <1>3

\* One more frame.
LEMMA StackedPush ==
  ASSUME NEW ms, NEW files, NEW fs \in Seq(Frame), NEW S, NEW T, Stacked(ms, files, fs, S, T),
         NEW f \in Frame, NEW I \in Seq(IfNode), NEW R \in Seq(LoopNode),
         Has(TextOf(ms, files, f), f, I, R)
  PROVE  Stacked(ms, files, <<f>> \o fs, I \o S, R \o T)
<1>1. PICK A, B : Chain(ms, files, fs, A, B) /\ A[1] = S /\ B[1] = T
  BY DEF Stacked
<1>2. /\ A \in Seq(Seq(IfNode)) /\ Len(A) = Len(fs) + 1 /\ A[Len(fs) + 1] = <<BaseIf>>
      /\ B \in Seq(Seq(LoopNode)) /\ Len(B) = Len(fs) + 1 /\ B[Len(fs) + 1] = <<>>
      /\ \A k \in 1 .. Len(fs) : OnTop(ms, files, fs[k], A[k], B[k], A[k + 1], B[k + 1])
  BY <1>1 DEF Chain
<1>3. PICK P, Q : P = I \o S /\ Q = R \o T
  OBVIOUS
<1> DEFINE gs == <<f>> \o fs
           C  == <<P>> \o A
           D  == <<Q>> \o B
<1>4. P \in Seq(IfNode) /\ Q \in Seq(LoopNode)
  BY <1>3, StackedTyped, ConcatProperties
<1>5. OnTop(ms, files, f, P, Q, S, T)
  BY <1>3 DEF OnTop
<1>6. /\ Len(gs) = Len(fs) + 1 /\ gs[1] = f /\ \A i \in 1 .. Len(fs) : gs[i + 1] = fs[i]
  BY Pushed
<1> HIDE DEF gs
<1>7. /\ C \in Seq(Seq(IfNode)) /\ Len(C) = Len(A) + 1 /\ C[1] = P
      /\ \A i \in 1 .. Len(A) : C[i + 1] = A[i]
  <2>1. PICK E : E = Seq(IfNode)
    OBVIOUS
  <2>2. A \in Seq(E) /\ P \in E
    BY <1>2, <1>4, <2>1
  <2>3. /\ <<P>> \o A \in Seq(E) /\ Len(<<P>> \o A) = Len(A) + 1 /\ (<<P>> \o A)[1] = P
        /\ \A i \in 1 .. Len(A) : (<<P>> \o A)[i + 1] = A[i]
    BY ONLY <2>2, Pushed
  <2> QED
    BY <2>1, <2>3
<1>8. /\ D \in Seq(Seq(LoopNode)) /\ Len(D) = Len(B) + 1 /\ D[1] = Q
      /\ \A i \in 1 .. Len(B) : D[i + 1] = B[i]
  <2>1. PICK E : E = Seq(LoopNode)
    OBVIOUS
  <2>2. B \in Seq(E) /\ Q \in E
    BY <1>2, <1>4, <2>1
  <2>3. /\ <<Q>> \o B \in Seq(E) /\ Len(<<Q>> \o B) = Len(B) + 1 /\ (<<Q>> \o B)[1] = Q
        /\ \A i \in 1 .. Len(B) : (<<Q>> \o B)[i + 1] = B[i]
    BY ONLY <2>2, Pushed
  <2> QED
    BY <2>1, <2>3
<1> HIDE DEF C, D
<1>9. Len(fs) \in Nat
  OBVIOUS
<1>10. ASSUME NEW k \in 1 .. Len(gs)
      PROVE  OnTop(ms, files, gs[k], C[k], D[k], C[k + 1], D[k + 1])
  <2>1. CASE k = 1
    <3>1. C[1 + 1] = S /\ D[1 + 1] = T
      BY <1>1, <1>2, <1>7, <1>8, <1>9
    <3> QED
      BY <1>5, <1>6, <1>7, <1>8, <2>1, <3>1
  <2>2. CASE k # 1
    <3> DEFINE j == k - 1
    <3>1. /\ j \in 1 .. Len(fs) /\ j \in 1 .. Len(A) /\ j + 1 \in 1 .. Len(A)
          /\ j \in 1 .. Len(B) /\ j + 1 \in 1 .. Len(B) /\ k = j + 1
      BY <1>2, <1>6, <1>9, <2>2
    <3> HIDE DEF j
    <3>2. /\ gs[k] = fs[j] /\ C[k] = A[j] /\ C[k + 1] = A[j + 1]
          /\ D[k] = B[j] /\ D[k + 1] = B[j + 1]
      BY <1>6, <1>7, <1>8, <3>1
    <3>3. OnTop(ms, files, fs[j], A[j], B[j], A[j + 1], B[j + 1])
      BY <1>2, <3>1
    <3> QED
      BY <3>2, <3>3
  <2> QED
    BY <2>1, <2>2
<1>11. /\ Len(C) = Len(gs) + 1 /\ Len(D) = Len(gs) + 1
       /\ C[Len(gs) + 1] = <<BaseIf>> /\ D[Len(gs) + 1] = <<>>
  <2>1. Len(fs) + 1 \in 1 .. Len(A) /\ Len(fs) + 1 \in 1 .. Len(B)
    BY <1>2, <1>9
  <2> QED
    BY <1>2, <1>6, <1>7, <1>8, <2>1
<1>12. Chain(ms, files, gs, C, D)
  BY <1>7, <1>8, <1>10, <1>11 DEF Chain
<1>13. Stacked(ms, files, gs, P, Q)
  BY <1>7, <1>8, <1>12 DEF Stacked
<1> QED
  BY <1>3, <1>13 DEF gs

\* The entries of the frame on top, and those of the others.
Parted(ms, files, fs, P, Q) ==
  \E I \in Seq(IfNode), R \in Seq(LoopNode), S \in Seq(IfNode), T \in Seq(LoopNode) :
    /\ P = I \o S /\ Q = R \o T
    /\ Has(TextOf(ms, files, fs[1]), fs[1], I, R)
    /\ Stacked(ms, files, Tail(fs), S, T)

\* A stack can be parted.
LEMMA StackedPop ==
  ASSUME NEW ms, NEW files, NEW fs \in Seq(Frame), fs # <<>>, NEW P, NEW Q,
         Stacked(ms, files, fs, P, Q)
  PROVE  Parted(ms, files, fs, P, Q)
<1>1. PICK A, B : Chain(ms, files, fs, A, B) /\ A[1] = P /\ B[1] = Q
  BY DEF Stacked
<1>2. /\ A \in Seq(Seq(IfNode)) /\ Len(A) = Len(fs) + 1 /\ A[Len(fs) + 1] = <<BaseIf>>
      /\ B \in Seq(Seq(LoopNode)) /\ Len(B) = Len(fs) + 1 /\ B[Len(fs) + 1] = <<>>
      /\ \A k \in 1 .. Len(fs) : OnTop(ms, files, fs[k], A[k], B[k], A[k + 1], B[k + 1])
  BY <1>1 DEF Chain
<1> DEFINE gs == Tail(fs)
           C  == Tail(A)
           D  == Tail(B)
<1>3. /\ Len(fs) \in Nat \ {0} /\ gs \in Seq(Frame) /\ Len(gs) = Len(fs) - 1
      /\ \A i \in 1 .. Len(fs) - 1 : gs[i] = fs[i + 1]
  BY Popped
<1>4. A # <<>> /\ B # <<>>
  BY <1>2, <1>3
<1>5. /\ C \in Seq(Seq(IfNode)) /\ Len(C) = Len(A) - 1
      /\ \A i \in 1 .. Len(A) - 1 : C[i] = A[i + 1]
  BY <1>2, <1>4, Popped
<1>6. /\ D \in Seq(Seq(LoopNode)) /\ Len(D) = Len(B) - 1
      /\ \A i \in 1 .. Len(B) - 1 : D[i] = B[i + 1]
  BY <1>2, <1>4, Popped
<1> HIDE DEF gs, C, D
<1>7. ASSUME NEW k \in 1 .. Len(gs)
      PROVE  OnTop(ms, files, gs[k], C[k], D[k], C[k + 1], D[k + 1])
  <2> DEFINE j == k + 1
  <2>1. /\ j \in 1 .. Len(fs) /\ k \in 1 .. Len(fs) - 1
        /\ k \in 1 .. Len(A) - 1 /\ j \in 1 .. Len(A) - 1
        /\ k \in 1 .. Len(B) - 1 /\ j \in 1 .. Len(B) - 1
    BY <1>2, <1>3
  <2>2. /\ gs[k] = fs[j] /\ C[k] = A[j] /\ C[j] = A[j + 1] /\ D[k] = B[j] /\ D[j] = B[j + 1]
    BY <1>3, <1>5, <1>6, <2>1
  <2>3. OnTop(ms, files, fs[j], A[j], B[j], A[j + 1], B[j + 1])
    BY <1>2, <2>1
  <2> QED
    BY <2>2, <2>3
<1>8. /\ Len(C) = Len(gs) + 1 /\ Len(D) = Len(gs) + 1
      /\ C[Len(gs) + 1] = <<BaseIf>> /\ D[Len(gs) + 1] = <<>>
  <2>1. /\ Len(gs) + 1 \in 1 .. Len(A) - 1 /\ Len(gs) + 1 \in 1 .. Len(B) - 1
        /\ (Len(gs) + 1) + 1 = Len(fs) + 1
    BY <1>2, <1>3
  <2>2. C[Len(gs) + 1] = <<BaseIf>>
    BY <1>2, <1>5, <2>1
  <2>3. D[Len(gs) + 1] = <<>>
    BY <1>2, <1>6, <2>1
  <2> QED
    BY <1>2, <1>3, <1>5, <1>6, <2>2, <2>3
<1>9. Chain(ms, files, gs, C, D)
  BY <1>5, <1>6, <1>7, <1>8 DEF Chain
<1>10. Stacked(ms, files, gs, C[1], D[1])
  BY <1>9 DEF Stacked
<1>11. OnTop(ms, files, fs[1], P, Q, C[1], D[1])
  <2>1. 1 \in 1 .. Len(fs) /\ 1 \in 1 .. Len(A) - 1 /\ 1 \in 1 .. Len(B) - 1
    BY <1>2, <1>3
  <2>2. OnTop(ms, files, fs[1], A[1], B[1], A[1 + 1], B[1 + 1])
    BY <1>2, <2>1
  <2> QED
    BY <1>1, <1>5, <1>6, <2>1, <2>2
<1>12. C[1] \in Seq(IfNode) /\ D[1] \in Seq(LoopNode)
  BY <1>3, <1>10, StackedTyped
<1>13. PICK I \in Seq(IfNode), R \in Seq(LoopNode) :
         P = I \o C[1] /\ Q = R \o D[1] /\ Has(TextOf(ms, files, fs[1]), fs[1], I, R)
  BY <1>11 DEF OnTop
<1> QED
  BY <1>10, <1>12, <1>13 DEF gs, Parted

\* The texts of the frames are all that matters.
LEMMA StackedTexts ==
  ASSUME NEW ms, NEW ns, NEW files, NEW fs \in Seq(Frame), NEW P, NEW Q,
         Stacked(ms, files, fs, P, Q),
         \A k \in 1 .. Len(fs) : TextOf(ns, files, fs[k]) = TextOf(ms, files, fs[k])
  PROVE  Stacked(ns, files, fs, P, Q)
<1>1. PICK A, B : Chain(ms, files, fs, A, B) /\ A[1] = P /\ B[1] = Q
  BY DEF Stacked
<1>2. ASSUME NEW k \in 1 .. Len(fs)
      PROVE  OnTop(ns, files, fs[k], A[k], B[k], A[k + 1], B[k + 1])
  <2>1. OnTop(ms, files, fs[k], A[k], B[k], A[k + 1], B[k + 1])
    BY <1>1 DEF Chain
  <2>2. TextOf(ns, files, fs[k]) = TextOf(ms, files, fs[k])
    OBVIOUS
  <2> QED
    BY <2>1, <2>2, Zenon DEF OnTop
<1>3. Chain(ns, files, fs, A, B)
  BY <1>1, <1>2 DEF Chain
<1> QED
  BY <1>1, <1>3 DEF Stacked

\* The entry of an address is one of the j-th frame, or of none.
Mark(fs, j, a) == IF j = Len(fs) + 1 THEN a = Null ELSE a = fs[j].addr

\* The entries of a stack are those of the frames from the k-th on, in their order.
Placed(fs, k, stack) ==
  \E place \in [1 .. Len(stack) -> k .. Len(fs) + 1] :
    /\ \A i \in 1 .. Len(stack) : Mark(fs, place[i], stack[i].file)
    /\ \A i \in 2 .. Len(stack) : place[i - 1] <= place[i]

\* The entries of a frame are put on those of the frames below.
LEMMA PlacedPush ==
  ASSUME NEW fs \in Seq(Frame), NEW k \in 1 .. Len(fs), NEW E, NEW S \in Seq(E),
         NEW I \in Seq(E), Placed(fs, k + 1, S),
         \A i \in 1 .. Len(I) : I[i].file = fs[k].addr
  PROVE  Placed(fs, k, I \o S)
<1>1. PICK place \in [1 .. Len(S) -> k + 1 .. Len(fs) + 1] :
        /\ \A i \in 1 .. Len(S) : Mark(fs, place[i], S[i].file)
        /\ \A i \in 2 .. Len(S) : place[i - 1] <= place[i]
  BY DEF Placed
<1>2. PICK n, m : n = Len(I) /\ m = Len(S) /\ n \in Nat /\ m \in Nat
  <2>1. Len(I) \in Nat /\ Len(S) \in Nat
    BY LenProperties
  <2> QED
    BY <2>1
<1>3. PICK P : P = I \o S
  OBVIOUS
<1>4. /\ Len(P) = n + m
      /\ \A i \in 1 .. n + m : P[i] = IF i <= n THEN I[i] ELSE S[i - n]
  BY <1>2, <1>3, ConcatProperties
<1> DEFINE all == [i \in 1 .. n + m |-> IF i <= n THEN k ELSE place[i - n]]
<1>5. \A i \in 1 .. n + m : i <= n => all[i] = k
  OBVIOUS
<1>6. ASSUME NEW i \in 1 .. n + m, ~(i <= n)
      PROVE  all[i] = place[i - n] /\ i - n \in 1 .. m /\ all[i] \in k + 1 .. Len(fs) + 1
  <2>1. i - n \in 1 .. m
    BY <1>2, <1>6
  <2>2. place[i - n] \in k + 1 .. Len(fs) + 1
    BY <1>1, <1>2, <2>1
  <2>3. all[i] = place[i - n]
    BY <1>6
  <2> QED
    BY <2>1, <2>2, <2>3
<1>7. k \in Nat /\ k <= Len(fs) /\ Len(fs) \in Nat
  OBVIOUS
<1>8. all \in [1 .. n + m -> k .. Len(fs) + 1]
  BY <1>5, <1>6, <1>7
<1> HIDE DEF all
<1>9. ASSUME NEW i \in 1 .. n + m
      PROVE  Mark(fs, all[i], P[i].file)
  <2>1. CASE i <= n
    <3>1. i \in 1 .. Len(I) /\ P[i] = I[i]
      BY <1>2, <1>4, <2>1
    <3>2. all[i] = k /\ k # Len(fs) + 1
      BY <1>5, <1>7, <2>1
    <3> QED
      BY <3>1, <3>2 DEF Mark
  <2>2. CASE ~(i <= n)
    <3>1. P[i] = S[i - n] /\ i - n \in 1 .. Len(S) /\ all[i] = place[i - n]
      BY <1>2, <1>4, <1>6, <2>2
    <3> QED
      BY <1>1, <3>1
  <2> QED
    BY <2>1, <2>2
<1>10. ASSUME NEW i \in 2 .. n + m
       PROVE  all[i - 1] <= all[i]
  <2>1. i \in 1 .. n + m /\ i - 1 \in 1 .. n + m
    BY <1>2
  <2>2. CASE i - 1 <= n
    <3>1. all[i - 1] = k /\ all[i] \in k .. Len(fs) + 1
      BY <1>5, <1>8, <2>1, <2>2
    <3> QED
      BY <1>7, <3>1
  <2>3. CASE ~(i - 1 <= n)
    <3>1. /\ all[i] = place[i - n] /\ all[i - 1] = place[i - 1 - n]
          /\ i - n \in 2 .. m /\ i - 1 - n = (i - n) - 1
      <4>1. ~(i <= n) /\ i - n \in 2 .. m /\ i - 1 - n = (i - n) - 1
        BY <1>2, <2>1, <2>3
      <4>2. all[i] = place[i - n]
        BY <1>6, <2>1, <4>1
      <4>3. all[i - 1] = place[i - 1 - n]
        BY <1>6, <2>1, <2>3
      <4> QED
        BY <4>1, <4>2, <4>3
    <3>2. place[(i - n) - 1] <= place[i - n]
      BY <1>1, <1>2, <3>1
    <3> QED
      BY <3>1, <3>2
  <2> QED
    BY <2>2, <2>3
<1>11. Placed(fs, k, P)
  BY <1>2, <1>4, <1>8, <1>9, <1>10 DEF Placed
<1> QED
  BY <1>3, <1>11

\* So it is with all entries.
LEMMA StackedPlaced ==
  ASSUME NEW ms, NEW files, NEW fs \in Seq(Frame), NEW P, NEW Q, Stacked(ms, files, fs, P, Q)
  PROVE  Placed(fs, 1, P) /\ Placed(fs, 1, Q)
<1>1. PICK A, B : Chain(ms, files, fs, A, B) /\ A[1] = P /\ B[1] = Q
  BY DEF Stacked
<1>2. /\ A \in Seq(Seq(IfNode)) /\ Len(A) = Len(fs) + 1 /\ A[Len(fs) + 1] = <<BaseIf>>
      /\ B \in Seq(Seq(LoopNode)) /\ Len(B) = Len(fs) + 1 /\ B[Len(fs) + 1] = <<>>
      /\ \A k \in 1 .. Len(fs) : OnTop(ms, files, fs[k], A[k], B[k], A[k + 1], B[k + 1])
  BY <1>1 DEF Chain
<1>3. PICK n : n = Len(fs) /\ n \in Nat
  OBVIOUS
<1> DEFINE Good(k) == Placed(fs, k, A[k]) /\ Placed(fs, k, B[k])
           S == {j \in Nat : j <= n => Good(n + 1 - j)}
<1>4. 0 \in S
  <2>1. Placed(fs, n + 1, A[n + 1])
    <3> DEFINE place == [i \in 1 .. 1 |-> n + 1]
    <3>1. Len(A[n + 1]) = 1 /\ A[n + 1][1].file = Null
      <4>1. A[n + 1] = <<BaseIf>>
        BY <1>2, <1>3
      <4>2. <<BaseIf>>[1] = BaseIf /\ Len(<<BaseIf>>) = 1 /\ BaseIf.file = Null
        BY DEF BaseIf
      <4> QED
        BY <4>1, <4>2
    <3>2. place \in [1 .. 1 -> n + 1 .. Len(fs) + 1] /\ place[1] = Len(fs) + 1
      BY <1>3
    <3> HIDE DEF place
    <3>3. \A i \in 1 .. 1 : Mark(fs, place[i], A[n + 1][i].file)
      BY <3>1, <3>2 DEF Mark
    <3>4. \A i \in 2 .. 1 : place[i - 1] <= place[i]
      OBVIOUS
    <3> QED
      BY <3>1, <3>2, <3>3, <3>4 DEF Placed
  <2>2. Placed(fs, n + 1, B[n + 1])
    <3> DEFINE place == [i \in 1 .. 0 |-> n + 1]
    <3>1. Len(B[n + 1]) = 0
      BY <1>2, <1>3
    <3>2. place \in [1 .. 0 -> n + 1 .. Len(fs) + 1]
      OBVIOUS
    <3> HIDE DEF place
    <3>3. \A i \in 1 .. 0 : Mark(fs, place[i], B[n + 1][i].file)
      OBVIOUS
    <3>4. \A i \in 2 .. 0 : place[i - 1] <= place[i]
      OBVIOUS
    <3> QED
      BY <3>1, <3>2, <3>3, <3>4 DEF Placed
  <2>3. n + 1 - 0 = n + 1
    BY <1>3
  <2> QED
    BY <2>1, <2>2, <2>3
<1>5. ASSUME NEW j \in Nat, j \in S
      PROVE  j + 1 \in S
  <2> DEFINE k == n + 1 - (j + 1)
  <2>1. SUFFICES ASSUME j + 1 <= n PROVE Good(k)
    OBVIOUS
  <2>2. /\ k \in 1 .. Len(fs) /\ k + 1 = n + 1 - j /\ j <= n
        /\ k \in 1 .. Len(A) /\ k + 1 \in 1 .. Len(A) /\ k \in 1 .. Len(B) /\ k + 1 \in 1 .. Len(B)
    <3>1. k \in 1 .. n /\ k + 1 = n + 1 - j /\ j <= n
      BY <1>3, <2>1
    <3> HIDE DEF k
    <3>2. k \in 1 .. n + 1 /\ k + 1 \in 1 .. n + 1
      BY <1>3, <3>1
    <3> QED
      BY <1>2, <1>3, <3>1, <3>2
  <2> HIDE DEF k
  <2>3. Good(k + 1)
    BY <1>5, <2>2
  <2>4. PICK I \in Seq(IfNode), R \in Seq(LoopNode) :
          /\ A[k] = I \o A[k + 1] /\ B[k] = R \o B[k + 1]
          /\ Has(TextOf(ms, files, fs[k]), fs[k], I, R)
    BY <1>2, <2>2 DEF OnTop
  <2>5. /\ \A i \in 1 .. Len(I) : I[i].file = fs[k].addr
        /\ \A i \in 1 .. Len(R) : R[i].file = fs[k].addr
    BY <2>4 DEF Has, Own
  <2>6. A[k + 1] \in Seq(IfNode)
    BY <1>2, <2>2, ElementOfSeq
  <2>7. B[k + 1] \in Seq(LoopNode)
    BY <1>2, <2>2, ElementOfSeq
  <2>8. Placed(fs, k, I \o A[k + 1])
    BY <2>2, <2>3, <2>5, <2>6, PlacedPush
  <2>9. Placed(fs, k, R \o B[k + 1])
    BY <2>2, <2>3, <2>5, <2>7, PlacedPush
  <2> QED
    BY <2>4, <2>8, <2>9
<1> HIDE DEF S
<1>6. n \in S
  BY <1>3, <1>4, <1>5, Inductive
<1>7. n + 1 - n = 1
  BY <1>3
<1>8. Good(1)
  BY <1>3, <1>6, <1>7 DEF S
<1> QED
  BY <1>1, <1>8

Distinct(fs) == \A j, k \in 1 .. Len(fs) : fs[j].addr = fs[k].addr => j = k

\* What is below the entries of the frame on top belongs to others.
LEMMA OthersBelow ==
  ASSUME NEW ms, NEW files, NEW fs \in Seq(Frame), fs # <<>>, Distinct(fs), NEW S, NEW T,
         Stacked(ms, files, Tail(fs), S, T), Null \notin Addresses
  PROVE  /\ \A i \in 1 .. Len(S) : S[i].file # fs[1].addr
         /\ \A i \in 1 .. Len(T) : T[i].file # fs[1].addr
<1> DEFINE gs == Tail(fs)
<1>1. /\ Len(fs) \in Nat \ {0} /\ fs[1] \in Frame /\ gs \in Seq(Frame) /\ Len(gs) = Len(fs) - 1
      /\ \A i \in 1 .. Len(fs) - 1 : gs[i] = fs[i + 1]
  BY Popped
<1>2. Placed(gs, 1, S) /\ Placed(gs, 1, T)
  BY <1>1, StackedPlaced
<1> HIDE DEF gs
<1>3. ASSUME NEW j \in 1 .. Len(gs) + 1, NEW a, Mark(gs, j, a)
      PROVE  a # fs[1].addr
  <2>1. CASE j = Len(gs) + 1
    <3>1. a = Null
      BY <1>3, <2>1 DEF Mark
    <3>2. fs[1].addr \in Addresses
      BY <1>1 DEF Frame
    <3> QED
      BY <3>1, <3>2
  <2>2. CASE j # Len(gs) + 1
    <3>1. a = gs[j].addr
      BY <1>3, <2>2 DEF Mark
    <3>2. j \in 1 .. Len(fs) - 1 /\ j + 1 \in 1 .. Len(fs) /\ 1 \in 1 .. Len(fs) /\ j + 1 # 1
      BY <1>1, <2>2
    <3>3. gs[j] = fs[j + 1]
      BY <1>1, <3>2
    <3> QED
      BY <3>1, <3>2, <3>3 DEF Distinct
  <2> QED
    BY <2>1, <2>2
<1>4. \A i \in 1 .. Len(S) : S[i].file # fs[1].addr
  BY <1>2, <1>3 DEF Placed
<1>5. \A i \in 1 .. Len(T) : T[i].file # fs[1].addr
  BY <1>2, <1>3 DEF Placed
<1> QED
  BY <1>4, <1>5

-----------------------------------------------------------------------------
(***************************************************************************)
(* What a line does to the entries of its frame                            *)
(***************************************************************************)

\* The text of f has the discipline of its kind.
Fits(ls, f) == IF f.macro THEN LeavesNothing(ls) ELSE HasElse(ls) => Paired(ls)

\* f, somewhere else in the same text.
Moved(f, g, p) == g.addr = f.addr /\ g.macro = f.macro /\ g.text = f.text /\ g.pos = p

\* A frame that is read on is watched only if it was.
LEMMA ReadOn ==
  ASSUME NEW ls \in Seq(Lines), NEW f, NEW g, NEW I \in Seq(IfNode), NEW R \in Seq(LoopNode),
         Own(f, I, R), f.pos \in 1 .. Len(ls), Moved(f, g, f.pos + 1),
         Watched(ls, f) => /\ ~Seen(ls)[f.pos].mac
                           /\ Corresponds(ls, Seen(ls)[f.pos].open, I, R)
  PROVE  Has(ls, g, I, R)
<1>1. PICK p : p = f.pos /\ p \in 1 .. Len(ls)
  OBVIOUS
<1>2. g.addr = f.addr /\ g.macro = f.macro /\ g.text = f.text /\ g.pos = p + 1
  BY <1>1 DEF Moved
<1>3. Own(g, I, R)
  BY <1>2 DEF Own
<1>4. p + 1 \in 1 .. Len(ls) + 1 /\ (p + 1) - 1 = p /\ (p + 1 <= Len(ls) => p <= Len(ls))
  <2>1. Len(ls) \in Nat
    BY LenProperties
  <2>2. PICK n \in Nat : n = Len(ls)
    BY <2>1
  <2>3. p \in 1 .. n
    BY <1>1, <2>2
  <2>4. p + 1 \in 1 .. n + 1 /\ (p + 1) - 1 = p /\ (p + 1 <= n => p <= n)
    BY ONLY <2>2, <2>3
  <2> QED
    BY <2>2, <2>4
<1>5. Watched(ls, g) => Watched(ls, f)
  BY <1>1, <1>2, <1>4 DEF Watched
<1>6. Watched(ls, g) => Following(ls, g, I, R)
  BY <1>1, <1>2, <1>4, <1>5 DEF Following
<1> QED
  BY <1>3, <1>6 DEF Has

\* The innermost entry is that of the innermost open line.
LEMMA Innermost ==
  ASSUME NEW ls \in Seq(Lines), NEW p \in 1 .. Len(ls) + 1,
         NEW I \in Seq(IfNode), NEW R \in Seq(LoopNode),
         Corresponds(ls, Seen(ls)[p - 1].open, I, R)
  PROVE  LET s == Seen(ls)[p - 1].open
         IN /\ s \in Seq(1 .. Len(ls))
            /\ I = <<>> => s = <<>> /\ R = <<>>
            /\ s = <<>> => I = <<>> /\ R = <<>>
            /\ I # <<>> =>
                 /\ s # <<>> /\ Head(s) \in 1 .. Len(ls) /\ ls[Head(s)].op \in Openings
                 /\ ~Seen(ls)[Head(s)].mac /\ Seen(ls)[Head(s)].open = s
                 /\ \E Q \in Seq(LoopNode) :
                      /\ Linked(ls[Head(s)].op, Head(s), Head(I), R, Q)
                      /\ Corresponds(ls, Tail(s), Tail(I), Q)
<1> DEFINE s == Seen(ls)[p - 1].open
<1>1. p - 1 \in 0 .. Len(ls) /\ Len(ls) \in Nat
  OBVIOUS
<1>2. s \in Seq(1 .. Len(ls))
  BY <1>1, SeenSteps DEF Readings
<1>3. s # <<>> => /\ Head(s) \in 1 .. p - 1 /\ ls[Head(s)].op \in Openings
                  /\ ~Seen(ls)[Head(s)].mac /\ Seen(ls)[Head(s)].open = s
  BY <1>1, SeenOpen
<1>4. Corresponds(ls, s, I, R)
  OBVIOUS
<1> HIDE DEF s
<1>5. s = <<>> => I = <<>> /\ R = <<>>
  BY <1>4, NothingOpen
<1>6. s # <<>> => /\ I # <<>> /\ Head(s) \in 1 .. Len(ls)
                  /\ \E Q \in Seq(LoopNode) :
                       /\ Linked(ls[Head(s)].op, Head(s), Head(I), R, Q)
                       /\ Corresponds(ls, Tail(s), Tail(I), Q)
  BY <1>1, <1>2, <1>4, OneLessOpen
<1> QED
  BY <1>2, <1>3, <1>5, <1>6 DEF s

\* Lines that open and close nothing.
LEMMA PlainKept ==
  ASSUME NEW ls \in Seq(Lines), NEW f, NEW g, NEW I \in Seq(IfNode), NEW R \in Seq(LoopNode),
         Has(ls, f, I, R), f.pos \in 1 .. Len(ls), Moved(f, g, f.pos + 1),
         ls[f.pos].op \notin Openings \cup Closings \cup {"mac"}
  PROVE  Has(ls, g, I, R)
<1>1. PICK p : p = f.pos /\ p \in 1 .. Len(ls)
  OBVIOUS
<1>2. ~Seen(ls)[p - 1].mac => Seen(ls)[p].open = Seen(ls)[p - 1].open /\ ~Seen(ls)[p].mac
  <2>1. ls[p].op \notin Openings \cup Closings /\ ls[p].op # "mac"
    BY <1>1
  <2>2. ~Seen(ls)[p - 1].mac /\ ls[p].op \notin Openings \cup Closings =>
          Seen(ls)[p].open = Seen(ls)[p - 1].open /\ (Seen(ls)[p].mac <=> ls[p].op = "mac")
    BY <1>1, SeenNext
  <2> QED
    BY <2>1, <2>2
<1>3. Own(f, I, R) /\ (Watched(ls, f) => Following(ls, f, I, R))
  BY DEF Has
<1>4. Watched(ls, f) => ~Seen(ls)[p].mac /\ Corresponds(ls, Seen(ls)[p].open, I, R)
  BY <1>1, <1>2, <1>3 DEF Following
<1> QED
  BY <1>1, <1>3, <1>4, ReadOn

\* A line that opens something.
LEMMA OpenedKept ==
  ASSUME NEW ls \in Seq(Lines), NEW f, NEW g, NEW I \in Seq(IfNode), NEW R \in Seq(LoopNode),
         Has(ls, f, I, R), f.pos \in 1 .. Len(ls), Moved(f, g, f.pos + 1),
         ls[f.pos].op \in Openings,
         NEW e \in IfNode, e.file = f.addr, NEW Q \in Seq(LoopNode),
         Own(f, <<e>> \o I, Q), Linked(ls[f.pos].op, f.pos, e, Q, R)
  PROVE  Has(ls, g, <<e>> \o I, Q)
<1>1. PICK p : p = f.pos /\ p \in 1 .. Len(ls)
  OBVIOUS
<1>2. Watched(ls, f) => Following(ls, f, I, R)
  BY DEF Has
<1>3. ASSUME Watched(ls, f)
      PROVE  ~Seen(ls)[p].mac /\ Corresponds(ls, Seen(ls)[p].open, <<e>> \o I, Q)
  <2>1. ~Seen(ls)[p - 1].mac /\ Corresponds(ls, Seen(ls)[p - 1].open, I, R)
    BY <1>1, <1>2, <1>3 DEF Following
  <2>2. /\ Seen(ls)[p - 1].open \in Seq(1 .. Len(ls))
        /\ ~Seen(ls)[p - 1].mac /\ ls[p].op \in Openings =>
             Seen(ls)[p].open = <<p>> \o Seen(ls)[p - 1].open /\ ~Seen(ls)[p].mac
    BY <1>1, SeenNext
  <2>3. PICK s : s = Seen(ls)[p - 1].open
    OBVIOUS
  <2>4. Linked(ls[p].op, p, e, Q, R) /\ Len(ls) \in Nat
    BY <1>1
  <2>5. Corresponds(ls, <<p>> \o s, <<e>> \o I, Q)
    BY <1>1, <2>1, <2>2, <2>3, <2>4, OneMoreOpen
  <2> QED
    BY <1>1, <2>1, <2>2, <2>3, <2>5
<1>4. <<e>> \o I \in Seq(IfNode)
  BY Pushed
<1> HIDE DEF Has
<1> QED
  BY <1>1, <1>3, <1>4, ReadOn

\* A stack is its head on its tail.
LEMMA HeadPushed ==
  ASSUME NEW S, NEW s \in Seq(S), s # <<>>
  PROVE  <<Head(s)>> \o Tail(s) = s
<1>1. /\ Len(s) \in Nat \ {0} /\ Head(s) = s[1] /\ s[1] \in S
      /\ Tail(s) = SubSeq(s, 1 + 1, Len(s))
  BY Popped
<1>2. 1 \in 1 .. Len(s) /\ Len(s) \in 1 .. Len(s)
  BY <1>1
<1>3. SubSeq(s, 1, Len(s)) = <<s[1]>> \o SubSeq(s, 1 + 1, Len(s))
  BY <1>2, SubSeqRecursiveFirst
<1>4. SubSeq(s, 1, Len(s)) = s
  BY SubSeqFull
<1> QED
  BY <1>1, <1>3, <1>4

\* The innermost open line is of the kind that the line can end.
LEMMA PairedAt ==
  ASSUME NEW ls \in Seq(Lines), NEW f, Fits(ls, f), Watched(ls, f),
         NEW p \in 1 .. Len(ls), ~Seen(ls)[p - 1].mac
  PROVE  LET s == Seen(ls)[p - 1].open
         IN /\ ls[p].op = "else" => s # <<>> /\ ls[Head(s)].op = "if"
            /\ ls[p].op = "endif" /\ s # <<>> => ls[Head(s)].op # "repeat"
            /\ ls[p].op = "repend" /\ s # <<>> => ls[Head(s)].op # "if"
<1>1. Paired(ls)
  BY DEF Fits, Watched, LeavesNothing
<1> DEFINE s == Seen(ls)[p - 1].open
           opener == IF s = <<>> THEN "none" ELSE ls[Head(s)].op
<1>2. /\ ls[p].op = "else"   => opener = "if"
      /\ ls[p].op = "endif"  => opener # "repeat"
      /\ ls[p].op = "repend" => opener # "if"
  BY <1>1 DEF Paired
<1> HIDE DEF s
<1>3. s = <<>> => opener = "none"
  OBVIOUS
<1>4. s # <<>> => opener = ls[Head(s)].op
  OBVIOUS
<1>5. "none" # "if"
  OBVIOUS
<1> HIDE DEF opener
<1> QED
  BY <1>2, <1>3, <1>4, <1>5, Zenon DEF s

\* ELSE flips an entry of its own frame, which is that of an IF.
LEMMA ElseKept ==
  ASSUME NEW ls \in Seq(Lines), NEW f, NEW g, NEW I \in Seq(IfNode), NEW R \in Seq(LoopNode),
         Has(ls, f, I, R), f.pos \in 1 .. Len(ls), Moved(f, g, f.pos + 1),
         Fits(ls, f), ls[f.pos].op = "else"
  PROVE  /\ I # <<>>
         /\ \A e \in IfNode : e.file = f.addr => Has(ls, g, <<e>> \o Tail(I), R)
<1>1. PICK p : p = f.pos /\ p \in 1 .. Len(ls)
  OBVIOUS
<1>2. Watched(ls, f)
  <2>1. p <= Len(ls) /\ ls[p].op = "else"
    BY <1>1
  <2> QED
    BY <1>1, <2>1 DEF Watched, HasElse
<1>3. Own(f, I, R) /\ ~Seen(ls)[p - 1].mac /\ Corresponds(ls, Seen(ls)[p - 1].open, I, R)
  BY <1>1, <1>2 DEF Has, Following
<1>4. PICK s : s = Seen(ls)[p - 1].open
  OBVIOUS
<1>5. s # <<>> /\ ls[Head(s)].op = "if"
  BY <1>1, <1>2, <1>3, <1>4, PairedAt
<1>6. p \in 1 .. Len(ls) + 1 /\ Len(ls) \in Nat
  <2>1. Len(ls) \in Nat
    BY LenProperties
  <2> QED
    BY <1>1, <2>1
<1>7. /\ I # <<>> /\ s \in Seq(1 .. Len(ls)) /\ Head(s) \in 1 .. Len(ls)
      /\ \E Q \in Seq(LoopNode) : /\ Linked(ls[Head(s)].op, Head(s), Head(I), R, Q)
                                  /\ Corresponds(ls, Tail(s), Tail(I), Q)
  BY <1>3, <1>4, <1>5, <1>6, Innermost
<1>8. Corresponds(ls, Tail(s), Tail(I), R)
  <2>1. "if" # "repeat"
    OBVIOUS
  <2>2. \A Q : Linked(ls[Head(s)].op, Head(s), Head(I), R, Q) => R = Q
    BY <1>5, <2>1, Zenon DEF Linked
  <2> QED
    BY <1>7, <2>2
<1>9. /\ Tail(s) \in Seq(1 .. Len(ls)) /\ Tail(I) \in Seq(IfNode)
      /\ <<Head(s)>> \o Tail(s) = s
      /\ Len(I) \in Nat \ {0} /\ Len(Tail(I)) = Len(I) - 1
      /\ \A i \in 1 .. Len(I) - 1 : Tail(I)[i] = I[i + 1]
  BY <1>5, <1>7, Popped, HeadPushed
<1>10. Seen(ls)[p].open = s /\ ~Seen(ls)[p].mac
  <2>1. ls[p].op \notin Openings \cup Closings /\ ls[p].op # "mac"
    BY <1>1 DEF Openings, Closings
  <2>2. ~Seen(ls)[p - 1].mac /\ ls[p].op \notin Openings \cup Closings =>
          Seen(ls)[p].open = Seen(ls)[p - 1].open /\ (Seen(ls)[p].mac <=> ls[p].op = "mac")
    BY <1>1, SeenNext
  <2> QED
    BY <1>3, <1>4, <2>1, <2>2
<1>11. ASSUME NEW e \in IfNode, e.file = f.addr
       PROVE  Has(ls, g, <<e>> \o Tail(I), R)
  <2>1. PICK J : J = <<e>> \o Tail(I)
    OBVIOUS
  <2>2. /\ J \in Seq(IfNode) /\ Len(J) = Len(I) /\ J[1] = e
        /\ \A i \in 1 .. Len(I) - 1 : J[i + 1] = I[i + 1]
    BY <1>9, <2>1, Pushed
  <2>3. Own(f, J, R)
    <3>1. ASSUME NEW i \in 1 .. Len(J), i # 1
          PROVE  J[i].file = f.addr
      <4>1. i - 1 \in 1 .. Len(I) - 1 /\ (i - 1) + 1 = i /\ i \in 1 .. Len(I)
        BY <1>9, <2>2, <3>1
      <4>2. J[i] = I[i]
        BY <2>2, <4>1
      <4> QED
        BY <1>3, <4>1, <4>2 DEF Own
    <3> QED
      BY <1>3, <1>11, <2>2, <3>1 DEF Own
  <2>4. Linked(ls[Head(s)].op, Head(s), e, R, R)
    <3>1. "if" # "repeat"
      OBVIOUS
    <3> QED
      BY <1>5, <3>1, Zenon DEF Linked
  <2>5. Corresponds(ls, s, J, R)
    <3>1. Corresponds(ls, <<Head(s)>> \o Tail(s), <<e>> \o Tail(I), R)
      BY <1>6, <1>7, <1>8, <1>9, <2>4, OneMoreOpen
    <3> QED
      BY <1>9, <2>1, <3>1
  <2>6. Has(ls, g, J, R)
    BY <1>1, <1>10, <2>2, <2>3, <2>5, ReadOn
  <2> QED
    BY <2>1, <2>6
<1> QED
  BY <1>7, <1>11

\* A line that closes something.
LEMMA ClosedKept ==
  ASSUME NEW ls \in Seq(Lines), NEW f, NEW g, NEW I \in Seq(IfNode), NEW R \in Seq(LoopNode),
         Has(ls, f, I, R), f.pos \in 1 .. Len(ls), Moved(f, g, f.pos + 1),
         Fits(ls, f), ls[f.pos].op \in Closings,
         NEW J \in Seq(IfNode), NEW Q \in Seq(LoopNode), Own(f, J, Q),
         I = <<>> /\ R = <<>> => J = <<>> /\ Q = <<>>,
         I # <<>> => \A op, o, D :
           /\ ls[f.pos].op = "endif" => op = "if"
           /\ ls[f.pos].op = "repend" => op = "repeat"
           /\ Linked(op, o, Head(I), R, D)
           => J = Tail(I) /\ D = Q
  PROVE  Has(ls, g, J, Q)
<1>1. PICK p : p = f.pos /\ p \in 1 .. Len(ls)
  OBVIOUS
<1>2. Len(ls) \in Nat /\ p \in 1 .. Len(ls) + 1
  <2>1. Len(ls) \in Nat
    BY LenProperties
  <2> QED
    BY <1>1, <2>1
<1>3. ASSUME Watched(ls, f)
      PROVE  ~Seen(ls)[p].mac /\ Corresponds(ls, Seen(ls)[p].open, J, Q)
  <2>1. ~Seen(ls)[p - 1].mac /\ Corresponds(ls, Seen(ls)[p - 1].open, I, R)
    BY <1>1, <1>3 DEF Has, Following
  <2>2. PICK s : s = Seen(ls)[p - 1].open
    OBVIOUS
  <2>3. ~Seen(ls)[p].mac /\ Seen(ls)[p].open = IF s = <<>> THEN <<>> ELSE Tail(s)
    <3>1. ~Seen(ls)[p - 1].mac /\ ls[p].op \in Closings =>
            /\ Seen(ls)[p].open = IF Seen(ls)[p - 1].open = <<>> THEN <<>>
                                  ELSE Tail(Seen(ls)[p - 1].open)
            /\ ~Seen(ls)[p].mac
      BY <1>1, SeenNext
    <3> QED
      BY <1>1, <2>1, <2>2, <3>1
  <2>4. /\ s \in Seq(1 .. Len(ls))
        /\ I = <<>> => s = <<>> /\ R = <<>>
        /\ s = <<>> => I = <<>> /\ R = <<>>
        /\ I # <<>> => /\ s # <<>> /\ ls[Head(s)].op \in Openings
                       /\ \E D \in Seq(LoopNode) :
                            /\ Linked(ls[Head(s)].op, Head(s), Head(I), R, D)
                            /\ Corresponds(ls, Tail(s), Tail(I), D)
    BY <1>2, <2>1, <2>2, Innermost
  <2>5. CASE I = <<>>
    <3>1. Corresponds(ls, <<>>, J, Q)
      BY <2>4, <2>5, NothingOpen
    <3> QED
      BY <2>3, <2>4, <2>5, <3>1
  <2>6. CASE I # <<>>
    <3>1. PICK D \in Seq(LoopNode) : /\ Linked(ls[Head(s)].op, Head(s), Head(I), R, D)
                                     /\ Corresponds(ls, Tail(s), Tail(I), D)
      BY <2>4, <2>6
    <3>2. PICK op : op = ls[Head(s)].op
      OBVIOUS
    <3>3. /\ ls[p].op = "endif" => op # "repeat"
          /\ ls[p].op = "repend" => op # "if"
      BY <1>1, <1>3, <2>1, <2>2, <2>4, <2>6, <3>2, PairedAt
    <3>4. op \in {"if", "repeat"}
      BY <2>4, <2>6, <3>2 DEF Openings
    <3>5. /\ ls[f.pos].op = "endif" => op = "if"
          /\ ls[f.pos].op = "repend" => op = "repeat"
      BY <1>1, <3>3, <3>4
    <3>6. Linked(op, Head(s), Head(I), R, D)
      BY <3>1, <3>2
    <3>7. J = Tail(I) /\ D = Q
      <4>1. \A a, o, E : /\ ls[f.pos].op = "endif" => a = "if"
                         /\ ls[f.pos].op = "repend" => a = "repeat"
                         /\ Linked(a, o, Head(I), R, E)
                         => J = Tail(I) /\ E = Q
        BY <2>6
      <4> HIDE DEF Linked
      <4> QED
        BY ONLY <3>5, <3>6, <4>1
    <3> QED
      BY <2>3, <2>4, <2>6, <3>1, <3>7
  <2> QED
    BY <2>5, <2>6
<1> QED
  BY <1>1, <1>3, ReadOn

\* REPEND goes back to the line after its REPEAT.
LEMMA JumpKept ==
  ASSUME NEW ls \in Seq(Lines), NEW f, NEW g, NEW I \in Seq(IfNode), NEW R \in Seq(LoopNode),
         Has(ls, f, I, R), f.pos \in 1 .. Len(ls), R # <<>>, Moved(f, g, Head(R).pos),
         Fits(ls, f), ls[f.pos].op = "repend",
         I # <<>> => Head(I).xtrue,
         NEW r \in LoopNode, r.file = Head(R).file, r.macro = Head(R).macro,
         r.text = Head(R).text, r.pos = Head(R).pos
  PROVE  Has(ls, g, I, <<r>> \o Tail(R))
<1>1. PICK p : p = f.pos /\ p \in 1 .. Len(ls)
  OBVIOUS
<1>2. Len(ls) \in Nat /\ p \in 1 .. Len(ls) + 1
  <2>1. Len(ls) \in Nat
    BY LenProperties
  <2> QED
    BY <1>1, <2>1
<1>3. PICK Q : Q = <<r>> \o Tail(R)
  OBVIOUS
<1>4. /\ Len(R) \in Nat \ {0} /\ Head(R) = R[1] /\ Tail(R) \in Seq(LoopNode)
      /\ Len(Tail(R)) = Len(R) - 1
      /\ \A i \in 1 .. Len(R) - 1 : Tail(R)[i] = R[i + 1]
  BY Popped
<1>5. /\ Q \in Seq(LoopNode) /\ Len(Q) = Len(Tail(R)) + 1 /\ Q[1] = r /\ Q # <<>>
      /\ \A i \in 1 .. Len(Tail(R)) : Q[i + 1] = Tail(R)[i]
  <2>1. Tail(R) \in Seq(LoopNode) /\ r \in LoopNode
    BY <1>4
  <2> QED
    BY ONLY <1>3, <2>1, Pushed
<1>6. Head(Q) = r /\ Tail(Q) = Tail(R)
  <2>1. Tail(R) \in Seq(LoopNode) /\ r \in LoopNode
    BY <1>4
  <2> QED
    BY ONLY <1>3, <2>1, TailConcat
<1>7. Own(f, I, R)
  BY DEF Has
<1>8. Own(f, I, Q)
  <2>1. ASSUME NEW i \in 1 .. Len(Q)
        PROVE  Q[i].file = f.addr /\ Q[i].macro = f.macro /\ Q[i].text = f.text
    <3>1. 1 \in 1 .. Len(R)
      BY <1>4
    <3>2. CASE i = 1
      BY <1>4, <1>5, <1>7, <3>1, <3>2 DEF Own
    <3>3. CASE i # 1
      <4>1. i - 1 \in 1 .. Len(R) - 1 /\ (i - 1) + 1 = i /\ i \in 1 .. Len(R)
        BY <1>4, <1>5, <3>3
      <4>2. Q[i] = R[i]
        <5>1. PICK j : j = i - 1
          OBVIOUS
        <5>2. j \in 1 .. Len(R) - 1 /\ j + 1 = i /\ Len(Tail(R)) = Len(R) - 1
          BY <1>4, <4>1, <5>1
        <5>3. Q[j + 1] = Tail(R)[j] /\ Tail(R)[j] = R[j + 1]
          BY <1>4, <1>5, <5>2
        <5> QED
          BY <5>2, <5>3
      <4> QED
        BY <1>7, <4>1, <4>2 DEF Own
    <3> QED
      BY <3>2, <3>3
  <2> QED
    BY <1>7, <2>1 DEF Own
<1>9. g.addr = f.addr /\ g.macro = f.macro /\ g.text = f.text /\ g.pos = Head(R).pos
  BY DEF Moved
<1>10. Own(g, I, Q)
  BY <1>8, <1>9 DEF Own
<1>11. Watched(ls, g) => Watched(ls, f)
  BY <1>1, <1>2, <1>9 DEF Watched
<1>12. ASSUME Watched(ls, f)
       PROVE  Following(ls, g, I, Q)
  <2>1. ~Seen(ls)[p - 1].mac /\ Corresponds(ls, Seen(ls)[p - 1].open, I, R)
    BY <1>1, <1>12 DEF Has, Following
  <2>2. PICK s : s = Seen(ls)[p - 1].open
    OBVIOUS
  <2>3. /\ s \in Seq(1 .. Len(ls))
        /\ I = <<>> => R = <<>>
        /\ I # <<>> => /\ s # <<>> /\ Head(s) \in 1 .. Len(ls) /\ ls[Head(s)].op \in Openings
                       /\ ~Seen(ls)[Head(s)].mac /\ Seen(ls)[Head(s)].open = s
                       /\ \E D \in Seq(LoopNode) :
                            /\ Linked(ls[Head(s)].op, Head(s), Head(I), R, D)
                            /\ Corresponds(ls, Tail(s), Tail(I), D)
    BY <1>2, <2>1, <2>2, Innermost
  <2>4. I # <<>> /\ s # <<>>
    BY <2>3
  <2>5. PICK h : h = Head(s) /\ h \in 1 .. Len(ls)
    BY <2>3, <2>4
  <2>6. ls[h].op = "repeat"
    <3>1. ls[h].op # "if"
      BY <1>1, <1>12, <2>1, <2>2, <2>4, <2>5, PairedAt
    <3> QED
      BY <2>3, <2>4, <2>5, <3>1 DEF Openings
  <2>7. PICK D \in Seq(LoopNode) : Linked("repeat", h, Head(I), R, D)
                                   /\ Corresponds(ls, Tail(s), Tail(I), D)
    BY <2>3, <2>4, <2>5, <2>6
  <2>8. Head(I).acctrue /\ Head(R).pos = h + 1 /\ Tail(R) = D
    BY <2>4, <2>7 DEF Linked
  <2>9. Linked(ls[h].op, h, Head(I), Q, D)
    BY <1>5, <1>6, <2>4, <2>6, <2>8 DEF Linked
  <2>10. /\ Tail(s) \in Seq(1 .. Len(ls)) /\ <<h>> \o Tail(s) = s
    BY <2>3, <2>4, <2>5, Popped, HeadPushed
  <2>11. /\ Tail(I) \in Seq(IfNode) /\ Head(I) \in IfNode /\ <<Head(I)>> \o Tail(I) = I
    BY <2>4, Popped, HeadPushed
  <2>12. Corresponds(ls, <<h>> \o Tail(s), <<Head(I)>> \o Tail(I), Q)
    BY <1>2, <1>5, <2>5, <2>7, <2>9, <2>10, <2>11, OneMoreOpen
  <2>13. Corresponds(ls, s, I, Q)
    BY <2>10, <2>11, <2>12
  <2>14. g.pos = h + 1
    BY <1>9, <2>8
  <2>15. g.pos \in 1 .. Len(ls) + 1 /\ g.pos - 1 = h
    <3>1. PICK n \in Nat : n = Len(ls)
      BY <1>2
    <3>2. h \in 1 .. n
      BY <2>5, <3>1
    <3>3. h + 1 \in 1 .. n + 1 /\ (h + 1) - 1 = h
      BY ONLY <3>1, <3>2
    <3> QED
      BY <2>14, <3>1, <3>3
  <2>16. ~Seen(ls)[h].mac /\ Seen(ls)[h].open = s
    BY <2>3, <2>4, <2>5
  <2> QED
    BY <2>13, <2>15, <2>16 DEF Following
<1>13. Has(ls, g, I, Q)
  BY <1>10, <1>11, <1>12 DEF Has
<1> QED
  BY <1>3, <1>13

\* A definition.
LEMMA DefinitionKept ==
  ASSUME NEW ls \in Seq(Lines), NEW f, NEW g, NEW I \in Seq(IfNode), NEW R \in Seq(LoopNode),
         Has(ls, f, I, R), f.pos \in 1 .. Len(ls), ls[f.pos].op = "mac",
         NEW to \in f.pos + 1 .. Len(ls), Moved(f, g, to + 1), ls[to].op = "endm",
         \A j \in f.pos + 1 .. to - 1 : ls[j].op # "endm"
  PROVE  Has(ls, g, I, R)
<1>1. PICK p : p = f.pos /\ p \in 1 .. Len(ls)
  OBVIOUS
<1>2. PICK n \in Nat : n = Len(ls)
  BY LenProperties
<1>3. g.addr = f.addr /\ g.macro = f.macro /\ g.text = f.text /\ g.pos = to + 1
  BY DEF Moved
<1>4. p \in 1 .. n /\ to \in p + 1 .. n
  BY <1>1, <1>2
<1>5. to + 1 \in 1 .. n + 1 /\ (to + 1) - 1 = to /\ p <= n
  BY ONLY <1>2, <1>4
<1>6. Own(f, I, R) /\ (Watched(ls, f) => Following(ls, f, I, R))
  BY DEF Has
<1>7. Own(g, I, R)
  BY <1>3, <1>6 DEF Own
<1>8. Watched(ls, g) => Watched(ls, f)
  BY <1>1, <1>2, <1>3, <1>5 DEF Watched
<1>9. ASSUME Watched(ls, f)
      PROVE  Following(ls, g, I, R)
  <2>1. ~Seen(ls)[p - 1].mac /\ Corresponds(ls, Seen(ls)[p - 1].open, I, R)
    BY <1>1, <1>6, <1>9 DEF Following
  <2>2. Seen(ls)[to].open = Seen(ls)[p - 1].open /\ ~Seen(ls)[to].mac
    BY <1>1, <2>1, SeenDefinition
  <2> QED
    BY <1>2, <1>3, <1>5, <2>1, <2>2 DEF Following
<1> QED
  BY <1>7, <1>8, <1>9 DEF Has

\* Nothing matters of a file that is at its end.
LEMMA EndKept ==
  ASSUME NEW ls \in Seq(Lines), NEW f, NEW g, NEW I \in Seq(IfNode), NEW R \in Seq(LoopNode),
         Has(ls, f, I, R), ~f.macro, Moved(f, g, Len(ls) + 1)
  PROVE  Has(ls, g, I, R)
<1>1. PICK n \in Nat : n = Len(ls)
  BY LenProperties
<1>2. g.addr = f.addr /\ g.macro = f.macro /\ g.text = f.text /\ g.pos = n + 1
  BY <1>1 DEF Moved
<1>3. Own(g, I, R)
  BY <1>2 DEF Has, Own
<1>4. ~(n + 1 <= n)
  BY ONLY <1>1
<1>5. ~Watched(ls, g)
  BY <1>1, <1>2, <1>4 DEF Watched
<1> QED
  BY <1>3, <1>5 DEF Has

\* A frame starts with nothing.
LEMMA NewKept ==
  ASSUME NEW ls \in Seq(Lines), NEW f, f.pos = 1
  PROVE  Has(ls, f, <<>>, <<>>)
<1>1. PICK n \in Nat : n = Len(ls)
  BY LenProperties
<1>2. 1 \in 1 .. n + 1 /\ 1 - 1 = 0
  BY <1>1
<1>3. Seen(ls)[0].open = <<>> /\ ~Seen(ls)[0].mac
  BY SeenSteps DEF Fresh
<1>4. Corresponds(ls, <<>>, <<>>, <<>>)
  <2>1. <<>> \in Seq(IfNode) /\ <<>> \in Seq(LoopNode)
    OBVIOUS
  <2> QED
    BY <2>1, NothingOpen
<1>5. Following(ls, f, <<>>, <<>>)
  BY <1>1, <1>2, <1>3, <1>4 DEF Following
<1>6. Own(f, <<>>, <<>>)
  BY DEF Own
<1> QED
  BY <1>5, <1>6 DEF Has

\* A macro is left with nothing, and leaves it to the files to define macros and to end.
LEMMA MacroLeft ==
  ASSUME NEW ls \in Seq(Lines), NEW f, NEW I \in Seq(IfNode), NEW R \in Seq(LoopNode),
         Has(ls, f, I, R), f.macro, Fits(ls, f), f.pos \in Nat \ {0}
  PROVE  /\ f.pos <= Len(ls) => ls[f.pos].op \notin {"end", "mac"}
         /\ f.pos <= Len(ls) /\ ls[f.pos].op \in {"mexit", "endm"} => I = <<>> /\ R = <<>>
         /\ f.pos > Len(ls) => I = <<>> /\ R = <<>>
<1>1. PICK n \in Nat : n = Len(ls)
  BY LenProperties
<1>2. PICK p : p = f.pos /\ p \in Nat \ {0}
  OBVIOUS
<1>3. LeavesNothing(ls) /\ Following(ls, f, I, R)
  BY DEF Fits, Has, Watched
<1>4. p <= n => p \in 1 .. n
  BY <1>1, <1>2
<1>5. p <= n => /\ ls[p].op \notin {"end", "mac"}
                /\ ls[p].op \in {"mexit", "endm"} => Seen(ls)[p - 1].open = <<>>
  BY <1>1, <1>3, <1>4 DEF LeavesNothing
<1>6. p \in 1 .. n + 1 /\ Corresponds(ls, Seen(ls)[p - 1].open, I, R)
  BY <1>1, <1>2, <1>3 DEF Following
<1>7. p > n => p - 1 = n
  BY ONLY <1>1, <1>2, <1>6
<1>8. p > n => Seen(ls)[p - 1].open = <<>>
  BY <1>1, <1>3, <1>7 DEF LeavesNothing
<1>9. Seen(ls)[p - 1].open = <<>> => I = <<>> /\ R = <<>>
  BY <1>6, NothingOpen
<1> QED
  BY <1>1, <1>2, <1>5, <1>8, <1>9

-----------------------------------------------------------------------------
(***************************************************************************)
(* The entries of the frame on top, and those below                        *)
(***************************************************************************)

\* What is on top of a stack that is put on another.
LEMMA OnConcat ==
  ASSUME NEW E, NEW I \in Seq(E), NEW S \in Seq(E)
  PROVE  /\ I \o S \in Seq(E)
         /\ I = <<>> => I \o S = S
         /\ I # <<>> => /\ I \o S # <<>> /\ Head(I \o S) = Head(I)
                        /\ Tail(I \o S) = Tail(I) \o S /\ Tail(I) \in Seq(E)
         /\ \A e \in E : <<e>> \o (I \o S) = (<<e>> \o I) \o S
<1>1. PICK P : P = I \o S
  OBVIOUS
<1>2. Len(I) \in Nat /\ Len(S) \in Nat
  BY LenProperties
<1>3. /\ P \in Seq(E) /\ Len(P) = Len(I) + Len(S)
      /\ \A i \in 1 .. Len(I) + Len(S) :
           P[i] = IF i <= Len(I) THEN I[i] ELSE S[i - Len(I)]
  BY <1>1, ConcatProperties
<1>4. I = <<>> => P = S
  BY <1>1, ConcatEmptySeq
<1>5. \A e \in E : <<e>> \o P = (<<e>> \o I) \o S
  <2>1. SUFFICES ASSUME NEW e \in E PROVE <<e>> \o P = (<<e>> \o I) \o S
    OBVIOUS
  <2>2. <<e>> \in Seq(E)
    OBVIOUS
  <2>3. (<<e>> \o I) \o S = <<e>> \o (I \o S)
    BY <2>2, ConcatAssociative
  <2> QED
    BY <1>1, <2>3
<1>6. ASSUME I # <<>>
      PROVE  P # <<>> /\ Head(P) = Head(I) /\ Tail(P) = Tail(I) \o S /\ Tail(I) \in Seq(E)
  <2>1. Head(I) \in E /\ Tail(I) \in Seq(E) /\ <<Head(I)>> \o Tail(I) = I
    BY <1>6, Popped, HeadPushed
  <2>2. PICK e, J : e = Head(I) /\ J = Tail(I)
    OBVIOUS
  <2>3. e \in E /\ J \in Seq(E) /\ <<e>> \o J = I
    BY <2>1, <2>2
  <2>4. <<e>> \in Seq(E) /\ J \o S \in Seq(E)
    BY <2>3, ConcatProperties
  <2>5. (<<e>> \o J) \o S = <<e>> \o (J \o S)
    BY <2>3, <2>4, ConcatAssociative
  <2>6. P = <<e>> \o (J \o S)
    BY <1>1, <2>3, <2>5
  <2>7. Head(P) = e /\ Tail(P) = J \o S
    BY <2>3, <2>4, <2>6, TailConcat
  <2>8. P # <<>>
    BY <2>3, <2>4, <2>6, Pushed
  <2> QED
    BY <2>1, <2>2, <2>7, <2>8
<1> QED
  BY <1>1, <1>3, <1>4, <1>5, <1>6

\* What has been pushed by the frame at a is unwound, and no more.
LEMMA UnwoundOwn ==
  ASSUME NEW E, NEW I \in Seq(E), NEW S \in Seq(E), NEW a,
         \A i \in 1 .. Len(I) : I[i].file = a, \A i \in 1 .. Len(S) : S[i].file # a
  PROVE  Unwound(I \o S, a) = S
<1>1. PICK P, n, m : P = I \o S /\ n = Len(I) /\ m = Len(S)
  OBVIOUS
<1>2. n \in Nat /\ m \in Nat
  BY <1>1, LenProperties
<1>3. /\ P \in Seq(E) /\ Len(P) = n + m
      /\ \A i \in 1 .. n + m : P[i] = IF i <= n THEN I[i] ELSE S[i - n]
  BY <1>1, ConcatProperties
<1> DEFINE T == Others(P, a)
           k == CHOOSE c \in T : \A j \in T : c <= j
<1>4. T = n + 1 .. n + m
  <2>1. DOMAIN P = 1 .. n + m
    BY <1>2, <1>3
  <2>2. ASSUME NEW i \in 1 .. n + m
        PROVE  P[i].file # a <=> i \in n + 1 .. n + m
    <3>1. CASE i <= n
      <4>1. i \in 1 .. Len(I) /\ P[i] = I[i] /\ i \notin n + 1 .. n + m
        BY <1>1, <1>2, <1>3, <3>1
      <4> QED
        BY <4>1
    <3>2. CASE ~(i <= n)
      <4>1. i - n \in 1 .. m /\ i \in n + 1 .. n + m
        BY ONLY <1>2, <3>2, i \in 1 .. n + m
      <4>2. P[i] = S[i - n] /\ i - n \in 1 .. Len(S)
        BY <1>1, <1>3, <3>2, <4>1
      <4> QED
        BY <4>1, <4>2
    <3> QED
      BY <3>1, <3>2
  <2>3. n + 1 .. n + m \subseteq 1 .. n + m
    BY <1>2
  <2> QED
    BY <2>1, <2>2, <2>3 DEF Others
<1>5. CASE m = 0
  <2>1. T = {}
    BY <1>2, <1>4, <1>5
  <2>2. Unwound(P, a) = <<>>
    BY <2>1 DEF Unwound
  <2>3. S = <<>>
    <3>1. Len(S) = 0
      BY <1>1, <1>5
    <3> QED
      BY <3>1, EmptySeq
  <2> QED
    BY <1>1, <2>2, <2>3
<1>6. CASE m # 0
  <2>1. T # {} /\ T \in SUBSET Nat /\ n + 1 \in T
    BY <1>2, <1>4, <1>6
  <2>2. Unwound(P, a) = SubSeq(P, k, Len(P))
    BY <2>1 DEF Unwound
  <2>3. k \in T /\ \A j \in T : k <= j
    BY <2>1, Least
  <2> HIDE DEF k
  <2>4. k = n + 1
    <3>1. k \in n + 1 .. n + m /\ k <= n + 1
      BY <1>4, <2>1, <2>3
    <3> QED
      BY ONLY <1>2, <3>1
  <2>5. PICK Q : Q = SubSeq(P, n + 1, Len(P))
    OBVIOUS
  <2>6. n \in 0 .. Len(P) /\ Len(P) - n = m
    BY <1>2, <1>3
  <2>7. Q \in Seq(E) /\ Len(Q) = m /\ \A i \in 1 .. m : Q[i] = P[i + n]
    BY <1>3, <2>5, <2>6, Dropped
  <2>8. \A i \in 1 .. m : Q[i] = S[i]
    <3>1. SUFFICES ASSUME NEW i \in 1 .. m PROVE Q[i] = S[i]
      OBVIOUS
    <3>2. i + n \in 1 .. n + m /\ ~(i + n <= n) /\ (i + n) - n = i
      BY <1>2
    <3> QED
      BY <1>3, <2>7, <3>2
  <2>9. Q = S
    BY <1>1, <2>7, <2>8, SeqEqual
  <2> QED
    BY <1>1, <2>2, <2>4, <2>5, <2>9
<1> QED
  BY <1>5, <1>6

-----------------------------------------------------------------------------
(***************************************************************************)
(* The addresses of the frames                                             *)
(***************************************************************************)

\* malloc() returns nothing that is in use.
LEMMA AllocatedNew == Allocated \cap Live = {}
BY DEF Allocated, Unused

\* The frames that stay keep their addresses.
LEMMA DistinctLeft ==
  ASSUME FrameTypes, Distinct(pIncfile), NEW n \in Nat, Left(n)
  PROVE  Distinct(pIncfile')
<1>1. PICK m \in Nat : m = Len(pIncfile)
  BY LenProperties DEF FrameTypes, FramesOK
<1>2. /\ n \in 0 .. m /\ Len(pIncfile') = m - n
      /\ \A i \in 1 .. m - n : pIncfile'[i].addr = pIncfile[i + n].addr
  BY <1>1 DEF Left, Same
<1>3. ASSUME NEW j \in 1 .. m - n, NEW k \in 1 .. m - n,
             pIncfile'[j].addr = pIncfile'[k].addr
      PROVE  j = k
  <2>1. j + n \in 1 .. m /\ k + n \in 1 .. m /\ (j + n = k + n => j = k)
    BY <1>2
  <2>2. pIncfile[j + n].addr = pIncfile[k + n].addr
    BY <1>2, <1>3
  <2> QED
    BY <1>1, <2>1, <2>2 DEF Distinct
<1> QED
  BY <1>2, <1>3 DEF Distinct

\* A new frame has an address of its own.
LEMMA DistinctEntered ==
  ASSUME FrameTypes, Distinct(pIncfile), Entered, pIncfile'[1].addr \in Allocated
  PROVE  Distinct(pIncfile')
<1>1. PICK m \in Nat : m = Len(pIncfile) /\ DOMAIN pIncfile = 1 .. m
  BY LenProperties DEF FrameTypes, FramesOK
<1>2. /\ Len(pIncfile') = m + 1
      /\ \A i \in 1 .. m : pIncfile'[i + 1].addr = pIncfile[i].addr
  BY <1>1 DEF Entered, Same
<1>3. \A i \in 1 .. m : pIncfile[i].addr # pIncfile'[1].addr
  BY <1>1, AllocatedNew DEF Live
<1>4. ASSUME NEW j \in 1 .. m + 1, j # 1
      PROVE  j - 1 \in 1 .. m /\ pIncfile'[j].addr = pIncfile[j - 1].addr
  <2>1. j - 1 \in 1 .. m /\ (j - 1) + 1 = j
    BY <1>4
  <2> QED
    BY <1>2, <2>1
<1>5. ASSUME NEW j \in 1 .. m + 1, NEW k \in 1 .. m + 1,
             pIncfile'[j].addr = pIncfile'[k].addr
      PROVE  j = k
  <2>1. j # 1 /\ k # 1 => j - 1 = k - 1
    BY <1>1, <1>4, <1>5 DEF Distinct
  <2>2. j = 1 <=> k = 1
    BY <1>3, <1>4, <1>5
  <2> QED
    BY <2>1, <2>2
<1> QED
  BY <1>2, <1>5 DEF Distinct

\* No two frames have the same address.
LEMMA DistinctStep ==
  ASSUME FrameTypes, OthersTyped, Distinct(pIncfile), [Next]_vars
  PROVE  Distinct(pIncfile')
<1>1. CASE Include
  BY <1>1, IncludeTypes, DistinctLeft, DistinctEntered DEF IncludeEnters
<1>2. CASE Call
  BY <1>2, CallTypes, DistinctLeft, DistinctEntered DEF CallEnters
<1>3. CASE Mac \/ UnknownMnemonic \/ If \/ Else \/ Endif \/ Repeat \/ Repend
  BY <1>3, MacTypes, OtherLines, IfTypes, ElseTypes, EndifTypes, RepeatTypes, RependTypes,
     DistinctLeft
<1>4. CASE Mexit \/ StrayEndm \/ End \/ EndOfMacro
  BY <1>4, MexitTypes, StrayEndmTypes, EndTypes, EndOfMacroTypes, DistinctLeft
     DEF MacrosLeft
<1>5. CASE Emit \/ Subroutine \/ Label \/ Skip
  BY <1>5, OtherLines, DistinctLeft
<1>6. CASE EndOfFile
  BY <1>6, EndOfFileTypes, DistinctLeft
<1>7. CASE NextPass
  BY <1>7, NextPassTypes, DistinctEntered
<1>8. CASE GiveUp \/ LastPass \/ UNCHANGED vars
  BY <1>8, FinishedTypes, DistinctLeft
<1> QED
  BY <1>1, <1>2, <1>3, <1>4, <1>5, <1>6, <1>7, <1>8 DEF Next, ReadLine

-----------------------------------------------------------------------------
(***************************************************************************)
(* What a line does to the stacks                                          *)
(***************************************************************************)

StacksBelong == Stacked(macros, source.files, pIncfile, Ifstack, Reploop)

\* I and R are the entries of the frame on top, S and T those below.
Split(I, R, S, T) ==
  /\ I \in Seq(IfNode) /\ S \in Seq(IfNode) /\ Ifstack = I \o S
  /\ R \in Seq(LoopNode) /\ T \in Seq(LoopNode) /\ Reploop = R \o T
  /\ Has(Text(Top), Top, I, R)
  /\ Stacked(macros, source.files, Tail(pIncfile), S, T)
  /\ \A i \in 1 .. Len(S) : S[i].file # Top.addr
  /\ \A i \in 1 .. Len(T) : T[i].file # Top.addr

\* What the handlers rely on, while the sources have the discipline.
Belongs ==
  FrameTypes /\ Distinct(pIncfile) /\ Disciplined /\ StacksBelong /\ pIncfile # <<>>

\* The frame on top, its text and its entries.
LEMMA TopEntries ==
  ASSUME Belongs
  PROVE  /\ Top \in Frame /\ Top = pIncfile[1] /\ Text(Top) \in Seq(Lines)
         /\ Tail(pIncfile) \in Seq(Frame) /\ Fits(Text(Top), Top)
         /\ \E I, R, S, T : Split(I, R, S, T)
<1>1. pIncfile \in Seq(Frame) /\ pIncfile # <<>> /\ Distinct(pIncfile)
  BY DEF Belongs, FrameTypes, FramesOK
<1>2. Top \in Frame /\ Top = pIncfile[1] /\ Tail(pIncfile) \in Seq(Frame) /\ Len(pIncfile) \in Nat \ {0}
  BY <1>1, Popped DEF Top
<1>3. Top.text \in (IF Top.macro THEN DOMAIN macros ELSE DOMAIN source.files)
  <2>1. 1 \in 1 .. Len(pIncfile)
    BY <1>2
  <2> QED
    BY <1>2, <2>1 DEF Belongs, FrameTypes, FramesOK
<1>4. Text(Top) \in Seq(Lines)
  BY <1>3 DEF Text, Belongs, FrameTypes, RunOK, MacrosOK
<1>5. Fits(Text(Top), Top)
  BY <1>3 DEF Fits, Text, Belongs, Disciplined
<1>6. Null \notin Addresses
  BY FrameAssumption
<1>7. PICK I \in Seq(IfNode), R \in Seq(LoopNode), S \in Seq(IfNode), T \in Seq(LoopNode) :
        /\ Ifstack = I \o S /\ Reploop = R \o T
        /\ Has(TextOf(macros, source.files, pIncfile[1]), pIncfile[1], I, R)
        /\ Stacked(macros, source.files, Tail(pIncfile), S, T)
  <2>1. Stacked(macros, source.files, pIncfile, Ifstack, Reploop)
    BY DEF Belongs, StacksBelong
  <2>2. PICK ms, files, fs, P, Q :
          ms = macros /\ files = source.files /\ fs = pIncfile /\ P = Ifstack /\ Q = Reploop
    OBVIOUS
  <2>3. fs \in Seq(Frame) /\ fs # <<>> /\ Stacked(ms, files, fs, P, Q)
    BY <1>1, <2>1, <2>2
  <2>4. Parted(ms, files, fs, P, Q)
    BY ONLY <2>3, StackedPop
  <2> QED
    BY <2>2, <2>4 DEF Parted
<1>8. TextOf(macros, source.files, pIncfile[1]) = Text(Top)
  BY <1>2 DEF TextOf, Text
<1>9. /\ \A i \in 1 .. Len(S) : S[i].file # pIncfile[1].addr
      /\ \A i \in 1 .. Len(T) : T[i].file # pIncfile[1].addr
  BY <1>1, <1>6, <1>7, OthersBelow
<1>10. Split(I, R, S, T)
  BY <1>2, <1>7, <1>8, <1>9 DEF Split
<1> QED
  BY <1>2, <1>4, <1>5, <1>10

\* What is on top of Ifstack and Reploop.
LEMMA TopOfStacks ==
  ASSUME Belongs, NEW I, NEW R, NEW S, NEW T, Split(I, R, S, T)
  PROVE  /\ I # <<>> => /\ Head(Ifstack) = Head(I) /\ Tail(Ifstack) = Tail(I) \o S
                        /\ Head(I).file = Top.addr /\ Head(I) \in IfNode
                        /\ Tail(I) \in Seq(IfNode)
         /\ I = <<>> => Ifstack = S /\ Head(Ifstack).file # Top.addr
         /\ R # <<>> => /\ Head(Reploop) = Head(R) /\ Tail(Reploop) = Tail(R) \o T
                        /\ Head(R) \in LoopNode /\ Head(R).file = Top.addr
                        /\ Head(R).macro = Top.macro /\ Head(R).text = Top.text
                        /\ Tail(R) \in Seq(LoopNode)
         /\ InLoop <=> R # <<>>
<1>1. /\ I \in Seq(IfNode) /\ S \in Seq(IfNode) /\ Ifstack = I \o S
      /\ R \in Seq(LoopNode) /\ T \in Seq(LoopNode) /\ Reploop = R \o T
      /\ Own(Top, I, R)
      /\ \A i \in 1 .. Len(S) : S[i].file # Top.addr
      /\ \A i \in 1 .. Len(T) : T[i].file # Top.addr
  BY DEF Split, Has
<1>2. Ifstack # <<>>
  BY DEF Belongs, FrameTypes, StackOK
<1>3. I # <<>> => /\ Head(Ifstack) = Head(I) /\ Tail(Ifstack) = Tail(I) \o S
                  /\ Tail(I) \in Seq(IfNode)
  BY <1>1, OnConcat
<1>4. R # <<>> => /\ Head(Reploop) = Head(R) /\ Tail(Reploop) = Tail(R) \o T
                  /\ Tail(R) \in Seq(LoopNode) /\ Reploop # <<>>
  BY <1>1, OnConcat
<1>5. I = <<>> => Ifstack = S
  BY <1>1, OnConcat
<1>6. R = <<>> => Reploop = T
  BY <1>1, OnConcat
<1>7. I # <<>> => Head(I).file = Top.addr /\ Head(I) \in IfNode
  <2>1. SUFFICES ASSUME I # <<>> PROVE Head(I).file = Top.addr /\ Head(I) \in IfNode
    OBVIOUS
  <2>2. Len(I) \in Nat \ {0} /\ Head(I) = I[1] /\ I[1] \in IfNode
    BY <1>1, <2>1, Popped
  <2>3. 1 \in 1 .. Len(I)
    BY <2>2
  <2> QED
    BY <1>1, <2>2, <2>3 DEF Own
<1>8. R # <<>> => /\ Head(R) \in LoopNode /\ Head(R).file = Top.addr
                  /\ Head(R).macro = Top.macro /\ Head(R).text = Top.text
  <2>1. SUFFICES ASSUME R # <<>>
                 PROVE  /\ Head(R) \in LoopNode /\ Head(R).file = Top.addr
                        /\ Head(R).macro = Top.macro /\ Head(R).text = Top.text
    OBVIOUS
  <2>2. Len(R) \in Nat \ {0} /\ Head(R) = R[1] /\ R[1] \in LoopNode
    BY <1>1, <2>1, Popped
  <2>3. 1 \in 1 .. Len(R)
    BY <2>2
  <2> QED
    BY <1>1, <2>2, <2>3 DEF Own
<1>9. I = <<>> => Head(Ifstack).file # Top.addr
  <2>1. SUFFICES ASSUME I = <<>> PROVE Head(Ifstack).file # Top.addr
    OBVIOUS
  <2>2. S # <<>> /\ Ifstack = S
    BY <1>2, <1>5, <2>1
  <2>3. Len(S) \in Nat \ {0} /\ Head(S) = S[1]
    BY <1>1, <2>2, Popped
  <2>4. 1 \in 1 .. Len(S)
    BY <2>3
  <2> QED
    BY <1>1, <2>2, <2>3, <2>4
<1>10. InLoop <=> R # <<>>
  <2>1. R # <<>> => InLoop
    BY <1>4, <1>8 DEF InLoop
  <2>2. ASSUME R = <<>>, InLoop PROVE FALSE
    <3>1. T # <<>> /\ Head(T).file = Top.addr
      BY <1>6, <2>2 DEF InLoop
    <3>2. Len(T) \in Nat \ {0} /\ Head(T) = T[1]
      BY <1>1, <3>1, Popped
    <3>3. 1 \in 1 .. Len(T)
      BY <3>2
    <3> QED
      BY <1>1, <3>1, <3>2, <3>3
  <2> QED
    BY <2>1, <2>2
<1> QED
  BY <1>3, <1>4, <1>5, <1>7, <1>8, <1>9, <1>10

\* The frame on top has moved in its text, and has other entries.
LEMMA TopReplaced ==
  ASSUME Belongs, NEW I, NEW R, NEW S, NEW T, Split(I, R, S, T), NEW g \in Frame,
         g.macro = Top.macro, g.text = Top.text,
         NEW J \in Seq(IfNode), NEW Q \in Seq(LoopNode), Has(Text(Top), g, J, Q)
  PROVE  Stacked(macros, source.files, <<g>> \o Tail(pIncfile), J \o S, Q \o T)
<1>1. TextOf(macros, source.files, g) = Text(Top)
  BY DEF TextOf, Text
<1>2. Tail(pIncfile) \in Seq(Frame)
  BY TopEntries
<1>3. Stacked(macros, source.files, Tail(pIncfile), S, T)
  BY DEF Split
<1>4. PICK fs, ms, files : fs = Tail(pIncfile) /\ ms = macros /\ files = source.files
  OBVIOUS
<1>5. Has(TextOf(ms, files, g), g, J, Q) /\ fs \in Seq(Frame) /\ Stacked(ms, files, fs, S, T)
  BY <1>1, <1>2, <1>3, <1>4
<1>6. Stacked(ms, files, <<g>> \o fs, J \o S, Q \o T)
  BY <1>5, StackedPush
<1> QED
  BY <1>4, <1>6

\* The frame on top is read on.
LEMMA TopFetched ==
  ASSUME Belongs
  PROVE  \E g \in Frame : Fetched = <<g>> \o Tail(pIncfile) /\ Moved(Top, g, Top.pos + 1)
<1> DEFINE g == [Top EXCEPT !.pos = @ + 1]
<1>1. Top \in Frame
  BY TopEntries
<1>2. Top.pos + 1 \in Nat \ {0}
  BY <1>1 DEF Frame
<1>3. g \in Frame /\ Moved(Top, g, Top.pos + 1)
  BY <1>1, <1>2, FrameMoved DEF Moved
<1> QED
  BY <1>3 DEF Fetched

\* The line is one of the text of the frame on top.
LEMMA LinePlace ==
  ASSUME Belongs, AtLine
  PROVE  Top.pos \in 1 .. Len(Text(Top)) /\ Line = Text(Top)[Top.pos]
<1>1. Top \in Frame /\ Text(Top) \in Seq(Lines)
  BY TopEntries
<1>2. PICK n \in Nat : n = Len(Text(Top))
  BY <1>1, LenProperties
<1>3. Top.pos \in Nat \ {0} /\ Top.pos <= n
  BY <1>1, <1>2 DEF Frame, AtLine
<1> QED
  BY <1>2, <1>3 DEF Line

\* A line that opens and closes nothing.
LEMMA PlainStacked ==
  ASSUME Belongs, AtLine, Line.op \notin Openings \cup Closings \cup {"mac"}
  PROVE  Stacked(macros, source.files, Fetched, Ifstack, Reploop)
<1>1. PICK I, R, S, T : Split(I, R, S, T)
  BY TopEntries
<1>2. PICK g \in Frame : Fetched = <<g>> \o Tail(pIncfile) /\ Moved(Top, g, Top.pos + 1)
  BY TopFetched
<1>3. PICK ls, f : ls = Text(Top) /\ f = Top
  OBVIOUS
<1>4. ls \in Seq(Lines) /\ f.pos \in 1 .. Len(ls) /\ Line = ls[f.pos]
  BY <1>3, TopEntries, LinePlace
<1>5. I \in Seq(IfNode) /\ R \in Seq(LoopNode) /\ Has(ls, f, I, R)
  BY <1>1, <1>3 DEF Split
<1>6. Has(ls, g, I, R)
  BY <1>2, <1>3, <1>4, <1>5, PlainKept
<1>7. g.macro = Top.macro /\ g.text = Top.text
  BY <1>2 DEF Moved
<1>8. Stacked(macros, source.files, <<g>> \o Tail(pIncfile), I \o S, R \o T)
  BY <1>1, <1>3, <1>5, <1>6, <1>7, TopReplaced
<1> QED
  BY <1>1, <1>2, <1>8 DEF Split

\* Entries are marked when they are pushed.
LEMMA OwnPushed ==
  ASSUME NEW f, NEW I \in Seq(IfNode), NEW R \in Seq(LoopNode), Own(f, I, R)
  PROVE  /\ \A e \in IfNode : e.file = f.addr => Own(f, <<e>> \o I, R)
         /\ \A r \in LoopNode :
              r.file = f.addr /\ r.macro = f.macro /\ r.text = f.text => Own(f, I, <<r>> \o R)
         /\ I # <<>> => Own(f, Tail(I), R)
         /\ R # <<>> => Own(f, I, Tail(R))
<1>1. /\ \A i \in 1 .. Len(I) : I[i].file = f.addr
      /\ \A i \in 1 .. Len(R) : R[i].file = f.addr /\ R[i].macro = f.macro /\ R[i].text = f.text
  BY DEF Own
<1>2. PICK n \in Nat, m \in Nat : n = Len(I) /\ m = Len(R)
  BY LenProperties
<1>3. ASSUME NEW e \in IfNode, e.file = f.addr
      PROVE  Own(f, <<e>> \o I, R)
  <2>1. PICK J : J = <<e>> \o I
    OBVIOUS
  <2>2. Len(J) = n + 1 /\ J[1] = e /\ \A i \in 1 .. n : J[i + 1] = I[i]
    BY <1>2, <2>1, Pushed
  <2>3. ASSUME NEW i \in 1 .. n + 1 PROVE J[i].file = f.addr
    <3>1. i # 1 => i - 1 \in 1 .. n /\ (i - 1) + 1 = i
      BY <1>2
    <3>2. CASE i = 1
      BY <1>3, <2>2, <3>2
    <3>3. CASE i # 1
      <4>1. J[i] = I[i - 1]
        BY <2>2, <3>1, <3>3
      <4> QED
        BY <1>1, <1>2, <3>1, <3>3, <4>1
    <3> QED
      BY <3>2, <3>3
  <2> QED
    BY <1>1, <2>1, <2>2, <2>3 DEF Own
<1>4. ASSUME NEW r \in LoopNode, r.file = f.addr, r.macro = f.macro, r.text = f.text
      PROVE  Own(f, I, <<r>> \o R)
  <2>1. PICK Q : Q = <<r>> \o R
    OBVIOUS
  <2>2. Len(Q) = m + 1 /\ Q[1] = r /\ \A i \in 1 .. m : Q[i + 1] = R[i]
    BY <1>2, <2>1, Pushed
  <2>3. ASSUME NEW i \in 1 .. m + 1
        PROVE  Q[i].file = f.addr /\ Q[i].macro = f.macro /\ Q[i].text = f.text
    <3>1. i # 1 => i - 1 \in 1 .. m /\ (i - 1) + 1 = i
      BY <1>2
    <3> QED
      BY <1>1, <1>2, <1>4, <2>2, <3>1
  <2> QED
    BY <1>1, <2>1, <2>2, <2>3 DEF Own
<1>5. ASSUME I # <<>> PROVE Own(f, Tail(I), R)
  <2>1. PICK J : J = Tail(I)
    OBVIOUS
  <2>2. Len(J) = n - 1 /\ \A i \in 1 .. n - 1 : J[i] = I[i + 1]
    BY <1>2, <1>5, <2>1, Popped
  <2>3. \A i \in 1 .. n - 1 : i + 1 \in 1 .. n
    BY <1>2
  <2> QED
    BY <1>1, <1>2, <2>1, <2>2, <2>3 DEF Own
<1>6. ASSUME R # <<>> PROVE Own(f, I, Tail(R))
  <2>1. PICK Q : Q = Tail(R)
    OBVIOUS
  <2>2. Len(Q) = m - 1 /\ \A i \in 1 .. m - 1 : Q[i] = R[i + 1]
    BY <1>2, <1>6, <2>1, Popped
  <2>3. \A i \in 1 .. m - 1 : i + 1 \in 1 .. m
    BY <1>2
  <2> QED
    BY <1>1, <1>2, <2>1, <2>2, <2>3 DEF Own
<1> QED
  BY <1>3, <1>4, <1>5, <1>6

\* An IF, or a REPEAT whose loop is skipped or is the one that is pushed.
LEMMA OpenStacked ==
  ASSUME Belongs, AtLine, Line.op \in Openings, NEW e \in IfNode, e.file = Top.addr
  PROVE  /\ (Line.op = "repeat" => ~e.xtrue)
              => Stacked(macros, source.files, Fetched, <<e>> \o Ifstack, Reploop)
         /\ \A r \in LoopNode :
              /\ Line.op = "repeat" /\ e.xtrue /\ e.acctrue
              /\ r.file = Top.addr /\ r.macro = Top.macro /\ r.text = Top.text
              /\ r.pos = Top.pos + 1
              => Stacked(macros, source.files, Fetched, <<e>> \o Ifstack, <<r>> \o Reploop)
<1>1. PICK I, R, S, T : Split(I, R, S, T)
  BY TopEntries
<1>2. PICK g \in Frame : Fetched = <<g>> \o Tail(pIncfile) /\ Moved(Top, g, Top.pos + 1)
  BY TopFetched
<1>3. PICK ls, f : ls = Text(Top) /\ f = Top
  OBVIOUS
<1>4. ls \in Seq(Lines) /\ f.pos \in 1 .. Len(ls) /\ Line = ls[f.pos]
  BY <1>3, TopEntries, LinePlace
<1>5. I \in Seq(IfNode) /\ R \in Seq(LoopNode) /\ Has(ls, f, I, R) /\ Own(f, I, R)
  BY <1>1, <1>3 DEF Split, Has
<1>6. g.macro = Top.macro /\ g.text = Top.text
  BY <1>2 DEF Moved
<1>7. /\ S \in Seq(IfNode) /\ Ifstack = I \o S
      /\ T \in Seq(LoopNode) /\ Reploop = R \o T
  BY <1>1 DEF Split
<1>8. <<e>> \o I \in Seq(IfNode) /\ <<e>> \o Ifstack = (<<e>> \o I) \o S
  <2>1. I \in Seq(IfNode) /\ S \in Seq(IfNode) /\ e \in IfNode
    BY <1>5, <1>7
  <2>2. <<e>> \o I \in Seq(IfNode)
    BY ONLY <2>1, Pushed
  <2>3. <<e>> \o (I \o S) = (<<e>> \o I) \o S
    BY ONLY <2>1, OnConcat
  <2> QED
    BY <1>7, <2>2, <2>3
<1>9. Own(f, <<e>> \o I, R)
  BY <1>3, <1>5, OwnPushed
<1>10. ASSUME Line.op = "repeat" => ~e.xtrue
       PROVE  Stacked(macros, source.files, Fetched, <<e>> \o Ifstack, Reploop)
  <2>1. Linked(ls[f.pos].op, f.pos, e, R, R)
    BY <1>4, <1>10, Zenon DEF Linked
  <2>2. Has(ls, g, <<e>> \o I, R)
    BY <1>2, <1>3, <1>4, <1>5, <1>9, <2>1, OpenedKept
  <2>3. Stacked(macros, source.files, <<g>> \o Tail(pIncfile), (<<e>> \o I) \o S, R \o T)
    BY <1>1, <1>3, <1>5, <1>6, <1>8, <2>2, TopReplaced
  <2> QED
    BY <1>2, <1>7, <1>8, <2>3
<1>11. ASSUME NEW r \in LoopNode, Line.op = "repeat", e.xtrue, e.acctrue,
              r.file = Top.addr, r.macro = Top.macro, r.text = Top.text, r.pos = Top.pos + 1
       PROVE  Stacked(macros, source.files, Fetched, <<e>> \o Ifstack, <<r>> \o Reploop)
  <2>1. PICK Q : Q = <<r>> \o R
    OBVIOUS
  <2>2. Q \in Seq(LoopNode) /\ Q # <<>>
    BY <1>5, <2>1, Pushed
  <2>3. Head(Q) = r /\ Tail(Q) = R
    BY <1>5, <2>1, TailConcat
  <2>4. <<r>> \o Reploop = Q \o T
    <3>1. R \in Seq(LoopNode) /\ T \in Seq(LoopNode) /\ r \in LoopNode
      BY <1>5, <1>7
    <3>2. <<r>> \o (R \o T) = (<<r>> \o R) \o T
      BY ONLY <3>1, OnConcat
    <3> QED
      BY <1>7, <2>1, <3>2
  <2>5. Linked(ls[f.pos].op, f.pos, e, Q, R)
    BY <1>3, <1>4, <1>11, <2>2, <2>3 DEF Linked
  <2>6. Own(f, <<e>> \o I, Q)
    BY <1>3, <1>5, <1>8, <1>9, <1>11, <2>1, OwnPushed
  <2>7. Has(ls, g, <<e>> \o I, Q)
    BY <1>2, <1>3, <1>4, <1>5, <2>2, <2>5, <2>6, OpenedKept
  <2>8. Stacked(macros, source.files, <<g>> \o Tail(pIncfile), (<<e>> \o I) \o S, Q \o T)
    BY <1>1, <1>3, <1>6, <1>8, <2>2, <2>7, TopReplaced
  <2> QED
    BY <1>2, <1>8, <2>4, <2>8
<1> QED
  BY <1>10, <1>11

\* pushif().
LEMMA IfStacked == ASSUME Belongs, If PROVE StacksBelong'
<1>1. /\ AtLine /\ Line.op \in Openings /\ Line.op # "repeat"
      /\ pIncfile' = Fetched /\ UNCHANGED <<macros, source, Reploop>>
  BY DEF If, At, loop, Openings
<1>2. PICK e : Ifstack' = <<e>> \o Ifstack /\ e \in IfNode /\ e.file = Top.addr
  <2>1. FrameTypes
    BY DEF Belongs
  <2>2. /\ \A x \in BOOLEAN : IfEntry(x) \in IfNode
        /\ [IfEntry(FALSE) EXCEPT !.acctrue = FALSE] \in IfNode
    BY <1>1, <2>1, IfEntryTyped
  <2>3. /\ \A x : IfEntry(x).file = Top.addr
        /\ [IfEntry(FALSE) EXCEPT !.acctrue = FALSE].file = Top.addr
    BY DEF IfEntry
  <2>4. \/ Ifstack' = <<[IfEntry(FALSE) EXCEPT !.acctrue = FALSE]>> \o Ifstack
        \/ Ifstack' = <<IfEntry(Active /\ Line.arg.val # 0)>> \o Ifstack
    BY DEF If, PushIf
  <2>5. (Active /\ Line.arg.val # 0) \in BOOLEAN
    OBVIOUS
  <2> QED
    BY <2>2, <2>3, <2>4, <2>5
<1>3. Stacked(macros, source.files, Fetched, <<e>> \o Ifstack, Reploop)
  BY <1>1, <1>2, OpenStacked
<1> QED
  BY <1>1, <1>2, <1>3 DEF StacksBelong

\* REPEAT.
LEMMA RepeatStacked == ASSUME Belongs, Repeat PROVE StacksBelong'
<1>1. /\ AtLine /\ Line.op \in Openings /\ Line.op = "repeat"
      /\ pIncfile' = Fetched /\ UNCHANGED <<macros, source>>
  BY DEF Repeat, At, loop, Openings
<1>2. FrameTypes
  BY DEF Belongs
<1>3. /\ \A x \in BOOLEAN : IfEntry(x) \in IfNode
      /\ \A x : IfEntry(x).file = Top.addr /\ IfEntry(x).xtrue = x /\ IfEntry(x).acctrue = Active
  BY <1>1, <1>2, IfEntryTyped DEF IfEntry
<1>4. CASE Active /\ Line.arg.val > 0
  <2>1. Ifstack' = <<IfEntry(TRUE)>> \o Ifstack /\ Reploop' = <<LoopEntry(Line.arg)>> \o Reploop
    BY <1>4 DEF Repeat, PushIf
  <2>2. LoopEntry(Line.arg) \in LoopNode
    <3>1. Line.arg.val \in Int
      BY <1>1, <1>2, LineTyped
    <3>2. Top \in Frame
      BY TopEntries
    <3>3. (~Unknown(Line.arg)) \in BOOLEAN /\ Line.arg.val \in Nat \ {0} /\ Top.pos + 1 \in Nat \ {0}
      BY <1>4, <3>1, <3>2 DEF Frame
    <3> QED
      BY <3>2, <3>3 DEF LoopEntry, LoopNode, Frame
  <2>3. PICK e, r : e = IfEntry(TRUE) /\ r = LoopEntry(Line.arg)
    OBVIOUS
  <2>4. /\ r \in LoopNode /\ r.file = Top.addr /\ r.macro = Top.macro /\ r.text = Top.text
        /\ r.pos = Top.pos + 1
    BY <2>2, <2>3 DEF LoopEntry
  <2>5. e \in IfNode /\ e.file = Top.addr /\ e.xtrue /\ e.acctrue
    BY <1>3, <1>4, <2>3
  <2>6. Stacked(macros, source.files, Fetched, <<e>> \o Ifstack, <<r>> \o Reploop)
    BY <1>1, <2>4, <2>5, OpenStacked
  <2> QED
    BY <1>1, <2>1, <2>3, <2>6 DEF StacksBelong
<1>5. CASE ~(Active /\ Line.arg.val > 0)
  <2>1. Ifstack' = <<IfEntry(FALSE)>> \o Ifstack /\ Reploop' = Reploop
    BY <1>5 DEF Repeat, PushIf
  <2>2. PICK e : e = IfEntry(FALSE)
    OBVIOUS
  <2>3. e \in IfNode /\ e.file = Top.addr /\ ~e.xtrue
    BY <1>3, <2>2
  <2>4. Stacked(macros, source.files, Fetched, <<e>> \o Ifstack, Reploop)
    BY <1>1, <2>3, OpenStacked
  <2> QED
    BY <1>1, <2>1, <2>2, <2>4 DEF StacksBelong
<1> QED
  BY <1>4, <1>5

\* ELSE flips an entry of the frame on top.
LEMMA ElseStacked == ASSUME Belongs, Else PROVE StacksBelong'
<1>1. PICK I, R, S, T : Split(I, R, S, T)
  BY TopEntries
<1>2. PICK g \in Frame : Fetched = <<g>> \o Tail(pIncfile) /\ Moved(Top, g, Top.pos + 1)
  BY TopFetched
<1>3. AtLine /\ Line.op = "else" /\ pIncfile' = Fetched /\ UNCHANGED <<macros, source, Reploop>>
  BY DEF Else, At, loop
<1>4. PICK ls, f : ls = Text(Top) /\ f = Top
  OBVIOUS
<1>5. ls \in Seq(Lines) /\ f.pos \in 1 .. Len(ls) /\ ls[f.pos].op = "else" /\ Fits(ls, f)
  BY <1>3, <1>4, TopEntries, LinePlace
<1>6. I \in Seq(IfNode) /\ R \in Seq(LoopNode) /\ Has(ls, f, I, R)
  BY <1>1, <1>4 DEF Split
<1>7. I # <<>> /\ \A e \in IfNode : e.file = f.addr => Has(ls, g, <<e>> \o Tail(I), R)
  BY <1>2, <1>4, <1>5, <1>6, ElseKept
<1>8. /\ Head(Ifstack) = Head(I) /\ Tail(Ifstack) = Tail(I) \o S /\ Head(I).file = Top.addr
      /\ Head(I) \in IfNode /\ Tail(I) \in Seq(IfNode)
  BY <1>1, <1>7, TopOfStacks
<1>9. PICK h, e : h = Head(I) /\ e \in IfNode /\ e.file = Top.addr
                  /\ Ifstack' = <<e>> \o Tail(Ifstack)
  <2> DEFINE flip == [Head(I) EXCEPT !.xtrue = ~@]
  <2>1. flip \in IfNode /\ flip.file = Top.addr
    BY <1>8 DEF IfNode
  <2>2. CASE Ifstack' = <<[Head(Ifstack) EXCEPT !.xtrue = ~@]>> \o Tail(Ifstack)
    BY <1>8, <2>1, <2>2
  <2>3. CASE Ifstack' = Ifstack
    <3>1. Ifstack \in Seq(IfNode) /\ Ifstack # <<>>
      BY DEF Belongs, FrameTypes, StackOK
    <3>2. Ifstack = <<Head(Ifstack)>> \o Tail(Ifstack)
      BY <3>1, HeadPushed
    <3> QED
      BY <1>8, <2>3, <3>2
  <2> QED
    BY <2>2, <2>3 DEF Else
<1>10. S \in Seq(IfNode) /\ T \in Seq(LoopNode) /\ Reploop = R \o T
  BY <1>1 DEF Split
<1>11. PICK J : J = <<e>> \o Tail(I)
  OBVIOUS
<1>12. J \in Seq(IfNode) /\ Has(ls, g, J, R)
  BY <1>4, <1>7, <1>8, <1>9, <1>11, Pushed
<1>13. Ifstack' = J \o S
  <2>1. PICK t : t = Tail(I)
    OBVIOUS
  <2>2. t \in Seq(IfNode) /\ S \in Seq(IfNode) /\ e \in IfNode
    BY <1>8, <1>9, <1>10, <2>1
  <2>3. <<e>> \o (t \o S) = (<<e>> \o t) \o S
    BY ONLY <2>2, OnConcat
  <2> QED
    BY <1>8, <1>9, <1>11, <2>1, <2>3
<1>14. g.macro = Top.macro /\ g.text = Top.text
  BY <1>2 DEF Moved
<1>15. Stacked(macros, source.files, <<g>> \o Tail(pIncfile), J \o S, R \o T)
  BY <1>1, <1>4, <1>6, <1>12, <1>14, TopReplaced
<1> QED
  BY <1>2, <1>3, <1>10, <1>13, <1>15 DEF StacksBelong

\* v_endif() removes the entry of the frame on top, if there is one.
LEMMA EndifSplit ==
  ASSUME Belongs, NEW I, NEW R, NEW S, NEW T, Split(I, R, S, T), v_endif
  PROVE  \E J \in Seq(IfNode) : /\ Ifstack' = J \o S /\ Own(Top, J, R)
                                /\ I = <<>> => J = <<>>
                                /\ I # <<>> => J = Tail(I)
<1>1. /\ I \in Seq(IfNode) /\ R \in Seq(LoopNode) /\ Ifstack = I \o S /\ Own(Top, I, R)
  BY DEF Split, Has
<1>2. CASE I = <<>>
  <2>1. Ifstack' = Ifstack
    BY <1>2, TopOfStacks DEF v_endif
  <2> QED
    BY <1>1, <1>2, <2>1
<1>3. CASE I # <<>>
  <2>1. Ifstack' = Tail(I) \o S /\ Tail(I) \in Seq(IfNode)
    BY <1>3, TopOfStacks DEF v_endif
  <2>2. Own(Top, Tail(I), R)
    BY <1>1, <1>3, OwnPushed
  <2> QED
    BY <1>3, <2>1, <2>2
<1> QED
  BY <1>2, <1>3

\* A line that closes something, or does not.
LEMMA CloseStacked ==
  ASSUME Belongs, AtLine, Line.op \in Closings, NEW I, NEW R, NEW S, NEW T, Split(I, R, S, T),
         NEW J \in Seq(IfNode), NEW Q \in Seq(LoopNode), Own(Top, J, Q),
         I = <<>> /\ R = <<>> => J = <<>> /\ Q = <<>>,
         I # <<>> => \A op, o, D :
           /\ Line.op = "endif" => op = "if"
           /\ Line.op = "repend" => op = "repeat"
           /\ Linked(op, o, Head(I), R, D)
           => J = Tail(I) /\ D = Q
  PROVE  Stacked(macros, source.files, Fetched, J \o S, Q \o T)
<1>1. PICK g \in Frame : Fetched = <<g>> \o Tail(pIncfile) /\ Moved(Top, g, Top.pos + 1)
  BY TopFetched
<1>2. PICK ls, f : ls = Text(Top) /\ f = Top
  OBVIOUS
<1>3. ls \in Seq(Lines) /\ f.pos \in 1 .. Len(ls) /\ Line = ls[f.pos] /\ Fits(ls, f)
  BY <1>2, TopEntries, LinePlace
<1>4. I \in Seq(IfNode) /\ R \in Seq(LoopNode) /\ Has(ls, f, I, R)
  BY <1>2 DEF Split
<1>5. PICK op : op = Line.op /\ op \in Closings /\ ls[f.pos].op = op
  BY <1>3
<1>6. I # <<>> => \A p, o, D :
        /\ ls[f.pos].op = "endif" => p = "if"
        /\ ls[f.pos].op = "repend" => p = "repeat"
        /\ Linked(p, o, Head(I), R, D)
        => J = Tail(I) /\ D = Q
  BY <1>5
<1>7. /\ Moved(f, g, f.pos + 1) /\ ls[f.pos].op \in Closings /\ Own(f, J, Q)
      /\ (I = <<>> /\ R = <<>> => J = <<>> /\ Q = <<>>)
  BY <1>1, <1>2, <1>5
<1>8. Has(ls, g, J, Q)
  BY ONLY <1>3, <1>4, <1>6, <1>7, J \in Seq(IfNode), Q \in Seq(LoopNode), ClosedKept
<1>9. g.macro = Top.macro /\ g.text = Top.text
  BY <1>1 DEF Moved
<1>10. Stacked(macros, source.files, <<g>> \o Tail(pIncfile), J \o S, Q \o T)
  BY <1>2, <1>8, <1>9, TopReplaced
<1> QED
  BY <1>1, <1>10

\* ENDIF.
LEMMA EndifStacked == ASSUME Belongs, Endif PROVE StacksBelong'
<1>1. PICK I, R, S, T : Split(I, R, S, T)
  BY TopEntries
<1>2. /\ AtLine /\ Line.op = "endif" /\ v_endif
      /\ pIncfile' = Fetched /\ UNCHANGED <<macros, source, Reploop>>
  BY DEF Endif, At, loop
<1>3. PICK J \in Seq(IfNode) : /\ Ifstack' = J \o S /\ Own(Top, J, R)
                               /\ I = <<>> => J = <<>>
                               /\ I # <<>> => J = Tail(I)
  BY <1>1, <1>2, EndifSplit
<1>4. R \in Seq(LoopNode) /\ Reploop = R \o T
  BY <1>1 DEF Split
<1>5. ASSUME I # <<>>, NEW op, NEW o, NEW D, op = "if", Linked(op, o, Head(I), R, D)
      PROVE  J = Tail(I) /\ D = R
  <2>1. "if" # "repeat"
    OBVIOUS
  <2>2. R = D
    BY <1>5, <2>1, Zenon DEF Linked
  <2> QED
    BY <1>3, <1>5, <2>2
<1>6. Line.op \in Closings
  BY <1>2 DEF Closings
<1>7. Stacked(macros, source.files, Fetched, J \o S, R \o T)
  BY <1>1, <1>2, <1>3, <1>4, <1>5, <1>6, CloseStacked
<1> QED
  BY <1>2, <1>3, <1>4, <1>7 DEF StacksBelong

\* REPEND.
LEMMA RependStacked == ASSUME Belongs, Repend PROVE StacksBelong'
<1>1. PICK I, R, S, T : Split(I, R, S, T)
  BY TopEntries
<1>2. AtLine /\ Line.op = "repend" /\ UNCHANGED <<macros, source>>
  BY DEF Repend, At
<1>3. Line.op \in Closings /\ Line.op # "endif"
  BY <1>2 DEF Closings
<1>4. /\ I \in Seq(IfNode) /\ Ifstack = I \o S
      /\ R \in Seq(LoopNode) /\ Reploop = R \o T /\ Own(Top, I, R)
      /\ S \in Seq(IfNode) /\ T \in Seq(LoopNode)
  BY <1>1 DEF Split, Has
<1>5. CASE ~Active /\ v_endif /\ pIncfile' = Fetched /\ UNCHANGED Reploop
  <2>1. PICK J \in Seq(IfNode) : /\ Ifstack' = J \o S /\ Own(Top, J, R)
                                 /\ I = <<>> => J = <<>>
                                 /\ I # <<>> => J = Tail(I)
    BY <1>1, <1>5, EndifSplit
  <2>2. I # <<>> => ~(Head(I).xtrue /\ Head(I).acctrue)
    BY <1>1, <1>5, TopOfStacks DEF Active
  <2>3. ASSUME I # <<>>, NEW op, NEW o, NEW D, Linked(op, o, Head(I), R, D)
        PROVE  J = Tail(I) /\ D = R
    BY <2>1, <2>2, <2>3 DEF Linked
  <2>4. Stacked(macros, source.files, Fetched, J \o S, R \o T)
    BY <1>1, <1>2, <1>3, <1>4, <2>1, <2>3, CloseStacked
  <2> QED
    BY <1>2, <1>4, <1>5, <2>1, <2>4 DEF StacksBelong
<1>6. CASE Active /\ InLoop /\ LeaveLoop
  <2>1. v_endif /\ pIncfile' = Fetched /\ Reploop' = Tail(Reploop)
    BY <1>6 DEF LeaveLoop
  <2>2. PICK J \in Seq(IfNode) : /\ Ifstack' = J \o S /\ Own(Top, J, R)
                                 /\ I = <<>> => J = <<>>
                                 /\ I # <<>> => J = Tail(I)
    BY <1>1, <2>1, EndifSplit
  <2>3. R # <<>> /\ Reploop' = Tail(R) \o T /\ Tail(R) \in Seq(LoopNode)
    BY <1>1, <1>6, <2>1, TopOfStacks
  <2>10. PICK Q \in Seq(LoopNode) : Q = Tail(R)
    BY <2>3
  <2>4. Own(Top, J, Q)
    BY <1>4, <2>2, <2>3, <2>10, OwnPushed
  <2>5. I # <<>> => Head(I).xtrue /\ Head(I).acctrue
    BY <1>1, <1>6, TopOfStacks DEF Active
  <2>6. ASSUME I # <<>>, NEW op, NEW o, NEW D, op = "repeat", Linked(op, o, Head(I), R, D)
        PROVE  J = Tail(I) /\ D = Q
    BY <2>2, <2>5, <2>6, <2>10 DEF Linked
  <2>7. Stacked(macros, source.files, Fetched, J \o S, Q \o T)
    <3>1. I # <<>> => \A op, o, D :
            /\ Line.op = "endif" => op = "if"
            /\ Line.op = "repend" => op = "repeat"
            /\ Linked(op, o, Head(I), R, D)
            => J = Tail(I) /\ D = Q
      BY <1>2, <2>6
    <3>2. I = <<>> /\ R = <<>> => J = <<>> /\ Q = <<>>
      BY <2>3, <2>10
    <3>3. /\ Q \in Seq(LoopNode) /\ J \in Seq(IfNode) /\ Own(Top, J, Q)
          /\ AtLine /\ Line.op \in Closings /\ Split(I, R, S, T) /\ Belongs
      BY <1>1, <1>2, <1>3, <2>2, <2>4, <2>10
    <3> QED
      BY ONLY <3>1, <3>2, <3>3, CloseStacked
  <2> QED
    BY <1>2, <2>1, <2>2, <2>3, <2>7, <2>10 DEF StacksBelong
<1>7. CASE Active /\ ~InLoop /\ pIncfile' = Fetched /\ UNCHANGED stacks
  <2>1. R = <<>>
    BY <1>1, <1>7, TopOfStacks
  <2>2. I # <<>> => Head(I).xtrue /\ Head(I).acctrue
    BY <1>1, <1>7, TopOfStacks DEF Active
  <2>3. ASSUME I # <<>>, NEW op, NEW o, NEW D, op = "repeat", Linked(op, o, Head(I), R, D)
        PROVE  I = Tail(I) /\ D = R
    BY <2>1, <2>2, <2>3 DEF Linked
  <2>4. Stacked(macros, source.files, Fetched, I \o S, R \o T)
    BY <1>1, <1>2, <1>3, <1>4, <2>3, CloseStacked
  <2> QED
    BY <1>2, <1>4, <1>7, <2>4 DEF StacksBelong, stacks
<1>8. CASE Active /\ InLoop /\ OnceMore /\ JumpBack
  <2> DEFINE r == [Head(R) EXCEPT !.count = @ - 1]
  <2>1. /\ R # <<>> /\ Head(Reploop) = Head(R) /\ Tail(Reploop) = Tail(R) \o T
        /\ Head(R) \in LoopNode /\ Head(R).file = Top.addr
        /\ Head(R).macro = Top.macro /\ Head(R).text = Top.text /\ Tail(R) \in Seq(LoopNode)
    BY <1>1, <1>8, TopOfStacks
  <2>2. Ifstack' = Ifstack /\ Reploop' = <<r>> \o (Tail(R) \o T)
    BY <1>8, <2>1 DEF JumpBack
  <2>3. r \in LoopNode /\ r.file = Head(R).file /\ r.macro = Head(R).macro
        /\ r.text = Head(R).text /\ r.pos = Head(R).pos
    <3>1. PICK h : h = Head(R)
      OBVIOUS
    <3>2. h \in LoopNode /\ h.count # 1 /\ r = [h EXCEPT !.count = h.count - 1]
      BY <1>8, <2>1, <3>1 DEF OnceMore
    <3> HIDE DEF r
    <3>3. /\ r \in LoopNode /\ r.file = h.file /\ r.macro = h.macro
          /\ r.text = h.text /\ r.pos = h.pos
      BY ONLY <3>2 DEF LoopNode
    <3> QED
      BY <3>1, <3>3
  <2> HIDE DEF r
  <2>4. Top \in Frame
    BY TopEntries
  <2>5. PICK g : g = Sought(Top, Head(R))
    OBVIOUS
  <2>6. pIncfile' = <<g>> \o Tail(pIncfile)
    BY <1>8, <2>1, <2>5 DEF JumpBack, Seek
  <2>7. g \in Frame /\ Moved(Top, g, Head(R).pos)
    <3>1. CASE Top.macro
      BY <2>1, <2>4, <2>5, <3>1 DEF Sought, Moved, Frame, LoopNode
    <3>2. CASE ~Top.macro
      BY <2>1, <2>4, <2>5, <3>2 DEF Sought, Moved, Frame, LoopNode
    <3> QED
      BY <3>1, <3>2
  <2>8. PICK ls, f : ls = Text(Top) /\ f = Top
    OBVIOUS
  <2>9. ls \in Seq(Lines) /\ f.pos \in 1 .. Len(ls) /\ ls[f.pos].op = "repend" /\ Fits(ls, f)
    BY <1>2, <2>8, TopEntries, LinePlace
  <2>10. Has(ls, f, I, R)
    BY <1>1, <2>8 DEF Split
  <2>11. I # <<>> => Head(I).xtrue
    BY <1>1, <1>8, TopOfStacks DEF Active
  <2>12. PICK Q : Q = <<r>> \o Tail(R)
    OBVIOUS
  <2>13. Has(ls, g, I, Q)
    BY <1>4, <2>1, <2>3, <2>7, <2>8, <2>9, <2>10, <2>11, <2>12, JumpKept
  <2>14. Q \in Seq(LoopNode) /\ Reploop' = Q \o T
    <3>1. <<r>> \o (Tail(R) \o T) = (<<r>> \o Tail(R)) \o T
      BY <1>4, <2>1, <2>3, OnConcat
    <3>2. Q \in Seq(LoopNode)
      BY <2>1, <2>3, <2>12, Pushed
    <3> QED
      BY <2>2, <2>12, <3>1, <3>2
  <2>15. g.macro = Top.macro /\ g.text = Top.text
    BY <2>7 DEF Moved
  <2>16. Stacked(macros, source.files, <<g>> \o Tail(pIncfile), I \o S, Q \o T)
    BY <1>1, <1>4, <2>7, <2>8, <2>13, <2>14, <2>15, TopReplaced
  <2> QED
    BY <1>2, <1>4, <2>2, <2>6, <2>14, <2>16 DEF StacksBelong
<1> QED
  BY <1>5, <1>6, <1>7, <1>8 DEF Repend

\* In a file, the frame of the file is the one on top.
LEMMA FileOnTop ==
  ASSUME Belongs, ~Top.macro
  PROVE  /\ FileIndex(Fetched) = 1 /\ Len(Fetched) = Len(pIncfile)
         /\ FramesOK(Fetched, DOMAIN macros, DOMAIN source.files) /\ Fetched # <<>>
         /\ \E g \in Frame : /\ Fetched = <<g>> \o Tail(pIncfile) /\ Fetched[1] = g
                             /\ Moved(Top, g, Top.pos + 1)
<1>1. PICK g \in Frame : Fetched = <<g>> \o Tail(pIncfile) /\ Moved(Top, g, Top.pos + 1)
  BY TopFetched
<1>2. Tail(pIncfile) \in Seq(Frame)
  BY TopEntries
<1>3. Fetched[1] = g
  BY <1>1, <1>2, Pushed
<1>4. /\ FramesOK(Fetched, DOMAIN macros, DOMAIN source.files) /\ Fetched # <<>>
      /\ Len(Fetched) = Len(pIncfile)
  BY FetchedFrames DEF Belongs, FrameTypes, SameFrames
<1>5. PICK k : k = FileIndex(Fetched)
  OBVIOUS
<1>6. k \in 1 .. Len(Fetched) /\ \A j \in 1 .. k - 1 : Fetched[j].macro
  BY <1>4, <1>5, FileBelow
<1>7. ~Fetched[1].macro
  BY <1>1, <1>3 DEF Moved
<1>8. k = 1
  <2>1. SUFFICES ASSUME k # 1 PROVE FALSE
    OBVIOUS
  <2>2. 1 \in 1 .. k - 1
    BY <1>6, <2>1
  <2> QED
    BY <1>6, <1>7, <2>2
<1> QED
  BY <1>1, <1>3, <1>4, <1>5, <1>8

\* No macro is changed by a definition.
LEMMA MacrosKept ==
  ASSUME Mac
  PROVE  /\ UNCHANGED source
         /\ \A n \in DOMAIN macros : n \in DOMAIN macros' /\ macros'[n] = macros[n]
<1>1. UNCHANGED source
  BY DEF Mac, loop
<1>2. \/ macros' = macros
      \/ \E b : macros' = [n \in DOMAIN macros \cup {Line.arg} |->
                             IF n = Line.arg THEN b ELSE macros[n]]
                /\ Line.arg \notin DOMAIN macros
  BY DEF Mac
<1>3. CASE macros' = macros
  BY <1>1, <1>3
<1>4. ASSUME NEW b, NEW a, a \notin DOMAIN macros,
             macros' = [n \in DOMAIN macros \cup {a} |-> IF n = a THEN b ELSE macros[n]]
      PROVE  \A n \in DOMAIN macros : n \in DOMAIN macros' /\ macros'[n] = macros[n]
  BY <1>4
<1> QED
  BY <1>1, <1>2, <1>3, <1>4

\* The texts are those that were there.
LEMMA TextsKept ==
  ASSUME NEW ms, NEW ns, NEW files, NEW fs,
         FramesOK(fs, DOMAIN ms, DOMAIN files), NEW P, NEW Q, Stacked(ms, files, fs, P, Q),
         \A n \in DOMAIN ms : ns[n] = ms[n]
  PROVE  Stacked(ns, files, fs, P, Q)
<1>1. fs \in Seq(Frame)
  BY DEF FramesOK
<1>2. \A k \in 1 .. Len(fs) : TextOf(ns, files, fs[k]) = TextOf(ms, files, fs[k])
  <2>1. SUFFICES ASSUME NEW k \in 1 .. Len(fs)
                 PROVE  TextOf(ns, files, fs[k]) = TextOf(ms, files, fs[k])
    OBVIOUS
  <2>2. fs[k].macro => fs[k].text \in DOMAIN ms
    BY DEF FramesOK
  <2> QED
    BY <2>2 DEF TextOf
<1> QED
  BY <1>1, <1>2, StackedTexts

\* MAC, which only a file contains.
LEMMA MacStacked == ASSUME Belongs, Mac PROVE StacksBelong'
<1>1. /\ AtLine /\ Line.op = "mac" /\ UNCHANGED <<source, Ifstack, Reploop>>
  BY DEF Mac, At, stacks, loop
<1>2. /\ \A n \in DOMAIN macros : macros'[n] = macros[n]
  BY MacrosKept
<1>3. PICK I, R, S, T : Split(I, R, S, T)
  BY TopEntries
<1>4. PICK ls, f : ls = Text(Top) /\ f = Top
  OBVIOUS
<1>5. /\ ls \in Seq(Lines) /\ f.pos \in 1 .. Len(ls) /\ ls[f.pos].op = "mac" /\ Fits(ls, f)
      /\ f \in Frame
  BY <1>1, <1>4, TopEntries, LinePlace
<1>6. I \in Seq(IfNode) /\ R \in Seq(LoopNode) /\ Has(ls, f, I, R)
  BY <1>3, <1>4 DEF Split
<1>7. PICK n \in Nat : n = Len(ls)
  BY <1>5, LenProperties
<1>8. f.pos \in 1 .. n /\ f.pos \in Nat \ {0} /\ f.pos <= n
  BY <1>5, <1>7
<1>9. ~Top.macro
  BY <1>4, <1>5, <1>6, <1>7, <1>8, MacroLeft
<1>10. /\ FileIndex(Fetched) = 1 /\ Len(Fetched) = Len(pIncfile)
       /\ FramesOK(Fetched, DOMAIN macros, DOMAIN source.files) /\ Fetched # <<>>
  BY <1>9, FileOnTop
<1>11. PICK h \in Frame : /\ Fetched = <<h>> \o Tail(pIncfile) /\ Fetched[1] = h
                          /\ Moved(Top, h, Top.pos + 1)
  BY <1>9, FileOnTop
<1>12. source.files[h.text] = ls /\ h.pos = f.pos + 1
  BY <1>4, <1>9, <1>11 DEF Moved, Text
<1> DEFINE ends == {i \in f.pos + 1 .. Len(ls) : ls[i].op = "endm"}
           to   == CHOOSE i \in ends : \A j \in ends : i <= j
<1>13. \/ pIncfile' = pIncfile /\ macros' = macros
       \/ ends # {} /\ pIncfile' = [Fetched EXCEPT ![1].pos = to + 1]
  <2> DEFINE k    == FileIndex(Fetched)
             from == Fetched[k].pos
             text == source.files[Fetched[k].text]
             all  == {i \in from .. Len(text) : text[i].op = "endm"}
             end  == CHOOSE i \in all : \A j \in all : i <= j
  <2>1. \/ pIncfile' = pIncfile /\ macros' = macros
        \/ all # {} /\ pIncfile' = [Fetched EXCEPT ![k].pos = end + 1]
    BY DEF Mac
  <2>2. k = 1
    BY <1>10
  <2>3. from = f.pos + 1 /\ text = ls
    BY <1>11, <1>12, <2>2
  <2> HIDE DEF k, from, text
  <2>4. all = ends
    BY <2>3
  <2> HIDE DEF all, ends
  <2>5. end = to
    BY <2>4
  <2> HIDE DEF end, to
  <2> QED
    BY <2>1, <2>2, <2>4, <2>5
<1>14. CASE pIncfile' = pIncfile /\ macros' = macros
  BY <1>1, <1>14 DEF Belongs, StacksBelong
<1>15. CASE ends # {} /\ pIncfile' = [Fetched EXCEPT ![1].pos = to + 1]
  <2>1. ends \in SUBSET Nat
    BY <1>7, <1>8
  <2>2. to \in ends /\ \A j \in ends : to <= j
    <3> HIDE DEF ends
    <3> QED
      BY <1>15, <2>1, Least
  <2> HIDE DEF to
  <2>3. to \in f.pos + 1 .. Len(ls) /\ ls[to].op = "endm"
    BY <2>2
  <2>4. ASSUME NEW j \in f.pos + 1 .. to - 1 PROVE ls[j].op # "endm"
    <3>1. f.pos + 1 \in Nat /\ to \in f.pos + 1 .. n
      BY <1>7, <1>8, <2>3
    <3>2. j \in f.pos + 1 .. n /\ ~(to <= j)
      BY ONLY <1>7, <3>1, j \in f.pos + 1 .. to - 1
    <3> QED
      BY <1>7, <2>2, <3>2
  <2> HIDE DEF ends
  <2>5. to + 1 \in Nat \ {0}
    BY <1>7, <1>8, <2>3
  <2> DEFINE g == [h EXCEPT !.pos = to + 1]
  <2>6. g \in Frame /\ Moved(f, g, to + 1) /\ g.macro = Top.macro /\ g.text = Top.text
    BY <1>4, <1>11, <2>5, FrameMoved DEF Moved
  <2>7. pIncfile' = <<g>> \o Tail(pIncfile)
    <3>1. PICK fs, p : fs = Fetched /\ p = to + 1
      OBVIOUS
    <3>2. PICK t, m : t = Tail(pIncfile) /\ m = Len(t)
      OBVIOUS
    <3>3. t \in Seq(Frame) /\ m \in Nat
      BY <3>2, TopEntries, LenProperties
    <3>4. fs = <<h>> \o t
      BY <1>11, <3>1, <3>2
    <3>5. fs \in Seq(Frame) /\ Len(fs) = m + 1 /\ fs[1] = h /\ \A i \in 1 .. m : fs[i + 1] = t[i]
      BY <3>2, <3>3, <3>4, Pushed
    <3>6. PICK ng \in Frame : ng = g
      BY <2>6
    <3>7. PICK gs : gs = <<ng>> \o t
      OBVIOUS
    <3>8. gs \in Seq(Frame) /\ Len(gs) = m + 1 /\ gs[1] = ng /\ \A i \in 1 .. m : gs[i + 1] = t[i]
      BY <3>2, <3>3, <3>7, Pushed
    <3>9. [fs EXCEPT ![1].pos = p] = [fs EXCEPT ![1] = ng]
      BY <1>11, <3>1, <3>6
    <3>10. [fs EXCEPT ![1] = ng] \in Seq(Frame)
      BY <3>3, <3>5, <3>6, ExceptSeq
    <3>11. Len([fs EXCEPT ![1] = ng]) = m + 1
      BY <3>3, <3>5, <3>6, ExceptSeq
    <3>12. \A i \in 1 .. m + 1 : [fs EXCEPT ![1] = ng][i] = gs[i]
      <4>1. PICK es : es = [fs EXCEPT ![1] = ng]
        OBVIOUS
      <4>2. es[1] = ng /\ \A i \in 1 .. m + 1 : i # 1 => es[i] = fs[i]
        BY <3>3, <3>5, <3>6, <4>1, ExceptSeq
      <4>3. ASSUME NEW i \in 1 .. m + 1 PROVE es[i] = gs[i]
        <5>1. CASE i = 1
          BY <3>8, <4>2, <5>1
        <5>2. CASE i # 1
          <6>1. i - 1 \in 1 .. m /\ (i - 1) + 1 = i
            BY <3>3, <5>2
          <6>2. fs[i] = t[i - 1] /\ gs[i] = t[i - 1]
            BY <3>5, <3>8, <6>1
          <6> QED
            BY <4>2, <5>2, <6>2
        <5> QED
          BY <5>1, <5>2
      <4> QED
        BY <4>1, <4>3
    <3>13. [fs EXCEPT ![1] = ng] = gs
      BY ONLY <3>3, <3>8, <3>10, <3>11, <3>12, SeqEqual
    <3> QED
      BY <1>15, <3>1, <3>2, <3>6, <3>7, <3>9, <3>13
  <2> HIDE DEF g
  <2>8. Has(ls, g, I, R)
    BY <1>5, <1>6, <2>3, <2>4, <2>6, DefinitionKept
  <2>9. Stacked(macros, source.files, <<g>> \o Tail(pIncfile), I \o S, R \o T)
    BY <1>3, <1>4, <1>6, <2>6, <2>8, TopReplaced
  <2>10. FramesOK(pIncfile', DOMAIN macros, DOMAIN source.files)
    <3>1. Len(Fetched) \in Nat \ {0}
      BY <1>10 DEF FramesOK
    <3>2. 1 \in 1 .. Len(Fetched)
      BY <3>1
    <3> QED
      BY <1>10, <1>15, <2>5, <3>2, FrameMovedAt
  <2>11. PICK ms, ns, fs, files : /\ ms = macros /\ ns = macros' /\ fs = pIncfile'
                                  /\ files = source.files
    OBVIOUS
  <2>12. Stacked(ms, files, fs, Ifstack, Reploop)
    BY <1>3, <2>7, <2>9, <2>11 DEF Split
  <2>13. Stacked(ns, files, fs, Ifstack, Reploop)
    BY <1>2, <2>10, <2>11, <2>12, TextsKept
  <2> QED
    BY <1>1, <2>11, <2>13 DEF StacksBelong
<1> QED
  BY <1>13, <1>14, <1>15

\* The frames below the one on top.
LEMMA TailFetched ==
  ASSUME Belongs
  PROVE  /\ SubSeq(Fetched, 2, Len(pIncfile)) = Tail(pIncfile)
         /\ SubSeq(Fetched, 1, Len(pIncfile)) = Fetched
         /\ SubSeq(pIncfile, 2, Len(pIncfile)) = Tail(pIncfile)
<1>1. PICK g \in Frame : Fetched = <<g>> \o Tail(pIncfile) /\ Moved(Top, g, Top.pos + 1)
  BY TopFetched
<1>2. Tail(pIncfile) \in Seq(Frame)
  BY TopEntries
<1>3. PICK fs : fs = Fetched
  OBVIOUS
<1>4. fs \in Seq(Frame) /\ fs # <<>> /\ Tail(fs) = Tail(pIncfile)
  BY <1>1, <1>2, <1>3, Pushed, TailConcat
<1>5. Len(fs) = Len(pIncfile)
  BY <1>3, FetchedFrames DEF Belongs, FrameTypes, SameFrames
<1>6. Tail(fs) = SubSeq(fs, 1 + 1, Len(fs))
  BY <1>4, Popped
<1>7. SubSeq(fs, 1, Len(fs)) = fs
  BY <1>4, SubSeqFull
<1>8. Tail(pIncfile) = SubSeq(pIncfile, 1 + 1, Len(pIncfile))
  BY Popped DEF Belongs, FrameTypes, FramesOK
<1>9. 1 + 1 = 2
  OBVIOUS
<1> QED
  BY <1>3, <1>4, <1>5, <1>6, <1>7, <1>8, <1>9

Keep == UNCHANGED <<source, macros, stacks>>

\* A line that opens and closes nothing, and stays in its frame.
LEMMA LineStacked ==
  ASSUME Belongs, AtLine, Line.op \notin Openings \cup Closings \cup {"mac"}, Keep,
         pIncfile' = Fetched
  PROVE  StacksBelong'
<1>1. Stacked(macros, source.files, Fetched, Ifstack, Reploop)
  BY PlainStacked
<1> QED
  BY <1>1 DEF StacksBelong, Keep, stacks

\* A line that enters a file or a macro.
LEMMA EnteredStacked ==
  ASSUME Belongs, AtLine, Line.op \notin Openings \cup Closings \cup {"mac"}, Keep,
         NEW f \in Frame, f.pos = 1, f.text \in (IF f.macro THEN DOMAIN macros ELSE DOMAIN source.files),
         pIncfile' = <<f>> \o Fetched
  PROVE  StacksBelong'
<1>1. Stacked(macros, source.files, Fetched, Ifstack, Reploop)
  BY PlainStacked
<1>2. TextOf(macros, source.files, f) \in Seq(Lines)
  BY DEF TextOf, Belongs, FrameTypes, RunOK, MacrosOK
<1>3. Fetched \in Seq(Frame)
  BY FetchedFrames DEF Belongs, FrameTypes, FramesOK
<1>4. PICK ms, files, fs, P, Q :
        ms = macros /\ files = source.files /\ fs = Fetched /\ P = Ifstack /\ Q = Reploop
  OBVIOUS
<1>5. Has(TextOf(ms, files, f), f, <<>>, <<>>)
  BY <1>2, <1>4, NewKept
<1>6. Stacked(ms, files, fs, P, Q) /\ fs \in Seq(Frame)
  BY <1>1, <1>3, <1>4
<1>7. <<>> \in Seq(IfNode) /\ <<>> \in Seq(LoopNode)
  OBVIOUS
<1>8. Stacked(ms, files, <<f>> \o fs, <<>> \o P, <<>> \o Q)
  BY <1>5, <1>6, <1>7, StackedPush
<1>9. P \in Seq(IfNode) /\ Q \in Seq(LoopNode)
  BY <1>6, StackedTyped
<1>10. <<>> \o P = P /\ <<>> \o Q = Q
  BY <1>9, ConcatEmptySeq
<1> QED
  BY <1>4, <1>8, <1>10 DEF StacksBelong, Keep, stacks

\* INCLUDE.
LEMMA IncludeStacked == ASSUME Belongs, Include PROVE StacksBelong'
<1>1. AtLine /\ Line.op = "include" /\ Keep
  BY DEF Include, At, Keep, loop
<1>2. Line.op \notin Openings \cup Closings \cup {"mac"}
  BY <1>1 DEF Openings, Closings
<1>3. CASE pIncfile' = Fetched
  BY <1>1, <1>2, <1>3, LineStacked
<1>4. ASSUME NEW a \in Allocated, Line.arg \in DOMAIN source.files,
             pIncfile' = <<FileFrame(a, Line.arg, Top.call)>> \o Fetched
      PROVE  StacksBelong'
  <2> DEFINE f == FileFrame(a, Line.arg, Top.call)
  <2>1. Top \in Frame
    BY TopEntries
  <2>2. f \in Frame /\ f.pos = 1 /\ ~f.macro /\ f.text = Line.arg
    BY <1>4, <2>1, AllocatedAddress DEF FileFrame, Frame, Belongs, FrameTypes, RunOK
  <2>3. pIncfile' = <<f>> \o Fetched
    BY <1>4
  <2> HIDE DEF f
  <2> QED
    BY <1>1, <1>2, <1>4, <2>2, <2>3, EnteredStacked
<1> QED
  BY <1>3, <1>4 DEF Include

\* The call of a macro.
LEMMA CallStacked == ASSUME Belongs, OthersTyped, Call PROVE StacksBelong'
<1>1. AtLine /\ Line.op = "call" /\ Keep /\ Line.arg \in DOMAIN macros
  <2>1. UNCHANGED source
    BY DEF Call, loop
  <2> QED
    BY <2>1 DEF Call, At, Keep
<1>2. Line.op \notin Openings \cup Closings \cup {"mac"}
  BY <1>1 DEF Openings, Closings
<1>3. CASE pIncfile' = pIncfile
  BY <1>1, <1>3 DEF Belongs, StacksBelong, Keep, stacks
<1>4. ASSUME NEW a \in Allocated, pIncfile' = <<MacroFrame(a, Line.arg)>> \o Fetched
      PROVE  StacksBelong'
  <2> DEFINE f == MacroFrame(a, Line.arg)
  <2>1. a \in Addresses /\ Line.arg \in Names
    BY <1>1, AllocatedAddress DEF Belongs, FrameTypes, MacrosOK
  <2>2. Localindex \in Nat /\ Localdollarindex \in Nat /\ calls + 1 \in Nat
    BY DEF OthersTyped
  <2>3. f \in Frame /\ f.pos = 1 /\ f.macro /\ f.text = Line.arg
    BY <2>1, <2>2 DEF MacroFrame, Frame
  <2>4. pIncfile' = <<f>> \o Fetched
    BY <1>4
  <2> HIDE DEF f
  <2> QED
    BY <1>1, <1>2, <2>3, <2>4, EnteredStacked
<1> QED
  BY <1>3, <1>4 DEF Call

\* The lines that only generate something, or are skipped.
LEMMA OthersStacked ==
  ASSUME Belongs, Emit \/ Subroutine \/ Label \/ Skip \/ UnknownMnemonic
  PROVE  StacksBelong'
<1>1. AtLine /\ pIncfile' = Fetched /\ Keep
  BY DEF Emit, Subroutine, Label, Skip, UnknownMnemonic, At, loop, Keep
<1>2. Line.op \in Skipped
  BY DEF Emit, Subroutine, Label, Skip, UnknownMnemonic, At, Skipped
<1>3. Line.op \notin Openings \cup Closings \cup {"mac"}
  BY <1>2 DEF Skipped, Openings, Closings
<1> QED
  BY <1>1, <1>3, LineStacked

\* A macro is left, with nothing of its own in the stacks.
LEMMA MacroStacked ==
  ASSUME Belongs, Top.macro, Endm(1),
         AtEnd \/ (AtLine /\ Line.op \in {"mexit", "endm"})
  PROVE  StacksBelong'
<1>1. PICK I, R, S, T : Split(I, R, S, T)
  BY TopEntries
<1>2. PICK ls, f : ls = Text(Top) /\ f = Top
  OBVIOUS
<1>3. f \in Frame /\ ls \in Seq(Lines) /\ Fits(ls, f) /\ f.pos \in Nat \ {0}
  BY <1>2, TopEntries DEF Frame
<1>4. /\ I \in Seq(IfNode) /\ R \in Seq(LoopNode) /\ Has(ls, f, I, R)
      /\ Ifstack = I \o S /\ Reploop = R \o T /\ S \in Seq(IfNode) /\ T \in Seq(LoopNode)
  BY <1>1, <1>2 DEF Split
<1>5. I = <<>> /\ R = <<>>
  <2>1. f.pos > Len(ls) \/ (f.pos <= Len(ls) /\ ls[f.pos].op \in {"mexit", "endm"})
    BY <1>2, LinePlace DEF AtEnd, AtLine
  <2> QED
    BY <1>2, <1>3, <1>4, <2>1, MacroLeft
<1>6. Ifstack = S /\ Reploop = T
  BY <1>4, <1>5, OnConcat
<1>7. pIncfile' = Tail(pIncfile) /\ Keep
  <2>1. pIncfile' = SubSeq(Fetched, 1 + 1, Len(pIncfile)) /\ 1 + 1 = 2
    BY DEF Endm
  <2>2. Keep
    BY DEF Endm, LeaveMacros, loop, Keep
  <2> QED
    BY <2>1, <2>2, TailFetched
<1>8. Stacked(macros, source.files, Tail(pIncfile), S, T)
  BY <1>1 DEF Split
<1> QED
  BY <1>6, <1>7, <1>8 DEF StacksBelong, Keep, stacks

\* MEXIT, ENDM and the end of a macro.
LEMMA EndmStacked ==
  ASSUME Belongs, Mexit \/ StrayEndm \/ EndOfMacro
  PROVE  StacksBelong'
<1>1. CASE EndOfMacro
  BY <1>1, MacroStacked DEF EndOfMacro
<1>2. ASSUME AtLine, Line.op \in {"mexit", "endm"}, NEW n \in {0, 1}, n = 1 => Top.macro, Endm(n)
      PROVE  StacksBelong'
  <2>1. CASE n = 1
    BY <1>2, <2>1, MacroStacked
  <2>2. CASE n = 0
    <3>1. pIncfile' = SubSeq(Fetched, 0 + 1, Len(pIncfile)) /\ 0 + 1 = 1
      BY <1>2, <2>2 DEF Endm
    <3>2. Keep
      BY <1>2 DEF Endm, LeaveMacros, loop, Keep
    <3>3. pIncfile' = Fetched
      BY <3>1, TailFetched
    <3>4. Line.op \notin Openings \cup Closings \cup {"mac"}
      BY <1>2 DEF Openings, Closings
    <3> QED
      BY <1>2, <3>2, <3>3, <3>4, LineStacked
  <2> QED
    BY <2>1, <2>2
<1>3. CASE Mexit
  BY <1>2, <1>3 DEF Mexit, At
<1>4. CASE StrayEndm
  BY <1>2, <1>4 DEF StrayEndm, At
<1> QED
  BY <1>1, <1>3, <1>4

\* END, which only a file contains.
LEMMA EndStacked == ASSUME Belongs, End PROVE StacksBelong'
<1>1. AtLine /\ Line.op = "end"
  BY DEF End, At
<1>2. PICK I, R, S, T : Split(I, R, S, T)
  BY TopEntries
<1>3. PICK ls, f : ls = Text(Top) /\ f = Top
  OBVIOUS
<1>4. /\ f \in Frame /\ ls \in Seq(Lines) /\ Fits(ls, f) /\ f.pos \in Nat \ {0}
      /\ f.pos \in 1 .. Len(ls) /\ ls[f.pos].op = "end" /\ f.pos <= Len(ls)
  BY <1>1, <1>3, TopEntries, LinePlace DEF Frame, AtLine
<1>5. I \in Seq(IfNode) /\ R \in Seq(LoopNode) /\ Has(ls, f, I, R)
  BY <1>2, <1>3 DEF Split
<1>6. ~Top.macro
  BY <1>3, <1>4, <1>5, MacroLeft
<1>7. FileIndex(Fetched) = 1
  BY <1>6, FileOnTop
<1>8. PICK h \in Frame : /\ Fetched = <<h>> \o Tail(pIncfile) /\ Fetched[1] = h
                         /\ Moved(Top, h, Top.pos + 1)
  BY <1>6, FileOnTop
<1>9. Text(h) = ls
  BY <1>3, <1>8 DEF Moved, Text
<1> DEFINE g == [h EXCEPT !.pos = Len(ls) + 1]
<1>10. /\ pIncfile' = <<g>> \o SubSeq(Fetched, 2, Len(pIncfile))
       /\ Keep
  <2> DEFINE n == FileIndex(Fetched) - 1
             k == Fetched[n + 1]
  <2>1. /\ pIncfile' = <<[k EXCEPT !.pos = Len(Text(k)) + 1]>>
                         \o SubSeq(Fetched, n + 2, Len(pIncfile))
        /\ LeaveMacros(n)
    BY DEF End
  <2>2. Keep
    BY <2>1 DEF LeaveMacros, loop, Keep
  <2>3. n = 0
    BY <1>7
  <2> HIDE DEF n
  <2>4. k = h /\ n + 2 = 2
    BY <1>8, <2>3
  <2> HIDE DEF k
  <2> QED
    BY <1>9, <2>1, <2>2, <2>4
<1>11. Len(ls) + 1 \in Nat \ {0}
  BY <1>4, LenProperties
<1>12. g \in Frame /\ Moved(f, g, Len(ls) + 1) /\ g.macro = Top.macro /\ g.text = Top.text
  BY <1>3, <1>8, <1>11, FrameMoved DEF Moved
<1> HIDE DEF g
<1>13. Has(ls, g, I, R)
  BY <1>3, <1>4, <1>5, <1>6, <1>12, EndKept
<1>14. Stacked(macros, source.files, <<g>> \o Tail(pIncfile), I \o S, R \o T)
  BY <1>2, <1>3, <1>5, <1>12, <1>13, TopReplaced
<1> QED
  BY <1>2, <1>10, <1>14, TailFetched DEF Split, StacksBelong, Keep, stacks

\* The end of a file.
LEMMA EndOfFileStacked == ASSUME Belongs, EndOfFile PROVE StacksBelong'
<1>1. /\ pIncfile' = Tail(pIncfile) /\ UNCHANGED <<source, macros>>
      /\ Ifstack' = Unwound(Ifstack, Top.addr) /\ Reploop' = Unwound(Reploop, Top.addr)
  BY DEF EndOfFile, loop
<1>2. PICK I, R, S, T : Split(I, R, S, T)
  BY TopEntries
<1>3. /\ I \in Seq(IfNode) /\ R \in Seq(LoopNode) /\ Own(Top, I, R)
      /\ Ifstack = I \o S /\ Reploop = R \o T /\ S \in Seq(IfNode) /\ T \in Seq(LoopNode)
      /\ \A i \in 1 .. Len(S) : S[i].file # Top.addr
      /\ \A i \in 1 .. Len(T) : T[i].file # Top.addr
  BY <1>2 DEF Split, Has
<1>4. /\ \A i \in 1 .. Len(I) : I[i].file = Top.addr
      /\ \A i \in 1 .. Len(R) : R[i].file = Top.addr
  BY <1>3 DEF Own
<1>5. Unwound(I \o S, Top.addr) = S
  BY <1>3, <1>4, UnwoundOwn
<1>6. Unwound(R \o T, Top.addr) = T
  BY <1>3, <1>4, UnwoundOwn
<1>7. Stacked(macros, source.files, Tail(pIncfile), S, T)
  BY <1>2 DEF Split
<1> QED
  BY <1>1, <1>3, <1>5, <1>6, <1>7 DEF StacksBelong

-----------------------------------------------------------------------------
(***************************************************************************)
(* The invariant, and what follows                                         *)
(***************************************************************************)

\* The only frame of a pass that starts.
LEMMA FirstFrame ==
  ASSUME NEW ms, NEW files, NEW a \in Addresses, MainFile \in DOMAIN files,
         DOMAIN files \subseteq Paths, files[MainFile] \in Seq(Lines)
  PROVE  /\ Stacked(ms, files, <<FileFrame(a, MainFile, 0)>>, <<BaseIf>>, <<>>)
         /\ Distinct(<<FileFrame(a, MainFile, 0)>>)
<1>1. PICK f : f = FileFrame(a, MainFile, 0)
  OBVIOUS
<1>2. f \in Frame /\ ~f.macro /\ f.text = MainFile /\ f.pos = 1
  BY <1>1 DEF FileFrame, Frame
<1>3. TextOf(ms, files, f) \in Seq(Lines)
  BY <1>2 DEF TextOf
<1>4. Has(TextOf(ms, files, f), f, <<>>, <<>>)
  BY <1>2, <1>3, NewKept
<1>5. /\ <<>> \in Seq(IfNode) /\ <<>> \in Seq(LoopNode) /\ <<>> \in Seq(Frame)
  OBVIOUS
<1>6. PICK P, Q, fs : P = <<BaseIf>> /\ Q = <<>> /\ fs = <<>>
  OBVIOUS
<1>7. Stacked(ms, files, fs, P, Q)
  BY <1>6, StackedNone
<1>8. fs \in Seq(Frame)
  BY <1>5, <1>6
<1>9. Stacked(ms, files, <<f>> \o fs, <<>> \o P, <<>> \o Q)
  BY <1>2, <1>4, <1>5, <1>7, <1>8, StackedPush
<1>10. P \in Seq(IfNode) /\ Q \in Seq(LoopNode)
  BY <1>7, <1>8, StackedTyped
<1>11. <<>> \o P = P /\ <<>> \o Q = Q
  BY <1>10, ConcatEmptySeq
<1>12. <<f>> \o fs = <<f>>
  <2>1. <<f>> \in Seq(Frame)
    BY <1>2
  <2> QED
    BY <1>6, <2>1, ConcatEmptySeq
<1>13. Distinct(<<f>>)
  BY DEF Distinct
<1> QED
  BY <1>1, <1>6, <1>9, <1>11, <1>12, <1>13

EntriesInv == Distinct(pIncfile) /\ (Disciplined => StacksBelong)

\* At the start.
LEMMA EntriesInit == Init => EntriesInv
<1>1. SUFFICES ASSUME Init PROVE EntriesInv
  OBVIOUS
<1>2. PICK a : a = CHOOSE b \in Addresses : TRUE
  OBVIOUS
<1>3. a \in Addresses
  BY <1>2, FrameAssumption
<1>4. RunOK
  BY <1>1, InitFrames DEF FrameTypes
<1>5. pIncfile = <<FileFrame(a, MainFile, 0)>> /\ Ifstack = <<BaseIf>> /\ Reploop = <<>>
  BY <1>1, <1>2 DEF Init
<1>6. PICK ms, files : ms = macros /\ files = source.files
  OBVIOUS
<1>7. MainFile \in DOMAIN files /\ DOMAIN files \subseteq Paths /\ files[MainFile] \in Seq(Lines)
  BY <1>4, <1>6 DEF RunOK
<1>8. /\ Stacked(ms, files, <<FileFrame(a, MainFile, 0)>>, <<BaseIf>>, <<>>)
      /\ Distinct(<<FileFrame(a, MainFile, 0)>>)
  BY <1>3, <1>7, FirstFrame
<1> QED
  BY <1>5, <1>6, <1>8 DEF EntriesInv, StacksBelong

\* The next pass finds the base alone, as the first has.
LEMMA NextPassStacked ==
  ASSUME FrameTypes, NextPass, StacksBelong
  PROVE  StacksBelong'
<1>1. pIncfile = <<>> /\ Keep
  BY DEF NextPass, PassOver, Keep
<1>2. PICK a \in Allocated : pIncfile' = <<FileFrame(a, MainFile, 0)>>
  BY DEF NextPass
<1>3. Stacked(macros, source.files, <<>>, Ifstack, Reploop)
  BY <1>1 DEF StacksBelong
<1>4. PICK ms, files, P, Q : ms = macros /\ files = source.files /\ P = Ifstack /\ Q = Reploop
  OBVIOUS
<1>5. Stacked(ms, files, <<>>, P, Q)
  BY <1>3, <1>4
<1>6. P = <<BaseIf>> /\ Q = <<>>
  BY <1>5, StackedNone
<1>7. MainFile \in DOMAIN files /\ DOMAIN files \subseteq Paths /\ files[MainFile] \in Seq(Lines)
  BY <1>4 DEF FrameTypes, RunOK
<1>8. a \in Addresses
  BY AllocatedAddress
<1>9. Stacked(ms, files, <<FileFrame(a, MainFile, 0)>>, <<BaseIf>>, <<>>)
  BY <1>7, <1>8, FirstFrame
<1> QED
  BY <1>1, <1>2, <1>4, <1>6, <1>9 DEF StacksBelong, Keep, stacks

\* Macros are never changed or forgotten, so a text that lacks the discipline stays.
LEMMA DisciplineEarlier ==
  ASSUME [Next]_vars, Disciplined'
  PROVE  Disciplined
<1>1. /\ UNCHANGED source
      /\ \A n \in DOMAIN macros : n \in DOMAIN macros' /\ macros'[n] = macros[n]
  <2>1. CASE Mac
    BY <2>1, MacrosKept
  <2>2. CASE Include \/ Call \/ UnknownMnemonic \/ If \/ Else \/ Endif \/ Repeat \/ Repend
    BY <2>2 DEF Include, Call, UnknownMnemonic, If, Else, Endif, Repeat, Repend, loop
  <2>3. CASE Mexit \/ StrayEndm \/ End \/ EndOfMacro \/ EndOfFile
    <3>1. UNCHANGED <<source, macros>>
      BY <2>3 DEF Mexit, StrayEndm, End, EndOfMacro, EndOfFile, Endm, LeaveMacros, loop
    <3> QED
      BY <3>1
  <2>4. CASE Emit \/ Subroutine \/ Label \/ Skip
    BY <2>4 DEF Emit, Subroutine, Label, Skip, loop
  <2>5. CASE NextPass \/ GiveUp \/ LastPass \/ UNCHANGED vars
    BY <2>5 DEF NextPass, GiveUp, LastPass, vars, loop
  <2> QED
    BY <2>1, <2>2, <2>3, <2>4, <2>5 DEF Next, ReadLine
<1> QED
  BY <1>1, Zenon DEF Disciplined

\* Every step keeps the entries with their frames.
LEMMA EntriesStep ==
  ASSUME FrameTypes, OthersTyped, EntriesInv, [Next]_vars
  PROVE  EntriesInv'
<1>1. Distinct(pIncfile')
  BY DistinctStep DEF EntriesInv
<1>2. ASSUME Disciplined' PROVE StacksBelong'
  <2>1. Disciplined /\ StacksBelong
    BY <1>2, DisciplineEarlier DEF EntriesInv
  <2>2. CASE pIncfile = <<>>
    <3>1. NextPass \/ GiveUp \/ LastPass \/ UNCHANGED vars
      BY <2>2 DEF Next, ReadLine, Include, Mac, Call, UnknownMnemonic, Mexit, StrayEndm, End, If,
           Else, Endif, Repeat, Repend, Emit, Subroutine, Label, Skip, EndOfFile, EndOfMacro, At,
           AtLine, AtEnd
    <3>2. CASE NextPass
      BY <2>1, <3>2, NextPassStacked
    <3>3. CASE GiveUp \/ LastPass \/ UNCHANGED vars
      BY <2>1, <3>3 DEF GiveUp, LastPass, vars, StacksBelong, frames, stacks, loop
    <3> QED
      BY <3>1, <3>2, <3>3
  <2>3. CASE pIncfile # <<>>
    <3>1. Belongs
      BY <2>1, <2>3 DEF Belongs, EntriesInv
    <3>2. CASE Include \/ Mac \/ Call
      BY <3>1, <3>2, IncludeStacked, MacStacked, CallStacked
    <3>3. CASE If \/ Else \/ Endif \/ Repeat \/ Repend
      BY <3>1, <3>3, IfStacked, ElseStacked, EndifStacked, RepeatStacked, RependStacked
    <3>4. CASE Mexit \/ StrayEndm \/ EndOfMacro \/ End \/ EndOfFile
      BY <3>1, <3>4, EndmStacked, EndStacked, EndOfFileStacked
    <3>5. CASE Emit \/ Subroutine \/ Label \/ Skip \/ UnknownMnemonic
      BY <3>1, <3>5, OthersStacked
    <3>6. CASE NextPass \/ GiveUp \/ LastPass \/ UNCHANGED vars
      BY <2>1, <2>3, <3>6 DEF NextPass, PassOver, GiveUp, LastPass, vars, StacksBelong, frames,
         stacks, loop
    <3> QED
      BY <3>2, <3>3, <3>4, <3>5, <3>6 DEF Next, ReadLine
  <2> QED
    BY <2>2, <2>3
<1> QED
  BY <1>1, <1>2 DEF EntriesInv

\* The place of an entry is the rank of its address.
LEMMA PlacedRanks ==
  ASSUME NEW fs \in Seq(Frame), Distinct(fs), NEW E, NEW stack \in Seq(E), Placed(fs, 1, stack)
  PROVE  LET rank(a) == IF a = Null THEN Len(fs) + 1
                        ELSE CHOOSE k \in DOMAIN fs : fs[k].addr = a
         IN /\ \A i \in DOMAIN stack :
                 stack[i].file \in {fs[j].addr : j \in DOMAIN fs} \cup {Null}
            /\ \A i \in DOMAIN stack :
                 i > 1 => rank(stack[i - 1].file) <= rank(stack[i].file)
<1> DEFINE rank(a) == IF a = Null THEN Len(fs) + 1
                      ELSE CHOOSE k \in DOMAIN fs : fs[k].addr = a
<1>1. PICK n \in Nat, m \in Nat : n = Len(fs) /\ m = Len(stack)
  BY LenProperties
<1>2. DOMAIN fs = 1 .. n /\ DOMAIN stack = 1 .. m
  BY <1>1, LenProperties
<1>3. PICK place \in [1 .. m -> 1 .. n + 1] :
        /\ \A i \in 1 .. m : Mark(fs, place[i], stack[i].file)
        /\ \A i \in 2 .. m : place[i - 1] <= place[i]
  BY <1>1 DEF Placed
<1>4. \A j \in 1 .. n : fs[j].addr # Null
  <2>1. \A j \in 1 .. n : fs[j] \in Frame
    BY <1>1, ElementOfSeq
  <2> QED
    BY <2>1, FrameAssumption DEF Frame
<1>5. ASSUME NEW i \in 1 .. m
      PROVE  /\ stack[i].file \in {fs[j].addr : j \in DOMAIN fs} \cup {Null}
             /\ rank(stack[i].file) = place[i]
  <2>1. PICK p, a : p = place[i] /\ a = stack[i].file
    OBVIOUS
  <2>2. p \in 1 .. n + 1 /\ Mark(fs, p, a)
    BY <1>3, <2>1
  <2>3. CASE p = n + 1
    BY <1>1, <2>1, <2>2, <2>3 DEF Mark
  <2>4. CASE p # n + 1
    <3>1. p \in 1 .. n /\ a = fs[p].addr /\ a # Null
      BY <1>1, <1>4, <2>2, <2>4 DEF Mark
    <3>2. \A k \in 1 .. n : fs[k].addr = a => k = p
      BY <1>1, <3>1 DEF Distinct
    <3>3. (CHOOSE k \in DOMAIN fs : fs[k].addr = a) = p
      BY <1>2, <3>1, <3>2
    <3> QED
      BY <1>2, <2>1, <3>1, <3>3
  <2> QED
    BY <2>3, <2>4
<1> HIDE DEF rank
<1>6. ASSUME NEW i \in 1 .. m, i > 1
      PROVE  rank(stack[i - 1].file) <= rank(stack[i].file)
  <2>1. i - 1 \in 1 .. m /\ i \in 2 .. m
    BY <1>6
  <2> QED
    BY <1>3, <1>5, <2>1
<1> QED
  BY <1>2, <1>5, <1>6 DEF rank

\* What the frames own says where the entries belong.
LEMMA EntriesFollow ==
  ASSUME FrameTypes, EntriesInv
  PROVE  EntriesBelong
<1>1. pIncfile \in Seq(Frame) /\ Distinct(pIncfile)
  BY DEF FrameTypes, FramesOK, EntriesInv
<1>2. Ifstack \in Seq(IfNode) /\ Reploop \in Seq(LoopNode)
  BY DEF FrameTypes, StackOK, LoopsOK
<1>3. ASSUME Disciplined
      PROVE  Placed(pIncfile, 1, Ifstack) /\ Placed(pIncfile, 1, Reploop)
  <2>1. PICK ms, files, fs, P, Q :
          ms = macros /\ files = source.files /\ fs = pIncfile /\ P = Ifstack /\ Q = Reploop
    OBVIOUS
  <2>2. fs \in Seq(Frame) /\ Stacked(ms, files, fs, P, Q)
    BY <1>1, <1>3, <2>1 DEF EntriesInv, StacksBelong
  <2>3. Placed(fs, 1, P) /\ Placed(fs, 1, Q)
    BY <2>2, StackedPlaced
  <2> QED
    BY <2>1, <2>3
<1> DEFINE rank(a) == IF a = Null THEN Len(pIncfile) + 1
                      ELSE CHOOSE k \in DOMAIN pIncfile : pIncfile[k].addr = a
           Ordered(stack) ==
             /\ \A i \in DOMAIN stack : stack[i].file \in Live \cup {Null}
             /\ \A i \in DOMAIN stack : i > 1 => rank(stack[i - 1].file) <= rank(stack[i].file)
<1>4. ASSUME Disciplined PROVE Ordered(Ifstack) /\ Ordered(Reploop)
  <2>1. Ordered(Ifstack)
    BY <1>1, <1>2, <1>3, <1>4, PlacedRanks DEF Live
  <2>2. Ordered(Reploop)
    BY <1>1, <1>2, <1>3, <1>4, PlacedRanks DEF Live
  <2> QED
    BY <2>1, <2>2
<1> QED
  BY <1>4 DEF EntriesBelong

\* EntriesBelong: as long as no text closes what it has not opened, and no macro leaves
\* anything open, every entry of Ifstack and Reploop belongs to a frame that is there,
\* in the order of the frames, whatever is nested in what, even where a loop leaves the
\* middle of a conditional, and in every pass.  So v_endif and v_repend, which compare
\* an address only, never take the entry of a frame that is gone.
THEOREM EntriesAlwaysBelong == Spec => []EntriesBelong
<1>1. Init => FrameTypes /\ OthersTyped /\ EntriesInv
  BY InitFrames, EntriesInit
<1>2. FrameTypes /\ OthersTyped /\ EntriesInv /\ [Next]_vars
        => (FrameTypes /\ OthersTyped /\ EntriesInv)'
  BY FrameStep, OthersStep, EntriesStep
<1>3. FrameTypes /\ EntriesInv => EntriesBelong
  BY EntriesFollow
<1> QED
  BY <1>1, <1>2, <1>3, PTL DEF Spec
=============================================================================
