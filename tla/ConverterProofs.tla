--------------------------- MODULE ConverterProofs ---------------------------
(***************************************************************************)
(* Proofs about the output file, for every number of passes, statements,   *)
(* origins, fills and lengths: the types of what generate() and the two    *)
(* converters keep; that the file of formats 1 and 3 is the flat image of  *)
(* what the last pass has generated, and the hunks of format 2 load as it; *)
(* and what ftohex and ftobin make of these files.                         *)
(***************************************************************************)
EXTENDS Converters, SequenceTheorems, WellFoundedInduction, TLAPS

\* Parts of Flattened: the address after a piece, the piece that holds an address (itself
\* or in the gap before it), and the byte there.
EndAt(rs, i)     == rs[i].at + Len(rs[i].data)
Holds(rs, a, i)  == EndAt(rs, i) > a /\ \A j \in 1 .. i - 1 : EndAt(rs, j) <= a
PieceAt(rs, a)   == CHOOSE i \in DOMAIN rs : Holds(rs, a, i)
ByteAt(rs, a)    == LET p == rs[PieceAt(rs, a)]
                    IN IF a < p.at THEN p.fill ELSE p.data[a - p.at + 1]

\* Pieces that generate() has written one behind the other, and for each address one that
\* holds it.
Ascending(rs) == \A i, j \in DOMAIN rs : i < j => EndAt(rs, i) <= rs[j].at
Covered(rs)   == \A a \in rs[1].at .. EndAt(rs, Len(rs)) - 1 : \E i \in DOMAIN rs : Holds(rs, a, i)

FlatFile(rs) == (IF F_format = "DEFAULT" THEN Putw(rs[1].at) ELSE <<>>) \o Flattened(rs)

\* The file of formats 1 and 3 is what the pass has generated so far, up to org; it is empty
\* as long as Fisclear is set, and without Fisclear only a pass that is not the last has
\* generated nothing.
FlatSoFar ==
  F_format # "RAS" =>
    /\ Fisclear => runs = <<>> /\ FI_temp = <<>>
    /\ ~Redo /\ ~Fisclear => runs # <<>>
    /\ runs # <<>> => /\ Ascending(runs) /\ Covered(runs)
                      /\ org = EndAt(runs, Len(runs))
                      /\ FI_temp = FlatFile(runs)

\* No converter is started before the assembly is complete, and none has an address before.
ToolsWait ==
  /\ dasm # "complete" => tool = "none" /\ at = 0
  /\ tool = "none" => state = "done" /\ addr = 0 /\ base = 0


-----------------------------------------------------------------------------
(***************************************************************************)
(* The flat image                                                          *)
(***************************************************************************)
LEMMA FlattenedIs ==
  ASSUME NEW rs, NEW low, low = rs[1].at, NEW n, n = EndAt(rs, Len(rs)) - low
  PROVE  Flattened(rs) = [k \in 1 .. n |-> ByteAt(rs, low + k - 1)]
BY DEF Flattened, EndAt, ByteAt, PieceAt, Holds

\* The parts of a piece.
LEMMA PieceTypes ==
  ASSUME NEW rs \in Seq(Piece), NEW i \in DOMAIN rs
  PROVE  /\ rs[i].at \in Nat /\ rs[i].data \in Seq(Bytes) /\ rs[i].fill \in Bytes
         /\ Len(rs[i].data) \in Nat /\ EndAt(rs, i) \in Nat /\ rs[i].at <= EndAt(rs, i)
         /\ i \in Nat /\ i >= 1 /\ i <= Len(rs) /\ Len(rs) \in Nat
<1>1. rs[i] \in Piece /\ i \in 1 .. Len(rs) /\ Len(rs) \in Nat
  OBVIOUS
<1>2. rs[i].at \in Nat /\ rs[i].data \in Seq(Bytes) /\ rs[i].fill \in Bytes
  BY <1>1 DEF Piece
<1>3. Len(rs[i].data) \in Nat
  BY <1>2
<1> QED
  BY <1>1, <1>2, <1>3 DEF EndAt

\* Only one piece holds an address.
LEMMA PieceUnique ==
  ASSUME NEW rs \in Seq(Piece), NEW a \in Int, NEW i \in DOMAIN rs, Holds(rs, a, i)
  PROVE  PieceAt(rs, a) = i
<1> DEFINE p == PieceAt(rs, a)
<1>1. p \in DOMAIN rs /\ Holds(rs, a, p)
  BY DEF PieceAt
<1>2. i \in Nat /\ p \in Nat /\ i >= 1 /\ p >= 1 /\ EndAt(rs, i) \in Nat /\ EndAt(rs, p) \in Nat
  BY <1>1, PieceTypes
<1> HIDE DEF p
<1>3. ~(i < p)
  BY <1>1, <1>2 DEF Holds
<1>4. ~(p < i)
  BY <1>1, <1>2 DEF Holds
<1>5. p = i
  BY <1>2, <1>3, <1>4
<1> QED
  BY <1>5 DEF p

\* The byte at an address that some piece holds.
LEMMA ByteTypes ==
  ASSUME NEW rs \in Seq(Piece), NEW a \in Int, NEW i \in DOMAIN rs, Holds(rs, a, i)
  PROVE  /\ ByteAt(rs, a) = IF a < rs[i].at THEN rs[i].fill ELSE rs[i].data[a - rs[i].at + 1]
         /\ ByteAt(rs, a) \in Bytes
<1>1. PieceAt(rs, a) = i
  BY PieceUnique
<1>2. /\ rs[i].at \in Nat /\ rs[i].data \in Seq(Bytes) /\ rs[i].fill \in Bytes
      /\ Len(rs[i].data) \in Nat
  BY PieceTypes
<1>3. a < rs[i].at + Len(rs[i].data)
  BY <1>2 DEF Holds, EndAt
<1>4. a >= rs[i].at => a - rs[i].at + 1 \in 1 .. Len(rs[i].data)
  BY <1>2, <1>3
<1>5. a >= rs[i].at => rs[i].data[a - rs[i].at + 1] \in Bytes
  BY <1>2, <1>4
<1> QED
  BY <1>1, <1>2, <1>5 DEF ByteAt

\* The first piece alone.
LEMMA FlattenedFirst ==
  ASSUME NEW r \in Piece
  PROVE  Ascending(<<r>>) /\ Covered(<<r>>) /\ Flattened(<<r>>) = r.data
<1> DEFINE rs == <<r>>
<1>1. rs \in Seq(Piece) /\ Len(rs) = 1 /\ DOMAIN rs = {1} /\ rs[1] = r
  OBVIOUS
<1> HIDE DEF rs
<1>2. /\ r.at \in Nat /\ r.data \in Seq(Bytes) /\ Len(r.data) \in Nat
      /\ EndAt(rs, 1) = r.at + Len(r.data)
  BY <1>1 DEF Piece, EndAt
<1>3. Ascending(rs)
  BY <1>1 DEF Ascending
<1>4. \A a \in r.at .. EndAt(rs, 1) - 1 : Holds(rs, a, 1)
  BY <1>2 DEF Holds
<1>5. Covered(rs)
  BY <1>1, <1>4 DEF Covered
<1>6. Flattened(rs) = [k \in 1 .. Len(r.data) |-> ByteAt(rs, r.at + k - 1)]
  <2> DEFINE size == Len(r.data)
  <2>1. size = EndAt(rs, Len(rs)) - r.at /\ r.at = rs[1].at
    BY <1>1, <1>2
  <2> HIDE DEF size
  <2>2. Flattened(rs) = [k \in 1 .. size |-> ByteAt(rs, r.at + k - 1)]
    BY <2>1, FlattenedIs
  <2> QED
    BY <2>2 DEF size
<1>7. ASSUME NEW k \in 1 .. Len(r.data)
      PROVE  ByteAt(rs, r.at + k - 1) = r.data[k]
  <2> DEFINE a == r.at + k - 1
  <2>1. a \in r.at .. EndAt(rs, 1) - 1 /\ a \in Int /\ ~(a < r.at) /\ a - r.at + 1 = k
    BY <1>2
  <2> HIDE DEF a
  <2>2. Holds(rs, a, 1)
    BY <1>4, <2>1
  <2>3. ByteAt(rs, a) = r.data[a - r.at + 1]
    BY <1>1, <2>1, <2>2, ByteTypes
  <2> QED
    BY <2>1, <2>3 DEF a
<1>8. r.data = [k \in 1 .. Len(r.data) |-> r.data[k]]
  BY <1>2
<1>9. Flattened(rs) = r.data
  BY <1>6, <1>7, <1>8
<1> QED
  BY <1>3, <1>5, <1>9 DEF rs

\* One piece more.
LEMMA AppendedPieces ==
  ASSUME NEW rs \in Seq(Piece), rs # <<>>, NEW r \in Piece
  PROVE  LET new == Append(rs, r)
         IN /\ new \in Seq(Piece) /\ Len(new) = Len(rs) + 1 /\ new # <<>>
            /\ DOMAIN new = 1 .. Len(rs) + 1 /\ DOMAIN rs = 1 .. Len(rs) /\ Len(rs) \in Nat \ {0}
            /\ \A i \in DOMAIN rs : new[i] = rs[i] /\ EndAt(new, i) = EndAt(rs, i)
            /\ new[Len(rs) + 1] = r /\ new[1] = rs[1]
            /\ EndAt(new, Len(rs) + 1) = r.at + Len(r.data)
BY DEF EndAt

\* A piece behind the others leaves the bytes before it as they are.
LEMMA AppendedHolds ==
  ASSUME NEW rs \in Seq(Piece), rs # <<>>, Ascending(rs), Covered(rs),
         NEW r \in Piece, r.at >= EndAt(rs, Len(rs))
  PROVE  LET new == Append(rs, r)
             end == EndAt(rs, Len(rs))
         IN /\ \A a \in Int : \A i \in DOMAIN rs : Holds(rs, a, i) <=> Holds(new, a, i)
            /\ \A a \in end .. r.at + Len(r.data) - 1 : Holds(new, a, Len(rs) + 1)
            /\ Ascending(new) /\ Covered(new)
<1> DEFINE new == Append(rs, r)
           end == EndAt(rs, Len(rs))
           m   == Len(rs)
<1>1. /\ new \in Seq(Piece) /\ Len(new) = m + 1 /\ DOMAIN new = 1 .. m + 1
      /\ DOMAIN rs = 1 .. m /\ m \in Nat \ {0}
      /\ \A i \in 1 .. m : new[i] = rs[i] /\ EndAt(new, i) = EndAt(rs, i)
      /\ new[m + 1] = r /\ new[1] = rs[1] /\ EndAt(new, m + 1) = r.at + Len(r.data)
  BY AppendedPieces
<1>2. \A i \in 1 .. m : EndAt(rs, i) \in Nat /\ rs[i].at \in Nat /\ rs[i].at <= EndAt(rs, i)
  BY <1>1, PieceTypes
<1>3. r.at \in Nat /\ Len(r.data) \in Nat /\ end \in Nat /\ r.at >= end
  BY <1>1, <1>2 DEF Piece
<1>4. \A i \in 1 .. m : EndAt(rs, i) <= end
  BY <1>1, <1>2, SMTT(30) DEF Ascending
<1> HIDE DEF new, end, m
<1>5. \A a \in Int : \A i \in 1 .. m : Holds(rs, a, i) <=> Holds(new, a, i)
  BY <1>1 DEF Holds
<1>6. \A a \in end .. r.at + Len(r.data) - 1 : Holds(new, a, m + 1)
  BY <1>1, <1>2, <1>3, <1>4 DEF Holds
<1>7. Ascending(new)
  <2>1. SUFFICES ASSUME NEW i \in 1 .. m + 1, NEW j \in 1 .. m + 1, i < j
                 PROVE  EndAt(new, i) <= new[j].at
    BY <1>1 DEF Ascending
  <2>2. i \in 1 .. m
    BY <1>1, <2>1
  <2>3. CASE j = m + 1
    BY <1>1, <1>2, <1>3, <1>4, <2>2, <2>3
  <2>4. CASE j \in 1 .. m
    BY <1>1, <2>1, <2>2, <2>4 DEF Ascending
  <2> QED
    BY <1>1, <2>3, <2>4
<1>8. Covered(new)
  <2> DEFINE top == r.at + Len(r.data)
  <2>0. /\ DOMAIN new = 1 .. m + 1 /\ new[1].at = rs[1].at
        /\ EndAt(new, Len(new)) = top
    BY <1>1
  <2>9. top = r.at + Len(r.data)
    OBVIOUS
  <2> HIDE DEF top
  <2>1. SUFFICES ASSUME NEW a \in rs[1].at .. top - 1
                 PROVE  \E i \in 1 .. m + 1 : Holds(new, a, i)
    BY <2>0 DEF Covered
  <2>2. a \in Int /\ rs[1].at \in Nat
    BY <1>1, <1>2, <1>3, <2>9
  <2>3. CASE a >= end
    BY <1>1, <1>3, <1>6, <2>2, <2>3, <2>9
  <2>4. CASE a < end
    <3>1. a \in rs[1].at .. EndAt(rs, Len(rs)) - 1
      BY <1>3, <2>2, <2>4 DEF end
    <3>2. PICK i \in DOMAIN rs : Holds(rs, a, i)
      BY <3>1 DEF Covered
    <3> QED
      BY <1>1, <1>5, <2>2, <3>2
  <2> QED
    BY <1>3, <2>2, <2>3, <2>4
<1> QED
  BY <1>1, <1>5, <1>6, <1>7, <1>8 DEF new, end, m

\* n bytes of filler.
LEMMA FilledIs ==
  ASSUME NEW n \in Nat, NEW b \in Bytes
  PROVE  Fill(n, b) \in Seq(Bytes) /\ Len(Fill(n, b)) = n /\ \A i \in 1 .. n : Fill(n, b)[i] = b
BY DEF Fill

\* Each statement adds the gap before it, filled, and its data.
LEMMA FlattenedAppended ==
  ASSUME NEW rs \in Seq(Piece), rs # <<>>, Ascending(rs), Covered(rs),
         NEW r \in Piece, r.at >= EndAt(rs, Len(rs))
  PROVE  /\ Flattened(rs) \in Seq(Bytes)
         /\ Flattened(Append(rs, r))
              = (Flattened(rs) \o Fill(r.at - EndAt(rs, Len(rs)), r.fill)) \o r.data
<1> DEFINE new  == Append(rs, r)
           end  == EndAt(rs, Len(rs))
           m    == Len(rs)
           low  == rs[1].at
           gap  == r.at - end
           old  == Flattened(rs)
           all  == Flattened(new)
           mine == (old \o Fill(gap, r.fill)) \o r.data
<1>1. /\ new \in Seq(Piece) /\ Len(new) = m + 1 /\ DOMAIN new = 1 .. m + 1
      /\ DOMAIN rs = 1 .. m /\ m \in Nat \ {0}
      /\ \A i \in 1 .. m : new[i] = rs[i]
      /\ new[m + 1] = r /\ new[1] = rs[1] /\ EndAt(new, m + 1) = r.at + Len(r.data)
  BY AppendedPieces
<1>2. /\ end \in Nat /\ low \in Nat /\ low <= end
  <2>1. 1 \in DOMAIN rs /\ m \in DOMAIN rs
    BY <1>1
  <2>2. low \in Nat /\ low <= EndAt(rs, 1) /\ EndAt(rs, 1) \in Nat /\ end \in Nat
        /\ rs[m].at <= end /\ rs[m].at \in Nat
    BY <2>1, PieceTypes
  <2>3. m # 1 => EndAt(rs, 1) <= rs[m].at
    BY <1>1, <2>1 DEF Ascending
  <2> QED
    BY <2>2, <2>3
<1>3. r.at \in Nat /\ r.data \in Seq(Bytes) /\ Len(r.data) \in Nat /\ r.fill \in Bytes
      /\ r.at >= end /\ gap \in Nat
  BY <1>2 DEF Piece
<1>4. /\ \A a \in Int : \A i \in 1 .. m : Holds(rs, a, i) <=> Holds(new, a, i)
      /\ \A a \in end .. r.at + Len(r.data) - 1 : Holds(new, a, m + 1)
  BY <1>1, AppendedHolds
<1>5. old = [k \in 1 .. end - low |-> ByteAt(rs, low + k - 1)]
  BY FlattenedIs
<1> HIDE DEF new, end, m, low, gap, old
<1>6. all = [k \in 1 .. r.at + Len(r.data) - low |-> ByteAt(new, low + k - 1)]
  <2> DEFINE size == r.at + Len(r.data) - low
  <2> DEFINE top == EndAt(new, Len(new))
  <2>1. top = r.at + Len(r.data)
    BY <1>1
  <2> HIDE DEF top
  <2>5. size = top - low
    BY <1>2, <1>3, <2>1
  <2>2. size = EndAt(new, Len(new)) - low
    BY <2>5 DEF top
  <2>3. low = new[1].at
    BY <1>1 DEF low
  <2> HIDE DEF size
  <2>4. Flattened(new) = [k \in 1 .. size |-> ByteAt(new, low + k - 1)]
    BY <2>2, <2>3, FlattenedIs
  <2> QED
    BY <2>4 DEF size
<1> HIDE DEF all
<1>7. ASSUME NEW k \in 1 .. end - low
      PROVE  /\ ByteAt(rs, low + k - 1) \in Bytes
             /\ ByteAt(new, low + k - 1) = ByteAt(rs, low + k - 1)
  <2> DEFINE a == low + k - 1
  <2>1. a \in Int /\ a \in low .. end - 1
    BY <1>2
  <2> HIDE DEF a
  <2>2. PICK i \in DOMAIN rs : Holds(rs, a, i)
    BY <2>1 DEF Covered, low, end
  <2>3. i \in 1 .. m /\ i \in 1 .. m + 1 /\ Holds(new, a, i)
    BY <1>1, <1>4, <2>1, <2>2
  <2>4. ByteAt(rs, a) = (IF a < rs[i].at THEN rs[i].fill ELSE rs[i].data[a - rs[i].at + 1])
        /\ ByteAt(rs, a) \in Bytes
    BY <2>1, <2>2, ByteTypes
  <2>5. ByteAt(new, a) = IF a < new[i].at THEN new[i].fill ELSE new[i].data[a - new[i].at + 1]
    BY <1>1, <2>1, <2>3, ByteTypes
  <2> QED
    BY <1>1, <2>3, <2>4, <2>5 DEF a
<1>8. ASSUME NEW a \in end .. r.at + Len(r.data) - 1
      PROVE  ByteAt(new, a) = IF a < r.at THEN r.fill ELSE r.data[a - r.at + 1]
  <2>1. a \in Int /\ Holds(new, a, m + 1) /\ m + 1 \in 1 .. m + 1
    BY <1>1, <1>2, <1>4
  <2> QED
    BY <1>1, <2>1, ByteTypes
<1>9. old \in Seq(Bytes) /\ Len(old) = end - low
      /\ \A k \in 1 .. end - low : old[k] = ByteAt(rs, low + k - 1)
  <2> DEFINE n == end - low
  <2>1. n \in Nat
    BY <1>2
  <2> HIDE DEF n
  <2>2. old = [k \in 1 .. n |-> ByteAt(rs, low + k - 1)]
        /\ \A k \in 1 .. n : ByteAt(rs, low + k - 1) \in Bytes
    BY <1>5, <1>7 DEF n
  <2>3. old \in [1 .. n -> Bytes]
    BY <2>2
  <2>4. old \in Seq(Bytes) /\ Len(old) = n
    BY <2>1, <2>3
  <2> QED
    BY <2>2, <2>4 DEF n
<1>10. /\ Fill(gap, r.fill) \in Seq(Bytes) /\ Len(Fill(gap, r.fill)) = gap
       /\ \A i \in 1 .. gap : Fill(gap, r.fill)[i] = r.fill
  BY <1>3, FilledIs
<1>11. old \o Fill(gap, r.fill) \in Seq(Bytes)
       /\ Len(old \o Fill(gap, r.fill)) = r.at - low
       /\ \A k \in 1 .. r.at - low : (old \o Fill(gap, r.fill))[k]
                                       = IF k <= end - low THEN old[k] ELSE r.fill
  <2>1. Len(old) + gap = r.at - low
    BY <1>2, <1>3, <1>9 DEF gap
  <2>2. \A k \in 1 .. r.at - low : k > end - low => k - Len(old) \in 1 .. gap
    BY <1>2, <1>3, <1>9 DEF gap
  <2> QED
    BY <1>9, <1>10, <2>1, <2>2, ConcatProperties
<1>12. mine \in Seq(Bytes) /\ Len(mine) = r.at + Len(r.data) - low
       /\ \A k \in 1 .. r.at + Len(r.data) - low :
            mine[k] = IF k <= r.at - low THEN (old \o Fill(gap, r.fill))[k]
                      ELSE r.data[k - (r.at - low)]
  <2> DEFINE first == old \o Fill(gap, r.fill)
  <2>1. r.at - low + Len(r.data) = r.at + Len(r.data) - low
    BY <1>2, <1>3
  <2>2. first \in Seq(Bytes) /\ Len(first) = r.at - low
    BY <1>11
  <2> HIDE DEF first
  <2>3. mine = first \o r.data
    BY DEF first
  <2> HIDE DEF mine
  <2>4. /\ mine \in Seq(Bytes) /\ Len(mine) = Len(first) + Len(r.data)
        /\ \A k \in 1 .. Len(first) + Len(r.data) :
             mine[k] = IF k <= Len(first) THEN first[k] ELSE r.data[k - Len(first)]
    BY <1>3, <2>2, <2>3, ConcatProperties
  <2> QED
    BY <2>1, <2>2, <2>4 DEF first
<1> HIDE DEF mine
<1>13. ASSUME NEW k \in 1 .. r.at + Len(r.data) - low
       PROVE  ByteAt(new, low + k - 1) = mine[k]
  <2>1. CASE k <= end - low
    <3>1. k \in 1 .. end - low /\ k \in 1 .. r.at - low /\ k <= r.at - low
      BY <1>2, <1>3, <2>1
    <3> QED
      BY <1>7, <1>9, <1>11, <1>12, <3>1
  <2>2. CASE k > end - low
    <3> DEFINE a == low + k - 1
    <3>1. a \in end .. r.at + Len(r.data) - 1 /\ a \in Int
          /\ (k <= r.at - low <=> a < r.at) /\ k - (r.at - low) = a - r.at + 1
      BY <1>2, <1>3, <2>2, SMTT(30)
    <3> HIDE DEF a
    <3>2. ByteAt(new, a) = IF a < r.at THEN r.fill ELSE r.data[a - r.at + 1]
      BY <1>8, <3>1
    <3>3. mine[k] = IF a < r.at THEN (old \o Fill(gap, r.fill))[k] ELSE r.data[a - r.at + 1]
      BY <1>12, <3>1
    <3>4. a < r.at => (old \o Fill(gap, r.fill))[k] = r.fill
      <4>1. a < r.at => k \in 1 .. r.at - low /\ ~(k <= end - low)
        BY <1>2, <1>3, <2>2, <3>1
      <4> QED
        BY <1>11, <4>1
    <3>5. ByteAt(new, a) = mine[k]
      BY <3>2, <3>3, <3>4
    <3> QED
      BY <3>5 DEF a
  <2> QED
    BY <1>2, <2>1, <2>2
<1>14. mine = [k \in 1 .. r.at + Len(r.data) - low |-> mine[k]]
  BY <1>12
<1>15. all = mine
  BY <1>6, <1>13, <1>14
<1> QED
  BY <1>9, <1>15 DEF all, old, new, mine, gap, end

-----------------------------------------------------------------------------
(***************************************************************************)
(* Sums, and what the helpers on bytes return                              *)
(***************************************************************************)
Lower == {ss \in Nat \X Nat : ss[1] < ss[2]}

\* What holds of 0, and of n + 1 if of n, holds of every number.
LEMMA Inductive ==
  ASSUME NEW S, 0 \in S, \A n \in Nat : n \in S => n + 1 \in S
  PROVE  Nat \subseteq S
<1>1. SUFFICES ASSUME Nat \ S # {} PROVE FALSE
  OBVIOUS
<1>2. IsWellFoundedOn(Lower, Nat)
  BY NatLessThanWellFounded DEF OpToRel, Lower
<1>3. PICK m \in Nat \ S : \A n \in Nat \ S : ~(<<n, m>> \in Lower)
  BY <1>1, <1>2, WFMin
<1>4. m # 0 /\ m - 1 \in Nat /\ m - 1 < m /\ (m - 1) + 1 = m
  BY <1>3
<1>5. m - 1 \in S
  BY <1>3, <1>4 DEF Lower
<1> QED
  BY <1>3, <1>4, <1>5

\* f adds up the numbers of d, one after another.
Adds(f, d, n) == f = [i \in 0 .. n |-> IF i = 0 THEN 0 ELSE f[i - 1] + d[i]]

\* A sum of n numbers can be formed.
LEMMA SumsExist ==
  ASSUME NEW d, NEW n \in Nat
  PROVE  \E f : Adds(f, d, n)
<1> DEFINE S == {k \in Nat : \E f : Adds(f, d, k)}
<1>1. 0 \in S
  <2> DEFINE f == [i \in 0 .. 0 |-> 0]
  <2>1. Adds(f, d, 0)
    BY DEF Adds
  <2> QED
    BY <2>1
<1>2. ASSUME NEW k \in Nat, k \in S
      PROVE  k + 1 \in S
  <2>1. PICK f : Adds(f, d, k)
    BY <1>2
  <2> DEFINE top == k + 1
             g   == [i \in 0 .. top |-> IF i = top THEN f[k] + d[top] ELSE f[i]]
  <2>2. /\ top \in Nat /\ k \in 0 .. top /\ top - 1 = k /\ top # 0 /\ top \in 0 .. top
        /\ \A i \in 0 .. top : i # top => i \in 0 .. k
        /\ \A i \in 0 .. k : i # top /\ i \in 0 .. top
        /\ \A i \in 0 .. k : i # 0 => i - 1 \in 0 .. k
    OBVIOUS
  <2> HIDE DEF top
  <2>3. \A i \in 0 .. k : f[i] = IF i = 0 THEN 0 ELSE f[i - 1] + d[i]
    BY <2>1 DEF Adds
  <2>4. \A i \in 0 .. k : g[i] = f[i]
    BY <2>2
  <2>5. g[top] = f[k] + d[top]
    BY <2>2
  <2>6. \A i \in 0 .. top : g[i] = IF i = 0 THEN 0 ELSE g[i - 1] + d[i]
    <3>1. TAKE i \in 0 .. top
    <3>2. CASE i = top
      BY <2>2, <2>4, <2>5, <3>2
    <3>3. CASE i # top
      <4>1. i \in 0 .. k /\ g[i] = f[i]
        BY <2>2, <2>4, <3>3
      <4>2. i # 0 => g[i - 1] = f[i - 1]
        BY <2>2, <2>4, <4>1
      <4> QED
        BY <2>3, <4>1, <4>2
    <3> QED
      BY <3>2, <3>3
  <2>7. g = [i \in 0 .. top |-> g[i]]
    OBVIOUS
  <2> HIDE DEF g
  <2>8. Adds(g, d, top)
    BY <2>6, <2>7 DEF Adds
  <2> QED
    BY <2>2, <2>8 DEF top
<1> HIDE DEF S
<1>3. n \in S
  BY <1>1, <1>2, Inductive
<1> QED
  BY <1>3 DEF S

\* It is a number.
LEMMA SumsTyped ==
  ASSUME NEW f, NEW d, NEW n \in Nat, Adds(f, d, n), \A i \in 1 .. n : d[i] \in Nat
  PROVE  f[n] \in Nat
<1> DEFINE S == {k \in Nat : k <= n => f[k] \in Nat}
<1>1. \A i \in 0 .. n : f[i] = IF i = 0 THEN 0 ELSE f[i - 1] + d[i]
  BY DEF Adds
<1>2. 0 \in S
  BY <1>1
<1>3. ASSUME NEW k \in Nat, k \in S
      PROVE  k + 1 \in S
  <2> DEFINE top == k + 1
  <2>1. top \in Nat /\ top # 0 /\ top - 1 = k /\ (top <= n => k <= n /\ top \in 1 .. n /\ top \in 0 .. n)
    OBVIOUS
  <2> HIDE DEF top
  <2>2. top <= n => f[top] \in Nat
    <3>1. ASSUME top <= n PROVE f[top] = f[k] + d[top]
      BY <1>1, <2>1, <3>1
    <3> QED
      BY <1>3, <2>1, <3>1
  <2> QED
    BY <2>1, <2>2 DEF top
<1> HIDE DEF S
<1>4. n \in S
  BY <1>2, <1>3, Inductive
<1> QED
  BY <1>4 DEF S

\* So is the length of all pieces.
LEMMA TotalTypes ==
  ASSUME NEW rs \in Seq(Piece)
  PROVE  Total(rs) \in Nat
<1> DEFINE n == Len(rs)
           d == [i \in 1 .. n |-> Len(rs[i].data)]
           f == CHOOSE g : g = [i \in 0 .. n |-> IF i = 0 THEN 0 ELSE g[i - 1] + Len(rs[i].data)]
<1>1. n \in Nat /\ \A i \in 1 .. n : d[i] \in Nat
  <2>1. n \in Nat /\ DOMAIN rs = 1 .. n
    OBVIOUS
  <2> QED
    BY <2>1, PieceTypes
<1>2. Total(rs) = f[n]
  BY DEF Total
<1>3. ASSUME NEW g
      PROVE  Adds(g, d, n)
               <=> g = [i \in 0 .. n |-> IF i = 0 THEN 0 ELSE g[i - 1] + Len(rs[i].data)]
  <2>1. \A i \in 0 .. n : (IF i = 0 THEN 0 ELSE g[i - 1] + d[i])
                           = IF i = 0 THEN 0 ELSE g[i - 1] + Len(rs[i].data)
    BY <1>1
  <2> HIDE DEF d, n
  <2>2. [i \in 0 .. n |-> IF i = 0 THEN 0 ELSE g[i - 1] + d[i]]
          = [i \in 0 .. n |-> IF i = 0 THEN 0 ELSE g[i - 1] + Len(rs[i].data)]
    BY <2>1
  <2> QED
    BY <2>2 DEF Adds
<1>4. \E g : Adds(g, d, n)
  BY <1>1, SumsExist
<1> HIDE DEF d, n
<1>5. Adds(f, d, n)
  BY <1>3, <1>4
<1>6. f[n] \in Nat
  BY <1>1, <1>5, SumsTyped
<1> QED
  BY <1>2, <1>6

\* What the proofs use of bytes.
LEMMA BytesAre ==
  /\ Bytes \subseteq Nat /\ 0 \in Bytes /\ Byte - 1 \in Bytes
  /\ Byte \in Nat /\ Byte > 2
BY HunksAssumption DEF Bytes

\* A checksum is a number.
LEMMA SumTypes ==
  ASSUME NEW bs \in Seq(Bytes)
  PROVE  Sum(bs) \in Nat
<1> DEFINE n == Len(bs)
           f == CHOOSE g : g = [i \in 0 .. n |-> IF i = 0 THEN 0 ELSE g[i - 1] + bs[i]]
<1>0. n \in Nat /\ \A i \in 1 .. n : bs[i] \in Bytes
  OBVIOUS
<1>1. n \in Nat /\ \A i \in 1 .. n : bs[i] \in Nat
  BY <1>0, BytesAre
<1>2. Sum(bs) = f[n]
  BY DEF Sum
<1> HIDE DEF n
<1>3. Adds(f, bs, n)
  BY <1>1, SumsExist DEF Adds
<1>4. f[n] \in Nat
  BY <1>1, <1>3, SumsTyped
<1> QED
  BY <1>2, <1>4

\* The bytes of a number, and the number of two bytes.
LEMMA Remainder ==
  ASSUME NEW n \in Int
  PROVE  n % Byte \in Bytes /\ (n >= 0 => n \div Byte \in Nat)
BY BytesAre DEF Bytes

\* putw() writes two bytes.
LEMMA PutwTypes ==
  ASSUME NEW n \in Nat
  PROVE  /\ Putw(n) \in Seq(Bytes) /\ Len(Putw(n)) = 2 /\ Putw(n) \in Bytes \X Bytes
<1>1. n % Byte \in Bytes /\ (n \div Byte) % Byte \in Bytes
  BY Remainder
<1> QED
  BY <1>1 DEF Putw

\* Two bytes make a word.
LEMMA WordIs ==
  /\ Word \in Nat /\ Word > 0
  /\ \A a, b \in Bytes : a + Byte * b \in 0 .. Word - 1
  /\ \A n \in Nat : n % Word \in 0 .. Word - 1
<1>1. Byte \in Nat /\ Byte > 2
  BY BytesAre
<1>2. Word \in Nat /\ Word > 0
  BY <1>1 DEF Word
<1>3. ASSUME NEW a \in Bytes, NEW b \in Bytes
      PROVE  a + Byte * b \in 0 .. Word - 1
  <2>1. a \in Nat /\ b \in Nat /\ a <= Byte - 1 /\ b <= Byte - 1
    BY <1>1, <1>3 DEF Bytes
  <2>2. Byte * b <= Byte * (Byte - 1) /\ Byte * b \in Nat
    BY <1>1, <2>1
  <2>3. Byte * (Byte - 1) = Word - Byte
    BY <1>1 DEF Word
  <2> QED
    BY <1>1, <1>2, <2>1, <2>2, <2>3
<1> QED
  BY <1>2, <1>3

\* Bytes overwritten in a file are bytes of a file.
LEMMA WrittenTypes ==
  ASSUME NEW f \in Seq(Bytes), NEW p \in Nat, NEW bs \in Seq(Bytes)
  PROVE  Written(f, p, bs) \in Seq(Bytes)
<1> DEFINE end == p + Len(bs)
           n   == IF end > Len(f) THEN end ELSE Len(f)
           b(i) == IF i > p /\ i <= end THEN bs[i - p] ELSE IF i <= Len(f) THEN f[i] ELSE 0
<1>1. n \in Nat /\ end = p + Len(bs) /\ Len(bs) \in Nat /\ Len(f) \in Nat
  OBVIOUS
<1>2. Written(f, p, bs) = [i \in 1 .. n |-> b(i)]
  BY DEF Written
<1>3. ASSUME NEW i \in 1 .. n PROVE b(i) \in Bytes
  <2>1. CASE i > p /\ i <= end
    <3>1. i - p \in 1 .. Len(bs)
      BY <1>1, <2>1
    <3>2. bs[i - p] \in Bytes
      BY <3>1
    <3> QED
      BY <2>1, <3>2
  <2>2. CASE ~(i > p /\ i <= end) /\ i <= Len(f)
    BY <2>2
  <2>3. CASE ~(i > p /\ i <= end) /\ ~(i <= Len(f))
    BY <2>3, BytesAre
  <2> QED
    BY <2>1, <2>2, <2>3
<1> HIDE DEF n, b
<1>4. [i \in 1 .. n |-> b(i)] \in Seq(Bytes)
  BY <1>1, <1>3
<1> QED
  BY <1>2, <1>4

\* The bytes of a statement, as many as it has.
LEMMA DataTypes ==
  ASSUME runs \in Seq(Piece), NEW n \in Nat
  PROVE  Data(n) \in Seq(Bytes) /\ Len(Data(n)) = n
<1> DEFINE c == Byte - 2
           t == Total(runs)
           b(i) == 1 + ((t + i - 1) % c)
<1>1. t \in Nat
  BY TotalTypes
<1>2. c \in Nat /\ c > 0 /\ c = Byte - 2
  BY BytesAre
<1>3. Data(n) = [i \in 1 .. n |-> b(i)]
  BY DEF Data
<1> HIDE DEF t, c
<1>4. ASSUME NEW i \in 1 .. n PROVE b(i) \in Bytes
  <2>1. (t + i - 1) % c \in 0 .. c - 1
    BY <1>1, <1>2
  <2> QED
    BY <1>2, <2>1, BytesAre DEF Bytes
<1> HIDE DEF b
<1>5. [i \in 1 .. n |-> b(i)] \in Seq(Bytes) /\ Len([i \in 1 .. n |-> b(i)]) = n
  BY <1>4
<1> QED
  BY <1>3, <1>5

-----------------------------------------------------------------------------
(***************************************************************************)
(* The types of the two halves                                             *)
(***************************************************************************)
HunkTypes ==
  /\ F_format \in Formats /\ pass \in 1 .. MaxPasses /\ Redo \in BOOLEAN
  /\ Csegment \in Nat /\ unknown \in BOOLEAN /\ OrgFill \in Bytes
  /\ FI_temp \in Seq(Bytes)
  /\ Fisclear \in BOOLEAN /\ org \in Nat /\ Seglen \in Nat /\ Seekback \in Nat
  /\ dasm \in {"assembling", "aborted", "complete"} /\ left \in 0 .. MaxStatements
  /\ runs \in Seq(Piece)

RecordLine == [addr : Bytes \X Bytes, data : Seq(Bytes), check : Bytes]

ToolTypes ==
  /\ outfile \in Seq(Bytes)
  /\ tool \in {"none", "ftobin", "ftohex"}
  /\ state \in {"open", "hunk", "gap", "done", "refused"}
  /\ at \in 0 .. Len(In) /\ addr \in Nat /\ base \in Nat
  /\ tool = "ftobin" => addr \in 0 .. Word - 1 /\ base \in 0 .. Word - 1
  /\ len \in Nat /\ maxseek \in Nat /\ outpos \in Nat
  /\ records \in Seq(RecordLine)

\* The parts of TypeOK that the proof uses.
LEMMA TypeParts ==
  ASSUME HunkTypes, ToolTypes
  PROVE  TypeOK
<1>1. ASSUME NEW i \in DOMAIN records
      PROVE  /\ records[i].addr \in Bytes \X Bytes
             /\ records[i].data \in Seq(Bytes)
             /\ records[i].check \in Bytes
  <2>1. records[i] \in RecordLine
    BY DEF ToolTypes
  <2> QED
    BY <2>1 DEF RecordLine
<1> QED
  BY <1>1 DEF TypeOK, HunkTypes, ToolTypes

-----------------------------------------------------------------------------
(***************************************************************************)
(* The assembly                                                            *)
(***************************************************************************)
LEMMA FormatIs ==
  ASSUME HunkTypes
  PROVE  F_format \in {"DEFAULT", "RAS", "RAW"}
BY HunksAssumption DEF HunkTypes

\* The piece that a statement generates.
LEMMA NewPiece ==
  ASSUME HunkTypes, NEW n \in Lengths
  PROVE  LET r == [at |-> Csegment, data |-> Data(n), fill |-> OrgFill]
         IN /\ n \in Nat /\ Data(n) \in Seq(Bytes) /\ Len(Data(n)) = n
            /\ r \in Piece /\ Append(runs, r) \in Seq(Piece)
<1> DEFINE r == [at |-> Csegment, data |-> Data(n), fill |-> OrgFill]
<1>1. n \in Nat
  BY HunksAssumption
<1>2. runs \in Seq(Piece) /\ Csegment \in Nat /\ OrgFill \in Bytes
  BY DEF HunkTypes
<1>3. Data(n) \in Seq(Bytes) /\ Len(Data(n)) = n
  BY <1>1, <1>2, DataTypes
<1>4. r \in Piece
  BY <1>2, <1>3 DEF Piece
<1> HIDE DEF r
<1>5. Append(runs, r) \in Seq(Piece)
  BY <1>2, <1>4
<1> QED
  BY <1>1, <1>3, <1>4, <1>5 DEF r

\* What a statement writes in format 2.
LEMMA RasTypes ==
  ASSUME HunkTypes, NEW data \in Seq(Bytes), GenerateRas(data)
  PROVE  FI_temp' \in Seq(Bytes) /\ Seekback' \in Nat /\ Seglen' \in Nat
<1> DEFINE f == IF Fisclear THEN FI_temp ELSE Patched(FI_temp)
           h == Header(f)
<1>1. FI_temp \in Seq(Bytes) /\ Csegment \in Nat /\ Seglen \in Nat /\ Seekback \in Nat
  BY DEF HunkTypes
<1>2. Patched(FI_temp) \in Seq(Bytes)
  BY <1>1, PutwTypes, WrittenTypes DEF Patched
<1>3. f \in Seq(Bytes)
  BY <1>1, <1>2
<1> HIDE DEF f
<1>4. <<0, 0>> \in Seq(Bytes)
  BY BytesAre
<1>5. h \in Seq(Bytes)
  <2>1. f \o Putw(Csegment) \in Seq(Bytes)
    BY <1>1, <1>3, PutwTypes
  <2> QED
    BY <1>4, <2>1 DEF Header
<1>6. LengthField(f) \in Nat
  BY <1>3 DEF LengthField
<1> HIDE DEF h
<1>7. /\ FI_temp' = (IF Fisclear \/ org # Csegment THEN h ELSE FI_temp) \o data
      /\ Seekback' = IF Fisclear \/ org # Csegment THEN LengthField(f) ELSE Seekback
      /\ Seglen' = (IF Fisclear \/ org # Csegment THEN 0 ELSE Seglen) + Len(data)
  BY DEF GenerateRas, f, h
<1>8. Len(data) \in Nat
  OBVIOUS
<1> QED
  BY <1>1, <1>5, <1>6, <1>7, <1>8

\* And in the others: the address first, then the gap, then the data.
LEMMA FlatTypes ==
  ASSUME HunkTypes, Fisclear \/ Csegment >= org, NEW data \in Seq(Bytes), GenerateFlat(data)
  PROVE  FI_temp' \in Seq(Bytes) /\ Seekback' \in Nat /\ Seglen' \in Nat
<1> DEFINE first == IF Fisclear /\ F_format = "DEFAULT" THEN Putw(Csegment) ELSE FI_temp
           gap   == IF Fisclear THEN <<>> ELSE Fill(Csegment - org, OrgFill)
<1>1. /\ FI_temp \in Seq(Bytes) /\ Csegment \in Nat /\ Seglen \in Nat /\ Seekback \in Nat
      /\ org \in Nat /\ OrgFill \in Bytes
  BY DEF HunkTypes
<1>2. first \in Seq(Bytes)
  BY <1>1, PutwTypes
<1>3. gap \in Seq(Bytes)
  <2>1. CASE Fisclear
    BY <2>1
  <2>2. CASE ~Fisclear
    <3>1. Csegment - org \in Nat
      BY <1>1, <2>2
    <3> QED
      BY <1>1, <2>2, <3>1, FilledIs
  <2> QED
    BY <2>1, <2>2
<1>4. FI_temp' = (first \o gap) \o data /\ Seekback' = Seekback /\ Seglen' = Seglen
  BY DEF GenerateFlat
<1> HIDE DEF first, gap
<1> QED
  BY <1>1, <1>2, <1>3, <1>4

\* A statement uses up one of those that are left.
LEMMA StatementsLeft ==
  ASSUME HunkTypes, Statement
  PROVE  left' \in 0 .. MaxStatements
BY HunksAssumption DEF HunkTypes, Statement

\* Every step of the assembler keeps the types.
LEMMA AssembleTypes ==
  ASSUME HunkTypes, Assemble
  PROVE  HunkTypes'
<1>1. CASE v_org
  <2>1. Csegment' \in Nat /\ OrgFill' \in Bytes
    BY <1>1, HunksAssumption DEF v_org, HunkTypes
  <2>2. unknown' \in BOOLEAN /\ left' \in 0 .. MaxStatements
    BY <1>1, StatementsLeft DEF v_org
  <2> QED
    BY <1>1, <2>1, <2>2 DEF v_org, HunkTypes
<1>2. CASE AskForPass
  BY <1>2, HunksAssumption DEF AskForPass, Statement, HunkTypes, origin, static
<1>3. CASE Generate
  <2>1. PICK n \in Lengths :
          /\ IF Redo THEN UNCHANGED <<FI_temp, Fisclear, org, Seglen, Seekback, runs>>
             ELSE /\ IF F_format = "RAS" THEN GenerateRas(Data(n)) ELSE GenerateFlat(Data(n))
                  /\ Fisclear' = FALSE
                  /\ org' = Csegment + n
                  /\ runs' = Append(runs, [at |-> Csegment, data |-> Data(n), fill |-> OrgFill])
          /\ Csegment' = Csegment + n
          /\ dasm' = IF Csegment + n > maxFileSize THEN "aborted" ELSE dasm
    BY <1>3 DEF Generate
  <2>2. /\ n \in Nat /\ Data(n) \in Seq(Bytes)
        /\ Append(runs, [at |-> Csegment, data |-> Data(n), fill |-> OrgFill]) \in Seq(Piece)
    BY NewPiece
  <2>3. /\ Csegment \in Nat /\ Csegment + n \in Nat /\ org \in Nat /\ left \in 0 .. MaxStatements
        /\ MaxStatements \in Nat
    BY <2>2, HunksAssumption DEF HunkTypes
  <2>4. left' \in 0 .. MaxStatements
    BY <1>3, <2>3 DEF Generate, Statement
  <2>5. ~Redo => FI_temp' \in Seq(Bytes) /\ Seekback' \in Nat /\ Seglen' \in Nat
    <3>1. CASE ~Redo /\ F_format = "RAS"
      BY <2>1, <2>2, <3>1, RasTypes
    <3>2. CASE ~Redo /\ F_format # "RAS"
      <4>1. Fisclear \/ Csegment >= org
        BY <1>3, <2>3, <3>2 DEF Generate, Reversed
      <4> QED
        BY <2>1, <2>2, <3>2, <4>1, FlatTypes
    <3> QED
      BY <3>1, <3>2
  <2>6. FI_temp' \in Seq(Bytes) /\ Seekback' \in Nat /\ Seglen' \in Nat
    BY <2>1, <2>5 DEF HunkTypes
  <2>7. /\ Fisclear' \in BOOLEAN /\ org' \in Nat /\ runs' \in Seq(Piece)
        /\ Csegment' \in Nat /\ dasm' \in {"assembling", "aborted", "complete"}
    BY <2>1, <2>2, <2>3 DEF HunkTypes
  <2> QED
    BY <1>3, <2>4, <2>6, <2>7 DEF Generate, HunkTypes
<1>4. CASE GenerateObscure
  <2>1. Redo' \in BOOLEAN /\ Fisclear' \in BOOLEAN
    BY <1>4 DEF GenerateObscure
  <2> QED
    BY <1>4, <2>1, StatementsLeft DEF GenerateObscure, HunkTypes, origin, static
<1>5. CASE GenerateReversed
  BY <1>5, HunksAssumption DEF GenerateReversed, Statement, HunkTypes, origin, static
<1>6. CASE Complete
  <2>1. Patched(FI_temp) \in Seq(Bytes)
    BY PutwTypes, WrittenTypes DEF Patched, HunkTypes
  <2>2. FI_temp' \in Seq(Bytes)
    BY <1>6, <2>1 DEF Complete, closegenerate, HunkTypes
  <2> QED
    BY <1>6, <2>2 DEF Complete, HunkTypes, origin, static
<1>7. CASE NextPass
  <2>1. pass' \in 1 .. MaxPasses /\ <<>> \in Seq(Bytes) /\ <<>> \in Seq(Piece)
    BY <1>7, HunksAssumption DEF NextPass, HunkTypes
  <2> QED
    BY <1>7, <2>1 DEF NextPass, HunkTypes, static
<1>8. CASE GiveUp
  BY <1>8 DEF GiveUp, HunkTypes, origin, static
<1> QED
  BY <1>1, <1>2, <1>3, <1>4, <1>5, <1>6, <1>7, <1>8 DEF Assemble

\* The first data of formats 1 and 3.
LEMMA FirstData ==
  ASSUME HunkTypes, NEW n \in Lengths, Fisclear, runs = <<>>, FI_temp = <<>>,
         GenerateFlat(Data(n))
  PROVE  LET r == [at |-> Csegment, data |-> Data(n), fill |-> OrgFill]
         IN /\ Append(runs, r) # <<>> /\ Ascending(Append(runs, r)) /\ Covered(Append(runs, r))
            /\ Csegment + n = EndAt(Append(runs, r), Len(Append(runs, r)))
            /\ FI_temp' = FlatFile(Append(runs, r))
<1> DEFINE r     == [at |-> Csegment, data |-> Data(n), fill |-> OrgFill]
           first == IF F_format = "DEFAULT" THEN Putw(Csegment) ELSE <<>>
<1>1. n \in Nat /\ Data(n) \in Seq(Bytes) /\ Len(Data(n)) = n /\ r \in Piece
  BY NewPiece
<1>2. r.at = Csegment /\ r.data = Data(n)
  OBVIOUS
<1>3. Append(runs, r) = <<r>>
  OBVIOUS
<1>4. first \in Seq(Bytes)
  BY PutwTypes DEF HunkTypes
<1>5. FI_temp' = (first \o <<>>) \o Data(n)
  BY DEF GenerateFlat
<1> HIDE DEF r
<1>6. /\ <<r>> # <<>> /\ Len(<<r>>) = 1 /\ <<r>>[1] = r
      /\ EndAt(<<r>>, 1) = Csegment + n
  BY <1>1, <1>2 DEF EndAt
<1>7. Ascending(<<r>>) /\ Covered(<<r>>) /\ Flattened(<<r>>) = Data(n)
  BY <1>1, <1>2, FlattenedFirst
<1>8. FlatFile(<<r>>) = first \o Data(n)
  BY <1>2, <1>6, <1>7 DEF FlatFile
<1> HIDE DEF first
<1>9. first \o <<>> = first
  BY <1>4, ConcatEmptySeq
<1> QED
  BY <1>3, <1>5, <1>6, <1>7, <1>8, <1>9 DEF r

\* And all the others.
LEMMA FurtherData ==
  ASSUME HunkTypes, NEW n \in Lengths, ~Fisclear, Csegment >= org,
         runs # <<>>, Ascending(runs), Covered(runs), org = EndAt(runs, Len(runs)),
         FI_temp = FlatFile(runs), GenerateFlat(Data(n))
  PROVE  LET r == [at |-> Csegment, data |-> Data(n), fill |-> OrgFill]
         IN /\ Append(runs, r) # <<>> /\ Ascending(Append(runs, r)) /\ Covered(Append(runs, r))
            /\ Csegment + n = EndAt(Append(runs, r), Len(Append(runs, r)))
            /\ FI_temp' = FlatFile(Append(runs, r))
<1> DEFINE r     == [at |-> Csegment, data |-> Data(n), fill |-> OrgFill]
           new   == Append(runs, r)
           first == IF F_format = "DEFAULT" THEN Putw(runs[1].at) ELSE <<>>
           old   == Flattened(runs)
           gap   == Fill(Csegment - org, OrgFill)
           data  == Data(n)
<1>1. n \in Nat /\ data \in Seq(Bytes) /\ Len(data) = n /\ r \in Piece
  BY NewPiece
<1>2. r.at = Csegment /\ r.data = data /\ r.fill = OrgFill
  OBVIOUS
<1>3. runs \in Seq(Piece) /\ Csegment \in Nat /\ org \in Nat /\ OrgFill \in Bytes
  BY DEF HunkTypes
<1>4. FI_temp' = (FI_temp \o gap) \o data
  BY DEF GenerateFlat
<1> HIDE DEF r, data
<1>5. /\ new # <<>> /\ Len(new) = Len(runs) + 1 /\ new[1] = runs[1]
      /\ EndAt(new, Len(runs) + 1) = Csegment + n
  BY <1>1, <1>2, <1>3, AppendedPieces
<1>6. Ascending(new) /\ Covered(new)
  BY <1>1, <1>2, <1>3, AppendedHolds
<1>7. old \in Seq(Bytes) /\ Flattened(new) = (old \o gap) \o data
  BY <1>1, <1>2, <1>3, FlattenedAppended
<1>8. first \in Seq(Bytes)
  <2>1. 1 \in DOMAIN runs
    BY <1>3
  <2>2. runs[1].at \in Nat
    BY <1>3, <2>1, PieceTypes
  <2> QED
    BY <2>2, PutwTypes
<1>9. gap \in Seq(Bytes)
  <2>1. Csegment - org \in Nat
    BY <1>3
  <2> QED
    BY <1>3, <2>1, FilledIs
<1>10. FlatFile(new) = first \o ((old \o gap) \o data) /\ FI_temp = first \o old
  BY <1>5, <1>7 DEF FlatFile
<1> HIDE DEF first, gap, old
<1>11. first \o ((old \o gap) \o data) = ((first \o old) \o gap) \o data
  <2> DEFINE more == old \o gap
  <2>1. more \in Seq(Bytes)
    BY <1>7, <1>9
  <2> HIDE DEF more
  <2>2. first \o (more \o data) = (first \o more) \o data
    BY <1>1, <1>8, <2>1, ConcatAssociative, SMTT(30)
  <2>3. first \o more = (first \o old) \o gap
    <3>1. old \in Seq(Bytes)
      BY <1>7
    <3> QED
      BY <1>8, <1>9, <3>1, ConcatAssociative, SMTT(30) DEF more
  <2> QED
    BY <2>2, <2>3 DEF more
<1>12. FI_temp' = FlatFile(new)
  BY <1>4, <1>10, <1>11
<1> QED
  BY <1>5, <1>6, <1>12 DEF r

\* Every step of the assembler keeps the flat file the image of its pieces.
LEMMA AssembleFlat ==
  ASSUME HunkTypes, FlatSoFar, Assemble
  PROVE  FlatSoFar'
<1>1. CASE Generate
  <2>1. PICK n \in Lengths :
          /\ IF Redo THEN UNCHANGED <<FI_temp, Fisclear, org, Seglen, Seekback, runs>>
             ELSE /\ IF F_format = "RAS" THEN GenerateRas(Data(n)) ELSE GenerateFlat(Data(n))
                  /\ Fisclear' = FALSE
                  /\ org' = Csegment + n
                  /\ runs' = Append(runs, [at |-> Csegment, data |-> Data(n), fill |-> OrgFill])
    BY <1>1 DEF Generate
  <2>2. F_format' = F_format /\ Redo' = Redo
    BY <1>1 DEF Generate
  <2>3. CASE Redo
    <3>1. UNCHANGED <<F_format, Fisclear, runs, FI_temp, Redo, org>>
      BY <2>1, <2>2, <2>3
    <3> QED
      BY <3>1 DEF FlatSoFar, FlatFile
  <2>4. CASE ~Redo
    <3> DEFINE new == Append(runs, [at |-> Csegment, data |-> Data(n), fill |-> OrgFill])
    <3>1. /\ runs' = new /\ org' = Csegment + n /\ ~Fisclear' /\ ~Redo'
          /\ F_format # "RAS" => GenerateFlat(Data(n))
      BY <2>1, <2>2, <2>4
    <3>2. Csegment \in Nat /\ org \in Nat
      BY DEF HunkTypes
    <3>3. F_format # "RAS" => /\ new # <<>> /\ Ascending(new) /\ Covered(new)
                              /\ Csegment + n = EndAt(new, Len(new))
                              /\ FI_temp' = FlatFile(new)
      <4>1. CASE F_format # "RAS" /\ Fisclear
        <5>1. runs = <<>> /\ FI_temp = <<>>
          BY <4>1 DEF FlatSoFar
        <5> QED
          BY <3>1, <4>1, <5>1, FirstData
      <4>2. CASE F_format # "RAS" /\ ~Fisclear
        <5>1. /\ runs # <<>> /\ Ascending(runs) /\ Covered(runs)
              /\ org = EndAt(runs, Len(runs)) /\ FI_temp = FlatFile(runs)
          BY <2>4, <4>2 DEF FlatSoFar
        <5>2. Csegment >= org
          BY <1>1, <2>4, <3>2, <4>2 DEF Generate, Reversed
        <5> QED
          BY <3>1, <4>2, <5>1, <5>2, FurtherData
      <4> QED
        BY <4>1, <4>2
    <3> HIDE DEF new
    <3>4. F_format' # "RAS" =>
            /\ runs' # <<>> /\ Ascending(runs') /\ Covered(runs')
            /\ org' = EndAt(runs', Len(runs')) /\ FI_temp' = FlatFile(runs)'
      BY <2>2, <3>1, <3>3 DEF FlatFile
    <3> QED
      BY <3>1, <3>4 DEF FlatSoFar
  <2> QED
    BY <2>3, <2>4
<1>2. CASE GenerateObscure
  BY <1>2 DEF GenerateObscure, Obscure, FlatSoFar
<1>3. CASE NextPass
  BY <1>3 DEF NextPass, FlatSoFar
<1>4. CASE v_org \/ AskForPass \/ GenerateReversed \/ Complete \/ GiveUp
  <2>1. /\ UNCHANGED <<F_format, Fisclear, runs, org>>
        /\ Redo' = Redo \/ Redo' = TRUE
        /\ F_format # "RAS" => FI_temp' = FI_temp
    BY <1>4 DEF v_org, AskForPass, GenerateReversed, Complete, closegenerate, GiveUp, static
  <2> QED
    BY <2>1 DEF FlatSoFar, FlatFile
<1> QED
  BY <1>1, <1>2, <1>3, <1>4 DEF Assemble

-----------------------------------------------------------------------------
(***************************************************************************)
(* The converters                                                          *)
(***************************************************************************)
LEMMA ReadTypes ==
  ASSUME HunkTypes
  PROVE  /\ In \in Seq(Bytes) /\ Len(In) \in Nat
         /\ \A p \in Nat : /\ Getwlh(p) \in 0 .. Word - 1 /\ Getwlh(p) \in Nat
                           /\ After(p) \in 0 .. Len(In)
<1>1. In \in Seq(Bytes) /\ Len(In) \in Nat
  BY DEF HunkTypes, In
<1>2. ASSUME NEW p \in Nat
      PROVE  Getwlh(p) \in 0 .. Word - 1
  <2>1. CASE Whole(p)
    <3>1. p + 1 \in 1 .. Len(In) /\ p + 2 \in 1 .. Len(In)
      BY <1>1, <2>1 DEF Whole
    <3>2. In[p + 1] \in Bytes /\ In[p + 2] \in Bytes
      BY <1>1, <3>1
    <3> QED
      BY <2>1, <3>2, WordIs DEF Getwlh, Getw
  <2>2. CASE ~Whole(p)
    BY <2>2, WordIs DEF Getwlh
  <2> QED
    BY <2>1, <2>2
<1>3. ASSUME NEW p \in Nat
      PROVE  After(p) \in 0 .. Len(In)
  BY <1>1 DEF After, Whole
<1>4. \A n \in 0 .. Word - 1 : n \in Nat
  BY WordIs
<1> QED
  BY <1>1, <1>2, <1>3, <1>4

\* Reading data stays within the file and the buffer.
LEMMA FreadTypes ==
  ASSUME HunkTypes, at \in Nat, NEW n \in Nat, NEW junk \in Junk(n)
  PROVE  Fread(n, junk) \in Seq(Bytes)
<1> DEFINE b(i) == IF at + i <= Len(In) THEN In[at + i] ELSE junk
<1>1. junk \in Bytes
  BY BytesAre DEF Junk
<1>2. ASSUME NEW i \in 1 .. n PROVE b(i) \in Bytes
  <2>1. CASE at + i <= Len(In)
    <3>1. at + i \in 1 .. Len(In)
      BY <2>1, ReadTypes
    <3>2. In[at + i] \in Bytes
      BY <3>1, ReadTypes
    <3> QED
      BY <2>1, <3>2
  <2>2. CASE ~(at + i <= Len(In))
    BY <1>1, <2>2
  <2> QED
    BY <2>1, <2>2
<1>3. Fread(n, junk) = [i \in 1 .. n |-> b(i)]
  BY DEF Fread
<1> HIDE DEF b
<1>4. [i \in 1 .. n |-> b(i)] \in Seq(Bytes)
  BY <1>2
<1> QED
  BY <1>3, <1>4

\* A read ends within the file.
LEMMA AfterReadTypes ==
  ASSUME HunkTypes, at \in 0 .. Len(In), NEW n \in Nat
  PROVE  AfterRead(n) \in 0 .. Len(In)
BY ReadTypes DEF AfterRead

\* A line of the hex file.
LEMMA RecordTypes ==
  ASSUME NEW a \in Nat, NEW bs \in Seq(Bytes)
  PROVE  Record(a, bs) \in RecordLine
<1> DEFINE total == 0 - (Len(bs) + (a \div Byte) + (a % Byte) + Sum(bs))
<1>1. Len(bs) \in Nat /\ Sum(bs) \in Nat /\ a \div Byte \in Nat /\ a % Byte \in Nat
  <2>1. Sum(bs) \in Nat /\ Len(bs) \in Nat
    BY SumTypes
  <2>2. a \div Byte \in Nat /\ a % Byte \in Bytes
    BY Remainder
  <2> QED
    BY <2>1, <2>2, BytesAre
<1>2. total \in Int
  BY <1>1
<1>3. Record(a, bs) = [addr |-> Putw(a), data |-> bs, check |-> total % Byte]
  BY DEF Record
<1> HIDE DEF total
<1>4. total % Byte \in Bytes
  BY <1>2, Remainder
<1> QED
  BY <1>3, <1>4, PutwTypes DEF RecordLine

\* A converter starts with nothing written.
LEMMA OpenTypes ==
  ASSUME HunkTypes, ToolTypes, Open
  PROVE  ToolTypes'
<1> DEFINE org0 == IF F_format = "RAW" THEN 0 ELSE Getwlh(0)
           p    == IF F_format = "RAW" THEN 0 ELSE After(0)
<1>1. org0 \in 0 .. Word - 1 /\ org0 \in Nat /\ p \in 0 .. Len(In) /\ p \in Nat /\ Len(In) \in Nat
  <2>1. 0 \in Nat /\ 0 \in 0 .. Word - 1 /\ Len(In) \in Nat
    BY WordIs, ReadTypes
  <2>2. Getwlh(0) \in 0 .. Word - 1 /\ Getwlh(0) \in Nat /\ After(0) \in 0 .. Len(In)
    BY <2>1, ReadTypes
  <2> QED
    BY <2>1, <2>2
<1>2. Getwlh(p) \in Nat /\ After(p) \in 0 .. Len(In) /\ Len(In) - p \in Nat
  <2> HIDE DEF org0, p
  <2>1. Getwlh(p) \in Nat /\ After(p) \in 0 .. Len(In)
    BY <1>1, ReadTypes
  <2> QED
    BY <1>1, <2>1
<1>3. /\ addr' = org0 /\ base' = org0
      /\ at' = IF F_format = "RAS" THEN After(p) ELSE p
      /\ len' = IF F_format = "RAS" THEN Getwlh(p) ELSE Len(In) - p
      /\ state' = "hunk"
      /\ UNCHANGED <<FI_temp, tool, maxseek, outpos, outfile, records>>
  BY DEF Open, dasmVars
<1> HIDE DEF org0, p
<1>4. /\ at' \in 0 .. Len(In) /\ Len(In)' = Len(In) /\ len' \in Nat
  BY <1>1, <1>2, <1>3 DEF In
<1> QED
  BY <1>1, <1>3, <1>4 DEF ToolTypes

\* ftobin copies what it reads.
LEMMA CopyTypes ==
  ASSUME HunkTypes, ToolTypes, CopyHunk
  PROVE  ToolTypes'
<1>1. /\ at \in 0 .. Len(In) /\ at \in Nat /\ len \in Nat /\ outpos \in Nat /\ addr \in Nat
      /\ outfile \in Seq(Bytes)
  BY ReadTypes DEF ToolTypes
<1>2. PICK junk \in Junk(len) : outfile' = Written(outfile, outpos, Fread(len, junk))
  BY DEF CopyHunk
<1>3. outfile' \in Seq(Bytes)
  BY <1>1, <1>2, FreadTypes, WrittenTypes
<1>4. /\ at' = AfterRead(len) /\ outpos' = outpos + len /\ addr' = (addr + len) % Word /\ len' = 0
      /\ state' \in {"gap", "done"}
      /\ UNCHANGED <<FI_temp, tool, base, maxseek, records>>
  BY DEF CopyHunk, dasmVars
<1>5. at' \in 0 .. Len(In) /\ Len(In)' = Len(In)
  BY <1>1, <1>4, AfterReadTypes DEF In
<1>6. addr + len \in Nat
  BY <1>1
<1>7. addr' \in 0 .. Word - 1 /\ addr' \in Nat
  <2>1. addr' \in 0 .. Word - 1
    BY <1>4, <1>6, WordIs
  <2> QED
    BY <2>1, WordIs
<1>8. len' \in Nat /\ outpos' \in Nat
  BY <1>1, <1>4
<1> QED
  BY <1>3, <1>4, <1>5, <1>7, <1>8 DEF ToolTypes

\* ftobin fills a gap.
LEMMA GapTypes ==
  ASSUME HunkTypes, ToolTypes, NextHunk
  PROVE  ToolTypes'
<1> DEFINE next == Getwlh(at)
           high == IF maxseek < addr - base THEN addr - base ELSE maxseek
           gap  == next - base - high
<1>1. /\ at \in 0 .. Len(In) /\ at \in Nat /\ outpos \in Nat /\ addr \in Nat /\ base \in Nat
      /\ outfile \in Seq(Bytes) /\ maxseek \in Nat /\ Len(In) \in Nat
  BY ReadTypes DEF ToolTypes
<1>2. next \in 0 .. Word - 1 /\ next \in Nat
  BY <1>1, ReadTypes
<1>3. high \in Nat
  BY <1>1
<1>4. at + 2 \in Nat /\ Len(In)' = Len(In) /\ UNCHANGED <<tool, base, records>>
  BY <1>1 DEF NextHunk, dasmVars, In
<1> HIDE DEF high
<1>5. gap \in Int /\ (gap > 0 => gap \in Nat)
  BY <1>1, <1>2, <1>3
<1>6. gap > 0 => Written(outfile, outpos, Fill(gap, Byte - 1)) \in Seq(Bytes)
  BY <1>1, <1>5, FilledIs, WrittenTypes, BytesAre
<1> HIDE DEF next, gap
<1>7. CASE ~Whole(at)
  <2>1. state' = "done" /\ maxseek' = high /\ UNCHANGED <<at, len, addr, outpos, outfile>>
    BY <1>7 DEF NextHunk, high
  <2> QED
    BY <1>3, <1>4, <2>1 DEF ToolTypes
<1>8. CASE Whole(at) /\ next < base
  <2>1. /\ state' = "refused" /\ maxseek' = high
        /\ addr' = next /\ at' = at + 2
        /\ UNCHANGED <<len, outpos, outfile>>
    BY <1>8 DEF NextHunk, high, next
  <2>2. at' \in 0 .. Len(In)
    BY <1>1, <1>8, <2>1 DEF Whole
  <2> QED
    BY <1>2, <1>3, <1>4, <2>1, <2>2 DEF ToolTypes
<1>9. CASE Whole(at) /\ ~(next < base)
  <2>1. /\ maxseek' = IF gap > 0 THEN next - base ELSE high
        /\ outfile' = IF gap > 0 THEN Written(outfile, outpos, Fill(gap, Byte - 1))
                      ELSE outfile
        /\ outpos' = next - base
        /\ addr' = next /\ len' = Getwlh(at + 2) /\ at' = After(at + 2)
        /\ state' = "hunk"
    BY <1>9 DEF NextHunk, high, next, gap
  <2>2. next - base \in Nat
    BY <1>1, <1>2, <1>9
  <2>3. len' \in Nat /\ at' \in 0 .. Len(In)
    BY <1>4, <2>1, ReadTypes
  <2>4. outfile' \in Seq(Bytes) /\ maxseek' \in Nat /\ outpos' \in Nat
    BY <1>1, <1>3, <1>6, <2>1, <2>2
  <2> QED
    BY <1>2, <1>4, <2>1, <2>3, <2>4 DEF ToolTypes
<1> QED
  BY <1>7, <1>8, <1>9

\* ftohex writes one record.
LEMMA RecordStepTypes ==
  ASSUME HunkTypes, ToolTypes, WriteRecord
  PROVE  ToolTypes'
<1> DEFINE n == IF len > PERLINE THEN PERLINE ELSE len
<1>1. at \in 0 .. Len(In) /\ at \in Nat /\ len \in Nat /\ addr \in Nat
  BY ReadTypes DEF ToolTypes
<1>2. n \in Nat /\ n <= len
  BY <1>1, ConvertersAssumption
<1>3. PICK junk \in Junk(n) : records' = Append(records, Record(addr, Fread(n, junk)))
  BY DEF WriteRecord
<1>4. /\ at' = AfterRead(n) /\ len' = len - n /\ addr' = addr + n /\ tool = "ftohex"
      /\ UNCHANGED <<FI_temp, tool, state, base, maxseek, outpos, outfile>>
  BY DEF WriteRecord, dasmVars, Running
<1> HIDE DEF n
<1>5. Record(addr, Fread(n, junk)) \in RecordLine
  BY <1>1, <1>2, FreadTypes, RecordTypes
<1>6. records' \in Seq(RecordLine)
  BY <1>3, <1>5 DEF ToolTypes
<1>7. at' \in 0 .. Len(In) /\ Len(In)' = Len(In)
  BY <1>1, <1>2, <1>4, AfterReadTypes DEF In
<1>8. len' \in Nat /\ addr' \in Nat /\ tool # "ftobin"
  BY <1>1, <1>2, <1>4
<1> QED
  BY <1>4, <1>6, <1>7, <1>8 DEF ToolTypes

\* Reading the header of a hunk.
LEMMA HeaderTypes ==
  ASSUME HunkTypes, ToolTypes, NextHeader
  PROVE  ToolTypes'
<1>1. at \in 0 .. Len(In) /\ at \in Nat
  BY ReadTypes DEF ToolTypes
<1>2. Len(In)' = Len(In) /\ tool = "ftohex"
      /\ UNCHANGED <<tool, base, maxseek, outpos, outfile, records>>
  BY DEF NextHeader, dasmVars, In, Running
<1>3. CASE F_format = "RAS" /\ Whole(at)
  <2>1. addr' = Getwlh(at) /\ len' = Getwlh(at + 2) /\ at' = After(at + 2) /\ state' = state
    BY <1>3 DEF NextHeader
  <2>2. at + 2 \in Nat
    BY <1>1
  <2>3. addr' \in Nat /\ len' \in Nat /\ at' \in 0 .. Len(In)
    BY <1>1, <2>1, <2>2, ReadTypes
  <2> QED
    BY <1>2, <2>1, <2>3 DEF ToolTypes
<1>4. CASE ~(F_format = "RAS" /\ Whole(at))
  <2>1. state' = "done" /\ UNCHANGED <<at, len, addr>>
    BY <1>4 DEF NextHeader
  <2> QED
    BY <1>2, <2>1 DEF ToolTypes
<1> QED
  BY <1>3, <1>4

-----------------------------------------------------------------------------
(***************************************************************************)
(* The invariant                                                           *)
(***************************************************************************)
FileInv == HunkTypes /\ ToolTypes /\ ToolsWait /\ FlatSoFar

\* The invariant holds at the start.
LEMMA FileInit == InitAll => FileInv
<1> SUFFICES ASSUME InitAll PROVE FileInv
  OBVIOUS
<1>1. <<>> \in Seq(Bytes) /\ <<>> \in Seq(Piece) /\ <<>> \in Seq(RecordLine) /\ Len(<<>>) = 0
  OBVIOUS
<1>2. /\ 1 \in 1 .. MaxPasses /\ MaxStatements \in 0 .. MaxStatements /\ DEFORGFILL \in Bytes
      /\ 0 \in 0 .. Word - 1
  BY HunksAssumption, WordIs
<1>3. HunkTypes
  BY <1>1, <1>2 DEF InitAll, Init, HunkTypes
<1>4. ToolTypes
  BY <1>1, <1>2 DEF InitAll, Init, ConvertInit, ToolTypes, In
<1>5. ToolsWait /\ FlatSoFar
  BY DEF InitAll, Init, ConvertInit, ToolsWait, FlatSoFar
<1> QED
  BY <1>3, <1>4, <1>5 DEF FileInv

\* Every step keeps the invariant.
LEMMA FileStep == FileInv /\ [Next]_vars => FileInv'
<1> SUFFICES ASSUME FileInv, [Next]_vars PROVE FileInv'
  OBVIOUS
<1> USE DEF FileInv
<1>1. CASE Assemble /\ UNCHANGED convert
  <2>1. HunkTypes' /\ FlatSoFar'
    BY <1>1, AssembleTypes, AssembleFlat
  <2>2. tool = "none" /\ state = "done" /\ at = 0
    BY <1>1 DEF Assemble, v_org, AskForPass, Generate, GenerateObscure, GenerateReversed,
       Complete, NextPass, GiveUp, Statement, ToolsWait
  <2>3. at' \in 0 .. Len(In')
    <3>1. FI_temp' \in Seq(Bytes)
      BY <2>1 DEF HunkTypes
    <3> QED
      BY <1>1, <2>2, <3>1 DEF In, convert
  <2>4. ToolTypes'
    BY <1>1, <2>3 DEF ToolTypes, convert
  <2>5. ToolsWait'
    BY <1>1, <2>2 DEF ToolsWait, convert
  <2> QED
    BY <2>1, <2>4, <2>5
<1>2. ASSUME UNCHANGED dasmVars
      PROVE  HunkTypes' /\ FlatSoFar' /\ UNCHANGED <<dasm, FI_temp>>
  BY <1>2 DEF dasmVars, static, origin, HunkTypes, FlatSoFar, FlatFile
<1>3. ASSUME NEW t \in {"ftobin", "ftohex"}, Start(t)
      PROVE  FileInv'
  <2>1. /\ UNCHANGED dasmVars /\ tool' = t /\ state' = "open" /\ addr = 0 /\ base = 0
        /\ dasm = "complete"
        /\ UNCHANGED <<at, len, addr, base, maxseek, outpos, outfile, records>>
    BY <1>3 DEF Start, ToolsWait
  <2>2. ToolTypes'
    BY <1>2, <2>1, WordIs DEF ToolTypes, In
  <2>3. ToolsWait'
    BY <1>2, <1>3, <2>1 DEF ToolsWait
  <2> QED
    BY <1>2, <2>1, <2>2, <2>3
<1>4. CASE Open \/ CopyHunk \/ NextHunk \/ WriteRecord \/ NextHeader
  <2>1. UNCHANGED dasmVars /\ state # "done"
    BY <1>4 DEF Open, CopyHunk, NextHunk, WriteRecord, NextHeader, Running
  <2>2. ToolTypes'
    BY <1>4, OpenTypes, CopyTypes, GapTypes, RecordStepTypes, HeaderTypes
  <2>3. tool' = tool /\ tool # "none" /\ dasm = "complete"
    BY <1>4, <2>1 DEF ToolsWait, Open, CopyHunk, NextHunk, WriteRecord, NextHeader, Running
  <2>4. ToolsWait'
    BY <1>2, <2>1, <2>3 DEF ToolsWait
  <2> QED
    BY <1>2, <2>1, <2>2, <2>4
<1>5. CASE UNCHANGED vars
  <2>1. UNCHANGED dasmVars /\ UNCHANGED convert
    BY <1>5 DEF vars
  <2>2. ToolTypes' /\ ToolsWait'
    BY <1>2, <2>1 DEF ToolTypes, ToolsWait, convert, In
  <2> QED
    BY <1>2, <2>1, <2>2
<1> QED
  BY <1>1, <1>3, <1>4, <1>5 DEF Next

\* The types of what generate() and the converters keep: whatever was written and read, the
\* output files hold bytes, the position in the file is within it, and the addresses of
\* ftobin, unsigned shorts, are words (the lines that ftohex writes are records of bytes).
THEOREM FileTypeCorrect == Spec => []TypeOK
<1>1. FileInv => TypeOK
  BY TypeParts DEF FileInv
<1> QED
  BY <1>1, FileInit, FileStep, PTL DEF Spec

\* Whenever an assembly in format 1 or 3 is complete and has generated something, its file is
\* the flat image of what the last pass has generated, whatever the origins, the fill values
\* and the passes before.
THEOREM FlatFileCorrect == Spec => []FlatCorrect
<1>1. FileInv => FlatCorrect
  BY DEF FileInv, FlatSoFar, FlatCorrect, FlatFile, In
<1> QED
  BY <1>1, FileInit, FileStep, PTL DEF Spec

-----------------------------------------------------------------------------
(***************************************************************************)
(* Memory that pieces are loaded into                                      *)
(***************************************************************************)
\* Parts of Loaded.
CellsOf(ps)       == UNION {{<<i, j>> : j \in DOMAIN ps[i].data} : i \in DOMAIN ps}
AddressOf(ps, c)  == (ps[c[1]].at + c[2] - 1) % Word
Behind(c, d)      == c[1] > d[1] \/ (c[1] = d[1] /\ c[2] > d[2])
IsLast(ps, a, c)  == /\ AddressOf(ps, c) = a
                     /\ \A d \in CellsOf(ps) \ {c} : AddressOf(ps, d) = a => Behind(c, d)
LastCell(ps, a)   == CHOOSE c \in CellsOf(ps) : IsLast(ps, a, c)
AddressesOf(ps)   == {AddressOf(ps, c) : c \in CellsOf(ps)}

\* A list of pieces that can be loaded.
Loadable(ps) == /\ Len(ps) \in Nat /\ DOMAIN ps = 1 .. Len(ps)
                /\ \A i \in DOMAIN ps : ps[i].at \in Nat /\ ps[i].data \in Seq(Bytes)

\* new is the memory m after the bytes of d were loaded at a.
Overlay(m, a, d, new) ==
  /\ new = [x \in DOMAIN m \cup {(a + j - 1) % Word : j \in DOMAIN d} |-> new[x]]
  /\ \A j \in DOMAIN d : (\A k \in DOMAIN d : k > j => (a + k - 1) % Word # (a + j - 1) % Word)
       => new[(a + j - 1) % Word] = d[j]
  /\ \A x \in DOMAIN m : (\A j \in DOMAIN d : (a + j - 1) % Word # x) => new[x] = m[x]

\* Loaded, in those parts.
LEMMA LoadedIs ==
  ASSUME NEW ps
  PROVE  Loaded(ps) = [a \in AddressesOf(ps) |->
                         ps[LastCell(ps, a)[1]].data[LastCell(ps, a)[2]]]
BY DEF Loaded, CellsOf, AddressOf, Behind, IsLast, LastCell, AddressesOf

\* The bytes of a list of pieces.
LEMMA CellsAre ==
  ASSUME NEW ps, Loadable(ps)
  PROVE  /\ \A i \in DOMAIN ps : /\ i \in Nat /\ Len(ps[i].data) \in Nat
                                 /\ DOMAIN ps[i].data = 1 .. Len(ps[i].data)
         /\ \A i, j : <<i, j>> \in CellsOf(ps) <=> i \in DOMAIN ps /\ j \in DOMAIN ps[i].data
         /\ \A c \in CellsOf(ps) : /\ c = <<c[1], c[2]>> /\ c[1] \in DOMAIN ps
                                   /\ c[2] \in DOMAIN ps[c[1]].data
                                   /\ c[1] \in Nat /\ c[2] \in Nat
<1>1. ASSUME NEW i \in DOMAIN ps
      PROVE  /\ i \in Nat /\ Len(ps[i].data) \in Nat
             /\ DOMAIN ps[i].data = 1 .. Len(ps[i].data)
  <2>1. ps[i].data \in Seq(Bytes)
    BY DEF Loadable
  <2> QED
    BY <2>1 DEF Loadable
<1>2. ASSUME NEW i, NEW j
      PROVE  <<i, j>> \in CellsOf(ps) <=> i \in DOMAIN ps /\ j \in DOMAIN ps[i].data
  <2>1. ASSUME <<i, j>> \in CellsOf(ps) PROVE i \in DOMAIN ps /\ j \in DOMAIN ps[i].data
    <3>1. PICK h \in DOMAIN ps : <<i, j>> \in {<<h, k>> : k \in DOMAIN ps[h].data}
      BY <2>1 DEF CellsOf
    <3>2. PICK k \in DOMAIN ps[h].data : <<i, j>> = <<h, k>>
      BY <3>1
    <3> QED
      BY <3>2
  <2>2. ASSUME i \in DOMAIN ps, j \in DOMAIN ps[i].data PROVE <<i, j>> \in CellsOf(ps)
    BY <2>2 DEF CellsOf
  <2> QED
    BY <2>1, <2>2
<1>3. ASSUME NEW c \in CellsOf(ps)
      PROVE  /\ c = <<c[1], c[2]>> /\ c[1] \in DOMAIN ps /\ c[2] \in DOMAIN ps[c[1]].data
             /\ c[1] \in Nat /\ c[2] \in Nat
  <2>1. PICK i \in DOMAIN ps : c \in {<<i, j>> : j \in DOMAIN ps[i].data}
    BY DEF CellsOf
  <2>2. PICK j \in DOMAIN ps[i].data : c = <<i, j>>
    BY <2>1
  <2> QED
    BY <1>1, <2>2
<1> QED
  BY <1>1, <1>2, <1>3

\* A byte that no later one has the address of is in the memory.
LEMMA LoadedByte ==
  ASSUME NEW ps, Loadable(ps), NEW i \in DOMAIN ps, NEW j \in DOMAIN ps[i].data,
         \A c \in CellsOf(ps) : Behind(c, <<i, j>>) => AddressOf(ps, c) # AddressOf(ps, <<i, j>>)
  PROVE  /\ AddressOf(ps, <<i, j>>) \in DOMAIN Loaded(ps)
         /\ Loaded(ps)[AddressOf(ps, <<i, j>>)] = ps[i].data[j]
<1> DEFINE a == AddressOf(ps, <<i, j>>)
           l == LastCell(ps, a)
<1>1. <<i, j>> \in CellsOf(ps) /\ i \in Nat /\ j \in Nat
  BY CellsAre
<1>2. IsLast(ps, a, <<i, j>>)
  <2>1. SUFFICES ASSUME NEW d \in CellsOf(ps) \ {<<i, j>>}, AddressOf(ps, d) = a
                 PROVE  Behind(<<i, j>>, d)
    BY DEF IsLast
  <2>2. ~Behind(d, <<i, j>>) /\ d = <<d[1], d[2]>> /\ d[1] \in Nat /\ d[2] \in Nat
    BY <2>1, CellsAre
  <2>3. d[1] # i \/ d[2] # j
    BY <2>1, <2>2
  <2> QED
    BY <1>1, <2>2, <2>3 DEF Behind
<1>3. l \in CellsOf(ps) /\ IsLast(ps, a, l)
  BY <1>1, <1>2, Zenon DEF LastCell
<1>4. l = <<i, j>>
  <2>1. SUFFICES ASSUME l # <<i, j>> PROVE FALSE
    OBVIOUS
  <2>2. Behind(l, <<i, j>>)
    BY <1>1, <1>3, <2>1 DEF IsLast
  <2>3. AddressOf(ps, l) = a
    BY <1>3 DEF IsLast
  <2> QED
    BY <1>3, <2>2, <2>3
<1>5. a \in AddressesOf(ps)
  BY <1>1 DEF AddressesOf
<1>6. l[1] = i /\ l[2] = j
  BY <1>4
<1> HIDE DEF l
<1>7. Loaded(ps)[a] = ps[l[1]].data[l[2]] /\ DOMAIN Loaded(ps) = AddressesOf(ps)
  BY <1>5, LoadedIs DEF l
<1> QED
  BY <1>5, <1>6, <1>7

\* A number of some numbers up to n, which is the greatest.
LEMMA Greatest ==
  ASSUME NEW n \in Nat, NEW S, S \subseteq 1 .. n, S # {}
  PROVE  \E m \in S : \A k \in S : k <= m
<1> DEFINE T == {x \in Nat : \E k \in S : k >= n - x}
<1>1. PICK k0 \in S : TRUE
  OBVIOUS
<1>2. SUFFICES ASSUME \A m \in S : \E k \in S : k > m
               PROVE  FALSE
  BY SMT
<1> DEFINE U == {x \in Nat : \E k \in S : k >= x}
<1>3. 0 \in U
  BY <1>1
<1>4. ASSUME NEW x \in Nat, x \in U
      PROVE  x + 1 \in U
  <2>1. PICK k \in S : k >= x
    BY <1>4
  <2>2. PICK l \in S : l > k
    BY <1>2
  <2> QED
    BY <2>1, <2>2
<1>5. n + 1 \in U
  <2> HIDE DEF U
  <2> QED
    BY <1>3, <1>4, Inductive
<1> QED
  BY <1>5

\* Each address that is loaded has a last byte.
LEMMA LastExists ==
  ASSUME NEW ps, Loadable(ps), NEW a \in AddressesOf(ps)
  PROVE  \E c \in CellsOf(ps) : IsLast(ps, a, c)
<1> DEFINE S == {i \in DOMAIN ps : \E j \in DOMAIN ps[i].data : AddressOf(ps, <<i, j>>) = a}
<1>1. PICK c0 \in CellsOf(ps) : AddressOf(ps, c0) = a
  BY DEF AddressesOf
<1>2. c0 = <<c0[1], c0[2]>> /\ c0[1] \in DOMAIN ps /\ c0[2] \in DOMAIN ps[c0[1]].data
  BY CellsAre
<1>3. c0[1] \in S
  BY <1>1, <1>2
<1>4. Len(ps) \in Nat /\ DOMAIN ps = 1 .. Len(ps)
  BY DEF Loadable
<1>5. PICK i \in S : \A k \in S : k <= i
  <2>1. S \subseteq 1 .. Len(ps) /\ S # {}
    BY <1>3, <1>4
  <2> HIDE DEF S
  <2> QED
    BY <1>4, <2>1, Greatest
<1> DEFINE T == {j \in DOMAIN ps[i].data : AddressOf(ps, <<i, j>>) = a}
<1>6. i \in DOMAIN ps /\ i \in Nat /\ Len(ps[i].data) \in Nat /\ DOMAIN ps[i].data = 1 .. Len(ps[i].data)
  BY CellsAre
<1>7. PICK j \in T : \A k \in T : k <= j
  <2>1. T \subseteq 1 .. Len(ps[i].data)
    BY <1>6
  <2>2. T # {}
    OBVIOUS
  <2> HIDE DEF T
  <2> QED
    BY <1>6, <2>1, <2>2, Greatest
<1>8. <<i, j>> \in CellsOf(ps) /\ AddressOf(ps, <<i, j>>) = a /\ j \in Nat
  BY <1>6, CellsAre
<1>9. ASSUME NEW d \in CellsOf(ps) \ {<<i, j>>}, AddressOf(ps, d) = a
      PROVE  Behind(<<i, j>>, d)
  <2>1. /\ d = <<d[1], d[2]>> /\ d[1] \in DOMAIN ps /\ d[2] \in DOMAIN ps[d[1]].data
        /\ d[1] \in Nat /\ d[2] \in Nat
    BY CellsAre
  <2>2. d[1] \in S
    BY <1>9, <2>1
  <2>3. d[1] <= i
    BY <1>5, <2>2
  <2>4. d[1] = i => d[2] \in T
    BY <1>9, <2>1
  <2>5. d[1] = i => d[2] <= j
    BY <1>7, <2>4
  <2>6. d[1] # i \/ d[2] # j
    BY <2>1
  <2> HIDE DEF S, T
  <2> QED
    BY <1>6, <1>8, <2>1, <2>3, <2>5, <2>6 DEF Behind
<1>10. IsLast(ps, a, <<i, j>>)
  BY <1>8, <1>9 DEF IsLast
<1> QED
  BY <1>8, <1>10

\* Loading more bytes, behind all others in the list.
LEMMA MoreLoaded ==
  ASSUME NEW ps, NEW qs, Loadable(ps), Loadable(qs),
         NEW a \in Nat, NEW d \in Seq(Bytes), NEW r \in Nat, NEW o \in Nat,
         \A c \in CellsOf(qs) : c \in CellsOf(ps) \/ \E j \in DOMAIN d : c = <<r, o + j>>,
         CellsOf(ps) \subseteq CellsOf(qs),
         \A c \in CellsOf(ps) : /\ AddressOf(qs, c) = AddressOf(ps, c)
                                /\ qs[c[1]].data[c[2]] = ps[c[1]].data[c[2]],
         \A j \in DOMAIN d : /\ <<r, o + j>> \in CellsOf(qs)
                             /\ AddressOf(qs, <<r, o + j>>) = (a + j - 1) % Word
                             /\ qs[r].data[o + j] = d[j]
                             /\ \A c \in CellsOf(ps) : Behind(<<r, o + j>>, c)
  PROVE  Overlay(Loaded(ps), a, d, Loaded(qs))
<1> DEFINE cell(j) == (a + j - 1) % Word
           old   == Loaded(ps)
           new   == Loaded(qs)
<1>1. DOMAIN old = AddressesOf(ps) /\ DOMAIN new = AddressesOf(qs)
      /\ new = [x \in AddressesOf(qs) |-> new[x]]
  BY LoadedIs
<1>0. DOMAIN d \subseteq Nat
  OBVIOUS
<1>2. AddressesOf(qs) = AddressesOf(ps) \cup {cell(j) : j \in DOMAIN d}
  <2>1. ASSUME NEW c \in CellsOf(qs)
        PROVE  AddressOf(qs, c) \in AddressesOf(ps) \cup {cell(j) : j \in DOMAIN d}
    <3>1. CASE c \in CellsOf(ps)
      BY <3>1 DEF AddressesOf
    <3>2. CASE \E j \in DOMAIN d : c = <<r, o + j>>
      BY <3>2
    <3> QED
      BY <3>1, <3>2
  <2>2. ASSUME NEW c \in CellsOf(ps)
        PROVE  AddressOf(ps, c) \in AddressesOf(qs)
    <3>1. AddressOf(qs, c) = AddressOf(ps, c) /\ c \in CellsOf(qs)
      OBVIOUS
    <3> QED
      BY <3>1 DEF AddressesOf
  <2>3. ASSUME NEW j \in DOMAIN d
        PROVE  cell(j) \in AddressesOf(qs)
    BY DEF AddressesOf
  <2> QED
    BY <2>1, <2>2, <2>3 DEF AddressesOf
<1>3. ASSUME NEW j \in DOMAIN d, \A k \in DOMAIN d : k > j => cell(k) # cell(j)
      PROVE  new[cell(j)] = d[j]
  <2>1. <<r, o + j>> \in CellsOf(qs) /\ AddressOf(qs, <<r, o + j>>) = cell(j) /\ qs[r].data[o + j] = d[j]
    OBVIOUS
  <2>2. r \in DOMAIN qs /\ o + j \in DOMAIN qs[r].data
    BY <2>1, CellsAre
  <2>3. ASSUME NEW c \in CellsOf(qs), Behind(c, <<r, o + j>>)
        PROVE  AddressOf(qs, c) # AddressOf(qs, <<r, o + j>>)
    <3>0. j \in Nat /\ c = <<c[1], c[2]>> /\ c[1] \in Nat /\ c[2] \in Nat
      BY <1>0, CellsAre
    <3>1. CASE c \in CellsOf(ps)
      <4>1. Behind(<<r, o + j>>, c)
        BY <3>1
      <4> QED
        BY <2>3, <3>0, <4>1 DEF Behind
    <3>2. CASE \E k \in DOMAIN d : c = <<r, o + k>>
      <4>1. PICK k \in DOMAIN d : c = <<r, o + k>>
        BY <3>2
      <4>2. k > j
        BY <1>0, <2>3, <4>1 DEF Behind
      <4>3. AddressOf(qs, c) = cell(k)
        BY <4>1
      <4> QED
        BY <1>3, <2>1, <4>2, <4>3
    <3> QED
      BY <3>1, <3>2
  <2> HIDE DEF cell, new
  <2>4. Loaded(qs)[AddressOf(qs, <<r, o + j>>)] = qs[r].data[o + j]
    BY <2>2, <2>3, LoadedByte
  <2> QED
    BY <2>1, <2>4 DEF new
<1>4. ASSUME NEW x \in DOMAIN old, \A j \in DOMAIN d : cell(j) # x
      PROVE  new[x] = old[x]
  <2>0. x \in AddressesOf(ps)
    BY <1>1
  <2>1. PICK c \in CellsOf(ps) : IsLast(ps, x, c)
    BY <2>0, LastExists
  <2>2. /\ c = <<c[1], c[2]>> /\ c[1] \in DOMAIN ps /\ c[2] \in DOMAIN ps[c[1]].data
        /\ c[1] \in Nat /\ c[2] \in Nat
        /\ c[1] \in DOMAIN qs /\ c[2] \in DOMAIN qs[c[1]].data
    BY CellsAre
  <2> DEFINE i == c[1]
             j == c[2]
  <2>3. AddressOf(ps, <<i, j>>) = x /\ AddressOf(qs, <<i, j>>) = x
        /\ qs[i].data[j] = ps[i].data[j]
    BY <2>1, <2>2 DEF IsLast
  <2>4. ASSUME NEW e \in CellsOf(ps), Behind(e, <<i, j>>)
        PROVE  AddressOf(ps, e) # AddressOf(ps, <<i, j>>)
    <3>1. e = <<e[1], e[2]>> /\ e[1] \in Nat /\ e[2] \in Nat
      BY CellsAre
    <3>2. e # c
      BY <2>2, <2>4, <3>1 DEF Behind
    <3>3. ~Behind(c, e)
      BY <2>2, <2>4, <3>1 DEF Behind
    <3> QED
      BY <2>1, <2>3, <3>2, <3>3 DEF IsLast
  <2>5. ASSUME NEW e \in CellsOf(qs), Behind(e, <<i, j>>)
        PROVE  AddressOf(qs, e) # AddressOf(qs, <<i, j>>)
    <3>1. CASE e \in CellsOf(ps)
      <4>1. AddressOf(ps, e) # AddressOf(ps, <<i, j>>) /\ AddressOf(qs, e) = AddressOf(ps, e)
        BY <2>4, <2>5, <3>1
      <4> QED
        BY <2>3, <4>1
    <3>2. CASE \E k \in DOMAIN d : e = <<r, o + k>>
      BY <1>4, <2>3, <3>2
    <3> QED
      BY <3>1, <3>2
  <2> HIDE DEF i, j
  <2>6. i \in DOMAIN ps /\ j \in DOMAIN ps[i].data /\ i \in DOMAIN qs /\ j \in DOMAIN qs[i].data
    BY <2>2 DEF i, j
  <2>7. Loaded(ps)[AddressOf(ps, <<i, j>>)] = ps[i].data[j]
    BY <2>4, <2>6, LoadedByte
  <2>8. Loaded(qs)[AddressOf(qs, <<i, j>>)] = qs[i].data[j]
    BY <2>5, <2>6, LoadedByte
  <2> QED
    BY <2>3, <2>7, <2>8
<1> HIDE DEF old, new
<1>5. new = [x \in DOMAIN old \cup {cell(j) : j \in DOMAIN d} |-> new[x]]
  BY <1>1, <1>2
<1> QED
  BY <1>3, <1>4, <1>5 DEF Overlay, old, new

\* One more piece, at any address.
LEMMA LoadedAppended ==
  ASSUME NEW ps, NEW qs, Loadable(ps), Loadable(qs),
         Len(qs) = Len(ps) + 1, \A i \in 1 .. Len(ps) : qs[i] = ps[i]
  PROVE  Overlay(Loaded(ps), qs[Len(qs)].at, qs[Len(qs)].data, Loaded(qs))
<1> DEFINE r == Len(qs)
           d == qs[r].data
           a == qs[r].at
<1>1. /\ r \in Nat /\ r = Len(ps) + 1 /\ DOMAIN qs = 1 .. r /\ DOMAIN ps = 1 .. Len(ps)
      /\ Len(ps) \in Nat /\ r \in DOMAIN qs /\ \A i \in DOMAIN ps : i \in DOMAIN qs /\ i < r
  BY DEF Loadable
<1>2. d \in Seq(Bytes) /\ a \in Nat
  BY <1>1 DEF Loadable
<1>3. \A j \in DOMAIN d : j \in Nat /\ 0 + j = j
  BY <1>2
<1> HIDE DEF r, d, a
<1>4. \A i \in DOMAIN ps : qs[i] = ps[i]
  BY <1>1
<1>5. ASSUME NEW c \in CellsOf(qs)
      PROVE  c \in CellsOf(ps) \/ \E j \in DOMAIN d : c = <<r, 0 + j>>
  <2>1. c = <<c[1], c[2]>> /\ c[1] \in DOMAIN qs /\ c[2] \in DOMAIN qs[c[1]].data
    BY CellsAre
  <2>2. CASE c[1] = r
    BY <1>3, <2>1, <2>2 DEF d
  <2>3. CASE c[1] # r
    <3>1. c[1] \in DOMAIN ps
      BY <1>1, <2>1, <2>3
    <3> QED
      BY <1>4, <2>1, <3>1, CellsAre
  <2> QED
    BY <2>2, <2>3
<1>6. ASSUME NEW c \in CellsOf(ps)
      PROVE  /\ c \in CellsOf(qs) /\ AddressOf(qs, c) = AddressOf(ps, c)
             /\ qs[c[1]].data[c[2]] = ps[c[1]].data[c[2]]
  <2>1. c = <<c[1], c[2]>> /\ c[1] \in DOMAIN ps /\ c[2] \in DOMAIN ps[c[1]].data
    BY CellsAre
  <2>2. c[1] \in DOMAIN qs /\ qs[c[1]] = ps[c[1]]
    BY <1>1, <1>4, <2>1
  <2> QED
    BY <2>1, <2>2, CellsAre DEF AddressOf
<1>7. ASSUME NEW j \in DOMAIN d
      PROVE  /\ <<r, 0 + j>> \in CellsOf(qs)
             /\ AddressOf(qs, <<r, 0 + j>>) = (a + j - 1) % Word
             /\ qs[r].data[0 + j] = d[j]
             /\ \A c \in CellsOf(ps) : Behind(<<r, 0 + j>>, c)
  <2>1. <<r, j>> \in CellsOf(qs)
    BY <1>1, CellsAre DEF d
  <2>2. \A c \in CellsOf(ps) : Behind(<<r, j>>, c)
    <3>1. TAKE c \in CellsOf(ps)
    <3>2. c[1] \in DOMAIN ps /\ c[1] \in Nat
      BY CellsAre
    <3> QED
      BY <1>1, <3>2 DEF Behind
  <2> QED
    BY <1>3, <2>1, <2>2 DEF AddressOf, d, a
<1>8. CellsOf(ps) \subseteq CellsOf(qs)
  BY <1>6
<1>9. Overlay(Loaded(ps), a, d, Loaded(qs))
  <2> DEFINE o == 0
  <2>1. o \in Nat
    OBVIOUS
  <2>2. \A c \in CellsOf(qs) : c \in CellsOf(ps) \/ \E j \in DOMAIN d : c = <<r, o + j>>
    BY <1>5
  <2>3. \A j \in DOMAIN d : /\ <<r, o + j>> \in CellsOf(qs)
                            /\ AddressOf(qs, <<r, o + j>>) = (a + j - 1) % Word
                            /\ qs[r].data[o + j] = d[j]
                            /\ \A c \in CellsOf(ps) : Behind(<<r, o + j>>, c)
    BY <1>7
  <2> HIDE DEF o
  <2> QED
    <3>1. \A c \in CellsOf(ps) : /\ AddressOf(qs, c) = AddressOf(ps, c)
                                 /\ qs[c[1]].data[c[2]] = ps[c[1]].data[c[2]]
      BY <1>6
    <3>2. d \in Seq(Bytes) /\ a \in Nat /\ r \in Nat
      BY <1>1, <1>2
    <3> QED
      BY <1>8, <2>1, <2>2, <2>3, <3>1, <3>2, MoreLoaded
<1> QED
  BY <1>9 DEF d, a, r

\* The last piece is continued.
LEMMA LoadedExtended ==
  ASSUME NEW ps, NEW qs, Loadable(ps), Loadable(qs),
         Len(ps) > 0, Len(qs) = Len(ps), \A i \in 1 .. Len(ps) - 1 : qs[i] = ps[i],
         NEW d \in Seq(Bytes), qs[Len(ps)].at = ps[Len(ps)].at,
         qs[Len(ps)].data = ps[Len(ps)].data \o d
  PROVE  Overlay(Loaded(ps), ps[Len(ps)].at + Len(ps[Len(ps)].data), d, Loaded(qs))
<1> DEFINE r == Len(ps)
           o == Len(ps[r].data)
           a == ps[r].at + o
           b == ps[r].data
<1>1. /\ r \in Nat /\ DOMAIN qs = 1 .. r /\ DOMAIN ps = 1 .. r
      /\ r \in DOMAIN ps
  BY DEF Loadable
<1>2. b \in Seq(Bytes) /\ ps[r].at \in Nat /\ o \in Nat /\ a \in Nat /\ o = Len(b)
  <2>1. b \in Seq(Bytes) /\ ps[r].at \in Nat
    BY <1>1 DEF Loadable
  <2>2. o \in Nat /\ o = Len(b)
    BY <2>1
  <2> QED
    BY <2>1, <2>2
<1>3. \A j \in DOMAIN d : j \in Nat /\ j >= 1 /\ j <= Len(d)
  OBVIOUS
<1> HIDE DEF r, o, a, b
<1>4. /\ qs[r].data = b \o d /\ qs[r].at = ps[r].at /\ DOMAIN (b \o d) = 1 .. o + Len(d)
      /\ DOMAIN b = 1 .. o /\ Len(d) \in Nat /\ DOMAIN d = 1 .. Len(d)
      /\ \A j \in 1 .. o : (b \o d)[j] = b[j]
      /\ \A j \in DOMAIN d : (b \o d)[o + j] = d[j]
  <2>1. qs[r].data = b \o d /\ qs[r].at = ps[r].at
    BY DEF r, b
  <2>2. Len(d) \in Nat /\ DOMAIN d = 1 .. Len(d) /\ DOMAIN b = 1 .. o
    BY <1>2
  <2>3. /\ DOMAIN (b \o d) = 1 .. o + Len(d)
        /\ \A j \in 1 .. o : (b \o d)[j] = b[j]
    BY <1>2
  <2>4. ASSUME NEW j \in DOMAIN d PROVE (b \o d)[o + j] = d[j]
    BY <1>2, <1>3
  <2> QED
    BY <2>1, <2>2, <2>3, <2>4
<1>5. \A i \in DOMAIN ps : i # r => qs[i] = ps[i]
  BY <1>1 DEF r
<1>6. ASSUME NEW c \in CellsOf(qs)
      PROVE  c \in CellsOf(ps) \/ \E j \in DOMAIN d : c = <<r, o + j>>
  <2>1. c = <<c[1], c[2]>> /\ c[1] \in DOMAIN qs /\ c[2] \in DOMAIN qs[c[1]].data
    BY CellsAre
  <2>2. CASE c[1] = r /\ c[2] <= o
    <3>1. c[2] \in DOMAIN ps[r].data
      BY <1>2, <1>4, <2>1, <2>2 DEF b
    <3> QED
      BY <1>1, <2>1, <2>2, <3>1, CellsAre
  <2>3. CASE c[1] = r /\ ~(c[2] <= o)
    <3>1. c[2] \in 1 .. o + Len(d)
      BY <1>4, <2>1, <2>3
    <3> DEFINE e == c[2]
    <3>4. e \in 1 .. o + Len(d) /\ ~(e <= o)
      BY <2>3, <3>1
    <3> HIDE DEF e
    <3>5. e - o \in 1 .. Len(d) /\ e = o + (e - o)
      BY <1>2, <1>4, <3>4
    <3>2. c[2] - o \in DOMAIN d /\ c[2] = o + (c[2] - o)
      BY <1>4, <3>5 DEF e
    <3>3. c = <<r, o + (c[2] - o)>>
      BY <2>1, <2>3, <3>2
    <3> QED
      BY <3>2, <3>3
  <2>4. CASE c[1] # r
    BY <1>1, <1>5, <2>1, <2>4, CellsAre
  <2> QED
    BY <2>2, <2>3, <2>4
<1>7. ASSUME NEW c \in CellsOf(ps)
      PROVE  /\ c \in CellsOf(qs) /\ AddressOf(qs, c) = AddressOf(ps, c)
             /\ qs[c[1]].data[c[2]] = ps[c[1]].data[c[2]]
  <2>1. /\ c = <<c[1], c[2]>> /\ c[1] \in DOMAIN ps /\ c[2] \in DOMAIN ps[c[1]].data
        /\ c[2] \in Nat
    BY CellsAre
  <2>2. CASE c[1] # r
    <3>1. c[1] \in DOMAIN qs /\ qs[c[1]] = ps[c[1]]
      BY <1>1, <1>5, <2>1, <2>2
    <3> QED
      BY <2>1, <3>1, CellsAre DEF AddressOf
  <2>3. CASE c[1] = r
    <3>1. c[2] \in 1 .. o /\ c[2] \in DOMAIN qs[r].data /\ qs[r].data[c[2]] = b[c[2]]
      BY <1>2, <1>4, <2>1, <2>3 DEF b
    <3>2. <<r, c[2]>> \in CellsOf(qs)
      BY <1>1, <3>1, CellsAre
    <3> QED
      BY <1>4, <2>1, <2>3, <3>1, <3>2 DEF AddressOf, b
  <2> QED
    BY <2>2, <2>3
<1>8. ASSUME NEW j \in DOMAIN d
      PROVE  /\ <<r, o + j>> \in CellsOf(qs)
             /\ AddressOf(qs, <<r, o + j>>) = (a + j - 1) % Word
             /\ qs[r].data[o + j] = d[j]
             /\ \A c \in CellsOf(ps) : Behind(<<r, o + j>>, c)
  <2>1. o + j \in DOMAIN qs[r].data
    BY <1>2, <1>3, <1>4
  <2>2. <<r, o + j>> \in CellsOf(qs)
    BY <1>1, <2>1, CellsAre
  <2>3. ASSUME NEW c \in CellsOf(ps) PROVE Behind(<<r, o + j>>, c)
    <3>1. /\ c[1] \in DOMAIN ps /\ c[2] \in DOMAIN ps[c[1]].data
          /\ c[1] \in Nat /\ c[2] \in Nat
      BY CellsAre
    <3>2. c[1] <= r /\ (c[1] = r => c[2] <= o)
      <4>1. c[1] <= r
        BY <1>1, <3>1
      <4>2. c[1] = r => c[2] \in 1 .. o
        BY <1>4, <3>1 DEF b
      <4> QED
        BY <1>2, <4>1, <4>2
    <3> QED
      BY <1>1, <1>2, <1>3, <3>1, <3>2 DEF Behind
  <2>4. qs[r].at + (o + j) - 1 = a + j - 1
    BY <1>2, <1>3, <1>4 DEF a
  <2>5. AddressOf(qs, <<r, o + j>>) = (qs[r].at + (o + j) - 1) % Word
    BY DEF AddressOf
  <2> QED
    BY <1>4, <2>2, <2>3, <2>4, <2>5
<1>9. CellsOf(ps) \subseteq CellsOf(qs)
  BY <1>7
<1>10. Overlay(Loaded(ps), a, d, Loaded(qs))
  BY <1>1, <1>2, <1>6, <1>7, <1>8, <1>9, MoreLoaded
<1> QED
  BY <1>10 DEF a, o, r

\* It depends on the address only as far as it is a word.
LEMMA OverlaySame ==
  ASSUME NEW m, NEW a, NEW b, NEW d \in Seq(Bytes), NEW m1, NEW m2,
         Overlay(m, a, d, m1), Overlay(m, b, d, m2),
         \A j \in DOMAIN d : (a + j - 1) % Word = (b + j - 1) % Word
  PROVE  m1 = m2
<1> DEFINE cell(j) == (a + j - 1) % Word
           D     == DOMAIN m \cup {cell(j) : j \in DOMAIN d}
<1>1. m1 = [x \in D |-> m1[x]]
  BY DEF Overlay
<1>2. m2 = [x \in D |-> m2[x]]
  <2>1. {cell(j) : j \in DOMAIN d} = {(b + j - 1) % Word : j \in DOMAIN d}
    OBVIOUS
  <2> QED
    BY <2>1 DEF Overlay
<1>3. ASSUME NEW x \in D PROVE m1[x] = m2[x]
  <2>1. CASE \A j \in DOMAIN d : cell(j) # x
    BY <2>1 DEF Overlay
  <2>2. CASE \E j \in DOMAIN d : cell(j) = x
    <3> DEFINE S == {j \in DOMAIN d : cell(j) = x}
    <3>1. S \subseteq 1 .. Len(d) /\ S # {} /\ Len(d) \in Nat
      BY <2>2
    <3>2. PICK j \in S : \A k \in S : k <= j
      <4> HIDE DEF S
      <4> QED
        BY <3>1, Greatest
    <3>3. j \in DOMAIN d /\ cell(j) = x /\ \A k \in DOMAIN d : k > j => cell(k) # cell(j)
      BY <3>2
    <3>4. m1[cell(j)] = d[j]
      BY <3>3 DEF Overlay
    <3>5. m2[cell(j)] = d[j]
      BY <3>3 DEF Overlay
    <3> QED
      BY <3>3, <3>4, <3>5
  <2> QED
    BY <2>1, <2>2
<1> HIDE DEF D
<1>4. [x \in D |-> m1[x]] = [x \in D |-> m2[x]]
  BY <1>3
<1> QED
  BY <1>1, <1>2, <1>4

-----------------------------------------------------------------------------
(***************************************************************************)
(* Remainders                                                              *)
(***************************************************************************)
\* A remainder is the only one.
LEMMA OneRemainder ==
  ASSUME NEW w \in Nat, w > 0, NEW q \in Int, NEW r \in 0 .. w - 1, NEW n \in Int,
         n = w * q + r
  PROVE  n % w = r
<1> DEFINE p == n \div w
           s == n % w
<1>1. p \in Int /\ s \in 0 .. w - 1 /\ n = w * p + s
  OBVIOUS
<1> HIDE DEF p, s
<1>2. w * q - w * p = s - r /\ w * (q - p) = w * q - w * p
  BY <1>1
<1>3. q - p >= 1 => w * (q - p) >= w
  BY <1>1
<1>4. q - p <= -1 => w * (q - p) <= -w
  BY <1>1
<1>5. q - p \in Int
  BY <1>1
<1>6. ~(q - p >= 1) /\ ~(q - p <= -1)
  BY <1>1, <1>2, <1>3, <1>4
<1>7. q = p
  BY <1>1, <1>5, <1>6
<1>8. s = r
  BY <1>1, <1>2, <1>7
<1> QED
  BY <1>8 DEF s

\* Numbers of one remainder still have one when something is added to them.
LEMMA SameRemainder ==
  ASSUME NEW w \in Nat, w > 0, NEW x \in Int, NEW y \in Int, x % w = y % w, NEW k \in Int
  PROVE  (x + k) % w = (y + k) % w
<1> DEFINE p == x \div w
           q == y \div w
           u == (y + k) \div w
           r == (y + k) % w
           v == p - q + u
<1>1. p \in Int /\ q \in Int /\ u \in Int /\ r \in 0 .. w - 1
      /\ x = (w * p) + (x % w) /\ y = (w * q) + (y % w) /\ y + k = w * u + r
  OBVIOUS
<1> HIDE DEF p, q, u, r
<1>2. x + k = w * p - w * q + w * u + r
  BY <1>1
<1>3. v \in Int /\ w * v = w * p - w * q + w * u
  BY <1>1
<1> HIDE DEF v
<1>4. x + k = w * v + r /\ x + k \in Int
  BY <1>1, <1>2, <1>3
<1>6. w * v + r = (w * v) + r
  OBVIOUS
<1>5. (x + k) % w = r
  BY <1>1, <1>3, <1>4, OneRemainder
<1> QED
  BY <1>5 DEF r

\* Taking it twice makes no difference.
LEMMA RemainderOfRemainder ==
  ASSUME NEW w \in Nat, w > 0, NEW x \in Int
  PROVE  (x % w) % w = x % w
<1> DEFINE r == x % w
<1>1. r \in 0 .. w - 1 /\ r = w * 0 + r /\ 0 \in Int /\ r \in Int
  OBVIOUS
<1> HIDE DEF r
<1>2. r % w = r
  BY <1>1, OneRemainder
<1> QED
  BY <1>2 DEF r

\* A number less than w is its own.
LEMMA SmallRemainder ==
  ASSUME NEW w \in Nat, w > 0, NEW r \in 0 .. w - 1
  PROVE  r % w = r
<1>1. r = w * 0 + r /\ 0 \in Int /\ r \in Int
  OBVIOUS
<1> QED
  BY <1>1, OneRemainder

\* What putw() has written is the number again, as far as it is a word.
LEMMA WordOfBytes ==
  ASSUME NEW n \in Nat
  PROVE  /\ (n % Byte) + Byte * ((n \div Byte) % Byte) = n % Word
         /\ n < Word => n % Word = n
<1> DEFINE q == n \div Byte
           r == n % Byte
           p == q \div Byte
           t == q % Byte
<1>1. Byte \in Nat /\ Byte > 0 /\ Word = Byte * Byte /\ Word \in Nat /\ Word > 0
  BY BytesAre, WordIs DEF Word
<1>2. q \in Int /\ r \in Bytes /\ n = Byte * q + r
  BY <1>1, Remainder
<1>3. p \in Int /\ t \in Bytes /\ q = Byte * p + t
  <2> HIDE DEF q
  <2>1. p \in Int /\ q = Byte * p + t
    BY <1>1, <1>2
  <2>2. t \in Bytes
    BY <1>2, Remainder
  <2> QED
    BY <2>1, <2>2
<1> DEFINE m == r + Byte * t
<1> HIDE DEF q, r, p, t
<1>4. m \in 0 .. Word - 1
  BY <1>2, <1>3, WordIs
<1>5. Byte * q = (Byte * Byte) * p + Byte * t
  <2>1. p \in Int /\ t \in Int /\ Byte \in Int
    BY <1>1, <1>3, BytesAre
  <2>2. Byte * (Byte * p + t) = (Byte * Byte) * p + Byte * t
    BY <2>1
  <2> QED
    BY <1>3, <2>2
<1>6. n = Word * p + m
  <2>1. r \in Int /\ t \in Int
    BY <1>2, <1>3, BytesAre
  <2> QED
    BY <1>1, <1>2, <1>3, <1>5, <2>1
<1> HIDE DEF m
<1>7. n % Word = m
  <2>1. Word \in Nat /\ Word > 0 /\ p \in Int
    BY <1>1, <1>3
  <2> QED
    BY <1>4, <1>6, <2>1, OneRemainder
<1>8. n < Word => n \in 0 .. Word - 1
  BY <1>1
<1>9. n < Word => n % Word = n
  BY <1>1, <1>8, SmallRemainder
<1> QED
  BY <1>7, <1>9 DEF m, r, t, q

-----------------------------------------------------------------------------
(***************************************************************************)
(* Reading hunks                                                           *)
(***************************************************************************)
HunkAt(f, p) == [at |-> Getw(f, p), data |-> SubSeq(f, p + 5, HunkEnd(f, p))]

\* g gives what can be read of f from each position.
ReadsFrom(g, f) ==
  g = [p \in 0 .. Len(f) |-> IF HasHunk(f, p) THEN <<HunkAt(f, p)>> \o g[HunkEnd(f, p)]
                             ELSE <<>>]

\* The end of a hunk is behind it and in the file.
LEMMA HunkEnds ==
  ASSUME NEW f \in Seq(Bytes), NEW p \in 0 .. Len(f), HasHunk(f, p)
  PROVE  /\ HunkEnd(f, p) \in p + 4 .. Len(f)
         /\ Getw(f, p) \in 0 .. Word - 1 /\ Getw(f, p + 2) \in 0 .. Word - 1
<1>1. Len(f) \in Nat /\ p \in Nat
  OBVIOUS
<1>2. p + 4 <= Len(f) /\ HunkEnd(f, p) <= Len(f)
  BY DEF HasHunk
<1>3. f[p + 1] \in Bytes /\ f[p + 2] \in Bytes /\ f[p + 3] \in Bytes /\ f[p + 4] \in Bytes
  <2>1. ASSUME NEW i \in 1 .. Len(f) PROVE f[i] \in Bytes
    OBVIOUS
  <2> QED
    BY <1>1, <1>2, <2>1
<1>4. Getw(f, p) \in 0 .. Word - 1
  BY <1>3, WordIs DEF Getw
<1>5. Getw(f, p + 2) = f[p + 3] + Byte * f[p + 4]
  <2>1. (p + 2) + 1 = p + 3 /\ (p + 2) + 2 = p + 4
    BY <1>1
  <2> QED
    BY <2>1 DEF Getw
<1>6. Getw(f, p + 2) \in 0 .. Word - 1
  BY <1>3, <1>5, WordIs
<1>7. Getw(f, p + 2) \in Nat /\ HunkEnd(f, p) = p + 4 + Getw(f, p + 2)
  BY <1>6, WordIs DEF HunkEnd
<1> HIDE DEF HunkEnd
<1>8. HunkEnd(f, p) \in p + 4 .. Len(f)
  BY <1>1, <1>2, <1>7
<1> QED
  BY <1>4, <1>6, <1>8

\* Hunks can be read from every position.
LEMMA ReadingExists ==
  ASSUME NEW f \in Seq(Bytes)
  PROVE  \E g : ReadsFrom(g, f)
<1> DEFINE n       == Len(f)
           v(g, p) == IF HasHunk(f, p) THEN <<HunkAt(f, p)>> \o g[HunkEnd(f, p)] ELSE <<>>
           good(g, k) == \A p \in 0 .. n : p >= n - k => g[p] = v(g, p)
           S       == {k \in Nat : \E g : g = [p \in 0 .. n |-> g[p]] /\ good(g, k)}
<1>1. n \in Nat
  OBVIOUS
<1>2. ASSUME NEW p \in 0 .. n, HasHunk(f, p)
      PROVE  HunkEnd(f, p) \in 0 .. n /\ HunkEnd(f, p) > p
  BY <1>1, <1>2, HunkEnds
<1>3. 0 \in S
  <2> DEFINE g == [p \in 0 .. n |-> <<>>]
  <2>1. ASSUME NEW p \in 0 .. n, p >= n - 0 PROVE g[p] = v(g, p)
    <3>1. p = n
      BY <1>1, <2>1
    <3>2. ~HasHunk(f, p)
      BY <1>1, <1>2, <3>1
    <3> QED
      BY <3>2
  <2>2. g = [p \in 0 .. n |-> g[p]]
    OBVIOUS
  <2> HIDE DEF g
  <2> QED
    BY <2>1, <2>2
<1>4. ASSUME NEW k \in Nat, k \in S
      PROVE  k + 1 \in S
  <2>1. PICK g : g = [p \in 0 .. n |-> g[p]] /\ good(g, k)
    BY <1>4
  <2> DEFINE low == n - (k + 1)
             h   == [p \in 0 .. n |-> IF p = low THEN v(g, p) ELSE g[p]]
  <2>2. ASSUME NEW p \in 0 .. n, p >= low PROVE h[p] = v(h, p)
    <3>1. HasHunk(f, p) => h[HunkEnd(f, p)] = g[HunkEnd(f, p)]
      BY <1>1, <1>2, <2>2
    <3>2. v(h, p) = v(g, p)
      <4> HIDE DEF h
      <4> QED
        BY <3>1
    <3>3. p # low => p >= n - k
      BY <1>1, <2>2
    <3>4. p # low => g[p] = v(g, p)
      BY <2>1, <3>3
    <3>5. h[p] = IF p = low THEN v(g, p) ELSE g[p]
      OBVIOUS
    <3> HIDE DEF h, v
    <3> QED
      BY <3>2, <3>4, <3>5
  <2>3. h = [p \in 0 .. n |-> h[p]]
    OBVIOUS
  <2> HIDE DEF h, v
  <2>4. good(h, k + 1)
    BY <2>2
  <2> HIDE DEF good
  <2> QED
    BY <2>3, <2>4
<1>5. n \in S
  <2> HIDE DEF S
  <2> QED
    BY <1>1, <1>3, <1>4, Inductive
<1>6. PICK g : g = [p \in 0 .. n |-> g[p]] /\ good(g, n)
  BY <1>5
<1>7. \A p \in 0 .. n : g[p] = v(g, p)
  <2> HIDE DEF v
  <2>1. \A p \in 0 .. n : p >= n - n
    BY <1>1
  <2> QED
    BY <1>6, <2>1
<1>8. g = [p \in 0 .. n |-> v(g, p)]
  BY <1>6, <1>7
<1> QED
  BY <1>8 DEF ReadsFrom

\* Reading from the start.
LEMMA HunksOfIs ==
  ASSUME NEW f \in Seq(Bytes)
  PROVE  \E g : ReadsFrom(g, f) /\ HunksOf(f) = g[0]
<1> DEFINE g == CHOOSE g : ReadsFrom(g, f)
<1>1. ReadsFrom(g, f)
  BY ReadingExists
<1>2. HunksOf(f) = g[0]
  BY DEF HunksOf, ReadsFrom, HunkAt
<1> QED
  BY <1>1, <1>2

\* A file that has the hunks hs, at the positions s; the first n have their lengths.
Hunk == [at : 0 .. Word - 1, data : Seq(Bytes)]
Hunked(f, hs, s, n) ==
  /\ hs \in Seq(Hunk)
  /\ \A i \in 1 .. Len(hs) + 1 : s[i] \in 0 .. Len(f)
  /\ s[1] = 0 /\ s[Len(hs) + 1] = Len(f)
  /\ \A i \in DOMAIN hs : /\ s[i + 1] = s[i] + 4 + Len(hs[i].data)
                          /\ Getw(f, s[i]) = hs[i].at
                          /\ \A j \in DOMAIN hs[i].data : f[s[i] + 4 + j] = hs[i].data[j]
                          /\ i <= n => Getw(f, s[i] + 2) = Len(hs[i].data)
  /\ \A i, j \in DOMAIN hs : i < j => s[i] + 4 + Len(hs[i].data) <= s[j]

\* The parts of one of them.
LEMMA HunkParts ==
  ASSUME NEW f \in Seq(Bytes), NEW hs, NEW s, NEW n, Hunked(f, hs, s, n), NEW i \in DOMAIN hs
  PROVE  /\ i \in Nat /\ i >= 1 /\ i <= Len(hs) /\ Len(hs) \in Nat /\ Len(f) \in Nat
         /\ i + 1 \in 1 .. Len(hs) + 1
         /\ s[i] \in Nat /\ s[i + 1] \in Nat /\ s[i + 1] <= Len(f) /\ s[i] <= Len(f)
         /\ hs[i].at \in 0 .. Word - 1 /\ hs[i].at \in Nat
         /\ hs[i].data \in Seq(Bytes) /\ Len(hs[i].data) \in Nat
         /\ hs[i] = [at |-> hs[i].at, data |-> hs[i].data]
         /\ s[i + 1] = s[i] + 4 + Len(hs[i].data)
<1>1. hs \in Seq(Hunk) /\ i \in 1 .. Len(hs) /\ Len(hs) \in Nat /\ Len(f) \in Nat
  BY DEF Hunked
<1>2. hs[i] \in Hunk
  BY <1>1
<1>3. /\ hs[i].at \in 0 .. Word - 1 /\ hs[i].data \in Seq(Bytes)
      /\ hs[i] = [at |-> hs[i].at, data |-> hs[i].data]
  BY <1>2 DEF Hunk
<1>4. hs[i].at \in Nat /\ Len(hs[i].data) \in Nat
  BY <1>3, WordIs
<1>5. i \in 1 .. Len(hs) + 1 /\ i + 1 \in 1 .. Len(hs) + 1
  BY <1>1
<1>6. s[i] \in 0 .. Len(f) /\ s[i + 1] \in 0 .. Len(f) /\ s[i + 1] = s[i] + 4 + Len(hs[i].data)
  BY <1>5 DEF Hunked
<1> QED
  BY <1>1, <1>3, <1>4, <1>5, <1>6

\* What is read from such a file.
LEMMA HunksRead ==
  ASSUME NEW f \in Seq(Bytes), NEW hs, NEW s, Hunked(f, hs, s, Len(hs))
  PROVE  HunksOf(f) = hs
<1> DEFINE m == Len(hs)
<1>1. m \in Nat /\ hs \in Seq(Hunk) /\ DOMAIN hs = 1 .. m /\ Len(f) \in Nat
  BY DEF Hunked
<1>2. ASSUME NEW i \in DOMAIN hs
      PROVE  /\ HasHunk(f, s[i]) /\ HunkEnd(f, s[i]) = s[i + 1] /\ HunkAt(f, s[i]) = hs[i]
             /\ s[i] \in 0 .. Len(f)
  <2>1. /\ s[i] \in Nat /\ s[i + 1] \in Nat /\ s[i + 1] <= Len(f)
        /\ hs[i].data \in Seq(Bytes) /\ Len(hs[i].data) \in Nat
        /\ hs[i] = [at |-> hs[i].at, data |-> hs[i].data]
        /\ s[i + 1] = s[i] + 4 + Len(hs[i].data)
    BY HunkParts
  <2> DEFINE p == s[i]
             d == hs[i].data
             e == s[i + 1]
  <2>2. Getw(f, p) = hs[i].at /\ Getw(f, p + 2) = Len(d) /\ \A j \in DOMAIN d : f[p + 4 + j] = d[j]
    BY <1>1 DEF Hunked
  <2>3. p \in Nat /\ e \in Nat /\ e <= Len(f) /\ d \in Seq(Bytes) /\ Len(d) \in Nat
        /\ e = p + 4 + Len(d) /\ DOMAIN d = 1 .. Len(d)
    BY <2>1
  <2> HIDE DEF p, d, e
  <2>4. HunkEnd(f, p) = e /\ HasHunk(f, p)
    <3>1. HunkEnd(f, p) = p + 4 + Len(d)
      BY <2>2 DEF HunkEnd
    <3>2. HunkEnd(f, p) = e
      BY <2>3, <3>1
    <3>3. p + 4 <= Len(f) /\ HunkEnd(f, p) <= Len(f)
      BY <1>1, <2>3, <3>2
    <3> QED
      BY <3>2, <3>3 DEF HasHunk
  <2>5. SubSeq(f, p + 5, e) = d
    <3>1. SubSeq(f, p + 5, e) = [j \in 1 .. Len(d) |-> f[p + 4 + j]]
      <4>1. SubSeq(f, p + 5, e) = [j \in 1 .. e - (p + 5) + 1 |-> f[p + 5 + j - 1]]
        BY <1>1, <2>3
      <4>2. e - (p + 5) + 1 = Len(d)
        BY <2>3
      <4>3. \A j \in 1 .. Len(d) : p + 5 + j - 1 = p + 4 + j
        BY <2>3
      <4> QED
        BY <4>1, <4>2, <4>3
    <3>2. d = [j \in 1 .. Len(d) |-> d[j]]
      BY <2>3
    <3>3. \A j \in 1 .. Len(d) : f[p + 4 + j] = d[j]
      BY <2>2, <2>3
    <3> QED
      BY <3>1, <3>2, <3>3
  <2>6. HunkAt(f, p) = [at |-> Getw(f, p), data |-> SubSeq(f, p + 5, HunkEnd(f, p))]
    BY DEF HunkAt
  <2>7. HunkAt(f, p) = [at |-> hs[i].at, data |-> d]
    BY <2>2, <2>4, <2>5, <2>6
  <2>8. HunkAt(f, p) = hs[i]
    BY <2>1, <2>7 DEF d
  <2> QED
    BY <1>1, <2>1, <2>4, <2>8 DEF p, e
<1>3. PICK g : ReadsFrom(g, f) /\ HunksOf(f) = g[0]
  BY HunksOfIs
<1>4. \A p \in 0 .. Len(f) :
        g[p] = IF HasHunk(f, p) THEN <<HunkAt(f, p)>> \o g[HunkEnd(f, p)] ELSE <<>>
  BY <1>3 DEF ReadsFrom
<1> DEFINE P == {k \in Nat : k <= m => g[s[m + 1 - k]] = SubSeq(hs, m + 1 - k, m)}
<1>5. 0 \in P
  <2>1. s[m + 1] = Len(f) /\ m + 1 - 0 = m + 1 /\ Len(f) \in 0 .. Len(f)
    BY <1>1 DEF Hunked
  <2>2. ~HasHunk(f, Len(f))
    BY <1>1 DEF HasHunk
  <2>3. g[Len(f)] = <<>>
    BY <1>4, <2>1, <2>2
  <2>4. SubSeq(hs, m + 1, m) = <<>>
    BY <1>1
  <2> QED
    BY <2>1, <2>3, <2>4
<1>6. ASSUME NEW k \in Nat, k \in P
      PROVE  k + 1 \in P
  <2> SUFFICES ASSUME k + 1 <= m
               PROVE  g[s[m + 1 - (k + 1)]] = SubSeq(hs, m + 1 - (k + 1), m)
    OBVIOUS
  <2> DEFINE i == m - k
  <2>0. k <= m => g[s[m + 1 - k]] = SubSeq(hs, m + 1 - k, m)
    BY <1>6
  <2> HIDE DEF m
  <2>1. i \in 1 .. m /\ m + 1 - (k + 1) = i /\ m + 1 - k = i + 1 /\ k <= m
    BY <1>1
  <2>2. g[s[i + 1]] = SubSeq(hs, i + 1, m)
    BY <2>0, <2>1
  <2> HIDE DEF i
  <2>3. g[s[i]] = <<hs[i]>> \o g[s[i + 1]]
    <3>1. i \in DOMAIN hs
      BY <1>1, <2>1
    <3>2. /\ HasHunk(f, s[i]) /\ HunkEnd(f, s[i]) = s[i + 1] /\ HunkAt(f, s[i]) = hs[i]
          /\ s[i] \in 0 .. Len(f)
      BY <1>2, <3>1
    <3> DEFINE p == s[i]
    <3>3. p \in 0 .. Len(f) /\ HasHunk(f, p) /\ HunkEnd(f, p) = s[i + 1] /\ HunkAt(f, p) = hs[i]
      BY <3>2
    <3> HIDE DEF p
    <3>4. g[p] = <<HunkAt(f, p)>> \o g[HunkEnd(f, p)]
      BY <1>4, <3>3
    <3> QED
      BY <3>3, <3>4 DEF p
  <2>4. i \in 1 .. Len(hs) /\ m \in i .. Len(hs)
    BY <1>1, <2>1 DEF m
  <2>5. SubSeq(hs, i, m) = <<hs[i]>> \o SubSeq(hs, i + 1, m)
    BY <1>1, <2>4, SubSeqRecursiveFirst
  <2> QED
    BY <2>1, <2>2, <2>3, <2>5
<1>7. m \in P
  <2> HIDE DEF P
  <2> QED
    BY <1>1, <1>5, <1>6, Inductive
<1>8. g[s[1]] = SubSeq(hs, 1, m) /\ s[1] = 0
  <2>1. m <= m /\ m + 1 - m = 1
    BY <1>1
  <2> QED
    BY <1>7, <2>1 DEF Hunked
<1>9. SubSeq(hs, 1, m) = hs
  BY <1>1
<1> QED
  BY <1>3, <1>8, <1>9

\* The length of all hunks is a sum.
LEMMA TotalIs ==
  ASSUME NEW rs, NEW n \in Nat, n = Len(rs)
  PROVE  \E f : Adds(f, [i \in 1 .. n |-> Len(rs[i].data)], n) /\ Total(rs) = f[n]
<1> DEFINE d == [i \in 1 .. n |-> Len(rs[i].data)]
           f == CHOOSE g : g = [i \in 0 .. n |-> IF i = 0 THEN 0 ELSE g[i - 1] + Len(rs[i].data)]
<1>1. Total(rs) = f[n]
  BY DEF Total
<1>2. ASSUME NEW g
      PROVE  Adds(g, d, n)
               <=> g = [i \in 0 .. n |-> IF i = 0 THEN 0 ELSE g[i - 1] + Len(rs[i].data)]
  <2>1. \A i \in 0 .. n : i # 0 => d[i] = Len(rs[i].data)
    <3>1. TAKE i \in 0 .. n
    <3>2. i # 0 => i \in 1 .. n
      OBVIOUS
    <3> QED
      BY <3>2
  <2> HIDE DEF d
  <2>2. [i \in 0 .. n |-> IF i = 0 THEN 0 ELSE g[i - 1] + d[i]]
          = [i \in 0 .. n |-> IF i = 0 THEN 0 ELSE g[i - 1] + Len(rs[i].data)]
    BY <2>1
  <2> QED
    BY <2>2 DEF Adds
<1>3. \E g : Adds(g, d, n)
  BY SumsExist
<1> HIDE DEF d
<1>4. Adds(f, d, n)
  BY <1>2, <1>3
<1> QED
  BY <1>1, <1>4 DEF d

\* The hunks and their headers are all of the file.
LEMMA HunksFill ==
  ASSUME NEW f \in Seq(Bytes), NEW hs, NEW s, NEW n, Hunked(f, hs, s, n)
  PROVE  Total(hs) + 4 * Len(hs) = Len(f)
<1> DEFINE m == Len(hs)
           d == [i \in 1 .. m |-> Len(hs[i].data)]
<1>1. m \in Nat /\ DOMAIN hs = 1 .. m /\ s[1] = 0 /\ s[m + 1] = Len(f)
  BY DEF Hunked
<1>2. PICK g : Adds(g, d, m) /\ Total(hs) = g[m]
  BY <1>1, TotalIs
<1>3. \A i \in 0 .. m : g[i] = IF i = 0 THEN 0 ELSE g[i - 1] + d[i]
  BY <1>2 DEF Adds
<1>4. ASSUME NEW i \in 1 .. m
      PROVE  /\ d[i] \in Nat /\ s[i] \in Nat /\ s[i + 1] = s[i] + 4 + d[i]
  <2>1. i \in DOMAIN hs
    BY <1>1
  <2> QED
    BY <2>1, HunkParts
<1> HIDE DEF m, d
<1> DEFINE P == {k \in Nat : k <= m => g[k] \in Nat /\ g[k] + 4 * k = s[k + 1]}
<1>5. 0 \in P
  <2>1. 0 \in 0 .. m /\ s[0 + 1] = 0
    BY <1>1
  <2>2. g[0] = 0
    BY <1>3, <2>1
  <2>3. g[0] \in Nat /\ g[0] + 4 * 0 = s[0 + 1]
    BY <2>1, <2>2
  <2> QED
    BY <2>3
<1>6. ASSUME NEW k \in Nat, k \in P
      PROVE  k + 1 \in P
  <2> DEFINE i == k + 1
  <2> SUFFICES ASSUME i <= m
               PROVE  g[i] \in Nat /\ g[i] + 4 * i = s[i + 1]
    OBVIOUS
  <2>1. i \in Nat /\ i \in 1 .. m /\ i - 1 = k /\ i # 0 /\ k <= m /\ i \in 0 .. m
    BY <1>1
  <2>2. g[k] \in Nat /\ g[k] + 4 * k = s[i]
    BY <1>6, <2>1
  <2>3. 4 * i = 4 * k + 4
    OBVIOUS
  <2> HIDE DEF i
  <2>4. g[i] = g[k] + d[i]
    BY <1>3, <2>1
  <2>5. d[i] \in Nat /\ s[i + 1] = s[i] + 4 + d[i]
    BY <1>4, <2>1
  <2> DEFINE u == g[k]
             v == d[i]
             w == s[i]
             q == 4 * k
  <2>6. u \in Nat /\ v \in Nat /\ q \in Nat /\ w = u + q
    BY <2>2, <2>5
  <2> HIDE DEF u, v, w, q
  <2>7. u + v \in Nat /\ (u + v) + (q + 4) = w + 4 + v
    BY <2>6
  <2> QED
    BY <2>3, <2>4, <2>5, <2>7 DEF u, v, w, q
<1>7. m \in P
  <2> HIDE DEF P
  <2> QED
    BY <1>1, <1>5, <1>6, Inductive
<1>8. g[m] + 4 * m = s[m + 1]
  <2>1. m <= m
    BY <1>1
  <2> QED
    BY <1>7, <2>1
<1> QED
  BY <1>1, <1>2, <1>8 DEF m

\* A file of which all hunks have their lengths is one of whole hunks.
LEMMA FileRead ==
  ASSUME NEW f \in Seq(Bytes), NEW hs, NEW s, Hunked(f, hs, s, Len(hs))
  PROVE  WholeHunks(f) /\ HunksOf(f) = hs
<1>1. HunksOf(f) = hs
  BY HunksRead
<1>2. Total(hs) + 4 * Len(hs) = Len(f)
  BY HunksFill
<1> QED
  BY <1>1, <1>2 DEF WholeHunks

-----------------------------------------------------------------------------
(***************************************************************************)
(* Writing hunks                                                           *)
(***************************************************************************)
\* From p to e, g is f, but for the two bytes behind the first two.
SameBetween(f, g, p, e) == \A x \in p + 1 .. e : x # p + 3 /\ x # p + 4 => g[x] = f[x]

\* A hunk is still there in a file that differs elsewhere, or in its length field.
LEMMA HunkSame ==
  ASSUME NEW f \in Seq(Bytes), NEW hs, NEW s, NEW n, Hunked(f, hs, s, n), NEW i \in DOMAIN hs,
         NEW g, SameBetween(f, g, s[i], s[i + 1])
  PROVE  /\ Getw(g, s[i]) = hs[i].at
         /\ \A j \in DOMAIN hs[i].data : g[s[i] + 4 + j] = hs[i].data[j]
         /\ i <= n /\ g[s[i] + 3] = f[s[i] + 3] /\ g[s[i] + 4] = f[s[i] + 4] =>
              Getw(g, s[i] + 2) = Len(hs[i].data)
<1>1. /\ s[i] \in Nat /\ s[i + 1] \in Nat /\ hs[i].data \in Seq(Bytes) /\ Len(hs[i].data) \in Nat
      /\ s[i + 1] = s[i] + 4 + Len(hs[i].data)
  BY HunkParts
<1>2. /\ Getw(f, s[i]) = hs[i].at
      /\ \A j \in DOMAIN hs[i].data : f[s[i] + 4 + j] = hs[i].data[j]
      /\ i <= n => Getw(f, s[i] + 2) = Len(hs[i].data)
  BY DEF Hunked
<1> DEFINE p == s[i]
           e == s[i + 1]
           d == hs[i].data
           l == Len(d)
<1>3. /\ p \in Nat /\ e \in Nat /\ l \in Nat /\ e = p + 4 + l /\ DOMAIN d = 1 .. l
      /\ \A x \in p + 1 .. e : x # p + 3 /\ x # p + 4 => g[x] = f[x]
  BY <1>1 DEF SameBetween
<1>4. /\ Getw(f, p) = hs[i].at /\ \A j \in DOMAIN d : f[p + 4 + j] = d[j]
      /\ i <= n => Getw(f, p + 2) = l
  BY <1>2
<1> HIDE DEF p, e, d, l
<1>5. Getw(g, p) = hs[i].at
  <2>1. p + 1 \in p + 1 .. e /\ p + 2 \in p + 1 .. e
    BY <1>3
  <2>2. g[p + 1] = f[p + 1] /\ g[p + 2] = f[p + 2]
    BY <1>3, <2>1
  <2> QED
    BY <1>4, <2>2 DEF Getw
<1>6. ASSUME NEW j \in DOMAIN d PROVE g[p + 4 + j] = d[j]
  <2>1. p + 4 + j \in p + 1 .. e /\ p + 4 + j # p + 3 /\ p + 4 + j # p + 4
    BY <1>3
  <2> QED
    BY <1>3, <1>4, <2>1
<1>7. ASSUME i <= n, g[p + 3] = f[p + 3], g[p + 4] = f[p + 4] PROVE Getw(g, p + 2) = l
  <2>1. (p + 2) + 1 = p + 3 /\ (p + 2) + 2 = p + 4
    BY <1>3
  <2> QED
    BY <1>4, <1>7, <2>1 DEF Getw
<1> QED
  BY <1>5, <1>6, <1>7 DEF p, d, l

\* An empty file has none.
LEMMA NoHunks ==
  \E s : Hunked(<<>>, <<>>, s, 0)
<1> DEFINE s == [i \in 1 .. 1 |-> 0]
<1>1. Hunked(<<>>, <<>>, s, 0)
  BY DEF Hunked
<1> QED
  BY <1>1

\* One file behind another.
LEMMA Joined ==
  ASSUME NEW u \in Seq(Bytes), NEW v \in Seq(Bytes)
  PROVE  /\ u \o v \in Seq(Bytes) /\ Len(u \o v) = Len(u) + Len(v)
         /\ \A x \in 1 .. Len(u) : (u \o v)[x] = u[x]
         /\ \A j \in 1 .. Len(v) : (u \o v)[Len(u) + j] = v[j]
<1> DEFINE l == Len(u)
<1>1. l \in Nat /\ Len(v) \in Nat /\ DOMAIN v = 1 .. Len(v)
  OBVIOUS
<1>2. /\ u \o v \in Seq(Bytes) /\ Len(u \o v) = l + Len(v)
      /\ \A x \in 1 .. l + Len(v) : (u \o v)[x] = IF x <= l THEN u[x] ELSE v[x - l]
  BY ConcatProperties
<1> HIDE DEF l
<1>3. ASSUME NEW x \in 1 .. l PROVE (u \o v)[x] = u[x]
  <2>1. x \in 1 .. l + Len(v) /\ x <= l
    BY <1>1
  <2> QED
    BY <1>2, <2>1
<1>4. ASSUME NEW j \in 1 .. Len(v) PROVE (u \o v)[l + j] = v[j]
  <2> DEFINE x == l + j
  <2>1. x \in 1 .. l + Len(v) /\ ~(x <= l) /\ x - l = j
    BY <1>1
  <2> HIDE DEF x
  <2>2. (u \o v)[x] = v[x - l]
    BY <1>2, <2>1
  <2> QED
    BY <2>1, <2>2 DEF x
<1> QED
  BY <1>1, <1>2, <1>3, <1>4 DEF l

\* Four pieces of a file, one behind the other.
IsFour(e, f, c, z, d) == e = (f \o c \o z) \o d

\* A header, with an empty length field, and data, behind a file.
LEMMA HeaderAndData ==
  ASSUME NEW f \in Seq(Bytes), NEW c \in Seq(Bytes), Len(c) = 2, NEW z \in Seq(Bytes), Len(z) = 2,
         NEW d \in Seq(Bytes), NEW e, IsFour(e, f, c, z, d)
  PROVE  /\ e \in Seq(Bytes) /\ Len(e) = Len(f) + 4 + Len(d)
         /\ \A x \in 1 .. Len(f) : e[x] = f[x]
         /\ e[Len(f) + 1] = c[1] /\ e[Len(f) + 2] = c[2]
         /\ \A j \in DOMAIN d : e[Len(f) + 4 + j] = d[j]
<1> DEFINE l == Len(f)
           u == f \o c
           v == u \o z
           g == v \o d
           l2 == l + 2
           l4 == l + 4
<1>0. /\ l2 \in Nat /\ l4 \in Nat /\ l2 = l + 2 /\ l4 = l2 + 2 /\ l4 = l + 4 /\ l = Len(f)
      /\ l \in Nat /\ Len(d) \in Nat
  OBVIOUS
<1> HIDE DEF l2, l4
<1>1. /\ u \in Seq(Bytes) /\ Len(u) = l + Len(c)
      /\ \A x \in 1 .. l : u[x] = f[x]
      /\ \A j \in 1 .. Len(c) : u[l + j] = c[j]
  <2>1. /\ u \in Seq(Bytes) /\ Len(u) = Len(f) + Len(c)
        /\ \A x \in 1 .. Len(f) : u[x] = f[x]
        /\ \A j \in 1 .. Len(c) : u[Len(f) + j] = c[j]
    BY Joined
  <2> QED
    BY <2>1
<1> HIDE DEF u, l
<1>2. Len(u) = l2 /\ u[l + 1] = c[1] /\ u[l + 2] = c[2]
  <2>1. 1 \in 1 .. Len(c) /\ 2 \in 1 .. Len(c)
    OBVIOUS
  <2> QED
    BY <1>0, <1>1, <2>1
<1>3. v \in Seq(Bytes) /\ Len(v) = l2 + Len(z) /\ \A x \in 1 .. l2 : v[x] = u[x]
  <2>1. /\ v \in Seq(Bytes) /\ Len(v) = Len(u) + Len(z)
        /\ \A x \in 1 .. Len(u) : v[x] = u[x]
    BY <1>1, Joined
  <2> QED
    BY <1>2, <2>1
<1> HIDE DEF v
<1>4. Len(v) = l4
  BY <1>0, <1>3
<1>5. /\ g \in Seq(Bytes) /\ Len(g) = l4 + Len(d)
      /\ \A x \in 1 .. l4 : g[x] = v[x]
      /\ \A j \in 1 .. Len(d) : g[l4 + j] = d[j]
  <2>1. /\ g \in Seq(Bytes) /\ Len(g) = Len(v) + Len(d)
        /\ \A x \in 1 .. Len(v) : g[x] = v[x]
        /\ \A j \in 1 .. Len(d) : g[Len(v) + j] = d[j]
    BY <1>3, Joined
  <2> QED
    BY <1>4, <2>1
<1> HIDE DEF g
<1>7. ASSUME NEW x \in 1 .. l2 PROVE g[x] = u[x]
  <2>1. x \in 1 .. l4
    BY <1>0
  <2> QED
    BY <1>3, <1>5, <2>1
<1>8. ASSUME NEW x \in 1 .. l PROVE g[x] = f[x]
  <2>1. x \in 1 .. l2
    BY <1>0
  <2> QED
    BY <1>1, <1>7, <2>1
<1>9. g[l + 1] = c[1] /\ g[l + 2] = c[2]
  <2> DEFINE x == l + 1
             y == l + 2
  <2>1. x \in 1 .. l2 /\ y \in 1 .. l2
    BY <1>0
  <2>2. u[x] = c[1] /\ u[y] = c[2]
    BY <1>2
  <2> HIDE DEF x, y
  <2>3. g[x] = c[1] /\ g[y] = c[2]
    BY <1>7, <2>1, <2>2
  <2> QED
    BY <2>3 DEF x, y
<1>10. \A j \in DOMAIN d : g[l + 4 + j] = d[j]
  <2>1. \A j \in DOMAIN d : l + 4 + j = l4 + j /\ j \in 1 .. Len(d)
    BY <1>0
  <2> QED
    BY <1>5, <2>1
<1>11. Len(g) = l + 4 + Len(d)
  BY <1>0, <1>5
<1> QED
  <2>1. e = g
    BY DEF IsFour, g, v, u
  <2> QED
    BY <1>5, <1>8, <1>9, <1>10, <1>11, <2>1 DEF l

\* g is the file f with the header of a and the data d behind it.
BehindHeader(f, a, d, g) ==
  /\ Len(g) = Len(f) + 4 + Len(d)
  /\ \A x \in 1 .. Len(f) : g[x] = f[x]
  /\ Getw(g, Len(f)) = a % Word
  /\ \A j \in DOMAIN d : g[Len(f) + 4 + j] = d[j]

\* As generate() writes it.
LEMMA HeaderBehind ==
  ASSUME NEW f \in Seq(Bytes), NEW a \in Nat, NEW d \in Seq(Bytes), NEW g,
         IsFour(g, f, Putw(a), <<0, 0>>, d)
  PROVE  BehindHeader(f, a, d, g) /\ g \in Seq(Bytes)
<1> DEFINE c == Putw(a)
           z == <<0, 0>>
<1>1. c \in Seq(Bytes) /\ Len(c) = 2
  BY PutwTypes
<1>2. c[1] = a % Byte /\ c[2] = (a \div Byte) % Byte
  BY DEF Putw
<1>3. z \in Seq(Bytes) /\ Len(z) = 2
  BY BytesAre
<1>4. IsFour(g, f, c, z, d)
  OBVIOUS
<1> HIDE DEF c, z
<1>5. /\ g \in Seq(Bytes) /\ Len(g) = Len(f) + 4 + Len(d)
      /\ \A x \in 1 .. Len(f) : g[x] = f[x]
      /\ g[Len(f) + 1] = c[1] /\ g[Len(f) + 2] = c[2]
      /\ \A j \in DOMAIN d : g[Len(f) + 4 + j] = d[j]
  BY <1>1, <1>3, <1>4, HeaderAndData
<1>6. Getw(g, Len(f)) = a % Word
  BY <1>2, <1>5, WordOfBytes DEF Getw
<1> QED
  BY <1>5, <1>6 DEF BehindHeader

\* gs and t have the hunk h and the position e more than hs and s.
OneMore(hs, s, h, e, m, gs, t) ==
  /\ m \in Nat /\ m = Len(hs) + 1
  /\ h \in Hunk /\ gs \in Seq(Hunk) /\ Len(gs) = m /\ gs[m] = h
  /\ \A i \in 1 .. m - 1 : gs[i] = hs[i]
  /\ \A i \in 1 .. m : t[i] = s[i]
  /\ t[m + 1] = e

\* A header and data behind all hunks; the length field is empty.
LEMMA HunkBegun ==
  ASSUME NEW f \in Seq(Bytes), NEW hs, NEW s, Hunked(f, hs, s, Len(hs)),
         NEW a \in Nat, NEW d \in Seq(Bytes), NEW g \in Seq(Bytes), BehindHeader(f, a, d, g),
         NEW h, h.at = a % Word, h.data = d,
         NEW m, NEW gs, NEW t, OneMore(hs, s, h, Len(g), m, gs, t)
  PROVE  Hunked(g, gs, t, m - 1) /\ t[m] = Len(f)
<1> DEFINE l == Len(f)
<1>3. m \in Nat /\ m = Len(hs) + 1
  BY DEF OneMore
<1>1. /\ hs \in Seq(Hunk) /\ Len(hs) \in Nat /\ m \in Nat /\ m >= 1 /\ DOMAIN hs = 1 .. m - 1
      /\ Len(hs) = m - 1 /\ l \in Nat /\ Len(d) \in Nat /\ DOMAIN d = 1 .. Len(d)
  BY <1>3 DEF Hunked
<1>2. /\ \A i \in 1 .. m : s[i] \in 0 .. l
      /\ s[1] = 0 /\ s[m] = l
  BY <1>3 DEF Hunked
<1> HIDE DEF l
<1>4. h.at = a % Word /\ h.data = d
  OBVIOUS
<1>5. /\ gs \in Seq(Hunk) /\ Len(gs) = m /\ gs[m] = h /\ DOMAIN gs = 1 .. m
      /\ \A i \in 1 .. m - 1 : gs[i] = hs[i]
  BY DEF OneMore
<1>6. /\ Len(g) = l + 4 + Len(d)
      /\ \A x \in 1 .. l : g[x] = f[x]
      /\ Getw(g, l) = a % Word
      /\ \A j \in DOMAIN d : g[l + 4 + j] = d[j]
  BY DEF BehindHeader, l
<1>7. /\ \A i \in 1 .. m : t[i] = s[i]
      /\ t[m + 1] = Len(g)
  BY DEF OneMore
<1>8. \A i \in 1 .. m + 1 : t[i] \in 0 .. Len(g)
  <2>1. TAKE i \in 1 .. m + 1
  <2>2. CASE i = m + 1
    BY <1>7, <2>2
  <2>3. CASE i # m + 1
    <3>1. i \in 1 .. m
      BY <1>1, <2>3
    <3>2. s[i] \in 0 .. l /\ t[i] = s[i]
      BY <1>2, <1>7, <3>1
    <3> QED
      BY <1>1, <1>6, <3>2
  <2> QED
    BY <2>2, <2>3
<1>9. ASSUME NEW i \in 1 .. m
      PROVE  /\ t[i + 1] = t[i] + 4 + Len(gs[i].data)
             /\ Getw(g, t[i]) = gs[i].at
             /\ \A j \in DOMAIN gs[i].data : g[t[i] + 4 + j] = gs[i].data[j]
             /\ i <= m - 1 => Getw(g, t[i] + 2) = Len(gs[i].data)
  <2>1. CASE i = m
    <3>1. t[i] = l /\ gs[i] = h /\ t[i + 1] = l + 4 + Len(d)
      BY <1>1, <1>2, <1>5, <1>6, <1>7, <2>1
    <3>2. Getw(g, l) = a % Word
      BY <1>6
    <3>3. ~(i <= m - 1)
      BY <1>1, <2>1
    <3>4. \A j \in DOMAIN gs[i].data : g[t[i] + 4 + j] = gs[i].data[j]
      <4>1. gs[i].data = d
        BY <1>4, <3>1
      <4>2. \A j \in DOMAIN d : g[l + 4 + j] = d[j]
        BY <1>6
      <4> QED
        BY <3>1, <4>1, <4>2
    <3> QED
      BY <1>4, <3>1, <3>2, <3>3, <3>4
  <2>2. CASE i # m
    <3>1. i \in DOMAIN hs /\ i \in 1 .. m - 1 /\ i <= Len(hs) /\ i + 1 \in 1 .. m
      BY <1>1, <2>2
    <3> DEFINE p == s[i]
               e == s[i + 1]
               b == hs[i].data
               k == Len(b)
    <3>2. p \in Nat /\ e \in Nat /\ e <= l /\ k \in Nat /\ e = p + 4 + k
      BY <3>1, HunkParts DEF l
    <3>6. t[i] = p /\ t[i + 1] = e /\ gs[i] = hs[i] /\ i <= Len(hs)
      BY <1>5, <1>7, <3>1
    <3> HIDE DEF p, e, k
    <3>3. ASSUME NEW x \in p + 1 .. e PROVE g[x] = f[x]
      <4>1. x \in 1 .. l
        BY <1>1, <3>2
      <4> QED
        BY <1>6, <4>1
    <3>4. g[p + 3] = f[p + 3] /\ g[p + 4] = f[p + 4]
      <4> DEFINE x == p + 3
                 y == p + 4
      <4>1. x \in p + 1 .. e /\ y \in p + 1 .. e
        BY <3>2
      <4> HIDE DEF x, y
      <4>2. g[x] = f[x] /\ g[y] = f[y]
        BY <3>3, <4>1
      <4> QED
        BY <4>2 DEF x, y
    <3> USE DEF p, e
    <3>7. SameBetween(f, g, s[i], s[i + 1])
      BY <3>3 DEF SameBetween
    <3>8. g[s[i] + 3] = f[s[i] + 3] /\ g[s[i] + 4] = f[s[i] + 4]
      BY <3>4
    <3>5. /\ Getw(g, p) = hs[i].at
          /\ \A j \in DOMAIN hs[i].data : g[p + 4 + j] = hs[i].data[j]
          /\ Getw(g, p + 2) = Len(hs[i].data)
      BY <3>1, <3>6, <3>7, <3>8, HunkSame
    <3> HIDE DEF p, e
    <3>9. t[i + 1] = t[i] + 4 + Len(gs[i].data)
      BY <3>2, <3>6 DEF k
    <3> QED
      BY <3>5, <3>6, <3>9
  <2> QED
    BY <2>1, <2>2
<1>10. ASSUME NEW i \in 1 .. m, NEW j \in 1 .. m, i < j
       PROVE  t[i] + 4 + Len(gs[i].data) <= t[j]
  <2>1. i \in DOMAIN hs /\ i \in 1 .. m - 1 /\ gs[i] = hs[i] /\ t[i] = s[i] /\ t[j] = s[j]
    BY <1>1, <1>5, <1>7, <1>10
  <2>2. CASE j = m
    <3>1. s[i + 1] = s[i] + 4 + Len(hs[i].data) /\ s[i + 1] <= Len(f)
      BY <2>1, HunkParts
    <3> QED
      BY <1>2, <2>1, <2>2, <3>1 DEF l
  <2>3. CASE j # m
    <3>1. j \in DOMAIN hs
      BY <1>1, <2>3
    <3> QED
      BY <1>10, <2>1, <3>1 DEF Hunked
  <2> QED
    BY <2>2, <2>3
<1>11. t[1] = 0 /\ t[m] = l
  BY <1>1, <1>2, <1>7
<1>12. Hunked(g, gs, t, m - 1)
  BY <1>5, <1>7, <1>8, <1>9, <1>10, <1>11 DEF Hunked
<1> QED
  BY <1>11, <1>12 DEF l

\* gs and t have another last hunk h, up to e, than hs and s.
LastOther(hs, s, h, e, m, gs, t) ==
  /\ m \in Nat /\ m = Len(hs) /\ m > 0
  /\ h \in Hunk /\ gs \in Seq(Hunk) /\ Len(gs) = m /\ gs[m] = h
  /\ \A i \in 1 .. m - 1 : gs[i] = hs[i]
  /\ \A i \in 1 .. m : t[i] = s[i]
  /\ t[m + 1] = e

\* g is the file f with the data d behind it.
DataBehind(f, d, g) ==
  /\ Len(g) = Len(f) + Len(d)
  /\ \A x \in 1 .. Len(f) : g[x] = f[x]
  /\ \A j \in 1 .. Len(d) : g[Len(f) + j] = d[j]

\* h is the hunk o with them.
Continued(h, o, d) == h.at = o.at /\ h.data = o.data \o d

\* More data behind the last hunk, of which the length is not written yet.
LEMMA HunkContinued ==
  ASSUME NEW f \in Seq(Bytes), NEW hs, NEW s, Hunked(f, hs, s, Len(hs) - 1),
         NEW d \in Seq(Bytes), NEW g \in Seq(Bytes), DataBehind(f, d, g),
         NEW h, NEW m, Continued(h, hs[m], d),
         NEW gs, NEW t, LastOther(hs, s, h, Len(g), m, gs, t)
  PROVE  Hunked(g, gs, t, m - 1) /\ t[m] = s[m]
<1> DEFINE l == Len(f)
           b == hs[m].data
           p == s[m]
           k == Len(b)
<1>3. m \in Nat /\ m = Len(hs) /\ m > 0
  BY DEF LastOther
<1>1. /\ hs \in Seq(Hunk) /\ Len(hs) \in Nat /\ DOMAIN hs = 1 .. m /\ m \in DOMAIN hs
      /\ l \in Nat /\ Len(d) \in Nat /\ DOMAIN d = 1 .. Len(d)
  BY <1>3 DEF Hunked
<1>2. /\ \A i \in 1 .. m + 1 : s[i] \in 0 .. l
      /\ s[1] = 0 /\ s[m + 1] = l
  BY <1>3 DEF Hunked
<1>4. /\ p \in Nat /\ k \in Nat /\ b \in Seq(Bytes) /\ DOMAIN b = 1 .. k /\ l = p + 4 + k
      /\ hs[m].at \in Nat
  <2>1. /\ p \in Nat /\ hs[m].data \in Seq(Bytes) /\ Len(hs[m].data) \in Nat /\ hs[m].at \in Nat
        /\ s[m + 1] = p + 4 + Len(hs[m].data)
    BY <1>1, HunkParts
  <2> QED
    BY <1>2, <2>1
<1>5. /\ gs \in Seq(Hunk) /\ Len(gs) = m /\ gs[m] = h /\ DOMAIN gs = 1 .. m
      /\ \A i \in 1 .. m - 1 : gs[i] = hs[i]
  BY DEF LastOther
<1>6. /\ Len(g) = l + Len(d)
      /\ \A x \in 1 .. l : g[x] = f[x]
      /\ \A j \in 1 .. Len(d) : g[l + j] = d[j]
  BY DEF DataBehind
<1>7. /\ \A i \in 1 .. m : t[i] = s[i]
      /\ t[m + 1] = Len(g)
  BY DEF LastOther
<1>8. /\ h.at = hs[m].at /\ h.data = b \o d /\ Len(b \o d) = k + Len(d)
      /\ DOMAIN (b \o d) = 1 .. k + Len(d)
      /\ \A x \in 1 .. k : (b \o d)[x] = b[x]
      /\ \A j \in 1 .. Len(d) : (b \o d)[k + j] = d[j]
  <2>1. b \o d \in Seq(Bytes) /\ Len(b \o d) = k + Len(d)
    BY <1>4, Joined
  <2>2. DOMAIN (b \o d) = 1 .. Len(b \o d)
    BY <2>1
  <2>3. /\ \A x \in 1 .. k : (b \o d)[x] = b[x]
        /\ \A j \in 1 .. Len(d) : (b \o d)[k + j] = d[j]
    BY <1>4, Joined
  <2> QED
    BY <2>1, <2>2, <2>3 DEF Continued
<1> HIDE DEF l, b, p, k
<1>9. \A i \in 1 .. m + 1 : t[i] \in 0 .. Len(g)
  <2>1. TAKE i \in 1 .. m + 1
  <2>2. CASE i = m + 1
    BY <1>7, <2>2
  <2>3. CASE i # m + 1
    <3>1. i \in 1 .. m
      BY <1>3, <2>3
    <3>2. s[i] \in 0 .. l /\ t[i] = s[i]
      BY <1>2, <1>7, <3>1
    <3> QED
      BY <1>1, <1>6, <3>2
  <2> QED
    BY <2>2, <2>3
<1>10. ASSUME NEW i \in 1 .. m, i # m
       PROVE  /\ i \in DOMAIN hs /\ t[i] = s[i] /\ t[i + 1] = s[i + 1] /\ gs[i] = hs[i]
              /\ s[i] \in Nat /\ s[i + 1] \in Nat /\ s[i + 1] <= l /\ s[i + 1] <= p
              /\ s[i + 1] = s[i] + 4 + Len(hs[i].data) /\ i <= Len(hs) - 1
  <2>0. i \in 1 .. m - 1 /\ i + 1 \in 1 .. m /\ i < m /\ i <= m - 1
    BY <1>3, <1>10
  <2>1. i \in DOMAIN hs /\ i \in 1 .. m - 1 /\ i + 1 \in 1 .. m /\ i < m /\ i <= Len(hs) - 1
    BY <1>1, <1>3, <2>0
  <2>2. /\ s[i] \in Nat /\ s[i + 1] \in Nat /\ s[i + 1] <= Len(f)
        /\ s[i + 1] = s[i] + 4 + Len(hs[i].data)
    <3>1. i \in DOMAIN hs
      BY <2>1
    <3> DEFINE n == Len(hs) - 1
    <3>2. Hunked(f, hs, s, n)
      OBVIOUS
    <3> HIDE DEF n
    <3> QED
      BY <3>1, <3>2, HunkParts
  <2>3. s[i] + 4 + Len(hs[i].data) <= s[m]
    BY <1>1, <2>1 DEF Hunked
  <2> QED
    BY <1>5, <1>7, <2>1, <2>2, <2>3 DEF l, p
<1>11. ASSUME NEW i \in 1 .. m
       PROVE  /\ t[i + 1] = t[i] + 4 + Len(gs[i].data)
              /\ Getw(g, t[i]) = gs[i].at
              /\ \A j \in DOMAIN gs[i].data : g[t[i] + 4 + j] = gs[i].data[j]
              /\ i <= m - 1 => Getw(g, t[i] + 2) = Len(gs[i].data)
  <2>1. CASE i = m
    <3>1. t[i] = p /\ gs[i] = h /\ t[i + 1] = l + Len(d) /\ ~(i <= m - 1)
      BY <1>3, <1>5, <1>6, <1>7, <2>1 DEF p
    <3>2. SameBetween(f, g, s[m], s[m + 1])
      <4>1. SUFFICES ASSUME NEW x \in p + 1 .. l PROVE g[x] = f[x]
        BY <1>2 DEF SameBetween, p
      <4>2. x \in 1 .. l
        BY <1>1, <1>4
      <4> QED
        BY <1>6, <4>2
    <3>3. Getw(g, p) = hs[m].at /\ \A j \in DOMAIN b : g[p + 4 + j] = b[j]
      BY <1>1, <3>2, HunkSame DEF p, b
    <3>4. ASSUME NEW j \in 1 .. k + Len(d) PROVE g[p + 4 + j] = (b \o d)[j]
      <4>1. CASE j <= k
        <5>1. j \in 1 .. k
          BY <1>1, <1>4, <4>1
        <5> QED
          BY <1>4, <1>8, <3>3, <5>1
      <4>2. CASE ~(j <= k)
        <5> DEFINE x == j - k
        <5>1. x \in 1 .. Len(d) /\ k + x = j /\ l + x = p + 4 + j
          BY <1>1, <1>4, <4>2
        <5> HIDE DEF x
        <5>2. g[l + x] = d[x] /\ (b \o d)[k + x] = d[x]
          BY <1>6, <1>8, <5>1
        <5> QED
          BY <5>1, <5>2
      <4> QED
        BY <4>1, <4>2
    <3>5. l + Len(d) = p + 4 + (k + Len(d))
      BY <1>1, <1>4
    <3> QED
      BY <1>8, <3>1, <3>3, <3>4, <3>5
  <2>2. CASE i # m
    <3>1. /\ i \in DOMAIN hs /\ t[i] = s[i] /\ t[i + 1] = s[i + 1] /\ gs[i] = hs[i]
          /\ s[i] \in Nat /\ s[i + 1] \in Nat /\ s[i + 1] <= l /\ i <= Len(hs) - 1
          /\ s[i + 1] = s[i] + 4 + Len(hs[i].data)
      BY <1>10, <2>2
    <3> DEFINE q == s[i]
               e == s[i + 1]
    <3>2. q \in Nat /\ e \in Nat /\ e <= l /\ e >= q + 4
      <4>1. Len(hs[i].data) \in Nat
        BY <3>1, HunkParts
      <4> QED
        BY <3>1, <4>1
    <3>3. ASSUME NEW x \in q + 1 .. e PROVE g[x] = f[x]
      <4> HIDE DEF q, e
      <4>1. x \in 1 .. l
        BY <1>1, <3>2
      <4> QED
        BY <1>6, <4>1
    <3>4. g[q + 3] = f[q + 3] /\ g[q + 4] = f[q + 4]
      <4> DEFINE x == q + 3
                 y == q + 4
      <4> HIDE DEF q, e
      <4>1. x \in q + 1 .. e /\ y \in q + 1 .. e
        BY <3>2
      <4> HIDE DEF x, y
      <4>2. g[x] = f[x] /\ g[y] = f[y]
        BY <3>3, <4>1
      <4> QED
        BY <4>2 DEF x, y
    <3>7. SameBetween(f, g, s[i], s[i + 1])
      BY <3>3 DEF SameBetween
    <3>5. /\ Getw(g, q) = hs[i].at
          /\ \A j \in DOMAIN hs[i].data : g[q + 4 + j] = hs[i].data[j]
          /\ Getw(g, q + 2) = Len(hs[i].data)
      <4>1. i \in DOMAIN hs /\ i <= Len(hs) - 1
        BY <3>1
      <4> DEFINE n == Len(hs) - 1
      <4>2. Hunked(f, hs, s, n) /\ i <= n
        BY <4>1
      <4>3. g[s[i] + 3] = f[s[i] + 3] /\ g[s[i] + 4] = f[s[i] + 4]
        BY <3>4
      <4> HIDE DEF n
      <4> QED
        BY <3>7, <4>1, <4>2, <4>3, HunkSame
    <3> QED
      BY <3>1, <3>5
  <2> QED
    BY <2>1, <2>2
<1>12. ASSUME NEW i \in 1 .. m, NEW j \in 1 .. m, i < j
       PROVE  t[i] + 4 + Len(gs[i].data) <= t[j]
  <2>1. i # m
    BY <1>3, <1>12
  <2>2. i \in DOMAIN hs /\ t[i] = s[i] /\ gs[i] = hs[i] /\ j \in DOMAIN hs /\ t[j] = s[j]
    BY <1>1, <1>7, <1>10, <2>1
  <2> QED
    BY <1>12, <2>2 DEF Hunked
<1>13. t[1] = 0 /\ t[m] = s[m]
  BY <1>1, <1>2, <1>3, <1>7
<1>14. Hunked(g, gs, t, m - 1)
  BY <1>5, <1>7, <1>9, <1>11, <1>12, <1>13 DEF Hunked
<1> QED
  BY <1>13, <1>14

\* g is the file f but for the two bytes behind p, which are the number n.
NumberAt(f, p, n, g) ==
  /\ Len(g) = Len(f)
  /\ \A x \in 1 .. Len(f) : x # p + 1 /\ x # p + 2 => g[x] = f[x]
  /\ Getw(g, p) = n

\* Two bytes that are written over others.
LEMMA NumberWritten ==
  ASSUME NEW f \in Seq(Bytes), NEW p \in Nat, p + 2 <= Len(f), NEW n \in Nat, n < Word
  PROVE  NumberAt(f, p, n, Written(f, p, Putw(n)))
<1> DEFINE c == Putw(n)
           g == Written(f, p, c)
           l == Len(f)
<1>1. /\ Len(c) = 2 /\ c[1] = n % Byte /\ c[2] = (n \div Byte) % Byte
  BY PutwTypes DEF Putw
<1> HIDE DEF c
<1>2. g = [i \in 1 .. l |-> IF i > p /\ i <= p + 2 THEN c[i - p] ELSE IF i <= l THEN f[i] ELSE 0]
  <2>1. ~(p + 2 > l) /\ l \in Nat
    OBVIOUS
  <2> QED
    BY <1>1, <2>1 DEF Written
<1>3. l \in Nat /\ p + 1 \in 1 .. l /\ p + 2 \in 1 .. l
  OBVIOUS
<1> HIDE DEF g, l
<1>4. Len(g) = l
  BY <1>2, <1>3
<1>5. ASSUME NEW x \in 1 .. l, x # p + 1, x # p + 2 PROVE g[x] = f[x]
  <2>1. ~(x > p /\ x <= p + 2) /\ x <= l
    BY <1>3, <1>5
  <2> QED
    BY <1>2, <2>1
<1>6. g[p + 1] = c[1] /\ g[p + 2] = c[2]
  <2> DEFINE x == p + 1
             y == p + 2
  <2>1. /\ x \in 1 .. l /\ y \in 1 .. l /\ x > p /\ x <= p + 2 /\ y > p /\ y <= p + 2
        /\ x - p = 1 /\ y - p = 2
    BY <1>3
  <2> HIDE DEF x, y
  <2>2. g[x] = c[1] /\ g[y] = c[2]
    BY <1>2, <2>1
  <2> QED
    BY <2>2 DEF x, y
<1>7. Getw(g, p) = n
  BY <1>1, <1>6, WordOfBytes DEF Getw
<1> QED
  BY <1>4, <1>5, <1>7 DEF NumberAt, g, l, c

\* Of m hunks only the last has no length yet.
LastOpen(f, hs, s, m, o) ==
  /\ m \in Nat /\ m = Len(hs) /\ m > 0
  /\ o = m - 1 /\ Hunked(f, hs, s, o)

\* The length of the last hunk is written into its header.
LEMMA HunkMeasured ==
  ASSUME NEW f \in Seq(Bytes), NEW hs, NEW s, NEW m, NEW o, LastOpen(f, hs, s, m, o),
         NEW g \in Seq(Bytes), NumberAt(f, s[m] + 2, Len(hs[m].data), g)
  PROVE  Hunked(g, hs, s, m)
<1> DEFINE l == Len(f)
           p == s[m]
<1>0. m \in Nat /\ m = Len(hs) /\ m > 0 /\ o = m - 1
  BY DEF LastOpen
<1>H. Hunked(f, hs, s, o)
  BY DEF LastOpen
<1>1. /\ hs \in Seq(Hunk) /\ DOMAIN hs = 1 .. m /\ m \in DOMAIN hs /\ l \in Nat
  BY <1>0, <1>H DEF Hunked
<1>2. /\ \A i \in 1 .. m + 1 : s[i] \in 0 .. l
      /\ s[1] = 0 /\ s[m + 1] = l
      /\ \A i, j \in DOMAIN hs : i < j => s[i] + 4 + Len(hs[i].data) <= s[j]
  BY <1>0, <1>H DEF Hunked
<1>3. /\ Len(g) = l
      /\ \A x \in 1 .. l : x # (p + 2) + 1 /\ x # (p + 2) + 2 => g[x] = f[x]
      /\ Getw(g, p + 2) = Len(hs[m].data)
  BY DEF NumberAt
<1>4. p \in Nat
  BY <1>0, <1>1, <1>2
<1> HIDE DEF l, p
<1>5. \A x \in 1 .. l : x # p + 3 /\ x # p + 4 => g[x] = f[x]
  <2>1. (p + 2) + 1 = p + 3 /\ (p + 2) + 2 = p + 4
    BY <1>4
  <2> QED
    BY <1>3, <2>1
<1>6. ASSUME NEW i \in DOMAIN hs
      PROVE  /\ s[i + 1] = s[i] + 4 + Len(hs[i].data)
             /\ Getw(g, s[i]) = hs[i].at
             /\ \A j \in DOMAIN hs[i].data : g[s[i] + 4 + j] = hs[i].data[j]
             /\ Getw(g, s[i] + 2) = Len(hs[i].data)
  <2> DEFINE q == s[i]
             e == s[i + 1]
  <2>1. /\ i \in Nat /\ i >= 1 /\ i <= m
        /\ s[i] \in Nat /\ s[i + 1] \in Nat /\ s[i + 1] <= Len(f)
        /\ Len(hs[i].data) \in Nat
        /\ s[i + 1] = s[i] + 4 + Len(hs[i].data)
    BY <1>0, <1>H, HunkParts
  <2>2. q \in Nat /\ e \in Nat /\ e <= l /\ e >= q + 4
    BY <2>1 DEF l
  <2>3. CASE i = m
    <3>1. SameBetween(f, g, s[i], s[i + 1])
      <4>0. q = p
        BY <2>3 DEF p
      <4>1. SUFFICES ASSUME NEW x \in q + 1 .. e, x # q + 3, x # q + 4 PROVE g[x] = f[x]
        BY DEF SameBetween
      <4> HIDE DEF q, e
      <4>2. x \in 1 .. l /\ x # p + 3 /\ x # p + 4
        BY <1>1, <2>2, <4>0, <4>1
      <4> QED
        BY <1>5, <4>2
    <3>2. Getw(g, s[i]) = hs[i].at /\ \A j \in DOMAIN hs[i].data : g[s[i] + 4 + j] = hs[i].data[j]
      BY <1>H, <3>1, HunkSame
    <3>3. Getw(g, s[i] + 2) = Len(hs[i].data)
      BY <1>3, <2>3 DEF p
    <3> QED
      BY <2>1, <3>2, <3>3
  <2>4. CASE i # m
    <3>1. i < m /\ i <= o
      BY <1>0, <2>1, <2>4
    <3>2. e <= p
      BY <1>1, <1>2, <2>1, <3>1 DEF p
    <3>3. ASSUME NEW x \in q + 1 .. e PROVE g[x] = f[x]
      <4> HIDE DEF q, e
      <4>1. x \in 1 .. l /\ x # p + 3 /\ x # p + 4
        BY <1>1, <1>4, <2>2, <3>2
      <4> QED
        BY <1>5, <4>1
    <3>4. g[q + 3] = f[q + 3] /\ g[q + 4] = f[q + 4]
      <4> DEFINE x == q + 3
                 y == q + 4
      <4> HIDE DEF q, e
      <4>1. x \in q + 1 .. e /\ y \in q + 1 .. e
        BY <2>2
      <4> HIDE DEF x, y
      <4>2. g[x] = f[x] /\ g[y] = f[y]
        BY <3>3, <4>1
      <4> QED
        BY <4>2 DEF x, y
    <3>5. SameBetween(f, g, s[i], s[i + 1])
      BY <3>3 DEF SameBetween
    <3>6. g[s[i] + 3] = f[s[i] + 3] /\ g[s[i] + 4] = f[s[i] + 4]
      BY <3>4
    <3>7. /\ Getw(g, s[i]) = hs[i].at
          /\ \A j \in DOMAIN hs[i].data : g[s[i] + 4 + j] = hs[i].data[j]
          /\ Getw(g, s[i] + 2) = Len(hs[i].data)
      BY <1>H, <3>1, <3>5, <3>6, HunkSame
    <3> QED
      BY <2>1, <3>7
  <2> QED
    BY <2>3, <2>4
<1> QED
  BY <1>0, <1>1, <1>2, <1>3, <1>6 DEF Hunked

\* Lists of hunks and of pieces can be loaded.
LEMMA ListsLoadable ==
  ASSUME NEW rs
  PROVE  (rs \in Seq(Hunk) => Loadable(rs)) /\ (rs \in Seq(Piece) => Loadable(rs))
<1>1. ASSUME rs \in Seq(Hunk) PROVE Loadable(rs)
  <2>1. Len(rs) \in Nat /\ DOMAIN rs = 1 .. Len(rs)
    BY <1>1
  <2>2. ASSUME NEW i \in DOMAIN rs PROVE rs[i].at \in Nat /\ rs[i].data \in Seq(Bytes)
    <3>1. rs[i] \in Hunk
      BY <1>1
    <3>2. rs[i].at \in 0 .. Word - 1 /\ rs[i].data \in Seq(Bytes)
      BY <3>1 DEF Hunk
    <3> QED
      BY <3>2, WordIs
  <2> QED
    BY <2>1, <2>2 DEF Loadable
<1>2. ASSUME rs \in Seq(Piece) PROVE Loadable(rs)
  <2>1. Len(rs) \in Nat /\ DOMAIN rs = 1 .. Len(rs)
    BY <1>2
  <2>2. ASSUME NEW i \in DOMAIN rs PROVE rs[i].at \in Nat /\ rs[i].data \in Seq(Bytes)
    BY <1>2, PieceTypes
  <2> QED
    BY <2>1, <2>2 DEF Loadable
<1> QED
  BY <1>1, <1>2

\* A piece, and the same data at an address that is the same word, have the same effect.
LEMMA SameEffect ==
  ASSUME NEW m, NEW a \in Nat, NEW b \in Nat, a % Word = b % Word, NEW d \in Seq(Bytes),
         NEW m1, NEW m2, Overlay(m, a, d, m1), Overlay(m, b, d, m2)
  PROVE  m1 = m2
<1>1. ASSUME NEW j \in DOMAIN d PROVE (a + j - 1) % Word = (b + j - 1) % Word
  <2> DEFINE k == j - 1
  <2>1. k \in Int /\ a + j - 1 = a + k /\ b + j - 1 = b + k /\ a \in Int /\ b \in Int
    OBVIOUS
  <2> HIDE DEF k
  <2>2. (a + k) % Word = (b + k) % Word
    BY <2>1, WordIs, SameRemainder
  <2> QED
    BY <2>1, <2>2
<1> QED
  BY <1>1, OverlaySame

\* What the last hunk of a file, of which all others have their lengths, adds to a list of
\* pieces rs.
OpenHunk(f, gs, t, m, o, b, n, e, rs) ==
  /\ LastOpen(f, gs, t, m, o)
  /\ t[m] + 2 = b /\ Len(gs[m].data) = n
  /\ (gs[m].at + n) % Word = e % Word
  /\ Loaded(gs) = Loaded(rs)

\* A header and the data of a piece, behind whole hunks.
LEMMA PieceBegins ==
  ASSUME NEW f \in Seq(Bytes), NEW hs, NEW s, Hunked(f, hs, s, Len(hs)),
         NEW rs \in Seq(Piece), Loaded(hs) = Loaded(rs), NEW r \in Piece,
         NEW g \in Seq(Bytes), BehindHeader(f, r.at, r.data, g)
  PROVE  \E gs, t, m, o :
           OpenHunk(g, gs, t, m, o, Len(f) + 2, Len(r.data), r.at + Len(r.data), Append(rs, r))
<1> DEFINE h  == [at |-> r.at % Word, data |-> r.data]
           m  == Len(hs) + 1
           gs == Append(hs, h)
           t  == [i \in 1 .. m + 1 |-> IF i = m + 1 THEN Len(g) ELSE s[i]]
           qs == Append(rs, r)
           o  == m - 1
<1>1. r.at \in Nat /\ r.data \in Seq(Bytes) /\ Len(r.data) \in Nat
  BY DEF Piece
<1>2. h \in Hunk /\ h.at = r.at % Word /\ h.data = r.data
  BY <1>1, WordIs DEF Hunk
<1>3. hs \in Seq(Hunk) /\ Len(hs) \in Nat /\ m \in Nat /\ m = Len(hs) + 1 /\ m > 0
      /\ o = m - 1 /\ o = Len(hs)
  BY DEF Hunked
<1> HIDE DEF h, m, o
<1>4. /\ gs \in Seq(Hunk) /\ Len(gs) = m /\ gs[m] = h
      /\ \A i \in 1 .. m - 1 : gs[i] = hs[i]
  <2>1. /\ gs \in Seq(Hunk) /\ Len(gs) = Len(hs) + 1 /\ gs[Len(hs) + 1] = h
        /\ \A i \in 1 .. Len(hs) : gs[i] = hs[i]
    BY <1>2, <1>3, AppendProperties
  <2> QED
    BY <1>3, <2>1
<1>5. (\A i \in 1 .. m : t[i] = s[i]) /\ t[m + 1] = Len(g)
  BY <1>3
<1> HIDE DEF gs, t
<1>6. OneMore(hs, s, h, Len(g), m, gs, t)
  BY <1>2, <1>3, <1>4, <1>5 DEF OneMore
<1>7. Hunked(g, gs, t, m - 1) /\ t[m] = Len(f)
  BY <1>1, <1>2, <1>6, HunkBegun
<1>8. LastOpen(g, gs, t, m, o)
  BY <1>3, <1>4, <1>7 DEF LastOpen
<1>9. /\ qs \in Seq(Piece) /\ Len(qs) = Len(rs) + 1 /\ qs[Len(qs)] = r
      /\ \A i \in 1 .. Len(rs) : qs[i] = rs[i]
  BY AppendProperties
<1> HIDE DEF qs
<1>10. Overlay(Loaded(rs), r.at, r.data, Loaded(qs))
  <2>1. Loadable(rs) /\ Loadable(qs)
    BY <1>9, ListsLoadable
  <2>2. Overlay(Loaded(rs), qs[Len(qs)].at, qs[Len(qs)].data, Loaded(qs))
    BY <1>9, <2>1, LoadedAppended
  <2> QED
    BY <1>9, <2>2
<1>11. Overlay(Loaded(rs), h.at, r.data, Loaded(gs))
  <2>1. Loadable(hs) /\ Loadable(gs)
    BY <1>3, <1>4, ListsLoadable
  <2>2. Len(gs) = Len(hs) + 1 /\ \A i \in 1 .. Len(hs) : gs[i] = hs[i]
    BY <1>3, <1>4
  <2>3. Overlay(Loaded(hs), gs[Len(gs)].at, gs[Len(gs)].data, Loaded(gs))
    BY <2>1, <2>2, LoadedAppended
  <2>4. gs[Len(gs)].at = h.at /\ gs[Len(gs)].data = r.data
    BY <1>2, <1>4
  <2> QED
    BY <2>3, <2>4
<1>12. h.at \in Nat /\ h.at % Word = r.at % Word
  <2> DEFINE x == r.at
  <2>1. x \in Int /\ x % Word \in 0 .. Word - 1 /\ Word \in Nat /\ Word > 0
    BY <1>1, WordIs
  <2>2. h.at = x % Word
    BY <1>2
  <2> HIDE DEF x
  <2>3. (x % Word) % Word = x % Word
    BY <2>1, RemainderOfRemainder
  <2> QED
    BY <2>1, <2>2, <2>3 DEF x
<1>13. Loaded(gs) = Loaded(qs)
  BY <1>1, <1>10, <1>11, <1>12, SameEffect
<1>14. (gs[m].at + Len(r.data)) % Word = (r.at + Len(r.data)) % Word
  <2>1. gs[m].at = h.at
    BY <1>4
  <2> DEFINE x == h.at
             y == r.at
             k == Len(r.data)
  <2>3. x \in Int /\ y \in Int /\ k \in Int /\ x % Word = y % Word
    BY <1>1, <1>12
  <2> HIDE DEF x, y, k
  <2>4. (x + k) % Word = (y + k) % Word
    BY <2>3, WordIs, SameRemainder
  <2>2. (h.at + Len(r.data)) % Word = (r.at + Len(r.data)) % Word
    BY <2>4 DEF x, y, k
  <2> QED
    BY <2>1, <2>2
<1>15. Len(gs[m].data) = Len(r.data) /\ t[m] + 2 = Len(f) + 2
  BY <1>2, <1>4, <1>7
<1>16. OpenHunk(g, gs, t, m, o, Len(f) + 2, Len(r.data), r.at + Len(r.data), qs)
  BY <1>8, <1>13, <1>14, <1>15 DEF OpenHunk
<1> QED
  BY <1>16 DEF qs

\* The data of a piece that begins where the last one has ended.
LEMMA PieceContinues ==
  ASSUME NEW f \in Seq(Bytes), NEW hs, NEW s, NEW m, NEW o, NEW b, NEW n, NEW rs \in Seq(Piece),
         NEW r \in Piece, OpenHunk(f, hs, s, m, o, b, n, r.at, rs),
         NEW g \in Seq(Bytes), DataBehind(f, r.data, g)
  PROVE  \E gs, t :
           OpenHunk(g, gs, t, m, o, b, n + Len(r.data), r.at + Len(r.data), Append(rs, r))
<1> DEFINE h  == [at |-> hs[m].at, data |-> hs[m].data \o r.data]
           gs == [hs EXCEPT ![m] = h]
           t  == [i \in 1 .. m + 1 |-> IF i = m + 1 THEN Len(g) ELSE s[i]]
           qs == Append(rs, r)
<1>1. r.at \in Nat /\ r.data \in Seq(Bytes) /\ Len(r.data) \in Nat
  BY DEF Piece
<1>0. /\ m \in Nat /\ m = Len(hs) /\ m > 0 /\ o = m - 1 /\ Hunked(f, hs, s, o)
      /\ s[m] + 2 = b /\ Len(hs[m].data) = n
      /\ (hs[m].at + n) % Word = r.at % Word
      /\ Loaded(hs) = Loaded(rs)
  BY DEF OpenHunk, LastOpen
<1>2. hs \in Seq(Hunk) /\ m \in DOMAIN hs
  BY <1>0 DEF Hunked
<1>3. /\ hs[m].at \in 0 .. Word - 1 /\ hs[m].at \in Nat /\ hs[m].data \in Seq(Bytes)
      /\ n \in Nat
  BY <1>0, <1>2, HunkParts
<1>4. h \in Hunk /\ h.at = hs[m].at /\ h.data = hs[m].data \o r.data
      /\ Len(h.data) = n + Len(r.data)
  <2>1. hs[m].data \o r.data \in Seq(Bytes) /\ Len(hs[m].data \o r.data) = n + Len(r.data)
    BY <1>0, <1>1, <1>3, Joined
  <2> QED
    BY <1>3, <2>1 DEF Hunk
<1> HIDE DEF h
<1>5. /\ gs \in Seq(Hunk) /\ Len(gs) = m /\ gs[m] = h
      /\ \A i \in 1 .. m - 1 : gs[i] = hs[i]
  BY <1>0, <1>2, <1>4
<1>6. (\A i \in 1 .. m : t[i] = s[i]) /\ t[m + 1] = Len(g)
  BY <1>0
<1> HIDE DEF gs, t
<1>7. LastOther(hs, s, h, Len(g), m, gs, t)
  BY <1>0, <1>4, <1>5, <1>6 DEF LastOther
<1>8. Continued(h, hs[m], r.data)
  BY <1>4 DEF Continued
<1>9. Hunked(g, gs, t, m - 1) /\ t[m] = s[m]
  <2>1. Hunked(f, hs, s, Len(hs) - 1)
    BY <1>0
  <2> QED
    BY <1>1, <1>7, <1>8, <2>1, HunkContinued
<1>10. LastOpen(g, gs, t, m, o)
  BY <1>0, <1>5, <1>9 DEF LastOpen
<1>11. /\ qs \in Seq(Piece) /\ Len(qs) = Len(rs) + 1 /\ qs[Len(qs)] = r
       /\ \A i \in 1 .. Len(rs) : qs[i] = rs[i]
  BY AppendProperties
<1> HIDE DEF qs
<1>12. Overlay(Loaded(rs), r.at, r.data, Loaded(qs))
  <2>1. Loadable(rs) /\ Loadable(qs)
    BY <1>11, ListsLoadable
  <2>2. Overlay(Loaded(rs), qs[Len(qs)].at, qs[Len(qs)].data, Loaded(qs))
    BY <1>11, <2>1, LoadedAppended
  <2> QED
    BY <1>11, <2>2
<1>13. Overlay(Loaded(rs), hs[m].at + n, r.data, Loaded(gs))
  <2>1. Loadable(hs) /\ Loadable(gs)
    BY <1>2, <1>5, ListsLoadable
  <2>2. /\ Len(hs) > 0 /\ Len(gs) = Len(hs) /\ \A i \in 1 .. Len(hs) - 1 : gs[i] = hs[i]
        /\ gs[Len(hs)].at = hs[Len(hs)].at
        /\ gs[Len(hs)].data = hs[Len(hs)].data \o r.data
    BY <1>0, <1>4, <1>5
  <2>3. Overlay(Loaded(hs), hs[Len(hs)].at + Len(hs[Len(hs)].data), r.data, Loaded(gs))
    BY <1>1, <2>1, <2>2, LoadedExtended
  <2> QED
    BY <1>0, <2>3
<1>14. Loaded(gs) = Loaded(qs)
  <2>1. hs[m].at + n \in Nat
    BY <1>3
  <2> QED
    BY <1>0, <1>1, <1>12, <1>13, <2>1, SameEffect
<1>15. (gs[m].at + (n + Len(r.data))) % Word = (r.at + Len(r.data)) % Word
  <2> DEFINE k == Len(r.data)
             x == hs[m].at + n
  <2>1. k \in Int /\ x \in Int /\ r.at \in Int
    BY <1>1, <1>3
  <2>2. x % Word = r.at % Word
    BY <1>0
  <2>3. gs[m].at + (n + k) = x + k
    BY <1>1, <1>3, <1>4, <1>5
  <2> HIDE DEF k, x
  <2>4. (x + k) % Word = (r.at + k) % Word
    BY <2>1, <2>2, WordIs, SameRemainder
  <2> QED
    BY <2>3, <2>4 DEF k
<1>16. Len(gs[m].data) = n + Len(r.data) /\ t[m] + 2 = b
  BY <1>0, <1>4, <1>5, <1>9
<1>17. OpenHunk(g, gs, t, m, o, b, n + Len(r.data), r.at + Len(r.data), qs)
  BY <1>10, <1>14, <1>15, <1>16 DEF OpenHunk
<1> QED
  BY <1>17 DEF qs

-----------------------------------------------------------------------------
(***************************************************************************)
(* The file of format 2                                                    *)
(***************************************************************************)
\* From piece i on, each begins where the one before has ended.
Adjacent(rs, i) == \A k \in i .. Len(rs) - 1 : rs[k + 1].at = EndAt(rs, k)

\* What is adjacent is shorter than a word.
Fits(rs) ==
  \A i, j \in DOMAIN rs :
    i <= j /\ (\A k \in i .. j - 1 : rs[k + 1].at = EndAt(rs, k)) => EndAt(rs, j) - rs[i].at < Word

\* The file of format 2 holds hunks with what the pass has generated so far; all but the last
\* have their lengths, and Seekback is where the last one, which is Seglen, has to be written.
\* It has them all when the assembly is complete.  The bytes of the open hunk are adjacent.
RasSoFar ==
  F_format = "RAS" =>
    /\ Fisclear => runs = <<>>
    /\ Fisclear /\ dasm # "complete" => FI_temp = <<>>
    /\ ~Redo /\ ~Fisclear => runs # <<>>
    /\ runs # <<>> =>
         /\ org = EndAt(runs, Len(runs))
         /\ \E i \in DOMAIN runs : Adjacent(runs, i) /\ Seglen = org - runs[i].at
         /\ Fits(runs) /\ dasm # "complete" =>
              \E hs, s, m, o : OpenHunk(FI_temp, hs, s, m, o, Seekback, Seglen, org, runs)
         /\ Fits(runs) /\ dasm = "complete" =>
              \E hs, s : /\ Hunked(FI_temp, hs, s, Len(hs)) /\ Len(hs) > 0
                         /\ Loaded(hs) = Loaded(runs)

\* The last pieces of a list that fits do.
LEMMA LastFit ==
  ASSUME NEW rs \in Seq(Piece), Fits(rs), NEW i \in DOMAIN rs, Adjacent(rs, i)
  PROVE  EndAt(rs, Len(rs)) - rs[i].at < Word
<1>1. Len(rs) \in DOMAIN rs /\ i <= Len(rs)
  OBVIOUS
<1> QED
  BY <1>1 DEF Fits, Adjacent

IsAppended(qs, rs, r) == qs = Append(rs, r)

\* One more piece: the list without it fits too, and is adjacent from where it was if the new
\* piece is.
LEMMA AppendedFits ==
  ASSUME NEW rs \in Seq(Piece), NEW r \in Piece, NEW qs, IsAppended(qs, rs, r)
  PROVE  /\ qs \in Seq(Piece) /\ qs # <<>> /\ Len(qs) = Len(rs) + 1 /\ Len(rs) \in Nat
         /\ EndAt(qs, Len(qs)) = r.at + Len(r.data)
         /\ Len(qs) \in DOMAIN qs /\ Adjacent(qs, Len(qs)) /\ qs[Len(qs)] = r
         /\ Fits(qs) => Fits(rs)
         /\ \A i \in DOMAIN rs : /\ i \in DOMAIN qs /\ qs[i] = rs[i]
                                 /\ Adjacent(rs, i) /\ r.at = EndAt(rs, Len(rs)) => Adjacent(qs, i)
<1> DEFINE n == Len(rs)
<1>1. n \in Nat /\ DOMAIN rs = 1 .. n
  OBVIOUS
<1>2. /\ qs \in Seq(Piece) /\ Len(qs) = n + 1 /\ qs[n + 1] = r /\ DOMAIN qs = 1 .. n + 1
      /\ \A i \in 1 .. n : qs[i] = rs[i]
  <2>1. qs = Append(rs, r)
    BY DEF IsAppended
  <2> QED
    BY <2>1, AppendProperties
<1> HIDE DEF n
<1>3. ASSUME NEW i \in DOMAIN rs
      PROVE  i \in DOMAIN qs /\ qs[i] = rs[i] /\ EndAt(qs, i) = EndAt(rs, i)
  BY <1>1, <1>2 DEF EndAt
<1>4. Fits(qs) => Fits(rs)
  <2>1. SUFFICES ASSUME Fits(qs), NEW i \in DOMAIN rs, NEW j \in DOMAIN rs, i <= j,
                        \A k \in i .. j - 1 : rs[k + 1].at = EndAt(rs, k)
                 PROVE  EndAt(rs, j) - rs[i].at < Word
    BY DEF Fits
  <2>2. ASSUME NEW k \in i .. j - 1 PROVE qs[k + 1].at = EndAt(qs, k)
    <3> DEFINE l == k + 1
    <3>1. k \in DOMAIN rs /\ l \in DOMAIN rs
      BY <1>1
    <3>2. rs[l].at = EndAt(rs, k)
      BY <2>1
    <3> HIDE DEF l
    <3>3. qs[l].at = EndAt(qs, k)
      BY <1>3, <3>1, <3>2
    <3> QED
      BY <3>3 DEF l
  <2>3. EndAt(qs, j) - qs[i].at < Word
    <3>1. i \in DOMAIN qs /\ j \in DOMAIN qs
      BY <1>3
    <3> QED
      BY <2>1, <2>2, <3>1 DEF Fits
  <2> QED
    BY <1>3, <2>3
<1>5. Adjacent(qs, n + 1)
  BY <1>1, <1>2 DEF Adjacent
<1>6. ASSUME NEW i \in DOMAIN rs, Adjacent(rs, i), r.at = EndAt(rs, n)
      PROVE  Adjacent(qs, i)
  <2>1. SUFFICES ASSUME NEW k \in i .. n PROVE qs[k + 1].at = EndAt(qs, k)
    BY <1>1, <1>2 DEF Adjacent
  <2> DEFINE l == k + 1
  <2>2. k \in DOMAIN rs
    BY <1>1
  <2>3. CASE k = n
    <3>1. qs[l].at = r.at /\ EndAt(qs, k) = EndAt(rs, n)
      BY <1>2, <1>3, <2>2, <2>3
    <3> QED
      BY <1>6, <3>1
  <2>4. CASE k # n
    <3>1. l \in DOMAIN rs /\ k \in i .. n - 1
      BY <1>1, <2>4
    <3>2. rs[l].at = EndAt(rs, k)
      BY <1>6, <3>1 DEF Adjacent, n
    <3> HIDE DEF l
    <3>3. qs[l].at = EndAt(qs, k)
      BY <1>3, <2>2, <3>1, <3>2
    <3> QED
      BY <3>3 DEF l
  <2> QED
    BY <2>3, <2>4
<1>7. EndAt(qs, n + 1) = r.at + Len(r.data)
  BY <1>2 DEF EndAt
<1>8. n + 1 \in DOMAIN qs /\ qs # <<>>
  BY <1>1, <1>2
<1> QED
  BY <1>1, <1>2, <1>3, <1>4, <1>5, <1>6, <1>7, <1>8 DEF n

\* With the length of the open hunk written, the file has whole hunks.
LEMMA LengthPatched ==
  ASSUME HunkTypes, RasSoFar, F_format = "RAS", runs # <<>>, Fits(runs), dasm # "complete"
  PROVE  /\ Patched(FI_temp) \in Seq(Bytes)
         /\ \E hs, s : /\ Hunked(Patched(FI_temp), hs, s, Len(hs)) /\ Len(hs) > 0
                       /\ Loaded(hs) = Loaded(runs)
<1> DEFINE g == Patched(FI_temp)
<1>1. /\ org = EndAt(runs, Len(runs))
      /\ \E i \in DOMAIN runs : Adjacent(runs, i) /\ Seglen = org - runs[i].at
      /\ \E hs, s, m, o : OpenHunk(FI_temp, hs, s, m, o, Seekback, Seglen, org, runs)
  BY DEF RasSoFar
<1>2. /\ FI_temp \in Seq(Bytes) /\ Seglen \in Nat /\ Seekback \in Nat /\ runs \in Seq(Piece)
  BY DEF HunkTypes
<1>3. g \in Seq(Bytes)
  BY <1>2, PutwTypes, WrittenTypes DEF Patched
<1>4. Seglen < Word
  <2>1. PICK i \in DOMAIN runs : Adjacent(runs, i) /\ Seglen = org - runs[i].at
    BY <1>1
  <2> QED
    BY <1>1, <1>2, <2>1, LastFit
<1>5. PICK hs, s, m, o : OpenHunk(FI_temp, hs, s, m, o, Seekback, Seglen, org, runs)
  BY <1>1
<1>6. /\ LastOpen(FI_temp, hs, s, m, o) /\ Seekback = s[m] + 2 /\ Len(hs[m].data) = Seglen
      /\ Loaded(hs) = Loaded(runs)
  BY <1>5 DEF OpenHunk
<1>7. m \in Nat /\ m = Len(hs) /\ m > 0 /\ Hunked(FI_temp, hs, s, o) /\ hs \in Seq(Hunk)
  BY <1>6 DEF LastOpen, Hunked
<1>8. m \in DOMAIN hs
  BY <1>7
<1>9. Seekback + 2 <= Len(FI_temp)
  <2>1. /\ s[m] \in Nat /\ s[m + 1] <= Len(FI_temp) /\ Len(FI_temp) \in Nat
        /\ s[m + 1] = s[m] + 4 + Len(hs[m].data)
    BY <1>2, <1>7, <1>8, HunkParts
  <2> QED
    BY <1>2, <1>6, <2>1
<1>10. NumberAt(FI_temp, s[m] + 2, Len(hs[m].data), g)
  <2>1. NumberAt(FI_temp, Seekback, Seglen, g)
    BY <1>2, <1>4, <1>9, NumberWritten DEF Patched
  <2> QED
    BY <1>6, <2>1
<1> HIDE DEF g
<1>11. Hunked(g, hs, s, m)
  BY <1>2, <1>3, <1>6, <1>10, HunkMeasured
<1> QED
  BY <1>3, <1>6, <1>7, <1>11 DEF g

\* A statement that begins a hunk.
LEMMA RasBegins ==
  ASSUME HunkTypes, RasSoFar, F_format = "RAS", ~Redo, dasm # "complete", NEW n \in Lengths,
         GenerateRas(Data(n)), Fisclear \/ org # Csegment,
         NEW r, r = [at |-> Csegment, data |-> Data(n), fill |-> OrgFill]
  PROVE  LET rs == Append(runs, r)
         IN /\ Seglen' = n
            /\ Fits(rs) => \E hs, s, m, o :
                 OpenHunk(FI_temp', hs, s, m, o, Seekback', Seglen', Csegment + n, rs)
<1> DEFINE rs == Append(runs, r)
           f  == IF Fisclear THEN FI_temp ELSE Patched(FI_temp)
           g  == FI_temp'
           d  == Data(n)
<1>1. /\ FI_temp \in Seq(Bytes) /\ Csegment \in Nat /\ runs \in Seq(Piece)
  BY DEF HunkTypes
<1>2. n \in Nat /\ d \in Seq(Bytes) /\ Len(d) = n /\ r \in Piece
  BY NewPiece
<1>3. r.at = Csegment /\ r.data = d
  OBVIOUS
<1>4. /\ g = (f \o Putw(Csegment) \o <<0, 0>>) \o d
      /\ Seekback' = Len(f) + 2 /\ Seglen' = 0 + Len(d)
  BY DEF GenerateRas, Header, LengthField
<1>5. Seglen' = n
  BY <1>2, <1>4
<1>6. ASSUME Fits(rs)
      PROVE  \E hs, s, m, o : OpenHunk(g, hs, s, m, o, Seekback', Seglen', Csegment + n, rs)
  <2>1. f \in Seq(Bytes) /\ \E hs, s : Hunked(f, hs, s, Len(hs)) /\ Loaded(hs) = Loaded(runs)
    <3>1. CASE Fisclear
      <4>1. runs = <<>> /\ f = <<>>
        BY <3>1 DEF RasSoFar
      <4>2. \E s : Hunked(f, <<>>, s, 0)
        BY <4>1, NoHunks
      <4>3. Len(<<>>) = 0
        OBVIOUS
      <4> QED
        BY <1>1, <3>1, <4>1, <4>2, <4>3
    <3>2. CASE ~Fisclear
      <4>0. IsAppended(rs, runs, r)
        BY DEF IsAppended
      <4> HIDE DEF rs
      <4>1. runs # <<>> /\ Fits(runs)
        BY <1>1, <1>2, <1>6, <3>2, <4>0, AppendedFits DEF RasSoFar
      <4> QED
        BY <3>2, <4>1, LengthPatched
    <3> QED
      BY <3>1, <3>2
  <2> HIDE DEF f
  <2>2. BehindHeader(f, Csegment, d, g) /\ g \in Seq(Bytes)
    <3>1. IsFour(g, f, Putw(Csegment), <<0, 0>>, d)
      BY <1>4 DEF IsFour
    <3> HIDE DEF g, d
    <3> QED
      BY <1>1, <1>2, <2>1, <3>1, HeaderBehind
  <2>3. PICK hs, s : Hunked(f, hs, s, Len(hs)) /\ Loaded(hs) = Loaded(runs)
    BY <2>1
  <2> HIDE DEF g, d, rs
  <2>4. BehindHeader(f, r.at, r.data, g)
    BY <1>3, <2>2
  <2>5. \E gs, t, m, o :
          OpenHunk(g, gs, t, m, o, Len(f) + 2, Len(r.data), r.at + Len(r.data), Append(runs, r))
    BY <1>1, <1>2, <2>1, <2>2, <2>3, <2>4, PieceBegins
  <2>6. Len(r.data) = Seglen' /\ Len(f) + 2 = Seekback' /\ r.at + Len(r.data) = Csegment + n
    BY <1>2, <1>3, <1>4, <1>5
  <2> QED
    BY <2>5, <2>6 DEF rs
<1> QED
  BY <1>5, <1>6

\* A statement that continues it.
LEMMA RasContinues ==
  ASSUME HunkTypes, RasSoFar, F_format = "RAS", ~Redo, dasm # "complete", NEW n \in Lengths,
         GenerateRas(Data(n)), ~(Fisclear \/ org # Csegment),
         NEW r, r = [at |-> Csegment, data |-> Data(n), fill |-> OrgFill]
  PROVE  LET rs == Append(runs, r)
         IN /\ Seglen' = Seglen + n
            /\ Fits(rs) => \E hs, s, m, o :
                 OpenHunk(FI_temp', hs, s, m, o, Seekback', Seglen', Csegment + n, rs)
<1> DEFINE rs == Append(runs, r)
           g  == FI_temp'
           d  == Data(n)
<1>1. /\ FI_temp \in Seq(Bytes) /\ Csegment \in Nat /\ runs \in Seq(Piece)
  BY DEF HunkTypes
<1>2. n \in Nat /\ d \in Seq(Bytes) /\ Len(d) = n /\ r \in Piece
  BY NewPiece
<1>3. r.at = Csegment /\ r.data = d /\ org = Csegment
  OBVIOUS
<1>4. g = FI_temp \o d /\ Seekback' = Seekback /\ Seglen' = Seglen + Len(d)
  BY DEF GenerateRas
<1>5. ASSUME Fits(rs)
      PROVE  \E hs, s, m, o : OpenHunk(g, hs, s, m, o, Seekback', Seglen', Csegment + n, rs)
  <2>0. IsAppended(rs, runs, r)
    BY DEF IsAppended
  <2>1. runs # <<>> /\ Fits(runs)
    <3> HIDE DEF rs
    <3> QED
      BY <1>1, <1>2, <1>5, <2>0, AppendedFits DEF RasSoFar
  <2>2. PICK hs, s, m, o : OpenHunk(FI_temp, hs, s, m, o, Seekback, Seglen, org, runs)
    BY <2>1 DEF RasSoFar
  <2> HIDE DEF d
  <2>3. DataBehind(FI_temp, d, g) /\ g \in Seq(Bytes)
    BY <1>1, <1>2, <1>4, Joined DEF DataBehind
  <2> HIDE DEF g, rs
  <2>4. DataBehind(FI_temp, r.data, g) /\ OpenHunk(FI_temp, hs, s, m, o, Seekback, Seglen, r.at, runs)
    BY <1>3, <2>2, <2>3
  <2>5. \E gs, t :
          OpenHunk(g, gs, t, m, o, Seekback, Seglen + Len(r.data), r.at + Len(r.data), Append(runs, r))
    BY <1>1, <1>2, <2>3, <2>4, PieceContinues
  <2>6. Seglen + Len(r.data) = Seglen' /\ r.at + Len(r.data) = Csegment + n /\ Seekback = Seekback'
    BY <1>2, <1>3, <1>4
  <2> QED
    BY <2>5, <2>6 DEF rs
<1> QED
  BY <1>2, <1>4, <1>5

\* Every step of the assembler keeps the file of format 2 one of hunks.
LEMMA AssembleRas ==
  ASSUME HunkTypes, RasSoFar, Assemble
  PROVE  RasSoFar'
<1> DEFINE Filed(g, b, n, e, rs) ==
             \E hs, s, m, o : OpenHunk(g, hs, s, m, o, b, n, e, rs)
<1>0. dasm = "assembling"
  BY DEF Assemble, v_org, AskForPass, Generate, GenerateObscure, GenerateReversed,
     Complete, NextPass, GiveUp, Statement
<1>1. CASE Generate
  <2>1. PICK n \in Lengths :
          /\ IF Redo THEN UNCHANGED <<FI_temp, Fisclear, org, Seglen, Seekback, runs>>
             ELSE /\ IF F_format = "RAS" THEN GenerateRas(Data(n)) ELSE GenerateFlat(Data(n))
                  /\ Fisclear' = FALSE
                  /\ org' = Csegment + n
                  /\ runs' = Append(runs, [at |-> Csegment, data |-> Data(n), fill |-> OrgFill])
          /\ dasm' = IF Csegment + n > maxFileSize THEN "aborted" ELSE dasm
    BY <1>1 DEF Generate
  <2>2. F_format' = F_format /\ Redo' = Redo /\ dasm' # "complete" /\ dasm # "complete"
    BY <1>0, <1>1, <2>1 DEF Generate
  <2>3. CASE Redo
    <3>1. UNCHANGED <<F_format, Fisclear, runs, FI_temp, Redo, org, Seglen, Seekback>>
      BY <2>1, <2>2, <2>3
    <3> QED
      BY <2>2, <3>1 DEF RasSoFar
  <2>4. CASE ~Redo /\ F_format = "RAS"
    <3> DEFINE r  == [at |-> Csegment, data |-> Data(n), fill |-> OrgFill]
               rs == Append(runs, r)
    <3>1. /\ runs' = rs /\ org' = Csegment + n /\ ~Fisclear' /\ GenerateRas(Data(n))
      BY <2>1, <2>4
    <3>2. /\ n \in Nat /\ Data(n) \in Seq(Bytes) /\ Len(Data(n)) = n /\ r \in Piece
          /\ runs \in Seq(Piece) /\ Csegment \in Nat
      BY NewPiece DEF HunkTypes
    <3>3. r.at = Csegment /\ r.data = Data(n)
      OBVIOUS
    <3>4. /\ Fisclear \/ org # Csegment => Seglen' = n
          /\ ~(Fisclear \/ org # Csegment) => Seglen' = Seglen + n
          /\ Fits(rs) => Filed(FI_temp', Seekback', Seglen', Csegment + n, rs)
      <4>1. CASE Fisclear \/ org # Csegment
        BY <2>2, <2>4, <3>1, <4>1, RasBegins
      <4>2. CASE ~(Fisclear \/ org # Csegment)
        BY <2>2, <2>4, <3>1, <4>2, RasContinues
      <4> QED
        BY <4>1, <4>2
    <3> HIDE DEF r, rs, Filed
    <3>5. /\ rs \in Seq(Piece) /\ rs # <<>> /\ Len(rs) = Len(runs) + 1 /\ Len(runs) \in Nat
          /\ EndAt(rs, Len(rs)) = Csegment + n
          /\ Len(rs) \in DOMAIN rs /\ Adjacent(rs, Len(rs)) /\ rs[Len(rs)] = r
          /\ \A i \in DOMAIN runs : /\ i \in DOMAIN rs /\ rs[i] = runs[i]
                                    /\ Adjacent(runs, i) /\ Csegment = EndAt(runs, Len(runs))
                                         => Adjacent(rs, i)
      <4>1. IsAppended(rs, runs, r)
        BY DEF IsAppended, rs
      <4>2. /\ rs \in Seq(Piece) /\ rs # <<>> /\ Len(rs) = Len(runs) + 1 /\ Len(runs) \in Nat
            /\ EndAt(rs, Len(rs)) = r.at + Len(r.data)
            /\ Len(rs) \in DOMAIN rs /\ Adjacent(rs, Len(rs)) /\ rs[Len(rs)] = r
            /\ \A i \in DOMAIN runs : /\ i \in DOMAIN rs /\ rs[i] = runs[i]
                                      /\ Adjacent(runs, i) /\ r.at = EndAt(runs, Len(runs))
                                           => Adjacent(rs, i)
        BY <3>2, <4>1, AppendedFits
      <4>3. r.at + Len(r.data) = Csegment + n /\ r.at = Csegment
        BY <3>2, <3>3
      <4> QED
        BY <4>2, <4>3
    <3>6. \E i \in DOMAIN rs : Adjacent(rs, i) /\ Seglen' = Csegment + n - rs[i].at
      <4>1. CASE Fisclear \/ org # Csegment
        <5>1. Seglen' = Csegment + n - rs[Len(rs)].at
          BY <3>2, <3>3, <3>4, <3>5, <4>1
        <5> QED
          BY <3>5, <5>1
      <4>2. CASE ~(Fisclear \/ org # Csegment)
        <5>1. runs # <<>> /\ org = EndAt(runs, Len(runs))
              /\ \E i \in DOMAIN runs : Adjacent(runs, i) /\ Seglen = org - runs[i].at
          BY <2>4, <4>2 DEF RasSoFar
        <5>2. PICK i \in DOMAIN runs : Adjacent(runs, i) /\ Seglen = org - runs[i].at
          BY <5>1
        <5>3. i \in DOMAIN rs /\ rs[i] = runs[i] /\ Adjacent(rs, i)
          BY <3>5, <4>2, <5>1, <5>2
        <5>4. runs[i].at \in Nat
          BY <3>2, PieceTypes
        <5>5. Seglen' = Csegment + n - rs[i].at
          BY <3>2, <3>4, <4>2, <5>2, <5>3, <5>4
        <5> QED
          BY <5>3, <5>5
      <4> QED
        BY <4>1, <4>2
    <3>7. Fits(runs') => \E hs, s, m, o : OpenHunk(FI_temp', hs, s, m, o, Seekback', Seglen', org', runs')
      BY <3>1, <3>4 DEF Filed
    <3>8. /\ runs' # <<>> /\ org' = EndAt(runs', Len(runs'))
          /\ \E i \in DOMAIN runs' : Adjacent(runs', i) /\ Seglen' = org' - runs'[i].at
      <4>1. runs' # <<>> /\ org' = EndAt(runs', Len(runs'))
        BY <3>1, <3>5
      <4>2. PICK i \in DOMAIN rs : Adjacent(rs, i) /\ Seglen' = Csegment + n - rs[i].at
        BY <3>6
      <4>3. i \in DOMAIN runs' /\ Adjacent(runs', i) /\ Seglen' = org' - runs'[i].at
        <5>1. (Csegment + n) - rs[i].at = Csegment + n - rs[i].at
          <6>1. rs[i].at \in Nat
            BY <3>5, <4>2, PieceTypes
          <6> QED
            BY <3>2, <6>1
        <5> QED
          BY <3>1, <4>2, <5>1
      <4> QED
        BY <4>1, <4>3
    <3>9. ~Fisclear' /\ dasm' # "complete"
      BY <2>2, <3>1
    <3> QED
      BY <3>7, <3>8, <3>9 DEF RasSoFar
  <2>5. CASE F_format # "RAS"
    BY <2>2, <2>5 DEF RasSoFar
  <2> QED
    BY <2>3, <2>4, <2>5
<1>2. CASE GenerateObscure
  <2>1. /\ UNCHANGED <<F_format, runs, FI_temp, org, Seglen, Seekback, dasm>> /\ Redo' /\ Fisclear
        /\ ~Fisclear'
    BY <1>2 DEF GenerateObscure, Obscure, static
  <2> QED
    BY <1>0, <2>1 DEF RasSoFar
<1>3. CASE NextPass
  BY <1>3 DEF NextPass, RasSoFar
<1>4. CASE v_org \/ AskForPass \/ GenerateReversed \/ GiveUp
  <2>1. /\ UNCHANGED <<F_format, Fisclear, runs, org, FI_temp, Seglen, Seekback>>
        /\ Redo' = Redo \/ Redo' = TRUE
        /\ dasm' # "complete"
    BY <1>0, <1>4 DEF v_org, AskForPass, GenerateReversed, GiveUp, static
  <2> QED
    BY <1>0, <2>1 DEF RasSoFar
<1>5. CASE Complete
  <2>1. /\ UNCHANGED <<F_format, Fisclear, runs, org, Seglen, Seekback, Redo>>
        /\ ~Redo /\ dasm' = "complete"
        /\ F_format = "RAS" => FI_temp' = Patched(FI_temp)
    BY <1>5 DEF Complete, closegenerate, static
  <2>2. F_format = "RAS" /\ runs # <<>> /\ Fits(runs) =>
          \E hs, s : Hunked(FI_temp', hs, s, Len(hs)) /\ Len(hs) > 0 /\ Loaded(hs) = Loaded(runs)
    BY <1>0, <2>1, LengthPatched
  <2> QED
    BY <2>1, <2>2 DEF RasSoFar
<1> QED
  BY <1>1, <1>2, <1>3, <1>4, <1>5 DEF Assemble

\* The invariant with it.
HunkInv == FileInv /\ RasSoFar

\* It holds at the start, and every step keeps it.
LEMMA HunkInit == InitAll => HunkInv
<1>1. InitAll => RasSoFar
  BY DEF InitAll, Init, RasSoFar
<1> QED
  BY <1>1, FileInit DEF HunkInv

\* Every step keeps it.
LEMMA HunkStep == HunkInv /\ [Next]_vars => HunkInv'
<1> SUFFICES ASSUME HunkInv, [Next]_vars PROVE HunkInv'
  OBVIOUS
<1>1. FileInv /\ RasSoFar /\ HunkTypes
  BY DEF HunkInv, FileInv
<1>2. FileInv'
  BY <1>1, FileStep
<1>3. CASE Assemble
  <2>1. RasSoFar'
    BY <1>1, <1>3, AssembleRas
  <2> QED
    BY <1>2, <2>1 DEF HunkInv
<1>4. CASE UNCHANGED dasmVars
  <2>1. RasSoFar'
    BY <1>1, <1>4 DEF dasmVars, static, origin, RasSoFar
  <2> QED
    BY <1>2, <2>1 DEF HunkInv
<1>5. UNCHANGED dasmVars \/ Assemble
  BY DEF Next, Start, Open, CopyHunk, NextHunk, WriteRecord, NextHeader, vars
<1> QED
  BY <1>3, <1>4, <1>5

\* The hypothesis of HunksCorrect, in terms of the ends of the pieces.
LEMMA FittingRuns ==
  ASSUME runs \in Seq(Piece), HunksFit
  PROVE  Fits(runs)
<1>1. SUFFICES ASSUME NEW i \in DOMAIN runs, NEW j \in DOMAIN runs, i <= j,
                      \A k \in i .. j - 1 : runs[k + 1].at = EndAt(runs, k)
               PROVE  EndAt(runs, j) - runs[i].at < Word
  BY DEF Fits
<1>2. \A k \in i .. j - 1 : runs[k + 1].at = runs[k].at + Len(runs[k].data)
  BY <1>1 DEF EndAt
<1>3. runs[j].at + Len(runs[j].data) - runs[i].at < Word
  BY <1>1, <1>2 DEF HunksFit
<1>4. runs[i].at \in Nat /\ runs[j].at \in Nat /\ Len(runs[j].data) \in Nat
  BY PieceTypes
<1> QED
  BY <1>3, <1>4 DEF EndAt

\* Whenever an assembly in format 2 is complete and has generated something, and no stretch
\* of it is too long for the length field, its file consists of whole hunks, and loading them
\* gives every address the byte that generate() was last asked to put there, whatever the
\* origins, the order of the pieces and the passes before.
THEOREM HunkFileCorrect == Spec => []HunksCorrect
<1>1. HunkInv => HunksCorrect
  <2>1. SUFFICES ASSUME HunkInv, dasm = "complete", F_format = "RAS", runs # <<>>, HunksFit
                 PROVE  WholeHunks(In) /\ Loaded(HunksOf(In)) = Memory
    BY DEF HunksCorrect
  <2>2. RasSoFar /\ FI_temp \in Seq(Bytes)
    BY <2>1 DEF HunkInv, FileInv, HunkTypes
  <2>3. Fits(runs)
    <3>1. runs \in Seq(Piece)
      BY <2>1 DEF HunkInv, FileInv, HunkTypes
    <3> QED
      BY <2>1, <3>1, FittingRuns
  <2>4. PICK hs, s : Hunked(FI_temp, hs, s, Len(hs)) /\ Loaded(hs) = Loaded(runs)
    BY <2>1, <2>2, <2>3 DEF RasSoFar
  <2>5. WholeHunks(FI_temp) /\ HunksOf(FI_temp) = hs
    BY <2>2, <2>4, FileRead
  <2> QED
    BY <2>4, <2>5 DEF In, Memory
<1> QED
  BY <1>1, HunkInit, HunkStep, PTL DEF Spec

-----------------------------------------------------------------------------
(***************************************************************************)
(* What the converters read                                                *)
(***************************************************************************)
\* In format 2 the header of hunk i is before its data, which begin after position p.
HeaderAt(h, p) == p >= 4 /\ Getw(In, p - 4) = h.at /\ Getw(In, p - 2) = Len(h.data)

\* The file has the hunks hs, and the data of each begin after position b of it; in formats 1
\* and 3 all of it but the address counts as one hunk.
Source(hs, b) ==
  /\ hs \in Seq(Hunk) /\ Len(hs) > 0
  /\ \A i \in DOMAIN hs : /\ b[i] \in Nat /\ b[i] + Len(hs[i].data) <= Len(In)
                          /\ \A j \in DOMAIN hs[i].data : In[b[i] + j] = hs[i].data[j]
  /\ b[Len(hs)] + Len(hs[Len(hs)].data) = Len(In)
  /\ F_format = "RAS" => /\ b[1] = 4
                         /\ \A i \in DOMAIN hs : HeaderAt(hs[i], b[i])
                         /\ \A i \in 1 .. Len(hs) - 1 : b[i + 1] = b[i] + Len(hs[i].data) + 4
  /\ F_format # "RAS" => Len(hs) = 1
  /\ F_format = "DEFAULT" => b[1] = 2 /\ Getw(In, 0) = hs[1].at
  /\ F_format = "RAW" => b[1] = 0 /\ hs[1].at = 0

\* The memory that the file means.
Image == CASE F_format = "RAS"     -> Memory
           [] F_format = "DEFAULT" -> Loaded(<<[at |-> runs[1].at, data |-> Flattened(runs)]>>)
           [] F_format = "RAW"     -> Loaded(<<[at |-> 0, data |-> Flattened(runs)]>>)

\* The parts of one hunk.
LEMMA SourceParts ==
  ASSUME HunkTypes, NEW hs, NEW b, Source(hs, b), NEW i \in DOMAIN hs
  PROVE  /\ i \in Nat /\ i >= 1 /\ i <= Len(hs) /\ Len(hs) \in Nat /\ Len(In) \in Nat
         /\ In \in Seq(Bytes) /\ DOMAIN hs = 1 .. Len(hs)
         /\ hs[i].at \in 0 .. Word - 1 /\ hs[i].at \in Nat
         /\ hs[i].data \in Seq(Bytes) /\ Len(hs[i].data) \in Nat
         /\ DOMAIN hs[i].data = 1 .. Len(hs[i].data)
         /\ hs[i] = [at |-> hs[i].at, data |-> hs[i].data]
         /\ b[i] \in Nat /\ b[i] + Len(hs[i].data) <= Len(In)
<1>1. hs \in Seq(Hunk) /\ i \in 1 .. Len(hs) /\ Len(hs) \in Nat /\ DOMAIN hs = 1 .. Len(hs)
  BY DEF Source
<1>2. hs[i] \in Hunk
  BY <1>1
<1>3. /\ hs[i].at \in 0 .. Word - 1 /\ hs[i].data \in Seq(Bytes)
      /\ hs[i] = [at |-> hs[i].at, data |-> hs[i].data]
  BY <1>2 DEF Hunk
<1>4. hs[i].at \in Nat /\ Len(hs[i].data) \in Nat /\ DOMAIN hs[i].data = 1 .. Len(hs[i].data)
  BY <1>3, WordIs
<1>5. b[i] \in Nat /\ b[i] + Len(hs[i].data) <= Len(In)
  BY DEF Source
<1>6. In \in Seq(Bytes) /\ Len(In) \in Nat
  BY ReadTypes
<1> QED
  BY <1>1, <1>3, <1>4, <1>5, <1>6

\* A file of format 2 that has hunks is such a source.
LEMMA HunksAreSource ==
  ASSUME HunkTypes, F_format = "RAS", NEW hs, NEW s, Hunked(FI_temp, hs, s, Len(hs)), Len(hs) > 0
  PROVE  \E b : Source(hs, b)
<1> DEFINE b == [i \in DOMAIN hs |-> s[i] + 4]
           m == Len(hs)
<1>1. In \in Seq(Bytes) /\ FI_temp = In /\ Len(In) \in Nat
  BY ReadTypes DEF In
<1>2. hs \in Seq(Hunk) /\ m \in Nat /\ m > 0 /\ DOMAIN hs = 1 .. m /\ 1 \in DOMAIN hs /\ m \in DOMAIN hs
  BY DEF Hunked
<1>3. s[1] = 0 /\ s[m + 1] = Len(In)
  BY <1>1 DEF Hunked
<1>4. ASSUME NEW i \in DOMAIN hs
      PROVE  /\ s[i] \in Nat /\ s[i + 1] \in Nat /\ s[i + 1] <= Len(In) /\ Len(hs[i].data) \in Nat
             /\ s[i + 1] = s[i] + 4 + Len(hs[i].data) /\ i \in Nat
             /\ hs[i].data \in Seq(Bytes)
             /\ Getw(In, s[i]) = hs[i].at /\ Getw(In, s[i] + 2) = Len(hs[i].data)
             /\ \A j \in DOMAIN hs[i].data : In[s[i] + 4 + j] = hs[i].data[j]
             /\ b[i] = s[i] + 4
  <2>1. /\ s[i] \in Nat /\ s[i + 1] \in Nat /\ s[i + 1] <= Len(In) /\ Len(hs[i].data) \in Nat
        /\ s[i + 1] = s[i] + 4 + Len(hs[i].data) /\ i \in Nat
        /\ hs[i].data \in Seq(Bytes) /\ i <= Len(hs)
    BY <1>1, HunkParts
  <2>2. /\ Getw(In, s[i]) = hs[i].at /\ Getw(In, s[i] + 2) = Len(hs[i].data)
        /\ \A j \in DOMAIN hs[i].data : In[s[i] + 4 + j] = hs[i].data[j]
    BY <1>1, <2>1 DEF Hunked
  <2> QED
    BY <2>1, <2>2
<1> HIDE DEF b, m
<1>5. ASSUME NEW i \in DOMAIN hs
      PROVE  /\ b[i] \in Nat /\ b[i] + Len(hs[i].data) = s[i + 1]
             /\ b[i] + Len(hs[i].data) <= Len(In)
             /\ \A j \in DOMAIN hs[i].data : In[b[i] + j] = hs[i].data[j]
             /\ HeaderAt(hs[i], b[i])
  <2>1. b[i] \in Nat /\ b[i] + Len(hs[i].data) = s[i + 1] /\ b[i] - 4 = s[i] /\ b[i] - 2 = s[i] + 2
        /\ b[i] >= 4
    BY <1>4
  <2>2. \A j \in DOMAIN hs[i].data : In[b[i] + j] = hs[i].data[j]
    BY <1>4
  <2>3. HeaderAt(hs[i], b[i])
    BY <1>4, <2>1 DEF HeaderAt
  <2> QED
    BY <1>4, <2>1, <2>2, <2>3
<1>6. ASSUME NEW i \in 1 .. m - 1 PROVE b[i + 1] = b[i] + Len(hs[i].data) + 4
  <2> DEFINE k == i + 1
  <2>1. i \in DOMAIN hs /\ k \in DOMAIN hs
    BY <1>2
  <2>2. b[i] + Len(hs[i].data) = s[k]
    BY <1>5, <2>1
  <2> HIDE DEF k
  <2>3. b[k] = s[k] + 4
    BY <1>4, <2>1
  <2> QED
    BY <2>2, <2>3 DEF k
<1>7. b[1] = 4 /\ b[m] + Len(hs[m].data) = Len(In)
  BY <1>2, <1>3, <1>4, <1>5
<1>8. Source(hs, b)
  BY <1>2, <1>5, <1>6, <1>7 DEF Source, m
<1> QED
  BY <1>8

\* The flat image consists of bytes.
LEMMA FlattenedTypes ==
  ASSUME NEW rs \in Seq(Piece), rs # <<>>, Ascending(rs), Covered(rs)
  PROVE  Flattened(rs) \in Seq(Bytes)
<1> DEFINE e == EndAt(rs, Len(rs))
           r == [at |-> e, data |-> <<>>, fill |-> 0]
<1>1. Len(rs) \in DOMAIN rs
  OBVIOUS
<1>2. e \in Nat
  BY <1>1, PieceTypes
<1>3. <<>> \in Seq(Bytes) /\ 0 \in Bytes
  BY BytesAre
<1> HIDE DEF e
<1>4. r \in Piece /\ r.at >= e
  BY <1>2, <1>3 DEF Piece
<1> HIDE DEF r
<1> QED
  BY <1>4, FlattenedAppended DEF e

\* A file of format 1 or 3 is a source of one hunk.
LEMMA FlatIsSource ==
  ASSUME HunkTypes, FlatSoFar, F_format # "RAS", runs # <<>>,
         NEW a, a = IF F_format = "DEFAULT" THEN runs[1].at ELSE 0
  PROVE  LET h == [at |-> a % Word, data |-> Flattened(runs)]
         IN /\ Source(<<h>>, <<IF F_format = "DEFAULT" THEN 2 ELSE 0>>)
            /\ Flattened(runs) \in Seq(Bytes) /\ a \in Nat
<1> DEFINE d == Flattened(runs)
           h == [at |-> a % Word, data |-> d]
           hs == <<h>>
           p == IF F_format = "DEFAULT" THEN 2 ELSE 0
           b == <<p>>
           z == IF F_format = "DEFAULT" THEN Putw(runs[1].at) ELSE <<>>
<1>1. runs \in Seq(Piece) /\ Ascending(runs) /\ Covered(runs) /\ In = FlatFile(runs)
  BY DEF FlatSoFar, HunkTypes, In
<1>2. d \in Seq(Bytes)
  BY <1>1, FlattenedTypes
<1>3. runs[1].at \in Nat
  <2>1. 1 \in DOMAIN runs
    BY <1>1
  <2> QED
    BY <1>1, <2>1, PieceTypes
<1>4. a \in Nat /\ a % Word \in 0 .. Word - 1
  <2>1. a \in Nat
    BY <1>3
  <2> QED
    BY <2>1, WordIs
<1>5. In = z \o d
  BY <1>1 DEF FlatFile
<1>6. z \in Seq(Bytes) /\ Len(z) = p /\ p \in Nat
  <2>1. Putw(runs[1].at) \in Seq(Bytes) /\ Len(Putw(runs[1].at)) = 2
    BY <1>3, PutwTypes
  <2>2. <<>> \in Seq(Bytes) /\ Len(<<>>) = 0
    OBVIOUS
  <2>3. CASE F_format = "DEFAULT"
    <3>1. z = Putw(runs[1].at) /\ p = 2
      BY <2>3
    <3> HIDE DEF z, p
    <3> QED
      BY <2>1, <3>1
  <2>4. CASE F_format # "DEFAULT"
    BY <2>4
  <2> QED
    BY <2>3, <2>4
<1>7. F_format = "DEFAULT" => /\ p = 2 /\ z[1] = a % Byte /\ z[2] = (a \div Byte) % Byte
  BY DEF Putw
<1>8. F_format # "DEFAULT" => p = 0 /\ F_format = "RAW" /\ a = 0
  BY FormatIs
<1> HIDE DEF d, z, p
<1>9. /\ Len(In) = p + Len(d) /\ \A x \in 1 .. p : In[x] = z[x]
      /\ \A j \in 1 .. Len(d) : In[p + j] = d[j]
  BY <1>2, <1>5, <1>6, Joined
<1>10. F_format = "DEFAULT" => Getw(In, 0) = a % Word
  <2>1. SUFFICES ASSUME F_format = "DEFAULT" PROVE Getw(In, 0) = a % Word
    OBVIOUS
  <2>2. In[1] = a % Byte /\ In[2] = (a \div Byte) % Byte
    BY <1>7, <1>9, <2>1
  <2>3. Getw(In, 0) = (a % Byte) + Byte * ((a \div Byte) % Byte)
    <3>1. Getw(In, 0) = In[1] + Byte * In[2]
      BY DEF Getw
    <3> QED
      BY <2>2, <3>1
  <2> QED
    BY <1>4, <2>3, WordOfBytes
<1>11. F_format # "DEFAULT" => a % Word = 0
  BY <1>8, WordIs, SmallRemainder
<1>12. h.at = a % Word /\ h.data = d /\ h \in Hunk
  BY <1>2, <1>4 DEF Hunk
<1> HIDE DEF h
<1>13. hs \in Seq(Hunk) /\ Len(hs) = 1 /\ DOMAIN hs = {1} /\ hs[1] = h /\ b[1] = p
  BY <1>12
<1> HIDE DEF hs, b
<1>14. Len(d) \in Nat /\ DOMAIN d = 1 .. Len(d)
  BY <1>2
<1>15. F_format = "DEFAULT" => b[1] = 2 /\ Getw(In, 0) = hs[1].at
  BY <1>7, <1>10, <1>12, <1>13
<1>16. F_format = "RAW" => b[1] = 0 /\ hs[1].at = 0
  BY <1>8, <1>11, <1>12, <1>13
<1>17. Source(hs, b)
  <2>1. /\ b[1] \in Nat /\ b[1] + Len(hs[1].data) = Len(In)
        /\ \A j \in DOMAIN hs[1].data : In[b[1] + j] = hs[1].data[j]
    BY <1>6, <1>9, <1>12, <1>13, <1>14
  <2>2. \A i \in DOMAIN hs : i = 1
    BY <1>13
  <2>3. /\ b[1] + Len(hs[1].data) <= Len(In)
    BY <1>6, <1>9, <1>14, <2>1
  <2>4. \A i \in DOMAIN hs : /\ b[i] \in Nat /\ b[i] + Len(hs[i].data) <= Len(In)
                            /\ \A j \in DOMAIN hs[i].data : In[b[i] + j] = hs[i].data[j]
    BY <2>1, <2>2, <2>3
  <2> QED
    BY <1>13, <1>15, <1>16, <2>1, <2>4 DEF Source
<1> QED
  BY <1>2, <1>4, <1>17 DEF hs, b, h, p, d

\* One piece alone; of its address only the word counts.
LEMMA LoadedAlone ==
  ASSUME NEW a \in Nat, NEW c \in Nat, a % Word = c % Word, NEW d \in Seq(Bytes)
  PROVE  Loaded(<<[at |-> a, data |-> d]>>) = Loaded(<<[at |-> c, data |-> d]>>)
<1> DEFINE none == <<>>
           one(x) == <<[at |-> x, data |-> d]>>
<1>1. Loadable(none) /\ Len(none) = 0
  BY DEF Loadable
<1>2. ASSUME NEW x \in Nat
      PROVE  /\ Loadable(one(x)) /\ Len(one(x)) = 1 /\ one(x)[1].at = x /\ one(x)[1].data = d
  BY DEF Loadable
<1>3. ASSUME NEW x \in Nat
      PROVE  Overlay(Loaded(none), x, d, Loaded(one(x)))
  <2>1. /\ Loadable(one(x)) /\ Len(one(x)) = 1 /\ one(x)[1].at = x /\ one(x)[1].data = d
    BY <1>2
  <2> DEFINE qs == one(x)
  <2> HIDE DEF one, none
  <2>2. Len(qs) = Len(none) + 1 /\ \A i \in 1 .. Len(none) : qs[i] = none[i]
    BY <1>1, <2>1
  <2>3. Overlay(Loaded(none), qs[Len(qs)].at, qs[Len(qs)].data, Loaded(qs))
    BY <1>1, <2>1, <2>2, LoadedAppended
  <2> QED
    BY <2>1, <2>3
<1> HIDE DEF one, none
<1>4. Loaded(one(a)) = Loaded(one(c))
  BY <1>3, SameEffect
<1> QED
  BY <1>4 DEF one

\* When something was generated, the file is a source of the memory that it means.
LEMMA SourceExists ==
  ASSUME HunkInv, dasm = "complete", runs # <<>>, F_format = "RAS" => HunksFit
  PROVE  \E hs, b : Source(hs, b) /\ Loaded(hs) = Image
<1>1. HunkTypes /\ RasSoFar /\ FlatSoFar /\ FI_temp \in Seq(Bytes) /\ runs \in Seq(Piece)
  BY DEF HunkInv, FileInv, HunkTypes
<1>2. CASE F_format = "RAS"
  <2>1. Fits(runs)
    BY <1>1, <1>2, FittingRuns
  <2>2. PICK hs, s : /\ Hunked(FI_temp, hs, s, Len(hs)) /\ Len(hs) > 0
                     /\ Loaded(hs) = Loaded(runs)
    BY <1>1, <1>2, <2>1 DEF RasSoFar
  <2>3. PICK b : Source(hs, b)
    BY <1>1, <1>2, <2>2, HunksAreSource
  <2>4. Image = Loaded(runs)
    BY <1>2 DEF Image, Memory
  <2> QED
    BY <2>2, <2>3, <2>4
<1>3. CASE F_format # "RAS"
  <2> DEFINE a == IF F_format = "DEFAULT" THEN runs[1].at ELSE 0
             d == Flattened(runs)
             hs == <<[at |-> a % Word, data |-> d]>>
  <2>1. /\ Source(hs, <<IF F_format = "DEFAULT" THEN 2 ELSE 0>>) /\ d \in Seq(Bytes) /\ a \in Nat
    BY <1>1, <1>3, FlatIsSource
  <2>2. Image = Loaded(<<[at |-> a, data |-> d]>>)
    BY <1>1, <1>3, FormatIs DEF Image
  <2> HIDE DEF a, d
  <2>3. Loaded(hs) = Loaded(<<[at |-> a, data |-> d]>>)
    <3> DEFINE c == a % Word
    <3>1. c \in Nat /\ a % Word = c % Word
      <4>1. c \in 0 .. Word - 1
        BY <2>1, WordIs
      <4> HIDE DEF c
      <4>2. c \in Nat /\ c % Word = c
        BY <4>1, WordIs, SmallRemainder
      <4> QED
        BY <4>2 DEF c
    <3> HIDE DEF c
    <3>2. Loaded(<<[at |-> a, data |-> d]>>) = Loaded(<<[at |-> c, data |-> d]>>)
      BY <2>1, <3>1, LoadedAlone
    <3> QED
      BY <3>2 DEF c
  <2> QED
    BY <2>1, <2>2, <2>3
<1> QED
  BY <1>2, <1>3

-----------------------------------------------------------------------------
(***************************************************************************)
(* What ftohex writes                                                      *)
(***************************************************************************)
LineOf(r)   == [at |-> Getw(r.addr, 0), data |-> r.data]
LinesOf(rs) == [i \in DOMAIN rs |-> LineOf(rs[i])]

\* A line is not empty or too long, and adds up to 0.
HexLine(r) ==
  /\ Len(r.data) \in 1 .. PERLINE
  /\ (Len(r.data) + r.addr[1] + r.addr[2] + Sum(r.data) + r.check) % Byte = 0

\* The hunks before the k-th, and j bytes of that.
Part(hs, k, j) ==
  [i \in 1 .. k |-> IF i < k THEN hs[i]
                    ELSE [at |-> hs[k].at, data |-> SubSeq(hs[k].data, 1, j)]]

\* What is negated in the checksum is added up again.
LEMMA ChecksumIs ==
  ASSUME NEW n \in Nat, NEW t \in Nat, NEW a \in Nat
  PROVE  (n + (a % Byte) + ((a \div Byte) % Byte) + t
            + ((0 - (n + (a \div Byte) + (a % Byte) + t)) % Byte)) % Byte = 0
<1> DEFINE q == a \div Byte
           r == a % Byte
           u == q % Byte
           s == 0 - (n + q + r + t)
           c == s % Byte
           k == n + r + u + t
           v == u - q
           e == 0 - q
<1>1. Byte \in Nat /\ Byte > 0
  BY BytesAre
<1>2. q \in Nat /\ r \in Bytes /\ r \in Nat
  BY Remainder, BytesAre
<1> HIDE DEF q, r
<1>3. u \in Bytes /\ u \in Nat
  BY <1>2, Remainder, BytesAre
<1>4. s \in Int
  BY <1>2
<1>5. u % Byte = q % Byte
  BY <1>1, <1>2, RemainderOfRemainder
<1> HIDE DEF u
<1>6. v \in Int /\ k \in Int /\ e \in Int /\ s + k = v /\ u + e = v /\ q + e = 0
  BY <1>2, <1>3
<1> HIDE DEF s
<1>7. c \in Int /\ c % Byte = s % Byte
  BY <1>1, <1>4, RemainderOfRemainder
<1> HIDE DEF c, k, v, e
<1>8. (c + k) % Byte = (s + k) % Byte
  <2>1. c \in Int /\ s \in Int /\ k \in Int
    BY <1>4, <1>6, <1>7
  <2>2. c % Byte = s % Byte
    BY <1>7
  <2> QED
    BY <1>1, <2>1, <2>2, SameRemainder
<1>9. (u + e) % Byte = (q + e) % Byte
  <2>1. u \in Int /\ q \in Int /\ e \in Int
    BY <1>2, <1>3, <1>6
  <2> QED
    BY <1>1, <1>5, <2>1, SameRemainder
<1>10. 0 % Byte = 0
  <2>1. 0 \in 0 .. Byte - 1
    BY <1>1
  <2> QED
    BY <1>1, <2>1, SmallRemainder
<1>11. (c + k) % Byte = 0
  BY <1>6, <1>8, <1>9, <1>10
<1>12. c + k = n + r + u + t + c
  BY <1>2, <1>3, <1>7 DEF k
<1> QED
  BY <1>11, <1>12 DEF c, s, u, q, r

\* A record of one line or less adds up to 0 and stands for its bytes at its address.
LEMMA RecordIs ==
  ASSUME NEW a \in Nat, NEW d \in Seq(Bytes), Len(d) \in 1 .. PERLINE
  PROVE  /\ HexLine(Record(a, d))
         /\ LineOf(Record(a, d)).at = a % Word /\ LineOf(Record(a, d)).data = d
<1> DEFINE r == Record(a, d)
           n == Len(d)
           t == Sum(d)
<1>1. n \in Nat /\ t \in Nat
  BY SumTypes
<1>2. /\ r.addr = Putw(a) /\ r.data = d
      /\ r.check = (0 - (n + (a \div Byte) + (a % Byte) + t)) % Byte
  BY DEF Record
<1>3. r.addr[1] = a % Byte /\ r.addr[2] = (a \div Byte) % Byte
  BY <1>2 DEF Putw
<1> HIDE DEF r, n, t
<1>4. (n + (a % Byte) + ((a \div Byte) % Byte) + t
         + ((0 - (n + (a \div Byte) + (a % Byte) + t)) % Byte)) % Byte = 0
  BY <1>1, ChecksumIs
<1>5. HexLine(r)
  BY <1>2, <1>3, <1>4 DEF HexLine, n, t
<1>6. Getw(r.addr, 0) = a % Word
  <2>1. Getw(r.addr, 0) = r.addr[1] + Byte * r.addr[2]
    BY DEF Getw
  <2> QED
    BY <1>3, <2>1, WordOfBytes
<1> QED
  BY <1>2, <1>5, <1>6 DEF LineOf, r

\* The lines can be loaded.
LEMMA LinesLoadable ==
  ASSUME NEW rs \in Seq(RecordLine)
  PROVE  Loadable(LinesOf(rs)) /\ Len(LinesOf(rs)) = Len(rs)
<1> DEFINE ls == LinesOf(rs)
           n  == Len(rs)
<1>1. n \in Nat /\ DOMAIN rs = 1 .. n
  OBVIOUS
<1>2. ls = [i \in 1 .. n |-> LineOf(rs[i])]
  BY <1>1 DEF LinesOf
<1> HIDE DEF ls, n
<1>3. Len(ls) = n /\ DOMAIN ls = 1 .. n
  BY <1>1, <1>2
<1>4. ASSUME NEW i \in 1 .. n
      PROVE  ls[i].at \in Nat /\ ls[i].data \in Seq(Bytes)
  <2>1. rs[i] \in RecordLine
    BY <1>1
  <2>2. rs[i].addr[1] \in Bytes /\ rs[i].addr[2] \in Bytes /\ rs[i].data \in Seq(Bytes)
    BY <2>1 DEF RecordLine
  <2>3. Getw(rs[i].addr, 0) = rs[i].addr[1] + Byte * rs[i].addr[2]
    BY DEF Getw
  <2>4. Getw(rs[i].addr, 0) \in 0 .. Word - 1
    BY <2>2, <2>3, WordIs
  <2>5. Getw(rs[i].addr, 0) \in Nat
    BY <2>4, WordIs
  <2>6. ls[i].at = Getw(rs[i].addr, 0) /\ ls[i].data = rs[i].data
    BY <1>2 DEF LineOf
  <2> QED
    BY <2>2, <2>5, <2>6
<1> QED
  BY <1>1, <1>3, <1>4 DEF Loadable, ls, n

\* So can a part of the hunks.
LEMMA PartLoadable ==
  ASSUME HunkTypes, NEW hs, NEW b, Source(hs, b), NEW k \in DOMAIN hs,
         NEW j \in 0 .. Len(hs[k].data)
  PROVE  /\ Loadable(Part(hs, k, j)) /\ Len(Part(hs, k, j)) = k
         /\ \A i \in 1 .. k - 1 : Part(hs, k, j)[i] = hs[i]
         /\ Part(hs, k, j)[k].at = hs[k].at /\ Part(hs, k, j)[k].data = SubSeq(hs[k].data, 1, j)
         /\ SubSeq(hs[k].data, 1, j) \in Seq(Bytes) /\ Len(SubSeq(hs[k].data, 1, j)) = j
<1> DEFINE ps == Part(hs, k, j)
           d  == hs[k].data
<1>1. /\ k \in Nat /\ k >= 1 /\ k <= Len(hs) /\ Len(hs) \in Nat /\ DOMAIN hs = 1 .. Len(hs)
      /\ hs[k].at \in Nat /\ d \in Seq(Bytes) /\ Len(d) \in Nat
  BY SourceParts
<1>2. SubSeq(d, 1, j) \in Seq(Bytes) /\ Len(SubSeq(d, 1, j)) = j
  <2> HIDE DEF d
  <2>1. j \in Nat /\ j <= Len(d)
    BY <1>1 DEF d
  <2>2. /\ DOMAIN d = 1 .. Len(d) /\ 1 .. j \subseteq 1 .. Len(d)
    BY <1>1, <2>1
  <2>3. SubSeq(d, 1, j) \in Seq(Bytes) /\ Len(SubSeq(d, 1, j)) = IF 1 <= j THEN j - 1 + 1 ELSE 0
    BY <1>1, <2>1, <2>2, SubSeqProperties
  <2> QED
    BY <2>1, <2>3
<1>3. ps = [i \in 1 .. k |-> IF i < k THEN hs[i]
                             ELSE [at |-> hs[k].at, data |-> SubSeq(d, 1, j)]]
  BY DEF Part
<1> HIDE DEF ps, d
<1>4. Len(ps) = k /\ DOMAIN ps = 1 .. k
  BY <1>1, <1>3
<1>5. \A i \in 1 .. k - 1 : i \in 1 .. k /\ ps[i] = hs[i] /\ i \in DOMAIN hs
  BY <1>1, <1>3
<1>6. ps[k].at = hs[k].at /\ ps[k].data = SubSeq(d, 1, j)
  BY <1>1, <1>3
<1>7. ASSUME NEW i \in 1 .. k
      PROVE  ps[i].at \in Nat /\ ps[i].data \in Seq(Bytes)
  <2>1. CASE i = k
    BY <1>1, <1>2, <1>6, <2>1
  <2>2. CASE i # k
    <3>1. i \in 1 .. k - 1
      BY <1>1, <2>2
    <3>2. ps[i] = hs[i] /\ i \in DOMAIN hs
      BY <1>5, <3>1
    <3>3. hs[i].at \in Nat /\ hs[i].data \in Seq(Bytes)
      BY <3>2, SourceParts
    <3> QED
      BY <3>2, <3>3
  <2> QED
    BY <2>1, <2>2
<1> QED
  BY <1>1, <1>2, <1>4, <1>5, <1>6, <1>7 DEF Loadable, ps, d

\* Loading nothing changes nothing.
LEMMA NothingLoaded ==
  ASSUME NEW ps, NEW a, NEW d, DOMAIN d = {}, NEW new, Overlay(Loaded(ps), a, d, new)
  PROVE  new = Loaded(ps)
<1> DEFINE m == Loaded(ps)
<1>1. m = [x \in DOMAIN m |-> m[x]]
  BY LoadedIs
<1> HIDE DEF m
<1>2. new = [x \in DOMAIN m \cup {(a + j - 1) % Word : j \in DOMAIN d} |-> new[x]]
  BY DEF Overlay, m
<1>3. DOMAIN m \cup {(a + j - 1) % Word : j \in DOMAIN d} = DOMAIN m
  OBVIOUS
<1>4. \A x \in DOMAIN m : new[x] = m[x]
  BY DEF Overlay, m
<1>5. new = [x \in DOMAIN m |-> new[x]]
  BY <1>2, <1>3
<1> QED
  BY <1>1, <1>4, <1>5 DEF m

\* d is what follows j bytes of a hunk.
Following(h, j, d) ==
  /\ d \in Seq(Bytes) /\ j + Len(d) <= Len(h.data)
  /\ \A x \in DOMAIN d : d[x] = h.data[j + x]

\* Further bytes of a hunk.
LEMMA PartExtended ==
  ASSUME HunkTypes, NEW hs, NEW b, Source(hs, b), NEW k \in DOMAIN hs,
         NEW j \in 0 .. Len(hs[k].data), NEW d, Following(hs[k], j, d)
  PROVE  /\ j + Len(d) \in 0 .. Len(hs[k].data)
         /\ Overlay(Loaded(Part(hs, k, j)), hs[k].at + j, d, Loaded(Part(hs, k, j + Len(d))))
<1> DEFINE n  == j + Len(d)
           h  == hs[k].data
           ps == Part(hs, k, j)
           qs == Part(hs, k, n)
           u  == SubSeq(h, 1, j)
           v  == SubSeq(h, 1, n)
<1>1. /\ k \in Nat /\ k >= 1 /\ hs[k].at \in Nat /\ h \in Seq(Bytes) /\ Len(h) \in Nat
      /\ DOMAIN h = 1 .. Len(h)
  BY SourceParts
<1>2. d \in Seq(Bytes) /\ Len(d) \in Nat /\ DOMAIN d = 1 .. Len(d) /\ n <= Len(h)
      /\ \A x \in DOMAIN d : d[x] = h[j + x]
  BY DEF Following
<1>3. j \in Nat /\ n \in 0 .. Len(h)
  BY <1>1, <1>2
<1>4. /\ Loadable(ps) /\ Len(ps) = k /\ \A i \in 1 .. k - 1 : ps[i] = hs[i]
      /\ ps[k].at = hs[k].at /\ ps[k].data = u /\ u \in Seq(Bytes) /\ Len(u) = j
  BY PartLoadable
<1>5. /\ Loadable(qs) /\ Len(qs) = k /\ \A i \in 1 .. k - 1 : qs[i] = hs[i]
      /\ qs[k].at = hs[k].at /\ qs[k].data = v /\ v \in Seq(Bytes) /\ Len(v) = n
  <2> HIDE DEF n
  <2> QED
    BY <1>3, PartLoadable
<1>6. \A x \in 1 .. j : u[x] = h[x]
  <2> HIDE DEF h
  <2>1. j \in Nat /\ j <= Len(h)
    BY <1>1 DEF h
  <2> QED
    BY <1>1, <2>1
<1>7. \A x \in 1 .. n : v[x] = h[x]
  <2> HIDE DEF h, n
  <2>1. n \in Nat /\ n <= Len(h)
    BY <1>1, <1>3
  <2> QED
    BY <1>1, <2>1
<1>8. n = j + Len(d)
  OBVIOUS
<1> HIDE DEF ps, qs, u, v, h, n
<1>9. v = u \o d
  <2> DEFINE w == u \o d
  <2>1. /\ w \in Seq(Bytes) /\ Len(w) = n
        /\ \A x \in 1 .. j : w[x] = u[x]
        /\ \A x \in 1 .. Len(d) : w[j + x] = d[x]
    BY <1>2, <1>4, <1>8, Joined
  <2> HIDE DEF w
  <2>2. ASSUME NEW x \in 1 .. n PROVE w[x] = h[x]
    <3>1. CASE x <= j
      BY <1>3, <1>6, <2>1, <3>1
    <3>2. CASE x > j
      <4> DEFINE y == x - j
      <4>1. y \in 1 .. Len(d) /\ j + y = x
        BY <1>2, <1>3, <1>8, <3>2
      <4> HIDE DEF y
      <4>2. w[j + y] = d[y] /\ d[y] = h[j + y]
        BY <1>2, <2>1, <4>1
      <4> QED
        BY <4>1, <4>2
    <3> QED
      BY <1>3, <3>1, <3>2
  <2>3. v = w
    <3>1. \A x \in 1 .. n : v[x] = w[x]
      BY <1>7, <2>2
    <3>2. Len(v) = Len(w) /\ v \in Seq(Bytes) /\ w \in Seq(Bytes)
      BY <1>5, <2>1
    <3> QED
      BY <1>5, <3>1, <3>2, SeqEqual
  <2> QED
    BY <2>3 DEF w
<1>10. Overlay(Loaded(ps), ps[k].at + Len(ps[k].data), d, Loaded(qs))
  <2>1. \A i \in 1 .. k - 1 : qs[i] = ps[i]
    BY <1>4, <1>5
  <2>2. qs[k].at = ps[k].at /\ qs[k].data = ps[k].data \o d
    BY <1>4, <1>5, <1>9
  <2>3. k = Len(ps) /\ k > 0 /\ Len(qs) = Len(ps)
    BY <1>1, <1>4, <1>5
  <2>4. d \in Seq(Bytes) /\ Loadable(ps) /\ Loadable(qs)
    BY <1>2, <1>4, <1>5
  <2>5. /\ Len(ps) > 0 /\ \A i \in 1 .. Len(ps) - 1 : qs[i] = ps[i]
        /\ qs[Len(ps)].at = ps[Len(ps)].at /\ qs[Len(ps)].data = ps[Len(ps)].data \o d
    BY <2>1, <2>2, <2>3
  <2>6. Overlay(Loaded(ps), ps[Len(ps)].at + Len(ps[Len(ps)].data), d, Loaded(qs))
    BY <2>3, <2>4, <2>5, LoadedExtended
  <2> QED
    BY <2>3, <2>6
<1>11. ps[k].at + Len(ps[k].data) = hs[k].at + j
  BY <1>4
<1> QED
  BY <1>3, <1>10, <1>11 DEF ps, qs, n, h

\* The next hunk begins with no bytes of it.
LEMMA PartNext ==
  ASSUME HunkTypes, NEW hs, NEW b, Source(hs, b), NEW k \in DOMAIN hs, NEW l \in DOMAIN hs,
         l = k + 1
  PROVE  Loaded(Part(hs, l, 0)) = Loaded(Part(hs, k, Len(hs[k].data)))
<1> DEFINE n  == Len(hs[k].data)
           ps == Part(hs, k, n)
           qs == Part(hs, l, 0)
           d  == SubSeq(hs[l].data, 1, 0)
<1>1. /\ k \in Nat /\ k >= 1 /\ n \in 0 .. n /\ n \in Nat /\ DOMAIN hs = 1 .. Len(hs)
      /\ hs[k].data \in Seq(Bytes) /\ hs[k] = [at |-> hs[k].at, data |-> hs[k].data]
  BY SourceParts
<1>2. /\ Loadable(ps) /\ Len(ps) = k /\ \A i \in 1 .. k - 1 : ps[i] = hs[i]
      /\ ps = [i \in 1 .. k |-> IF i < k THEN hs[i]
                                ELSE [at |-> hs[k].at, data |-> SubSeq(hs[k].data, 1, n)]]
  <2>1. Loadable(ps) /\ Len(ps) = k /\ \A i \in 1 .. k - 1 : ps[i] = hs[i]
    BY <1>1, PartLoadable
  <2>2. ps = [i \in 1 .. k |-> IF i < k THEN hs[i]
                               ELSE [at |-> hs[k].at, data |-> SubSeq(hs[k].data, 1, n)]]
    BY DEF Part
  <2> QED
    BY <2>1, <2>2
<1>3. SubSeq(hs[k].data, 1, n) = hs[k].data
  <2> DEFINE h == hs[k].data
             v == SubSeq(h, 1, n)
  <2>1. h \in Seq(Bytes) /\ n = Len(h)
    BY <1>1
  <2> HIDE DEF h, n
  <2>2. v \in Seq(Bytes) /\ Len(v) = Len(h) /\ \A x \in 1 .. Len(h) : v[x] = h[x]
    BY <2>1
  <2> HIDE DEF v
  <2>3. v = h
    BY <2>1, <2>2, SeqEqual
  <2> QED
    BY <2>3 DEF v, h, n
<1>4. ps[k] = hs[k]
  BY <1>1, <1>2, <1>3
<1>5. /\ Loadable(qs) /\ Len(qs) = l /\ \A i \in 1 .. l - 1 : qs[i] = hs[i]
      /\ qs[l].at = hs[l].at /\ qs[l].data = d /\ d \in Seq(Bytes) /\ Len(d) = 0
  <2>1. 0 \in 0 .. Len(hs[l].data)
    BY SourceParts
  <2> QED
    BY <2>1, PartLoadable
<1> HIDE DEF ps, qs, n, d
<1>6. Overlay(Loaded(ps), qs[Len(qs)].at, qs[Len(qs)].data, Loaded(qs))
  <2>1. Len(qs) = Len(ps) + 1 /\ \A i \in 1 .. Len(ps) : qs[i] = ps[i]
    <3>1. Len(qs) = Len(ps) + 1
      BY <1>2, <1>5
    <3>2. ASSUME NEW i \in 1 .. k PROVE qs[i] = ps[i]
      <4>1. i \in 1 .. l - 1
        BY <1>1
      <4>2. i = k \/ i \in 1 .. k - 1
        BY <1>1
      <4> QED
        BY <1>2, <1>4, <1>5, <4>1, <4>2
    <3> QED
      BY <1>2, <3>1, <3>2
  <2> QED
    BY <1>2, <1>5, <2>1, LoadedAppended
<1>7. Overlay(Loaded(ps), hs[l].at, d, Loaded(qs)) /\ DOMAIN d = {}
  BY <1>5, <1>6
<1>8. Loaded(qs) = Loaded(ps)
  BY <1>7, NothingLoaded
<1> QED
  BY <1>8 DEF ps, qs, n

\* All bytes of the last hunk: all of them.
LEMMA PartAll ==
  ASSUME HunkTypes, NEW hs, NEW b, Source(hs, b), NEW k \in DOMAIN hs, k = Len(hs)
  PROVE  Part(hs, k, Len(hs[k].data)) = hs
<1> DEFINE h == hs[k].data
           n == Len(h)
           v == SubSeq(h, 1, n)
<1>1. /\ k \in Nat /\ DOMAIN hs = 1 .. k /\ h \in Seq(Bytes) /\ n \in Nat
      /\ hs[k] = [at |-> hs[k].at, data |-> hs[k].data]
  BY SourceParts
<1>2. v = h
  <2> HIDE DEF h
  <2>2. v \in Seq(Bytes) /\ Len(v) = Len(h) /\ \A x \in 1 .. Len(h) : v[x] = h[x]
    BY <1>1
  <2> HIDE DEF v
  <2> QED
    BY <1>1, <2>2, SeqEqual
<1> HIDE DEF v, n
<1>3. [at |-> hs[k].at, data |-> v] = hs[k]
  BY <1>1, <1>2
<1> HIDE DEF h
<1>4. Part(hs, k, n) = [i \in 1 .. k |-> IF i < k THEN hs[i] ELSE [at |-> hs[k].at, data |-> v]]
  BY DEF Part, v, h
<1>5. \A i \in 1 .. k : (IF i < k THEN hs[i] ELSE [at |-> hs[k].at, data |-> v]) = hs[i]
  BY <1>1, <1>3
<1>6. hs = [i \in 1 .. k |-> hs[i]]
  <2>1. hs \in Seq(Hunk)
    BY DEF Source
  <2> QED
    BY <1>1, <2>1
<1>7. Part(hs, k, n) = hs
  BY <1>4, <1>5, <1>6
<1> QED
  BY <1>7 DEF n, h

\* Before the first byte nothing is loaded.
LEMMA PartNone ==
  ASSUME HunkTypes, NEW hs, NEW b, Source(hs, b)
  PROVE  1 \in DOMAIN hs /\ Loaded(Part(hs, 1, 0)) = Loaded(<<>>)
<1> DEFINE none == <<>>
           k  == 1
           j  == 0
           qs == Part(hs, k, j)
           d  == SubSeq(hs[k].data, 1, j)
<1>0. k = 1 /\ j = 0
  OBVIOUS
<1>9. k \in DOMAIN hs
  <2>1. hs \in Seq(Hunk) /\ Len(hs) > 0
    BY DEF Source
  <2> QED
    BY <2>1
<1> HIDE DEF k, j
<1>1. Loadable(none) /\ Len(none) = 0
  BY DEF Loadable
<1>2. /\ Loadable(qs) /\ Len(qs) = k
      /\ qs[k].at = hs[k].at /\ qs[k].data = d /\ d \in Seq(Bytes) /\ Len(d) = 0
  <2>1. Len(hs[k].data) \in Nat
    BY <1>9, SourceParts
  <2>2. j \in 0 .. Len(hs[k].data)
    BY <1>0, <2>1
  <2>3. /\ Loadable(qs) /\ Len(qs) = k
        /\ qs[k].at = hs[k].at /\ qs[k].data = d /\ d \in Seq(Bytes) /\ Len(d) = j
    BY <1>9, <2>2, PartLoadable
  <2> QED
    BY <1>0, <2>3
<1> HIDE DEF none, qs, d
<1>3. Overlay(Loaded(none), qs[Len(qs)].at, qs[Len(qs)].data, Loaded(qs))
  <2>1. Len(qs) = Len(none) + 1 /\ \A i \in 1 .. Len(none) : qs[i] = none[i]
    BY <1>0, <1>1, <1>2
  <2> QED
    BY <1>1, <1>2, <2>1, LoadedAppended
<1>4. Overlay(Loaded(none), hs[k].at, d, Loaded(qs)) /\ DOMAIN d = {}
  BY <1>2, <1>3
<1>5. Loaded(qs) = Loaded(none)
  BY <1>4, NothingLoaded
<1> QED
  BY <1>5, <1>9 DEF qs, none, k, j

-----------------------------------------------------------------------------
(***************************************************************************)
(* Steps of the converters                                                 *)
(***************************************************************************)
\* The tools find the header of a hunk where its predecessor has ended, and none behind the last.
LEMMA HeaderRead ==
  ASSUME HunkTypes, NEW hs, NEW b, Source(hs, b), F_format = "RAS", NEW k \in DOMAIN hs,
         NEW p, p = b[k] + Len(hs[k].data)
  PROVE  /\ Whole(p) <=> k # Len(hs)
         /\ k # Len(hs) => /\ k + 1 \in DOMAIN hs
                           /\ Getwlh(p) = hs[k + 1].at /\ Getwlh(p + 2) = Len(hs[k + 1].data)
                           /\ After(p + 2) = b[k + 1]
<1> DEFINE l == k + 1
           m == Len(hs)
<1>1. /\ k \in Nat /\ k >= 1 /\ k <= m /\ m \in Nat /\ DOMAIN hs = 1 .. m
      /\ b[k] \in Nat /\ Len(hs[k].data) \in Nat /\ Len(In) \in Nat
  BY SourceParts
<1>2. p \in Nat
  BY <1>1
<1>3. k = m => ~Whole(p)
  <2>1. k = m => p = Len(In)
    BY DEF Source
  <2> QED
    BY <1>1, <2>1 DEF Whole
<1>4. ASSUME k # m
      PROVE  /\ l \in DOMAIN hs /\ Whole(p)
             /\ Getwlh(p) = hs[l].at /\ Getwlh(p + 2) = Len(hs[l].data)
             /\ After(p + 2) = b[l]
  <2>1. l \in DOMAIN hs /\ k \in 1 .. m - 1
    BY <1>1, <1>4
  <2>2. b[l] = b[k] + Len(hs[k].data) + 4
    BY <2>1 DEF Source
  <2>3. HeaderAt(hs[l], b[l])
    BY <2>1 DEF Source
  <2> HIDE DEF l
  <2>4. b[l] \in Nat /\ Len(hs[l].data) \in Nat /\ b[l] + Len(hs[l].data) <= Len(In)
    BY <2>1, SourceParts
  <2>5. b[l] - 4 = p /\ b[l] - 2 = p + 2 /\ p + 4 <= Len(In)
    BY <1>1, <1>2, <2>2, <2>4
  <2>6. Whole(p) /\ Whole(p + 2) /\ (p + 2) + 2 = b[l]
    BY <1>1, <1>2, <2>4, <2>5 DEF Whole
  <2>7. Getw(In, p) = hs[l].at /\ Getw(In, p + 2) = Len(hs[l].data)
    BY <2>3, <2>5 DEF HeaderAt
  <2> QED
    BY <2>1, <2>6, <2>7 DEF Getwlh, After
<1> QED
  BY <1>3, <1>4 DEF l, m

\* Both tools begin with the first hunk.
LEMMA OpenReads ==
  ASSUME HunkTypes, Open, NEW hs, NEW b, Source(hs, b)
  PROVE  at' = b[1] /\ len' = Len(hs[1].data) /\ addr' = hs[1].at /\ base' = hs[1].at
<1> DEFINE o == IF F_format = "RAW" THEN 0 ELSE Getwlh(0)
           p == IF F_format = "RAW" THEN 0 ELSE After(0)
<1>1. /\ addr' = o /\ base' = o
      /\ at' = IF F_format = "RAS" THEN After(p) ELSE p
      /\ len' = IF F_format = "RAS" THEN Getwlh(p) ELSE Len(In) - p
  BY DEF Open
<1>2. 1 \in DOMAIN hs
  BY PartNone
<1>3. b[1] \in Nat /\ Len(hs[1].data) \in Nat /\ b[1] + Len(hs[1].data) <= Len(In) /\ Len(In) \in Nat
  BY <1>2, SourceParts
<1>4. CASE F_format = "RAS"
  <2>1. b[1] = 4 /\ HeaderAt(hs[1], b[1])
    BY <1>2, <1>4 DEF Source
  <2>2. Whole(0) /\ Whole(2)
    BY <1>3, <2>1 DEF Whole
  <2>3. Getw(In, 0) = hs[1].at /\ Getw(In, 2) = Len(hs[1].data)
    <3>1. 4 - 4 = 0 /\ 4 - 2 = 2
      OBVIOUS
    <3> QED
      BY <2>1, <3>1 DEF HeaderAt
  <2>4. o = hs[1].at /\ p = 2
    BY <1>4, <2>2, <2>3 DEF Getwlh, After
  <2> HIDE DEF o, p
  <2>5. After(p) = 4 /\ Getwlh(p) = Len(hs[1].data)
    BY <2>2, <2>3, <2>4 DEF Getwlh, After
  <2> QED
    BY <1>1, <1>4, <2>1, <2>4, <2>5
<1>5. CASE F_format # "RAS"
  <2>1. Len(hs) = 1
    BY <1>5 DEF Source
  <2>2. b[1] + Len(hs[1].data) = Len(In)
    BY <2>1 DEF Source
  <2>3. CASE F_format = "DEFAULT"
    <3>1. b[1] = 2 /\ Getw(In, 0) = hs[1].at
      BY <2>3 DEF Source
    <3>2. Whole(0)
      BY <1>3, <3>1 DEF Whole
    <3>3. o = hs[1].at /\ p = 2
      BY <2>3, <3>1, <3>2 DEF Getwlh, After
    <3> HIDE DEF o, p
    <3> QED
      BY <1>1, <1>3, <1>5, <2>2, <3>1, <3>3
  <2>4. CASE F_format = "RAW"
    <3>1. b[1] = 0 /\ hs[1].at = 0
      BY <2>4 DEF Source
    <3>2. o = 0 /\ p = 0
      BY <2>4
    <3> HIDE DEF o, p
    <3> QED
      BY <1>1, <1>3, <1>5, <2>2, <3>1, <3>2
  <2> QED
    BY <1>5, <2>3, <2>4, FormatIs
<1> QED
  BY <1>4, <1>5

\* What they read of a hunk are its bytes.
LEMMA HunkRead ==
  ASSUME HunkTypes, NEW hs, NEW b, Source(hs, b), NEW k \in DOMAIN hs,
         NEW j \in 0 .. Len(hs[k].data), at = b[k] + j,
         NEW n \in Nat, j + n <= Len(hs[k].data), NEW junk \in Junk(n)
  PROVE  /\ Following(hs[k], j, Fread(n, junk)) /\ Len(Fread(n, junk)) = n
         /\ AfterRead(n) = b[k] + (j + n)
<1> DEFINE d == Fread(n, junk)
           h == hs[k].data
<1>1. /\ b[k] \in Nat /\ h \in Seq(Bytes) /\ Len(h) \in Nat /\ b[k] + Len(h) <= Len(In)
      /\ Len(In) \in Nat /\ DOMAIN h = 1 .. Len(h)
  BY SourceParts
<1>2. \A x \in DOMAIN h : In[b[k] + x] = h[x]
  BY DEF Source
<1> HIDE DEF h
<1>3. j \in Nat /\ j <= Len(h) /\ j + n <= Len(h) /\ at \in Nat
  BY <1>1 DEF h
<1>4. d = [i \in 1 .. n |-> IF at + i <= Len(In) THEN In[at + i] ELSE junk]
  BY DEF Fread
<1>5. d \in Seq(Bytes)
  BY <1>3, FreadTypes
<1> HIDE DEF d
<1>6. Len(d) = n /\ DOMAIN d = 1 .. n
  BY <1>4, <1>5
<1>7. ASSUME NEW x \in 1 .. n PROVE d[x] = h[j + x]
  <2> DEFINE y == j + x
  <2>1. y \in DOMAIN h /\ at + x = b[k] + y /\ at + x <= Len(In)
    BY <1>1, <1>3
  <2> HIDE DEF y
  <2>2. d[x] = In[at + x]
    BY <1>4, <2>1
  <2> QED
    BY <1>2, <2>1, <2>2 DEF y
<1>8. AfterRead(n) = b[k] + (j + n)
  BY <1>1, <1>3 DEF AfterRead
<1>9. Following(hs[k], j, d)
  BY <1>3, <1>5, <1>6, <1>7 DEF Following, h
<1> QED
  BY <1>6, <1>8, <1>9 DEF d

\* Nothing has been written before the file is opened.
ToolsFresh ==
  tool = "none" \/ state = "open" =>
    records = <<>> /\ outfile = <<>> /\ outpos = 0 /\ maxseek = 0

\* ftohex has read j bytes of hunk k, and its lines load what it has read.
HexAt(hs, b, k, j) ==
  /\ k \in DOMAIN hs /\ j \in 0 .. Len(hs[k].data)
  /\ at = b[k] + j /\ len = Len(hs[k].data) - j /\ addr = hs[k].at + j
  /\ Loaded(LinesOf(records)) = Loaded(Part(hs, k, j))

\* Each line is a valid one, and together they load what was read.
HexSoFar ==
  tool = "ftohex" =>
    /\ \A i \in DOMAIN records : HexLine(records[i])
    /\ \A hs, b : Source(hs, b) =>
         /\ state = "hunk" => \E k, j : HexAt(hs, b, k, j)
         /\ state = "done" => Loaded(LinesOf(records)) = Loaded(hs)

\* Of what the assembly has left, a source stays one.
LEMMA SourceStays ==
  ASSUME UNCHANGED dasmVars, NEW hs, NEW b
  PROVE  Source(hs, b)' <=> Source(hs, b)
<1>1. In' = In /\ F_format' = F_format
  BY DEF dasmVars, In
<1> QED
  BY <1>1 DEF Source, HeaderAt

\* The first header.
LEMMA HexOpens ==
  ASSUME HunkTypes, ToolsFresh, Open, tool = "ftohex"
  PROVE  HexSoFar'
<1>1. /\ UNCHANGED dasmVars /\ state' = "hunk" /\ records = <<>> /\ records' = <<>>
  BY DEF Open, ToolsFresh
<1>2. LinesOf(records') = <<>>
  BY <1>1 DEF LinesOf
<1>3. ASSUME NEW hs, NEW b, Source(hs, b)
      PROVE  \E k, j : HexAt(hs, b, k, j)'
  <2> DEFINE k == 1
             j == 0
  <2>1. at' = b[k] /\ len' = Len(hs[k].data) /\ addr' = hs[k].at
    BY <1>3, OpenReads
  <2>2. k \in DOMAIN hs /\ Loaded(Part(hs, k, j)) = Loaded(<<>>)
    BY <1>3, PartNone
  <2>3. j = 0
    OBVIOUS
  <2> HIDE DEF k, j
  <2>4. b[k] \in Nat /\ Len(hs[k].data) \in Nat /\ hs[k].at \in Nat
    BY <1>3, <2>2, SourceParts
  <2>5. /\ j \in 0 .. Len(hs[k].data) /\ at' = b[k] + j /\ len' = Len(hs[k].data) - j
        /\ addr' = hs[k].at + j
    BY <2>1, <2>3, <2>4
  <2>6. Loaded(LinesOf(records')) = Loaded(Part(hs, k, j))
    BY <1>2, <2>2
  <2>7. HexAt(hs, b, k, j)'
    BY <2>2, <2>5, <2>6 DEF HexAt
  <2> QED
    BY <2>7
<1>4. \A hs, b : Source(hs, b)' => \E k, j : HexAt(hs, b, k, j)'
  BY <1>1, <1>3, SourceStays
<1>5. \A i \in DOMAIN records' : HexLine(records'[i])
  BY <1>1
<1> QED
  BY <1>1, <1>4, <1>5 DEF HexSoFar

\* One line more.
LEMMA LineLoaded ==
  ASSUME HunkTypes, NEW hs, NEW b, Source(hs, b), NEW k \in DOMAIN hs,
         NEW j \in 0 .. Len(hs[k].data), NEW d, Following(hs[k], j, d),
         NEW rs \in Seq(RecordLine), Loaded(LinesOf(rs)) = Loaded(Part(hs, k, j)),
         NEW a \in Nat, a = hs[k].at + j, NEW r \in RecordLine,
         LineOf(r).at = a % Word, LineOf(r).data = d
  PROVE  Loaded(LinesOf(Append(rs, r))) = Loaded(Part(hs, k, j + Len(d)))
<1> DEFINE qs == Append(rs, r)
           ls == LinesOf(rs)
           ns == LinesOf(qs)
           n  == Len(rs)
           c  == a % Word
<1>1. /\ qs \in Seq(RecordLine) /\ Len(qs) = n + 1 /\ n \in Nat /\ DOMAIN rs = 1 .. n
      /\ DOMAIN qs = 1 .. n + 1 /\ \A i \in 1 .. n : qs[i] = rs[i]
      /\ qs[n + 1] = r
  OBVIOUS
<1>2. Loadable(ls) /\ Len(ls) = n /\ Loadable(ns) /\ Len(ns) = n + 1
  <2> HIDE DEF qs
  <2> QED
    BY <1>1, LinesLoadable
<1>3. /\ \A i \in 1 .. n : ns[i] = ls[i]
      /\ ns[n + 1].at = c /\ ns[n + 1].data = d
  <2> HIDE DEF qs
  <2>1. ASSUME NEW i \in 1 .. n PROVE ns[i] = ls[i]
    <3>1. i \in DOMAIN rs /\ i \in DOMAIN qs /\ qs[i] = rs[i]
      BY <1>1
    <3> QED
      BY <3>1 DEF LinesOf
  <2>2. ns[n + 1] = LineOf(r)
    BY <1>1 DEF LinesOf
  <2> QED
    BY <2>1, <2>2
<1> HIDE DEF qs, ls, ns, n, c
<1>4. Overlay(Loaded(ls), c, d, Loaded(ns))
  <2>1. Len(ns) = Len(ls) + 1 /\ \A i \in 1 .. Len(ls) : ns[i] = ls[i]
    BY <1>2, <1>3
  <2>2. Overlay(Loaded(ls), ns[Len(ns)].at, ns[Len(ns)].data, Loaded(ns))
    BY <1>2, <2>1, LoadedAppended
  <2> QED
    BY <1>2, <1>3, <2>2
<1>5. Overlay(Loaded(ls), a, d, Loaded(Part(hs, k, j + Len(d))))
  <2>1. Overlay(Loaded(Part(hs, k, j)), hs[k].at + j, d, Loaded(Part(hs, k, j + Len(d))))
    BY PartExtended
  <2> QED
    BY <2>1 DEF ls
<1>6. c \in Nat /\ a % Word = c % Word /\ d \in Seq(Bytes)
  <2>1. c \in Nat
    <3>1. c \in 0 .. Word - 1
      BY WordIs DEF c
    <3> QED
      BY <3>1, WordIs
  <2>2. c % Word = a % Word
    BY WordIs, RemainderOfRemainder DEF c
  <2>3. d \in Seq(Bytes)
    BY DEF Following
  <2> QED
    BY <2>1, <2>2, <2>3
<1>7. Loaded(ns) = Loaded(Part(hs, k, j + Len(d)))
  BY <1>4, <1>5, <1>6, SameEffect
<1> QED
  BY <1>7 DEF ns, qs

\* It keeps what ftohex has written true to what it has read.
LEMMA HexWrites ==
  ASSUME HunkTypes, ToolTypes, HexSoFar, WriteRecord
  PROVE  HexSoFar'
<1> DEFINE n == IF len > PERLINE THEN PERLINE ELSE len
<1>1. /\ at \in Nat /\ len \in Nat /\ addr \in Nat /\ records \in Seq(RecordLine)
  BY ReadTypes DEF ToolTypes
<1>2. n \in Nat /\ n <= len /\ n \in 1 .. PERLINE
  BY <1>1, ConvertersAssumption DEF WriteRecord
<1>3. PICK junk \in Junk(n) : records' = Append(records, Record(addr, Fread(n, junk)))
  BY DEF WriteRecord
<1>4. /\ at' = AfterRead(n) /\ len' = len - n /\ addr' = addr + n
      /\ tool = "ftohex" /\ state = "hunk" /\ tool' = "ftohex" /\ state' = "hunk"
      /\ UNCHANGED dasmVars
  BY DEF WriteRecord, Running
<1> DEFINE d == Fread(n, junk)
           r == Record(addr, d)
<1> HIDE DEF n
<1>5. d \in Seq(Bytes) /\ Len(d) = n
  <2>1. d \in Seq(Bytes)
    BY <1>1, <1>2, FreadTypes
  <2>2. d = [i \in 1 .. n |-> IF at + i <= Len(In) THEN In[at + i] ELSE junk]
    BY DEF Fread
  <2> HIDE DEF d
  <2> QED
    BY <1>2, <2>1, <2>2
<1> HIDE DEF d
<1>6. HexLine(r) /\ LineOf(r).at = addr % Word /\ LineOf(r).data = d /\ r \in RecordLine
  BY <1>1, <1>2, <1>5, RecordIs, RecordTypes
<1> HIDE DEF r
<1>7. records' = Append(records, r)
  BY <1>3 DEF r, d
<1>8. \A i \in DOMAIN records' : HexLine(records'[i])
  <2>1. \A i \in DOMAIN records : HexLine(records[i])
    BY <1>4 DEF HexSoFar
  <2>2. \A i \in DOMAIN records' : i = Len(records) + 1 \/ i \in DOMAIN records
    BY <1>1, <1>7
  <2>3. /\ \A i \in DOMAIN records : records'[i] = records[i]
        /\ records'[Len(records) + 1] = r
    BY <1>1, <1>7
  <2> QED
    BY <1>6, <2>1, <2>2, <2>3
<1>9. ASSUME NEW hs, NEW b, Source(hs, b)
      PROVE  \E k, j : HexAt(hs, b, k, j)'
  <2>1. PICK k, j : HexAt(hs, b, k, j)
    BY <1>4, <1>9 DEF HexSoFar
  <2>2. /\ k \in DOMAIN hs /\ j \in 0 .. Len(hs[k].data)
        /\ at = b[k] + j /\ len = Len(hs[k].data) - j /\ addr = hs[k].at + j
        /\ Loaded(LinesOf(records)) = Loaded(Part(hs, k, j))
    BY <2>1 DEF HexAt
  <2>3. b[k] \in Nat /\ Len(hs[k].data) \in Nat /\ hs[k].at \in Nat
    BY <1>9, <2>2, SourceParts
  <2>4. j \in Nat /\ j + n <= Len(hs[k].data)
    BY <1>2, <2>2, <2>3
  <2>5. Following(hs[k], j, d) /\ AfterRead(n) = b[k] + (j + n)
    <3>1. k \in DOMAIN hs /\ j \in 0 .. Len(hs[k].data) /\ at = b[k] + j
      BY <2>2
    <3> QED
      BY <1>2, <1>9, <2>4, <3>1, HunkRead DEF d
  <2>6. Loaded(LinesOf(Append(records, r))) = Loaded(Part(hs, k, j + Len(d)))
    <3>1. /\ k \in DOMAIN hs /\ j \in 0 .. Len(hs[k].data) /\ addr = hs[k].at + j
          /\ Loaded(LinesOf(records)) = Loaded(Part(hs, k, j))
      BY <2>2
    <3> QED
      BY <1>1, <1>6, <1>9, <2>5, <3>1, LineLoaded
  <2>10. PICK i \in Nat : i = j + n
    BY <1>2, <2>4
  <2>7. /\ i \in 0 .. Len(hs[k].data)
        /\ at' = b[k] + i /\ len' = Len(hs[k].data) - i /\ addr' = hs[k].at + i
    <3>1. i \in 0 .. Len(hs[k].data) /\ at' = b[k] + i
      BY <1>4, <2>3, <2>4, <2>5, <2>10
    <3>2. len' = (Len(hs[k].data) - j) - n /\ addr' = (hs[k].at + j) + n
      BY <1>4, <2>2
    <3>3. len' = Len(hs[k].data) - i /\ addr' = hs[k].at + i
      BY <1>2, <2>3, <2>4, <2>10, <3>2
    <3> QED
      BY <3>1, <3>3
  <2>8. Loaded(LinesOf(records')) = Loaded(Part(hs, k, i))
    BY <1>5, <1>7, <2>6, <2>10
  <2>9. HexAt(hs, b, k, i)'
    BY <2>2, <2>7, <2>8 DEF HexAt
  <2> QED
    BY <2>9
<1>10. \A hs, b : Source(hs, b)' => \E k, j : HexAt(hs, b, k, j)'
  BY <1>4, <1>9, SourceStays
<1> QED
  BY <1>4, <1>8, <1>10 DEF HexSoFar

\* So does going on to the next hunk, and at the end all of them have been read.
LEMMA HexGoesOn ==
  ASSUME HunkTypes, ToolTypes, HexSoFar, NextHeader
  PROVE  HexSoFar'
<1>1. /\ tool = "ftohex" /\ state = "hunk" /\ tool' = "ftohex" /\ len = 0
      /\ UNCHANGED dasmVars /\ records' = records
  BY DEF NextHeader, Running
<1>2. ASSUME NEW hs, NEW b, Source(hs, b)
      PROVE  /\ state' = "hunk" => \E k, j : HexAt(hs, b, k, j)'
             /\ state' = "done" => Loaded(LinesOf(records')) = Loaded(hs)
  <2>1. PICK k, j : HexAt(hs, b, k, j)
    BY <1>1, <1>2 DEF HexSoFar
  <2>2. /\ k \in DOMAIN hs /\ j \in 0 .. Len(hs[k].data)
        /\ at = b[k] + j /\ len = Len(hs[k].data) - j
        /\ Loaded(LinesOf(records)) = Loaded(Part(hs, k, j))
    BY <2>1 DEF HexAt
  <2>3. /\ b[k] \in Nat /\ Len(hs[k].data) \in Nat /\ k \in Nat /\ k <= Len(hs) /\ k >= 1
        /\ Len(hs) \in Nat
    BY <1>2, <2>2, SourceParts
  <2>4. j = Len(hs[k].data) /\ at = b[k] + Len(hs[k].data)
    BY <1>1, <2>2, <2>3
  <2>5. Loaded(LinesOf(records)) = Loaded(Part(hs, k, Len(hs[k].data)))
    BY <2>2, <2>4
  <2>6. CASE F_format = "RAS" /\ Whole(at)
    <3> DEFINE l == k + 1
               i == 0
    <3>1. addr' = Getwlh(at) /\ len' = Getwlh(at + 2) /\ at' = After(at + 2) /\ state' = "hunk"
      BY <1>1, <2>6 DEF NextHeader
    <3>2. /\ l \in DOMAIN hs /\ Getwlh(at) = hs[l].at /\ Getwlh(at + 2) = Len(hs[l].data)
          /\ After(at + 2) = b[l]
      BY <1>2, <2>2, <2>4, <2>6, HeaderRead
    <3>3. l = k + 1 /\ i = 0
      OBVIOUS
    <3>4. Loaded(Part(hs, l, 0)) = Loaded(Part(hs, k, Len(hs[k].data)))
      BY <1>2, <2>2, <3>2, PartNext
    <3> HIDE DEF l
    <3>5. Loaded(LinesOf(records')) = Loaded(Part(hs, l, i))
      BY <1>1, <2>5, <3>4
    <3> HIDE DEF i
    <3>6. b[l] \in Nat /\ Len(hs[l].data) \in Nat /\ hs[l].at \in Nat
      BY <1>2, <3>2, SourceParts
    <3>7. /\ i \in 0 .. Len(hs[l].data) /\ at' = b[l] + i /\ len' = Len(hs[l].data) - i
          /\ addr' = hs[l].at + i
      BY <3>1, <3>2, <3>3, <3>6
    <3>8. HexAt(hs, b, l, i)'
      BY <3>2, <3>5, <3>7 DEF HexAt
    <3> QED
      BY <3>1, <3>8
  <2>7. CASE ~(F_format = "RAS" /\ Whole(at))
    <3>1. state' = "done"
      BY <2>7 DEF NextHeader
    <3>2. k = Len(hs)
      <4>1. CASE F_format = "RAS"
        BY <1>2, <2>2, <2>4, <2>7, <4>1, HeaderRead
      <4>2. CASE F_format # "RAS"
        <5>1. Len(hs) = 1
          BY <1>2, <4>2 DEF Source
        <5> QED
          BY <2>3, <5>1
      <4> QED
        BY <4>1, <4>2
    <3>3. Part(hs, k, Len(hs[k].data)) = hs
      BY <1>2, <2>2, <3>2, PartAll
    <3> QED
      BY <1>1, <2>5, <3>1, <3>3
  <2> QED
    BY <2>6, <2>7
<1>3. \A i \in DOMAIN records' : HexLine(records'[i])
  BY <1>1 DEF HexSoFar
<1>4. \A hs, b : Source(hs, b)' =>
         /\ state' = "hunk" => \E k, j : HexAt(hs, b, k, j)'
         /\ state' = "done" => Loaded(LinesOf(records')) = Loaded(hs)
  BY <1>1, <1>2, SourceStays
<1> QED
  BY <1>3, <1>4 DEF HexSoFar

-----------------------------------------------------------------------------
\* The invariant for ftohex.
HexInv == HunkInv /\ ToolsFresh /\ HexSoFar

\* It holds at first.
LEMMA HexInit == InitAll => HexInv
<1>1. InitAll => ToolsFresh /\ HexSoFar
  BY DEF InitAll, ConvertInit, ToolsFresh, HexSoFar
<1> QED
  BY <1>1, HunkInit DEF HexInv

\* Every step keeps it.
LEMMA HexStep == HexInv /\ [Next]_vars => HexInv'
<1> SUFFICES ASSUME HexInv, [Next]_vars PROVE HexInv'
  OBVIOUS
<1>1. /\ HunkInv /\ ToolsFresh /\ HexSoFar /\ HunkTypes /\ ToolTypes /\ ToolsWait
  BY DEF HexInv, HunkInv, FileInv
<1>2. HunkInv'
  BY <1>1, HunkStep
<1>3. CASE Assemble /\ UNCHANGED convert
  <2>1. tool = "none"
    BY <1>1, <1>3 DEF Assemble, v_org, AskForPass, Generate, GenerateObscure, GenerateReversed,
       Complete, NextPass, GiveUp, Statement, ToolsWait
  <2>2. ToolsFresh' /\ HexSoFar'
    BY <1>1, <1>3, <2>1 DEF ToolsFresh, HexSoFar, convert
  <2> QED
    BY <1>2, <2>2 DEF HexInv
<1>4. ASSUME NEW t \in {"ftobin", "ftohex"}, Start(t)
      PROVE  HexInv'
  <2>1. /\ tool = "none" /\ state' = "open"
        /\ UNCHANGED <<maxseek, outpos, outfile, records>>
    BY <1>4 DEF Start
  <2>2. ToolsFresh'
    BY <1>1, <2>1 DEF ToolsFresh
  <2>3. HexSoFar'
    BY <2>1, <2>2 DEF HexSoFar, ToolsFresh
  <2> QED
    BY <1>2, <2>2, <2>3 DEF HexInv
<1>5. CASE Open
  <2>1. ToolsFresh'
    BY <1>1, <1>5 DEF Open, ToolsFresh, ToolsWait
  <2>2. HexSoFar'
    <3>1. tool = "ftohex" => HexSoFar'
      BY <1>1, <1>5, HexOpens
    <3>2. tool' = tool
      BY <1>5 DEF Open
    <3> QED
      BY <3>1, <3>2 DEF HexSoFar
  <2> QED
    BY <1>2, <2>1, <2>2 DEF HexInv
<1>6. CASE CopyHunk \/ NextHunk
  <2>1. tool = "ftobin" /\ tool' = tool /\ state' # "open"
    BY <1>6 DEF CopyHunk, NextHunk, Running
  <2> QED
    BY <1>2, <2>1 DEF HexInv, ToolsFresh, HexSoFar
<1>7. CASE WriteRecord \/ NextHeader
  <2>1. tool = "ftohex" /\ tool' = tool /\ state' # "open"
    BY <1>7 DEF WriteRecord, NextHeader, Running
  <2>2. ToolsFresh'
    BY <2>1 DEF ToolsFresh
  <2>3. HexSoFar'
    BY <1>1, <1>7, HexWrites, HexGoesOn
  <2> QED
    BY <1>2, <2>2, <2>3 DEF HexInv
<1>8. CASE UNCHANGED vars
  <2>1. UNCHANGED dasmVars /\ UNCHANGED convert
    BY <1>8 DEF vars
  <2>2. ToolsFresh'
    BY <1>1, <2>1 DEF ToolsFresh, convert
  <2>3. UNCHANGED <<tool, state, at, len, addr, records>>
    BY <2>1 DEF convert
  <2>4. \A hs, b, k, j : HexAt(hs, b, k, j)' <=> HexAt(hs, b, k, j)
    BY <2>3 DEF HexAt
  <2>5. HexSoFar'
    BY <1>1, <2>1, <2>3, <2>4, SourceStays DEF HexSoFar
  <2> QED
    BY <1>2, <2>2, <2>5 DEF HexInv
<1> QED
  BY <1>3, <1>4, <1>5, <1>6, <1>7, <1>8 DEF Next

\* Whenever ftohex has converted the file of an assembly that has generated something (in
\* format 2, without a stretch that is too long for the length field), every line it has
\* written has from one to PERLINE bytes and adds up to 0, and loading the lines gives the
\* memory of the assembly, whatever the hunks and however they overlap or wrap around.
THEOREM HexFileCorrect == Spec => []FtohexCorrect
<1>1. HexInv => FtohexCorrect
  <2>1. SUFFICES ASSUME HexInv, tool = "ftohex", state = "done", runs # <<>>,
                        F_format = "RAS" => HunksFit
                 PROVE  /\ \A i \in DOMAIN records : HexLine(records[i])
                        /\ Loaded(LinesOf(records)) = Image
    BY DEF FtohexCorrect, HexLine, LinesOf, LineOf, Image
  <2>2. HunkInv /\ HexSoFar /\ dasm = "complete"
    BY <2>1 DEF HexInv, HunkInv, FileInv, ToolsWait
  <2>3. PICK hs, b : Source(hs, b) /\ Loaded(hs) = Image
    BY <2>1, <2>2, SourceExists
  <2> QED
    BY <2>1, <2>2, <2>3 DEF HexSoFar
<1> QED
  BY <1>1, HexInit, HexStep, PTL DEF Spec

-----------------------------------------------------------------------------
(***************************************************************************)
(* What ftobin writes                                                      *)
(***************************************************************************)
\* The byte of the binary file for an address.
ByteOf(m, a) == IF a \in DOMAIN m THEN m[a] ELSE Byte - 1

\* f, from address o on, shows the memory m.
Shows(f, o, m) == \A x \in 1 .. Len(f) : f[x] = ByteOf(m, o + (x - 1))

\* The first k hunks.
First(hs, k) == [i \in 1 .. k |-> hs[i]]

\* None of them reaches the last address.
Bank(hs) == \A i \in DOMAIN hs : EndAt(hs, i) < Word

\* h is the address after the highest byte of the first n hunks.
High(hs, n, h) == /\ \E j \in 1 .. n : EndAt(hs, j) = h
                  /\ \A j \in 1 .. n : EndAt(hs, j) <= h

\* A hunk behind a gap follows the hunk that reaches highest.
GapEnds(hs) ==
  \A i \in DOMAIN hs, n \in Nat, h \in Nat :
    i = n + 1 /\ High(hs, n, h) /\ hs[i].at > h => EndAt(hs, n) = h

\* Bytes that are loaded where no address wraps around.
LEMMA OverlayBytes ==
  ASSUME NEW m, NEW a \in Nat, NEW d \in Seq(Bytes), a + Len(d) <= Word, NEW new,
         Overlay(m, a, d, new), NEW x \in Nat
  PROVE  ByteOf(new, x) = IF a <= x /\ x < a + Len(d) THEN d[(x - a) + 1] ELSE ByteOf(m, x)
<1> DEFINE cell(j) == (a + j - 1) % Word
           D == DOMAIN m \cup {cell(j) : j \in DOMAIN d}
<1>1. Len(d) \in Nat /\ DOMAIN d = 1 .. Len(d) /\ Word \in Nat /\ Word > 0
  BY WordIs
<1>2. ASSUME NEW j \in DOMAIN d PROVE cell(j) = a + (j - 1)
  <2> DEFINE y == a + j - 1
  <2>1. y \in 0 .. Word - 1 /\ y = a + (j - 1)
    BY <1>1
  <2> HIDE DEF y
  <2>2. y % Word = y
    BY <1>1, <2>1, SmallRemainder
  <2> QED
    BY <2>1, <2>2 DEF y
<1>3. DOMAIN new = D
  <2>1. new = [z \in D |-> new[z]]
    BY DEF Overlay
  <2> HIDE DEF D
  <2> QED
    BY <2>1
<1>4. /\ \A j \in DOMAIN d : (\A k \in DOMAIN d : k > j => cell(k) # cell(j)) => new[cell(j)] = d[j]
      /\ \A z \in DOMAIN m : (\A j \in DOMAIN d : cell(j) # z) => new[z] = m[z]
  BY DEF Overlay
<1> HIDE DEF cell
<1>5. CASE a <= x /\ x < a + Len(d)
  <2> DEFINE j == (x - a) + 1
  <2>1. j \in DOMAIN d /\ a + (j - 1) = x /\ j \in Int
    BY <1>1, <1>5
  <2> HIDE DEF j
  <2>2. cell(j) = x
    BY <1>2, <2>1
  <2>3. ASSUME NEW k \in DOMAIN d, k > j PROVE cell(k) # cell(j)
    BY <1>1, <1>2, <2>1, <2>3
  <2>4. new[x] = d[j]
    BY <1>4, <2>1, <2>2, <2>3
  <2>5. x \in DOMAIN new
    BY <1>3, <2>1, <2>2
  <2>6. ByteOf(new, x) = d[j]
    BY <2>4, <2>5 DEF ByteOf
  <2> QED
    BY <1>5, <2>6 DEF j
<1>6. CASE ~(a <= x /\ x < a + Len(d))
  <2>1. ASSUME NEW j \in DOMAIN d PROVE cell(j) # x
    BY <1>1, <1>2, <1>6
  <2>2. x \in DOMAIN new <=> x \in DOMAIN m
    BY <1>3, <2>1
  <2>3. x \in DOMAIN m => new[x] = m[x]
    BY <1>4, <2>1
  <2>4. ByteOf(new, x) = ByteOf(m, x)
    BY <2>2, <2>3 DEF ByteOf
  <2> QED
    BY <1>6, <2>4
<1> QED
  BY <1>5, <1>6

\* The addresses of pieces that do not wrap around.
LEMMA LoadedWithin ==
  ASSUME NEW ps, Loadable(ps), \A i \in DOMAIN ps : EndAt(ps, i) < Word, NEW a \in DOMAIN Loaded(ps)
  PROVE  \E i \in DOMAIN ps : a \in Nat /\ ps[i].at <= a /\ a < EndAt(ps, i)
<1>1. a \in AddressesOf(ps)
  BY LoadedIs
<1>2. PICK c \in CellsOf(ps) : AddressOf(ps, c) = a
  BY <1>1 DEF AddressesOf
<1> DEFINE i == c[1]
           j == c[2]
           y == ps[i].at + j - 1
<1>3. i \in DOMAIN ps /\ j \in DOMAIN ps[i].data /\ j \in Nat
  BY CellsAre
<1>4. a = y % Word
  BY <1>2 DEF AddressOf
<1> HIDE DEF i, j
<1>5. /\ ps[i].at \in Nat /\ Len(ps[i].data) \in Nat /\ DOMAIN ps[i].data = 1 .. Len(ps[i].data)
      /\ EndAt(ps, i) < Word
  BY <1>3, CellsAre DEF Loadable
<1>6. y \in 0 .. Word - 1 /\ ps[i].at <= y /\ y < EndAt(ps, i) /\ y \in Nat
  BY <1>3, <1>5, WordIs DEF EndAt
<1> HIDE DEF y
<1>7. a = y
  BY <1>4, <1>6, WordIs, SmallRemainder
<1> QED
  BY <1>3, <1>6, <1>7

\* Data that are written within the file, or right behind it, show what they are loaded to.
LEMMA CopyShows ==
  ASSUME NEW f \in Seq(Bytes), NEW o \in Nat, NEW p \in Nat, p <= Len(f), NEW d \in Seq(Bytes),
         NEW m, NEW new, Shows(f, o, m), Overlay(m, o + p, d, new), (o + p) + Len(d) <= Word
  PROVE  /\ Shows(Written(f, p, d), o, new)
         /\ Len(Written(f, p, d)) = IF p + Len(d) > Len(f) THEN p + Len(d) ELSE Len(f)
<1> DEFINE e == p + Len(d)
           l == IF e > Len(f) THEN e ELSE Len(f)
           g == Written(f, p, d)
           a == o + p
<1>1. /\ Len(f) \in Nat /\ Len(d) \in Nat /\ DOMAIN d = 1 .. Len(d) /\ e \in Nat /\ l \in Nat
      /\ a \in Nat
  OBVIOUS
<1>2. g = [i \in 1 .. l |-> IF i > p /\ i <= e THEN d[i - p] ELSE IF i <= Len(f) THEN f[i] ELSE 0]
  BY DEF Written
<1>3. g \in Seq(Bytes)
  BY WrittenTypes
<1> HIDE DEF g
<1>4. Len(g) = l /\ DOMAIN g = 1 .. l
  BY <1>1, <1>2, <1>3
<1>5. \A x \in Nat : ByteOf(new, x) = IF a <= x /\ x < a + Len(d) THEN d[(x - a) + 1]
                                      ELSE ByteOf(m, x)
  <2> HIDE DEF a
  <2>1. Overlay(m, a, d, new) /\ a + Len(d) <= Word
    BY DEF a
  <2> QED
    BY <1>1, <2>1, OverlayBytes
<1>6. ASSUME NEW x \in 1 .. l
      PROVE  g[x] = ByteOf(new, o + (x - 1))
  <2> DEFINE y == o + (x - 1)
  <2>1. y \in Nat
    OBVIOUS
  <2>2. CASE x > p /\ x <= e
    <3>1. g[x] = d[x - p]
      BY <1>2, <2>2
    <3>2. a <= y /\ y < a + Len(d) /\ (y - a) + 1 = x - p
      BY <1>1, <2>2
    <3> HIDE DEF y, a
    <3> QED
      BY <1>5, <2>1, <3>1, <3>2 DEF y
  <2>3. CASE ~(x > p /\ x <= e)
    <3>1. x \in 1 .. Len(f)
      BY <1>1, <2>3
    <3>2. g[x] = f[x]
      BY <1>2, <2>3, <3>1
    <3>3. f[x] = ByteOf(m, y)
      BY <3>1 DEF Shows
    <3>4. ~(a <= y /\ y < a + Len(d))
      BY <1>1, <2>3
    <3> HIDE DEF y, a
    <3>5. ByteOf(new, y) = ByteOf(m, y)
      BY <1>5, <2>1, <3>4
    <3> QED
      BY <3>2, <3>3, <3>5 DEF y
  <2> QED
    BY <2>2, <2>3
<1> QED
  BY <1>4, <1>6 DEF Shows, g

\* Filling behind the file shows the memory that ends there.
LEMMA FillShows ==
  ASSUME NEW f \in Seq(Bytes), NEW o \in Nat, NEW n \in Nat, NEW m, Shows(f, o, m),
         \A a \in DOMAIN m : a \in Nat /\ a < o + Len(f)
  PROVE  /\ Shows(Written(f, Len(f), Fill(n, Byte - 1)), o, m)
         /\ Len(Written(f, Len(f), Fill(n, Byte - 1))) = Len(f) + n
<1> DEFINE p == Len(f)
           d == Fill(n, Byte - 1)
           e == p + Len(d)
           g == Written(f, p, d)
<1>1. /\ p \in Nat /\ d \in Seq(Bytes) /\ Len(d) = n /\ \A i \in 1 .. n : d[i] = Byte - 1
  <2> DEFINE b == Byte - 1
  <2>1. b \in Bytes
    BY BytesAre
  <2> HIDE DEF b
  <2>2. Fill(n, b) \in Seq(Bytes) /\ Len(Fill(n, b)) = n /\ \A i \in 1 .. n : Fill(n, b)[i] = b
    BY <2>1, FilledIs
  <2> QED
    BY <2>2 DEF b
<1> HIDE DEF d
<1>2. g \in Seq(Bytes)
  BY <1>1, WrittenTypes
<1>3. g = [i \in 1 .. (IF e > p THEN e ELSE p) |->
             IF i > p /\ i <= e THEN d[i - p] ELSE IF i <= p THEN f[i] ELSE 0]
  BY DEF Written
<1> HIDE DEF g
<1>4. (IF e > p THEN e ELSE p) = p + n /\ e = p + n
  BY <1>1
<1>5. g = [i \in 1 .. p + n |-> IF i > p /\ i <= e THEN d[i - p] ELSE IF i <= p THEN f[i] ELSE 0]
  BY <1>3, <1>4
<1>6. Len(g) = p + n
  BY <1>1, <1>2, <1>5
<1>7. ASSUME NEW x \in 1 .. p + n
      PROVE  g[x] = ByteOf(m, o + (x - 1))
  <2>1. CASE x > p
    <3>1. x - p \in 1 .. n /\ x <= e
      BY <1>1, <1>4, <2>1
    <3>2. g[x] = Byte - 1
      BY <1>1, <1>5, <2>1, <3>1
    <3>3. o + (x - 1) \notin DOMAIN m
      BY <1>1, <2>1
    <3> QED
      BY <3>2, <3>3 DEF ByteOf
  <2>2. CASE ~(x > p)
    <3>1. x \in 1 .. p /\ g[x] = f[x]
      BY <1>1, <1>5, <2>2
    <3> QED
      BY <3>1 DEF Shows
  <2> QED
    BY <2>1, <2>2
<1> QED
  BY <1>6, <1>7 DEF Shows, g, d

\* The first hunks can be loaded.
LEMMA FirstLoadable ==
  ASSUME HunkTypes, NEW hs, NEW b, Source(hs, b), NEW k \in 0 .. Len(hs)
  PROVE  /\ Loadable(First(hs, k)) /\ Len(First(hs, k)) = k
         /\ \A i \in 1 .. k : i \in DOMAIN hs /\ First(hs, k)[i] = hs[i]
<1> DEFINE ps == First(hs, k)
<1>1. hs \in Seq(Hunk) /\ DOMAIN hs = 1 .. Len(hs) /\ Len(hs) \in Nat /\ k \in Nat /\ k <= Len(hs)
  BY DEF Source
<1>2. ps = [i \in 1 .. k |-> hs[i]]
  BY DEF First
<1> HIDE DEF ps
<1>3. Len(ps) = k /\ DOMAIN ps = 1 .. k /\ \A i \in 1 .. k : i \in DOMAIN hs /\ ps[i] = hs[i]
  BY <1>1, <1>2
<1>4. ASSUME NEW i \in 1 .. k PROVE ps[i].at \in Nat /\ ps[i].data \in Seq(Bytes)
  <2>1. i \in DOMAIN hs /\ ps[i] = hs[i]
    BY <1>3
  <2>2. hs[i].at \in Nat /\ hs[i].data \in Seq(Bytes)
    BY <2>1, SourceParts
  <2> QED
    BY <2>1, <2>2
<1> QED
  BY <1>1, <1>3, <1>4 DEF Loadable, ps

\* With one more of them, its data are loaded at its address.
LEMMA FirstNext ==
  ASSUME HunkTypes, NEW hs, NEW b, Source(hs, b), NEW k \in DOMAIN hs, NEW l, l = k - 1
  PROVE  Overlay(Loaded(First(hs, l)), hs[k].at, hs[k].data, Loaded(First(hs, k)))
<1> DEFINE ps == First(hs, l)
           qs == First(hs, k)
<1>1. k \in Nat /\ k >= 1 /\ k <= Len(hs) /\ Len(hs) \in Nat
  BY SourceParts
<1>2. l \in 0 .. Len(hs) /\ k \in 0 .. Len(hs)
  BY <1>1
<1>3. Loadable(qs) /\ Len(qs) = k /\ \A i \in 1 .. k : qs[i] = hs[i]
  BY <1>2, FirstLoadable
<1>4. Loadable(ps) /\ Len(ps) = l /\ \A i \in 1 .. l : ps[i] = hs[i]
  <2>1. l \in 0 .. Len(hs)
    BY <1>2
  <2> QED
    BY <2>1, FirstLoadable
<1> HIDE DEF ps, qs
<1>5. Len(qs) = Len(ps) + 1 /\ \A i \in 1 .. Len(ps) : qs[i] = ps[i]
  BY <1>1, <1>3, <1>4
<1>6. Overlay(Loaded(ps), qs[Len(qs)].at, qs[Len(qs)].data, Loaded(qs))
  BY <1>3, <1>4, <1>5, LoadedAppended
<1>7. qs[Len(qs)] = hs[k]
  BY <1>1, <1>3
<1> QED
  BY <1>6, <1>7 DEF ps, qs

\* In one bank, their bytes are below the highest end of them.
LEMMA FirstWithin ==
  ASSUME HunkTypes, NEW hs, NEW b, Source(hs, b), Bank(hs), NEW k \in DOMAIN hs,
         NEW h \in Nat, High(hs, k, h), NEW a \in DOMAIN Loaded(First(hs, k))
  PROVE  a \in Nat /\ a < h
<1> DEFINE ps == First(hs, k)
<1>1. k \in Nat /\ k >= 1 /\ k <= Len(hs) /\ Len(hs) \in Nat
  BY SourceParts
<1>2. k \in 0 .. Len(hs)
  BY <1>1
<1>3. Loadable(ps) /\ Len(ps) = k /\ \A i \in 1 .. k : i \in DOMAIN hs /\ ps[i] = hs[i]
  BY <1>2, FirstLoadable
<1> HIDE DEF ps
<1>4. DOMAIN ps = 1 .. k /\ \A i \in DOMAIN ps : EndAt(ps, i) = EndAt(hs, i) /\ EndAt(ps, i) < Word
  BY <1>3 DEF Loadable, EndAt, Bank
<1>5. PICK i \in DOMAIN ps : a \in Nat /\ ps[i].at <= a /\ a < EndAt(ps, i)
  BY <1>3, <1>4, LoadedWithin DEF ps
<1>6. EndAt(ps, i) = EndAt(hs, i) /\ EndAt(hs, i) <= h
  BY <1>4, <1>5 DEF High
<1>7. EndAt(hs, i) \in Nat
  <2>1. i \in DOMAIN hs
    BY <1>3, <1>4
  <2>2. hs[i].at \in Nat /\ Len(hs[i].data) \in Nat
    BY <2>1, SourceParts
  <2> QED
    BY <2>2 DEF EndAt
<1> QED
  BY <1>5, <1>6, <1>7

\* All of them.
LEMMA FirstAll ==
  ASSUME NEW hs \in Seq(Hunk)
  PROVE  First(hs, Len(hs)) = hs
BY DEF First

\* The length of the binary file when hunk k is about to be copied, from its first address
\* to h: up to the hunk, or to the highest end of those before it.
Opened(hs, k, h) ==
  /\ hs[k].at <= h /\ \A j \in 1 .. k - 1 : EndAt(hs, j) <= h
  /\ h = hs[k].at \/ \E j \in 1 .. k - 1 : EndAt(hs, j) = h

\* ftobin is about to copy hunk k.
InHunk(hs, b, k) ==
  /\ k \in DOMAIN hs
  /\ at = b[k] /\ len = Len(hs[k].data) /\ addr = hs[k].at
  /\ base = hs[1].at /\ base + outpos = hs[k].at
  /\ \A i \in 1 .. k : hs[i].at >= base
  /\ Len(outfile) = maxseek /\ Opened(hs, k, base + Len(outfile))
  /\ Shows(outfile, base, Loaded(First(hs, k - 1)))

\* It has copied it.
InGap(hs, b, k) ==
  /\ k \in DOMAIN hs
  /\ at = b[k] + Len(hs[k].data) /\ addr = EndAt(hs, k)
  /\ base = hs[1].at /\ base + outpos = addr
  /\ \A i \in 1 .. k : hs[i].at >= base
  /\ Len(outfile) = (IF maxseek < addr - base THEN addr - base ELSE maxseek)
  /\ High(hs, k, base + Len(outfile))
  /\ Shows(outfile, base, Loaded(First(hs, k)))

\* It has copied them all.
Converted(hs) ==
  /\ \A i \in DOMAIN hs : hs[i].at >= hs[1].at
  /\ High(hs, Len(hs), hs[1].at + Len(outfile))
  /\ Shows(outfile, hs[1].at, Loaded(hs))

\* What ftobin has written shows what it has read; it has refused a file with a reason.
BinSoFar ==
  tool = "ftobin" /\ F_format = "RAS" =>
    \A hs, b : Source(hs, b) /\ Bank(hs) /\ GapEnds(hs) =>
      /\ state = "hunk" => \E k : InHunk(hs, b, k)
      /\ state = "gap" => \E k : InGap(hs, b, k)
      /\ state = "done" => Converted(hs)
      /\ state = "refused" => \E i \in DOMAIN hs : hs[i].at < hs[1].at

\* The first hunk.
LEMMA BinOpens ==
  ASSUME HunkTypes, ToolsFresh, Open, tool = "ftobin"
  PROVE  BinSoFar'
<1>1. /\ UNCHANGED dasmVars /\ state' = "hunk" /\ outfile' = <<>> /\ outpos' = 0 /\ maxseek' = 0
  BY DEF Open, ToolsFresh
<1>2. ASSUME NEW hs, NEW b, Source(hs, b)
      PROVE  \E k : InHunk(hs, b, k)'
  <2> DEFINE k == 1
  <2>1. at' = b[k] /\ len' = Len(hs[k].data) /\ addr' = hs[k].at /\ base' = hs[k].at
    BY <1>2, OpenReads
  <2>2. k \in DOMAIN hs
    BY <1>2, PartNone
  <2>3. hs[k].at \in Nat
    <3> HIDE DEF k
    <3> QED
      BY <1>2, <2>2, SourceParts
  <2>4. Len(outfile') = 0 /\ base' + outpos' = hs[k].at /\ base' + Len(outfile') = hs[k].at
    BY <1>1, <2>1, <2>3
  <2>5. /\ \A i \in 1 .. k : hs[i].at >= base'
        /\ Opened(hs, k, base' + Len(outfile'))
        /\ Shows(outfile', base', Loaded(First(hs, k - 1)))
    <3>1. \A i \in 1 .. k : i = 1
      OBVIOUS
    <3>2. \A i \in 1 .. k : hs[i].at >= base'
      BY <2>1, <2>3, <3>1
    <3>3. Opened(hs, k, base' + Len(outfile'))
      BY <2>3, <2>4 DEF Opened
    <3>4. Shows(outfile', base', Loaded(First(hs, k - 1)))
      BY <2>4 DEF Shows
    <3> QED
      BY <3>2, <3>3, <3>4
  <2>6. InHunk(hs, b, k)'
    BY <1>1, <2>1, <2>2, <2>4, <2>5 DEF InHunk
  <2> QED
    BY <2>6
<1>3. \A hs, b : Source(hs, b)' => \E k : InHunk(hs, b, k)'
  BY <1>1, <1>2, SourceStays
<1> QED
  BY <1>1, <1>3 DEF BinSoFar

\* A whole hunk is read.
LEMMA WholeRead ==
  ASSUME HunkTypes, NEW hs, NEW b, Source(hs, b), NEW k \in DOMAIN hs, at = b[k],
         NEW n \in Nat, n = Len(hs[k].data), NEW junk \in Junk(n)
  PROVE  Fread(n, junk) = hs[k].data /\ AfterRead(n) = b[k] + Len(hs[k].data)
<1> DEFINE d == Fread(n, junk)
           h == hs[k].data
<1>1. /\ h \in Seq(Bytes) /\ Len(h) \in Nat /\ DOMAIN h = 1 .. Len(h)
      /\ b[k] \in Nat /\ b[k] + Len(h) <= Len(In) /\ Len(In) \in Nat
  BY SourceParts
<1>2. \A x \in DOMAIN h : In[b[k] + x] = h[x]
  BY DEF Source
<1>3. d = [i \in 1 .. n |-> IF at + i <= Len(In) THEN In[at + i] ELSE junk]
  BY DEF Fread
<1>4. n = Len(h)
  OBVIOUS
<1> HIDE DEF h, d
<1>5. ASSUME NEW x \in 1 .. n
      PROVE  d[x] = h[x]
  <2>1. x \in DOMAIN h /\ at + x <= Len(In) /\ In[at + x] = h[x]
    BY <1>1, <1>2, <1>4
  <2> QED
    BY <1>3, <2>1
<1>6. d = h
  <2>1. d = [i \in 1 .. n |-> d[i]] /\ h = [i \in 1 .. n |-> h[i]]
    BY <1>1, <1>3, <1>4
  <2> QED
    BY <1>5, <2>1
<1>7. AfterRead(n) = b[k] + Len(h)
  BY <1>1, <1>4 DEF AfterRead
<1> QED
  BY <1>6, <1>7 DEF d, h

\* The highest end when hunk k has been copied.
LEMMA HighestEnd ==
  ASSUME HunkTypes, NEW hs, NEW b, Source(hs, b), NEW k \in DOMAIN hs, NEW h \in Nat,
         Opened(hs, k, h), NEW top \in Nat,
         top = IF h < EndAt(hs, k) THEN EndAt(hs, k) ELSE h
  PROVE  High(hs, k, top)
<1>1. k \in Nat /\ k >= 1 /\ hs[k].at \in Nat /\ Len(hs[k].data) \in Nat /\ k <= Len(hs)
      /\ DOMAIN hs = 1 .. Len(hs)
  BY SourceParts
<1>2. EndAt(hs, k) \in Nat /\ hs[k].at <= EndAt(hs, k)
  BY <1>1 DEF EndAt
<1>3. \A j \in 1 .. k - 1 : EndAt(hs, j) \in Nat /\ EndAt(hs, j) <= h
  <2>1. ASSUME NEW j \in 1 .. k - 1 PROVE EndAt(hs, j) \in Nat
    <3>1. j \in DOMAIN hs
      BY <1>1
    <3>2. hs[j].at \in Nat /\ Len(hs[j].data) \in Nat
      BY <3>1, SourceParts
    <3> QED
      BY <3>2 DEF EndAt
  <2> QED
    BY <2>1 DEF Opened
<1>4. k \in 1 .. k /\ \A j \in 1 .. k : j = k \/ j \in 1 .. k - 1
  BY <1>1
<1>5. \A j \in 1 .. k : EndAt(hs, j) <= top
  BY <1>2, <1>3, <1>4
<1>6. \E j \in 1 .. k : EndAt(hs, j) = top
  <2>1. CASE h < EndAt(hs, k)
    BY <1>4, <2>1
  <2>2. CASE ~(h < EndAt(hs, k)) /\ h = hs[k].at
    BY <1>2, <1>4, <2>2
  <2>3. CASE ~(h < EndAt(hs, k)) /\ h # hs[k].at
    <3>1. PICK j \in 1 .. k - 1 : EndAt(hs, j) = h
      BY <2>3 DEF Opened
    <3>2. j \in 1 .. k
      BY <1>1
    <3> QED
      BY <2>3, <3>1, <3>2
  <2> QED
    BY <2>1, <2>2, <2>3
<1> QED
  BY <1>5, <1>6 DEF High

\* Copying a hunk.
LEMMA BinCopies ==
  ASSUME HunkTypes, ToolTypes, BinSoFar, CopyHunk
  PROVE  BinSoFar'
<1>1. /\ len \in Nat /\ outpos \in Nat /\ outfile \in Seq(Bytes) /\ base \in Nat
      /\ addr \in Nat /\ maxseek \in Nat
  BY DEF ToolTypes
<1>2. PICK junk \in Junk(len) : outfile' = Written(outfile, outpos, Fread(len, junk))
  BY DEF CopyHunk
<1>3. /\ outpos' = outpos + len /\ at' = AfterRead(len) /\ addr' = (addr + len) % Word
      /\ state' = IF F_format = "RAS" THEN "gap" ELSE "done"
      /\ UNCHANGED dasmVars /\ base' = base /\ maxseek' = maxseek
      /\ tool = "ftobin" /\ state = "hunk"
  BY DEF CopyHunk, Running
<1>4. ASSUME F_format = "RAS", NEW hs, NEW b, Source(hs, b), Bank(hs), GapEnds(hs)
      PROVE  \E k : InGap(hs, b, k)'
  <2>1. PICK k : InHunk(hs, b, k)
    BY <1>3, <1>4 DEF BinSoFar
  <2> DEFINE d == hs[k].data
             m == Loaded(First(hs, k - 1))
             w == Loaded(First(hs, k))
  <2>2. /\ k \in DOMAIN hs
        /\ at = b[k] /\ len = Len(d) /\ addr = hs[k].at
        /\ base = hs[1].at /\ base + outpos = hs[k].at
        /\ \A i \in 1 .. k : hs[i].at >= base
        /\ Len(outfile) = maxseek /\ Opened(hs, k, base + Len(outfile))
        /\ Shows(outfile, base, m)
    BY <2>1 DEF InHunk
  <2>3. /\ d \in Seq(Bytes) /\ hs[k].at \in Nat /\ Len(d) \in Nat /\ b[k] \in Nat
        /\ EndAt(hs, k) < Word /\ EndAt(hs, k) = hs[k].at + Len(d)
    BY <1>4, <2>2, SourceParts DEF EndAt, Bank
  <2>4. Fread(len, junk) = d /\ AfterRead(len) = b[k] + Len(d)
    BY <1>1, <1>4, <2>2, WholeRead
  <2>5. Overlay(m, base + outpos, d, w)
    <3> DEFINE l == k - 1
    <3>1. l = k - 1
      OBVIOUS
    <3> HIDE DEF l
    <3>2. Overlay(Loaded(First(hs, l)), hs[k].at, hs[k].data, Loaded(First(hs, k)))
      BY <1>4, <2>2, <3>1, FirstNext
    <3> QED
      BY <2>2, <3>2 DEF l
  <2> DEFINE e == EndAt(hs, k)
             c == hs[k].at
  <2>14. e = c + Len(d) /\ base + outpos = c /\ addr = c /\ len = Len(d) /\ maxseek = Len(outfile)
    BY <2>2, <2>3
  <2>15. c \in Nat /\ Len(d) \in Nat /\ e \in Nat /\ e < Word
    BY <2>3
  <2> HIDE DEF d, m, w, c, e
  <2>6. outpos <= Len(outfile) /\ Len(outfile) \in Nat
    BY <1>1, <2>2, <2>3 DEF Opened
  <2>7. /\ Shows(outfile', base, w)
        /\ Len(outfile') = IF outpos + Len(d) > Len(outfile) THEN outpos + Len(d) ELSE Len(outfile)
    <3>1. (base + outpos) + Len(d) <= Word
      BY <2>14, <2>15, WordIs
    <3>2. outfile' = Written(outfile, outpos, d)
      BY <1>2, <2>4
    <3>3. /\ Shows(Written(outfile, outpos, d), base, w)
          /\ Len(Written(outfile, outpos, d))
               = IF outpos + Len(d) > Len(outfile) THEN outpos + Len(d) ELSE Len(outfile)
      <4>1. Shows(outfile, base, m)
        BY <2>2
      <4>2. d \in Seq(Bytes)
        BY <2>3
      <4> QED
        BY <1>1, <2>5, <2>6, <3>1, <4>1, <4>2, CopyShows
    <3> QED
      BY <3>2, <3>3
  <2>8. addr' = EndAt(hs, k)
    <3>1. addr' = e % Word
      BY <1>3, <2>14
    <3>2. e \in 0 .. Word - 1
      BY <2>15, WordIs
    <3>3. e % Word = e
      BY <3>2, WordIs, SmallRemainder
    <3> QED
      BY <3>1, <3>3 DEF e
  <2>9. base' + outpos' = addr' /\ addr' - base' = outpos + Len(d)
    <3>1. addr' = e /\ base' = base /\ outpos' = outpos + Len(d)
      BY <1>3, <2>8, <2>14 DEF e
    <3> QED
      BY <1>1, <2>14, <2>15, <3>1
  <2>10. /\ Len(outfile') = (IF maxseek' < addr' - base' THEN addr' - base' ELSE maxseek')
         /\ base' + Len(outfile') = (IF base + Len(outfile) < EndAt(hs, k) THEN EndAt(hs, k)
                                     ELSE base + Len(outfile))
         /\ base' + Len(outfile') \in Nat
    <3>1. Len(outfile') = (IF maxseek' < addr' - base' THEN addr' - base' ELSE maxseek')
      <4>1. maxseek' = Len(outfile)
        BY <1>3, <2>14
      <4>2. Len(outfile') = IF outpos + Len(d) > Len(outfile) THEN outpos + Len(d) ELSE Len(outfile)
        BY <2>7
      <4> QED
        BY <1>1, <2>6, <2>9, <2>15, <4>1, <4>2
    <3>2. e = base + (outpos + Len(d))
      BY <1>1, <2>14, <2>15
    <3>3. /\ base' + Len(outfile') = (IF base + Len(outfile) < EndAt(hs, k) THEN EndAt(hs, k)
                                     ELSE base + Len(outfile))
          /\ base' + Len(outfile') \in Nat
      <4>1. Len(outfile') = IF outpos + Len(d) > Len(outfile) THEN outpos + Len(d) ELSE Len(outfile)
        BY <2>7
      <4>2. base' = base
        BY <1>3
      <4> QED
        BY <1>1, <2>6, <2>15, <3>2, <4>1, <4>2 DEF e
    <3> QED
      BY <3>1, <3>3
  <2>11. High(hs, k, base' + Len(outfile'))
    <3> DEFINE h == base + Len(outfile)
               top == base' + Len(outfile')
    <3>1. /\ h \in Nat /\ Opened(hs, k, h) /\ top \in Nat
          /\ top = IF h < EndAt(hs, k) THEN EndAt(hs, k) ELSE h
      BY <1>1, <2>2, <2>6, <2>10
    <3> HIDE DEF h, top
    <3>2. High(hs, k, top)
      BY <1>4, <2>2, <3>1, HighestEnd
    <3> QED
      BY <3>2 DEF top
  <2>12. /\ at' = b[k] + Len(hs[k].data) /\ base' = hs[1].at
         /\ \A i \in 1 .. k : hs[i].at >= base'
         /\ Shows(outfile', base', Loaded(First(hs, k)))
    BY <1>3, <2>2, <2>4, <2>7 DEF d, w
  <2>13. InGap(hs, b, k)'
    BY <2>2, <2>8, <2>9, <2>10, <2>11, <2>12 DEF InGap
  <2> QED
    BY <2>13
<1>5. F_format' = "RAS" => \A hs, b : Source(hs, b)' /\ Bank(hs) /\ GapEnds(hs) =>
                              \E k : InGap(hs, b, k)'
  <2>1. F_format' = F_format
    BY <1>3 DEF dasmVars
  <2> QED
    BY <1>3, <1>4, <2>1, SourceStays
<1>6. F_format' = "RAS" => state' = "gap"
  BY <1>3 DEF dasmVars
<1> QED
  BY <1>5, <1>6 DEF BinSoFar

\* Hunk l is next to hunk k, where the output f is, and gap bytes are missing up to it.
UpNext(hs, k, l, f, o, p, gap) ==
  l = k + 1 /\ o + p = EndAt(hs, k) /\ gap = hs[l].at - o - Len(f)

\* They have been filled, if there are any.
FilledUp(g, f, p, gap) == g = IF gap > 0 THEN Written(f, p, Fill(gap, Byte - 1)) ELSE f

\* The output is ready for the next hunk, whether or not there was a gap to fill.
LEMMA GapFilled ==
  ASSUME HunkTypes, NEW hs, NEW b, Source(hs, b), Bank(hs), GapEnds(hs),
         NEW k \in DOMAIN hs, NEW l \in DOMAIN hs,
         NEW f \in Seq(Bytes), NEW o \in Nat, NEW p \in Nat,
         High(hs, k, o + Len(f)), Shows(f, o, Loaded(First(hs, k))),
         NEW gap \in Int, UpNext(hs, k, l, f, o, p, gap), NEW g, FilledUp(g, f, p, gap)
  PROVE  /\ Len(g) = (IF gap > 0 THEN hs[l].at - o ELSE Len(f))
         /\ Opened(hs, l, o + Len(g)) /\ Shows(g, o, Loaded(First(hs, k)))
<1> DEFINE a == hs[l].at
           h == o + Len(f)
           m == Loaded(First(hs, k))
<1>1. /\ k \in Nat /\ Len(f) \in Nat /\ h \in Nat /\ a \in Nat /\ gap = a - h
  <2>1. k \in Nat /\ a \in Nat
    BY SourceParts
  <2> QED
    BY <2>1 DEF UpNext
<1>2. \A j \in 1 .. k : EndAt(hs, j) \in Nat /\ EndAt(hs, j) <= h
  <2>1. ASSUME NEW j \in 1 .. k PROVE EndAt(hs, j) \in Nat
    <3>1. j \in DOMAIN hs
      <4>1. k <= Len(hs) /\ DOMAIN hs = 1 .. Len(hs) /\ Len(hs) \in Nat
        BY SourceParts
      <4> QED
        BY <1>1, <4>1
    <3>2. hs[j].at \in Nat /\ Len(hs[j].data) \in Nat
      BY <3>1, SourceParts
    <3> QED
      BY <3>2 DEF EndAt
  <2> QED
    BY <2>1 DEF High
<1>3. PICK q \in 1 .. k : EndAt(hs, q) = h
  BY DEF High
<1>4. l = k + 1 /\ l - 1 = k
  BY <1>1 DEF UpNext
<1>5. CASE gap > 0
  <2>1. EndAt(hs, k) = h
    <3>1. a > h
      BY <1>1, <1>5
    <3> HIDE DEF h
    <3>2. High(hs, k, h)
      BY DEF h
    <3> QED
      BY <1>1, <1>4, <3>1, <3>2 DEF GapEnds
  <2>2. p = Len(f)
    BY <1>1, <2>1 DEF UpNext
  <2>3. \A x \in DOMAIN m : x \in Nat /\ x < h
    <3>1. h \in Nat /\ High(hs, k, h)
      BY <1>1
    <3> HIDE DEF h
    <3> QED
      BY <3>1, FirstWithin
  <2> DEFINE z == Written(f, Len(f), Fill(gap, Byte - 1))
  <2>4. Shows(z, o, m) /\ Len(z) = Len(f) + gap
    <3>1. gap \in Nat /\ \A x \in DOMAIN m : x \in Nat /\ x < o + Len(f)
      BY <1>5, <2>3
    <3>2. Shows(f, o, m)
      OBVIOUS
    <3> HIDE DEF m
    <3> QED
      BY <3>1, <3>2, FillShows
  <2>5. g = z
    BY <1>5, <2>2 DEF FilledUp
  <2> HIDE DEF z, m
  <2>6. Len(g) = Len(f) + gap /\ o + Len(g) = a /\ Len(g) = a - o
    <3>1. Len(g) = Len(f) + gap
      BY <2>4, <2>5
    <3> HIDE DEF a
    <3> QED
      BY <1>1, <3>1
  <2>7. Opened(hs, l, o + Len(g))
    <3>1. \A j \in 1 .. k : EndAt(hs, j) <= a
      BY <1>1, <1>2, <1>5
    <3>2. o + Len(g) = hs[l].at /\ a <= a
      BY <1>1, <2>6
    <3> QED
      BY <1>4, <3>1, <3>2 DEF Opened
  <2> QED
    BY <1>5, <2>4, <2>5, <2>6, <2>7 DEF m
<1>6. CASE ~(gap > 0)
  <2>1. g = f /\ a <= h
    BY <1>1, <1>6 DEF FilledUp
  <2>2. Opened(hs, l, h)
    BY <1>2, <1>3, <1>4, <2>1 DEF Opened
  <2> QED
    BY <1>6, <2>1, <2>2
<1> QED
  BY <1>5, <1>6

\* Going on to the next hunk, to the end, or no further.
LEMMA BinGoesOn ==
  ASSUME HunkTypes, ToolTypes, BinSoFar, NextHunk
  PROVE  BinSoFar'
<1> DEFINE next == Getwlh(at)
           high == IF maxseek < addr - base THEN addr - base ELSE maxseek
           gap  == next - base - high
<1>1. /\ outpos \in Nat /\ outfile \in Seq(Bytes) /\ base \in Nat
  BY DEF ToolTypes
<1>2. /\ UNCHANGED dasmVars /\ base' = base /\ tool = "ftobin" /\ state = "gap"
  BY DEF NextHunk, Running
<1>3. /\ ~Whole(at) => state' = "done" /\ UNCHANGED outfile
      /\ Whole(at) /\ next < base => state' = "refused"
      /\ Whole(at) /\ ~(next < base) =>
           /\ maxseek' = IF gap > 0 THEN next - base ELSE high
           /\ outfile' = IF gap > 0 THEN Written(outfile, outpos, Fill(gap, Byte - 1)) ELSE outfile
           /\ outpos' = next - base
           /\ addr' = next /\ len' = Getwlh(at + 2) /\ at' = After(at + 2)
           /\ state' = "hunk"
  BY DEF NextHunk
<1> HIDE DEF next, high, gap
<1>4. ASSUME F_format = "RAS", NEW hs, NEW b, Source(hs, b), Bank(hs), GapEnds(hs)
      PROVE  /\ state' = "hunk" => \E k : InHunk(hs, b, k)'
             /\ state' = "gap" => \E k : InGap(hs, b, k)'
             /\ state' = "done" => Converted(hs)'
             /\ state' = "refused" => \E i \in DOMAIN hs : hs[i].at < hs[1].at
  <2>1. PICK k : InGap(hs, b, k)
    BY <1>2, <1>4 DEF BinSoFar
  <2>2. /\ k \in DOMAIN hs /\ at = b[k] + Len(hs[k].data)
        /\ addr = EndAt(hs, k) /\ base = hs[1].at /\ base + outpos = addr
        /\ \A i \in 1 .. k : hs[i].at >= base
        /\ Len(outfile) = high
        /\ High(hs, k, base + Len(outfile))
        /\ Shows(outfile, base, Loaded(First(hs, k)))
    BY <2>1 DEF InGap, high
  <2>3. k \in Nat /\ k >= 1 /\ k <= Len(hs) /\ Len(hs) \in Nat /\ DOMAIN hs = 1 .. Len(hs)
    BY <1>4, <2>2, SourceParts
  <2>4. CASE ~Whole(at)
    <3>1. k = Len(hs)
      BY <1>4, <2>2, <2>4, HeaderRead
    <3>2. First(hs, k) = hs
      BY <1>4, <3>1, FirstAll DEF Source
    <3>3. /\ \A i \in DOMAIN hs : hs[i].at >= hs[1].at
          /\ High(hs, Len(hs), hs[1].at + Len(outfile))
          /\ Shows(outfile, hs[1].at, Loaded(hs))
      BY <2>2, <2>3, <3>1, <3>2
    <3>4. Converted(hs)'
      BY <1>3, <2>4, <3>3 DEF Converted
    <3> QED
      BY <1>3, <2>4, <3>4
  <2>5. CASE Whole(at)
    <3> DEFINE l == k + 1
    <3>1. /\ l \in DOMAIN hs /\ next = hs[l].at /\ Getwlh(at + 2) = Len(hs[l].data)
          /\ After(at + 2) = b[l]
      BY <1>4, <2>2, <2>5, HeaderRead DEF next
    <3>2. l = k + 1
      OBVIOUS
    <3> HIDE DEF l
    <3>3. CASE next < base
      <4>1. hs[l].at < hs[1].at
        BY <2>2, <3>1, <3>3
      <4> QED
        BY <1>3, <2>5, <3>1, <3>3, <4>1
    <3>4. CASE ~(next < base)
      <4>1. /\ maxseek' = IF gap > 0 THEN next - base ELSE high
            /\ outfile' = IF gap > 0 THEN Written(outfile, outpos, Fill(gap, Byte - 1)) ELSE outfile
            /\ outpos' = next - base
            /\ addr' = next /\ len' = Getwlh(at + 2) /\ at' = After(at + 2)
            /\ state' = "hunk"
        BY <1>3, <2>5, <3>4
      <4>2. next \in Nat /\ Len(outfile) \in Nat
        <5>1. hs[l].at \in Nat
          BY <1>4, <3>1, SourceParts
        <5> QED
          BY <1>1, <3>1, <5>1
      <4>3. gap \in Int /\ UpNext(hs, k, l, outfile, base, outpos, gap)
        <5>1. gap = next - base - Len(outfile)
          BY <2>2 DEF gap
        <5>2. base + outpos = EndAt(hs, k) /\ gap = hs[l].at - base - Len(outfile)
          BY <2>2, <3>1, <5>1
        <5> QED
          BY <1>1, <3>2, <4>2, <5>1, <5>2 DEF UpNext
      <4>4. /\ Len(outfile') = (IF gap > 0 THEN hs[l].at - base ELSE Len(outfile))
            /\ Opened(hs, l, base + Len(outfile')) /\ Shows(outfile', base, Loaded(First(hs, k)))
        <5>1. l \in DOMAIN hs
          BY <3>1
        <5>2. k \in DOMAIN hs /\ High(hs, k, base + Len(outfile))
              /\ Shows(outfile, base, Loaded(First(hs, k)))
          BY <2>2
        <5>3. FilledUp(outfile', outfile, outpos, gap)
          BY <4>1 DEF FilledUp
        <5> QED
          BY <1>1, <1>4, <4>3, <5>1, <5>2, <5>3, GapFilled
      <4>5. Len(outfile') = maxseek'
        BY <2>2, <3>1, <4>1, <4>4
      <4>6. base' + outpos' = hs[l].at
        BY <1>1, <1>2, <3>1, <4>1, <4>2
      <4>7. First(hs, l - 1) = First(hs, k)
        BY <2>3, <3>2
      <4>8. \A i \in 1 .. l : hs[i].at >= base'
        <5>1. hs[l].at >= base
          BY <1>1, <3>1, <3>4, <4>2
        <5>2. \A i \in 1 .. l : i = l \/ i \in 1 .. k
          BY <2>3, <3>2
        <5> QED
          BY <1>2, <2>2, <5>1, <5>2
      <4>9. InHunk(hs, b, l)'
        <5>1. at' = b[l] /\ len' = Len(hs[l].data) /\ addr' = hs[l].at /\ base' = hs[1].at
          BY <1>2, <2>2, <3>1, <4>1
        <5>2. Opened(hs, l, base' + Len(outfile')) /\ Shows(outfile', base', Loaded(First(hs, l - 1)))
          BY <1>2, <4>4, <4>7
        <5> QED
          BY <3>1, <4>5, <4>6, <4>8, <5>1, <5>2 DEF InHunk
      <4> QED
        BY <4>1, <4>9
    <3> QED
      BY <3>3, <3>4
  <2> QED
    BY <2>4, <2>5
<1>5. F_format' = F_format
  BY <1>2 DEF dasmVars
<1>6. F_format' = "RAS" =>
        \A hs, b : Source(hs, b)' /\ Bank(hs) /\ GapEnds(hs) =>
             /\ state' = "hunk" => \E k : InHunk(hs, b, k)'
             /\ state' = "gap" => \E k : InGap(hs, b, k)'
             /\ state' = "done" => Converted(hs)'
             /\ state' = "refused" => \E i \in DOMAIN hs : hs[i].at < hs[1].at
  BY <1>2, <1>4, <1>5, SourceStays
<1> QED
  BY <1>6 DEF BinSoFar

-----------------------------------------------------------------------------
(***************************************************************************)
(* The hunks that are read, and the binary file                            *)
(***************************************************************************)
\* The hunks read from a complete file are a source of the memory of the assembly.
LEMMA ReadIsSource ==
  ASSUME HunkInv, dasm = "complete", F_format = "RAS", runs # <<>>, HunksFit
  PROVE  \E b : Source(Read, b) /\ Loaded(Read) = Memory
<1>1. HunkTypes /\ RasSoFar /\ FI_temp \in Seq(Bytes) /\ runs \in Seq(Piece)
  BY DEF HunkInv, FileInv, HunkTypes
<1>2. Fits(runs)
  BY <1>1, FittingRuns
<1>3. PICK hs, s : /\ Hunked(FI_temp, hs, s, Len(hs)) /\ Len(hs) > 0
                   /\ Loaded(hs) = Loaded(runs)
  BY <1>1, <1>2 DEF RasSoFar
<1>4. PICK b : Source(hs, b)
  BY <1>1, <1>3, HunksAreSource
<1>5. Read = hs
  <2>1. HunksOf(FI_temp) = hs
    BY <1>1, <1>3, FileRead
  <2> QED
    BY <2>1 DEF Read, In
<1> QED
  BY <1>3, <1>4, <1>5 DEF Memory

\* The ends of the hunks are numbers.
LEMMA EndsAre ==
  ASSUME HunkTypes, NEW hs, NEW b, Source(hs, b), NEW i \in DOMAIN hs
  PROVE  EndAt(hs, i) \in Nat
<1>1. hs[i].at \in Nat /\ Len(hs[i].data) \in Nat
  BY SourceParts
<1> QED
  BY <1>1 DEF EndAt

\* The highest end is the one that is chosen.
LEMMA HighestIs ==
  ASSUME HunkTypes, NEW b, Source(Read, b), NEW n \in 0 .. Len(Read), NEW h, High(Read, n, h)
  PROVE  Highest(n + 1) = h
<1> DEFINE S == {EndOf(j) : j \in 1 .. n}
           Top(x) == \A j \in 1 .. n : EndOf(j) <= x
<1>1. Len(Read) \in Nat /\ n \in Nat /\ (n + 1) - 1 = n
  BY DEF Source
<1>2. ASSUME NEW j \in 1 .. n PROVE EndOf(j) = EndAt(Read, j) /\ EndOf(j) \in Nat
  <2>1. j \in DOMAIN Read
    BY <1>1 DEF Source
  <2>2. EndAt(Read, j) \in Nat
    BY <2>1, EndsAre
  <2> QED
    BY <2>2 DEF EndAt, EndOf
<1>3. Highest(n + 1) = CHOOSE x \in S : Top(x)
  BY <1>1 DEF Highest
<1>4. h \in S /\ Top(h)
  BY <1>2 DEF High
<1>5. ASSUME NEW x \in S, Top(x) PROVE x = h
  <2>1. PICK j \in 1 .. n : x = EndOf(j)
    OBVIOUS
  <2>2. PICK i \in 1 .. n : h = EndOf(i)
    BY <1>4
  <2>3. x \in Nat /\ h \in Nat /\ x <= h /\ h <= x
    BY <1>2, <1>4, <1>5, <2>1, <2>2
  <2> QED
    BY <2>3
<1> HIDE DEF S, Top
<1> QED
  BY <1>3, <1>4, <1>5

\* What is asked of the hunks that are read.
LEMMA ReadInBank ==
  ASSUME HunkTypes, NEW b, Source(Read, b), InOneBank, GapsAtEnd
  PROVE  Bank(Read) /\ GapEnds(Read)
<1>1. Bank(Read)
  BY DEF Bank, InOneBank, EndOf, EndAt
<1>2. ASSUME NEW i \in DOMAIN Read, NEW n \in Nat, NEW h \in Nat, i = n + 1, High(Read, n, h),
             Read[i].at > h
      PROVE  EndAt(Read, n) = h
  <2>1. n \in 0 .. Len(Read) /\ i # 1 /\ i - 1 = n
    <3>1. DOMAIN Read = 1 .. Len(Read) /\ Len(Read) \in Nat
      BY DEF Source
    <3>2. n >= 1
      BY <1>2 DEF High
    <3> QED
      BY <1>2, <3>1, <3>2
  <2>2. Highest(n + 1) = h
    BY <1>2, <2>1, HighestIs
  <2>3. Highest(i) = h
    BY <1>2, <2>2
  <2>4. EndOf(i - 1) = h
    BY <1>2, <2>1, <2>3 DEF GapsAtEnd
  <2> QED
    BY <2>1, <2>4 DEF EndOf, EndAt
<1> QED
  BY <1>1, <1>2 DEF GapEnds

\* The binary file of all hunks is the flat one.
LEMMA ConvertedIsFlat ==
  ASSUME HunkTypes, ToolTypes, NEW b, Source(Read, b), Loaded(Read) = Memory, Converted(Read)
  PROVE  /\ FirstLowest
         /\ outfile = [i \in 1 .. Highest(Len(Read) + 1) - Read[1].at |->
                         IF Read[1].at + i - 1 \in DOMAIN Memory
                         THEN Memory[Read[1].at + i - 1] ELSE Byte - 1]
<1> DEFINE a == Read[1].at
           h == a + Len(outfile)
           n == Len(Read)
<1>1. FirstLowest
  BY DEF FirstLowest, Converted
<1>2. outfile \in Seq(Bytes) /\ Len(outfile) \in Nat /\ n \in Nat /\ n \in 0 .. n
  BY DEF ToolTypes, Source
<1>3. a \in Nat
  <2>1. 1 \in DOMAIN Read
    BY DEF Source
  <2> QED
    BY <2>1, SourceParts
<1>4. Highest(n + 1) = h
  <2>1. High(Read, n, h) /\ n \in 0 .. Len(Read)
    BY <1>2 DEF Converted
  <2> HIDE DEF n, h
  <2> QED
    BY <2>1, HighestIs
<1> HIDE DEF n
<1>5. Highest(n + 1) - a = Len(outfile)
  BY <1>2, <1>3, <1>4
<1>6. outfile = [i \in 1 .. Len(outfile) |-> outfile[i]]
  BY <1>2
<1>7. ASSUME NEW i \in 1 .. Len(outfile)
      PROVE  outfile[i] = IF a + i - 1 \in DOMAIN Memory THEN Memory[a + i - 1] ELSE Byte - 1
  <2>1. outfile[i] = ByteOf(Memory, a + (i - 1))
    BY DEF Converted, Shows
  <2> QED
    BY <1>2, <2>1 DEF ByteOf
<1>8. outfile = [i \in 1 .. Len(outfile) |->
                   IF a + i - 1 \in DOMAIN Memory THEN Memory[a + i - 1] ELSE Byte - 1]
  BY <1>6, <1>7
<1>9. outfile = [i \in 1 .. Highest(n + 1) - a |->
                   IF a + i - 1 \in DOMAIN Memory THEN Memory[a + i - 1] ELSE Byte - 1]
  BY <1>5, <1>8
<1> QED
  BY <1>1, <1>9 DEF n, a

-----------------------------------------------------------------------------
\* The invariant for ftobin.
BinInv == HexInv /\ BinSoFar

\* It holds at first.
LEMMA BinInit == InitAll => BinInv
<1>1. InitAll => BinSoFar
  BY DEF InitAll, ConvertInit, BinSoFar
<1> QED
  BY <1>1, HexInit DEF BinInv

\* Every step keeps it.
LEMMA BinStep == BinInv /\ [Next]_vars => BinInv'
<1> SUFFICES ASSUME BinInv, [Next]_vars PROVE BinInv'
  OBVIOUS
<1>1. HexInv /\ BinSoFar /\ ToolsFresh /\ HunkTypes /\ ToolTypes /\ ToolsWait
  BY DEF BinInv, HexInv, HunkInv, FileInv
<1>2. HexInv'
  BY <1>1, HexStep
<1>3. CASE Assemble /\ UNCHANGED convert
  <2>1. tool = "none"
    BY <1>1, <1>3 DEF Assemble, v_org, AskForPass, Generate, GenerateObscure, GenerateReversed,
       Complete, NextPass, GiveUp, Statement, ToolsWait
  <2>2. BinSoFar'
    BY <1>3, <2>1 DEF BinSoFar, convert
  <2> QED
    BY <1>2, <2>2 DEF BinInv
<1>4. ASSUME NEW t \in {"ftobin", "ftohex"}, Start(t)
      PROVE  BinInv'
  <2>1. state' = "open"
    BY <1>4 DEF Start
  <2>2. BinSoFar'
    BY <2>1 DEF BinSoFar
  <2> QED
    BY <1>2, <2>2 DEF BinInv
<1>5. CASE Open
  <2>1. tool = "ftobin" => BinSoFar'
    BY <1>1, <1>5, BinOpens
  <2>2. tool' = tool
    BY <1>5 DEF Open
  <2>3. BinSoFar'
    BY <2>1, <2>2 DEF BinSoFar
  <2> QED
    BY <1>2, <2>3 DEF BinInv
<1>6. CASE CopyHunk \/ NextHunk
  <2>1. BinSoFar'
    BY <1>1, <1>6, BinCopies, BinGoesOn
  <2> QED
    BY <1>2, <2>1 DEF BinInv
<1>7. CASE WriteRecord \/ NextHeader
  <2>1. tool = "ftohex" /\ tool' = tool
    BY <1>7 DEF WriteRecord, NextHeader, Running
  <2>2. BinSoFar'
    BY <2>1 DEF BinSoFar
  <2> QED
    BY <1>2, <2>2 DEF BinInv
<1>8. CASE UNCHANGED vars
  <2>1. UNCHANGED dasmVars /\ UNCHANGED convert
    BY <1>8 DEF vars
  <2>2. /\ UNCHANGED <<tool, state, at, len, addr, base, maxseek, outpos, outfile>>
        /\ UNCHANGED F_format
    BY <2>1 DEF convert, dasmVars
  <2>3. \A hs, b, k : InHunk(hs, b, k)' <=> InHunk(hs, b, k)
    BY <2>2 DEF InHunk
  <2>4. \A hs, b, k : InGap(hs, b, k)' <=> InGap(hs, b, k)
    BY <2>2 DEF InGap
  <2>5. \A hs : Converted(hs)' <=> Converted(hs)
    BY <2>2 DEF Converted
  <2>6. BinSoFar'
    BY <1>1, <2>1, <2>2, <2>3, <2>4, <2>5, SourceStays DEF BinSoFar
  <2> QED
    BY <1>2, <2>6 DEF BinInv
<1> QED
  BY <1>3, <1>4, <1>5, <1>6, <1>7, <1>8 DEF Next

\* Whenever ftobin has converted the file of format 2 of an assembly that has generated
\* something, whose hunks fit their length fields, end below the last address, and leave gaps
\* only behind the highest end so far, the binary file begins with the first address and ends
\* with the highest, has for each address between them the byte that was generated last, and
\* 255 where there was none; a file is refused exactly if its first address is not the lowest.
THEOREM BinFileCorrect == Spec => []FtobinCorrect
<1>1. BinInv => FtobinCorrect
  <2>1. SUFFICES ASSUME BinInv, tool = "ftobin", state \in {"done", "refused"},
                        F_format = "RAS", runs # <<>>, HunksFit, InOneBank, GapsAtEnd
                 PROVE  FtobinFlat
    BY DEF FtobinCorrect
  <2>2. HunkInv /\ HunkTypes /\ ToolTypes /\ BinSoFar /\ dasm = "complete"
    BY <2>1 DEF BinInv, HexInv, HunkInv, FileInv, ToolsWait
  <2>3. PICK b : Source(Read, b) /\ Loaded(Read) = Memory
    BY <2>1, <2>2, ReadIsSource
  <2>4. Bank(Read) /\ GapEnds(Read)
    BY <2>1, <2>2, <2>3, ReadInBank
  <2>5. /\ state = "done" => Converted(Read)
        /\ state = "refused" => \E i \in DOMAIN Read : Read[i].at < Read[1].at
    BY <2>1, <2>2, <2>3, <2>4 DEF BinSoFar
  <2>6. CASE state = "done"
    BY <2>2, <2>3, <2>5, <2>6, ConvertedIsFlat DEF FtobinFlat
  <2>7. CASE state = "refused"
    <3>1. PICK i \in DOMAIN Read : Read[i].at < Read[1].at
      BY <2>5, <2>7
    <3>2. Read[i].at \in Nat /\ Read[1].at \in Nat
      <4>1. 1 \in DOMAIN Read
        BY <2>3 DEF Source
      <4> QED
        BY <2>2, <2>3, <4>1, SourceParts
    <3>3. ~FirstLowest
      BY <3>1, <3>2 DEF FirstLowest
    <3> QED
      BY <2>7, <3>3 DEF FtobinFlat
  <2> QED
    BY <2>1, <2>6, <2>7
<1> QED
  BY <1>1, BinInit, BinStep, PTL DEF Spec
=============================================================================
