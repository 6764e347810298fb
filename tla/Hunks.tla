--------------------------------- MODULE Hunks ---------------------------------
(***************************************************************************)
(* The output file, byte by byte: what generate() and closegenerate()      *)
(* write in the three formats, over several passes.                        *)
(*                                                                         *)
(* Every pass begins with an empty file, but the static variables of       *)
(* generate(), and OrgFill, are those of the pass before.  With IFCONST a  *)
(* pass may meet other statements than the last one, so any may follow any.*)
(* Where the origins come from is Assembler's concern: here they are any.  *)
(***************************************************************************)
EXTENDS Integers, Sequences, FiniteSets

CONSTANTS
  Byte,          \* how many values a byte has: 256
  Formats,       \* of the option -f that are tried
  Origins,       \* operands of ORG
  Fills,         \* second operands of ORG
  DEFORGFILL,    \* the fill value as long as there was no such operand
  Lengths,       \* how many bytes a statement generates
  MaxStatements, \* of all passes together
  MaxPasses,
  maxFileSize

Bytes == 0 .. Byte - 1

ASSUME HunksAssumption ==
  /\ Byte \in Nat \ {0, 1, 2}
  /\ Formats \subseteq {"DEFAULT", "RAS", "RAW"}
  /\ Origins \subseteq Nat /\ Lengths \subseteq Nat
  /\ Fills \subseteq Bytes /\ DEFORGFILL \in Bytes
  /\ MaxStatements \in Nat /\ MaxPasses \in Nat \ {0} /\ maxFileSize \in Nat

VARIABLES
  F_format,
  pass,
  Redo,       \* this pass is not the last
  Csegment,   \* Csegment->org
  unknown,    \* its flag SF_UNKNOWN
  OrgFill,
  FI_temp,    \* contents of the output file
  Fisclear,   \* nothing was written in this pass yet
  org,        \* static, in generate(): address of the next byte of the file
  Seglen,     \* bytes of the hunk that is open
  Seekback,   \* where its length has to be written
  dasm,       \* "assembling", "aborted" or "complete"
  left,       \* statements there may still be
  runs        \* history: what was generated in this pass, where, with which fill

static     == <<OrgFill, org, Seglen, Seekback>>
origin    == <<Csegment, unknown>>
dasmVars  == <<F_format, pass, Redo, origin, FI_temp, Fisclear, dasm, left, runs, static>>

-----------------------------------------------------------------------------
\* The two bytes of a number, the lower one first; higher ones are lost.
Putw(n) == <<n % Byte, (n \div Byte) % Byte>>

\* bs is written at position at of f; a hole before it reads as zeros.
Written(f, at, bs) ==
  LET end == at + Len(bs)
  IN [i \in 1 .. (IF end > Len(f) THEN end ELSE Len(f)) |->
        IF i > at /\ i <= end THEN bs[i - at]
        ELSE IF i <= Len(f) THEN f[i] ELSE 0]

Fill(n, b) == [i \in 1 .. n |-> b]

\* Data are numbered, so that a byte tells where it comes from; 0 and Byte - 1 are not data.
Total(rs) ==
  LET sum[i \in 0 .. Len(rs)] == IF i = 0 THEN 0 ELSE sum[i - 1] + Len(rs[i].data)
  IN sum[Len(rs)]
Data(n) == [i \in 1 .. n |-> 1 + ((Total(runs) + i - 1) % (Byte - 2))]

Statement == dasm = "assembling" /\ left > 0 /\ left' = left - 1

\* ORG a and ORG a,fill
v_org ==
  /\ Statement
  /\ \E a \in Origins : Csegment' = a
  /\ unknown' = FALSE
  /\ OrgFill' \in {OrgFill} \cup Fills
  /\ UNCHANGED <<F_format, pass, Redo, FI_temp, Fisclear, dasm, runs, org, Seglen, Seekback>>

\* Any statement may ask for another pass; nothing is written in this one any more.
AskForPass ==
  /\ Statement /\ Redo' = TRUE
  /\ UNCHANGED <<F_format, pass, origin, FI_temp, Fisclear, dasm, runs, static>>

-----------------------------------------------------------------------------
(***************************************************************************)
(* generate()                                                              *)
(***************************************************************************)

\* A header with an empty length field, and the position of that field.
Header(f)     == f \o Putw(Csegment) \o <<0, 0>>
LengthField(f) == Len(f) + 2

Patched(f) == Written(f, Seekback, Putw(Seglen))

\* FORMAT_RAS: a hunk begins with the first byte and where the address is not the next one.
GenerateRas(data) ==
  LET fresh == Fisclear \/ org # Csegment
      f     == IF Fisclear THEN FI_temp ELSE Patched(FI_temp)
  IN /\ FI_temp' = (IF fresh THEN Header(f) ELSE FI_temp) \o data
     /\ Seekback' = IF fresh THEN LengthField(f) ELSE Seekback
     /\ Seglen' = (IF fresh THEN 0 ELSE Seglen) + Len(data)

\* Mutant of GenerateFlat: the fill is written behind the data.
GenerateFlatLate(data) ==
  /\ FI_temp' = (IF Fisclear /\ F_format = "DEFAULT" THEN Putw(Csegment) ELSE FI_temp)
                  \o data \o (IF Fisclear THEN <<>> ELSE Fill(Csegment - org, OrgFill))
  /\ UNCHANGED <<Seekback, Seglen>>

\* FORMAT_DEFAULT and FORMAT_RAW: the gap is filled, but not before the first byte.
GenerateFlat(data) ==
  /\ FI_temp' = (IF Fisclear /\ F_format = "DEFAULT" THEN Putw(Csegment) ELSE FI_temp)
                  \o (IF Fisclear THEN <<>> ELSE Fill(Csegment - org, OrgFill)) \o data
  /\ UNCHANGED <<Seekback, Seglen>>

\* The first byte needs an origin.  Redo and REASON_OBSCURE, and the origin stays.
Obscure == ~Redo /\ Fisclear /\ unknown

GenerateObscure ==
  /\ Statement /\ Obscure
  /\ Redo' = TRUE /\ Fisclear' = FALSE
  /\ UNCHANGED <<F_format, pass, origin, FI_temp, dasm, runs, static>>

\* ERROR_ORIGIN_REVERSE_INDEXED
Reversed == ~Redo /\ ~Fisclear /\ F_format # "RAS" /\ Csegment < org

Generate ==
  /\ Statement /\ ~Reversed /\ ~Obscure
  /\ \E n \in Lengths :
       /\ IF Redo THEN UNCHANGED <<FI_temp, Fisclear, org, Seglen, Seekback, runs>>
          ELSE /\ IF F_format = "RAS" THEN GenerateRas(Data(n)) ELSE GenerateFlat(Data(n))
               /\ Fisclear' = FALSE
               /\ org' = Csegment + n
               /\ runs' = Append(runs, [at |-> Csegment, data |-> Data(n), fill |-> OrgFill])
       /\ Csegment' = Csegment + n
       /\ dasm' = IF Csegment + n > maxFileSize THEN "aborted" ELSE dasm
  /\ UNCHANGED <<F_format, pass, Redo, unknown, OrgFill>>

GenerateReversed ==
  /\ Statement /\ Reversed
  /\ dasm' = "aborted"
  /\ UNCHANGED <<F_format, pass, Redo, origin, FI_temp, Fisclear, runs, static>>

-----------------------------------------------------------------------------
\* Mutant of closegenerate: the last length is not written.
closegenerateNot == UNCHANGED FI_temp

\* The length of the last hunk, also if this pass has begun none.
closegenerate ==
  FI_temp' = IF ~Redo /\ F_format = "RAS" THEN Patched(FI_temp) ELSE FI_temp

Complete ==
  /\ dasm = "assembling" /\ ~Redo
  /\ closegenerate
  /\ dasm' = "complete"
  /\ UNCHANGED <<F_format, pass, Redo, origin, Fisclear, left, runs, static>>

\* The file is opened again for the next pass.
NextPass ==
  /\ dasm = "assembling" /\ Redo /\ pass < MaxPasses
  /\ pass' = pass + 1 /\ Redo' = FALSE
  /\ FI_temp' = <<>> /\ Fisclear' = TRUE /\ unknown' = TRUE
  /\ runs' = <<>>
  /\ UNCHANGED <<F_format, Csegment, dasm, left, static>>

GiveUp ==
  /\ dasm = "assembling" /\ Redo /\ pass = MaxPasses
  /\ dasm' = "aborted"
  /\ UNCHANGED <<F_format, pass, Redo, origin, FI_temp, Fisclear, left, runs, static>>

Init ==
  /\ F_format \in Formats
  /\ pass = 1 /\ Redo = FALSE
  /\ Csegment = 0 /\ unknown = TRUE /\ OrgFill = DEFORGFILL
  /\ FI_temp = <<>> /\ Fisclear = TRUE
  /\ org = 0 /\ Seglen = 0 /\ Seekback = 0
  /\ dasm = "assembling" /\ left = MaxStatements
  /\ runs = <<>>

Assemble ==
  \/ v_org \/ AskForPass \/ Generate \/ GenerateObscure \/ GenerateReversed \/ Complete
  \/ NextPass \/ GiveUp

-----------------------------------------------------------------------------
(***************************************************************************)
(* What a file means                                                       *)
(***************************************************************************)

Word == Byte * Byte
Getw(f, at) == f[at + 1] + Byte * f[at + 2]

\* A hunk at position at: origin, length and that many bytes.
HunkEnd(f, at) == at + 4 + Getw(f, at + 2)
HasHunk(f, at) == at + 4 <= Len(f) /\ HunkEnd(f, at) <= Len(f)

\* The hunks of a file, up to where there is no whole one.
HunksOf(f) ==
  LET from[at \in 0 .. Len(f)] ==
        IF HasHunk(f, at)
        THEN <<[at |-> Getw(f, at), data |-> SubSeq(f, at + 5, HunkEnd(f, at))]>>
               \o from[HunkEnd(f, at)]
        ELSE <<>>
  IN from[0]

\* Nothing of the file is left behind its hunks.
WholeHunks(f) == Total(HunksOf(f)) + 4 * Len(HunksOf(f)) = Len(f)

\* The memory after loading pieces of it one after another.  Where they overlap, the later
\* one counts; addresses are words.
Loaded(pieces) ==
  LET cells == UNION {{<<i, j>> : j \in DOMAIN pieces[i].data} : i \in DOMAIN pieces}
      address(c) == (pieces[c[1]].at + c[2] - 1) % Word
      after(c, d) == c[1] > d[1] \/ (c[1] = d[1] /\ c[2] > d[2])
      last(a) == CHOOSE c \in cells : /\ address(c) = a
                                      /\ \A d \in cells \ {c} : address(d) = a => after(c, d)
  IN [a \in {address(c) : c \in cells} |-> pieces[last(a)[1]].data[last(a)[2]]]

\* The flat file for a list of pieces in ascending order: the gap before each has its fill.
Flattened(rs) ==
  LET end(i) == rs[i].at + Len(rs[i].data)
      piece(a) == CHOOSE i \in DOMAIN rs : end(i) > a /\ \A j \in 1 .. i - 1 : end(j) <= a
      byte(a) == LET p == rs[piece(a)]
                 IN IF a < p.at THEN p.fill ELSE p.data[a - p.at + 1]
  IN [k \in 1 .. end(Len(rs)) - rs[1].at |-> byte(rs[1].at + k - 1)]
=============================================================================
