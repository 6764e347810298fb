------------------------------- MODULE Converters -------------------------------
(***************************************************************************)
(* ftobin and ftohex, reading the file that an assembly has left.          *)
(***************************************************************************)
EXTENDS Hunks

CONSTANT PERLINE    \* data bytes of a line of ftohex

ASSUME ConvertersAssumption == PERLINE \in Nat \ {0}

VARIABLES
  tool,      \* "none" yet, "ftobin" or "ftohex"
  state,     \* of its convert(): "open", "hunk", "gap", "done" or "refused"
  at,        \* ftell(in)
  len,       \* bytes of the hunk still to be read
  addr,      \* its org
  base,      \* the first origin
  maxseek,   \* how far ftobin's output is filled, by its own count
  outpos,    \* ftell(out)
  outfile,   \* the bytes ftobin has written
  records    \* the lines ftohex has written

convert == <<tool, state, at, len, addr, base, maxseek, outpos, outfile, records>>
vars    == <<dasmVars, convert>>

In == FI_temp

\* getwlh(): 0, and the end of the file, unless two more bytes can be read.
Whole(p) == p + 2 <= Len(In)
Getwlh(p) == IF Whole(p) THEN Getw(In, p) ELSE 0
After(p)  == IF Whole(p) THEN p + 2 ELSE Len(In)

\* fread(): where the file is too short, buf keeps what it held, which may be anything.
Fread(n, junk) == [i \in 1 .. n |-> IF at + i <= Len(In) THEN In[at + i] ELSE junk]

\* Mutant of AfterRead: the end of the file is passed.
AfterReadBeyond(n) == at + n

AfterRead(n)   == IF at + n <= Len(In) THEN at + n ELSE Len(In)
Junk(n)        == IF at + n <= Len(In) THEN {0} ELSE Bytes

Running(t, s) == tool = t /\ state = s

\* A user converts the file with the format it was assembled with.
Start(t) ==
  /\ dasm = "complete" /\ tool = "none"
  /\ tool' = t /\ state' = "open"
  /\ UNCHANGED <<dasmVars, at, len, addr, base, maxseek, outpos, outfile, records>>

\* The first header, as both tools read it.
Open ==
  /\ state = "open"
  /\ LET org0 == IF F_format = "RAW" THEN 0 ELSE Getwlh(0)
         p    == IF F_format = "RAW" THEN 0 ELSE After(0)
     IN /\ addr' = org0 /\ base' = org0
        /\ at'  = IF F_format = "RAS" THEN After(p) ELSE p
        /\ len' = IF F_format = "RAS" THEN Getwlh(p) ELSE Len(In) - p
  /\ state' = "hunk"
  /\ UNCHANGED <<dasmVars, tool, maxseek, outpos, outfile, records>>

-----------------------------------------------------------------------------
(***************************************************************************)
(* ftobin                                                                  *)
(***************************************************************************)

\* The data of a hunk go where the output file is.  org is 16 bits wide.
CopyHunk ==
  /\ Running("ftobin", "hunk")
  /\ \E junk \in Junk(len) : outfile' = Written(outfile, outpos, Fread(len, junk))
  /\ outpos' = outpos + len
  /\ at' = AfterRead(len)
  /\ addr' = (addr + len) % Word
  /\ len' = 0
  /\ state' = IF F_format = "RAS" THEN "gap" ELSE "done"
  /\ UNCHANGED <<dasmVars, tool, base, maxseek, records>>

\* Mutant of NextHunk: the length of the gap is counted from the last hunk.
NextHunkRelative ==
  /\ Running("ftobin", "gap")
  /\ LET next == Getwlh(at)
         gap  == next - addr
     IN IF ~Whole(at)
        THEN state' = "done" /\ UNCHANGED <<at, len, addr, maxseek, outpos, outfile>>
        ELSE /\ outfile' = IF gap > 0 THEN Written(outfile, outpos, Fill(gap, Byte - 1))
                           ELSE outfile
             /\ outpos' = next - base
             /\ addr' = next /\ len' = Getwlh(at + 2) /\ at' = After(at + 2)
             /\ state' = "hunk" /\ UNCHANGED maxseek
  /\ UNCHANGED <<dasmVars, tool, base, records>>

\* Up to the next hunk: what was never written is filled, and then the output is sought to
\* the hunk.  The fill is written where the last hunk has ended.
NextHunk ==
  /\ Running("ftobin", "gap")
  /\ LET next == Getwlh(at)
         high == IF maxseek < addr - base THEN addr - base ELSE maxseek
         gap  == next - base - high
     IN IF ~Whole(at)
        THEN /\ state' = "done" /\ maxseek' = high
             /\ UNCHANGED <<at, len, addr, outpos, outfile>>
        ELSE IF next < base
        THEN /\ state' = "refused" /\ maxseek' = high
             /\ addr' = next /\ at' = at + 2
             /\ UNCHANGED <<len, outpos, outfile>>
        ELSE /\ maxseek' = IF gap > 0 THEN next - base ELSE high
             /\ outfile' = IF gap > 0 THEN Written(outfile, outpos, Fill(gap, Byte - 1))
                           ELSE outfile
             /\ outpos' = next - base
             /\ addr' = next /\ len' = Getwlh(at + 2) /\ at' = After(at + 2)
             /\ state' = "hunk"
  /\ UNCHANGED <<dasmVars, tool, base, records>>

-----------------------------------------------------------------------------
(***************************************************************************)
(* ftohex                                                                  *)
(***************************************************************************)

Sum(bs) == LET sum[i \in 0 .. Len(bs)] == IF i = 0 THEN 0 ELSE sum[i - 1] + bs[i]
           IN sum[Len(bs)]

\* Mutant of Record: the sum leaves out the address.
RecordUnaddressed(a, bs) ==
  [addr |-> Putw(a), data |-> bs, check |-> (0 - (Len(bs) + Sum(bs))) % Byte]

\* :llaa00dd...cc; all that is added up fits in a byte, and so does cc.
Record(a, bs) ==
  [addr |-> Putw(a), data |-> bs,
   check |-> (0 - (Len(bs) + (a \div Byte) + (a % Byte) + Sum(bs))) % Byte]

WriteRecord ==
  /\ Running("ftohex", "hunk") /\ len > 0
  /\ LET n == IF len > PERLINE THEN PERLINE ELSE len
     IN /\ \E junk \in Junk(n) : records' = Append(records, Record(addr, Fread(n, junk)))
        /\ at' = AfterRead(n)
        /\ len' = len - n /\ addr' = addr + n
  /\ UNCHANGED <<dasmVars, tool, state, base, maxseek, outpos, outfile>>

NextHeader ==
  /\ Running("ftohex", "hunk") /\ len = 0
  /\ IF F_format = "RAS" /\ Whole(at)
     THEN /\ addr' = Getwlh(at) /\ len' = Getwlh(at + 2) /\ at' = After(at + 2)
          /\ UNCHANGED state
     ELSE state' = "done" /\ UNCHANGED <<at, len, addr>>
  /\ UNCHANGED <<dasmVars, tool, base, maxseek, outpos, outfile, records>>

-----------------------------------------------------------------------------
ConvertInit ==
  /\ tool = "none" /\ state = "done"
  /\ at = 0 /\ len = 0 /\ addr = 0 /\ base = 0 /\ maxseek = 0 /\ outpos = 0
  /\ outfile = <<>> /\ records = <<>>

Next ==
  \/ Assemble /\ UNCHANGED convert
  \/ Start("ftobin") \/ Start("ftohex") \/ Open
  \/ CopyHunk \/ NextHunk
  \/ WriteRecord \/ NextHeader

InitAll == Init /\ ConvertInit

Spec == InitAll /\ [][Next]_vars

-----------------------------------------------------------------------------
(***************************************************************************)
(* Properties                                                              *)
(***************************************************************************)

Piece == [at : Nat, data : Seq(Bytes), fill : Bytes]

\* The types of the variables.
TypeOK ==
  /\ F_format \in Formats /\ pass \in 1 .. MaxPasses /\ Redo \in BOOLEAN
  /\ Csegment \in Nat /\ unknown \in BOOLEAN /\ OrgFill \in Bytes
  /\ FI_temp \in Seq(Bytes) /\ outfile \in Seq(Bytes)
  /\ Fisclear \in BOOLEAN /\ {org, Seglen, Seekback} \subseteq Nat
  /\ dasm \in {"assembling", "aborted", "complete"} /\ left \in 0 .. MaxStatements
  /\ runs \in Seq(Piece)
  /\ tool \in {"none", "ftobin", "ftohex"}
  /\ state \in {"open", "hunk", "gap", "done", "refused"}
  /\ at \in 0 .. Len(In) /\ {addr, base} \subseteq Nat
  /\ tool = "ftobin" => {addr, base} \subseteq 0 .. Word - 1
  /\ {len, maxseek, outpos} \subseteq Nat
  /\ \A i \in DOMAIN records : /\ records[i].addr \in Bytes \X Bytes
                               /\ records[i].data \in Seq(Bytes)
                               /\ records[i].check \in Bytes

Memory == Loaded(runs)

\* A file of format 2 consists of whole hunks (docs/dasm.txt, FORMAT OPTIONS), whatever the
\* passes have generated.  Violated: closegenerate() of a pass that generates nothing writes
\* the length of a hunk of an earlier pass.
HunksWhole == dasm = "complete" /\ F_format = "RAS" /\ Len(In) > 2 => WholeHunks(In)

\* What is generated without a change of address fits in a hunk, whose length is a word.
HunksFit ==
  \A i, j \in DOMAIN runs :
    i <= j /\ (\A k \in i .. j - 1 : runs[k + 1].at = runs[k].at + Len(runs[k].data))
      => runs[j].at + Len(runs[j].data) - runs[i].at < Word

\* If something was generated, the file of format 2 is one of whole hunks, and loading them
\* one after another gives every address the byte that was generated for it last, provided
\* that no hunk is too long for its length field.
HunksCorrect ==
  dasm = "complete" /\ F_format = "RAS" /\ runs # <<>> /\ HunksFit =>
    WholeHunks(In) /\ Loaded(HunksOf(In)) = Memory

\* The file of formats 1 and 3 has every byte at its distance from the first, with the fill
\* value of the ORG before it in each gap; in format 1 the first address precedes it.
FlatCorrect ==
  dasm = "complete" /\ F_format # "RAS" /\ runs # <<>> =>
    In = (IF F_format = "DEFAULT" THEN Putw(runs[1].at) ELSE <<>>) \o Flattened(runs)

\* The hunks of the file and the address after the highest byte of those before i.
Read        == HunksOf(In)
EndOf(i)    == Read[i].at + Len(Read[i].data)
Highest(i)  == CHOOSE h \in {EndOf(j) : j \in 1 .. i - 1} : \A j \in 1 .. i - 1 : EndOf(j) <= h
FirstLowest == \A i \in DOMAIN Read : Read[i].at >= Read[1].at
InOneBank   == \A i \in DOMAIN Read : EndOf(i) < Word
\* Only where a hunk ends at the highest address so far does the fill of ftobin begin there.
GapsAtEnd   == \A i \in DOMAIN Read \ {1} : Read[i].at > Highest(i) => EndOf(i - 1) = Highest(i)

FtobinFlat ==
  IF state = "refused" THEN ~FirstLowest
  ELSE /\ FirstLowest
       /\ outfile = [i \in 1 .. Highest(Len(Read) + 1) - Read[1].at |->
                       IF Read[1].at + i - 1 \in DOMAIN Memory
                       THEN Memory[Read[1].at + i - 1] ELSE Byte - 1]

\* ftobin turns hunks into a flat file: the last byte for each address, and 255 where there is
\* none; it refuses a file exactly if its first address is not the lowest.
FtobinCorrect ==
  (/\ tool = "ftobin" /\ state \in {"done", "refused"} /\ F_format = "RAS" /\ runs # <<>>
   /\ HunksFit /\ InOneBank /\ GapsAtEnd) => FtobinFlat

\* Loading the lines of ftohex gives the memory of the assembly, and each line
\* adds up to 0 and has at most PERLINE bytes.
FtohexCorrect ==
  tool = "ftohex" /\ state = "done" /\ runs # <<>> /\ (F_format = "RAS" => HunksFit) =>
    /\ \A i \in DOMAIN records :
         /\ Len(records[i].data) \in 1 .. PERLINE
         /\ (Len(records[i].data) + records[i].addr[1] + records[i].addr[2]
               + Sum(records[i].data) + records[i].check) % Byte = 0
    /\ Loaded([i \in DOMAIN records |->
                 [at |-> Getw(records[i].addr, 0), data |-> records[i].data]])
         = CASE F_format = "RAS"     -> Memory
             [] F_format = "DEFAULT" -> Loaded(<<[at |-> runs[1].at, data |-> Flattened(runs)]>>)
             [] F_format = "RAW"     -> Loaded(<<[at |-> 0, data |-> Flattened(runs)]>>)
=============================================================================
