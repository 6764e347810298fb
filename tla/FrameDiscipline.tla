--------------------------- MODULE FrameDiscipline ----------------------------
(***************************************************************************)
(* Which texts leave the stacks to the frames around them alone, and what  *)
(* the stacks then hold.                                                   *)
(***************************************************************************)
EXTENDS Frames

Openings == {"if", "repeat"}
Closings == {"endif", "repend"}

\* What is open, innermost first, and whether the line is inside a definition, after one
\* more line: the i-th, with mnemonic op.
Reading(s, i, op) ==
  IF s.mac THEN [s EXCEPT !.mac = op # "endm"]
  ELSE IF op \in Openings THEN [s EXCEPT !.open = <<i>> \o @]
  ELSE IF op \in Closings /\ s.open # <<>> THEN [s EXCEPT !.open = Tail(@)]
  ELSE [s EXCEPT !.mac = op = "mac"]

\* The same after the first i lines.
Seen(ls) ==
  LET seen[i \in 0 .. Len(ls)] ==
        IF i = 0 THEN [open |-> <<>>, mac |-> FALSE]
        ELSE Reading(seen[i - 1], i, ls[i].op)
  IN seen

\* What closes something closes it by its name, and an ELSE is in an IF of this text.
Paired(ls) ==
  \A i \in 1 .. Len(ls) :
    LET s == Seen(ls)[i - 1]
        opener == IF s.open = <<>> THEN "none" ELSE ls[Head(s.open)].op
    IN ~s.mac => /\ ls[i].op = "else"   => opener = "if"
                 /\ ls[i].op = "endif"  => opener # "repeat"
                 /\ ls[i].op = "repend" => opener # "if"

\* A macro that leaves nothing open, and is left only where nothing is.
LeavesNothing(ls) ==
  /\ Paired(ls)
  /\ Seen(ls)[Len(ls)].open = <<>>
  /\ \A i \in 1 .. Len(ls) :
       /\ ls[i].op \notin {"end", "mac"}
       /\ ls[i].op \in {"mexit", "endm"} => Seen(ls)[i - 1].open = <<>>

\* A file that ends may leave anything open: what it has pushed is unwound.
HasElse(ls) == \E i \in 1 .. Len(ls) : ls[i].op = "else"
Disciplined ==
  /\ \A p \in DOMAIN source.files : HasElse(source.files[p]) => Paired(source.files[p])
  /\ \A n \in DOMAIN macros : LeavesNothing(macros[n].strlist)

\* Every entry of Ifstack and Reploop belongs to a frame that is still there, in the
\* order of the frames; so a file or a pass never starts with what another one left
\* (main.c:660-664 unwinds files only).
EntriesBelong ==
  LET rank(a) == IF a = Null THEN Len(pIncfile) + 1
                 ELSE CHOOSE k \in DOMAIN pIncfile : pIncfile[k].addr = a
      Ordered(stack) ==
        /\ \A i \in DOMAIN stack : stack[i].file \in Live \cup {Null}
        /\ \A i \in DOMAIN stack : i > 1 => rank(stack[i - 1].file) <= rank(stack[i].file)
  IN Disciplined => Ordered(Ifstack) /\ Ordered(Reploop)
=============================================================================
