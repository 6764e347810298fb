----------------------------- MODULE FrameMeaning -----------------------------
(***************************************************************************)
(* What a source with include files, macros, conditionals and loops should *)
(* generate: its expansion, which knows of no stack.                       *)
(***************************************************************************)
EXTENDS FrameDiscipline, SequencesExt, FiniteSetsExt

\* The lines of a file without the macro definitions.
RECURSIVE Code(_)
Code(ls) ==
  IF ls = <<>> THEN <<>>
  ELSE IF Head(ls).op # "mac" THEN <<Head(ls)>> \o Code(Tail(ls))
  ELSE LET ends == {i \in DOMAIN ls : ls[i].op = "endm"}
       IN IF ends = {} THEN ls ELSE Code(SubSeq(ls, Min(ends) + 1, Len(ls)))

\* How many conditionals and loops are open after line i.
Depth(ls, i) == Cardinality({j \in 1 .. i : ls[j].op \in Openings})
              - Cardinality({j \in 1 .. i : ls[j].op \in Closings})

\* The line that opened what line i is the inner part, or the end, of; 0 if there is none.
Opening(ls, i) ==
  LET inner == Depth(ls, i - 1)
  IN Max({0} \cup {j \in 1 .. i - 1 : /\ ls[j].op \in Openings /\ Depth(ls, j) = inner
                                      /\ inner > 0})

\* The lines i such that line o is what they close or are the ELSE of.
Ends(ls, o)  == {i \in o + 1 .. Len(ls) : ls[i].op \in Closings /\ Opening(ls, i) = o}
Elses(ls, o) == {i \in o + 1 .. Len(ls) : ls[i].op = "else" /\ Opening(ls, i) = o}

\* IF and ENDIF, REPEAT and REPEND are nested, with at most one ELSE for an IF.
Nested(ls) ==
  /\ Depth(ls, Len(ls)) = 0
  /\ \A i \in DOMAIN ls :
       /\ ls[i].op = "else" => Opening(ls, i) # 0 /\ ls[Opening(ls, i)].op = "if"
       /\ ls[i].op \in Closings =>
            /\ Opening(ls, i) # 0
            /\ (ls[Opening(ls, i)].op = "if") = (ls[i].op = "endif")
       /\ ls[i].op = "if" => Cardinality(Elses(ls, i)) <= 1

\* All texts are nested, and no macro ends the file or defines another one.
WellFormed ==
  /\ \A p \in DOMAIN source.files :
       LET code == Code(source.files[p])
       IN Nested(code) /\ \A i \in DOMAIN code : code[i].op # "endm"
  /\ \A n \in DOMAIN macros :
       /\ Nested(macros[n].strlist)
       /\ \A i \in DOMAIN macros[n].strlist : macros[n].strlist[i].op \notin {"end", "mac"}

-----------------------------------------------------------------------------
\* An expansion: what is generated, and what it has left ("macro", "file" or "nothing").
Nothing        == [out |-> <<>>, left |-> "nothing"]
Absorb(r, what) == [r EXCEPT !.left = IF @ = what THEN "nothing" ELSE @]
Rest(ls, i)    == SubSeq(ls, i + 1, Len(ls))

RECURSIVE Expand(_, _), Times(_, _, _)

\* s with inMacro: MEXIT means something.
Expand(ls, inMacro) ==
  IF ls = <<>> THEN Nothing
  ELSE
    LET l     == Head(ls)
        end   == Min(Ends(ls, 1))
        other == Elses(ls, 1)
        then  == IF other = {} THEN SubSeq(ls, 2, end - 1) ELSE SubSeq(ls, 2, Min(other) - 1)
        else  == IF other = {} THEN <<>> ELSE SubSeq(ls, Min(other) + 1, end - 1)
        Then(r, i) == IF r.left # "nothing" THEN r
                      ELSE LET s == Expand(Rest(ls, i), inMacro)
                           IN [s EXCEPT !.out = r.out \o @]
    IN CASE l.op = "emit"    -> Then([Nothing EXCEPT !.out = <<l.arg>>], 1)
         [] l.op = "if"      -> Then(Expand(IF l.arg.val # 0 THEN then ELSE else, inMacro), end)
         [] l.op = "repeat"  -> Then(Times(l.arg.val, SubSeq(ls, 2, end - 1), inMacro), end)
         [] l.op = "call"    -> Then(Absorb(Expand(macros[l.arg].strlist, TRUE), "macro"), 1)
         [] l.op = "include" -> Then(Absorb(Expand(Code(source.files[l.arg]), FALSE), "file"), 1)
         [] l.op = "mexit" /\ inMacro -> [Nothing EXCEPT !.left = "macro"]
         [] l.op = "end"     -> [Nothing EXCEPT !.left = "file"]
         [] OTHER            -> Then(Nothing, 1)

Times(n, ls, inMacro) ==
  IF n <= 0 THEN Nothing
  ELSE LET r == Expand(ls, inMacro)
       IN IF r.left # "nothing" THEN r
          ELSE LET s == Times(n - 1, ls, inMacro) IN [s EXCEPT !.out = r.out \o @]

Expansion == Expand(Code(source.files[MainFile]), FALSE).out

-----------------------------------------------------------------------------
\* A source that is accepted has generated its expansion under the macros that were
\* defined in the end: nothing more, nothing less, in that order.
ExpansionCorrect ==
  status = "complete" /\ Disciplined /\ WellFormed => out = Expansion

\* The same where MEXIT is inside a conditional: "Used in conjunction with conditionals.
\* Exits the current macro level." (docs/dasm.txt:473-476).
MexitExitsMacro == status = "complete" /\ WellFormed => out = Expansion
=============================================================================
