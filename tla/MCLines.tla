-------------------------------- MODULE MCLines --------------------------------
(***************************************************************************)
(* Lines for model checking Lines: all short ones over several sets of     *)
(* tokens, alone and behind a macro call.                                  *)
(***************************************************************************)
EXTENDS LineMeaning

MCName         == <<"m">>
MCPlaceholders == <<"{0}", "{1}", "{2}">>

\* All lines of n tokens of V behind p.
Followed(p, n, V) == {p \o l : l \in [1 .. n -> V]}
UpToLen(p, n, V) == {Followed(p, k, V) : k \in 0 .. n}

Comment == {"/*", "*/", ";", "\"", "'", Blank, "x"}
Field   == {Blank, "x", "=", ":", "^", "#", ".", "b"}
Label   == {",", "\"", "1", "u", "x", "=", Blank}
Arg     == {",", "\"", Blank, "x", "{2}"}
Body    == {"{1}", "{2}", "{0}", "\"", "'", ";", "x", Blank}
Call    == <<Blank, "m", Blank>>

MCTexts ==
  UpToLen(<<>>, 6, Comment) \cup UpToLen(<<>>, 4, Field) \cup UpToLen(<<"x">>, 5, Label)
    \cup UpToLen(<<Blank, "x", Blank>>, 5, {"\"", "'", Blank, "x"})
    \cup UpToLen(Call, 3, Arg) \cup {{Call \o <<"x", ";", "/*">>, Call \o <<"/*">>}}
MCBodies == UpToLen(<<Blank>>, 3, Body) \cup {{<<Blank, "\"", Blank, Blank, "x", "\"">>}}
=============================================================================
