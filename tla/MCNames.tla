------------------------------ MODULE MCNames -------------------------------
(***************************************************************************)
(* Instances of Names for TLC.                                             *)
(***************************************************************************)
EXTENDS Names, TLC

CONSTANTS
  TailLength,    \* bound on the text after the product
  AnswerLength   \* bound on the entries of a dictionary answer

MCRunes == {"\\", ":", "?", "*", "-", " ", "_", ".", "0", "1", "+",
            "a", "o", "h", "q", "w", "x"}

\* Names that begin with a part and a product, then anything.
RawAsks ==
  {[kind |-> "name", text |-> head \o tail] :
     head \in {<<"a", ":", "a">>, <<"o", ":">>, <<"a">>, <<":">>},
     tail \in BoundedSeq({":", "\\", "*", "-", " ", "+", "a"}, TailLength)}

\* "o" is an alias of the operating system "o_o", "w..." is one by its
\* prefix, "x_o" by its suffix.
MCAliases == (<<"o">> :> [part |-> <<"o">>, product |-> <<"o", "_", "o">>])
MCPrefixes == {<<"w">>}
MCSuffixes == {<<"_", "o">>}
MCDigits == {"0", "1"}

Products == {<<"o">>, <<"w", "-">>, <<"x", " ", "o", " ">>, <<"x">>, <<" ">>,
             <<"*">>, <<"x", ":">>}
Versions == {<<>>, <<"1">>, <<"1", ".", "0">>, <<" ", "1", " ">>}

\* Two entries for the system that is asked for, one of them longer; one for
\* another application; one that is no name; one without a name.
Entries ==
  [name : {<<"o", ":", "o", "_", "o", ":", "*">>, <<"a", ":", "x">>,
           <<"a", ":", "w", "x", ":", "1">>, <<"x", ":", "o">>, <<>>},
   deprecated : BOOLEAN]

ProductAsks ==
  [kind : {"product"}, product : Products, version : Versions,
   answer : BoundedSeq(Entries, AnswerLength)]

ComponentAsks ==
  [kind : {"component"},
   cpe : {<<>>, <<"a", ":", "x">>, <<"q", ":">>,
          <<"a", ":", "x", ":", ":", " ", ":">>},
   purl : [name : {<<>>, <<"x">>, <<"o">>}, version : Versions],
   name : {<<>>, <<"w">>}, version : Versions]

AllAsks == RawAsks \cup ProductAsks \cup ComponentAsks
=============================================================================
