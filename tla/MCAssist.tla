------------------------------ MODULE MCAssist ------------------------------
(***************************************************************************)
(* Instance of Assist for TLC: limits of one key, rune and item and two    *)
(* levels, and evidence that meets each of them from either side.          *)
(***************************************************************************)
EXTENDS Assist, TLC

\* Keys in sorted order: 1 is secret, 2 and 3 are not.
Secrets == {1}

Leaves0  == {Scalar, Text(1), Text(3), Strings(<<1, 3>>)}
Maps(S)  == UNION {[D -> S] : D \in {{}, {1}, {2}, {1, 2}, {2, 3}}}
Lists(S) == {<<>>} \cup {<<v>> : v \in S} \cup {<<v, Scalar>> : v \in S}

Inner(S) == {Map(m) : m \in Maps(S)} \cup {List(s) : s \in Lists(S)}

Leaves1 == {Scalar, Text(3), List(<<Text(3), Scalar>>)}    \* from JSON
Level2  == Leaves0 \cup Inner({Scalar, Text(3)})
             \cup {Other(Scalar), Other(NotJSON), Other(Map(1 :> Scalar))}
Level1  == Level2 \cup {Map(2 :> v) : v \in Level2}
             \cup {List(<<v>>) : v \in Level2}
Level0  == Level1 \cup {Other(Map(2 :> v)) : v \in Leaves1}

AllValues == Level0 \cup {Text(2)} \cup {Other(v) : v \in Leaves1}

Evidences ==
  {2 :> v : v \in AllValues} \cup {1 :> Scalar @@ 2 :> Text(2)}
    \cup {2 :> Scalar @@ 3 :> Scalar} \cup {1 :> Scalar}

\* What the next scan makes of a finding, and one with a blank title.
SomeRefreshed ==
  {[sev |-> s, title |-> 1, evidence |-> 2 :> Text(3)] : s \in {"info", "high"}}

SomeFindings ==
  {[sev |-> "medium", title |-> 3, evidence |-> e] : e \in Evidences}
    \cup {[sev |-> "info", title |-> 0, evidence |-> 2 :> Scalar]}
    \cup SomeRefreshed

SomeTexts ==
  {<<"low">>, <<NoWord>>, <<"moderate", "info">>, <<"info", NoWord>>,
   <<"high", "info">>, <<NoWord, "high">>}
=============================================================================
