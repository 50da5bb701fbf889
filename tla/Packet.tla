------------------------------- MODULE Packet -------------------------------
(***************************************************************************)
(* What leaves the process about a finding when an explanation is asked    *)
(* for (internal/aiclient/evidence.go), and what is let through of the     *)
(* answer (guard.go).                                                      *)
(*                                                                         *)
(* A key of an evidence map is its place in the sorted order of the keys,  *)
(* a string its number of runes, a narration its sentences, and a sentence *)
(* the severity word it states next to "severity", "risk" or "priority".   *)
(***************************************************************************)
EXTENDS Integers, Sequences, FiniteSets

CONSTANTS
  SecretKeys,         \* the keys with a secretKeyMarkers substring
  Values,             \* the evidence values, with all their parts
  maxEvidenceKeys, maxEvidenceString, maxEvidenceList, maxEvidenceDepth

Scalar  == [kind |-> "scalar"]
Text(n) == [kind |-> "string", runes |-> n]
Map(of) == [kind |-> "map", of |-> of]
List(s) == [kind |-> "list", of |-> s]
Strings(s) == [kind |-> "strings", of |-> s]    \* a []string, by their runes
Other(v)   == [kind |-> "other", json |-> v]    \* any other type, as JSON
NotJSON == [kind |-> "unserialisable"]
Omitted == [kind |-> "omitted"]                 \* "[omitted: ...]"
Nil     == [kind |-> "nil"]

\* The map of some keys.
Evidence(of) ==
  /\ of \in [DOMAIN of -> Values]
  /\ DOMAIN of \subseteq Nat /\ IsFiniteSet(DOMAIN of)

\* What JSON gives back has no other types.
IsValue(v) ==
  CASE v.kind = "string"  -> v = Text(v.runes) /\ v.runes \in Nat
    [] v.kind = "strings" -> v = Strings(v.of) /\ v.of \in Seq(Nat)
    [] v.kind = "map"     -> v = Map(v.of) /\ Evidence(v.of)
    [] v.kind = "list"    -> v = List(v.of) /\ v.of \in Seq(Values)
    [] v.kind = "other"   ->
         /\ v = Other(v.json)
         /\ v.json # NotJSON =>
              v.json \in Values /\ v.json.kind \notin {"strings", "other"}
    [] OTHER -> v = Scalar

ASSUME PacketAssumption ==
  /\ {maxEvidenceKeys, maxEvidenceString, maxEvidenceList, maxEvidenceDepth}
       \subseteq Nat \ {0}
  /\ \A v \in Values : IsValue(v)

-----------------------------------------------------------------------------
(* evidence.go *)

\* A string that is cut ends in one rune more, "...".
truncateRunes(n, max) == IF n <= max THEN n ELSE max + 1

\* Mutant: the first keys are taken before the secret ones are dropped.
KeptTooEarly(of) ==
  {k \in DOMAIN of :
     Cardinality({j \in DOMAIN of : j < k}) < maxEvidenceKeys}

\* The keys of a map that are kept: the first ones that are not secret.
Kept(of) ==
  LET plain == DOMAIN of \ SecretKeys
  IN  {k \in plain : Cardinality({j \in plain : j < k}) < maxEvidenceKeys}

\* clean holds the sanitised value of every key.
sanitizeMap(of, clean) ==
  IF Kept(of) = {} THEN Nil ELSE Map([k \in Kept(of) |-> clean[k]])

FirstItems(s) ==
  1 .. (IF Len(s) > maxEvidenceList THEN maxEvidenceList ELSE Len(s))

\* Any other type is sanitised as the value its JSON has.
generic(v) == IF v.kind = "other" THEN v.json ELSE v

\* left is what is left of maxEvidenceDepth: without any, a map or a list is
\* left out.  deeper holds the sanitised value of every value inside of one.
sanitized(t, left, deeper) ==
  CASE t.kind = "string" -> Text(truncateRunes(t.runes, maxEvidenceString))
    [] t.kind = "strings" ->
         List([i \in FirstItems(t.of) |->
                 Text(truncateRunes(t.of[i], maxEvidenceString))])
    [] t.kind \in {"map", "list"} /\ left = 0 -> Omitted
    [] t.kind = "map" /\ left > 0 ->
         sanitizeMap(t.of, [k \in DOMAIN t.of |-> deeper[t.of[k]]])
    [] t.kind = "list" /\ left > 0 ->
         List([i \in FirstItems(t.of) |-> deeper[t.of[i]]])
    [] t.kind = "unserialisable" -> Omitted
    [] OTHER -> t

sanitizeValue[left \in 0 .. maxEvidenceDepth - 1] ==
  [v \in Values |->
     sanitized(generic(v), left,
               IF left = 0 THEN <<>> ELSE sanitizeValue[left - 1])]

SanitizeEvidence(of) ==
  sanitizeMap(of, [k \in DOMAIN of |->
                     sanitizeValue[maxEvidenceDepth - 1][of[k]]])

\* What NewFindingPacket makes of a finding; a blank title makes it refuse.
NewFindingPacket(f) ==
  [sev      |-> f.sev,
   title    |-> truncateRunes(f.title, maxEvidenceString),
   evidence |-> SanitizeEvidence(f.evidence)]

-----------------------------------------------------------------------------
(* guard.go *)

severityWords ==
  {"critical", "high", "medium", "moderate", "low", "info", "informational"}

\* A sentence that states no severity, or in another language than English.
NoWord == "none"

Words == severityWords \cup {NoWord}

Same(sev) ==
  CASE sev \in {"info", "informational"} -> {"info", "informational"}
    [] sev \in {"medium", "moderate"}    -> {"medium", "moderate"}
    [] OTHER                             -> {sev}

Conflicting(sev) == severityWords \ Same(sev)

\* Mutant: the narration is shown as it came.
dropNothing(text, sev) == text

dropConflictingSeverity(text, sev) ==
  LET kept[n \in 0 .. Len(text)] ==
        IF n = 0 THEN <<>>
        ELSE IF text[n] \in Conflicting(sev) THEN kept[n - 1]
        ELSE Append(kept[n - 1], text[n])
  IN  IF kept[Len(text)] = <<>> THEN text ELSE kept[Len(text)]

-----------------------------------------------------------------------------
(* What SanitizeEvidence promises, over the values at each level of nesting *)

Nested(v) == v.kind \in {"map", "list"}

\* The parts of the maps and lists in S.
Parts(S) == UNION {{w.of[k] : k \in DOMAIN w.of} : w \in {u \in S : Nested(u)}}

Level(v) ==
  LET level[n \in 0 .. maxEvidenceDepth + 1] ==
        IF n = 0 THEN {v} ELSE Parts(level[n - 1])
  IN  level

\* Bounded in keys, items, runes and nesting, with no secret key at any level.
\* A list of strings that Go has as []string is kept one level deeper.
Clean(v) ==
  \A n \in 0 .. maxEvidenceDepth + 1 : \A w \in Level(v)[n] :
    /\ w.kind = "map" =>
         /\ n < maxEvidenceDepth
         /\ DOMAIN w.of \cap SecretKeys = {}
         /\ Cardinality(DOMAIN w.of) <= maxEvidenceKeys
    /\ w.kind = "list" =>
         /\ n <= maxEvidenceDepth
         /\ n = maxEvidenceDepth =>
              \A i \in DOMAIN w.of : w.of[i].kind = "string"
         /\ Len(w.of) <= maxEvidenceList
    /\ w.kind = "string" => w.runes <= maxEvidenceString + 1

\* Evidence that needs nothing done to it.
AlreadyClean(v) ==
  /\ Clean(v)
  /\ \A n \in 0 .. maxEvidenceDepth + 1 : \A w \in Level(v)[n] :
       /\ w.kind \notin {"strings", "other"}
       /\ w.kind = "string" => w.runes <= maxEvidenceString
       /\ w.kind = "map" => DOMAIN w.of # {}
       /\ Nested(w) => n < maxEvidenceDepth
=============================================================================
