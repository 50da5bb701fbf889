------------------------------- MODULE Names --------------------------------
(***************************************************************************)
(* How an inventory item gets its key.  A user sends a raw CPE 2.3 name, a *)
(* product and a version, or an SBOM component; packages cpe and nvd make  *)
(* a canonical name of it, under which the item is saved, scheduled, asked *)
(* of NVD, and its findings are filed.  Every one of those parses the key  *)
(* again, so the conversions must agree with each other.                   *)
(*                                                                         *)
(* A text is a sequence of characters.  The fixed prefix "cpe:2.3:" is     *)
(* left out, and four attributes stand for the eleven.                     *)
(***************************************************************************)
EXTENDS Naturals, SequencesExt

CONSTANTS
  Runes,       \* the characters
  Asks,        \* what users may send
  Aliases,     \* cpe.aliases: product token -> part and product
  OSPrefixes,  \* cpe.osPrefixes
  OSSuffixes,  \* cpe.osSuffixes
  Digits       \* the characters that are digits

Part == 1
Product == 2
Version == 3
Other == 4

Star == <<"*">>
Space == " "

Texts == Seq(Runes)

\* What the web server, the console and an SBOM may carry, and what the
\* dictionary may answer.
IsAsk(a) ==
  CASE a.kind = "name"    -> a.text \in Texts
    [] a.kind = "product" ->
         /\ a.product \in Texts /\ a.version \in Texts
         /\ a.answer \in Seq([name : Texts, deprecated : BOOLEAN])
    [] a.kind = "component" ->
         /\ a.cpe \in Texts /\ a.name \in Texts /\ a.version \in Texts
         /\ a.purl.name \in Texts /\ a.purl.version \in Texts
    [] OTHER -> FALSE

ASSUME NamesAssumption ==
  /\ {"\\", ":", "?", "*", "-", Space, "_", ".", "0", "a", "o", "h"} \subseteq Runes
  /\ \A a \in Asks : IsAsk(a)
  /\ \A tok \in DOMAIN Aliases :
       /\ Aliases[tok].part \in {<<"a">>, <<"o">>}
       /\ Aliases[tok].product \in Texts

VARIABLES
  ask,        \* what the user sends, in any way it can be sent
  table,      \* the rows of the targets table: raw and canonical
  scheduled   \* the keys of the scheduler's targets

vars == <<ask, table, scheduled>>

-----------------------------------------------------------------------------
(* cpe.go: formatted strings *)

Special == {"\\", ":", "?", "*"}

\* strings.TrimSpace
Trim(s) ==
  LET solid == {i \in DOMAIN s : s[i] # Space}
  IN  IF solid = {} THEN <<>> ELSE SubSeq(s, Min(solid), Max(solid))

\* One more character of a name: so far there are some fields, and a backslash
\* may escape this character.
readRune(so, ch) ==
  IF ch = ":" /\ ~so.esc
  THEN [fields |-> Append(so.fields, <<>>), esc |-> FALSE]
  ELSE [fields |-> Append(Front(so.fields), Append(Last(so.fields), ch)),
        esc    |-> ch = "\\" /\ ~so.esc]

reading[s \in Texts] ==
  IF s = <<>> THEN [fields |-> << <<>> >>, esc |-> FALSE]
  ELSE readRune(reading[Front(s)], Last(s))

\* The fields between colons that no backslash escapes.
splitEscaped(s) == reading[s].fields

escapeRune(ch) == IF ch \in Special THEN <<"\\", ch>> ELSE <<ch>>

escaped[v \in Texts] ==
  IF v = <<>> THEN <<>> ELSE escaped[Front(v)] \o escapeRune(Last(v))

\* Mutant: a text with a backslash is taken for one that is escaped.
bindForgetting(v) ==
  IF v \in {Star, <<"-">>} \/ \E i \in DOMAIN v : v[i] = "\\"
  THEN v ELSE escaped[v]

bind(v) == IF v \in {Star, <<"-">>} THEN v ELSE escaped[v]

\* One more character of a field: the backslash before it goes when it turns
\* out to be special; any other backslash stays.
unescapeRune(so, ch) ==
  IF so.esc /\ ch \in Special
  THEN [text |-> Append(Front(so.text), ch), esc |-> FALSE]
  ELSE [text |-> Append(so.text, ch), esc |-> ch = "\\"]

unescaping[v \in Texts] ==
  IF v = <<>> THEN [text |-> <<>>, esc |-> FALSE]
  ELSE unescapeRune(unescaping[Front(v)], Last(v))

unbind(v) == unescaping[v].text

NoName == <<>>

\* Missing fields are wildcards, superfluous ones are dropped.
Parse(s) ==
  LET fields == splitEscaped(Trim(s))
      get(i) == IF i <= Len(fields) THEN unbind(fields[i]) ELSE Star
      c == <<get(Part), get(Product), get(Version), get(Other)>>
  IN  IF /\ Len(fields) >= Product
         /\ c[Part] \in {<<"a">>, <<"o">>, <<"h">>}
         /\ c[Product] \notin {<<>>, Star}
      THEN c
      ELSE NoName

Canonical(c) ==
  LET f(i) == IF c[i] = <<>> THEN Star ELSE bind(c[i])
  IN  f(Part) \o <<":">> \o f(Product) \o <<":">>
        \o f(Version) \o <<":">> \o f(Other)

-----------------------------------------------------------------------------
(* normalize.go: from free text to the name NVD indexes *)

\* The case of letters is not modelled.
normalizeToken(s) == ReplaceAll(Trim(s), Space, "_")

looksLikeOS(tok) ==
  \/ \E p \in OSPrefixes :
       tok = p \/ IsPrefix(p \o <<"_">>, tok) \/ IsPrefix(p \o <<"-">>, tok)
  \/ \E x \in OSSuffixes : IsSuffix(x, tok)

Normalize(product) ==
  LET tok == normalizeToken(product)
  IN  IF tok \in DOMAIN Aliases
      THEN Aliases[tok]
      ELSE [part    |-> IF looksLikeOS(tok) THEN <<"o">> ELSE <<"a">>,
            product |-> tok]

bareMajor(v) == v # <<>> /\ \A i \in DOMAIN v : v[i] \in Digits

NormalizeVersion(part, version) ==
  LET v == normalizeToken(version)
  IN  IF v = <<>> THEN Star
      ELSE IF part = <<"o">> /\ bareMajor(v) THEN v \o <<".", "0">>
      ELSE v

FromProductVersion(product, version) ==
  LET n == Normalize(product)
  IN  IF n.product = <<>> THEN NoName
      ELSE <<n.part, n.product, NormalizeVersion(n.part, version), Star>>

-----------------------------------------------------------------------------
(* nvd.go: the dictionary *)

ContainsText(t, s) == \E i \in 1 .. Len(t) : IsPrefix(s, SubSeq(t, i, Len(t)))

\* The product an entry names, unless it is deprecated or no CPE name.
productOf(e) ==
  IF e.deprecated \/ Parse(e.name) = NoName THEN <<>>
  ELSE Parse(e.name)[Product]

\* The name of the first of some entries.
firstOf(answer, S) == IF S = {} THEN <<>> ELSE answer[Min(S)].name

\* Entries with a name that are not deprecated.
Live(answer) ==
  {i \in DOMAIN answer : ~answer[i].deprecated /\ answer[i].name # <<>>}

\* The entry that is the wanted product, or else contains it, or else is not
\* deprecated, or else has a name.
parseTopCPE(answer, want) ==
  LET exact    == {i \in DOMAIN answer :
                     want # <<>> /\ productOf(answer[i]) = want}
      contains == {i \in DOMAIN answer :
                     want # <<>> /\ ContainsText(productOf(answer[i]), want)}
      named    == {i \in DOMAIN answer : answer[i].name # <<>>}
  IN  firstOf(answer, IF exact # {} THEN exact
                      ELSE IF contains # {} THEN contains
                      ELSE IF Live(answer) # {} THEN Live(answer)
                      ELSE named)

\* nvd.normalizeVersion
nvdVersion(version) == IF Trim(version) = <<>> THEN Star ELSE Trim(version)

\* A failed request answers nothing.
Resolve(product, version, answer) ==
  LET c == Parse(parseTopCPE(answer, Normalize(product).product))
  IN  IF c = NoName
      THEN FromProductVersion(product, version)
      ELSE <<c[Part], c[Product], nvdVersion(version), Star>>

-----------------------------------------------------------------------------
(* sbom.go *)

\* A component has a CPE, a package URL and a name; each may be missing, or
\* give nothing usable.  parsePURL is modelled by the name and the version
\* it returns.
componentFrom(c) ==
  LET stated  == Parse(c.cpe)
      version == IF Trim(c.version) # <<>> THEN c.version ELSE c.purl.version
      located == FromProductVersion(c.purl.name, version)
  IN  IF stated # NoName THEN stated
      ELSE IF located # NoName THEN located
      ELSE FromProductVersion(c.name, c.version)

-----------------------------------------------------------------------------
(* The inventory *)

Init ==
  /\ ask \in Asks
  /\ table = {}
  /\ scheduled = {}

\* Mutant: a row is identified by what the user sent.
SaveTargetByRaw(raw, canonical) ==
  table' = table \cup {[raw |-> raw, canonical |-> raw]}

\* ON CONFLICT (canonical) DO NOTHING
SaveTarget(raw, canonical) ==
  table' = IF \E r \in table : r.canonical = canonical THEN table
           ELSE table \cup {[raw |-> raw, canonical |-> canonical]}

\* sched.AddTarget, with Collector.ValidateTarget, then the row.
Add(raw, canonical) ==
  /\ Parse(raw) # NoName
  /\ scheduled' = scheduled \cup {Canonical(Parse(raw))}
  /\ SaveTarget(raw, canonical)
  /\ UNCHANGED ask

\* The web server saves what ValidateTarget returned.
handleAddTarget ==
  /\ ask.kind = "name"
  /\ Add(ask.text, Canonical(Parse(ask.text)))

\* The console makes the canonical name and adds that.
ConsoleAdds(c) ==
  /\ c # NoName
  /\ Add(Canonical(c), Canonical(c))

handleAdd ==
  \/ ask.kind = "name" /\ Trim(ask.text) # <<>> /\ ConsoleAdds(Parse(ask.text))
  \/ ask.kind = "product" /\ Trim(ask.product) # <<>>
       /\ ConsoleAdds(Resolve(ask.product, ask.version, ask.answer))

handleSBOM == ask.kind = "component" /\ ConsoleAdds(componentFrom(ask))

\* The user removes an item by the key the server lists.
handleRemoveTarget(k) ==
  /\ k \in scheduled
  /\ scheduled' = scheduled \ {k}
  /\ table' = {r \in table : r.canonical # k}
  /\ UNCHANGED ask

\* The process starts again and schedules what is saved.
Boot ==
  /\ scheduled' = {Canonical(c) : c \in {Parse(r.raw) : r \in table} \ {NoName}}
  /\ UNCHANGED <<ask, table>>

Next ==
  \/ handleAddTarget \/ handleAdd \/ handleSBOM
  \/ \E k \in scheduled : handleRemoveTarget(k)
  \/ Boot

Spec == Init /\ [][Next]_vars

-----------------------------------------------------------------------------
(* Properties *)

\* The types; and whatever was sent, a key has all its attributes and names
\* a product.
TypeOK ==
  /\ ask \in Asks
  /\ \A r \in table : DOMAIN r = {"raw", "canonical"}
  /\ \A k \in scheduled :
       /\ Len(splitEscaped(k)) = Other
       /\ Parse(k) # NoName /\ Parse(k)[Product] # Star

\* A name with more fields than a CPE has keeps its last attribute unchanged,
\* a trailing space included, which the next Parse trims: its key is not
\* stable.  SavedAsScheduled excludes such names.
Overlong ==
  \/ ask.kind = "name" /\ Len(splitEscaped(Trim(ask.text))) > Other
  \/ ask.kind = "component" /\ Len(splitEscaped(Trim(ask.cpe))) > Other

\* What is saved is what is scheduled, whichever way an item came in: removing
\* a listed item removes its row, and a restart schedules the same items
\* (targets.go, TargetStore: "so a restart restores them exactly").  And a
\* scan files its findings under the key it was given (patchlight.go,
\* vulnFinding: "Target MUST equal the scanned canonical"): Collect parses the
\* key and files them under the canonical form of the result.
SavedAsScheduled ==
  ~Overlong =>
    /\ {r.canonical : r \in table} = scheduled
    /\ \A r \in table : Canonical(Parse(r.raw)) = r.canonical
    /\ \A k \in scheduled : Canonical(Parse(k)) = k
=============================================================================
