----------------------------- MODULE NamesProofs -----------------------------
(***************************************************************************)
(* For every text a user sends, every dictionary answer and every table of *)
(* aliases: what a key is made of, and that the key of an item is the same *)
(* wherever it is parsed again.                                            *)
(***************************************************************************)
EXTENDS Names, SequenceTheorems, WellFoundedInduction, TLAPS

-----------------------------------------------------------------------------
(* Texts, and functions defined along them *)

LEMMA Least ==
  ASSUME NEW T \in SUBSET Nat, T # {}
  PROVE  \E m \in T : \A n \in T : m <= n
<1>1. PICK m \in T : \A y \in T : ~ (<<y, m>> \in OpToRel(<, Nat))
  BY NatLessThanWellFounded, WFMin
<1>2. \A y \in T : ~ (y < m)
  BY <1>1 DEF OpToRel
<1> QED
  BY <1>2

LEMMA Induction ==
  ASSUME NEW T \in SUBSET Nat, 0 \in T, \A n \in T : n + 1 \in T
  PROVE  T = Nat
<1> SUFFICES ASSUME Nat \ T # {} PROVE FALSE
  OBVIOUS
<1>1. PICK m \in Nat \ T : \A n \in Nat \ T : m <= n
  BY Least
<1>2. m - 1 \in Nat /\ (m - 1) + 1 = m
  BY <1>1
<1>3. m - 1 \in T
  BY <1>1, <1>2
<1> QED
  BY <1>1, <1>2, <1>3

LEMMA SequenceEnds ==
  ASSUME NEW C, NEW s \in Seq(C), s # <<>>
  PROVE  /\ Len(s) \in Nat \ {0}
         /\ Front(s) \in Seq(C) /\ Last(s) \in C
         /\ Len(Front(s)) = Len(s) - 1
         /\ s = Append(Front(s), Last(s))
<1>1. Len(s) \in Nat \ {0}
  OBVIOUS
<1>2. Last(s) \in C
  BY <1>1 DEF Last
<1>3. Front(s) \in Seq(C) /\ Len(Front(s)) = Len(s) - 1
  <2>1. 1 \in Int /\ Len(s) - 1 \in Int /\ \A i \in 1 .. Len(s) - 1 : s[i] \in C
    BY <1>1
  <2>2. /\ SubSeq(s, 1, Len(s) - 1) \in Seq(C)
        /\ Len(SubSeq(s, 1, Len(s) - 1)) =
             IF 1 <= Len(s) - 1 THEN (Len(s) - 1) - 1 + 1 ELSE 0
    BY <2>1, SubSeqProperties
  <2>3. \A n \in Nat \ {0} : (IF 1 <= n - 1 THEN (n - 1) - 1 + 1 ELSE 0) = n - 1
    OBVIOUS
  <2>4. Front(s) = SubSeq(s, 1, Len(s) - 1)
    BY DEF Front
  <2>5. Front(s) \in Seq(C)
    BY <2>2, <2>4, Zenon
  <2>6. Len(Front(s)) = Len(s) - 1
    BY <1>1, <2>2, <2>3, <2>4, Zenon
  <2> QED BY <2>5, <2>6
<1>4. s = Append(Front(s), Last(s))
  BY <1>1 DEF Front, Last
<1> QED BY <1>1, <1>2, <1>3, <1>4

\* A text is empty, or one character more than the text before it.
LEMMA TextEnds ==
  ASSUME NEW s \in Texts, s # <<>>
  PROVE  /\ Len(s) \in Nat \ {0}
         /\ Front(s) \in Texts /\ Last(s) \in Runes
         /\ Len(Front(s)) = Len(s) - 1
         /\ s = Append(Front(s), Last(s))
BY SequenceEnds DEF Texts

LEMMA SequenceGrows ==
  ASSUME NEW C, NEW s \in Seq(C), NEW ch \in C
  PROVE  /\ Append(s, ch) \in Seq(C)
         /\ Append(s, ch) # <<>>
         /\ Len(Append(s, ch)) = Len(s) + 1
         /\ SubSeq(Append(s, ch), 1, Len(Append(s, ch)) - 1) = s
         /\ Append(s, ch)[Len(Append(s, ch))] = ch
OBVIOUS

LEMMA TextGrows ==
  ASSUME NEW s \in Texts, NEW ch \in Runes
  PROVE  /\ Append(s, ch) \in Texts
         /\ Append(s, ch) # <<>>
         /\ Len(Append(s, ch)) = Len(s) + 1
         /\ Front(Append(s, ch)) = s
         /\ Last(Append(s, ch)) = ch
<1>1. s \in Seq(Runes)
  BY DEF Texts
<1> QED BY <1>1, SequenceGrows DEF Texts, Front, Last

LEMMA EmptyText == <<>> \in Texts /\ Len(<<>>) = 0
BY DEF Texts

LEMMA TextInduction ==
  ASSUME NEW S \in SUBSET Texts, <<>> \in S,
         \A s \in S : \A ch \in Runes : Append(s, ch) \in S
  PROVE  S = Texts
<1> DEFINE T == {n \in Nat : \A s \in Texts : Len(s) = n => s \in S}
<1>1. 0 \in T
  <2>1. ASSUME NEW s \in Texts, Len(s) = 0 PROVE s = <<>>
    BY <2>1 DEF Texts
  <2> QED BY <2>1
<1>2. ASSUME NEW n \in T PROVE n + 1 \in T
  <2> SUFFICES ASSUME NEW s \in Texts, Len(s) = n + 1 PROVE s \in S
    OBVIOUS
  <2>1. s # <<>>
    BY EmptyText
  <2>2. Front(s) \in Texts /\ Len(Front(s)) = n /\ Last(s) \in Runes
        /\ s = Append(Front(s), Last(s))
    BY <2>1, TextEnds
  <2>3. Front(s) \in S
    BY <1>2, <2>2
  <2> QED BY <2>2, <2>3
<1>3. T = Nat
  <2> HIDE DEF T
  <2>1. T \in SUBSET Nat
    BY DEF T
  <2> QED BY <1>1, <1>2, <2>1, Induction
<1>4. \A s \in Texts : Len(s) \in Nat
  BY DEF Texts
<1> QED BY <1>3, <1>4

\* What a reader that goes from left to right holds after each text.
Rules(V) == [Runes -> [V -> V]]
Reads(f, a, rule, s) ==
  f[s] = IF s = <<>> THEN a ELSE rule[Last(s)][f[Front(s)]]
ReadsShort(f, a, rule, n) ==
  \A s \in Texts : Len(s) <= n => Reads(f, a, rule, s)
Reader(f, V, a, rule) ==
  f \in [Texts -> V] /\ \A s \in Texts : Reads(f, a, rule, s)

LEMMA OneReading ==
  ASSUME NEW a, NEW rule, NEW n \in Nat, NEW f, NEW g,
         ReadsShort(f, a, rule, n), ReadsShort(g, a, rule, n)
  PROVE  \A s \in Texts : Len(s) <= n => f[s] = g[s]
<1> DEFINE S == {s \in Texts : Len(s) <= n => f[s] = g[s]}
<1>1. <<>> \in S
  BY EmptyText DEF Reads, ReadsShort
<1>2. ASSUME NEW s \in S, NEW ch \in Runes PROVE Append(s, ch) \in S
  <2> DEFINE t == Append(s, ch)
  <2>1. /\ t \in Texts /\ t # <<>> /\ Len(t) = Len(s) + 1 /\ Len(s) \in Nat
        /\ Front(t) = s /\ Last(t) = ch
    <3>1. s \in Texts /\ Len(s) \in Nat
      BY DEF Texts
    <3> QED BY <3>1, TextGrows
  <2>2. CASE Len(t) <= n
    <3>1. f[s] = g[s]
      BY <2>1, <2>2
    <3>2. f[t] = rule[ch][f[s]] /\ g[t] = rule[ch][g[s]]
      BY <2>1, <2>2 DEF Reads, ReadsShort
    <3> QED BY <2>1, <3>1, <3>2
  <2> QED BY <2>1, <2>2
<1>3. S = Texts
  <2> HIDE DEF S
  <2>1. S \in SUBSET Texts
    BY DEF S
  <2> QED BY <1>1, <1>2, <2>1, TextInduction
<1> QED BY <1>3

LEMMA ReaderExists ==
  ASSUME NEW V, NEW a \in V, NEW rule \in Rules(V)
  PROVE  \E f : Reader(f, V, a, rule)
<1> DEFINE Upto(f, n) == ReadsShort(f, a, rule, n)
           T == {n \in Nat : \E f : Upto(f, n)}
<1>0. \A s \in Texts : Len(s) \in Nat
  BY DEF Texts
<1>1. 0 \in T
  <2> DEFINE f == [s \in Texts |-> a]
  <2>1. ASSUME NEW s \in Texts, Len(s) <= 0 PROVE Reads(f, a, rule, s)
    <3>1. s = <<>>
      BY <2>1, <1>0, TextEnds
    <3> QED BY <3>1, EmptyText DEF Reads
  <2>2. Upto(f, 0)
    BY <2>1 DEF ReadsShort
  <2> HIDE DEF f, Upto
  <2> QED BY <2>2
<1>2. ASSUME NEW n \in T PROVE n + 1 \in T
  <2>1. PICK f : Upto(f, n)
    OBVIOUS
  <2> DEFINE g == [s \in Texts |->
                     IF Len(s) <= n THEN f[s] ELSE rule[Last(s)][f[Front(s)]]]
  <2>2. n \in Nat
    OBVIOUS
  <2>3. ASSUME NEW s \in Texts, Len(s) <= n + 1 PROVE Reads(g, a, rule, s)
    <3>1. CASE s = <<>>
      <4>1. Len(s) <= n
        BY <2>2, <3>1, EmptyText
      <4>2. g[s] = f[s] /\ Reads(f, a, rule, s)
        BY <2>1, <4>1 DEF ReadsShort
      <4> HIDE DEF g
      <4> QED BY <3>1, <4>2 DEF Reads
    <3>2. CASE s # <<>>
      <4>1. Front(s) \in Texts /\ Len(Front(s)) <= n
        BY <1>0, <2>2, <2>3, <3>2, TextEnds
      <4>2. g[Front(s)] = f[Front(s)]
        BY <4>1
      <4>3. g[s] = rule[Last(s)][f[Front(s)]]
        <5>1. CASE Len(s) <= n
          <6>1. g[s] = f[s] /\ Reads(f, a, rule, s)
            BY <2>1, <5>1 DEF ReadsShort
          <6> HIDE DEF g
          <6> QED BY <3>2, <6>1 DEF Reads
        <5>2. CASE ~(Len(s) <= n)
          BY <5>2
        <5> QED BY <5>1, <5>2
      <4> HIDE DEF g
      <4> QED BY <3>2, <4>2, <4>3 DEF Reads
    <3> QED BY <3>1, <3>2
  <2> HIDE DEF g
  <2>4. Upto(g, n + 1)
    BY <2>3 DEF ReadsShort
  <2> HIDE DEF Upto
  <2> QED BY <2>2, <2>4
<1>3. T = Nat
  <2> HIDE DEF T
  <2>1. T \in SUBSET Nat
    BY DEF T
  <2> QED BY <1>1, <1>2, <2>1, Induction
<1> DEFINE short(n) == CHOOSE f : Upto(f, n)
           F == [s \in Texts |-> short(Len(s))[s]]
<1>4. \A n \in Nat : Upto(short(n), n)
  <2> HIDE DEF Upto
  <2> QED BY <1>3
<1> HIDE DEF short
<1>5. ASSUME NEW s \in Texts PROVE Reads(F, a, rule, s)
  <2>1. F[s] = short(Len(s))[s] /\ Reads(short(Len(s)), a, rule, s)
    BY <1>0, <1>4 DEF ReadsShort
  <2>2. CASE s = <<>>
    BY <2>1, <2>2 DEF Reads
  <2>3. CASE s # <<>>
    <3> DEFINE n == Len(s)
               m == Len(Front(s))
    <3>1. n \in Nat /\ m \in Nat /\ m = n - 1 /\ Front(s) \in Texts
      BY <1>0, <2>3, TextEnds
    <3>2. ReadsShort(short(n), a, rule, m) /\ ReadsShort(short(m), a, rule, m)
      BY <1>0, <1>4, <3>1 DEF ReadsShort
    <3>3. short(n)[Front(s)] = short(m)[Front(s)]
      <4> DEFINE f == short(n)
                 g == short(m)
      <4>1. ReadsShort(f, a, rule, m) /\ ReadsShort(g, a, rule, m)
        BY <3>2
      <4>2. Len(Front(s)) <= m /\ Front(s) \in Texts /\ m \in Nat
        BY <3>1
      <4> HIDE DEF f, g, m
      <4>3. \A t \in Texts : Len(t) <= m => f[t] = g[t]
        BY <4>1, <4>2, OneReading
      <4> QED BY <4>2, <4>3 DEF f, g
    <3>4. F[Front(s)] = short(m)[Front(s)]
      BY <3>1
    <3> HIDE DEF F
    <3> QED BY <2>1, <2>3, <3>3, <3>4 DEF Reads
  <2> QED BY <2>2, <2>3
<1> HIDE DEF F
<1>6. F \in [Texts -> V]
  <2> DEFINE S == {s \in Texts : F[s] \in V}
  <2>1. <<>> \in S
    BY <1>5, EmptyText DEF Reads
  <2>2. ASSUME NEW s \in S, NEW ch \in Runes PROVE Append(s, ch) \in S
    <3>1. Append(s, ch) \in Texts /\ F[Append(s, ch)] = rule[ch][F[s]]
      BY <1>5, TextGrows DEF Reads
    <3> QED BY <3>1 DEF Rules
  <2>3. S = Texts
    <3> HIDE DEF S
    <3>1. S \in SUBSET Texts
      BY DEF S
    <3> QED BY <2>1, <2>2, <3>1, TextInduction
  <2>4. DOMAIN F = Texts /\ F = [s \in Texts |-> F[s]]
    BY DEF F
  <2> QED BY <2>3, <2>4
<1> QED BY <1>5, <1>6 DEF Reader

-----------------------------------------------------------------------------
(* cpe.go, one character at a time *)

Readings ==
  {so \in [fields : Seq(Texts), esc : BOOLEAN] : so.fields # <<>>}

LEMMA FieldsEnd ==
  ASSUME NEW F \in Seq(Texts), F # <<>>
  PROVE  /\ Front(F) \in Seq(Texts) /\ Last(F) \in Texts
         /\ Len(F) \in Nat \ {0} /\ Len(Front(F)) = Len(F) - 1
         /\ F = Append(Front(F), Last(F))
BY SequenceEnds

LEMMA FieldsGrow ==
  ASSUME NEW F \in Seq(Texts), NEW t \in Texts
  PROVE  /\ Append(F, t) \in Seq(Texts) /\ Append(F, t) # <<>>
         /\ Len(Append(F, t)) = Len(F) + 1
         /\ Front(Append(F, t)) = F /\ Last(Append(F, t)) = t
BY SequenceGrows DEF Front, Last

LEMMA ReadRuneType ==
  ASSUME NEW so \in Readings, NEW ch \in Runes
  PROVE  readRune(so, ch) \in Readings
<1>1. so.fields \in Seq(Texts) /\ so.fields # <<>> /\ so.esc \in BOOLEAN
  BY DEF Readings
<1>2. Append(so.fields, <<>>) \in Seq(Texts) /\ Append(so.fields, <<>>) # <<>>
  BY <1>1, EmptyText, FieldsGrow
<1>3. Append(Last(so.fields), ch) \in Texts /\ Front(so.fields) \in Seq(Texts)
  BY <1>1, FieldsEnd, TextGrows
<1> DEFINE F == Append(Front(so.fields), Append(Last(so.fields), ch))
<1>4. F \in Seq(Texts) /\ F # <<>>
  BY <1>3, FieldsGrow
<1>5. (ch = "\\" /\ ~so.esc) \in BOOLEAN
  OBVIOUS
<1> HIDE DEF F
<1>6. readRune(so, ch) = IF ch = ":" /\ ~so.esc
                         THEN [fields |-> Append(so.fields, <<>>), esc |-> FALSE]
                         ELSE [fields |-> F, esc |-> ch = "\\" /\ ~so.esc]
  BY DEF readRune, F
<1> QED BY <1>2, <1>4, <1>5, <1>6 DEF Readings

LEMMA ReadingComputed ==
  /\ reading \in [Texts -> Readings]
  /\ reading[<<>>] = [fields |-> << <<>> >>, esc |-> FALSE]
  /\ \A s \in Texts : \A ch \in Runes :
       reading[Append(s, ch)] = readRune(reading[s], ch)
<1> DEFINE a == [fields |-> << <<>> >>, esc |-> FALSE]
           rule == [ch \in Runes |-> [so \in Readings |-> readRune(so, ch)]]
           Loop(f) == [s \in Texts |->
                         IF s = <<>> THEN [fields |-> << <<>> >>, esc |-> FALSE]
                         ELSE readRune(f[Front(s)], Last(s))]
           all == CHOOSE f : f = Loop(f)
<1>1. a \in Readings
  BY EmptyText DEF Readings
<1>2. rule \in Rules(Readings)
  BY ReadRuneType DEF Rules
<1>3. PICK f : Reader(f, Readings, a, rule)
  <2> HIDE DEF a, rule
  <2> QED BY <1>1, <1>2, ReaderExists
<1>4. f \in [Texts -> Readings] /\ \A s \in Texts : Reads(f, a, rule, s)
  BY <1>3 DEF Reader
<1>5. \A so \in Readings : \A ch \in Runes : rule[ch][so] = readRune(so, ch)
  OBVIOUS
<1>6. ASSUME NEW s \in Texts PROVE f[s] = Loop(f)[s]
  <2>1. f[s] = IF s = <<>> THEN a ELSE rule[Last(s)][f[Front(s)]]
    BY <1>4 DEF Reads
  <2>2. CASE s = <<>>
    BY <2>1, <2>2
  <2>3. CASE s # <<>>
    <3>1. f[Front(s)] \in Readings /\ Last(s) \in Runes
      BY <1>4, <2>3, TextEnds
    <3>2. f[s] = readRune(f[Front(s)], Last(s))
      <4> HIDE DEF rule
      <4> QED BY <1>5, <2>1, <2>3, <3>1
    <3> QED BY <2>3, <3>2
  <2> QED BY <2>2, <2>3
<1>7. f = Loop(f)
  BY <1>4, <1>6
<1>8. all = Loop(all)
  <2> HIDE DEF Loop
  <2> QED BY <1>7
<1>9. reading = Loop(reading)
  <2>1. reading = all
    BY DEF reading
  <2> HIDE DEF Loop, all
  <2> QED BY <1>8, <2>1
<1>10. \A s \in Texts : reading[s] = IF s = <<>> THEN a
                                     ELSE readRune(reading[Front(s)], Last(s))
  BY <1>9
<1>11. reading[<<>>] = a
  BY <1>10, EmptyText
<1>12. \A s \in Texts : \A ch \in Runes :
         reading[Append(s, ch)] = readRune(reading[s], ch)
  BY <1>10, TextGrows
<1>13. reading \in [Texts -> Readings]
  <2> DEFINE S == {s \in Texts : reading[s] \in Readings}
  <2>1. <<>> \in S
    BY <1>1, <1>11, EmptyText
  <2>2. ASSUME NEW s \in S, NEW ch \in Runes PROVE Append(s, ch) \in S
    <3>1. Append(s, ch) \in Texts /\ reading[s] \in Readings
      BY TextGrows
    <3> QED BY <1>12, <3>1, ReadRuneType
  <2>3. S = Texts
    <3> HIDE DEF S
    <3>1. S \in SUBSET Texts
      BY DEF S
    <3> QED BY <2>1, <2>2, <3>1, TextInduction
  <2>4. reading = [s \in Texts |-> reading[s]]
    BY <1>9
  <2> QED BY <2>3, <2>4
<1> QED BY <1>11, <1>12, <1>13

LEMMA Concatenated ==
  ASSUME NEW p \in Texts, NEW q \in Texts, NEW x \in Runes
  PROVE  /\ p \o q \in Texts
         /\ p \o <<>> = p
         /\ p \o <<x>> = Append(p, x)
         /\ \A y \in Runes : p \o <<x, y>> = Append(Append(p, x), y)
         /\ p \o Append(q, x) = Append(p \o q, x)
<1>1. p \in Seq(Runes) /\ q \in Seq(Runes)
  BY DEF Texts
<1>2. p \o q \in Texts
  BY <1>1, ConcatProperties DEF Texts
<1>3. p \o <<>> = p
  BY <1>1, ConcatEmptySeq
<1>4. p \o <<x>> = Append(p, x)
  BY <1>1
<1>5. \A y \in Runes : p \o <<x, y>> = Append(Append(p, x), y)
  BY <1>1
<1>6. p \o Append(q, x) = Append(p \o q, x)
  BY <1>1
<1> QED BY <1>2, <1>3, <1>4, <1>5, <1>6

LEMMA EscapedComputed ==
  /\ escaped \in [Texts -> Texts]
  /\ escaped[<<>>] = <<>>
  /\ \A s \in Texts : \A ch \in Runes :
       escaped[Append(s, ch)] =
         IF ch \in Special THEN Append(Append(escaped[s], "\\"), ch)
                           ELSE Append(escaped[s], ch)
<1> DEFINE rule == [ch \in Runes |-> [t \in Texts |-> t \o escapeRune(ch)]]
           Loop(f) == [v \in Texts |->
                         IF v = <<>> THEN <<>>
                         ELSE f[Front(v)] \o escapeRune(Last(v))]
           all == CHOOSE f : f = Loop(f)
<1>1. ASSUME NEW t \in Texts, NEW ch \in Runes
      PROVE  /\ t \o escapeRune(ch) \in Texts
             /\ t \o escapeRune(ch) = IF ch \in Special
                                      THEN Append(Append(t, "\\"), ch)
                                      ELSE Append(t, ch)
  <2>1. "\\" \in Runes
    BY NamesAssumption
  <2>2. t \o <<ch>> = Append(t, ch) /\ t \o <<"\\", ch>> = Append(Append(t, "\\"), ch)
    BY <2>1, Concatenated
  <2>3. Append(t, ch) \in Texts /\ Append(Append(t, "\\"), ch) \in Texts
    BY <2>1, TextGrows
  <2> QED BY <2>2, <2>3 DEF escapeRune
<1>2. rule \in Rules(Texts)
  BY <1>1 DEF Rules
<1>3. PICK f : Reader(f, Texts, <<>>, rule)
  <2> HIDE DEF rule
  <2> QED BY <1>2, EmptyText, ReaderExists
<1>4. f \in [Texts -> Texts] /\ \A s \in Texts : Reads(f, <<>>, rule, s)
  BY <1>3 DEF Reader
<1>5. \A t \in Texts : \A ch \in Runes : rule[ch][t] = t \o escapeRune(ch)
  OBVIOUS
<1>6. ASSUME NEW s \in Texts PROVE f[s] = Loop(f)[s]
  <2>1. f[s] = IF s = <<>> THEN <<>> ELSE rule[Last(s)][f[Front(s)]]
    BY <1>4 DEF Reads
  <2>2. CASE s = <<>>
    BY <2>1, <2>2
  <2>3. CASE s # <<>>
    <3>1. f[Front(s)] \in Texts /\ Last(s) \in Runes
      BY <1>4, <2>3, TextEnds
    <3>2. f[s] = f[Front(s)] \o escapeRune(Last(s))
      <4> HIDE DEF rule
      <4> QED BY <1>5, <2>1, <2>3, <3>1
    <3> QED BY <2>3, <3>2
  <2> QED BY <2>2, <2>3
<1>7. f = Loop(f)
  BY <1>4, <1>6
<1>8. all = Loop(all)
  <2> HIDE DEF Loop
  <2> QED BY <1>7
<1>9. escaped = Loop(escaped)
  <2>1. escaped = all
    BY DEF escaped
  <2> HIDE DEF Loop, all
  <2> QED BY <1>8, <2>1
<1>10. \A s \in Texts : escaped[s] = IF s = <<>> THEN <<>>
                                    ELSE escaped[Front(s)] \o escapeRune(Last(s))
  BY <1>9
<1>11. escaped[<<>>] = <<>>
  BY <1>10, EmptyText
<1>12. \A s \in Texts : \A ch \in Runes :
         escaped[Append(s, ch)] = escaped[s] \o escapeRune(ch)
  <2> SUFFICES ASSUME NEW s \in Texts, NEW ch \in Runes
               PROVE  escaped[Append(s, ch)] = escaped[s] \o escapeRune(ch)
    OBVIOUS
  <2> DEFINE t == Append(s, ch)
  <2>1. t \in Texts /\ t # <<>> /\ Front(t) = s /\ Last(t) = ch
    BY TextGrows
  <2> HIDE DEF t
  <2>2. escaped[t] = escaped[Front(t)] \o escapeRune(Last(t))
    BY <1>10, <2>1
  <2> QED BY <2>1, <2>2 DEF t
<1>13. escaped \in [Texts -> Texts]
  <2> DEFINE S == {s \in Texts : escaped[s] \in Texts}
  <2>1. <<>> \in S
    BY <1>11, EmptyText
  <2>2. ASSUME NEW s \in S, NEW ch \in Runes PROVE Append(s, ch) \in S
    <3>1. Append(s, ch) \in Texts /\ escaped[s] \in Texts
      BY TextGrows
    <3> QED BY <1>1, <1>12, <3>1
  <2>3. S = Texts
    <3> HIDE DEF S
    <3>1. S \in SUBSET Texts
      BY DEF S
    <3> QED BY <2>1, <2>2, <3>1, TextInduction
  <2>4. escaped = [s \in Texts |-> escaped[s]]
    BY <1>9
  <2> QED BY <2>3, <2>4
<1>14. \A s \in Texts : escaped[s] \in Texts
  BY <1>13
<1> QED BY <1>1, <1>11, <1>12, <1>13, <1>14

Unescapings ==
  {so \in [text : Texts, esc : BOOLEAN] : so.esc => so.text # <<>>}

LEMMA UnescapeRuneType ==
  ASSUME NEW so \in Unescapings, NEW ch \in Runes
  PROVE  /\ unescapeRune(so, ch) \in Unescapings
         /\ unescapeRune(so, ch).text # <<>>
         /\ Last(unescapeRune(so, ch).text) = ch
<1>1. so.text \in Texts /\ so.esc \in BOOLEAN /\ (so.esc => so.text # <<>>)
  BY DEF Unescapings
<1>2. CASE so.esc /\ ch \in Special
  <2> DEFINE t == Append(Front(so.text), ch)
  <2>1. t \in Texts /\ t # <<>> /\ Last(t) = ch
    BY <1>1, <1>2, TextEnds, TextGrows
  <2>2. unescapeRune(so, ch) = [text |-> t, esc |-> FALSE]
    BY <1>2 DEF unescapeRune
  <2> HIDE DEF t
  <2> QED BY <2>1, <2>2 DEF Unescapings
<1>3. CASE ~(so.esc /\ ch \in Special)
  <2> DEFINE t == Append(so.text, ch)
             e == ch = "\\"
  <2>1. t \in Texts /\ t # <<>> /\ Last(t) = ch /\ e \in BOOLEAN
    BY <1>1, TextGrows
  <2>2. unescapeRune(so, ch) = [text |-> t, esc |-> e]
    BY <1>3 DEF unescapeRune
  <2> HIDE DEF t, e
  <2> QED BY <2>1, <2>2 DEF Unescapings
<1> QED BY <1>2, <1>3

LEMMA UnescapingComputed ==
  /\ unescaping \in [Texts -> Unescapings]
  /\ unescaping[<<>>] = [text |-> <<>>, esc |-> FALSE]
  /\ \A s \in Texts : \A ch \in Runes :
       unescaping[Append(s, ch)] = unescapeRune(unescaping[s], ch)
<1> DEFINE a == [text |-> <<>>, esc |-> FALSE]
           rule == [ch \in Runes |->
                      [so \in Unescapings |-> unescapeRune(so, ch)]]
           Loop(f) == [v \in Texts |->
                         IF v = <<>> THEN [text |-> <<>>, esc |-> FALSE]
                         ELSE unescapeRune(f[Front(v)], Last(v))]
           all == CHOOSE f : f = Loop(f)
<1>1. a \in Unescapings
  BY EmptyText DEF Unescapings
<1>2. rule \in Rules(Unescapings)
  BY UnescapeRuneType DEF Rules
<1>3. PICK f : Reader(f, Unescapings, a, rule)
  <2> HIDE DEF a, rule
  <2> QED BY <1>1, <1>2, ReaderExists
<1>4. f \in [Texts -> Unescapings] /\ \A s \in Texts : Reads(f, a, rule, s)
  BY <1>3 DEF Reader
<1>5. \A so \in Unescapings : \A ch \in Runes :
        rule[ch][so] = unescapeRune(so, ch)
  OBVIOUS
<1>6. ASSUME NEW s \in Texts PROVE f[s] = Loop(f)[s]
  <2>1. f[s] = IF s = <<>> THEN a ELSE rule[Last(s)][f[Front(s)]]
    BY <1>4 DEF Reads
  <2>2. CASE s = <<>>
    BY <2>1, <2>2
  <2>3. CASE s # <<>>
    <3>1. f[Front(s)] \in Unescapings /\ Last(s) \in Runes
      BY <1>4, <2>3, TextEnds
    <3>2. f[s] = unescapeRune(f[Front(s)], Last(s))
      <4> HIDE DEF rule
      <4> QED BY <1>5, <2>1, <2>3, <3>1
    <3> QED BY <2>3, <3>2
  <2> QED BY <2>2, <2>3
<1>7. f = Loop(f)
  BY <1>4, <1>6
<1>8. all = Loop(all)
  <2> HIDE DEF Loop
  <2> QED BY <1>7
<1>9. unescaping = Loop(unescaping)
  <2>1. unescaping = all
    BY DEF unescaping
  <2> HIDE DEF Loop, all
  <2> QED BY <1>8, <2>1
<1>10. \A s \in Texts : unescaping[s] =
         IF s = <<>> THEN a ELSE unescapeRune(unescaping[Front(s)], Last(s))
  BY <1>9
<1>11. unescaping[<<>>] = a
  BY <1>10, EmptyText
<1>12. \A s \in Texts : \A ch \in Runes :
         unescaping[Append(s, ch)] = unescapeRune(unescaping[s], ch)
  BY <1>10, TextGrows
<1>13. unescaping \in [Texts -> Unescapings]
  <2> DEFINE S == {s \in Texts : unescaping[s] \in Unescapings}
  <2>1. <<>> \in S
    BY <1>1, <1>11, EmptyText
  <2>2. ASSUME NEW s \in S, NEW ch \in Runes PROVE Append(s, ch) \in S
    <3>1. Append(s, ch) \in Texts /\ unescaping[s] \in Unescapings
      BY TextGrows
    <3> QED BY <1>12, <3>1, UnescapeRuneType
  <2>3. S = Texts
    <3> HIDE DEF S
    <3>1. S \in SUBSET Texts
      BY DEF S
    <3> QED BY <2>1, <2>2, <3>1, TextInduction
  <2>4. unescaping = [s \in Texts |-> unescaping[s]]
    BY <1>9
  <2> QED BY <2>3, <2>4
<1> QED BY <1>11, <1>12, <1>13

-----------------------------------------------------------------------------
(* cpe.go: what bind writes, unbind and splitEscaped read back *)

LEMMA RunesUnescaped ==
  ASSUME NEW t, NEW ch
  PROVE  /\ unescapeRune([text |-> t, esc |-> FALSE], "\\") =
              [text |-> Append(t, "\\"), esc |-> TRUE]
         /\ ch \in Special =>
              unescapeRune([text |-> t, esc |-> TRUE], ch) =
                [text |-> Append(Front(t), ch), esc |-> FALSE]
         /\ ch # "\\" =>
              unescapeRune([text |-> t, esc |-> FALSE], ch) =
                [text |-> Append(t, ch), esc |-> FALSE]
<1> DEFINE so(b) == [text |-> t, esc |-> b]
<1>1. \A b : so(b).text = t /\ so(b).esc = b
  OBVIOUS
<1> HIDE DEF so
<1>2. unescapeRune(so(FALSE), "\\") = [text |-> Append(t, "\\"), esc |-> TRUE]
  <2>1. ("\\" = "\\") = TRUE
    OBVIOUS
  <2>2. unescapeRune(so(FALSE), "\\") =
          [text |-> Append(t, "\\"), esc |-> "\\" = "\\"]
    BY <1>1, Zenon DEF unescapeRune
  <2> QED BY <2>1, <2>2, Zenon
<1>3. ASSUME ch \in Special
      PROVE  unescapeRune(so(TRUE), ch) =
               [text |-> Append(Front(t), ch), esc |-> FALSE]
  BY <1>1, <1>3, Zenon DEF unescapeRune
<1>4. ASSUME ch # "\\"
      PROVE  unescapeRune(so(FALSE), ch) = [text |-> Append(t, ch), esc |-> FALSE]
  <2>1. (ch = "\\") = FALSE
    BY <1>4
  <2>2. unescapeRune(so(FALSE), ch) = [text |-> Append(t, ch), esc |-> ch = "\\"]
    BY <1>1, Zenon DEF unescapeRune
  <2> QED BY <2>1, <2>2, Zenon
<1> QED BY <1>2, <1>3, <1>4, Zenon DEF so

LEMMA RunesRead ==
  ASSUME NEW F \in Seq(Texts), NEW t \in Texts, NEW ch
  PROVE  /\ readRune([fields |-> Append(F, t), esc |-> FALSE], "\\") =
              [fields |-> Append(F, Append(t, "\\")), esc |-> TRUE]
         /\ readRune([fields |-> Append(F, t), esc |-> TRUE], ch) =
              [fields |-> Append(F, Append(t, ch)), esc |-> FALSE]
         /\ ch \notin {"\\", ":"} =>
              readRune([fields |-> Append(F, t), esc |-> FALSE], ch) =
                [fields |-> Append(F, Append(t, ch)), esc |-> FALSE]
         /\ readRune([fields |-> Append(F, t), esc |-> FALSE], ":") =
              [fields |-> Append(Append(F, t), <<>>), esc |-> FALSE]
<1> DEFINE so(b) == [fields |-> Append(F, t), esc |-> b]
<1>1. \A b : so(b).fields = Append(F, t) /\ so(b).esc = b
  OBVIOUS
<1> HIDE DEF so
<1>2. Front(Append(F, t)) = F /\ Last(Append(F, t)) = t
  BY FieldsGrow
<1>3. readRune(so(FALSE), "\\") =
        [fields |-> Append(F, Append(t, "\\")), esc |-> TRUE]
  <2>1. ("\\" = "\\" /\ ~FALSE) = TRUE /\ "\\" # ":"
    OBVIOUS
  <2>2. readRune(so(FALSE), "\\") =
          [fields |-> Append(F, Append(t, "\\")), esc |-> "\\" = "\\" /\ ~FALSE]
    BY <1>1, <1>2, <2>1, Zenon DEF readRune
  <2> QED BY <2>1, <2>2, Zenon
<1>4. readRune(so(TRUE), ch) = [fields |-> Append(F, Append(t, ch)), esc |-> FALSE]
  <2>1. (ch = "\\" /\ ~TRUE) = FALSE
    OBVIOUS
  <2>2. readRune(so(TRUE), ch) =
          [fields |-> Append(F, Append(t, ch)), esc |-> ch = "\\" /\ ~TRUE]
    BY <1>1, <1>2, Zenon DEF readRune
  <2> QED BY <2>1, <2>2, Zenon
<1>5. ASSUME ch \notin {"\\", ":"}
      PROVE  readRune(so(FALSE), ch) =
               [fields |-> Append(F, Append(t, ch)), esc |-> FALSE]
  <2>1. (ch = "\\" /\ ~FALSE) = FALSE /\ ch # ":"
    BY <1>5
  <2>2. readRune(so(FALSE), ch) =
          [fields |-> Append(F, Append(t, ch)), esc |-> ch = "\\" /\ ~FALSE]
    BY <1>1, <1>2, <2>1, Zenon DEF readRune
  <2> QED BY <2>1, <2>2, Zenon
<1>6. readRune(so(FALSE), ":") =
        [fields |-> Append(Append(F, t), <<>>), esc |-> FALSE]
  BY <1>1, Zenon DEF readRune
<1> QED BY <1>3, <1>4, <1>5, <1>6, Zenon DEF so

\* unbind undoes the escapes, and ends where no escape is open.
LEMMA EscapedIsUndone ==
  ASSUME NEW v \in Texts
  PROVE  /\ unescaping[escaped[v]] = [text |-> v, esc |-> FALSE]
         /\ v # <<>> => escaped[v] # <<>> /\ Last(escaped[v]) = Last(v)
<1> DEFINE S == {s \in Texts :
                   /\ unescaping[escaped[s]] = [text |-> s, esc |-> FALSE]
                   /\ s # <<>> =>
                        escaped[s] # <<>> /\ Last(escaped[s]) = Last(s)}
<1>1. <<>> \in S
  BY EscapedComputed, UnescapingComputed, EmptyText
<1>2. ASSUME NEW s \in S, NEW ch \in Runes PROVE Append(s, ch) \in S
  <2> DEFINE e == escaped[s]
             t == Append(s, ch)
  <2>1. e \in Texts /\ unescaping[e] = [text |-> s, esc |-> FALSE]
    BY EscapedComputed
  <2>2. t \in Texts /\ t # <<>> /\ Last(t) = ch
    BY TextGrows
  <2>3. CASE ch \in Special
    <3> DEFINE d == Append(e, "\\")
               w == Append(d, ch)
    <3>1. "\\" \in Runes /\ d \in Texts /\ w \in Texts /\ w # <<>> /\ Last(w) = ch
      BY <2>1, NamesAssumption, TextGrows
    <3>2. escaped[t] = w
      BY <2>3, EscapedComputed
    <3>3. unescaping[d] = [text |-> Append(s, "\\"), esc |-> TRUE]
      <4>1. unescaping[d] = unescapeRune(unescaping[e], "\\")
        BY <2>1, <3>1, UnescapingComputed
      <4> QED BY <2>1, <4>1, RunesUnescaped
    <3>4. unescaping[w] = unescapeRune(unescaping[d], ch)
      BY <3>1, UnescapingComputed
    <3>5. Front(Append(s, "\\")) = s
      BY <3>1, TextGrows
    <3> HIDE DEF d, w
    <3>6. unescaping[w] = [text |-> t, esc |-> FALSE]
      <4> DEFINE u == Append(s, "\\")
      <4>1. Append(Front(u), ch) = t
        BY <3>5
      <4>2. unescaping[d] = [text |-> u, esc |-> TRUE]
        BY <3>3
      <4> HIDE DEF u, t
      <4>3. unescapeRune([text |-> u, esc |-> TRUE], ch) =
              [text |-> Append(Front(u), ch), esc |-> FALSE]
        BY <2>3, RunesUnescaped
      <4> QED BY <3>4, <4>1, <4>2, <4>3
    <3> QED BY <2>2, <3>1, <3>2, <3>6
  <2>4. CASE ch \notin Special
    <3> DEFINE w == Append(e, ch)
    <3>1. w \in Texts /\ w # <<>> /\ Last(w) = ch
      BY <2>1, TextGrows
    <3>2. escaped[t] = w
      BY <2>4, EscapedComputed
    <3>3. unescaping[w] = unescapeRune(unescaping[e], ch)
      BY <2>1, UnescapingComputed
    <3> HIDE DEF w
    <3>4. unescaping[w] = [text |-> t, esc |-> FALSE]
      <4>1. ch # "\\"
        BY <2>4 DEF Special
      <4> QED BY <2>1, <3>3, <4>1, RunesUnescaped
    <3> QED BY <2>2, <3>1, <3>2, <3>4
  <2> QED BY <2>3, <2>4
<1>3. S = Texts
  <2> HIDE DEF S
  <2>1. S \in SUBSET Texts
    BY DEF S
  <2> QED BY <1>1, <1>2, <2>1, TextInduction
<1> QED BY <1>3

\* After a text whose escapes are closed, an escaped text is read into the
\* last field, and leaves no escape open.
LEMMA EscapedIsRead ==
  ASSUME NEW p \in Texts, NEW F \in Seq(Texts), NEW v \in Texts,
         reading[p] = [fields |-> Append(F, <<>>), esc |-> FALSE]
  PROVE  reading[p \o escaped[v]] =
           [fields |-> Append(F, escaped[v]), esc |-> FALSE]
<1> DEFINE S == {s \in Texts : reading[p \o escaped[s]] =
                   [fields |-> Append(F, escaped[s]), esc |-> FALSE]}
<1>1. <<>> \in S
  <2>1. escaped[<<>>] = <<>> /\ p \o <<>> = p
    BY EscapedComputed, ConcatEmptySeq DEF Texts
  <2> QED BY <2>1, EmptyText
<1>2. ASSUME NEW s \in S, NEW ch \in Runes PROVE Append(s, ch) \in S
  <2> DEFINE e == escaped[s]
             q == p \o e
             t == Append(s, ch)
  <2>1. /\ e \in Texts /\ q \in Texts /\ t \in Texts /\ "\\" \in Runes
        /\ reading[q] = [fields |-> Append(F, e), esc |-> FALSE]
    BY EscapedComputed, Concatenated, TextGrows, NamesAssumption
  <2>2. CASE ch \in Special
    <3> DEFINE d == Append(e, "\\")
               w == Append(d, ch)
    <3>1. d \in Texts /\ w \in Texts /\ escaped[t] = w
      BY <2>1, <2>2, EscapedComputed, TextGrows
    <3>2. /\ Append(q, "\\") \in Texts
          /\ p \o d = Append(q, "\\") /\ p \o w = Append(Append(q, "\\"), ch)
      <4>1. p \o d = Append(q, "\\")
        BY <2>1, Concatenated
      <4>2. p \o w = Append(p \o d, ch)
        <5> HIDE DEF d
        <5> QED BY <3>1, Concatenated
      <4> QED BY <2>1, <4>1, <4>2, TextGrows
    <3>3. reading[p \o d] = [fields |-> Append(F, d), esc |-> TRUE]
      <4>1. reading[Append(q, "\\")] = readRune(reading[q], "\\")
        BY <2>1, ReadingComputed
      <4> HIDE DEF e, q
      <4> QED BY <2>1, <3>2, <4>1, RunesRead
    <3>4. reading[p \o w] = [fields |-> Append(F, w), esc |-> FALSE]
      <4>1. reading[p \o w] = readRune(reading[p \o d], ch)
        BY <3>2, ReadingComputed
      <4> HIDE DEF d
      <4> QED BY <3>1, <3>3, <4>1, RunesRead
    <3> QED BY <2>1, <3>1, <3>4
  <2>3. CASE ch \notin Special
    <3> DEFINE w == Append(e, ch)
    <3>1. w \in Texts /\ escaped[t] = w /\ p \o w = Append(q, ch)
      <4>1. w \in Texts
        BY <2>1, TextGrows
      <4>2. escaped[t] = w
        BY <2>3, EscapedComputed
      <4>3. p \o w = Append(q, ch)
        BY <2>1, Concatenated
      <4> QED BY <4>1, <4>2, <4>3
    <3>2. reading[Append(q, ch)] = readRune(reading[q], ch)
      BY <2>1, ReadingComputed
    <3>3. reading[p \o w] = [fields |-> Append(F, w), esc |-> FALSE]
      <4> HIDE DEF q, e
      <4>1. readRune([fields |-> Append(F, e), esc |-> FALSE], ch) =
              [fields |-> Append(F, Append(e, ch)), esc |-> FALSE]
        <5>1. ch \notin {"\\", ":"}
          BY <2>3 DEF Special
        <5> QED BY <2>1, <5>1, RunesRead
      <4> QED BY <2>1, <3>1, <3>2, <4>1
    <3> QED BY <2>1, <3>1, <3>3
  <2> QED BY <2>2, <2>3
<1>3. S = Texts
  <2> HIDE DEF S
  <2>1. S \in SUBSET Texts
    BY DEF S
  <2> QED BY <1>1, <1>2, <2>1, TextInduction
<1> QED BY <1>3

LEMMA Joined ==
  ASSUME NEW p \in Texts, NEW q \in Texts, p # <<>>
  PROVE  /\ p \o q \in Texts /\ p \o q # <<>> /\ (p \o q)[1] = p[1]
         /\ q # <<>> => Last(p \o q) = Last(q)
<1>1. Len(p) \in Nat \ {0} /\ Len(q) \in Nat
  BY TextEnds DEF Texts
<1>2. /\ p \o q \in Texts /\ Len(p \o q) = Len(p) + Len(q)
      /\ \A i \in 1 .. Len(p) + Len(q) :
           (p \o q)[i] = IF i <= Len(p) THEN p[i] ELSE q[i - Len(p)]
  BY ConcatProperties DEF Texts
<1>3. p \o q # <<>>
  BY <1>1, <1>2, EmptyText
<1>4. (p \o q)[1] = p[1]
  BY <1>1, <1>2
<1>5. ASSUME q # <<>> PROVE Last(p \o q) = Last(q)
  <2>1. Len(q) \in Nat \ {0}
    BY <1>5, TextEnds
  <2>2. (p \o q)[Len(p) + Len(q)] = q[Len(q)]
    BY <1>1, <1>2, <2>1
  <2> QED BY <1>2, <2>2 DEF Last
<1> QED BY <1>2, <1>3, <1>4, <1>5

\* What Canonical writes for an attribute.
bound(v) == IF v = <<>> THEN Star ELSE bind(v)

LEMMA OneRune ==
  ASSUME NEW ch \in Runes
  PROVE  <<ch>> \in Texts /\ <<ch>> # <<>> /\ <<ch>> = Append(<<>>, ch)
         /\ Last(<<ch>>) = ch /\ <<ch>>[1] = ch
BY DEF Texts, Last

\* Whatever the attribute is, it is read back as what was written, into one
\* field; and written again it is the same.
LEMMA BoundIsRead ==
  ASSUME NEW p \in Texts, NEW F \in Seq(Texts), NEW v \in Texts,
         reading[p] = [fields |-> Append(F, <<>>), esc |-> FALSE]
  PROVE  reading[p \o bound(v)] =
           [fields |-> Append(F, bound(v)), esc |-> FALSE]
<1>1. ASSUME NEW ch \in {"*", "-"}
      PROVE  reading[p \o <<ch>>] = [fields |-> Append(F, <<ch>>), esc |-> FALSE]
  <2>1. ch \in Runes /\ ch \notin {"\\", ":"}
    BY NamesAssumption
  <2>2. p \o <<ch>> = Append(p, ch) /\ <<ch>> = Append(<<>>, ch)
    BY <2>1, Concatenated, OneRune
  <2>3. reading[Append(p, ch)] = readRune(reading[p], ch)
    BY <2>1, ReadingComputed
  <2>4. readRune([fields |-> Append(F, <<>>), esc |-> FALSE], ch) =
          [fields |-> Append(F, Append(<<>>, ch)), esc |-> FALSE]
    BY <2>1, EmptyText, RunesRead
  <2> QED BY <2>2, <2>3, <2>4
<1>2. bound(v) \in {Star, <<"-">>} \/ bound(v) = escaped[v]
  BY DEF bound, bind
<1> QED BY <1>1, <1>2, EscapedIsRead DEF Star

LEMMA BoundIsUnbound ==
  ASSUME NEW v \in Texts
  PROVE  /\ bound(v) \in Texts /\ bound(v) # <<>>
         /\ unbind(bound(v)) = IF v = <<>> THEN Star ELSE v
         /\ bound(unbind(bound(v))) = bound(v)
         /\ v # <<>> => Last(bound(v)) = Last(v)
<1>1. ASSUME NEW ch \in {"*", "-"}
      PROVE  <<ch>> \in Texts /\ <<ch>> # <<>> /\ unbind(<<ch>>) = <<ch>>
  <2>1. ch \in Runes /\ ch # "\\"
    BY NamesAssumption
  <2>2. <<ch>> \in Texts /\ <<ch>> # <<>> /\ <<ch>> = Append(<<>>, ch)
    BY <2>1, OneRune
  <2>3. unescaping[Append(<<>>, ch)] = unescapeRune(unescaping[<<>>], ch)
    BY <2>1, EmptyText, UnescapingComputed
  <2>4. unescapeRune([text |-> <<>>, esc |-> FALSE], ch) =
          [text |-> Append(<<>>, ch), esc |-> FALSE]
    BY <2>1, RunesUnescaped
  <2>5. unescaping[<<ch>>] = [text |-> <<ch>>, esc |-> FALSE]
    BY <2>2, <2>3, <2>4, UnescapingComputed
  <2> QED BY <2>2, <2>5 DEF unbind
<1>2. bound(Star) = Star /\ bound(<<>>) = Star /\ bound(<<"-">>) = <<"-">>
  BY DEF bound, bind, Star
<1>3. CASE v = <<>>
  BY <1>1, <1>2, <1>3 DEF Star
<1>4. CASE v \in {Star, <<"-">>}
  BY <1>1, <1>2, <1>4 DEF Star
<1>5. CASE v # <<>> /\ v \notin {Star, <<"-">>}
  <2>1. bound(v) = escaped[v]
    BY <1>5 DEF bound, bind
  <2>2. escaped[v] \in Texts /\ escaped[v] # <<>> /\ Last(escaped[v]) = Last(v)
    BY <1>5, EscapedComputed, EscapedIsUndone
  <2>3. unbind(escaped[v]) = v
    <3>1. unescaping[escaped[v]] = [text |-> v, esc |-> FALSE]
      BY EscapedIsUndone
    <3>2. [text |-> v, esc |-> FALSE].text = v
      OBVIOUS
    <3> QED BY <3>1, <3>2, Zenon DEF unbind
  <2> QED BY <1>5, <2>1, <2>2, <2>3
<1> QED BY <1>3, <1>4, <1>5

\* The name up to its last attribute.
Lead(c1, c2, c3) ==
  bound(c1) \o <<":">> \o bound(c2) \o <<":">> \o bound(c3) \o <<":">>

Four(a, b, c, d) == Append(Append(Append(Append(<<>>, a), b), c), d)

LEMMA AppendedFields ==
  ASSUME NEW F \in Seq(Texts), NEW t \in Texts
  PROVE  /\ Append(F, t) \in Seq(Texts)
         /\ Len(Append(F, t)) = Len(F) + 1
         /\ Append(F, t)[Len(F) + 1] = t
         /\ \A i \in 1 .. Len(F) : Append(F, t)[i] = F[i]
OBVIOUS

LEMMA FourFields ==
  ASSUME NEW a \in Texts, NEW b \in Texts, NEW c \in Texts, NEW d \in Texts
  PROVE  /\ Four(a, b, c, d) \in Seq(Texts) /\ Len(Four(a, b, c, d)) = 4
         /\ Four(a, b, c, d)[1] = a /\ Four(a, b, c, d)[2] = b
         /\ Four(a, b, c, d)[3] = c /\ Four(a, b, c, d)[4] = d
<1> DEFINE F0 == <<>>
           F1 == Append(F0, a)
           F2 == Append(F1, b)
           F3 == Append(F2, c)
           F4 == Append(F3, d)
<1>0. F0 \in Seq(Texts) /\ Len(F0) = 0
  OBVIOUS
<1> HIDE DEF F0
<1>1. F1 \in Seq(Texts) /\ Len(F1) = 1 /\ F1[1] = a
  BY <1>0, AppendedFields
<1> HIDE DEF F1
<1>2. F2 \in Seq(Texts) /\ Len(F2) = 2 /\ F2[1] = a /\ F2[2] = b
  <2>1. /\ F2 \in Seq(Texts) /\ Len(F2) = Len(F1) + 1
        /\ F2[Len(F1) + 1] = b /\ \A i \in 1 .. Len(F1) : F2[i] = F1[i]
    BY <1>1, AppendedFields
  <2>2. 1 \in 1 .. 1 /\ 1 + 1 = 2
    OBVIOUS
  <2> HIDE DEF F2
  <2> QED BY <1>1, <2>1, <2>2
<1> HIDE DEF F2
<1>3. F3 \in Seq(Texts) /\ Len(F3) = 3 /\ F3[1] = a /\ F3[2] = b /\ F3[3] = c
  <2>1. /\ F3 \in Seq(Texts) /\ Len(F3) = Len(F2) + 1
        /\ F3[Len(F2) + 1] = c /\ \A i \in 1 .. Len(F2) : F3[i] = F2[i]
    BY <1>2, AppendedFields
  <2>2. 1 \in 1 .. 2 /\ 2 \in 1 .. 2 /\ 2 + 1 = 3
    OBVIOUS
  <2> HIDE DEF F3
  <2> QED BY <1>2, <2>1, <2>2
<1> HIDE DEF F3
<1>4. /\ F4 \in Seq(Texts) /\ Len(F4) = 4
      /\ F4[1] = a /\ F4[2] = b /\ F4[3] = c /\ F4[4] = d
  <2>1. /\ F4 \in Seq(Texts) /\ Len(F4) = Len(F3) + 1
        /\ F4[Len(F3) + 1] = d /\ \A i \in 1 .. Len(F3) : F4[i] = F3[i]
    BY <1>3, AppendedFields
  <2>2. 1 \in 1 .. 3 /\ 2 \in 1 .. 3 /\ 3 \in 1 .. 3 /\ 3 + 1 = 4
    OBVIOUS
  <2> HIDE DEF F4
  <2> QED BY <1>3, <2>1, <2>2
<1>5. F4 = Four(a, b, c, d)
  BY DEF F3, F2, F1, F0, Four
<1> QED BY <1>4, <1>5

LEMMA ColonIsRead ==
  ASSUME NEW p \in Texts, NEW F \in Seq(Texts), NEW t \in Texts,
         reading[p] = [fields |-> Append(F, t), esc |-> FALSE]
  PROVE  /\ p \o <<":">> \in Texts
         /\ reading[p \o <<":">>] =
              [fields |-> Append(Append(F, t), <<>>), esc |-> FALSE]
         /\ Append(F, t) \in Seq(Texts)
<1>1. ":" \in Runes
  BY NamesAssumption
<1>2. p \o <<":">> = Append(p, ":") /\ Append(p, ":") \in Texts
  BY <1>1, Concatenated, TextGrows
<1>3. reading[Append(p, ":")] = readRune(reading[p], ":")
  BY <1>1, ReadingComputed
<1> QED BY <1>2, <1>3, RunesRead, FieldsGrow

LEMMA LeadIsRead ==
  ASSUME NEW c1 \in Texts, NEW c2 \in Texts, NEW c3 \in Texts
  PROVE  /\ Lead(c1, c2, c3) \in Texts
         /\ reading[Lead(c1, c2, c3)] =
              [fields |-> Four(bound(c1), bound(c2), bound(c3), <<>>),
               esc    |-> FALSE]
<1> DEFINE b1 == bound(c1)
           b2 == bound(c2)
           b3 == bound(c3)
           F0 == <<>>
           F1 == Append(F0, b1)
           F2 == Append(F1, b2)
           F3 == Append(F2, b3)
           p1 == b1 \o <<":">>
           p2 == p1 \o b2 \o <<":">>
           p3 == p2 \o b3 \o <<":">>
<1>0. b1 \in Texts /\ b2 \in Texts /\ b3 \in Texts
  BY BoundIsUnbound
<1>1. /\ p1 \in Texts /\ F1 \in Seq(Texts)
      /\ reading[p1] = [fields |-> Append(F1, <<>>), esc |-> FALSE]
  <2>1. F0 \in Seq(Texts) /\ << <<>> >> = Append(F0, <<>>)
    OBVIOUS
  <2> HIDE DEF F0
  <2>2. reading[<<>>] = [fields |-> Append(F0, <<>>), esc |-> FALSE]
    BY <2>1, ReadingComputed
  <2>3. reading[<<>> \o bound(c1)] = [fields |-> Append(F0, bound(c1)), esc |-> FALSE]
    BY <2>1, <2>2, EmptyText, BoundIsRead
  <2>4. <<>> \o bound(c1) = b1
    BY <1>0, ConcatEmptySeq DEF Texts
  <2>5. reading[b1] = [fields |-> Append(F0, b1), esc |-> FALSE]
    BY <2>3, <2>4
  <2> HIDE DEF b1
  <2> QED BY <1>0, <2>1, <2>5, ColonIsRead
<1> HIDE DEF p1, F1, F0
<1>2. /\ p2 \in Texts /\ F2 \in Seq(Texts)
      /\ reading[p2] = [fields |-> Append(F2, <<>>), esc |-> FALSE]
  <2>1. reading[p1 \o bound(c2)] = [fields |-> Append(F1, bound(c2)), esc |-> FALSE]
    BY <1>1, BoundIsRead
  <2>2. p1 \o bound(c2) \in Texts
    BY <1>0, <1>1, ConcatProperties DEF Texts
  <2> QED BY <1>0, <1>1, <2>1, <2>2, ColonIsRead
<1> HIDE DEF p2, F2
<1>3. /\ p3 \in Texts /\ F3 \in Seq(Texts)
      /\ reading[p3] = [fields |-> Append(F3, <<>>), esc |-> FALSE]
  <2>1. reading[p2 \o bound(c3)] = [fields |-> Append(F2, bound(c3)), esc |-> FALSE]
    BY <1>2, BoundIsRead
  <2>2. p2 \o bound(c3) \in Texts
    BY <1>0, <1>2, ConcatProperties DEF Texts
  <2> QED BY <1>0, <1>2, <2>1, <2>2, ColonIsRead
<1>4. Append(F3, <<>>) = Four(b1, b2, b3, <<>>)
  BY DEF F1, F2, F0, Four
<1>5. p3 = Lead(c1, c2, c3)
  BY DEF p1, p2, Lead
<1> QED BY <1>3, <1>4, <1>5

-----------------------------------------------------------------------------
(* strings.TrimSpace *)

LEMMA Greatest ==
  ASSUME NEW n \in Nat, NEW T \in SUBSET (1 .. n), T # {}
  PROVE  \E m \in T : \A k \in T : k <= m
<1> DEFINE U == {k \in Nat : n - k \in T}
<1>1. PICK x \in T : TRUE
  OBVIOUS
<1>2. n - x \in U
  BY <1>1
<1>3. PICK u \in U : \A k \in U : u <= k
  <2> HIDE DEF U
  <2>1. U \in SUBSET Nat
    BY DEF U
  <2> QED BY <1>2, <2>1, Least
<1>4. n - u \in T /\ u \in Nat
  BY <1>3
<1>5. ASSUME NEW k \in T PROVE k <= n - u
  <2>1. k \in 1 .. n
    OBVIOUS
  <2>2. n - k \in U
    BY <2>1
  <2>3. u <= n - k
    BY <1>3, <2>2
  <2> QED BY <1>4, <2>1, <2>3
<1> QED BY <1>4, <1>5

\* The text from its first to its last character that is no space.
LEMMA Trimmed ==
  ASSUME NEW s \in Texts
  PROVE  \/ Trim(s) = <<>> /\ \A i \in 1 .. Len(s) : s[i] = Space
         \/ \E lo, hi \in 1 .. Len(s) :
              /\ Trim(s) = SubSeq(s, lo, hi) /\ lo <= hi
              /\ s[lo] # Space /\ s[hi] # Space
              /\ \A i \in 1 .. Len(s) : s[i] # Space => lo <= i /\ i <= hi
<1> DEFINE solid == {i \in DOMAIN s : s[i] # Space}
<1>1. DOMAIN s = 1 .. Len(s) /\ Len(s) \in Nat
  BY DEF Texts
<1>2. Trim(s) = IF solid = {} THEN <<>> ELSE SubSeq(s, Min(solid), Max(solid))
  BY DEF Trim
<1>3. \A i \in 1 .. Len(s) : s[i] # Space => i \in solid
  BY <1>1
<1>4. \A i \in solid : i \in 1 .. Len(s) /\ s[i] # Space
  BY <1>1
<1> HIDE DEF solid
<1>5. CASE solid = {}
  BY <1>2, <1>3, <1>5
<1>6. CASE solid # {}
  <2>1. solid \in SUBSET (1 .. Len(s)) /\ solid \in SUBSET Nat
    BY <1>1, <1>4
  <2>2. \E m \in solid : \A k \in solid : m <= k
    BY <1>6, <2>1, Least
  <2>3. \E m \in solid : \A k \in solid : k <= m
    BY <1>1, <1>6, <2>1, Greatest
  <2> DEFINE lo == Min(solid)
             hi == Max(solid)
  <2>4. lo \in solid /\ \A k \in solid : lo <= k
    BY <2>2 DEF Min
  <2>5. hi \in solid /\ \A k \in solid : hi >= k
    <3>1. \E m \in solid : \A k \in solid : m >= k
      BY <2>1, <2>3
    <3> QED BY <3>1 DEF Max
  <2>6. Trim(s) = SubSeq(s, lo, hi)
    BY <1>2, <1>6
  <2> HIDE DEF lo, hi
  <2>7. \A i \in 1 .. Len(s) : s[i] # Space => lo <= i /\ i <= hi
    BY <1>1, <1>3, <1>4, <2>4, <2>5
  <2>8. lo \in 1 .. Len(s) /\ hi \in 1 .. Len(s) /\ lo <= hi /\ s[lo] # Space /\ s[hi] # Space
    BY <1>4, <2>4, <2>5
  <2> QED BY <2>6, <2>7, <2>8
<1> QED BY <1>5, <1>6

LEMMA TrimType ==
  ASSUME NEW s \in Texts
  PROVE  Trim(s) \in Texts /\ (Trim(s) # <<>> => Last(Trim(s)) # Space)
<1>1. CASE Trim(s) = <<>>
  BY <1>1, EmptyText
<1>2. ASSUME NEW lo \in 1 .. Len(s), NEW hi \in 1 .. Len(s), lo <= hi,
             Trim(s) = SubSeq(s, lo, hi), s[hi] # Space
      PROVE  Trim(s) \in Texts /\ Last(Trim(s)) # Space
  <2>1. /\ Len(s) \in Nat /\ lo \in Int /\ hi \in Int
        /\ \A i \in lo .. hi : s[i] \in Runes
    BY DEF Texts
  <2>2. /\ SubSeq(s, lo, hi) \in Seq(Runes)
        /\ Len(SubSeq(s, lo, hi)) = IF lo <= hi THEN hi - lo + 1 ELSE 0
        /\ \A i \in 1 .. hi - lo + 1 : SubSeq(s, lo, hi)[i] = s[lo + i - 1]
    BY <2>1, SubSeqProperties
  <2> DEFINE n == hi - lo + 1
  <2>3. n \in 1 .. n /\ lo + n - 1 = hi
    BY <1>2, <2>1
  <2>4. Len(Trim(s)) = n /\ Trim(s)[n] = s[hi]
    <3>1. SubSeq(s, lo, hi)[n] = s[lo + n - 1]
      BY <2>2, <2>3
    <3> QED BY <1>2, <2>2, <2>3, <3>1
  <2> QED BY <1>2, <2>2, <2>4 DEF Last, Texts
<1> QED BY <1>1, <1>2, Trimmed

\* A text that begins and ends with another character than a space is kept.
LEMMA TrimKeeps ==
  ASSUME NEW s \in Texts, s # <<>>, s[1] # Space, Last(s) # Space
  PROVE  Trim(s) = s
<1>1. Len(s) \in Nat \ {0}
  BY TextEnds
<1>2. 1 \in 1 .. Len(s) /\ Len(s) \in 1 .. Len(s) /\ s[Len(s)] # Space
  BY <1>1 DEF Last
<1>3. PICK lo \in 1 .. Len(s), hi \in 1 .. Len(s) :
        /\ Trim(s) = SubSeq(s, lo, hi)
        /\ \A i \in 1 .. Len(s) : s[i] # Space => lo <= i /\ i <= hi
  BY <1>2, Trimmed
<1>4. lo = 1 /\ hi = Len(s)
  BY <1>1, <1>2, <1>3
<1>5. SubSeq(s, 1, Len(s)) = s
  BY SubSeqFull DEF Texts
<1> QED BY <1>3, <1>4, <1>5

\* And what follows such a beginning is cut at the end only.
LEMMA TrimStarts ==
  ASSUME NEW h \in Texts, NEW q \in Texts, h # <<>>, h[1] # Space, Last(h) # Space
  PROVE  \E r \in Texts : Trim(h \o q) = h \o r
<1> DEFINE s == h \o q
           n == Len(h)
<1>1. n \in Nat \ {0} /\ Len(q) \in Nat
  BY TextEnds DEF Texts
<1>2. /\ h \in Seq(Runes) /\ q \in Seq(Runes)
      /\ s \in Seq(Runes) /\ Len(s) = n + Len(q)
      /\ \A i \in 1 .. Len(h) + Len(q) :
           s[i] = IF i <= Len(h) THEN h[i] ELSE q[i - Len(h)]
  BY ConcatProperties DEF Texts
<1>3. 1 \in 1 .. Len(s) /\ n \in 1 .. Len(s) /\ s[1] = h[1] /\ s[n] = h[n]
  BY <1>1, <1>2
<1>4. SubSeq(s, 1, n) = h
  <2>1. 1 \in 1 .. Len(h) /\ n \in 1 .. Len(h)
    BY <1>1
  <2>2. SubSeq(h \o q, 1, n) = SubSeq(h, 1, n)
    BY <1>2, <2>1, SubSeqOfConcat1
  <2>3. SubSeq(h, 1, Len(h)) = h
    BY <1>2, SubSeqFull
  <2> QED BY <2>2, <2>3
<1> HIDE DEF s
<1>5. PICK lo \in 1 .. Len(s), hi \in 1 .. Len(s) :
        /\ Trim(s) = SubSeq(s, lo, hi)
        /\ \A i \in 1 .. Len(s) : s[i] # Space => lo <= i /\ i <= hi
  BY <1>2, <1>3, Trimmed DEF Texts
<1>6. lo = 1 /\ n <= hi
  <2>1. s[1] # Space /\ s[n] # Space
    BY <1>3 DEF Last
  <2> HIDE DEF n
  <2> QED BY <1>1, <1>2, <1>3, <1>5, <2>1
<1> DEFINE r == SubSeq(s, n + 1, hi)
<1>7. SubSeq(s, 1, n) \o r = SubSeq(s, 1, hi)
  <2> HIDE DEF n
  <2>1. 1 \in 1 .. Len(s) + 1 /\ n \in 1 - 1 .. Len(s) /\ hi \in n .. Len(s)
    BY <1>1, <1>2, <1>5, <1>6
  <2> QED BY <1>2, <2>1, ConcatAdjacentSubSeq
<1>8. r \in Texts
  <2> HIDE DEF n
  <2>1. n + 1 \in Int /\ hi \in Int /\ \A i \in n + 1 .. hi : s[i] \in Runes
    BY <1>1, <1>2, <1>5
  <2> QED BY <2>1, SubSeqProperties DEF Texts
<1> QED BY <1>4, <1>5, <1>6, <1>7, <1>8 DEF s

-----------------------------------------------------------------------------
(* Names *)

\* The fields that are closed stay as they are.
LEMMA RuneKeepsFields ==
  ASSUME NEW so \in Readings, NEW ch \in Runes
  PROVE  /\ Len(readRune(so, ch).fields) >= Len(so.fields)
         /\ \A i \in 1 .. Len(so.fields) - 1 :
              readRune(so, ch).fields[i] = so.fields[i]
<1> DEFINE F == so.fields
           n == Len(F)
           t == Append(Last(F), ch)
<1>1. F \in Seq(Texts) /\ F # <<>>
  BY DEF Readings
<1>2. /\ n \in Nat \ {0} /\ Front(F) \in Seq(Texts) /\ Last(F) \in Texts
      /\ Len(Front(F)) = n - 1 /\ F = Append(Front(F), Last(F))
  BY <1>1, FieldsEnd
<1>3. t \in Texts
  BY <1>2, TextGrows
<1> HIDE DEF F, t
<1>4. /\ Len(Append(F, <<>>)) = n + 1
      /\ \A i \in 1 .. n : Append(F, <<>>)[i] = F[i]
  BY <1>1, EmptyText, AppendedFields
<1>5. /\ Len(Append(Front(F), t)) = n
      /\ \A i \in 1 .. n - 1 : Append(Front(F), t)[i] = F[i]
  <2>1. /\ Len(Append(Front(F), t)) = (n - 1) + 1
        /\ \A i \in 1 .. n - 1 : Append(Front(F), t)[i] = Front(F)[i]
    BY <1>2, <1>3, AppendedFields
  <2>2. \A i \in 1 .. n - 1 : Append(Front(F), Last(F))[i] = Front(F)[i]
    BY <1>2, AppendedFields
  <2> QED BY <1>2, <2>1, <2>2
<1>6. readRune(so, ch).fields \in {Append(F, <<>>), Append(Front(F), t)}
  BY DEF readRune, F, t
<1>7. \A i \in 1 .. n - 1 : i \in 1 .. n
  BY <1>2
<1>8. n + 1 >= n /\ n >= n
  BY <1>2
<1> HIDE DEF n
<1>9. /\ Len(readRune(so, ch).fields) >= n
      /\ \A i \in 1 .. n - 1 : readRune(so, ch).fields[i] = F[i]
  BY <1>4, <1>5, <1>6, <1>7, <1>8
<1> QED BY <1>9 DEF F, n

LEMMA FieldsStay ==
  ASSUME NEW p \in Texts, NEW q \in Texts
  PROVE  /\ Len(reading[p \o q].fields) >= Len(reading[p].fields)
         /\ \A i \in 1 .. Len(reading[p].fields) - 1 :
              reading[p \o q].fields[i] = reading[p].fields[i]
<1> DEFINE F == reading[p].fields
           n == Len(F)
           Stay(s) == /\ Len(reading[p \o s].fields) >= n
                      /\ \A i \in 1 .. n - 1 : reading[p \o s].fields[i] = F[i]
           S == {s \in Texts : Stay(s)}
<1>0. n \in Nat
  BY ReadingComputed DEF Readings
<1>1. <<>> \in S
  <2>1. p \o <<>> = p
    BY ConcatEmptySeq DEF Texts
  <2> QED BY <1>0, <2>1, EmptyText
<1>2. ASSUME NEW s \in S, NEW ch \in Runes PROVE Append(s, ch) \in S
  <2>1. /\ Append(s, ch) \in Texts /\ p \o s \in Texts
        /\ p \o Append(s, ch) = Append(p \o s, ch)
    <3>1. s \in Texts
      OBVIOUS
    <3>2. Append(s, ch) \in Texts
      BY <3>1, TextGrows
    <3>3. p \o s \in Texts /\ p \o Append(s, ch) = Append(p \o s, ch)
      BY <3>1, Concatenated
    <3> QED BY <3>2, <3>3
  <2> DEFINE so == reading[p \o s]
             m == Len(so.fields)
  <2>2. so \in Readings /\ m \in Nat
    BY <2>1, ReadingComputed DEF Readings
  <2>3. reading[p \o Append(s, ch)] = readRune(so, ch)
    BY <2>1, ReadingComputed
  <2>4. m >= n /\ \A i \in 1 .. n - 1 : so.fields[i] = F[i]
    OBVIOUS
  <2> DEFINE G == readRune(so, ch).fields
  <2>5. G \in Seq(Texts)
    BY <2>2, ReadRuneType DEF Readings
  <2> HIDE DEF so
  <2>6. Len(G) >= m /\ \A i \in 1 .. m - 1 : G[i] = so.fields[i]
    BY <2>2, RuneKeepsFields
  <2>7. Len(G) \in Nat
    BY <2>5
  <2> HIDE DEF G, m, n, F
  <2>8. Len(G) >= n /\ \A i \in 1 .. n - 1 : G[i] = F[i]
    BY <1>0, <2>2, <2>4, <2>6, <2>7
  <2> QED BY <2>1, <2>3, <2>8 DEF G
<1>3. S = Texts
  <2> HIDE DEF S
  <2>1. S \in SUBSET Texts
    BY DEF S
  <2> QED BY <1>1, <1>2, <2>1, TextInduction
<1> QED BY <1>3

\* The last field of a text ends as the text does.
LEMMA LastField ==
  ASSUME NEW s \in Texts
  PROVE  \/ Last(reading[s].fields) = <<>>
         \/ s # <<>> /\ Last(Last(reading[s].fields)) = Last(s)
<1>1. CASE s = <<>>
  <2>1. reading[s].fields = << <<>> >>
    BY <1>1, ReadingComputed
  <2>2. Last(<< <<>> >>) = <<>>
    BY DEF Last
  <2> QED BY <2>1, <2>2
<1>2. CASE s # <<>>
  <2> DEFINE so == reading[Front(s)]
             ch == Last(s)
             F == so.fields
             t == Append(Last(F), ch)
  <2>1. Front(s) \in Texts /\ ch \in Runes /\ s = Append(Front(s), ch)
    BY <1>2, TextEnds
  <2>2. reading[s] = readRune(so, ch)
    BY <2>1, ReadingComputed
  <2>3. F \in Seq(Texts) /\ F # <<>>
    BY <2>1, ReadingComputed DEF Readings
  <2>4. Front(F) \in Seq(Texts) /\ Last(F) \in Texts
    <3> HIDE DEF F
    <3> QED BY <2>3, FieldsEnd
  <2>5. t \in Texts /\ Last(t) = ch
    BY <2>1, <2>4, TextGrows
  <2>6. reading[s].fields \in {Append(F, <<>>), Append(Front(F), t)}
    BY <2>2 DEF readRune
  <2> HIDE DEF F, t
  <2>7. Last(Append(F, <<>>)) = <<>> /\ Last(Append(Front(F), t)) = t
    BY <2>3, <2>4, <2>5, EmptyText, FieldsGrow
  <2> QED BY <1>2, <2>5, <2>6, <2>7
<1> QED BY <1>1, <1>2

LEMMA UnbindType ==
  ASSUME NEW v \in Texts
  PROVE  /\ unbind(v) \in Texts
         /\ v # <<>> => unbind(v) # <<>> /\ Last(unbind(v)) = Last(v)
         /\ v = <<>> => unbind(v) = <<>>
<1>1. unbind(v) \in Texts
  BY UnescapingComputed DEF Unescapings, unbind
<1>2. CASE v = <<>>
  BY <1>1, <1>2, UnescapingComputed DEF unbind
<1>3. CASE v # <<>>
  <2>1. Front(v) \in Texts /\ Last(v) \in Runes /\ v = Append(Front(v), Last(v))
    BY <1>3, TextEnds
  <2>2. unescaping[v] = unescapeRune(unescaping[Front(v)], Last(v))
        /\ unescaping[Front(v)] \in Unescapings
    BY <2>1, UnescapingComputed
  <2> QED BY <1>1, <1>3, <2>1, <2>2, UnescapeRuneType DEF unbind
<1> QED BY <1>2, <1>3

-----------------------------------------------------------------------------
(* Parse and Canonical *)

Kinds == {<<"a">>, <<"o">>, <<"h">>}

attribute(F, i) == IF i <= Len(F) THEN unbind(F[i]) ELSE Star

LEMMA ParseIs ==
  ASSUME NEW s
  PROVE  LET F == splitEscaped(Trim(s)) IN
         Parse(s) =
           IF /\ Len(F) >= 2
              /\ attribute(F, 1) \in Kinds
              /\ attribute(F, 2) \notin {<<>>, Star}
           THEN <<attribute(F, 1), attribute(F, 2), attribute(F, 3), attribute(F, 4)>>
           ELSE NoName
BY DEF Parse, attribute, Kinds, Part, Product, Version, Other

LEMMA StarType == Star \in Texts /\ Star # <<>> /\ Last(Star) # Space
<1>1. "*" \in Runes /\ "*" # Space
  BY NamesAssumption DEF Space
<1> QED BY <1>1, OneRune DEF Star

LEMMA AttributeType ==
  ASSUME NEW F \in Seq(Texts), NEW i \in Nat \ {0}
  PROVE  attribute(F, i) \in Texts
<1>1. CASE i <= Len(F)
  <2>1. F[i] \in Texts
    BY <1>1
  <2> QED BY <1>1, <2>1, UnbindType DEF attribute
<1>2. CASE ~(i <= Len(F))
  BY <1>2, StarType DEF attribute
<1> QED BY <1>1, <1>2

\* A name, whose last attribute may end with a space only if some were dropped
\* behind it.
Named(c, c1, c2, c3, c4) ==
  /\ c1 \in Kinds /\ c2 \in Texts \ {<<>>, Star} /\ c3 \in Texts /\ c4 \in Texts
  /\ c = <<c1, c2, c3, c4>>
Tidy(v) == v = <<>> \/ Last(v) # Space
TooLong(s) == Len(splitEscaped(Trim(s))) > Other

LEMMA ParseNames ==
  ASSUME NEW s \in Texts, Parse(s) # NoName
  PROVE  \E c1, c2, c3, c4 :
           /\ Named(Parse(s), c1, c2, c3, c4)
           /\ ~TooLong(s) => Tidy(c4)
<1> DEFINE t == Trim(s)
           F == splitEscaped(t)
<1>1. t \in Texts /\ (t # <<>> => Last(t) # Space)
  BY TrimType
<1> HIDE DEF t
<1>2. F = reading[t].fields /\ F \in Seq(Texts) /\ F # <<>>
  BY <1>1, ReadingComputed DEF Readings, splitEscaped
<1>3. Len(F) \in Nat \ {0} /\ Last(F) \in Texts
  BY <1>2, FieldsEnd
<1>4. Last(F) = <<>> \/ (t # <<>> /\ Last(Last(F)) = Last(t))
  BY <1>1, <1>2, LastField
<1>5. /\ attribute(F, 1) \in Kinds /\ attribute(F, 2) \notin {<<>>, Star}
      /\ Parse(s) = <<attribute(F, 1), attribute(F, 2), attribute(F, 3), attribute(F, 4)>>
  BY ParseIs DEF t
<1> HIDE DEF F
<1>6. attribute(F, 2) \in Texts /\ attribute(F, 3) \in Texts /\ attribute(F, 4) \in Texts
  BY <1>2, AttributeType
<1>7. ASSUME Len(F) <= 4 PROVE Tidy(attribute(F, 4))
  <2>1. CASE Len(F) = 4
    <3>1. attribute(F, 4) = unbind(Last(F))
      BY <2>1 DEF attribute, Last
    <3> QED BY <1>1, <1>3, <1>4, <3>1, UnbindType DEF Tidy
  <2>2. CASE Len(F) < 4
    <3>1. ~(4 <= Len(F))
      BY <1>3, <2>2
    <3> QED BY <3>1, StarType DEF attribute, Tidy
  <2>3. Len(F) = 4 \/ Len(F) < 4
    <3> DEFINE n == Len(F)
    <3>1. n \in Nat /\ n <= 4
      BY <1>3, <1>7
    <3> HIDE DEF n
    <3>2. n = 4 \/ n < 4
      BY <3>1
    <3> QED BY <3>2 DEF n
  <2> QED BY <2>1, <2>2, <2>3
<1>8. ~TooLong(s) => Len(F) <= 4
  BY <1>3 DEF TooLong, Other, F, t
<1>9. Named(Parse(s), attribute(F, 1), attribute(F, 2), attribute(F, 3), attribute(F, 4))
  BY <1>5, <1>6 DEF Named
<1> QED BY <1>7, <1>8, <1>9

LEMMA CanonicalIs ==
  ASSUME NEW c1, NEW c2, NEW c3, NEW c4
  PROVE  Canonical(<<c1, c2, c3, c4>>) = Lead(c1, c2, c3) \o bound(c4)
BY DEF Canonical, Lead, bound, Part, Product, Version, Other

\* The part of a name is written as it is.
LEMMA KindBound ==
  ASSUME NEW c1 \in Kinds
  PROVE  /\ c1 \in Texts /\ c1 # <<>> /\ c1 # Star
         /\ bound(c1) = c1 /\ c1[1] # Space
<1>1. PICK ch \in {"a", "o", "h"} : c1 = <<ch>>
  BY DEF Kinds
<1>2. ch \in Runes /\ ch \notin Special /\ ch # Space
  BY NamesAssumption DEF Special, Space
<1>3. c1 \in Texts /\ c1 # <<>> /\ c1 = Append(<<>>, ch) /\ c1[1] = ch
  BY <1>1, <1>2, OneRune
<1>4. c1 # Star /\ c1 # <<"-">>
  BY <1>1 DEF Star
<1>5. escaped[c1] = c1
  <2>1. escaped[Append(<<>>, ch)] = Append(escaped[<<>>], ch)
    BY <1>2, EmptyText, EscapedComputed
  <2> QED BY <1>3, <2>1, EscapedComputed
<1> QED BY <1>2, <1>3, <1>4, <1>5 DEF bound, bind

\* The beginning of a canonical name is not trimmed.
LEMMA LeadStands ==
  ASSUME NEW c1 \in Kinds, NEW c2 \in Texts, NEW c3 \in Texts
  PROVE  /\ Lead(c1, c2, c3) \in Texts /\ Lead(c1, c2, c3) # <<>>
         /\ Lead(c1, c2, c3)[1] # Space /\ Last(Lead(c1, c2, c3)) # Space
<1> DEFINE b1 == bound(c1)
           b2 == bound(c2)
           b3 == bound(c3)
           colon == <<":">>
           p1 == b1 \o colon
           p2 == p1 \o b2
           p3 == p2 \o colon
           p4 == p3 \o b3
<1>1. b1 \in Texts /\ b1 # <<>> /\ b1[1] # Space /\ b2 \in Texts /\ b3 \in Texts
  BY KindBound, BoundIsUnbound
<1>2. colon \in Texts /\ colon # <<>> /\ Last(colon) # Space
  <2>1. ":" \in Runes /\ ":" # Space
    BY NamesAssumption DEF Space
  <2> QED BY <2>1, OneRune
<1>3. Lead(c1, c2, c3) = p4 \o colon
  BY DEF Lead
<1> HIDE DEF b1, b2, b3, colon
<1>4. p1 \in Texts /\ p1 # <<>> /\ p1[1] # Space
  BY <1>1, <1>2, Joined
<1> HIDE DEF p1
<1>5. p2 \in Texts /\ p2 # <<>> /\ p2[1] # Space
  BY <1>1, <1>4, Joined
<1> HIDE DEF p2
<1>6. p3 \in Texts /\ p3 # <<>> /\ p3[1] # Space
  BY <1>2, <1>5, Joined
<1> HIDE DEF p3
<1>7. p4 \in Texts /\ p4 # <<>> /\ p4[1] # Space
  BY <1>1, <1>6, Joined
<1> HIDE DEF p4
<1> QED BY <1>2, <1>3, <1>7, Joined

\* A canonical name is four fields; and parsed again, if that is possible, it
\* is the same name unless a space at its end is lost.
LEMMA CanonicalIsRead ==
  ASSUME NEW c1 \in Kinds, NEW c2 \in Texts, NEW c3 \in Texts, NEW c4 \in Texts
  PROVE  LET K == Canonical(<<c1, c2, c3, c4>>) IN
         /\ K \in Texts
         /\ reading[K] =
              [fields |-> Four(bound(c1), bound(c2), bound(c3), bound(c4)),
               esc    |-> FALSE]
         /\ Len(splitEscaped(K)) = 4
<1> DEFINE K == Canonical(<<c1, c2, c3, c4>>)
           h == Lead(c1, c2, c3)
           F == Append(Append(Append(<<>>, bound(c1)), bound(c2)), bound(c3))
<1>1. c1 \in Texts
  BY KindBound
<1>2. K = h \o bound(c4)
  BY CanonicalIs
<1>3. h \in Texts /\ reading[h] = [fields |-> Append(F, <<>>), esc |-> FALSE]
  BY <1>1, LeadIsRead DEF Four
<1>4. F \in Seq(Texts)
  <2>1. bound(c1) \in Texts /\ bound(c2) \in Texts /\ bound(c3) \in Texts
    BY <1>1, BoundIsUnbound
  <2>2. <<>> \in Seq(Texts)
    OBVIOUS
  <2> QED BY <2>1, <2>2, AppendedFields
<1> HIDE DEF F, h
<1>5. reading[h \o bound(c4)] = [fields |-> Append(F, bound(c4)), esc |-> FALSE]
  BY <1>3, <1>4, BoundIsRead
<1>6. bound(c1) \in Texts /\ bound(c2) \in Texts /\ bound(c3) \in Texts /\ bound(c4) \in Texts
  BY <1>1, BoundIsUnbound
<1>7. h \o bound(c4) \in Texts
  BY <1>3, <1>6, ConcatProperties DEF Texts
<1>8. Append(F, bound(c4)) = Four(bound(c1), bound(c2), bound(c3), bound(c4))
  BY DEF F, Four
<1>9. Len(splitEscaped(K)) = 4
  <2>1. splitEscaped(K) = Four(bound(c1), bound(c2), bound(c3), bound(c4))
    <3>1. reading[K] = [fields |-> Append(F, bound(c4)), esc |-> FALSE]
      BY <1>2, <1>5
    <3> HIDE DEF K
    <3>2. reading[K].fields = Append(F, bound(c4))
      BY <3>1
    <3> QED BY <1>8, <3>2 DEF splitEscaped
  <2> QED BY <1>6, <2>1, FourFields
<1> QED BY <1>2, <1>5, <1>7, <1>8, <1>9

\* A key can be parsed, and its product is the one of the name.
LEMMA KeyIsParsed ==
  ASSUME NEW c1 \in Kinds, NEW c2 \in Texts \ {<<>>, Star},
         NEW c3 \in Texts, NEW c4 \in Texts
  PROVE  LET K == Canonical(<<c1, c2, c3, c4>>) IN
         Parse(K) # NoName /\ Parse(K)[Product] = c2
<1> DEFINE K == Canonical(<<c1, c2, c3, c4>>)
           h == Lead(c1, c2, c3)
           H == reading[h].fields
<1>1. K = h \o bound(c4) /\ c1 \in Texts /\ bound(c4) \in Texts
  <2>1. K = h \o bound(c4)
    BY CanonicalIs
  <2>2. c1 \in Texts /\ bound(c4) \in Texts
    BY KindBound, BoundIsUnbound
  <2> QED BY <2>1, <2>2
<1>2. h \in Texts /\ h # <<>> /\ h[1] # Space /\ Last(h) # Space
  BY LeadStands
<1>3. /\ reading[h] = [fields |-> Four(bound(c1), bound(c2), bound(c3), <<>>), esc |-> FALSE]
      /\ bound(c1) \in Texts /\ bound(c2) \in Texts /\ bound(c3) \in Texts
  BY <1>1, LeadIsRead, BoundIsUnbound
<1>4. Len(H) = 4 /\ H[1] = bound(c1) /\ H[2] = bound(c2)
  <2>1. H = Four(bound(c1), bound(c2), bound(c3), <<>>)
    <3> HIDE DEF h
    <3> QED BY <1>3
  <2> HIDE DEF H
  <2>2. bound(c1) \in Texts /\ bound(c2) \in Texts /\ bound(c3) \in Texts
    BY <1>3
  <2>3. ASSUME NEW d \in Texts
        PROVE  /\ Len(Four(bound(c1), bound(c2), bound(c3), d)) = 4
               /\ Four(bound(c1), bound(c2), bound(c3), d)[1] = bound(c1)
               /\ Four(bound(c1), bound(c2), bound(c3), d)[2] = bound(c2)
    BY <2>2, FourFields
  <2> QED BY <2>1, <2>3, EmptyText
<1> HIDE DEF h, K
<1>5. PICK r \in Texts : Trim(K) = h \o r
  <2>1. \E r \in Texts : Trim(h \o bound(c4)) = h \o r
    BY <1>1, <1>2, TrimStarts
  <2> QED BY <1>1, <2>1
<1> DEFINE F == splitEscaped(Trim(K))
<1>6. /\ Len(F) >= Len(H) /\ \A i \in 1 .. Len(H) - 1 : F[i] = H[i]
      /\ F \in Seq(Texts)
  <2>1. h \o r \in Texts
    BY <1>2, ConcatProperties DEF Texts
  <2>2. F = reading[h \o r].fields
    BY <1>5 DEF splitEscaped
  <2>3. F \in Seq(Texts)
    BY <2>1, <2>2, ReadingComputed DEF Readings
  <2> QED BY <1>2, <2>2, <2>3, FieldsStay
<1> HIDE DEF H, F
<1>7. Len(F) >= 4 /\ Len(F) \in Nat /\ F[1] = bound(c1) /\ F[2] = bound(c2)
  <2>1. 1 \in 1 .. 4 - 1 /\ 2 \in 1 .. 4 - 1
    OBVIOUS
  <2> QED BY <1>4, <1>6, <2>1
<1>8. attribute(F, 1) = c1 /\ attribute(F, 2) = c2
  <2>1. unbind(bound(c1)) = c1 /\ unbind(bound(c2)) = c2
    BY <1>1, KindBound, BoundIsUnbound
  <2>2. 1 <= Len(F) /\ 2 <= Len(F)
    BY <1>7
  <2> QED BY <1>7, <2>1, <2>2 DEF attribute
<1>9. Parse(K) = <<attribute(F, 1), attribute(F, 2), attribute(F, 3), attribute(F, 4)>>
  <2>1. Len(F) >= 2
    BY <1>7
  <2> QED BY <1>8, <2>1, ParseIs DEF F
<1>10. Parse(K) # NoName /\ Parse(K)[Product] = c2
  BY <1>8, <1>9 DEF NoName, Product
<1> QED BY <1>10 DEF K

\* What is read of a key whose last attribute does not end with a space.
LEMMA KeyIsRead ==
  ASSUME NEW c1 \in Kinds, NEW c2 \in Texts, NEW c3 \in Texts, NEW c4 \in Texts,
         Tidy(c4), Parse(Canonical(<<c1, c2, c3, c4>>)) # NoName
  PROVE  Parse(Canonical(<<c1, c2, c3, c4>>)) =
           <<unbind(bound(c1)), unbind(bound(c2)),
             unbind(bound(c3)), unbind(bound(c4))>>
<1> DEFINE K == Canonical(<<c1, c2, c3, c4>>)
           h == Lead(c1, c2, c3)
           b4 == bound(c4)
           F == Four(bound(c1), bound(c2), bound(c3), b4)
<1>1. /\ K = h \o b4 /\ c1 \in Texts
      /\ bound(c1) \in Texts /\ bound(c2) \in Texts /\ bound(c3) \in Texts
      /\ b4 \in Texts /\ b4 # <<>>
  <2>1. K = h \o b4
    BY CanonicalIs
  <2>2. c1 \in Texts
    BY KindBound
  <2> QED BY <2>1, <2>2, BoundIsUnbound
<1>2. h \in Texts /\ h # <<>> /\ h[1] # Space
  BY LeadStands
<1>3. Last(b4) # Space
  <2>1. CASE c4 = <<>>
    BY <2>1, StarType DEF bound
  <2>2. CASE c4 # <<>>
    BY <2>2, BoundIsUnbound DEF Tidy
  <2> QED BY <2>1, <2>2
<1> HIDE DEF h, b4
<1>4. K \in Texts /\ K # <<>> /\ K[1] # Space /\ Last(K) # Space
  BY <1>1, <1>2, <1>3, Joined
<1>5. Trim(K) = K
  <2> HIDE DEF K
  <2> QED BY <1>4, TrimKeeps
<1>6. splitEscaped(Trim(K)) = F
  <2>1. reading[K] = [fields |-> F, esc |-> FALSE]
    BY CanonicalIsRead DEF b4
  <2> HIDE DEF K, F
  <2>2. reading[K].fields = F
    BY <2>1
  <2> QED BY <1>5, <2>2 DEF splitEscaped
<1>7. /\ Len(F) = 4 /\ F[1] = bound(c1) /\ F[2] = bound(c2)
      /\ F[3] = bound(c3) /\ F[4] = b4
  BY <1>1, FourFields
<1> HIDE DEF F
<1>8. /\ attribute(F, 1) = unbind(bound(c1)) /\ attribute(F, 2) = unbind(bound(c2))
      /\ attribute(F, 3) = unbind(bound(c3)) /\ attribute(F, 4) = unbind(bound(c4))
  BY <1>7 DEF attribute, b4
<1>9. Parse(K) = <<unbind(bound(c1)), unbind(bound(c2)),
                   unbind(bound(c3)), unbind(bound(c4))>>
  BY <1>6, <1>8, ParseIs
<1> QED BY <1>9 DEF K

\* Such a key is stable.
LEMMA KeyIsStable ==
  ASSUME NEW c1 \in Kinds, NEW c2 \in Texts, NEW c3 \in Texts, NEW c4 \in Texts,
         Tidy(c4), Parse(Canonical(<<c1, c2, c3, c4>>)) # NoName
  PROVE  LET K == Canonical(<<c1, c2, c3, c4>>) IN
         Canonical(Parse(K)) = K
<1> DEFINE K == Canonical(<<c1, c2, c3, c4>>)
<1>1. Parse(K) = <<unbind(bound(c1)), unbind(bound(c2)),
                   unbind(bound(c3)), unbind(bound(c4))>>
  BY KeyIsRead
<1>2. Canonical(Parse(K)) =
        Lead(unbind(bound(c1)), unbind(bound(c2)), unbind(bound(c3)))
          \o bound(unbind(bound(c4)))
  BY <1>1, CanonicalIs
<1>3. /\ bound(unbind(bound(c1))) = bound(c1)
      /\ bound(unbind(bound(c2))) = bound(c2)
      /\ bound(unbind(bound(c3))) = bound(c3)
      /\ bound(unbind(bound(c4))) = bound(c4)
  <2>1. c1 \in Texts
    BY KindBound
  <2> QED BY <2>1, BoundIsUnbound
<1>4. Lead(unbind(bound(c1)), unbind(bound(c2)), unbind(bound(c3)))
        = Lead(c1, c2, c3)
  BY <1>3 DEF Lead
<1>5. K = Lead(c1, c2, c3) \o bound(c4)
  BY CanonicalIs
<1>6. Canonical(Parse(K)) = K
  <2> HIDE DEF K
  <2> DEFINE h == Lead(unbind(bound(c1)), unbind(bound(c2)), unbind(bound(c3)))
             b4 == bound(unbind(bound(c4)))
  <2>1. h = Lead(c1, c2, c3) /\ b4 = bound(c4) /\ Canonical(Parse(K)) = h \o b4
    BY <1>2, <1>3, <1>4
  <2> HIDE DEF h, b4
  <2> QED BY <2>1, <1>5, Zenon
<1> QED BY <1>6

\* unbind reverses bind, on every text (cpe.go: "unbind reverses bind's
\* escaping for the fields we store").
THEOREM UnbindReversesBind ==
  ASSUME NEW v \in Texts
  PROVE  unbind(bind(v)) = v
<1>1. CASE v = <<>>
  <2>1. bind(v) = <<>>
    BY <1>1, EscapedComputed DEF bind, Star
  <2> QED BY <1>1, <2>1, UnbindType
<1>2. CASE v # <<>>
  <2>1. bound(v) = bind(v)
    BY <1>2 DEF bound
  <2> QED BY <1>2, <2>1, BoundIsUnbound
<1> QED BY <1>1, <1>2

\* Parse reads from a canonical name the attributes it was made of, whatever
\* colons, backslashes and wildcards they contain, if they are all there and
\* no space ends the last (cpe.go, CPE: "kept so String() round-trips").
THEOREM StringRoundTrips ==
  ASSUME NEW c1 \in {<<"a">>, <<"o">>, <<"h">>}, NEW c2 \in Texts \ {<<>>, Star},
         NEW c3 \in Texts \ {<<>>}, NEW c4 \in Texts \ {<<>>},
         Last(c4) # Space
  PROVE  Parse(Canonical(<<c1, c2, c3, c4>>)) = <<c1, c2, c3, c4>>
<1>1. c1 \in Kinds /\ c1 \in Texts \ {<<>>}
  <2>1. c1 \in Kinds
    BY DEF Kinds
  <2> QED BY <2>1, KindBound
<1>2. Parse(Canonical(<<c1, c2, c3, c4>>)) # NoName
  BY <1>1, KeyIsParsed
<1>3. Tidy(c4)
  BY DEF Tidy
<1>4. /\ unbind(bound(c1)) = c1 /\ unbind(bound(c2)) = c2
      /\ unbind(bound(c3)) = c3 /\ unbind(bound(c4)) = c4
  BY <1>1, BoundIsUnbound
<1> QED BY <1>1, <1>2, <1>3, <1>4, KeyIsRead

-----------------------------------------------------------------------------
(* The names that are made of products, versions and components *)

\* The attributes of a name; only one that was cut short may end with a space.
Usable(c, short) ==
  \E c1 \in Kinds, c2 \in Texts, c3 \in Texts, c4 \in Texts :
    /\ c = <<c1, c2, c3, c4>>
    /\ ~short => Tidy(c4)

LEMMA TokenType ==
  ASSUME NEW s \in Texts
  PROVE  normalizeToken(s) \in Texts
<1> DEFINE t == Trim(s)
<1>1. t \in Seq(Runes)
  BY TrimType DEF Texts
<1>2. "_" \in Runes
  BY NamesAssumption
<1> HIDE DEF t
<1>3. [i \in 1 .. Len(t) |-> IF t[i] = Space THEN "_" ELSE t[i]] \in Seq(Runes)
  <2> DEFINE low == "_"
  <2>1. low \in Runes
    BY <1>2
  <2> HIDE DEF low
  <2>2. [i \in 1 .. Len(t) |-> IF t[i] = Space THEN low ELSE t[i]] \in Seq(Runes)
    BY <1>1, <2>1
  <2> QED BY <2>2 DEF low
<1> QED BY <1>3 DEF normalizeToken, ReplaceAll, Texts, t

LEMMA NormalizeType ==
  ASSUME NEW product \in Texts
  PROVE  /\ Normalize(product).part \in Kinds
         /\ Normalize(product).product \in Texts
<1> DEFINE tok == normalizeToken(product)
           other == [part    |-> IF looksLikeOS(tok) THEN <<"o">> ELSE <<"a">>,
                     product |-> tok]
<1>1. tok \in Texts
  BY TokenType
<1>2. Normalize(product) = IF tok \in DOMAIN Aliases THEN Aliases[tok] ELSE other
  BY DEF Normalize
<1>3. tok \in DOMAIN Aliases => Aliases[tok].part \in Kinds /\ Aliases[tok].product \in Texts
  BY NamesAssumption DEF Kinds
<1> HIDE DEF tok
<1>4. other.part \in Kinds /\ other.product \in Texts
  BY <1>1 DEF Kinds
<1> HIDE DEF other
<1> QED BY <1>2, <1>3, <1>4

LEMMA VersionType ==
  ASSUME NEW part, NEW version \in Texts
  PROVE  NormalizeVersion(part, version) \in Texts /\ nvdVersion(version) \in Texts
<1> DEFINE v == normalizeToken(version)
<1>1. v \in Texts
  BY TokenType
<1>2. "." \in Runes /\ "0" \in Runes
  BY NamesAssumption
<1>3. v \o <<".", "0">> \in Texts
  <2> DEFINE dot == "."
             zero == "0"
  <2>1. dot \in Runes /\ zero \in Runes
    BY <1>2
  <2> HIDE DEF dot, zero, v
  <2>2. v \o <<dot, zero>> = Append(Append(v, dot), zero)
    BY <1>1, <2>1, Concatenated
  <2>3. Append(Append(v, dot), zero) \in Texts
    BY <1>1, <2>1, TextGrows
  <2> QED BY <2>2, <2>3 DEF dot, zero
<1>4. NormalizeVersion(part, version) \in {Star, v, v \o <<".", "0">>}
  BY DEF NormalizeVersion
<1>5. nvdVersion(version) \in {Star, Trim(version)}
  BY DEF nvdVersion
<1> QED BY <1>1, <1>3, <1>4, <1>5, StarType, TrimType

LEMMA FromProductUsable ==
  ASSUME NEW product \in Texts, NEW version \in Texts, NEW short,
         FromProductVersion(product, version) # NoName
  PROVE  Usable(FromProductVersion(product, version), short)
<1> DEFINE n == Normalize(product)
           v == NormalizeVersion(n.part, version)
<1>1. FromProductVersion(product, version) = <<n.part, n.product, v, Star>>
  BY DEF FromProductVersion
<1>2. n.part \in Kinds /\ n.product \in Texts /\ v \in Texts
  BY NormalizeType, VersionType
<1>3. Tidy(Star)
  BY StarType DEF Tidy
<1> HIDE DEF n, v
<1> QED BY <1>1, <1>2, <1>3, StarType DEF Usable

LEMMA AnswerType ==
  ASSUME NEW answer \in Seq([name : Texts, deprecated : BOOLEAN]), NEW want
  PROVE  parseTopCPE(answer, want) \in Texts
<1>1. ASSUME NEW S \in SUBSET (DOMAIN answer) PROVE firstOf(answer, S) \in Texts
  <2>1. CASE S = {}
    BY <2>1, EmptyText DEF firstOf
  <2>2. CASE S # {}
    <3>0. DOMAIN answer = 1 .. Len(answer)
      OBVIOUS
    <3>4. S \in SUBSET Nat
      BY <3>0
    <3>5. \A i \in 1 .. Len(answer) :
            answer[i] \in [name : Texts, deprecated : BOOLEAN]
      BY ElementOfSeq
    <3>6. \A h \in [name : Texts, deprecated : BOOLEAN] : h.name \in Texts
      OBVIOUS
    <3>7. \A i \in S : i \in 1 .. Len(answer)
      BY <3>0
    <3>1. S \in SUBSET Nat /\ \A i \in S : answer[i].name \in Texts
      BY <3>4, <3>5, <3>6, <3>7
    <3>2. \E m \in S : \A k \in S : m <= k
      BY <2>2, <3>1, Least
    <3>3. Min(S) \in S
      BY <3>2 DEF Min
    <3> QED BY <2>2, <3>1, <3>3 DEF firstOf
  <2> QED BY <2>1, <2>2
<1> DEFINE exact    == {i \in DOMAIN answer :
                          want # <<>> /\ productOf(answer[i]) = want}
           contains == {i \in DOMAIN answer :
                          want # <<>> /\ ContainsText(productOf(answer[i]), want)}
           named    == {i \in DOMAIN answer : answer[i].name # <<>>}
           S        == IF exact # {} THEN exact
                       ELSE IF contains # {} THEN contains
                       ELSE IF Live(answer) # {} THEN Live(answer)
                       ELSE named
<1>2. parseTopCPE(answer, want) = firstOf(answer, S)
  BY DEF parseTopCPE
<1>3. /\ exact \in SUBSET (DOMAIN answer) /\ contains \in SUBSET (DOMAIN answer)
      /\ named \in SUBSET (DOMAIN answer) /\ Live(answer) \in SUBSET (DOMAIN answer)
  BY DEF Live
<1> HIDE DEF exact, contains, named
<1>4. S \in SUBSET (DOMAIN answer)
  BY <1>3
<1> HIDE DEF S
<1> QED BY <1>1, <1>2, <1>4

LEMMA ResolveUsable ==
  ASSUME NEW product \in Texts, NEW version \in Texts, NEW short,
         NEW answer \in Seq([name : Texts, deprecated : BOOLEAN]),
         Resolve(product, version, answer) # NoName
  PROVE  Usable(Resolve(product, version, answer), short)
<1> DEFINE t == parseTopCPE(answer, Normalize(product).product)
           c == Parse(t)
<1>1. t \in Texts
  BY AnswerType
<1>2. Resolve(product, version, answer) =
        IF c = NoName THEN FromProductVersion(product, version)
        ELSE <<c[Part], c[Product], nvdVersion(version), Star>>
  BY DEF Resolve
<1> HIDE DEF t
<1>3. CASE c = NoName
  <2> HIDE DEF c
  <2> QED BY <1>2, <1>3, FromProductUsable
<1>4. CASE c # NoName
  <2>1. PICK c1, c2, c3, c4 : Named(c, c1, c2, c3, c4)
    BY <1>1, <1>4, ParseNames
  <2> HIDE DEF c
  <2>2. c[Part] \in Kinds /\ c[Product] \in Texts
    BY <2>1 DEF Named, Part, Product
  <2>3. nvdVersion(version) \in Texts /\ Tidy(Star) /\ Star \in Texts
    BY VersionType, StarType DEF Tidy
  <2> QED BY <1>2, <1>4, <2>2, <2>3 DEF Usable
<1> QED BY <1>3, <1>4

LEMMA ParsedUsable ==
  ASSUME NEW s \in Texts, Parse(s) # NoName
  PROVE  Usable(Parse(s), TooLong(s))
<1>1. PICK c1, c2, c3, c4 :
        Named(Parse(s), c1, c2, c3, c4) /\ (~TooLong(s) => Tidy(c4))
  BY ParseNames
<1> QED BY <1>1 DEF Named, Usable

LEMMA ComponentUsable ==
  ASSUME NEW c, IsAsk(c), c.kind = "component", componentFrom(c) # NoName
  PROVE  Usable(componentFrom(c), TooLong(c.cpe))
<1> DEFINE stated  == Parse(c.cpe)
           version == IF Trim(c.version) # <<>> THEN c.version ELSE c.purl.version
           located == FromProductVersion(c.purl.name, version)
           derived == FromProductVersion(c.name, c.version)
<1>1. /\ c.cpe \in Texts /\ c.name \in Texts /\ c.version \in Texts
      /\ c.purl.name \in Texts /\ c.purl.version \in Texts
  BY DEF IsAsk
<1>2. version \in Texts
  BY <1>1
<1>3. componentFrom(c) = IF stated # NoName THEN stated
                         ELSE IF located # NoName THEN located ELSE derived
  BY DEF componentFrom
<1> HIDE DEF version
<1>4. stated # NoName => Usable(stated, TooLong(c.cpe))
  BY <1>1, ParsedUsable
<1>5. located # NoName => Usable(located, TooLong(c.cpe))
  BY <1>1, <1>2, FromProductUsable
<1>6. derived # NoName => Usable(derived, TooLong(c.cpe))
  BY <1>1, FromProductUsable
<1> HIDE DEF stated, located, derived
<1> QED BY <1>3, <1>4, <1>5, <1>6

\* Whatever is made into a key is saved under a key that stays the same.
LEMMA UsableStable ==
  ASSUME NEW c, NEW short, Usable(c, short)
  PROVE  /\ Canonical(c) \in Texts
         /\ Parse(Canonical(c)) # NoName /\ ~short =>
              Canonical(Parse(Canonical(c))) = Canonical(c)
<1>1. PICK c1 \in Kinds, c2 \in Texts, c3 \in Texts, c4 \in Texts :
        c = <<c1, c2, c3, c4>> /\ (~short => Tidy(c4))
  BY DEF Usable
<1>2. Canonical(<<c1, c2, c3, c4>>) \in Texts
  BY CanonicalIsRead
<1>3. ASSUME Parse(Canonical(<<c1, c2, c3, c4>>)) # NoName, ~short
      PROVE  Canonical(Parse(Canonical(<<c1, c2, c3, c4>>)))
               = Canonical(<<c1, c2, c3, c4>>)
  BY <1>1, <1>3, KeyIsStable
<1> QED BY <1>1, <1>2, <1>3

-----------------------------------------------------------------------------
(* The inventory *)

Keys == {Canonical(Parse(s)) : s \in {t \in Texts : Parse(t) # NoName}}

Rows == {r \in [raw : Texts, canonical : Texts] : Parse(r.raw) # NoName}

IInv ==
  /\ ask \in Asks
  /\ table \subseteq Rows
  /\ scheduled \subseteq Keys
  /\ SavedAsScheduled

LEMMA Initially == Init => IInv
BY DEF Init, IInv, SavedAsScheduled

\* A row and a key are added together.
LEMMA AddStep ==
  ASSUME IInv, NEW raw \in Texts, NEW canonical \in Texts, Add(raw, canonical),
         ~Overlong => /\ canonical = Canonical(Parse(raw))
                      /\ Canonical(Parse(canonical)) = canonical
  PROVE  IInv'
<1> DEFINE k == Canonical(Parse(raw))
           row == [raw |-> raw, canonical |-> canonical]
<1>1. /\ Parse(raw) # NoName /\ ask' = ask /\ scheduled' = scheduled \cup {k}
      /\ table' = IF \E r \in table : r.canonical = canonical THEN table
                  ELSE table \cup {row}
  BY DEF Add, SaveTarget
<1>2. row.raw = raw /\ row.canonical = canonical /\ row \in Rows
  BY <1>1 DEF Rows
<1>3. k \in Keys
  BY <1>1 DEF Keys
<1> HIDE DEF k, row
<1>4. ask' \in Asks /\ table' \subseteq Rows /\ scheduled' \subseteq Keys
  BY <1>1, <1>2, <1>3 DEF IInv
<1>5. Overlong' = Overlong
  BY <1>1 DEF Overlong
<1>6. ASSUME ~Overlong
      PROVE  /\ {r.canonical : r \in table'} = scheduled'
             /\ \A r \in table' : Canonical(Parse(r.raw)) = r.canonical
             /\ \A j \in scheduled' : Canonical(Parse(j)) = j
  <2>1. /\ {r.canonical : r \in table} = scheduled
        /\ \A r \in table : Canonical(Parse(r.raw)) = r.canonical
        /\ \A j \in scheduled : Canonical(Parse(j)) = j
    BY <1>6 DEF IInv, SavedAsScheduled
  <2>2. canonical = k /\ Canonical(Parse(k)) = k /\ Canonical(Parse(row.raw)) = row.canonical
    BY <1>2, <1>6 DEF k
  <2>3. {r.canonical : r \in table'} = scheduled'
    BY <1>1, <1>2, <2>1, <2>2
  <2> QED BY <1>1, <2>1, <2>2, <2>3
<1>7. SavedAsScheduled'
  BY <1>5, <1>6 DEF SavedAsScheduled
<1> QED BY <1>4, <1>7 DEF IInv

LEMMA ConsoleStep ==
  ASSUME IInv, NEW c, NEW short, ConsoleAdds(c), Usable(c, short), ~Overlong => ~short
  PROVE  IInv'
<1> DEFINE K == Canonical(c)
<1>1. Add(K, K) /\ Parse(K) # NoName
  BY DEF ConsoleAdds, Add
<1>2. K \in Texts /\ (~Overlong => Canonical(Parse(K)) = K)
  BY <1>1, UsableStable
<1> HIDE DEF K
<1> QED BY <1>1, <1>2, AddStep

LEMMA AskType == IInv => IsAsk(ask)
BY NamesAssumption DEF IInv

LEMMA NameStep ==
  ASSUME IInv, handleAddTarget
  PROVE  IInv'
<1> DEFINE s == ask.text
           K == Canonical(Parse(s))
<1>1. ask.kind = "name" /\ Add(s, K) /\ Parse(s) # NoName
  BY DEF handleAddTarget, Add
<1>2. s \in Texts
  BY <1>1, AskType DEF IsAsk
<1>3. Overlong <=> TooLong(s)
  BY <1>1 DEF Overlong, TooLong
<1> HIDE DEF s
<1>4. K \in Texts /\ (~Overlong => Canonical(Parse(K)) = K)
  <2>1. PICK c1, c2, c3, c4 : Named(Parse(s), c1, c2, c3, c4)
    BY <1>1, <1>2, ParseNames
  <2>2. Parse(K) # NoName
    BY <2>1, KeyIsParsed DEF Named
  <2> QED BY <1>1, <1>2, <1>3, <2>2, ParsedUsable, UsableStable
<1>5. K = Canonical(Parse(s))
  OBVIOUS
<1> HIDE DEF K
<1> QED BY <1>1, <1>2, <1>4, <1>5, AddStep

LEMMA HandleAddStep ==
  ASSUME IInv, handleAdd
  PROVE  IInv'
<1>1. CASE ask.kind = "name" /\ ConsoleAdds(Parse(ask.text))
  <2> DEFINE s == ask.text
  <2>1. s \in Texts /\ Parse(s) # NoName
    BY <1>1, AskType DEF IsAsk, ConsoleAdds
  <2>2. ~Overlong => ~TooLong(s)
    BY <1>1 DEF Overlong, TooLong
  <2>3. ConsoleAdds(Parse(s))
    BY <1>1
  <2> HIDE DEF s
  <2> QED BY <2>1, <2>2, <2>3, ParsedUsable, ConsoleStep
<1>2. CASE /\ ask.kind = "product"
           /\ ConsoleAdds(Resolve(ask.product, ask.version, ask.answer))
  <2> DEFINE p == ask.product
             v == ask.version
             a == ask.answer
             c == Resolve(p, v, a)
  <2>1. p \in Texts /\ v \in Texts /\ a \in Seq([name : Texts, deprecated : BOOLEAN])
    BY <1>2, AskType DEF IsAsk
  <2>2. ConsoleAdds(c) /\ c # NoName
    BY <1>2 DEF ConsoleAdds
  <2> HIDE DEF p, v, a
  <2>3. Usable(c, FALSE)
    BY <2>1, <2>2, ResolveUsable
  <2> HIDE DEF c
  <2> QED BY <2>2, <2>3, ConsoleStep
<1> QED BY <1>1, <1>2 DEF handleAdd

LEMMA SBOMStep ==
  ASSUME IInv, handleSBOM
  PROVE  IInv'
<1> DEFINE c == componentFrom(ask)
<1>1. ask.kind = "component" /\ ConsoleAdds(c) /\ c # NoName /\ IsAsk(ask)
  BY AskType DEF handleSBOM, ConsoleAdds
<1>2. Usable(c, TooLong(ask.cpe))
  BY <1>1, ComponentUsable
<1>3. ~Overlong => ~TooLong(ask.cpe)
  BY <1>1 DEF Overlong, TooLong
<1> HIDE DEF c
<1> QED BY <1>1, <1>2, <1>3, ConsoleStep

LEMMA RemoveStep ==
  ASSUME IInv, NEW k \in scheduled, handleRemoveTarget(k)
  PROVE  IInv'
<1>1. /\ scheduled' = scheduled \ {k} /\ ask' = ask
      /\ table' = {r \in table : r.canonical # k}
  BY DEF handleRemoveTarget
<1>2. ask' \in Asks /\ table' \subseteq Rows /\ scheduled' \subseteq Keys
  BY <1>1 DEF IInv
<1>3. Overlong' = Overlong
  BY <1>1 DEF Overlong
<1>4. SavedAsScheduled'
  <2>1. ~Overlong => {r.canonical : r \in table'} = scheduled'
    BY <1>1 DEF IInv, SavedAsScheduled
  <2> QED BY <1>1, <1>3, <2>1 DEF IInv, SavedAsScheduled
<1> QED BY <1>2, <1>4 DEF IInv

\* What is saved is scheduled again.
LEMMA Restored ==
  ASSUME IInv, Boot
  PROVE  /\ scheduled' = {Canonical(Parse(r.raw)) : r \in table}
         /\ ~Overlong => scheduled' = scheduled
<1>1. scheduled' = {Canonical(c) : c \in {Parse(r.raw) : r \in table} \ {NoName}}
  BY DEF Boot
<1>2. \A r \in table : Parse(r.raw) # NoName
  BY DEF IInv, Rows
<1>3. scheduled' = {Canonical(Parse(r.raw)) : r \in table}
  BY <1>1, <1>2
<1>4. ASSUME ~Overlong PROVE scheduled' = scheduled
  <2>1. \A r \in table : Canonical(Parse(r.raw)) = r.canonical
    BY <1>4 DEF IInv, SavedAsScheduled
  <2>2. {r.canonical : r \in table} = scheduled
    BY <1>4 DEF IInv, SavedAsScheduled
  <2> QED BY <1>3, <2>1, <2>2
<1> QED BY <1>3, <1>4

LEMMA BootStep ==
  ASSUME IInv, Boot
  PROVE  IInv'
<1>1. ask' = ask /\ table' = table
  BY DEF Boot
<1>2. scheduled' \subseteq Keys
  BY Restored DEF IInv, Rows, Keys
<1>3. Overlong' = Overlong
  BY <1>1 DEF Overlong
<1>4. SavedAsScheduled'
  BY <1>1, <1>3, Restored DEF IInv, SavedAsScheduled
<1> QED BY <1>1, <1>2, <1>4 DEF IInv

LEMMA Inductive == Spec => []IInv
<1>1. ASSUME IInv, [Next]_vars PROVE IInv'
  <2>1. CASE handleAddTarget
    BY <1>1, <2>1, NameStep
  <2>2. CASE handleAdd
    BY <1>1, <2>2, HandleAddStep
  <2>3. CASE handleSBOM
    BY <1>1, <2>3, SBOMStep
  <2>4. CASE \E k \in scheduled : handleRemoveTarget(k)
    BY <1>1, <2>4, RemoveStep
  <2>5. CASE Boot
    BY <1>1, <2>5, BootStep
  <2>6. CASE UNCHANGED vars
    BY <1>1, <2>6 DEF vars, IInv, SavedAsScheduled, Overlong
  <2> QED BY <1>1, <2>1, <2>2, <2>3, <2>4, <2>5, <2>6 DEF Next
<1> QED BY <1>1, Initially, PTL DEF Spec

\* Whatever was sent, the key of every scheduled item has all its attributes
\* and can be parsed again, with a product (Parse, String, componentFrom,
\* nvd.Resolve).
THEOREM KeysWellFormed == Spec => []TypeOK
<1>1. ASSUME IInv PROVE TypeOK
  <2>1. \A r \in table : DOMAIN r = {"raw", "canonical"}
    BY <1>1 DEF IInv, Rows
  <2>2. ASSUME NEW k \in scheduled
        PROVE  /\ Len(splitEscaped(k)) = Other
               /\ Parse(k) # NoName /\ Parse(k)[Product] # Star
    <3>1. PICK s \in Texts : Parse(s) # NoName /\ k = Canonical(Parse(s))
      BY <1>1 DEF IInv, Keys
    <3>2. PICK c1, c2, c3, c4 : Named(Parse(s), c1, c2, c3, c4)
      BY <3>1, ParseNames
    <3>3. /\ c1 \in Kinds /\ c2 \in Texts \ {<<>>, Star} /\ c3 \in Texts
          /\ c4 \in Texts /\ k = Canonical(<<c1, c2, c3, c4>>)
      BY <3>1, <3>2 DEF Named
    <3>4. Len(splitEscaped(k)) = 4
      BY <3>3, CanonicalIsRead
    <3>5. Parse(k) # NoName /\ Parse(k)[Product] = c2
      BY <3>3, KeyIsParsed
    <3> QED BY <3>3, <3>4, <3>5 DEF Other
  <2> QED BY <1>1, <2>1, <2>2 DEF TypeOK, IInv
<1> QED BY <1>1, Inductive, PTL

\* What is saved is what is scheduled, and every key is the key of itself: a
\* removal, a restart and a scan meet the same item, however it came in
\* (handleAddTarget, handleAdd, handleRemoveTarget, main, Collect).
THEOREM KeysAgree == Spec => []SavedAsScheduled
<1>1. IInv => SavedAsScheduled
  BY DEF IInv
<1> QED BY <1>1, Inductive, PTL

\* A restart schedules exactly what was scheduled, neither more nor under
\* another key (targets.go: "so a restart restores them exactly").
THEOREM RestartIsExact ==
  Spec => [][Boot /\ ~Overlong => scheduled' = scheduled]_vars
<1>1. IInv => [Boot /\ ~Overlong => scheduled' = scheduled]_vars
  BY Restored
<1> QED BY <1>1, Inductive, PTL
=============================================================================
