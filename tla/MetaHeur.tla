------------------------------ MODULE MetaHeur ------------------------------
(***************************************************************************)
(* internal/metaheur: how much a text looks like a personal name, and how  *)
(* much like a title.  Junk (URLs, ISBN labels), numerals as headings and  *)
(* opening quotes are left out with the texts that would have them.        *)
(***************************************************************************)
EXTENDS Text

NameThreshold == 3
Rejected == -10

Has(t, mark) == \E i \in DOMAIN t : t[i] = mark
SomeWord(t, list) == \E i \in DOMAIN t : On(list, t[i])
Some(t, attribute(_)) == \E i \in DOMAIN t : t[i] \in Word /\ attribute(Lex[t[i]])

ArticleLed(t) == t # <<>> /\ On("article", t[1])

IsCredit(t) ==
  \/ SomeWord(t, "credit")
  \/ ~(ArticleLed(t) /\ Len(Fields(t)) <= 3) /\ SomeWord(t, "publisher")

startsUpper(w) == w \in Word /\ Lex[w].case = "upper"
isInitial(w) == startsUpper(w) /\ Lex[w].size <= 3

nameCaseOK(t) ==
  \A i \in DOMAIN Fields(t) :
    LET w == Fields(t)[i] IN On("particle", w) \/ isInitial(w) \/ startsUpper(w)

(* The two sides of a comma: "Last, First".                                *)
CommaAt(t) == {i \in DOMAIN t : t[i] = ","}
CommaOK(t) ==
  LET i == Min(CommaAt(t))
      left == Fields(SubSeq(t, 1, i - 1))
      right == Fields(SubSeq(t, i + 1, Len(t)))
  IN /\ Len(left) \in 1..3 /\ Len(right) \in 1..4
     /\ nameCaseOK(left) /\ nameCaseOK(right)
     /\ ~(Len(right) = 1 /\ On("article", right[1]))

NoName(t) ==
  \/ t = <<>> \/ runeLen(t) > 60 \/ Len(Fields(t)) > 6
  \/ IsCredit(t) \/ SomeWord(t, "organization")
  \/ Has(t, ":") \/ Has(t, "?")
  \/ ~Some(t, LAMBDA w : ~w.digit) \/ Some(t, LAMBDA w : w.digit)

NameWord(w) ==
  IF On("particle", w) THEN 0
  ELSE IF isInitial(w) \/ startsUpper(w) THEN 1 ELSE -3

ScoreName(t) ==
  LET words == Fields(t)
      base == <<0, 3, 2, 1, 0, 0>>[Len(words)] + IF CommaAt(t) # {} THEN 2 ELSE 0
  IN IF NoName(t) THEN Rejected
     ELSE IF ~Some(t, LAMBDA w : w.latin)
       THEN IF Len(words) >= 2 THEN NameThreshold ELSE 1
     ELSE IF \/ Cardinality(CommaAt(t)) > 1
             \/ CommaAt(t) # {} /\ ~CommaOK(t)
             \/ On("article", words[1])
       THEN Rejected
     ELSE IF Len(words) = 1 THEN base
     ELSE base + MapThenSumSet(LAMBDA i : NameWord(words[i]), DOMAIN words)

IsName(t) == ScoreName(t) >= NameThreshold

LooksLikeProse(t) ==
  Len(Fields(t)) >= 8 /\ runeLen(t) >= 60 /\ Last(t) \in {".", "?"}

isChapterHeading(t) == \E i \in 1..2 : i <= Len(Fields(t)) /\ On("chapter", Fields(t)[i])

NoTitle(t) ==
  LET words == Fields(t) IN
  \/ t = <<>> \/ runeLen(t) > 200 \/ Len(words) > 12
  \/ IsCredit(t) \/ isChapterHeading(t)
  \/ Len(words) = 1 /\ ArticleLed(t)
  \/ Last(t) = "." /\ Len(words) >= 5
  \/ LooksLikeProse(t)

Point(condition) == IF condition THEN 1 ELSE 0

ScoreTitle(t) ==
  LET words == Fields(t) IN
  IF NoTitle(t) THEN Rejected
  ELSE (IF Len(words) \in 2..10 THEN 2 ELSE 1)
       + 2 * Point(ArticleLed(t)) + Point(Has(t, "?")) + Point(Has(t, ":"))
       + Point(\E i \in DOMAIN words : /\ words[i] \in Word /\ Lex[words[i]].case = "lower"
                                       /\ ~On("particle", words[i]))
       - 3 * Point(IsName(t))

IsTitle(t) == ScoreTitle(t) >= 1
=============================================================================
