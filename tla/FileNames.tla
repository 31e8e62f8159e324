------------------------------ MODULE FileNames ------------------------------
(***************************************************************************)
(* What internal/report/bookmeta.go reads off a file's name and its        *)
(* directories when the files themselves say nothing, and the washing of   *)
(* an author's name off a title.                                           *)
(*                                                                         *)
(* A path is [dirs, stem]: the directories and archives it is in, from the *)
(* outermost to the nearest, each without its archive extension, and the   *)
(* name cleanStem leaves.  A parser returns the sequence of what it found, *)
(* of length one or <<>>.                                                  *)
(***************************************************************************)
EXTENDS MetaHeur

CONSTANT TitleArticle  (* the articles normalizeTitleArticle knows: from   *)
                       (* their lower-cased spelling to the one in front   *)

First(s) == IF s = <<>> THEN <<>> ELSE <<s[1]>>
FirstOr(s, default) == IF s = <<>> THEN default ELSE s[1]

(* "Great Slow Kings, The" becomes "The Great Slow Kings".                 *)
normalizeTitleArticle(t) ==
  LET n == Len(t) IN
  IF n > 2 /\ t[n-1] = "," /\ t[n] \in Word /\ Lex[t[n]].lower \in DOMAIN TitleArticle
  THEN <<TitleArticle[Lex[t[n]].lower]>> \o SubSeq(t, 1, n - 2)
  ELSE t

titleFromPath(path) == path.stem

SplitAt(t, i) == [left |-> SubSeq(t, 1, i - 1), right |-> SubSeq(t, i + 1, Len(t))]
Cuts(t, dashes) == {i \in 2..Len(t)-1 : t[i] \in dashes}

(***************************************************************************)
(* "Title - Last, First" at the last dash.                                 *)
(***************************************************************************)
(* Every field has two runes; a mark that is no delimiter is one of them.  *)
NameSized(t, delimiters) ==
  \A i \in DOMAIN t : t[i] \in Word \cup Dash =>
    runeLen(<<t[i]>>) >= 2 \/ (Joined(t, i) /\ t[i+1] \notin delimiters)

calibreAuthorShape(t) ==
  Has(t, ",") /\ Len(Fields(t)) \in 2..4 /\ NameSized(t, {","})

Book(title, author) == <<[title |-> normalizeTitleArticle(title), author |-> author]>>

CalibreSplit(stem) ==
  LET cuts == Cuts(stem, Dash) IN
  IF cuts = {} \/ isPlaceholderTitle(SplitAt(stem, Max(cuts)).left) THEN <<>>
  ELSE <<SplitAt(stem, Max(cuts))>>

parseCalibreFilename(stem) ==
  FlattenSeq([k \in DOMAIN CalibreSplit(stem) |->
    LET left == CalibreSplit(stem)[k].left  right == CalibreSplit(stem)[k].right IN
    IF calibreAuthorShape(right) /\ IsName(right) THEN Book(left, right)
    ELSE IF calibreAuthorShape(left) /\ IsName(left) /\ IsTitle(right) THEN Book(right, left)
    ELSE <<>>])

parseCalibreAuthorOnly(stem) ==
  LET IsFullName(s) == FieldCount(s.right) = 2 /\ NameSized(s.right, {}) /\ IsName(s.right)
      named == Only(CalibreSplit(stem), {s \in ToSet(CalibreSplit(stem)) : IsFullName(s)})
  IN [k \in DOMAIN named |-> named[k].right]

(***************************************************************************)
(* "Author - Title" and "Title - Author", at the first and the last of     *)
(* each kind of dash; a pair that can be read both ways is left alone.     *)
(***************************************************************************)
splitFilenamePairs(stem) ==
  FlattenSeq([k \in DOMAIN Dashes |->
    LET cuts == Cuts(stem, {Dashes[k]}) IN
    IF cuts = {} THEN <<>> ELSE <<SplitAt(stem, Min(cuts)), SplitAt(stem, Max(cuts))>>])

IsReading(author, title) == IsName(author) /\ IsTitle(title)

NaturalReading(left, right) ==
  LET authorLeft == IsReading(left, right)  authorRight == IsReading(right, left) IN
  IF isPlaceholderTitle(left) \/ isPlaceholderTitle(right) THEN <<>>
  ELSE IF authorLeft /\ ~authorRight /\ ~containsGenericPathWord(left) THEN Book(right, left)
  ELSE IF authorRight /\ ~authorLeft /\ ~containsGenericPathWord(right) THEN Book(left, right)
  ELSE <<>>

parseNaturalFilename(stem) ==
  LET pairs == splitFilenamePairs(stem) IN
  First(FlattenSeq([k \in DOMAIN pairs |-> NaturalReading(pairs[k].left, pairs[k].right)]))

(***************************************************************************)
(* The directories and archives, from the nearest outward.                 *)
(***************************************************************************)
stripEditionSuffix(t) ==
  LET kept == {i \in DOMAIN t : ~On("edition", t[i])} IN
  IF kept = {} THEN <<>> ELSE SubSeq(t, 1, Max(kept))

pathAuthorCandidates(component) ==
  LET stripped == stripEditionSuffix(component) IN
  <<component>> \o IF stripped \in {<<>>, component} THEN <<>> ELSE <<stripped>>

pathNameShapeOK(t) ==
  \/ Has(t, ",") \/ FieldCount(t) <= 2
  \/ \A i \in 3..Len(Fields(t)) : runeLen(<<Fields(t)[i]>>) <= 3

pathCandidateInTitle(candidate, title) ==
  matchTokens(candidate) # {} /\ matchTokens(candidate) \subseteq matchTokens(title)

usablePathAuthor(candidate, title) ==
  /\ IsName(candidate) /\ ~isPlaceholderAuthor(candidate)
  /\ pathNameShapeOK(candidate) /\ ~containsGenericPathWord(candidate)
  /\ title = <<>> \/ ~pathCandidateInTitle(candidate, title)

AuthorsOf(books) == [k \in DOMAIN books |-> books[k].author]
filenamePairAuthor(component) ==
  AuthorsOf(First(parseCalibreFilename(component) \o parseNaturalFilename(component)))

FirstUsable(names, title) ==
  First(Only(names, {n \in ToSet(names) : usablePathAuthor(n, title)}))

authorFromPath(path, title) ==
  LET candidates == FlattenSeq([k \in DOMAIN path.dirs |->
                      pathAuthorCandidates(Reverse(path.dirs)[k])])
  IN FirstUsable(FlattenSeq([k \in DOMAIN candidates |->
                   filenamePairAuthor(candidates[k]) \o <<candidates[k]>>]), title)

(***************************************************************************)
(* washAuthorAffix: a leading "Author - ", or a trailing " - Author" or    *)
(* " by Author", where the words are those of a known author.              *)
(***************************************************************************)
WordsAt(t) == Only([i \in DOMAIN t |-> i], {i \in DOMAIN t : t[i] \in Word})
setsEqual(words, set) == Len(words) = Cardinality(set) /\ ToSet(words) \subseteq set
DashBetween(t, i, j) == \E k \in i+1..j-1 : t[k] \in Dash
FoldAt(t, at) == [k \in DOMAIN at |-> Lex[t[at[k]]].fold]

(* From where to where the author stands before the title.                 *)
LeadingCredit(t, set) ==
  LET at == WordsAt(t)  k == Cardinality(set) IN
  IF k > 0 /\ Len(at) > k /\ setsEqual(FoldAt(t, SubSeq(at, 1, k)), set)
     /\ DashBetween(t, at[k], at[k+1])
  THEN <<1..at[k+1]-1>> ELSE <<>>

TrailingCredit(t, set) ==
  LET at == WordsAt(t)  n == Len(at) - Cardinality(set) IN
  IF ~(set # {} /\ n > 0 /\ setsEqual(FoldAt(t, SubSeq(at, n + 1, Len(at))), set)) THEN <<>>
  ELSE IF DashBetween(t, at[n], at[n+1]) THEN <<at[n+1]..Len(t)>>
  ELSE IF Lex[t[at[n]]].fold = "by" THEN <<at[n]..Len(t)>>
  ELSE <<>>

(* What is left without the positions drop, trimmed of separators.         *)
Without(t, drop) ==
  LET kept == {i \in DOMAIN t \ drop : t[i] \in Word} IN
  IF kept = {} THEN <<>> ELSE SubSeq(t, Min(kept), Max(kept))

(* Mutant of washAuthorAffix: a credit is taken off both ends.             *)
washAuthorAffixBoth(t, sets) ==
  LET before == First(FlattenSeq([k \in DOMAIN sets |-> LeadingCredit(t, sets[k])]))
      behind == First(FlattenSeq([k \in DOMAIN sets |-> TrailingCredit(t, sets[k])]))
      kept == Without(t, UNION (ToSet(before) \cup ToSet(behind)))
  IN IF isPlaceholderTitle(kept) THEN t ELSE kept

washAuthorAffix(t, sets) ==
  LET drop == First(FlattenSeq([k \in DOMAIN sets |-> LeadingCredit(t, sets[k])])
                    \o FlattenSeq([k \in DOMAIN sets |-> TrailingCredit(t, sets[k])]))
  IN IF drop = <<>> \/ isPlaceholderTitle(Without(t, drop[1])) THEN t
     ELSE Without(t, drop[1])
=============================================================================
