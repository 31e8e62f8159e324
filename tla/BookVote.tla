------------------------------ MODULE BookVote ------------------------------
(***************************************************************************)
(* How a book's files settle its metadata: the votes of pickTitle and      *)
(* pickAuthors (internal/report/bookmeta.go) and the merging of the other  *)
(* fields (internal/report/book_metadata.go).  Each vote goes through the  *)
(* candidates once, in order, as the code does.                            *)
(***************************************************************************)
EXTENDS Text

CONSTANTS
  TagOf,    (* language.Parse of the language codes that are valid         *)
  NoTag,    (* of the tags those that say nothing: und, mul, zxx, mis      *)
  ISBN13,   (* CanonicalISBN13 of the values that are ISBNs                *)
  DateOf    (* what normalizePublicationDate makes of the valid dates      *)

AsSets(s) == [k \in DOMAIN s |-> matchTokens(s[k])]

(* The sequence without the elements whose key was seen before.            *)
Distinct(s, key(_)) ==
  FoldLeft(LAMBDA kept, x : IF \E k \in DOMAIN kept : key(kept[k]) = key(x) THEN kept
                            ELSE Append(kept, x), <<>>, s)

(***************************************************************************)
(* pickTitle.  A vote is a title with its count; the longest spelling of   *)
(* it is kept, and is what the underscores and authors are looked for in.  *)
(***************************************************************************)
titleMentionsAuthor(title, tokenSets) ==
  \E k \in DOMAIN tokenSets : tokenSets[k] # {} /\ tokenSets[k] \subseteq matchTokens(title)

TitleVote(votes, t) ==
  LET at == {k \in DOMAIN votes : metaKey(votes[k].title) = metaKey(t)} IN
  IF at = {} THEN Append(votes, [title |-> t, count |-> 1])
  ELSE [k \in DOMAIN votes |->
         IF k \notin at THEN votes[k]
         ELSE [title |-> IF runeLen(t) > runeLen(votes[k].title) THEN t ELSE votes[k].title,
               count |-> votes[k].count + 1]]

TitleVotes(titles) ==
  FoldLeft(TitleVote, <<>>, Only(titles, {t \in ToSet(titles) : ~isPlaceholderTitle(t)}))

(* v takes the lead from w.  A later vote never leads by being seen first. *)
(* Mutant of TitleBeats: of two titles alike the last one seen.            *)
TitleBeatsLast(v, w, tokenSets) ==
  LET noisy(x) == titleMentionsAuthor(x.title, tokenSets) IN
  \/ v.count > w.count
  \/ v.count = w.count /\ runeLen(v.title) >= runeLen(w.title)

TitleBeats(v, w, tokenSets) ==
  LET noisy(x) == titleMentionsAuthor(x.title, tokenSets) IN
  \/ v.count > w.count
  \/ /\ v.count = w.count
     /\ \/ Underscores(v.title) < Underscores(w.title)
        \/ /\ Underscores(v.title) = Underscores(w.title)
           /\ \/ ~noisy(v) /\ noisy(w)
              \/ noisy(v) = noisy(w) /\ runeLen(v.title) > runeLen(w.title)

pickTitle(titles, tokenSets) ==
  FoldLeft(LAMBDA w, v : IF TitleBeats(v, w, tokenSets) THEN v ELSE w,
           [title |-> <<>>, count |-> 0], TitleVotes(titles)).title

(***************************************************************************)
(* pickAuthors.  Lists vote together when they are the same names in any   *)
(* order, "Last, First" being "First Last"; the first list seen is kept.   *)
(***************************************************************************)
canonicalAuthorName(name) ==
  LET commas == {i \in DOMAIN name : name[i] = ","} IN
  IF commas = {} THEN name
  ELSE SubSeq(name, Min(commas) + 1, Len(name)) \o SubSeq(name, 1, Min(commas) - 1)

(* The sorted list of names as a bag.                                      *)
AuthorKey(list) ==
  LET canonical == [k \in DOMAIN list |-> canonicalAuthorName(list[k])] IN ToBag(canonical)

AuthorVote(votes, list) ==
  LET at == {k \in DOMAIN votes : AuthorKey(votes[k].list) = AuthorKey(list)} IN
  IF at = {} THEN Append(votes, [list |-> list, count |-> 1])
  ELSE [k \in DOMAIN votes |-> IF k \in at THEN [votes[k] EXCEPT !.count = @ + 1] ELSE votes[k]]

AuthorVotes(lists) == FoldLeft(AuthorVote, <<>>, Only(lists, ToSet(lists) \ {<<>>}))

Runes(list) == MapThenSumSet(LAMBDA k : runeLen(list[k]), DOMAIN list)
spacedCount(list) == Cardinality({k \in DOMAIN list : FieldCount(list[k]) > 1})
AuthorRank(v) == <<v.count, Len(v.list), Runes(v.list), spacedCount(v.list)>>

(* a is higher than b at the first place where they differ.                *)
Above(a, b) == \E i \in DOMAIN a : a[i] > b[i] /\ \A j \in 1..i-1 : a[j] = b[j]

pickAuthors(lists) ==
  FoldLeft(LAMBDA w, v : IF Above(AuthorRank(v), AuthorRank(w)) THEN v ELSE w,
           [list |-> <<>>, count |-> 0], AuthorVotes(lists)).list

(***************************************************************************)
(* pickCommonValue: the most common text; of several the first, or with    *)
(* preferLonger the longest.                                               *)
(***************************************************************************)
Value(votes, t) ==
  LET at == {k \in DOMAIN votes : foldName(votes[k].title) = foldName(t)} IN
  IF at = {} THEN Append(votes, [title |-> t, count |-> 1])
  ELSE [k \in DOMAIN votes |-> IF k \in at THEN [votes[k] EXCEPT !.count = @ + 1] ELSE votes[k]]

pickCommonValue(values, preferLonger) ==
  FoldLeft(LAMBDA w, v : IF \/ v.count > w.count
                            \/ /\ v.count = w.count /\ preferLonger
                               /\ runeLen(v.title) > runeLen(w.title)
                         THEN v ELSE w,
           [title |-> <<>>, count |-> 0],
           FoldLeft(Value, <<>>, Only(values, ToSet(values) \ {<<>>}))).title

(* The index is voted among the files of the chosen series only.           *)
(* Mutant of pickSeriesIndex: among all files.                             *)
pickSeriesIndexAny(files, series) ==
  IF series = <<>> THEN <<>>
  ELSE pickCommonValue([k \in DOMAIN files |-> files[k].index], FALSE)

pickSeriesIndex(files, series) ==
  IF series = <<>> THEN <<>>
  ELSE LET inSeries == Only(files, {f \in ToSet(files) : foldName(f.series) = foldName(series)}) IN
       pickCommonValue([k \in DOMAIN inSeries |-> inSeries[k].index], FALSE)

(***************************************************************************)
(* mergePublications: by publisher, in first-seen order and with the first *)
(* spelling, the distinct dates; a publisher without any is kept alone.    *)
(***************************************************************************)
normalizePublicationDate(d) == IF d \in DOMAIN DateOf THEN DateOf[d] ELSE ""

Dates(files, publisher) ==
  LET of == Only(files, {f \in ToSet(files) : foldName(f.publisher) = foldName(publisher)})
      dates == [k \in DOMAIN of |-> normalizePublicationDate(of[k].date)]
  IN Distinct(Only(dates, ToSet(dates) \ {""}), LAMBDA d : d)

mergePublications(files) ==
  LET told == Only(files, {f \in ToSet(files) :
                \/ f.publisher # <<>> \/ normalizePublicationDate(f.date) # ""})
      publishers == Distinct([k \in DOMAIN told |-> told[k].publisher], foldName)
      Of(p) == LET dates == Dates(files, p) IN
               IF dates # <<>>
               THEN [k \in DOMAIN dates |-> [publisher |-> p, date |-> dates[k]]]
               ELSE IF p # <<>> THEN <<[publisher |-> p, date |-> ""]>> ELSE <<>>
  IN FlattenSeq([k \in DOMAIN publishers |-> Of(publishers[k])])

mergeSubjects(values) == Distinct(Only(values, ToSet(values) \ {<<>>}), foldName)

normalizeLanguage(code) ==
  IF code \in DOMAIN TagOf /\ TagOf[code] \notin NoTag THEN <<TagOf[code]>> ELSE <<>>

mergeLanguages(codes) ==
  Distinct(FlattenSeq([k \in DOMAIN codes |-> normalizeLanguage(codes[k])]), LAMBDA t : t)

(* ISBNs by their canonical value, in first-seen order; METADATA and TEXT  *)
(* are kept as the set of the two.                                         *)
mergeIdentifiers(items) ==
  LET valid == Only(items, {i \in ToSet(items) : i.scheme = "ISBN" /\ i.value \in DOMAIN ISBN13})
      Of(v) == {i \in ToSet(valid) : ISBN13[i.value] = v}
      values == Distinct([k \in DOMAIN valid |-> ISBN13[valid[k].value]], LAMBDA v : v)
  IN [k \in DOMAIN values |->
       [value |-> values[k], source |-> UNION {i.source : i \in Of(values[k])}]]
=============================================================================
