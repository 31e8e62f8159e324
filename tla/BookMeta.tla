------------------------------ MODULE BookMeta ------------------------------
(***************************************************************************)
(* The description of one book: its files are committed in any order, by   *)
(* one scan or several, and Consolidate (internal/report/books.go) derives *)
(* title, authors and the other fields from them and stores them, where    *)
(* the reports read them.  Which files make up a book is Catalog's matter. *)
(*                                                                         *)
(* A content has its metadata; the paths are the numbers 1, 2, ... in      *)
(* their lexicographic order, each with its stem and directories.          *)
(***************************************************************************)
EXTENDS FileNames, BookVote

CONSTANTS
  Content,  (* the contents of files                                       *)
  Meta,     (* the metadata a parser read from each                        *)
  PathOf,   (* the stem and directories of the paths 1, 2, ...             *)
  MaxFiles  (* bound on the files of the book                              *)

Path == DOMAIN PathOf

BookTexts == Seq(Word \cup Separator)

ASSUME BookMetaAssumption ==
  /\ Content = DOMAIN Meta /\ Path = 1..Len(PathOf) /\ Len(PathOf) \in Nat /\ MaxFiles \in Nat
  /\ \A c \in Content : Meta[c].title \in BookTexts /\ Meta[c].authors \in Seq(BookTexts)
  /\ \A p \in Path : PathOf[p].stem \in BookTexts /\ PathOf[p].dirs \in Seq(BookTexts)
  /\ \A a \in DOMAIN TitleArticle : TitleArticle[a] \in Word

(* A parser reads a list of subjects, one of languages, one of identifiers.*)
ASSUME FieldAssumption ==
  \A c \in Content :
    /\ Meta[c].subjects \in Seq(ToSet(Meta[c].subjects))
    /\ Meta[c].languages \in Seq(ToSet(Meta[c].languages))
    /\ Meta[c].identifiers \in Seq(ToSet(Meta[c].identifiers))

VARIABLES
  rows,    (* book_files, by id: path and content (its hash)               *)
  dups,    (* book_file_duplicates: path and content                       *)
  authors, (* the authors table: names by id                               *)
  book,    (* books and the book_* tables, as Consolidate left them        *)
  fresh    (* nothing was committed since                                  *)

bookVars == <<rows, dups, authors, book, fresh>>

Rows == ToSet(rows)
Taken == {r.path : r \in Rows \cup dups}

(***************************************************************************)
(* The scan: a new content is a row with its authors, a known one a        *)
(* duplicate of its row.                                                   *)
(***************************************************************************)
AddNames(names) == Distinct(authors \o names, LAMBDA n : n)

CommitFile(p, c) ==
  /\ p \notin Taken /\ Cardinality(Taken) < MaxFiles
  /\ IF \E r \in Rows : r.content = c
     THEN /\ dups' = dups \cup {[path |-> p, content |-> c]}
          /\ UNCHANGED <<rows, authors>>
     ELSE /\ rows' = Append(rows, [path |-> p, content |-> c])
          /\ authors' = AddNames(Meta[c].authors)
          /\ UNCHANGED dups
  /\ fresh' = FALSE /\ UNCHANGED book

(***************************************************************************)
(* canonicalizeBookFiles: the smallest path of a content becomes its row.  *)
(***************************************************************************)
PathsOf(c) == {r.path : r \in {x \in Rows \cup dups : x.content = c}}

(* Mutant of Canonical: the row keeps the path the scan saw first.         *)
CanonicalFirst(rs, ds) == rs

Canonical(rs, ds) ==
  [k \in DOMAIN rs |->
    [rs[k] EXCEPT !.path = Min({r.path : r \in {x \in ToSet(rs) \cup ds : x.content = rs[k].content}})]]

ByPath(set) ==
  CHOOSE f \in [1..Cardinality(set) -> set] :
    \A i, j \in DOMAIN f : i < j => f[i].path < f[j].path

(***************************************************************************)
(* buildBookReports, for one book.                                         *)
(***************************************************************************)
(* splitAuthors and the echo filter: the names of a content, by their id,  *)
(* without placeholders and copies of the title.                           *)
FileAuthors(c, table) ==
  Only(table, {n \in ToSet(Meta[c].authors) :
                 ~isPlaceholderAuthor(n) /\ ~isTitleEcho(n, Meta[c].title)})

(* The files of the report: rows by path, then duplicates by path.         *)
Files(rs, ds) == ByPath(ToSet(rs)) \o ByPath(ds)

(* What was read off the names of the files: as "Author - Title", in       *)
(* Calibre's ways and, at last, off the directories.                       *)
FromReadings(paths, known, fallback, needAuthor, natural, calibre, calibreAuthor) ==
  LET title == IF known # <<>> THEN known ELSE FirstOr(natural, [title |-> fallback]).title
      dirAuthor == FlattenSeq([k \in DOMAIN paths |-> authorFromPath(paths[k], title)])
      Named(author) == [title |-> title, author |-> author]
  IN IF ~needAuthor THEN Named(<<>>)
     ELSE IF natural # <<>> THEN Named(natural[1].author)
     ELSE IF known = <<>> /\ calibre # <<>> THEN calibre[1]
     ELSE IF known # <<>> /\ calibreAuthor # <<>> THEN Named(calibreAuthor[1])
     ELSE Named(FirstOr(dirAuthor, <<>>))

(* Mutant of FromNames: the title of a file name goes before a known one.  *)
FromNamesFirst(paths, known, fallback, needAuthor) ==
  LET Stems(parse(_)) == FlattenSeq([k \in DOMAIN paths |-> parse(paths[k].stem)])
      natural == First(Stems(parseNaturalFilename))
  IN IF natural # <<>> THEN natural[1] ELSE [title |-> fallback, author |-> <<>>]

(* The first that is of a book of that title, where one is known.          *)
FirstAgreeing(books, known) ==
  First(Only(books, {b \in ToSet(books) : known = <<>> \/ titlesAgree(b.title, known)}))

(* For a book whose files have the title known (or <<>>), and authors or   *)
(* none: [title, author].                                                  *)
FromNames(paths, known, fallback, needAuthor) ==
  LET Stems(parse(_)) == FlattenSeq([k \in DOMAIN paths |-> parse(paths[k].stem)])
  IN FromReadings(paths, known, fallback, needAuthor,
       FirstAgreeing(Stems(parseNaturalFilename), known),
       First(Stems(parseCalibreFilename)), First(Stems(parseCalibreAuthorOnly)))

(* What a book is called, before and after washing, from the title and the *)
(* authors of its files and what was read off their names.                 *)
Washed(known, picked, names, read) ==
  LET recovered == IF read.author = <<>> THEN <<>> ELSE <<read.author>>
      by == picked \o recovered
  IN [known |-> known, picked |-> picked, recovered |-> recovered, raw |-> read.title,
      authors |-> ToSet(by),
      title |-> IF by = <<>> THEN read.title
                ELSE washAuthorAffix(read.title, AsSets(names \o recovered))]

Described(known, picked, names, paths) ==
  Washed(known, picked, names,
    IF known # <<>> /\ picked # <<>> THEN [title |-> known, author |-> <<>>]
    ELSE FromNames(paths, known, titleFromPath(paths[1]), picked = <<>>))

Describe(rs, ds, table) ==
  LET sorted == ByPath(ToSet(rs))
      files == Files(rs, ds)
      titles == [k \in DOMAIN sorted |-> Meta[sorted[k].content].title]
      lists == [k \in DOMAIN sorted |-> FileAuthors(sorted[k].content, table)]
      names == Distinct(FlattenSeq(lists), metaKey)
  IN Described(pickTitle(titles, AsSets(names)), pickAuthors(lists), names,
               [k \in DOMAIN files |-> PathOf[files[k].path]])

(* mergeBookMetadata: by path, but subjects, languages and identifiers in  *)
(* the order of the rows, which is how the queries return them.            *)
Merge(rs) ==
  LET sorted == ByPath(ToSet(rs))
      m == [k \in DOMAIN sorted |-> Meta[sorted[k].content]]
      byId == [k \in DOMAIN rs |-> Meta[rs[k].content]]
      series == pickCommonValue([k \in DOMAIN m |-> m[k].series], FALSE)
  IN [description |-> pickCommonValue([k \in DOMAIN m |-> m[k].description], TRUE),
      series |-> series, index |-> pickSeriesIndex(m, series),
      publications |-> mergePublications(m),
      subjects |-> mergeSubjects(FlattenSeq([k \in DOMAIN byId |-> byId[k].subjects])),
      languages |-> mergeLanguages(FlattenSeq([k \in DOMAIN byId |-> byId[k].languages])),
      identifiers |-> mergeIdentifiers(FlattenSeq([k \in DOMAIN byId |-> byId[k].identifiers]))]

(***************************************************************************)
(* Consolidate: a transaction.  book_authors is a set, read by name; names *)
(* recovered are new authors, those nobody refers to any more are deleted. *)
(***************************************************************************)
Consolidate ==
  /\ rows # <<>> /\ ~fresh
  /\ rows' = Canonical(rows, dups)
  /\ dups' = {d \in [path : Taken, content : Content] :
                d.path \in PathsOf(d.content) /\ d \notin ToSet(rows')}
  /\ book' = [described |-> Describe(rows', dups', authors), merged |-> Merge(rows')]
  /\ LET credited == UNION {ToSet(Meta[r.content].authors) : r \in Rows}
     IN authors' = Only(AddNames(book'.described.recovered), credited \cup book'.described.authors)
  /\ fresh' = TRUE

None == <<>>

BookInit ==
  /\ rows = <<>> /\ dups = {} /\ authors = <<>> /\ book = None /\ fresh = FALSE

BookNext == Consolidate \/ \E p \in Path, c \in Content : CommitFile(p, c)

BookSpec == BookInit /\ [][BookNext]_bookVars

-----------------------------------------------------------------------------
(* What the properties compare with: the files by path, as a reader of the *)
(* README sees them.                                                       *)
Sorted == ByPath(Rows)
D == book.described
M == book.merged

(* README, "Title vote" and "Author vote", word for word: the candidate    *)
(* none is above of, the first of several, in the order of the paths; a    *)
(* title by its longest spelling, a list of names by its first one.        *)
TitleWinner ==
  LET titles == [k \in DOMAIN Sorted |-> Meta[Sorted[k].content].title]
      t == Only(titles, {x \in ToSet(titles) : ~isPlaceholderTitle(x)})
      names == UNION {ToSet(FileAuthors(r.content, authors)) : r \in Rows}
      Same(i) == {j \in DOMAIN t : metaKey(t[j]) = metaKey(t[i])}
      Spelling(i) == t[Min({j \in Same(i) : \A k \in Same(i) : runeLen(t[j]) >= runeLen(t[k])})]
      Noise(x) == IF \E n \in names : matchTokens(n) # {} /\ matchTokens(n) \subseteq matchTokens(x)
                  THEN 1 ELSE 0
      Rank(i) == <<Cardinality(Same(i)), -Underscores(Spelling(i)), -Noise(Spelling(i)),
                   runeLen(Spelling(i))>>
  IN IF t = <<>> THEN <<>>
     ELSE Spelling(Min({i \in DOMAIN t : \A j \in DOMAIN t : ~Above(Rank(j), Rank(i))}))

AuthorsWinner ==
  LET lists == [k \in DOMAIN Sorted |-> FileAuthors(Sorted[k].content, authors)]
      l == Only(lists, ToSet(lists) \ {<<>>})
      Same(i) == {j \in DOMAIN l : AuthorKey(l[j]) = AuthorKey(l[i])}
      Kept(i) == l[Min(Same(i))]
      Rank(i) == <<Cardinality(Same(i)), Len(Kept(i)), Runes(Kept(i)), spacedCount(Kept(i))>>
  IN IF l = <<>> THEN <<>>
     ELSE Kept(Min({i \in DOMAIN l : \A j \in DOMAIN l : ~Above(Rank(j), Rank(i))}))

(* The loops of pickTitle and pickAuthors elect whom the README says, with *)
(* all its tie-breaks, whatever the candidates and their order.            *)
VotesRight ==
  fresh => D.known = TitleWinner /\ ToSet(D.picked) = ToSet(AuthorsWinner)

(* "A filename title never replaces a title that came from the files": a   *)
(* book one of whose files has a title is called, before the washing, what *)
(* a file of its calls it; no name read off a path joins the authors of a  *)
(* file, or takes their place; one taken for want of any reads as a name.  *)
MetadataFirst ==
  fresh =>
    LET titled == {t \in {Meta[r.content].title : r \in Rows} : ~isPlaceholderTitle(t)}
        named == {FileAuthors(r.content, authors) : r \in Rows} \ {<<>>}
    IN /\ titled # {} => D.raw = D.known /\ D.known \in titled
       /\ named # {} => D.recovered = <<>> /\ D.authors = ToSet(D.picked) /\ D.picked \in named
       /\ \A k \in DOMAIN D.recovered : IsName(D.recovered[k])

(* The words of a text from i to j, folded.                                *)
WordsIn(t, i, j) == {Lex[t[k]].fold : k \in {n \in i..j : t[n] \in Word}}

(* What stands in t outside i..j is one credit, at one end: words of that  *)
(* author and a dash before i, or a dash or "by" and words of that author  *)
(* behind j, and no other word.                                            *)
OneCredit(t, i, j, author) ==
  LET name == WordsIn(author, 1, Len(author)) IN
  \/ /\ WordsIn(t, j + 1, Len(t)) = {}
     /\ \E m \in 1..i-1 : /\ t[m] \in Dash
                         /\ WordsIn(t, 1, m - 1) \subseteq name /\ WordsIn(t, m + 1, i - 1) = {}
  \/ /\ WordsIn(t, 1, i - 1) = {}
     /\ \E m \in j+1..Len(t) : /\ t[m] \in Dash \/ "by" \in WordsIn(t, m, m)
                              /\ WordsIn(t, j + 1, m - 1) = {}
                              /\ WordsIn(t, m + 1, Len(t)) \subseteq name

(* Washing takes one credit of one author off one end of the title, or     *)
(* nothing; it never leaves a placeholder.                                 *)
WashedRight ==
  fresh =>
    \/ D.title = D.raw
    \/ /\ ~isPlaceholderTitle(D.title)
       /\ \E a \in D.authors \cup ToSet(authors), i, j \in 1..Len(D.raw) :
            D.title = SubSeq(D.raw, i, j) /\ OneCredit(D.raw, i, j, a)

(* Two names of authors stand at the same end of a title, as in            *)
(* "King - Stephen - Rage" by King and Stephen King: the one with the      *)
(* smaller id is washed off, and ids are given in the order of the commits.*)
TwoCredits(title, names) ==
  \E a, b \in names :
    LET Two(at) == at[1] # <<>> /\ at[2] # <<>> /\ at[1] # at[2] IN
    \/ Two(<<LeadingCredit(title, matchTokens(a)), LeadingCredit(title, matchTokens(b))>>)
    \/ Two(<<TrailingCredit(title, matchTokens(a)), TrailingCredit(title, matchTokens(b))>>)

SameBook(d, m) ==
  LET Keys(s) == {foldName(s[k]) : k \in DOMAIN s}
      names == UNION {ToSet(FileAuthors(r.content, authors)) : r \in Rows} IN
  /\ D.raw = d.raw /\ D.authors = d.authors
  /\ D.title = d.title \/ TwoCredits(D.raw, names \cup ToSet(D.recovered))
  /\ M.description = m.description /\ M.series = m.series /\ M.index = m.index
  /\ M.publications = m.publications
  /\ Keys(M.subjects) = Keys(m.subjects)
  /\ ToSet(M.languages) = ToSet(m.languages) /\ ToSet(M.identifiers) = ToSet(m.identifiers)

(* A consolidated book is a function of its files: neither the order of    *)
(* the commits nor what was a row and what a duplicate shows, except in    *)
(* the order of subjects, languages and identifiers, and in the washing of *)
(* a title two names stand at the same end of.                             *)
ScheduleFree ==
  fresh =>
    LET contents == {r.content : r \in Rows}
        first == ByPath({[path |-> Min(PathsOf(c)), content |-> c] : c \in contents})
        rest == {[path |-> p, content |-> c] : p \in Taken, c \in contents}
        names == Distinct(FlattenSeq([k \in DOMAIN first |-> Meta[first[k].content].authors]),
                          LAMBDA n : n)
    IN SameBook(Describe(first, {f \in rest : f.path \in PathsOf(f.content) /\ f \notin ToSet(first)},
                         names),
                Merge(first))

(* An index belongs to the series it stands with; of the publications none *)
(* is lost, none is there twice, and none is undated beside a dated one.   *)
MergedRight ==
  fresh =>
    LET m == {Meta[r.content] : r \in Rows}
        Dated(p) == {f \in m : foldName(f.publisher) = foldName(p)
                               /\ normalizePublicationDate(f.date) # ""}
    IN /\ M.index # <<>> => \E f \in m : /\ foldName(f.series) = foldName(M.series)
                                         /\ foldName(f.index) = foldName(M.index)
       /\ {<<foldName(p.publisher), p.date>> : p \in ToSet(M.publications)} =
            {<<foldName(f.publisher), normalizePublicationDate(f.date)>> :
               f \in {g \in m : \/ normalizePublicationDate(g.date) # ""
                                \/ g.publisher # <<>> /\ Dated(g.publisher) = {}}}
       /\ Cardinality(ToSet(M.publications)) = Len(M.publications)
=============================================================================
