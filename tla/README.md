# Verification of margaret

margaret scans a directory tree (local or over FTP) for ebooks, also inside
nested archives, reads their metadata, finds exact and near duplicates, groups
the files into books in an SQLite database, and reports and searches them. This
directory holds TLA+ models of the parts of it in which concurrency, failure,
restart or order decide whether the result is right, the TLC configurations
that check them, and TLAPS proofs.

Paths below are relative to `src/internal/` unless they name a Markdown file.

## 1. The system

| Component | State | Operations | Talks to |
|---|---|---|---|
| Scan command (`cli/scan.go`, `cli/resume.go`, `cli/root.go`) | scan mode, context, status, exit code, the row of this run | resolve fresh/resume, clear, create run, process, consolidate, finish run, report | database, scan processor, consolidation |
| Scan processor (`processor/scan.go`, `resultqueue.go`, `resume.go`) | result queue, counters, failures, in-flight names, fatal error | Process, parse workers, skip/fail/report, parseEbook with its transaction | scanner (callbacks), sources, parsers, database |
| Directory scanner (`scanner/scanner.go`) | shared directory queue, termination counter, counters, fatal error | Scan, walkers, dispatch, scanDir, close on cancellation | sources; callbacks into the processor |
| Archive unpacking (`processor/archive.go`) | depth, display path | one handler per container format, handleMember, member names | spooling, parseEbook |
| Member spooling (`processor/spool.go`) | bytes in memory, temporary file, end or error of the stream, cursor | ReadAt, Read, Seek, Size, Close | archive streams, parsers |
| Catalog database (`database/`, `db/`, `lsh/`) | books, files, authors, duplicates, LSH buckets, scan runs, full-text indexes | migrations, Clear, queries | everyone |
| Transactions (`tx/tx.go`) | the transaction in a context | WithTx | processor, consolidation |
| Consolidation (`report/books.go`, `bookmeta.go`, `book_metadata.go`) | none of its own | canonical paths, titles, authors and merged metadata of each book | database |
| Reports and search (`report/`, `search/`, `db/books.fts.go`) | none | read the database, write files | database |
| Progress bar (`cli/progress.go`) | counters shown | report, tick, cancel, sync | snapshots of the processor |
| RTF parser (`parser/rtf/`) | the decoder: group stack, bytes kept back, half a surrogate pair, fallbacks to drop, font table, `\info` fields | one step per group, character, escape or control word | blob |
| PDF parser (`parser/pdf/`) | two pipes, the process `pdftotext`, a feeding goroutine, a hash, the head gate | Parse | blob, Poppler's tools |
| Plain text parser (`parser/txt/`) | candidates for the encoding | detect, decode | blob, a statistical detector |
| Text documents (`parser/textdoc/`) | the head of a text | HeadGate, metadata from lines | RTF, text and PDF parsers |
| Title and author heuristics (`metaheur/`, `report/bookmeta.go`) | none | plausible names and titles, file-name readers, votes, washing | parsers, consolidation |
| Registry, adapters, languages, identifiers (`parser/`, `langid/`, `identifier/`) | none | content to metadata | spooling |
| Sources (`source/`) | a connection | Open, ReadDir, Stat | scanner, processor |

How they interact in a scan: `runScan` resolves its mode from the flags, the
database and the terminal, clears the database if the scan is fresh, records
the run, and calls `Process`. `Process` starts the parse workers and calls
`Scan`. The walkers of `Scan` share one queue and are producers and consumers
of it at once; what they find goes through a callback into a second queue, from
which the parse workers take it. Each ebook is one transaction over a single
connection: it finds exact duplicates by hash, near duplicates by LSH buckets,
and joins or creates a book. After `Process` has returned, one transaction
consolidates all books, the run is given its status, and reports are written.
Ctrl-C cancels a context that every part watches; a second one ends the process.

What is hard:

- *Termination of a pool that feeds itself* (scanner): an atomic counter decides
  that the walk is over, a condition variable wakes waiters, and cancellation
  comes through another goroutine.
- *Two queues, three ways to end* (processor): normal end, cancellation and a
  worker's fatal error close or abort the result queue while workers wait on it.
- *Commit order* (catalog): the transactions of several workers commit in any
  order, and grouping is greedy.
- *Interruption and resume* (catalog, command): what was committed stays, the
  history of runs is written by separate statements, and a resumed run trusts it.
- *A stream read once and served at random* (spooling): memory cap, temporary
  file, errors half way.
- *Snapshots that overtake each other* (progress): counters are loaded one by
  one, by several goroutines, and reach the bar in any order.
- *Votes with tie-breaks and fallbacks in sequence* (consolidation): the book must
  be a function of its files, not of the order they were committed in.
- *A process between two pipes* (PDF): three parties that may each wait for
  another, and stop early, fail or be killed.
- *State that outlives the word that set it* (RTF): whatever is kept back must be
  settled at the next brace, font or escape.
- *A comparison that is no order* (text encoding), combined with leaving
  candidates out.

What makes each component correct is stated by the properties of section 4.

## 2. Modules

| Module | Models | State and actions |
|---|---|---|
| `DirWalk` | `Scanner.Scan`, its walkers, `dirQueue`, the closer goroutine | One action per step between two synchronisation points: `Pop`, `Popped`, `ListDir`, `DirEntry`, `FileEntry`, `DispatchCheck/Add/Push`, `LoadProgress`, `Report`, `Finish`, `WalkerClose`, ... A goroutine blocked in `cond.Wait` is at `"wait"`; `WakeOne` and `WakeAll` are Signal and Broadcast. |
| `Discovery` | what `Scan` promises | results once each, unreadable directories, a complete normal return |
| `DirWalkRefinement` | the mapping of the first to the second | `ImplementsDiscovery` |
| `DirWalkProofs` | proofs about `DirWalk` | section 6 |
| `Pipeline` | `ScanProcessor.Process`, the result queue, parse workers, counters | uses an instance of `Discovery` for the scanner: the pipeline is checked against everything the scanner may do, and `DirWalk` is checked to do no more |
| `PipelineProofs` | proofs about `Pipeline` | section 6 |
| `Archive` | `processArchive` and everything under it | one action per handler step (`Open`, `Refuse`, `Walk`, `Decompress`, `NextMember`, `Broken`, `EndArchive`, `Member`, `Parse`, `Commit`); the recursion of the code is the stack of archives being walked; several runs, each fresh or resumed |
| `ArchiveProofs` | proofs about `Archive` | section 6 |
| `Catalog` | the database over several runs: the transaction of `parseEbook`, resume, `Consolidate` | tables as sequences (ids) and sets; a transaction is one action, since `Open` allows one connection and a transaction holds it |
| `CatalogProofs` | proofs about `Catalog` | section 6 |
| `ScanRun` | `runScan`, `resolveScanMode` and `Execute`, process after process | one action per statement that reaches the database, an interrupt or a crash between any two |
| `ScanRunProofs` | proofs about `ScanRun` | section 6 |
| `Blob` | what the readers of an archive member are promised | a request (`Ask`) and its `Answer`: the bytes at the offset asked for, all of them if the stream has delivered them, fewer only at its end or after it broke |
| `SpoolBlob` | `spoolBlob` | one call at a time (the mutex), each iteration of its loops a step; `ImplementsBlob` maps it to `Blob` |
| `SpoolProofs` | proofs about `SpoolBlob` and its refinement of `Blob` | section 6 |
| `Progress` | `progressBar`, `progressReporter`, `ScanProcessor.Stats` and `report`, the ticker and the end of `runScan` | one action per load of a snapshot (`Load`), per report under the lock, and per step of the walkers and workers that changes a counter |
| `Text`, `MetaHeur`, `FileNames` | texts as token sequences; `metaheur.ScoreName`, `ScoreTitle`; the readers of file names and directories, `washAuthorAffix` | operators |
| `BookVote` | `pickTitle`, `pickAuthors`, `pickCommonValue` and the merges of `book_metadata.go` | operators; each vote is a fold over the candidates in their order, as in the code |
| `BookMeta` | the files of one book in the database and `Consolidate` over them | `CommitFile` (a row or a duplicate), `Consolidate` (promotion, description, merge, orphaned authors) |
| `ReportProofs` | proofs about what the user is shown: `Progress` and `BookMeta` | section 6 |
| `Rtf` | `textDecoder` | one action per kind of token; the document is chosen token by token |
| `Encoding` | `detectEncoding`, `detectLegacy` | one action per result of the detector |
| `PdfExtract` | `PDFParser.Parse`, `startTextExtraction`, `hashingReader`, `HeadGate`, `ContextError` | the parser's goroutine, the feeder, `pdftotext` and the two pipes |
| `TextDocs` | the choice of a parser by format | a file takes the way of one of the three modules above, whose variables it composes |
| `TextDocsProofs` | proofs about the documents of `TextDocs`: PDFs and encodings | section 6 |

Each `MC` module gives the constants of its module their values. Definitions
headed "Mutant of X" are X with a plausible bug; no run uses them except to see
that a property notices the bug. Every module with a state has a `TypeOK` that
documents its types; only that of `DirWalk`, which a theorem states, is in a run.

Abstractions, per module:

- `DirWalk`: a listing is a set handled in any order (it is unsorted). The
  extension table of `FormatOf` is a partition of the files.
- `Pipeline`: a unit is one ebook, on disk or in an archive; what a parser makes
  of it is an outcome (metadata, not a book, error). The nesting of archives is
  flattened; `Archive` has it. The counters are kept per subject, which refines
  the code's sums. `fail` is two steps, the check of the context (`Fail`) and the
  counting (`UnitFailed`, `ArchiveFailed`, `DirFailed`), for a cancellation may come
  between them; nothing looks at the list of failures before the end.
- `Archive`: a format is one of the code's names; a path is the sequence of the
  names that "!" joins. Directories and irregular members in an archive, which
  every handler passes over, are left out, and so is the decoding of legacy
  zip names. An archive read as a stream or by the archives library may break
  at any member, the others when they are opened, and any member may fail to
  open, which covers passwords, unsupported compression and a broken stream
  around it. Members have distinct contents.
- `Catalog`: a content is its hash; authors, subjects, LSH bands and similarity
  are parameters of the content, since they are functions of it. Titles and the
  other fields are `BookMeta`'s. A content may name nobody, or only placeholders and
  names that repeat its title (`CreditsOf`, what votes of its authors); a book without
  a vote gets the author that is read off its paths, if there is one
  (`RecoveredOf`, a parameter: any function of the paths and contents of the book's files
  and duplicates; what it computes is `BookMeta`'s). Which units a run passes over (no
  book, too small, a PDF without Poppler) is `Skippable`, of which each run may pass
  over any. `shouldSkip` and the transaction are separate steps, as in the code; of
  an archive or a directory that fails, each unit in it fails.
- `ScanRun`: the content is the set of ebooks each tree contributed. SQLite is
  taken to commit atomically and durably.
- `SpoolBlob`: bytes are numbers, a chunk is at most `Chunk` bytes (32 KiB in
  the code). A call is its request until it returns, which is what `Blob` answers.
  Calls after Close are left out: the callers close a blob when they
  are done with it. A Read of the source that returns nothing and no error is
  left out.
- `Progress`: what is drawn (throttle, width, names) is left out; the bar is the
  numbers and flags a frame would show. The loads of parsed, skipped and active,
  which nothing compares with one another, are one step.
- `Text` and what is built on it: a text is a sequence of words and separators;
  the lexicon gives each word its length, case, folding and the word lists it is
  on. A title of characters becomes one of tokens; the rules themselves (counts,
  positions, adjacency, lengths) are kept.
- `BookMeta`: one book. Which files form it is `Catalog`'s matter. Paths are
  numbered in their lexicographic order; a file's metadata is a function of its
  content. A file's authors are listed in the order of their ids, as SQLite goes
  through `book_file_authors`; the query (`GROUP_CONCAT`) does not ask for it, and the
  language does not promise it.
- `Rtf`: a character is the position of its token and the code page it was read
  in; code pages are names, `\uc` is 0, 1 or 2. A field of `\info` begins its
  group, as the format has it. Limits of size are left out.
- `Encoding`: the detector's whole list is chosen at first, by falling confidence; a
  result carries what decoding the sample by it would show (text quality, confidence
  of the language). `candidateLimit` is 6 in the code, a parameter here.
- `PdfExtract`: the file is blocks, its text chunks that are blank or not;
  `pdfinfo` is one step; `pdftotext` may leave input unread, write its text at any
  pace, and fail at any moment. That the pipe of its output fails while it is read,
  other than by its end (`parser/pdf/pdf.go:131-143`), is left out.

## 3. Runs, bounds and fairness

| Run | Shows | Bounds |
|---|---|---|
| `DirWalk.cfg` | type, exact counter, no early close, completeness, each directory once, refinement of `Discovery`, and that `Scan` and its goroutines end | 2 walkers; 4 directories in 3 levels; 3 files, one of each kind |
| `Pipeline.cfg` | every subject counted once, nothing dropped, rows agree with counters, `Process` returns | 2 workers; 2 directories; an ebook and an archive of 2 members, one of them passed over, one recorded before |
| `PipelineTimeout.cfg` | *violated*: nothing dropped, with network timeouts | 1 worker |
| `Archive.cfg` | depth, complete and single accounting, resumed runs | 2 trees of 19 nodes in all, up to 3 archives deep with a limit of 2; zip, 7z, tgz, gz and bz2; 3 runs; the Poppler tools come and go |
| `Catalog.cfg` | books, duplicates, paths, groups, promotions, resume, idempotence | 2 workers, 3 files, 5 contents (one whose metadata is invalid, one that names nobody), 2 units that may be passed over, 2 runs, 1 change of a file in between |
| `CatalogPromote.cfg` | *violated*: a canonical path can always be promoted | as `Catalog.cfg`, 1 run, two contents under one path |
| `ScanRun.cfg` | history, status and exit code are true; nothing is wiped silently | 3 processes, 2 trees of 2 ebooks |
| `ScanRunMix.cfg` | *violated*: trees are never mixed silently | as above |
| `SpoolBlob.cfg` | memory cap, read-ahead, refinement of `Blob`, every call returns while the temporary file can be read | 4 bytes, 2 in memory, chunks up to 2, reads up to 3; a size announced wrongly or not at all; the file may break |
| `Progress.cfg` | the bar overstates nothing, never goes back, stays canceled, ends exact | 2 walkers (two directories and one), 1 worker, a file and an archive, 1 tick |
| `BookMeta.cfg` | votes, fallbacks, washing, independence of the order, merges | 8 contents under 3 names, up to 3 files, consolidated after any of them |
| `TextDocs.cfg` | RTF decoding, choice of an encoding, verdict and clean end of a PDF | 3 beginnings and 4 more tokens; up to 4 results of the detector, of 4 encodings and an unknown one, candidate limit 3; 2 blocks, up to 4 chunks, pipes of one |

Why the bounds are enough for what they are about. A tree of three levels with two
children at the root has one directory queued, one held and one on its way into the
queue at the same time, and two walkers that finish together; the proofs lift the
counter's properties to any number. Two workers race in every pair of transactions;
three files allow a chain a~b~c, two copies and a third content; two runs with a
change in between allow every way to resume over stale rows. Of the units that may
be passed over one is a copy of another and one holds a content of its own, so a
second run may find the row, the duplicate or nothing. Above the depth limit, at it
and below it lies an archive each, once through a compressed file that counts as a
level; three runs allow an archive to be cut off twice at different members. Three
processes are needed for the shortest scenario in which a history misleads a third
run. Two bytes in memory and chunks of two make a chunk fit, straddle the cap and
fall behind it, and a read of three spans both places; requests begin at every
offset up to the end and past it. Two walkers are needed for one snapshot to
overtake another, and an archive for what is done to exceed what was found. Three
files give a majority, a tie of two and a tie of all. Four tokens after an open
group, an `\info` field or a font table are an escape, its fallback, a brace and a
character behind it. Three candidates can beat each other in a circle, and a fourth
result comes after the limit, or after a result that does not count against it. A
head of two chunks in a text of four ends before, at and after the end of the text,
and a pipe of one block makes every party wait.

Deadlock is checked in every run whose system goes on; a terminated system
stutters explicitly (`Done`, `Over`), and so does the loop of `copyFrom` that does
not get on (`CopyNothing`). `BookMeta.cfg` and `TextDocs.cfg` do not check it: a
book with all its files consolidated and a parsed document have nothing left to
do; that a PDF does not stop before is `PdfReturns`.

Fairness. `DirWalk` and `Pipeline` assume weak fairness of each goroutine: the Go
scheduler runs every runnable goroutine, a call of the source returns (FTP has
timeouts), and a mutex is not withheld. Nobody is obliged to cancel. `Pipeline` also
assumes that the scanner returns, which `DirWalk` establishes. `SpoolBlob` assumes
that a call that has begun goes on: the source answers every Read, with bytes, the
end or an error. `TextDocs` assumes the same of the parser's goroutine and of the
feeder, that a killed process dies (the kernel's promise behind
`exec.CommandContext`), and that `pdftotext` goes on writing and exits as long as it
can; it is not assumed to read its input. Wakeups need no fairness of their own:
`WakeOne` wakes a waiter whenever there is one, as `sync.Cond` does.

## 4. Properties

- `RemainingExact`, `NoEarlyClose`, `CompleteWalk`, `ListedOnce`, `Terminates`
  (`DirWalk`): the counter equals queued + held + about to be pushed; the queue
  is closed only when there is nothing left; a normal return is complete.
- `ImplementsDiscovery`: the walk shows its caller nothing else.
- `CountedOnce`, `NothingDropped`, `Terminates` (`Pipeline`): counters, rows and
  failures agree with each other and with what the scanner showed.
- `WithinDepth`, `Accounted`, `SettledForGood`, `ResumesAtTheGap` (`Archive`):
  the limit is the documented one, for compressed files too; an ebook is counted
  once or lies in an archive that was; a given-up archive is not read on; a
  resumed run parses nothing that is recorded.
- `RecordedOnce`, `GroupsAreSimilar`, `NothingLost`, `CanonicalIsSmallest`,
  `Idempotent`, and `PromotionPossible` (`Catalog`): the invariants of the catalog
  through scans, crashes, resumes and consolidations. `NothingLost` speaks of the files
  that were neither counted as failed nor passed over. `RecordedOnce` and
  `PromotionPossible` are about trees whose display paths are distinct; section 5
  says where they are not.
- `HistoryCoversContent`, `CompletedIsDescribed`, `NeverWipedSilently`, and
  `NeverMixedSilently` (`ScanRun`): what a run records and returns is true,
  wherever it is cut off.
- `MemoryBound`, `ImplementsBlob`, `ReadableReturns` (`SpoolBlob`): at most the
  limit in memory, at most one chunk read ahead, each request answered with the bytes
  of the whole content it asked for, never fewer before the end, and a broken stream
  never taken for its end.
- `NeverOverstates`, `NeverBack`, `StaysCanceled`, `EndsExact` (`Progress`): in
  whatever order snapshots arrive, the bar counts nothing twice, never goes back,
  and shows in the end exactly what was counted.
- `VotesRight` (`BookMeta`): the loops over the candidates elect whom the README's
  list of tie-breaks names, stated as a maximum over all candidates.
  `MetadataFirst`: a title that one of the files has is not replaced by one read off
  a path, no name read off a path joins or replaces the authors of a file, and one
  that is taken for want of any reads as a name. `WashedRight`: washing takes nothing
  off a title or one credit of one author off one end of it, and leaves no placeholder.
  `ScheduleFree`: title, authors and merged fields are those of the same files
  committed in the order of their paths, except for the order of subjects, languages
  and identifiers, and for the washing of a title at one end of which two authors
  stand (`TwoCredits`). `MergedRight`: a series keeps its own index; no publication is
  lost or doubled.
- `DecodedRight` (`Rtf`): the output is the visible text and the first title, as
  read off the positions of the tokens by a definition without stack or buffers.
  `EncodingRight` (`Encoding`): of the detector's whole list the best of the first
  `candidateLimit` results that fit is chosen, each compared with the best before
  it; leaving the language pass out for some of them never changes that.
  `PdfVerdictRight`, `NothingLeftBehind`, `PdfReturns` (`PdfExtract`, `TextDocs`): a
  parsed file was hashed whole, no goroutine or process outlives Parse, and Parse
  returns.

## 5. Where code and documentation disagree

Each of these is a run that TLC violates; PROJECT.json quotes the text.

1. `PipelineTimeout`: a network timeout is dropped like a cancellation
   (`processor/scan.go:620`).
2. `CatalogPromote`: `book.epub.gz` and `book.epub` share a display path; with
   different contents there the consolidation fails on every run.
3. `ScanRunMix`: only the latest run's root is compared, and a run that was
   interrupted at the warning is the latest.

Met while modelling, and noted among the hazards of PROJECT.json without a run of
their own; the models contain each of these behaviours:

- Snapshots may be stored out of order (`processor/scan.go:662`), so the totals of
  `Stats` after `Process` may be old; the bar is proof against it.
- Which files form a book depends on the order of commits (`processor/scan.go:451`),
  against `README.md:549-550`; `GroupsAreSimilar` states what does hold.
- Within a book, subjects, languages and identifiers are listed in the order of row
  ids (`report/books.go:492`), against the comment at `report/books.go:530-532`; and of
  two authors at one end of a title the one with the smaller id is washed off.
- `copyFrom` ignores a read error of the temporary file and goes round for ever
  (`processor/spool.go:140`).
- A PDF whose head has no text is cut off early; `pdftotext` then dies of its closed
  output and the file is a failure (`parser/pdf/pdf.go:135`) instead of "not a book".
- Half of a surrogate pair that stays alone is put out late and may leave a skipped
  group (`parser/rtf/decode.go:560`).
- The result queue has no bound where the README gives it one; an interrupted resume
  leaves raw authors that `margaret report` shows; with Poppler missing, `x.pdf.gz`
  is a failure where `x.pdf` is skipped; a resumed run passes over the content of
  `x.epub.gz` once `x.epub` beside it is recorded.

## 6. Proofs

Each theorem is proved for every value of the constants that the assumptions of its
module allow: any tree, any number of workers and walkers, any limits. Where a
theorem has a hypothesis of its own it is named here, with the reason why the code
justifies it. The proof modules have the same layout: the inductive invariant in
named parts, lemmas about the operators, one lemma per part (or per group of actions)
that a step keeps it, the theorems.

| Module | Theorem | Property | Hypothesis |
|---|---|---|---|
| `DirWalkProofs` | `TypeSafe` | `TypeOK` | |
| | `CounterExact` | `RemainingExact` | |
| | `NeverClosedEarly` | `NoEarlyClose` | |
| | `WalkIsComplete` | `CompleteWalk` | |
| | `DirsListedOnce` | `ListedOnce` | `IsTree` |
| | `WalkImplementsDiscovery` | `ImplementsDiscovery` | `Grounded` |
| `PipelineProofs` | `EverythingCountedOnce` | `CountedOnce` | |
| | `NothingIsDropped` | `NothingDropped` | `~NetTimeouts` |
| `CatalogProofs` | `NothingIsLost` | `NothingLost` | `~NetTimeouts` |
| | `CanonicalPathsRight` | `CanonicalIsSmallest` | |
| | `FilesAreGrouped` | `GroupsAreSimilar` | |
| | `ConsolidationIsIdempotent` | `Idempotent` | |
| | `PathsRecordedOnce` | `RecordedOnce` | `Distinct` |
| | `PromotionAlwaysPossible` | `PromotionPossible` | `Distinct` |
| `ScanRunProofs` | `ContentIsCovered` | `HistoryCoversContent` | |
| | `CompletedRunsAreTrue` | `CompletedIsDescribed` | |
| | `WipedKnowingly` | `NeverWipedSilently` | |
| `SpoolProofs` | `MemoryIsBounded` | `MemoryBound` | |
| | `SpoolImplementsBlob` | `ImplementsBlob` | |
| `ReportProofs` | `ShowsWhatWasDone` | `NeverOverstates` | |
| | `BarNeverBack` | `NeverBack` | |
| | `CanceledForGood` | `StaysCanceled` | |
| | `FinishedExact` | `EndsExact` | |
| | `VotesAreRight` | `VotesRight` | |
| | `MetadataComesFirst` | `MetadataFirst` | |
| | `WashingIsRight` | `WashedRight` | |
| | `MergingIsRight` | `MergedRight` | |
| | `OrderDoesNotShow` | `ScheduleFree` | |
| `ArchiveProofs` | `NothingTooDeep` | `WithinDepth` | `Nested` |
| | `CountedForGood` | `SettledForGood` | `Nested` |
| | `NothingParsedAgain` | `ResumesAtTheGap` | `Nested` |
| | `EveryEbookAccounted` | `Accounted` | `Nested`, `NamesTell` |
| `TextDocsProofs` | `PdfVerdictsRight` | `PdfVerdictRight` | |
| | `NobodyLeftBehind` | `NothingLeftBehind` | |
| | `EncodingsRight` | `EncodingRight` | |

The assumptions on constants are in the modules that declare them, and TLC evaluates
them in every run. Most give a constant its type or a positive bound. Three say more:
`BookMetaAssumption` (titles, names and paths are texts of words and separators, which is
what `Text` makes of characters; `FieldAssumption` beside it only says that subjects,
languages and identifiers are lists), `CaseAssumption` (words that differ only in case have
one folding and one length, and are name particles together, as lower-casing is a part
of folding) and `EncodingAssumption` (the measures of a result are integers, the
confidence of its language is one of 0 to 100, and the limit of candidates is positive).
`CatalogAssumption` gives types and makes similarity symmetric; of authors it asks
nothing: a content may have none, and one that no file names may be read off a path.
That the detector's results come by falling confidence is part of `EncInit`; the comment
at `parser/txt/encoding.go:84-88` rests on it.

The hypotheses of theorems:

- `IsTree` (a directory has one parent, the root none) and `Grounded` (no directory
  is below itself: there is a height that falls from a directory to its
  subdirectories). The scanner descends only into entries whose `IsDir` is set
  (`scanner/scanner.go:339`); for local entries that is the type of the entry, which
  a symbolic link to a directory does not have (`source/local.go:31`), for FTP it is
  `EntryTypeFolder`. What it walks is therefore a finite tree. Only these two
  theorems need it; the counter and completeness hold in any graph.
- `~NetTimeouts`: no error of a healthy run is an `errors.Is` match of
  `context.DeadlineExceeded`. Two theorems need it: the unit, archive or directory such
  an error befalls is neither counted nor recorded. The run `PipelineTimeout` shows that
  they are false without it (section 5); for a local tree it holds.
- `Distinct`: two files of the tree have different display paths. The run
  `CatalogPromote` shows that `PromotionPossible` is false without it.
- `Nested`: a node is one occurrence, a top or a member of exactly one archive, and no
  archive is inside itself (some level grows from an archive to its members). A node
  stands for a place in a tree of bytes, where the members of an archive are parts of
  it: two equal members are two nodes. It holds of the run's instance.
- `NamesTell`: of two nodes with one display path both are ebooks or neither is. The
  format of a member is `FormatOf` (`scanner/scanner.go:146`) of its name
  (`processor/archive.go:314`, `:336`), and the name is the last part of the display
  path. Without it `NextMember`, which asks for archives too whether their path is
  recorded, could pass over an archive because of an ebook, and what it holds would
  be lost. It holds of the run's instance too.

### DirWalkProofs

The first three theorems follow from one inductive invariant, `CountInv`, the
conjunction of `TypeOK`, `RemainingExact`, `RootFirst` and `OverIsOver`.
`RemainingExact` alone is not inductive: the closing walker and a late `dispatch`
could meet unless one knows that the root was counted before any walker can hold a
directory (`RootFirst`), and that once the counter has been at zero no directory is
left anywhere and none comes (`OverIsOver`, from which `NoEarlyClose` follows).
`TypeOK` needs the counter: `remaining \in Nat` holds only because a walker that
finishes still holds a directory.

`WalkInv` adds `Covered`: every entry of a directory that was listed is reported or
visited, or queued, or in somebody's hands (`Handed`); with the counter at zero nobody
has anything in hand, so a walk that closed its queue is complete. `Reasons` and
`AtWork` say why a walk may be over otherwise, and when a walker has entries left.

`DirsListedOnce` rests on `OnePlace` (a directory is in one place at a time: unseen,
queued once, in one pair of hands, or visited) and `ParentFirst` (what is in any of
these places has a visited parent). The refinement `WalkImplementsDiscovery` maps each
step to a step of `Discovery` or a stutter; the difficult one is the normal return,
where `Discovery` demands that a file that was not shown lies under an unreadable
directory: of the visited directories above it the lowest is one, and `Grounded` says
that there is a lowest. `StaysBelow` keeps the walk under its root.

### PipelineProofs

An argument of ownership. A subject can be counted by one party at a time: the walk
that has not shown it, the queue, or one worker (`Pending`); what is pending is
uncounted (`PendingUncounted`), counting gives it up, and nobody gets it back
because an item is queued once and held by one worker (`QueueOnce`, `HandsOnce`,
`HandsFit`). `CountInv` is these and `CountedOnce`. For `NothingDropped` the
converse is needed: until the run is cancelled, what nobody has pending any more is
counted, or is in an archive that is, or is about to be (`NothingLostYet`,
`GivenUp`). A failure on its way between `fail`'s check and its counting is still
pending, with the worker or, of a directory, with the walk (`losing`), for which
Scan waits; and a run ends normally only with the queue closed and empty, after the
scan (`Ending`).

### CatalogProofs

`RowsInv` has the shape of the tables and of the workers' hands, and that no two
rows have one hash. `NothingIsLost` adds where each file is: with the walk, with a
worker, recorded, failed or passed over (`NothingLostYet`). `OnceInv` adds that what
a worker is about to record is not recorded (`Unrecorded`): a fresh scan started
from nothing, a resumed one has looked, and with `Distinct` no other worker writes
the same path between the look and the transaction. `PromotionPossible` follows from
`RecordedOnce`. `BooksInv` states of the books what `GroupsAreSimilar` does, in the
form in which a transaction preserves it: the file it adds is the last of its book
and similar to an earlier one (`Grown`).

`CleanInv` says that until something is recorded the tables are as a consolidation
leaves them (`Consolidated`): nothing to promote, every book described by its files, no
author without a reference. A second consolidation then does nothing
(`SecondChangesNothing`). That the first one leaves them so (`ConsolidateSettles`) is the
point: it describes the books by the paths after the promotions, and `SomeoneWins` shows
that among the files of a book that vote, if there are any, which are finitely many and
which any two votes compare, there is one that no other beats (`SomeoneLeads`, `BestOne`).
A book in which nobody votes is described by its paths, the same after a second
consolidation (`SameDescription`).

### ScanRunProofs

Between the statement that records a run and those that finish it, the process can
die. `UnderWay` says what is known of the last row of the history at each point of a
process, `AboutToComplete` that the consolidation described the present content before
the status "completed" is written. `NeverWipedSilently` follows from `WipeAllowed`: the
process is at the wipe only if it was allowed to.

### SpoolProofs

`Pieces`: what is in memory and what is in the file are consecutive parts of the
content, and all of it at its end. `OnDemand`: less than a chunk was pulled beyond what
was asked for. `CallInv`: what the call under way has copied so far is the right part.
A read that spans both places copies two parts; `Cut`, `Halves`, `Joined` and `PartsJoin`
are what it needs about sequences. The refinement maps the call under way to Blob's
request, so the answer is compared with the offset and length that were asked for:
`BytesRight` says that what was copied when the loop of `copyFrom` ends is all of the
request that was pulled. It has no hypothesis: it holds for a source that breaks, a size
that was announced wrongly and a file that breaks.

### ReportProofs

What the user is shown: the progress of a scan, and the books it found.

`BarInv` adds to `NeverOverstates` and `StaysCanceled` what they rest on: `NeverAhead` (no
snapshot, stored or on its way, is ahead of the four counters that never fall, so one
that comes late can only be behind), `Awaited` (runScan goes on when the goroutines of
`Process` and then the ticker have ended) and `Synced` (the last snapshot is then exact,
and the bar shows it). `EndsExact` follows from the last two.

The properties of a book compare loops with definitions that have no loop, for any
files, authors and paths. A fold over a sequence is a function TLA+ chooses; `MaxFold` and
`FoldIsLoop` show that it is the last of the values that the loop goes through, one per
element, and an invariant of the loop is then proved by induction on the number of
elements seen. Built on that are the lemmas about the operators of the model: what
`Only` and `Distinct` keep, in which order and how often (`OnlySet`, `OnceSet`,
`UnlikeSet`, `SpellingSet`, `OnceCounts`), what `FlattenSeq` concatenates (`FlattenRun`,
`FlattenOnce`), and that `ByPath` is the one list in the order of the paths (`ByPathIs`).

- `VotesAreRight`: after each candidate the votes are the classes of those seen
  (`Counted`): one per key, with its size, in the order of the first ones, each by its
  first or longest spelling (`Spells`). The leader of the second loop is the first vote
  that no other one beats (`Leader`, `Elected`). That the ranks are comparable rests on
  `LexTransitive` and on `RuneLenNat`, the sum of the lengths of the words.
- `MetadataComesFirst`: what is elected is one of the candidates (`TitleIsOneOf`,
  `ListIsOneOf`), and every reader of file names returns names that `ScoreName` takes
  for names (`CalibreTyped`, `NaturalTyped`, `DirAuthorTyped`; `SoundReading`).
- `WashingIsRight`: a credit found at an end is made of one author's words and a dash or
  "by" (`LeadingIsCredit`, `TrailingIsCredit`), and what is left is a part of the
  title with that credit and separators on one side of it and separators alone on the
  other (`WithoutCredit`). That each author washed off is one of the book
  goes through the votes by tokens (`SameTokens`: names alike have the same).
- `MergingIsRight`: `CommonIsOne`, `IndexKept`, and for the publications, `DatesFound` and
  `IssuesFound`: one publisher's dates are the distinct ones of its files, so no issue
  comes twice, and none of two publishers is the same.

- `OrderDoesNotShow`: a consolidation leaves as rows the files with the smallest path of
  each content and as duplicates the rest (`ConsolidateFiles`), whatever was a row before,
  so it describes and merges the files that the alternative does (`DescribedFiles`). What
  the order of the commits did leave a trace in is the table of authors, from which each
  file's list is read in the order of the ids: the lists of one file in two tables are
  permutations of each other (`ListReordered`), and the votes see of a list only what a
  permutation keeps, its bag of names and sums over it (`SumOfAny`, `SameRanks`,
  `SameVotes`). The washing sees the names as sets of words, and two orders of them wash
  alike unless two credits stand at one end (`CreditsFound`, `SameWash`, `DescribedAlike`).
  What is merged depends on the set of the rows, but for the order of three lists
  (`MergedAlike`).

The invariant of the steps is `BookInv`: every row and duplicate has a path of its own,
and the table of authors has every name of a row, none twice. `OrderDoesNotShow` adds
`DupsKnown`: a duplicate has the content of a row. The properties speak of
the table as it is after the consolidation, which has deleted orphaned authors and added
recovered ones; the vote read it before. `SameList` shows that a file's list reads the
same in both.

### TextDocsProofs

What is made of documents. The theorems are about the specification of `TextDocs`, in
which a PDF and a text of unknown encoding take their ways beside the other formats.

`Processes` relates the places of the PDF parser to the state of
the tool and of the feeder, `Flow` says that what went through the pipes is a prefix of
the file and of the text, `Gate` what the head gate has seen, and `Hashed` that the hash
covers the blocks read, once each and in order, whoever read them: the feeder has
stopped when the parser reads on.

The choice of an encoding leaves candidates out while it goes through the results of the
detector, with a comparison, `betterCandidate`, that is not transitive. `EncInv` says
what makes that harmless: the leader so far is the one that a choice among the
candidates kept (`Picked`) and a choice among all that fit in the part of the list
looked at (`Chosen`) would both make, so a candidate that was left out could not have led
(`DominatedLoses`). When the loop stops, at the end of the list or at the limit, the
results after it cannot contend (`SameContend`, `FittingFinite`) and leave the choice as it
is (`NoMoreChosen`), so it is that of the whole list, which `EncodingRight` states.

### ArchiveProofs

The theorems are about any tree, also an infinite one. `AboveSolves` shows first that
`Above`, a recursive function over nodes, means what its recursion says: TLA+ chooses a
function that solves the equation, and the set of nodes from which a path of members
leads down to a node is one. `Up` and `LineUp` are the facts about trees that follow.

`PlaceInv` says where the worker is: the archives on the stack lie in each other, and
the members that are left in one of them are neither around the next one nor around
the node being looked at (`Nesting`, `Clear`), so the subtrees still to be read do not
meet. `Deep` adds that the depth handed down from handler to handler is the number of
archives around the node. `ReadInv` adds that nothing in those subtrees was counted and
nothing around them given up (`Untouched`): a step counts nothing, or one node that is
clear of what is left (`CountsOne`), so it leaves the rest untouched. `CountedForGood`
follows, and `NothingParsedAgain` with `Recorded`: what the first run recorded is counted
in it. `NothingMissed` is the converse: until a cancellation every ebook is counted, in
an archive that was given up, or in one of the subtrees that are ahead; after the last
archive there is none.

### Only model-checked

- The liveness properties (`Terminates`, `ReadableReturns`, `PdfReturns`): out of the
  prover's reach.
- `DecodedRight` (`Rtf`) compares with a reading of the document that recurs over its
  nested groups. What such a definition computes for every input takes induction over
  data, and a formulation as a loop would be the decoder again.

## 7. Not modelled

- The heuristics that judge wording line by line (`parser/pdf/metadata.go`,
  `parser/textdoc/metadata.go`, `titlepage.go`, `junk.go`): their correctness is a
  matter of examples, which their tests tabulate. They keep no state.
- Language detection and ISBN checksums: pure functions, parameters of `BookMeta`.
- Search and reports: they read the database and keep no state; the full-text
  tables are filled by SQL triggers inside the transactions that write the books.
- The FTP protocol, SQLite's ranking, profiling, output layout and the FTP test
  server: I/O. Transactions nested in one another do not occur.

## 8. Plan

Done: the core (`DirWalk`, `Pipeline`, `Catalog`), the command and its history
(`ScanRun`), archives and spooling (`Archive`, `SpoolBlob`), the progress display
(`Progress`), the description of a book (`BookMeta`), the parsers with a state of
their own (`TextDocs`).

Left to model: `SearchIndex`, the full-text tables and their triggers through
consolidation, orphan deletion and Clear.

Proved: every safety property that a run checks except `DecodedRight`, for which section
6 has the reason, and the two refinements. A `SearchIndex` would need theorems of its own.
