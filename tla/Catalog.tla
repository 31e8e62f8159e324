------------------------------ MODULE Catalog ------------------------------
(***************************************************************************)
(* The scanned content in the SQLite database, over successive runs:       *)
(* parse workers look a path up (resume), parse the file and record it in  *)
(* one transaction that finds exact duplicates and groups near duplicates  *)
(* under a book (internal/processor/scan.go); a scan that ends normally is *)
(* consolidated in one transaction (internal/report/books.go).             *)
(*                                                                         *)
(* database.Open allows one connection and a transaction holds it, so a    *)
(* transaction is one step that happens as a whole or not at all.  What a  *)
(* parser reads is a function of the content: a hash stands for it.        *)
(* Hashes and paths are numbers, in the order SQLite sorts them.           *)
(***************************************************************************)
EXTENDS Naturals, Sequences, FiniteSets

CONSTANTS
  Unit,       (* the ebooks of the scanned tree, archive members too       *)
  PathOf,     (* the display path of each of them                          *)
  Hash,       (* md.Hash: the contents                                     *)
  Skippable,  (* <<unit, content>>: what a run may pass over, as no book   *)
              (* (ErrNotABook), too small, or a PDF and there is no Poppler*)
  Author,
  AuthorsOf,  (* md.Authors of each content                                *)
  CreditsOf,  (* of those, the ones that vote: none of the placeholders    *)
              (* ("Unknown") and of the names that repeat the title        *)
  VoteKey,    (* what lists must share to vote together: the sorted names, *)
              (* "Last, First" as "First Last"                             *)
  Preferred,  (* pickAuthors' preference between lists with equal votes:   *)
              (* more authors, then more characters, then more spaces      *)
  RecoveredOf(_, _), (* the author read off the names of a book's files    *)
              (* and their duplicates, or off the directories they lie in  *)
  Subject,
  SubjectsOf, (* md.Subjects of each content, blank ones left out          *)
  KeyOf,      (* the folded form by which subjects are the same            *)
  Bands,      (* lsh.ComputeBands of each content's MinHash                *)
  Similarity, (* tools.Jaccard of two contents' MinHashes, in percent      *)
  InitDisk,   (* the content of each unit at first                         *)
  Workers,    (* the parse workers                                         *)
  NetTimeouts, (* file systems time out: context.DeadlineExceeded          *)
  MaxRuns, MaxChanges (* bounds: runs, and changes of the disk between     *)

Threshold == 75 (* lsh.MinSimilarityThreshold *)

ASSUME CatalogAssumption ==
  /\ PathOf \in [Unit -> Nat] /\ Hash \subseteq Nat /\ Skippable \subseteq Unit \X Hash
  /\ AuthorsOf \in [Hash -> Seq(Author)] /\ CreditsOf \in [Hash -> SUBSET Author]
  /\ DOMAIN VoteKey = Hash /\ Preferred \in [Hash -> Nat]
  /\ SubjectsOf \in [Hash -> Seq(Subject)] /\ DOMAIN KeyOf = Subject
  /\ DOMAIN Bands = Hash /\ Similarity \in [Hash \X Hash -> Nat]
  /\ \A g, h \in Hash : Similarity[g, h] = Similarity[h, g]
  /\ InitDisk \in [Unit -> Hash] /\ NetTimeouts \in BOOLEAN
  /\ MaxRuns \in Nat /\ MaxChanges \in Nat

VARIABLES
  disk,      (* the content of each unit                                   *)
  files,     (* book_files, by id; book_file_authors follows from the hash *)
  books,     (* books, by id, with book_authors and book_subjects          *)
  bookFiles, (* book_book_files: <<book, file>>                            *)
  authors,   (* authors: the names                                         *)
  dups,      (* book_file_duplicates: <<hash, path>>                       *)
  buckets,   (* book_file_lsh_buckets: <<band, file>>                      *)
  phase,     (* "idle", "scan" or "consolidate"                            *)
  mode,      (* "fresh" or "resume"                                        *)
  status,    (* how the last run ended                                     *)
  todo,      (* units the run has not handed to a worker                   *)
  pc, unit,  (* each parse worker's place and unit                         *)
  failed,    (* units the run counts as failed                             *)
  skipped,   (* units it passed over, other than those already recorded    *)
  dirty,     (* rows were recorded after the last consolidation            *)
  good,      (* books as the last consolidation left them                  *)
  runs, changes (* counted against MaxRuns and MaxChanges                  *)

tables  == <<files, books, bookFiles, authors, dups, buckets>>
workVars == <<todo, pc, unit, failed, skipped>>
runVars == <<phase, mode, status, runs>>
vars == <<disk, files, books, bookFiles, authors, dups, buckets, phase, mode, status,
          todo, pc, unit, failed, skipped, dirty, good, runs, changes>>

FileIds == DOMAIN files
BookIds == DOMAIN books
Elems(s) == {s[i] : i \in DOMAIN s}
FileAuthors(i) == Elems(AuthorsOf[files[i].hash])
FileSubjects(i) == SubjectsOf[files[i].hash]
FilesOf(b) == {i \in FileIds : <<b, i>> \in bookFiles}
Recorded(path) ==
  \/ \E i \in FileIds : files[i].path = path
  \/ \E d \in dups : d[2] = path

(***************************************************************************)
(* The transaction of parseEbook.                                          *)
(***************************************************************************)
Candidates(h) == {i \in FileIds : \E band \in Bands[h] : <<band, i>> \in buckets}

(* Mutant of Matches: any candidate is good enough.                        *)
MatchesAny(h) == Candidates(h)

Matches(h) ==
  {i \in Candidates(h) : Similarity[h, files[i].hash] >= Threshold}

(* The most similar ones: which one wins a tie is up to the map iteration. *)
Best(h) == {i \in Matches(h) : \A j \in Matches(h) :
              Similarity[h, files[j].hash] <= Similarity[h, files[i].hash]}

(* The content is known: ON CONFLICT(hash) DO NOTHING returns no row.      *)
RecordDuplicate(h, path) ==
  /\ \E i \in FileIds : files[i].hash = h
  /\ dups' = dups \cup {<<h, path>>}
  /\ authors' = authors \cup Elems(AuthorsOf[h])
  /\ UNCHANGED <<files, books, bookFiles, buckets>>

(* What makes an INSERT of a new file fail: the path is another content's, *)
(* or an author is listed twice.                                           *)
Violates(h, path) ==
  \/ \E i \in FileIds : files[i].path = path
  \/ \E i, j \in DOMAIN AuthorsOf[h] : i # j /\ AuthorsOf[h][i] = AuthorsOf[h][j]

JoinBook(b, h) ==
  /\ books' = [books EXCEPT ![b].authors = @ \cup Elems(AuthorsOf[h])]
  /\ bookFiles' = bookFiles \cup {<<b, Len(files) + 1>>}

CreateBook(h) ==
  /\ books' = Append(books, [authors |-> Elems(AuthorsOf[h]), subjects |-> {}])
  /\ bookFiles' = bookFiles \cup {<<Len(books) + 1, Len(files) + 1>>}

(* Mutant of RecordFile: the content of a row is inserted again.           *)
RecordFileAgain(h, path) ==
  /\ ~Violates(h, path)
  /\ files' = Append(files, [hash |-> h, path |-> path])
  /\ authors' = authors \cup Elems(AuthorsOf[h])
  /\ \/ \E i \in Best(h) : \E b \in BookIds : <<b, i>> \in bookFiles /\ JoinBook(b, h)
     \/ Matches(h) = {} /\ CreateBook(h)
  /\ buckets' = buckets \cup {<<band, Len(files) + 1>> : band \in Bands[h]}
  /\ UNCHANGED dups

RecordFile(h, path) ==
  /\ ~\E i \in FileIds : files[i].hash = h
  /\ ~Violates(h, path)
  /\ files' = Append(files, [hash |-> h, path |-> path])
  /\ authors' = authors \cup Elems(AuthorsOf[h])
  /\ \/ \E i \in Best(h) : \E b \in BookIds : <<b, i>> \in bookFiles /\ JoinBook(b, h)
     \/ Matches(h) = {} /\ CreateBook(h)
  /\ buckets' = buckets \cup {<<band, Len(files) + 1>> : band \in Bands[h]}
  /\ UNCHANGED dups

(***************************************************************************)
(* A parse worker.                                                         *)
(***************************************************************************)
Goto(w, next) == pc' = [pc EXCEPT ![w] = next]

Take(w) ==
  /\ phase = "scan" /\ pc[w] = "idle"
  /\ \E u \in todo :
       /\ todo' = todo \ {u}
       /\ unit' = [unit EXCEPT ![w] = u]
  /\ Goto(w, "lookup")
  /\ UNCHANGED <<disk, tables, runVars, failed, skipped, dirty, good, changes>>

Skip(w) ==
  /\ <<unit[w], disk[unit[w]]>> \in Skippable
  /\ skipped' = skipped \cup {unit[w]}
  /\ Goto(w, "idle")
  /\ UNCHANGED <<disk, tables, runVars, todo, unit, failed, dirty, good, changes>>

(* pdfDisabled, belowMinSize: before the database is asked.  Whether they  *)
(* hold of a unit is up to the options and the Poppler of the run.         *)
PassOver(w) == pc[w] = "lookup" /\ Skip(w)

(* shouldSkip: a resumed run passes over every recorded path.              *)
Lookup(w) ==
  /\ pc[w] = "lookup"
  /\ Goto(w, IF mode = "resume" /\ Recorded(PathOf[unit[w]]) THEN "idle" ELSE "record")
  /\ UNCHANGED <<disk, tables, runVars, todo, unit, failed, skipped, dirty, good, changes>>

(* The parser finds no book: ErrNotABook.                                  *)
NotABook(w) == pc[w] = "record" /\ Skip(w)

(* Mutant of Fail: the failure is not counted.                             *)
FailSilently(w) ==
  /\ pc[w] = "record"
  /\ Goto(w, "idle")
  /\ UNCHANGED <<disk, tables, runVars, todo, unit, failed, skipped, dirty, good, changes>>

(* Opening the unit, or the archive or the directory it lies in, parsing   *)
(* or the transaction fails, and nothing is written.  An error that is a   *)
(* timeout is dropped without being counted.                               *)
Fail(w) ==
  /\ pc[w] = "record"
  /\ \/ failed' = failed \cup {unit[w]}
     \/ NetTimeouts /\ UNCHANGED failed
  /\ Goto(w, "idle")
  /\ UNCHANGED <<disk, tables, runVars, todo, unit, skipped, dirty, good, changes>>

Record(w) ==
  /\ pc[w] = "record"
  /\ LET h == disk[unit[w]]  path == PathOf[unit[w]] IN
     RecordDuplicate(h, path) \/ RecordFile(h, path)
  /\ dirty' = TRUE
  /\ Goto(w, "idle")
  /\ UNCHANGED <<disk, runVars, todo, unit, failed, skipped, good, changes>>

(***************************************************************************)
(* report.Consolidate.                                                     *)
(***************************************************************************)
DupPaths(h) == {d[2] : d \in {e \in dups : e[1] = h}}
Smallest(h) == CHOOSE p \in DupPaths(h) : \A q \in DupPaths(h) : p <= q

(* Hashes whose canonical path is not the smallest one.                    *)
ToPromote == {i \in FileIds : LET h == files[i].hash IN
                DupPaths(h) # {} /\ Smallest(h) < files[i].path}

(* The paths of file j when canonicalizeBookFiles, which goes through the  *)
(* hashes in order, comes to file i.                                       *)
PathBefore(j, i) ==
  IF j \in ToPromote /\ files[j].hash < files[i].hash THEN Smallest(files[j].hash)
  ELSE files[j].path

PathConflict == \E i \in ToPromote : \E j \in FileIds \ {i} :
                  PathBefore(j, i) = Smallest(files[i].hash)

(* Mutant of Canonicalize: nothing is promoted.                            *)
CanonicalizeNot == UNCHANGED <<files, dups>>

Canonicalize ==
  /\ files' = [i \in FileIds |-> IF i \in ToPromote
                 THEN [files[i] EXCEPT !.path = Smallest(files[i].hash)] ELSE files[i]]
  /\ dups' = (dups \ {<<files[i].hash, Smallest(files[i].hash)>> : i \in ToPromote})
               \cup {<<files[i].hash, files[i].path>> : i \in ToPromote}

(* pickAuthors: the list most of the book's files agree on, then the       *)
(* preferred one, then the one of the first path.  The spelling is that of *)
(* the file with the first path among those that agree.                    *)
Voters(b) == {i \in FilesOf(b) : CreditsOf[files[i].hash] # {}}
Agree(i, j) == VoteKey[files[i].hash] = VoteKey[files[j].hash]
Votes(b, i) == Cardinality({j \in Voters(b) : Agree(i, j)})
Heads(b, path) == {i \in Voters(b) : \A j \in Voters(b) : Agree(i, j) => path[i] <= path[j]}

Wins(b, i, j, path) ==
  \/ Votes(b, i) > Votes(b, j)
  \/ /\ Votes(b, i) = Votes(b, j)
     /\ \/ Preferred[files[i].hash] > Preferred[files[j].hash]
        \/ /\ Preferred[files[i].hash] = Preferred[files[j].hash]
           /\ path[i] <= path[j]

Winner(b, path) ==
  CHOOSE i \in Heads(b, path) : \A j \in Heads(b, path) : Wins(b, i, j, path)

(* Without a vote the author is read off the paths (b.files: the book's    *)
(* own, then those of the duplicates), if one tells.                       *)
Recover(b, path, copies) ==
  Author \cap RecoveredOf({<<path[i], files[i].hash>> : i \in FilesOf(b)},
                          {d \in copies : \E i \in FilesOf(b) : files[i].hash = d[1]})

PickAuthors(b, path, copies) ==
  IF Voters(b) = {} THEN Recover(b, path, copies) ELSE CreditsOf[files[Winner(b, path)].hash]

(* mergeSubjects: of each subject the first spelling in the order of the   *)
(* query, by file id and by place in the file.                             *)
MergeSubjects(b) ==
  {s \in Subject : \E i \in FilesOf(b) : \E k \in DOMAIN FileSubjects(i) :
     /\ s = FileSubjects(i)[k]
     /\ \A j \in FilesOf(b) : \A l \in DOMAIN FileSubjects(j) :
          KeyOf[FileSubjects(j)[l]] = KeyOf[s] => i < j \/ (i = j /\ k <= l)}

Persist(path, copies) ==
  books' = [b \in BookIds |-> [authors  |-> PickAuthors(b, path, copies),
                               subjects |-> MergeSubjects(b)]]

(* DeleteOrphanAuthors, over the authors of the books just picked.         *)
KeepAuthors ==
  authors' = {a \in authors \cup UNION {books'[b].authors : b \in BookIds} :
                \/ \E b \in BookIds : a \in books'[b].authors
                \/ \E i \in FileIds : a \in FileAuthors(i)}

(* Mutant of Consolidate: the books are described before the promotions.   *)
ConsolidateOldPaths ==
  /\ phase = "consolidate" /\ ~PathConflict
  /\ Canonicalize
  /\ Persist([i \in FileIds |-> files[i].path], dups)
  /\ KeepAuthors
  /\ UNCHANGED <<bookFiles, buckets>>
  /\ phase' = "idle" /\ status' = "ok"
  /\ dirty' = FALSE /\ good' = books'
  /\ UNCHANGED <<disk, mode, runs, workVars, changes>>

Consolidate ==
  /\ phase = "consolidate" /\ ~PathConflict
  /\ Canonicalize
  /\ Persist([i \in FileIds |-> files'[i].path], dups')
  /\ KeepAuthors
  /\ UNCHANGED <<bookFiles, buckets>>
  /\ phase' = "idle" /\ status' = "ok"
  /\ dirty' = FALSE /\ good' = books'
  /\ UNCHANGED <<disk, mode, runs, workVars, changes>>

(* The transaction is rolled back, and the scan fails.                     *)
ConsolidateFails ==
  /\ phase = "consolidate"
  /\ phase' = "idle" /\ status' = "failed"
  /\ UNCHANGED <<disk, tables, mode, runs, workVars, dirty, good, changes>>

(***************************************************************************)
(* The run.                                                                *)
(***************************************************************************)
Begin(m) ==
  /\ phase = "idle" /\ runs < MaxRuns
  /\ phase' = "scan" /\ mode' = m /\ runs' = runs + 1
  /\ todo' = Unit /\ failed' = {} /\ skipped' = {}
  /\ pc' = [w \in Workers |-> "idle"]
  /\ UNCHANGED <<disk, status, unit, changes>>

(* database.Clear comes first.                                             *)
BeginFresh ==
  /\ Begin("fresh")
  /\ files' = <<>> /\ books' = <<>> /\ bookFiles' = {} /\ authors' = {}
  /\ dups' = {} /\ buckets' = {}
  /\ dirty' = FALSE /\ good' = <<>>

BeginResume ==
  /\ Begin("resume")
  /\ UNCHANGED <<tables, dirty, good>>

(* Process returns: the workers are done.                                  *)
EndScan ==
  /\ phase = "scan" /\ todo = {} /\ \A w \in Workers : pc[w] = "idle"
  /\ phase' = "consolidate"
  /\ UNCHANGED <<disk, tables, mode, status, runs, workVars, dirty, good, changes>>

(* Ctrl-C or a crash, in the scan or before the consolidation commits:     *)
(* what the workers hold is lost, what was committed stays.                *)
Interrupt ==
  /\ phase \in {"scan", "consolidate"}
  /\ phase' = "idle" /\ status' \in {"canceled", "crashed"}
  /\ pc' = [w \in Workers |-> "idle"]
  /\ UNCHANGED <<disk, tables, mode, runs, todo, unit, failed, skipped, dirty, good, changes>>

(* Between two runs a file's content changes.                              *)
ChangeFile ==
  /\ phase = "idle" /\ changes < MaxChanges /\ runs \in 1..(MaxRuns - 1)
  /\ \E u \in Unit, h \in Hash : disk[u] # h /\ disk' = [disk EXCEPT ![u] = h]
  /\ changes' = changes + 1
  /\ UNCHANGED <<tables, runVars, workVars, dirty, good>>

Done == phase = "idle" /\ runs = MaxRuns /\ UNCHANGED vars

----------------------------------------------------------------------------
(* What a worker holds before its first unit.                              *)
AnyUnit == CHOOSE u \in Unit : TRUE

Init ==
  /\ disk = InitDisk
  /\ files = <<>> /\ books = <<>> /\ bookFiles = {} /\ authors = {} /\ dups = {}
  /\ buckets = {}
  /\ phase = "idle" /\ mode = "fresh" /\ status = "none"
  /\ todo = {} /\ pc = [w \in Workers |-> "idle"]
  /\ unit = [w \in Workers |-> AnyUnit] /\ failed = {} /\ skipped = {}
  /\ dirty = FALSE /\ good = <<>> /\ runs = 0 /\ changes = 0

Work(w) == Take(w) \/ PassOver(w) \/ Lookup(w) \/ NotABook(w) \/ Fail(w) \/ Record(w)

Next ==
  \/ BeginFresh \/ BeginResume
  \/ \E w \in Workers : Work(w)
  \/ EndScan \/ Consolidate \/ ConsolidateFails \/ Interrupt
  \/ ChangeFile \/ Done

Spec == Init /\ [][Next]_vars

----------------------------------------------------------------------------
TypeOK ==
  /\ disk \in [Unit -> Hash]
  /\ files \in Seq([hash : Hash, path : Nat])
  /\ books \in Seq([authors : SUBSET Author, subjects : SUBSET Subject])
  /\ bookFiles \subseteq BookIds \X FileIds
  /\ authors \subseteq Author /\ dups \subseteq Hash \X Nat
  /\ \A e \in buckets : e[2] \in FileIds
  /\ phase \in {"idle", "scan", "consolidate"} /\ mode \in {"fresh", "resume"}
  /\ status \in {"none", "ok", "failed", "canceled", "crashed"}
  /\ todo \subseteq Unit /\ failed \subseteq Unit /\ skipped \subseteq Unit
  /\ pc \in [Workers -> {"idle", "lookup", "record"}] /\ unit \in [Workers -> Unit \cup {AnyUnit}]
  /\ dirty \in BOOLEAN
  /\ runs \in 0..MaxRuns /\ changes \in 0..MaxChanges

(* Exact duplicates never get a row of their own and a recorded duplicate  *)
(* has the row it duplicates; with distinct display paths a path is        *)
(* recorded once, as that of a file or of a duplicate, also when the       *)
(* content changed between runs, and through every promotion.              *)
RecordedOnce ==
  /\ \A i, j \in FileIds : files[i].hash = files[j].hash \/ files[i].path = files[j].path => i = j
  /\ \A d \in dups : \E i \in FileIds : files[i].hash = d[1]
  /\ \A d, e \in dups : d[2] = e[2] => d = e
  /\ \A i \in FileIds, d \in dups : files[i].path # d[2]

(* README.md:549: "Every file belongs to exactly one book", and shares it  *)
(* only with files it was found similar to: a book grows from its first    *)
(* file by matches above the threshold, in whatever order transactions     *)
(* commit and runs break off.                                              *)
GroupsAreSimilar ==
  /\ \A i \in FileIds : \E b \in BookIds :
       \A c \in BookIds : <<c, i>> \in bookFiles <=> c = b
  /\ \A b \in BookIds :
       /\ FilesOf(b) # {}
       /\ \A i \in FilesOf(b) :
            \/ \A j \in FilesOf(b) : i <= j
            \/ \E j \in FilesOf(b) :
                 j < i /\ Similarity[files[i].hash, files[j].hash] >= Threshold

(* A run that ends well has lost no file of the tree, whatever earlier     *)
(* runs were interrupted: each is recorded, or counted as a failure, or    *)
(* one that is passed over.  A timeout of the file system (NetTimeouts)    *)
(* loses the unit it befalls, see Pipeline's NothingDropped.               *)
NothingLost ==
  phase = "idle" /\ status = "ok" =>
    \A u \in Unit \ (failed \cup skipped) : Recorded(PathOf[u])

(* After a consolidation the canonical path of every content is the        *)
(* smallest of its paths, whichever was scanned first.                     *)
CanonicalIsSmallest ==
  phase = "idle" /\ status = "ok" =>
    \A i \in FileIds, d \in dups : d[1] = files[i].hash => files[i].path <= d[2]

(* books.go:61: "The pass is idempotent".  A consolidation with nothing    *)
(* recorded since the last one changes no table.                           *)
Idempotent == [][Consolidate /\ ~dirty /\ good # <<>> => UNCHANGED tables]_vars

(* canonicalizeBookFiles can always promote: with distinct display paths   *)
(* no UPDATE of a path meets a row that has it already.                    *)
PromotionPossible == phase = "consolidate" => ~PathConflict
=============================================================================
