------------------------------ MODULE Archive ------------------------------
(***************************************************************************)
(* internal/processor/archive.go: processArchive unpacks an archive the    *)
(* scanner found, the archives in it, and so on up to MaxDepth levels, and *)
(* parses every ebook on the way.  Each container format has a handler of  *)
(* its own, with gates of its own, and may break at a place of its own.    *)
(* A later run resumes: it goes by the display paths recorded so far.      *)
(*                                                                         *)
(* The unpacking of one archive is sequential; what interferes is the      *)
(* cancellation of the run.  The members have contents of their own: what  *)
(* exact duplicates do to the tables is Catalog's subject.                 *)
(***************************************************************************)
EXTENDS Integers, Sequences, FiniteSets, Functions

CONSTANTS
  Node,     (* archives and their members, at every level                  *)
  Tops,     (* the archives the scanner may report                         *)
  Format,   (* FormatOf of a name, "none" if it is not known               *)
  Members,  (* what an archive holds, in order                             *)
  Name,     (* the name of a member in its archive, or of a top on disk    *)
  Stem,     (* dropSuffix: a name without its last extension               *)
  Small,    (* ebooks whose announced size is below their format's minimum *)
  MaxDepth, (* --archive-depth                                             *)
  MaxRuns   (* bound: runs, the first of which is fresh                    *)

Listed    == {"zip"}                 (* its members are listed first       *)
Streamed  == {"tar", "tgz", "tbz2"}  (* read header by header              *)
Extracted == {"rar", "7z"}           (* walked by the archives library     *)
Single    == {"gz", "bz2"}           (* one member, without a name         *)
Containers == Listed \cup Streamed \cup Extracted \cup Single
Ebooks    == {"epub", "txt", "pdf"}

(* Those whose handler can fail before it sees a member: zip.NewReader,    *)
(* gzip.NewReader, and the spool that zip and 7z need for random access.   *)
CheckedFirst == {"zip", "tgz", "gz", "7z"}

ASSUME ArchiveAssumption ==
  /\ Format \in [Node -> Containers \cup Ebooks \cup {"none"}]
  /\ Members \in [Node -> Seq(Node)]
  /\ \A n \in Node : Format[n] \notin Containers => Members[n] = <<>>
  /\ \A n \in Node : Format[n] \in Single => Len(Members[n]) = 1
  /\ Tops \subseteq {n \in Node : Format[n] \in Containers} /\ Small \subseteq Node
  /\ MaxDepth \in Nat /\ MaxRuns \in Nat \ {0}

Archives == {n \in Node : Format[n] \in Containers}

(* The tree, seen from below.                                              *)
Parent == [n \in Node \ Tops |-> CHOOSE a \in Node : n \in Range(Members[a])]
Above[n \in Node] == IF n \in Tops THEN {} ELSE {Parent[n]} \cup Above[Parent[n]]

(* The user-facing path, as a sequence of names: archive!member, but the   *)
(* content of x.epub.gz goes by the name x.epub.                           *)
Display[n \in Node] ==
  IF n \in Tops THEN <<Name[n]>>
  ELSE LET up == Display[Parent[n]] IN
       IF Format[Parent[n]] \in Single THEN [up EXCEPT ![Len(up)] = Stem[@]]
       ELSE Append(up, Name[n])

VARIABLES
  top,      (* the archive this behaviour is about                         *)
  pc,       (* where the worker is                                         *)
  stack,    (* the archives being walked: [node, depth, left]              *)
  at, depth, (* the node being looked at, and its nesting depth            *)
  ctx,      (* the run is cancelled                                        *)
  found, parsed, failed, skipped, (* the counters of this run, per node    *)
  poppler,  (* PDFTools.Available(), which may change between runs         *)
  recorded, (* the nodes whose transaction committed, in any run           *)
  run       (* how many runs there were                                    *)

counters == <<found, parsed, failed, skipped>>
vars == <<top, pc, stack, at, depth, ctx, counters, poppler, recorded, run>>

Zero  == [n \in Node |-> 0]
Frame == stack[Len(stack)]
Pop   == SubSeq(stack, 1, Len(stack) - 1)

Fail(n) == failed' = IF ctx THEN failed ELSE [failed EXCEPT ![n] = @ + 1]
Skip(n) == skipped' = [skipped EXCEPT ![n] = @ + 1]

(* shouldSkip: only in a resumed run, by path, and not once the lookup     *)
(* fails because the run is cancelled.                                     *)
Skippable(n) == run > 1 /\ ~ctx /\ \E m \in recorded : Display[m] = Display[n]

(* An archive is given up: its caller goes on.                             *)
GiveUp(n) ==
  /\ Fail(n) /\ pc' = "next"
  /\ UNCHANGED <<stack, at, depth, found, skipped>>

(* An ebook has passed the gates: found, and on its way to the parser.     *)
Accept(n) ==
  /\ found' = [found EXCEPT ![n] = @ + 1]
  /\ at' = n /\ pc' = "parse"

----------------------------------------------------------------------------
(* processArchive: the file is opened, or not.                             *)
Open ==
  /\ pc = "idle"
  /\ \/ pc' = (IF ctx THEN "next" ELSE "enter") /\ UNCHANGED failed
     \/ pc' = "next" /\ Fail(top)
  /\ at' = top /\ depth' = 0
  /\ UNCHANGED <<top, stack, ctx, found, parsed, skipped, poppler, recorded, run>>

(***************************************************************************)
(* processArchiveStream.                                                   *)
(***************************************************************************)
(* Mutant of TooDeep: one level too many.                                  *)
TooDeepByOne == depth > MaxDepth

TooDeep == depth >= MaxDepth

(* Mutant of Refuse: no return after the failure.                          *)
RefuseAndWalk ==
  /\ pc = "enter" /\ (TooDeep \/ Format[at] \in CheckedFirst)
  /\ Fail(at) /\ pc' = "next"
  /\ stack' = Append(stack, [node |-> at, depth |-> depth, left |-> Members[at]])
  /\ UNCHANGED <<top, at, depth, ctx, found, parsed, skipped, poppler, recorded, run>>

Refuse ==
  /\ pc = "enter" /\ (TooDeep \/ Format[at] \in CheckedFirst)
  /\ GiveUp(at)
  /\ UNCHANGED <<top, ctx, parsed, poppler, recorded, run>>

Walk ==
  /\ pc = "enter" /\ ~TooDeep /\ Format[at] \notin Single
  /\ stack' = Append(stack, [node |-> at, depth |-> depth, left |-> Members[at]])
  /\ pc' = "next"
  /\ UNCHANGED <<top, at, depth, ctx, counters, poppler, recorded, run>>

(* processSingleStream: a level of its own; its ebook meets one gate only. *)
Decompress ==
  /\ pc = "enter" /\ ~TooDeep /\ Format[at] \in Single
  /\ depth' = depth + 1
  /\ LET n == Members[at][1] IN
       \/ Format[n] = "none" /\ pc' = "next" /\ UNCHANGED <<at, found, skipped>>
       \/ n \in Archives /\ at' = n /\ pc' = "enter" /\ UNCHANGED <<found, skipped>>
       \/ /\ Format[n] \in Ebooks
          /\ IF Skippable(n) THEN Skip(n) /\ pc' = "next" /\ UNCHANGED <<at, found>>
             ELSE Accept(n) /\ UNCHANGED skipped
  /\ UNCHANGED <<top, stack, ctx, parsed, failed, poppler, recorded, run>>

(***************************************************************************)
(* The loops over the members.                                             *)
(***************************************************************************)
(* Mutant of Broken: a truncated archive ends like a whole one.            *)
BrokenSilently ==
  /\ pc = "next" /\ stack # <<>> /\ Format[Frame.node] \in Streamed \cup Extracted
  /\ stack' = Pop
  /\ UNCHANGED <<top, pc, at, depth, ctx, counters, poppler, recorded, run>>

(* The next header cannot be read, or Extract returns an error: members    *)
(* that were processed stay counted, and the archive is a failure.         *)
Broken ==
  /\ pc = "next" /\ stack # <<>> /\ Format[Frame.node] \in Streamed \cup Extracted
  /\ Fail(Frame.node)
  /\ stack' = Pop
  /\ UNCHANGED <<top, pc, at, depth, ctx, found, parsed, skipped, poppler, recorded, run>>

(* Its end, or a cancellation (SkipAll for the archives library).          *)
EndArchive ==
  /\ pc = "next" /\ stack # <<>> /\ (Frame.left = <<>> \/ ctx)
  /\ stack' = Pop
  /\ UNCHANGED <<top, pc, at, depth, ctx, counters, poppler, recorded, run>>

(* The next member.  zip, rar and 7z ask shouldSkip before they open it,   *)
(* also for a member that is an archive; a tar member is already open.     *)
NextMember ==
  /\ pc = "next" /\ stack # <<>> /\ ~ctx /\ Frame.left # <<>>
  /\ stack' = [stack EXCEPT ![Len(stack)].left = Tail(@)]
  /\ at' = Head(Frame.left) /\ depth' = Frame.depth + 1
  /\ LET n == Head(Frame.left)
         asks == Format[n] # "none" /\ Format[Frame.node] \notin Streamed IN
       \/ asks /\ Skippable(n) /\ Skip(n) /\ pc' = "next" /\ UNCHANGED failed
       \/ asks /\ ~Skippable(n) /\ Fail(n) /\ pc' = "next" /\ UNCHANGED skipped
       \/ ~(asks /\ Skippable(n)) /\ pc' = "member" /\ UNCHANGED <<failed, skipped>>
  /\ UNCHANGED <<top, ctx, found, parsed, poppler, recorded, run>>

(***************************************************************************)
(* handleMember.                                                           *)
(***************************************************************************)
PassedOver(n) == (Format[n] = "pdf" /\ ~poppler) \/ n \in Small

(* Mutant of Member: an ebook is not looked up before it is parsed.        *)
MemberAnew ==
  /\ pc = "member"
  /\ \/ Format[at] = "none" /\ pc' = "next" /\ UNCHANGED <<at, found, skipped>>
     \/ at \in Archives /\ pc' = "enter" /\ UNCHANGED <<at, found, skipped>>
     \/ /\ Format[at] \in Ebooks
        /\ IF PassedOver(at)
           THEN Skip(at) /\ pc' = "next" /\ UNCHANGED <<at, found>>
           ELSE Accept(at) /\ UNCHANGED skipped
  /\ UNCHANGED <<top, stack, depth, ctx, parsed, failed, poppler, recorded, run>>

Member ==
  /\ pc = "member"
  /\ \/ Format[at] = "none" /\ pc' = "next" /\ UNCHANGED <<at, found, skipped>>
     \/ at \in Archives /\ pc' = "enter" /\ UNCHANGED <<at, found, skipped>>
     \/ /\ Format[at] \in Ebooks
        /\ IF PassedOver(at) \/ Skippable(at)
           THEN Skip(at) /\ pc' = "next" /\ UNCHANGED <<at, found>>
           ELSE Accept(at) /\ UNCHANGED skipped
  /\ UNCHANGED <<top, stack, depth, ctx, parsed, failed, poppler, recorded, run>>

(***************************************************************************)
(* parseEbookStream and parseEbook.  What was to be passed over and got    *)
(* here cannot become a book.                                              *)
(***************************************************************************)
Parse ==
  /\ pc = "parse"
  /\ \/ pc' = "commit" /\ ~PassedOver(at) /\ UNCHANGED <<failed, skipped>>
     \/ pc' = "next" /\ ctx /\ UNCHANGED <<failed, skipped>>
     \/ pc' = "next" /\ ~ctx /\ Skip(at) /\ UNCHANGED failed
     \/ pc' = "next" /\ ~ctx /\ Fail(at) /\ UNCHANGED skipped
  /\ UNCHANGED <<top, stack, at, depth, ctx, found, parsed, poppler, recorded, run>>

(* The transaction: a path of another content cannot be recorded again.    *)
Commit ==
  /\ pc = "commit" /\ pc' = "next"
  /\ \/ /\ ~ctx /\ \A m \in recorded : Display[m] # Display[at]
        /\ recorded' = recorded \cup {at}
        /\ parsed' = [parsed EXCEPT ![at] = @ + 1] /\ UNCHANGED failed
     \/ Fail(at) /\ UNCHANGED <<recorded, parsed>>
  /\ UNCHANGED <<top, stack, at, depth, ctx, found, skipped, poppler, run>>

----------------------------------------------------------------------------
Return ==
  /\ pc = "next" /\ stack = <<>>
  /\ pc' = "returned"
  /\ UNCHANGED <<top, stack, at, depth, ctx, counters, poppler, recorded, run>>

Cancel ==
  /\ ~ctx /\ pc # "returned"
  /\ ctx' = TRUE
  /\ UNCHANGED <<top, pc, stack, at, depth, counters, poppler, recorded, run>>

(* The next run, whether this one returned or its process died.            *)
Resume ==
  /\ run < MaxRuns
  /\ run' = run + 1
  /\ pc' = "idle" /\ stack' = <<>> /\ ctx' = FALSE
  /\ found' = Zero /\ parsed' = Zero /\ failed' = Zero /\ skipped' = Zero
  /\ poppler' \in BOOLEAN
  /\ UNCHANGED <<top, at, depth, recorded>>

Done == pc = "returned" /\ run = MaxRuns /\ UNCHANGED vars

Init ==
  /\ top \in Tops /\ pc = "idle" /\ stack = <<>> /\ at = top /\ depth = 0
  /\ ctx = FALSE /\ poppler \in BOOLEAN /\ recorded = {} /\ run = 1
  /\ found = Zero /\ parsed = Zero /\ failed = Zero /\ skipped = Zero

Next ==
  \/ Open \/ Refuse \/ Walk \/ Decompress
  \/ Broken \/ EndArchive \/ NextMember
  \/ Member \/ Parse \/ Commit
  \/ Return \/ Cancel \/ Resume \/ Done

Spec == Init /\ [][Next]_vars

----------------------------------------------------------------------------
Settled(n) == parsed[n] + failed[n] + skipped[n]

TypeOK ==
  /\ top \in Tops /\ at \in Node /\ depth \in Nat
  /\ pc \in {"idle", "enter", "next", "member", "parse", "commit", "returned"}
  /\ stack \in Seq([node : Archives, depth : Nat, left : Seq(Node)])
  /\ {found, parsed, failed, skipped} \subseteq [Node -> 0..1]
  /\ {ctx, poppler} \subseteq BOOLEAN /\ recorded \subseteq Node /\ run \in 1..MaxRuns

(* README.md:206-211: nothing is parsed that lies in more archives than    *)
(* MaxDepth, where a compressed file counts as one, and an ebook in an     *)
(* archive is at depth 1.                                                  *)
WithinDepth == \A n \in recorded : Cardinality(Above[n]) \in 1..MaxDepth

(* When the archive is done and was not interrupted, every ebook at every  *)
(* level was counted, or lies in an archive that was.                      *)
Accounted ==
  pc = "returned" /\ ~ctx =>
    \A n \in Node : Format[n] \in Ebooks /\ top \in Above[n] =>
      Settled(n) = 1 \/ \E a \in Above[n] : failed[a] = 1

(* What is counted is counted once, by one counter, and an archive that    *)
(* was given up is not read on: nothing in it is counted any more.         *)
SettledForGood ==
  [][run' = run => \A n \in Node :
       /\ Settled(n)' <= 1
       /\ (\E a \in Above[n] : failed[a] = 1) => Settled(n)' = Settled(n)]_vars

(* A resumed run, wherever the ones before it were cut off, parses nothing *)
(* that is recorded: neither a member of a container that is read again    *)
(* nor one that another handler reaches.                                   *)
ResumesAtTheGap ==
  [][\A n \in recorded : ~ctx => found'[n] <= found[n] \/ run' # run]_vars
=============================================================================
