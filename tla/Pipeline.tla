------------------------------ MODULE Pipeline ------------------------------
(***************************************************************************)
(* ScanProcessor.Process of internal/processor/scan.go: the scanner (as    *)
(* promised by Discovery) pushes what it finds into the unbounded          *)
(* resultQueue, and a pool of parse workers pops it, parses every ebook,   *)
(* also the members of archives, and commits one transaction per ebook.    *)
(* Process ends when Scan has returned and the workers have drained the    *)
(* queue; a cancellation or a worker's fatal error aborts it.              *)
(*                                                                         *)
(* A unit is one ebook: a file on disk, or a member of an archive.  What   *)
(* the parser and the transaction do with it is their outcome only; the    *)
(* rows they write are Catalog's subject.                                  *)
(***************************************************************************)
EXTENDS Naturals, Sequences, FiniteSets

CONSTANTS
  Item,      (* what the scanner reports: ebooks and archives              *)
  ArchiveItem, (* the archives among them                                  *)
  Dir, Under,  (* directories and the items in and under them: Discovery   *)
  Unit,      (* the ebooks, inside archives and outside                    *)
  Units,     (* the units of each item; an ebook is its own unit           *)
  Passed,    (* units passed over by format or size: pdfDisabled and       *)
             (* belowMinSize                                               *)
  Recorded,  (* units a previous run recorded; {} unless Resume            *)
  NetTimeouts, (* opening may time out: the root is an ftp:// URL          *)
  Workers,   (* the parse workers                                          *)
  Main       (* the goroutine that called Process                          *)

ASSUME PipelineAssumption ==
  /\ ArchiveItem \subseteq Item /\ Units \in [Item -> SUBSET Unit]
  /\ \A i \in Item \ ArchiveItem : Units[i] = {i}
  /\ \A i, j \in Item : i # j => Units[i] \cap Units[j] = {}
  /\ Unit \cap ArchiveItem = {} /\ Dir \cap (Unit \cup ArchiveItem) = {}
  /\ Passed \subseteq Unit /\ Recorded \subseteq Unit
  /\ NetTimeouts \in BOOLEAN
  /\ Workers # {} /\ Main \notin Workers

(* What Process counts: units, archives it cannot read, directories that   *)
(* cannot be listed.                                                       *)
Subject == Unit \cup ArchiveItem \cup Dir

VARIABLES
  results, unreadable, ctx, scan, (* Discovery's; ctx is Process's context *)
  cancelled, (* the caller cancelled                                       *)
  queue,     (* resultQueue.items                                          *)
  qclosed,   (* resultQueue.closed                                         *)
  pc,        (* where each worker and Main are                             *)
  item,      (* the item each worker is processing                         *)
  todo,      (* its units the worker has not reached                       *)
  unit,      (* the unit the worker is processing                          *)
  losing,    (* unreadable directories OnError is about to count           *)
  parsed, failed, skipped, (* the counters, kept per subject               *)
  rows,      (* units whose transaction committed                          *)
  fatal,     (* fatalErr                                                   *)
  outcome    (* what Process returned                                      *)

discoveryVars == <<results, unreadable, ctx, scan>>
queueVars  == <<queue, qclosed>>
workVars   == <<item, todo, unit>>
countVars  == <<parsed, failed, skipped, rows>>
vars == <<results, unreadable, ctx, scan, cancelled, queue, qclosed, pc, item,
          todo, unit, losing, parsed, failed, skipped, rows, fatal, outcome>>

Scanner == INSTANCE Discovery WITH cancelled <- ctx

Goto(w, next) == pc' = [pc EXCEPT ![w] = next]

(***************************************************************************)
(* fail and skip.  An error of a cancelled run is no failure, and neither  *)
(* is an error that is a deadline: fail returns without a trace.  Between  *)
(* that check and the counting the run may be cancelled: a worker counts   *)
(* its unit at "fail", its archive at "lose", the walk the directories     *)
(* that are losing.                                                        *)
(***************************************************************************)
(* A worker's error, with the place where it is counted and the one where  *)
(* the worker goes on.                                                     *)
Fail(w, counting, next) == Goto(w, IF ctx THEN next ELSE counting)

(* The errors of opening or listing: any, or a net timeout, of which       *)
(* errors.Is(err, context.DeadlineExceeded) holds.                         *)
FailOpening(w, counting, next) ==
  Fail(w, counting, next) \/ (NetTimeouts /\ Goto(w, next))

AddFailure(s) == failed' = [failed EXCEPT ![s] = @ + 1]

Skip(s) == skipped' = [skipped EXCEPT ![s] = @ + 1]

(***************************************************************************)
(* resultQueue, with the scanner as its only producer.                     *)
(***************************************************************************)
(* OnResult: dropped when the run is cancelled, else pushed; push signals  *)
(* one waiting worker and does nothing on a closed queue.                  *)
OnResult(i) ==
  /\ Scanner!Discover(i)
  /\ IF ctx \/ qclosed THEN UNCHANGED <<queue, pc>>
     ELSE /\ queue' = Append(queue, i)
          /\ LET waiting == {w \in Workers : pc[w] = "wait"} IN
             IF waiting = {} THEN UNCHANGED pc
             ELSE \E w \in waiting : Goto(w, "pop")
  /\ UNCHANGED <<cancelled, qclosed, workVars, losing, countVars, fatal, outcome>>

(* OnError: an unreadable directory is a failure.                          *)
OnError(d) ==
  /\ Scanner!LoseDir(d)
  /\ \/ losing' = IF ctx THEN losing ELSE losing \cup {d}
     \/ NetTimeouts /\ UNCHANGED losing
  /\ UNCHANGED <<cancelled, queueVars, pc, workVars, countVars, fatal, outcome>>

DirFailed(d) ==
  /\ d \in losing /\ losing' = losing \ {d}
  /\ AddFailure(d)
  /\ UNCHANGED <<discoveryVars, cancelled, queueVars, pc, workVars, parsed, skipped,
                 rows, fatal, outcome>>

(* Scan waits for its walkers, and a walker for OnError.                   *)
ScanReturns ==
  /\ Scanner!ScanReturns
  /\ losing = {}
  /\ UNCHANGED <<cancelled, queueVars, pc, workVars, losing, countVars, fatal, outcome>>

(***************************************************************************)
(* A parse worker.                                                         *)
(***************************************************************************)

(* newSource: a worker that cannot connect reports a fatal error, which    *)
(* cancels the run, and exits.                                             *)
Connect(w) ==
  /\ pc[w] = "connect"
  /\ \/ Goto(w, "pop") /\ UNCHANGED <<ctx, fatal>>
     \/ Goto(w, "exited") /\ fatal' = TRUE /\ ctx' = TRUE
  /\ UNCHANGED <<results, unreadable, scan, cancelled, queueVars, workVars,
                 losing, countVars, outcome>>

Pop(w) ==
  /\ pc[w] = "pop"
  /\ \/ /\ queue # <<>>
        /\ queue' = Tail(queue)
        /\ item' = [item EXCEPT ![w] = Head(queue)]
        /\ Goto(w, "popped")
     \/ /\ queue = <<>>
        /\ Goto(w, IF qclosed THEN "exited" ELSE "wait")
        /\ UNCHANGED <<queue, item>>
  /\ UNCHANGED <<discoveryVars, cancelled, qclosed, todo, unit, losing, countVars,
                 fatal, outcome>>

(* The context check after pop: a cancelled run drains the queue.          *)
Popped(w) ==
  /\ pc[w] = "popped"
  /\ IF ctx THEN Goto(w, "pop") /\ UNCHANGED todo
     ELSE Goto(w, "next") /\ todo' = [todo EXCEPT ![w] = Units[item[w]]]
  /\ UNCHANGED <<discoveryVars, cancelled, queueVars, item, unit, losing, countVars,
                 fatal, outcome>>

(* The next unit of the item, or its end: processSource is done, or the    *)
(* context check in front of every member stops it.                        *)
NextUnit(w) ==
  /\ pc[w] = "next"
  /\ IF ctx \/ todo[w] = {}
     THEN Goto(w, "pop") /\ UNCHANGED <<todo, unit>>
     ELSE \E u \in todo[w] :
            /\ todo' = [todo EXCEPT ![w] = @ \ {u}]
            /\ unit' = [unit EXCEPT ![w] = u]
            /\ Goto(w, "gate")
  /\ UNCHANGED <<discoveryVars, cancelled, queueVars, item, losing, countVars, fatal,
                 outcome>>

(* An archive that cannot be opened or read on: its failure replaces the   *)
(* units that are still to come.                                           *)
ArchiveFails(w) ==
  /\ pc[w] = "next" /\ item[w] \in ArchiveItem
  /\ FailOpening(w, "lose", "pop")
  /\ UNCHANGED <<discoveryVars, cancelled, queueVars, workVars, losing, countVars,
                 fatal, outcome>>

(* Units passed over, and in a resumed run those already recorded.  The    *)
(* lookup of shouldSkip fails, and skips nothing, once the run is          *)
(* cancelled.                                                              *)
PassOver(w) ==
  /\ pc[w] = "gate"
  /\ unit[w] \in Passed \/ (unit[w] \in Recorded /\ ~ctx)
  /\ Skip(unit[w])
  /\ Goto(w, "next")
  /\ UNCHANGED <<discoveryVars, cancelled, queueVars, workVars, losing, parsed, failed,
                 rows, fatal, outcome>>

Open(w) ==
  /\ pc[w] = "gate"
  /\ unit[w] \notin Passed /\ (unit[w] \notin Recorded \/ ctx)
  /\ \/ Goto(w, IF ctx THEN "next" ELSE "parse")
     \/ FailOpening(w, "fail", "next")
  /\ UNCHANGED <<discoveryVars, cancelled, queueVars, workVars, losing, countVars,
                 fatal, outcome>>

(* Parse returns metadata, ErrNotABook or an error; an error of a          *)
(* cancelled run is dropped before it is looked at, but the run may be     *)
(* cancelled between that check and the skip.                              *)
Parse(w) ==
  /\ pc[w] = "parse"
  /\ \/ Goto(w, "commit") /\ UNCHANGED skipped
     \/ Goto(w, "next") /\ ctx /\ UNCHANGED skipped
     \/ Goto(w, "next") /\ Skip(unit[w])
     \/ Fail(w, "fail", "next") /\ UNCHANGED skipped
  /\ UNCHANGED <<discoveryVars, cancelled, queueVars, workVars, losing, parsed, failed,
                 rows, fatal, outcome>>

(* Mutant of Commit: a failing transaction is not rolled back.             *)
CommitPartly(w) ==
  /\ pc[w] = "commit"
  /\ \/ ~ctx /\ rows' = rows \cup {unit[w]} /\ Goto(w, "count")
     \/ Fail(w, "fail", "next") /\ rows' = rows \cup {unit[w]}
  /\ UNCHANGED <<discoveryVars, cancelled, queueVars, workVars, losing, parsed, failed,
                 skipped, fatal, outcome>>

(* The transaction commits as a whole or leaves nothing; it cannot commit  *)
(* under a cancelled context.                                              *)
Commit(w) ==
  /\ pc[w] = "commit"
  /\ \/ ~ctx /\ rows' = rows \cup {unit[w]} /\ Goto(w, "count")
     \/ Fail(w, "fail", "next") /\ UNCHANGED rows
  /\ UNCHANGED <<discoveryVars, cancelled, queueVars, workVars, losing, parsed, failed,
                 skipped, fatal, outcome>>

Count(w) ==
  /\ pc[w] = "count"
  /\ parsed' = [parsed EXCEPT ![unit[w]] = @ + 1]
  /\ Goto(w, "next")
  /\ UNCHANGED <<discoveryVars, cancelled, queueVars, workVars, losing, failed, skipped,
                 rows, fatal, outcome>>

UnitFailed(w) ==
  /\ pc[w] = "fail"
  /\ AddFailure(unit[w])
  /\ Goto(w, "next")
  /\ UNCHANGED <<discoveryVars, cancelled, queueVars, workVars, losing, parsed, skipped,
                 rows, fatal, outcome>>

ArchiveFailed(w) ==
  /\ pc[w] = "lose"
  /\ AddFailure(item[w])
  /\ Goto(w, "pop")
  /\ UNCHANGED <<discoveryVars, cancelled, queueVars, workVars, losing, parsed, skipped,
                 rows, fatal, outcome>>

(***************************************************************************)
(* Process, and its caller.                                                *)
(***************************************************************************)

(* Mutants of EndQueue: always abort; close without the Broadcast.         *)
EndQueueAborts ==
  /\ pc[Main] = "scan" /\ scan # "running"
  /\ qclosed' = TRUE /\ queue' = <<>>
  /\ pc' = [g \in DOMAIN pc |-> IF g = Main THEN "join"
                                ELSE IF pc[g] = "wait" THEN "pop" ELSE pc[g]]
  /\ UNCHANGED <<discoveryVars, cancelled, workVars, losing, countVars, fatal, outcome>>

EndQueueSilent ==
  /\ pc[Main] = "scan" /\ scan # "running"
  /\ qclosed' = TRUE /\ queue' = IF ctx THEN <<>> ELSE queue
  /\ Goto(Main, "join")
  /\ UNCHANGED <<discoveryVars, cancelled, workVars, losing, countVars, fatal, outcome>>

(* Scan has returned: a cancelled run drops what is queued (abort), any    *)
(* other lets the workers drain it (close).                                *)
EndQueue ==
  /\ pc[Main] = "scan" /\ scan # "running"
  /\ qclosed' = TRUE
  /\ queue' = IF ctx THEN <<>> ELSE queue
  /\ pc' = [g \in DOMAIN pc |-> IF g = Main THEN "join"
                                ELSE IF pc[g] = "wait" THEN "pop" ELSE pc[g]]
  /\ UNCHANGED <<discoveryVars, cancelled, workVars, losing, countVars, fatal, outcome>>

(* parseWG.Wait() is over: a worker's fatal error goes first, then Scan's, *)
(* then the cancellation.  The deferred cancel ends the context.           *)
Return ==
  /\ pc[Main] = "join"
  /\ \A w \in Workers : pc[w] = "exited"
  /\ Goto(Main, "returned")
  /\ outcome' = CASE fatal           -> "fatal"
                  [] ~fatal /\ scan = "fatal" -> "scan error"
                  [] ~fatal /\ scan = "ok" /\ ctx -> "canceled"
                  [] OTHER           -> "ok"
  /\ ctx' = TRUE
  /\ UNCHANGED <<results, unreadable, scan, cancelled, queueVars, workVars, losing,
                 countVars, fatal>>

Cancel ==
  /\ ~cancelled
  /\ cancelled' = TRUE /\ ctx' = TRUE
  /\ UNCHANGED <<results, unreadable, scan, queueVars, pc, workVars, losing, countVars,
                 fatal, outcome>>

Done == pc[Main] = "returned" /\ UNCHANGED vars

----------------------------------------------------------------------------
(* What a worker holds before its first item and unit.                     *)
AnyItem == CHOOSE i \in Item : TRUE
AnyUnit == CHOOSE u \in Unit : TRUE

Init ==
  /\ results = {} /\ unreadable = {} /\ ctx = FALSE /\ scan = "running"
  /\ cancelled = FALSE
  /\ queue = <<>> /\ qclosed = FALSE
  /\ pc = [g \in Workers \cup {Main} |-> IF g = Main THEN "scan" ELSE "connect"]
  /\ item = [w \in Workers |-> AnyItem]
  /\ todo = [w \in Workers |-> {}]
  /\ unit = [w \in Workers |-> AnyUnit]
  /\ losing = {}
  /\ parsed  = [s \in Subject |-> 0]
  /\ failed  = [s \in Subject |-> 0]
  /\ skipped = [s \in Subject |-> 0]
  /\ rows = Recorded
  /\ fatal = FALSE /\ outcome = "running"

Walk ==
  \/ \E i \in Item : OnResult(i)
  \/ \E d \in Dir : OnError(d) \/ DirFailed(d)
  \/ ScanReturns

ParseEbook(w) == Parse(w) \/ Commit(w) \/ Count(w) \/ UnitFailed(w)

ProcessSource(w) ==
  \/ NextUnit(w) \/ PassOver(w) \/ Open(w) \/ ParseEbook(w)
  \/ ArchiveFails(w) \/ ArchiveFailed(w)

Worker(w) == Connect(w) \/ Pop(w) \/ Popped(w) \/ ProcessSource(w)

Process == EndQueue \/ Return

Next ==
  \/ Walk
  \/ \E w \in Workers : Worker(w)
  \/ Process
  \/ Cancel
  \/ Done

Spec == Init /\ [][Next]_vars

(* Scan returns (DirWalk!Terminates) and every goroutine is scheduled; the *)
(* caller may never cancel.                                                *)
Fairness ==
  /\ WF_vars(Walk)
  /\ \A w \in Workers : WF_vars(Worker(w))
  /\ WF_vars(Process)

FairSpec == Spec /\ Fairness

----------------------------------------------------------------------------
MainStates == {"scan", "join", "returned"}
WorkerStates == {"connect", "pop", "wait", "popped", "next", "gate", "parse", "commit", "count",
                 "fail", "lose", "exited"}

TypeOK ==
  /\ results \subseteq Item /\ unreadable \subseteq Dir /\ losing \subseteq unreadable
  /\ scan \in {"running", "ok", "fatal"}
  /\ ctx \in BOOLEAN /\ cancelled \in BOOLEAN /\ qclosed \in BOOLEAN /\ fatal \in BOOLEAN
  /\ queue \in Seq(Item)
  /\ pc \in [Workers \cup {Main} -> WorkerStates \cup MainStates]
  /\ pc[Main] \in MainStates /\ \A w \in Workers : pc[w] \in WorkerStates
  /\ item \in [Workers -> Item \cup {AnyItem}] /\ unit \in [Workers -> Unit \cup {AnyUnit}]
  /\ todo \in [Workers -> SUBSET Unit]
  /\ parsed \in [Subject -> Nat] /\ failed \in [Subject -> Nat]
  /\ skipped \in [Subject -> Nat]
  /\ rows \subseteq Unit
  /\ outcome \in {"running", "ok", "fatal", "scan error", "canceled"}

Tally(s) == parsed[s] + failed[s] + skipped[s]

(* README.md:415 defines Total as succeeded + failed + skipped: nothing is *)
(* counted twice, whichever worker meets it and however it ends; and a     *)
(* unit gets a row exactly when it counts as parsed, at once or as the     *)
(* worker's very next step, so that a resumed run takes up what failed or  *)
(* was interrupted.                                                        *)
CountedOnce ==
  /\ \A s \in Subject : Tally(s) <= 1
  /\ \A u \in Unit \ Recorded :
       u \in rows <=> \/ parsed[u] = 1
                      \/ \E w \in Workers : pc[w] = "count" /\ unit[w] = u

(* A run that ends normally has dropped nothing it was shown: each item is *)
(* under an unreadable directory, or it is an archive that failed, or all  *)
(* its units are counted; and the unreadable directories are failures.     *)
NothingDropped ==
  outcome = "ok" =>
    /\ \A i \in Item \ Scanner!Lost :
         \/ i \in ArchiveItem /\ failed[i] = 1
         \/ \A u \in Units[i] : Tally(u) = 1
    /\ \A d \in unreadable : failed[d] = 1

(* Process returns under the fairness above: no worker waits for ever on   *)
(* the queue, whoever fails or cancels, and whenever.                      *)
Terminates == <>(outcome # "running")
=============================================================================
