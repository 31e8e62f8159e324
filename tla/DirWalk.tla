------------------------------ MODULE DirWalk ------------------------------
(***************************************************************************)
(* The concurrent directory walk of internal/scanner/scanner.go:           *)
(* Scanner.Scan starts a fixed pool of walkers that share an unbounded     *)
(* dirQueue.  A walker is consumer and producer at once: it pops a         *)
(* directory, lists it, reports its files and dispatches its               *)
(* subdirectories to the same queue.  The atomic counter `remaining`       *)
(* detects the end of the walk, and a goroutine of its own closes the      *)
(* queue when the context is cancelled.                                    *)
(*                                                                         *)
(* One action is one step between two synchronisation points of the code:  *)
(* a locked section of dirQueue, an atomic Add, a context check, a call of *)
(* the source.  A directory's entries are handled one by one in any order, *)
(* as a listing is unsorted.                                               *)
(***************************************************************************)
EXTENDS Naturals, Sequences, FiniteSets

CONSTANTS
  Dirs,      (* the directories of the scanned tree                        *)
  Root,      (* the directory Scan is called with                          *)
  Children,  (* the subdirectories of each directory                       *)
  File,      (* the files of the tree                                      *)
  Contents,  (* the files of each directory                                *)
  Ebook,     (* the files whose format FormatOf classifies as an ebook     *)
  Archive,   (* the files whose format FormatOf classifies as an archive   *)
  Walkers,   (* the walker goroutines                                      *)
  Main,      (* the goroutine that called Scan                             *)
  Closer,    (* the goroutine that waits for ctx.Done()                    *)
  NoDir      (* dir[w] of a walker that holds no directory                 *)

ASSUME DirsAssumption ==
  /\ IsFiniteSet(Dirs) /\ Root \in Dirs /\ NoDir \notin Dirs
  /\ Children \in [Dirs -> SUBSET Dirs]
  /\ IsFiniteSet(File) /\ Dirs \cap File = {}
  /\ Contents \in [Dirs -> SUBSET File]
  /\ Ebook \subseteq File /\ Archive \subseteq File /\ Ebook \cap Archive = {}

(* Scanner.Scan gets at least one worker; the goroutines are distinct.     *)
ASSUME WalkersAssumption ==
  /\ IsFiniteSet(Walkers) /\ Walkers # {}
  /\ Main \notin Walkers /\ Closer \notin Walkers /\ Main # Closer

VARIABLES
  items,      (* dirQueue.items                                            *)
  closed,     (* dirQueue.closed                                           *)
  remaining,  (* directories dispatched and not finished                   *)
  cancelled,  (* the caller's context is done                              *)
  ctx,        (* the context Scan derives from it is done                  *)
  fatal,      (* Scan has a fatal error to return                          *)
  pc,         (* where each goroutine is                                   *)
  dir,        (* the directory each walker popped                          *)
  left,       (* the entries of it the walker has not handled yet          *)
  sub,        (* the directory each goroutine is dispatching               *)
  snap,       (* the counters a walker loaded for its report               *)
  visited,    (* the directories scanDir was called on                     *)
  unreadable, (* those whose listing failed: onError was called            *)
  seen,       (* the files whose entry was handled: onFile was called      *)
  results,    (* the files reported through onResult                       *)
  progress    (* ScanProcessor.lastScan, set by the onReport callback      *)

queueVars   == <<items, closed>>
ctxVars     == <<cancelled, ctx, fatal>>
walkVars    == <<dir, left, sub, snap>>
reportVars  == <<visited, unreadable, seen, results, progress>>
vars == <<items, closed, remaining, cancelled, ctx, fatal, pc, dir, left, sub,
          snap, visited, unreadable, seen, results, progress>>

Dispatchers == Walkers \cup {Main}
Supported   == Ebook \cup Archive

(* The counters s.dirs, s.files and s.found as Scanner.progress loads      *)
(* them: each is the number of directories, files and ebooks met so far.   *)
Counters == [dirs  |-> Cardinality(visited),
             files |-> Cardinality(seen),
             found |-> Cardinality(results \cap Ebook)]

NoCounters == [dirs |-> 0, files |-> 0, found |-> 0]

(***************************************************************************)
(* dirQueue.  A goroutine blocked in cond.Wait is at "wait"; waking it     *)
(* sends it back to "pop", where it tests the loop condition again.        *)
(***************************************************************************)

(* Mutant of WakeAll: close without the Broadcast.                         *)
WakeNobody(p, next) == pc' = [pc EXCEPT ![p] = next]

(* cond.Broadcast, called by p, which continues at `next`.                 *)
WakeAll(p, next) ==
  pc' = [g \in DOMAIN pc |-> IF g = p THEN next
                             ELSE IF pc[g] = "wait" THEN "pop" ELSE pc[g]]

(* cond.Signal: at most one waiter wakes up, and one does if any waits.    *)
WakeOne(p, next) ==
  LET waiting == {g \in Walkers : pc[g] = "wait"} IN
  IF waiting = {} THEN pc' = [pc EXCEPT ![p] = next]
  ELSE \E g \in waiting : pc' = [pc EXCEPT ![p] = next, ![g] = "pop"]

(* push never tests closed: a directory pushed late stays in the queue.    *)
Enqueue(p, d, next) ==
  /\ items' = Append(items, d)
  /\ WakeOne(p, next)
  /\ UNCHANGED closed

CloseQueue(p, next) ==
  /\ closed' = TRUE
  /\ WakeAll(p, next)
  /\ UNCHANGED items

(* Mutant of Pop: the popped directory stays at the head of the queue.     *)
PopKeepsItem(w) ==
  /\ pc[w] = "pop" /\ items # <<>>
  /\ dir' = [dir EXCEPT ![w] = Head(items)]
  /\ pc' = [pc EXCEPT ![w] = "popped"]
  /\ UNCHANGED <<items, closed, remaining, left, sub, snap, ctxVars, reportVars>>

(* pop: an item, the end of a closed and drained queue, or a wait.         *)
Pop(w) ==
  /\ pc[w] = "pop"
  /\ \/ /\ items # <<>>
        /\ dir' = [dir EXCEPT ![w] = Head(items)]
        /\ items' = Tail(items)
        /\ pc' = [pc EXCEPT ![w] = "popped"]
     \/ /\ items = <<>> /\ closed
        /\ pc' = [pc EXCEPT ![w] = "exited"]
        /\ UNCHANGED <<items, dir>>
     \/ /\ items = <<>> /\ ~closed
        /\ pc' = [pc EXCEPT ![w] = "wait"]
        /\ UNCHANGED <<items, dir>>
  /\ UNCHANGED <<closed, remaining, left, sub, snap, ctxVars, reportVars>>

(***************************************************************************)
(* dispatch: skip when the context is done, else count the directory and   *)
(* only then queue it.  Walkers return to their entries, Main waits.       *)
(***************************************************************************)
AfterDispatch(p) == IF p = Main THEN "join" ELSE "entries"

DispatchCheck(p) ==
  /\ pc[p] = "check"
  /\ pc' = [pc EXCEPT ![p] = IF ctx THEN AfterDispatch(p) ELSE "add"]
  /\ UNCHANGED <<remaining, queueVars, ctxVars, walkVars, reportVars>>

(* Mutant of DispatchAdd: the directory is queued but not counted.         *)
DispatchUncounted(p) ==
  /\ pc[p] = "add"
  /\ pc' = [pc EXCEPT ![p] = "push"]
  /\ UNCHANGED <<remaining, queueVars, ctxVars, walkVars, reportVars>>

DispatchAdd(p) ==
  /\ pc[p] = "add"
  /\ remaining' = remaining + 1
  /\ pc' = [pc EXCEPT ![p] = "push"]
  /\ UNCHANGED <<queueVars, ctxVars, walkVars, reportVars>>

DispatchPush(p) ==
  /\ pc[p] = "push"
  /\ Enqueue(p, sub[p], AfterDispatch(p))
  /\ UNCHANGED <<remaining, ctxVars, walkVars, reportVars>>

(***************************************************************************)
(* A walker: connect, then pop and scan directories until the queue ends.  *)
(***************************************************************************)

(* Mutant of Connect: one that cannot connect leaves it to the others.     *)
ConnectQuietly(w) ==
  /\ pc[w] = "connect"
  /\ pc' \in {[pc EXCEPT ![w] = step] : step \in {"pop", "exited"}}
  /\ UNCHANGED <<remaining, cancelled, ctx, fatal, queueVars, walkVars, reportVars>>

(* SourceFactory: a walker that cannot connect (FTP) reports a fatal error *)
Connect(w) ==
  /\ pc[w] = "connect"
  /\ \/ /\ pc' = [pc EXCEPT ![w] = "pop"]
        /\ UNCHANGED fatal
     \/ /\ fatal' = TRUE
        /\ pc' = [pc EXCEPT ![w] = "cancel"]
  /\ UNCHANGED <<remaining, cancelled, ctx, queueVars, walkVars, reportVars>>

(* ... and cancels the walk before it exits.                               *)
CancelWalk(w) ==
  /\ pc[w] = "cancel"
  /\ ctx' = TRUE
  /\ pc' = [pc EXCEPT ![w] = "exited"]
  /\ UNCHANGED <<remaining, cancelled, fatal, queueVars, walkVars, reportVars>>

(* Mutant of Popped: the drained directory is not counted off.             *)
PoppedUncounted(w) ==
  /\ pc[w] = "popped"
  /\ pc' = [pc EXCEPT ![w] = IF ctx THEN "pop" ELSE "list"]
  /\ UNCHANGED <<remaining, queueVars, ctxVars, walkVars, reportVars>>

(* The context check after pop: a cancelled walk only drains the queue.    *)
Popped(w) ==
  /\ pc[w] = "popped"
  /\ pc' = [pc EXCEPT ![w] = IF ctx THEN "finish" ELSE "list"]
  /\ UNCHANGED <<remaining, queueVars, ctxVars, walkVars, reportVars>>

(* scanDir, up to the listing: a failed listing ends the directory.        *)
ListDir(w) ==
  /\ pc[w] = "list"
  /\ visited' = visited \cup {dir[w]}
  /\ \/ /\ unreadable' = unreadable \cup {dir[w]}
        /\ pc' = [pc EXCEPT ![w] = "finish"]
        /\ UNCHANGED left
     \/ /\ left' = [left EXCEPT ![w] = Children[dir[w]] \cup Contents[dir[w]]]
        /\ pc' = [pc EXCEPT ![w] = "entries"]
        /\ UNCHANGED unreadable
  /\ UNCHANGED <<remaining, dir, sub, snap, seen, results, progress,
                 queueVars, ctxVars>>

(* A subdirectory is handed to dispatch.                                   *)
DirEntry(w) ==
  /\ pc[w] = "entries"
  /\ \E d \in left[w] \cap Dirs :
       /\ left' = [left EXCEPT ![w] = @ \ {d}]
       /\ sub' = [sub EXCEPT ![w] = d]
  /\ pc' = [pc EXCEPT ![w] = "check"]
  /\ UNCHANGED <<remaining, dir, snap, queueVars, ctxVars, reportVars>>

(* Mutant of FileEntry: an archive is passed over like an unknown format.  *)
FileEntryEbooks(w) ==
  /\ pc[w] = "entries"
  /\ \E f \in left[w] \cap File :
       /\ left' = [left EXCEPT ![w] = @ \ {f}]
       /\ seen' = seen \cup {f}
       /\ results' = IF f \in Ebook THEN results \cup {f} ELSE results
  /\ UNCHANGED <<remaining, pc, dir, sub, snap, visited, unreadable, progress,
                 queueVars, ctxVars>>

(* A file is counted; ebooks and archives are reported.                    *)
FileEntry(w) ==
  /\ pc[w] = "entries"
  /\ \E f \in left[w] \cap File :
       /\ left' = [left EXCEPT ![w] = @ \ {f}]
       /\ seen' = seen \cup {f}
       /\ results' = IF f \in Supported THEN results \cup {f} ELSE results
  /\ UNCHANGED <<remaining, pc, dir, sub, snap, visited, unreadable, progress,
                 queueVars, ctxVars>>

(* After the last entry: load the counters ...                             *)
LoadProgress(w) ==
  /\ pc[w] = "entries" /\ left[w] = {}
  /\ snap' = [snap EXCEPT ![w] = Counters]
  /\ pc' = [pc EXCEPT ![w] = "report"]
  /\ UNCHANGED <<remaining, dir, left, sub, queueVars, ctxVars, reportVars>>

(* ... and call onReport with them: setScanProgress stores what it gets.   *)
Report(w) ==
  /\ pc[w] = "report"
  /\ progress' = snap[w]
  /\ pc' = [pc EXCEPT ![w] = "finish"]
  /\ UNCHANGED <<remaining, visited, unreadable, seen, results,
                 queueVars, ctxVars, walkVars>>

(* Mutant of Finish: the walk is taken to be over with a directory to go.  *)
FinishEarly(w) ==
  /\ pc[w] = "finish"
  /\ remaining' = remaining - 1
  /\ dir' = [dir EXCEPT ![w] = NoDir]
  /\ pc' = [pc EXCEPT ![w] = IF remaining <= 2 THEN "close" ELSE "pop"]
  /\ UNCHANGED <<left, sub, snap, queueVars, ctxVars, reportVars>>

(* remaining.Add(-1): the last directory's walker closes the queue.        *)
Finish(w) ==
  /\ pc[w] = "finish"
  /\ remaining' = remaining - 1
  /\ dir' = [dir EXCEPT ![w] = NoDir]
  /\ pc' = [pc EXCEPT ![w] = IF remaining = 1 THEN "close" ELSE "pop"]
  /\ UNCHANGED <<left, sub, snap, queueVars, ctxVars, reportVars>>

WalkerClose(w) ==
  /\ pc[w] = "close"
  /\ CloseQueue(w, "pop")
  /\ UNCHANGED <<remaining, ctxVars, walkVars, reportVars>>

(***************************************************************************)
(* Scan itself, the goroutine behind ctx.Done(), and the caller.           *)
(***************************************************************************)

(* The root cannot be opened, or is not a directory: nothing is started.   *)
RootError ==
  /\ pc[Main] = "root"
  /\ fatal' = TRUE
  /\ pc' = [pc EXCEPT ![Main] = "returned"]
  /\ UNCHANGED <<remaining, cancelled, ctx, queueVars, walkVars, reportVars>>

(* The goroutines start, then Scan dispatches the root.                    *)
Start ==
  /\ pc[Main] = "root"
  /\ pc' = [g \in DOMAIN pc |-> CASE g = Main -> "check"
                                  [] g = Closer -> "blocked"
                                  [] OTHER -> "connect"]
  /\ ctx' = cancelled
  /\ UNCHANGED <<remaining, cancelled, fatal, queueVars, walkVars, reportVars>>

(* walkers.Wait() is over: Scan returns, and its deferred cancel runs.     *)
Return ==
  /\ pc[Main] = "join"
  /\ \A w \in Walkers : pc[w] = "exited"
  /\ ctx' = TRUE
  /\ pc' = [pc EXCEPT ![Main] = "returned"]
  /\ UNCHANGED <<remaining, cancelled, fatal, queueVars, walkVars, reportVars>>

CloseOnDone ==
  /\ pc[Closer] = "blocked" /\ ctx
  /\ CloseQueue(Closer, "exited")
  /\ UNCHANGED <<remaining, ctxVars, walkVars, reportVars>>

(* The caller cancels: Ctrl-C, or a parse worker's fatal error.            *)
Cancel ==
  /\ ~cancelled
  /\ cancelled' = TRUE
  /\ ctx' = (pc[Main] # "root" \/ ctx)
  /\ UNCHANGED <<remaining, fatal, pc, queueVars, walkVars, reportVars>>

(* Every goroutine has ended.                                              *)
Ended == pc[Main] = "returned" /\ pc[Closer] \in {"none", "exited"}

Done == Ended /\ UNCHANGED vars

----------------------------------------------------------------------------
Init ==
  /\ items = <<>> /\ closed = FALSE /\ remaining = 0
  /\ cancelled = FALSE /\ ctx = FALSE /\ fatal = FALSE
  /\ pc = [g \in Walkers \cup {Main, Closer} |-> IF g = Main THEN "root" ELSE "none"]
  /\ dir = [w \in Walkers |-> NoDir]
  /\ left = [w \in Walkers |-> {}]
  /\ sub = [p \in Dispatchers |-> Root]
  /\ snap = [w \in Walkers |-> NoCounters]
  /\ visited = {} /\ unreadable = {} /\ seen = {} /\ results = {}
  /\ progress = NoCounters

Dispatch(p) == DispatchCheck(p) \/ DispatchAdd(p) \/ DispatchPush(p)

ScanDir(w) == ListDir(w) \/ DirEntry(w) \/ FileEntry(w) \/ LoadProgress(w) \/ Report(w)

Walker(w) ==
  \/ Connect(w) \/ CancelWalk(w)
  \/ Pop(w) \/ Popped(w) \/ ScanDir(w) \/ Dispatch(w)
  \/ Finish(w) \/ WalkerClose(w)

Scan == RootError \/ Start \/ Dispatch(Main) \/ Return

Next ==
  \/ \E w \in Walkers : Walker(w)
  \/ Scan
  \/ CloseOnDone
  \/ Cancel
  \/ Done

Spec == Init /\ [][Next]_vars

(* Every goroutine is scheduled again and again, and every call of the     *)
(* source returns; the caller is free never to cancel.                     *)
Fairness ==
  /\ \A w \in Walkers : WF_vars(Walker(w))
  /\ WF_vars(Scan)
  /\ WF_vars(CloseOnDone)

FairSpec == Spec /\ Fairness

----------------------------------------------------------------------------
WalkerStates == {"none", "connect", "cancel", "pop", "wait", "popped", "list",
                 "entries", "check", "add", "push", "report", "finish", "close",
                 "exited"}

MainStates   == {"root", "check", "add", "push", "join", "returned"}
CloserStates == {"none", "blocked", "exited"}

CounterRecords == [dirs : Nat, files : Nat, found : Nat]

PcType ==
  /\ pc \in [Walkers \cup {Main, Closer} -> WalkerStates \cup MainStates \cup CloserStates]
  /\ \A w \in Walkers : pc[w] \in WalkerStates
  /\ pc[Main] \in MainStates /\ pc[Closer] \in CloserStates

(* The walkers that have popped a directory and not counted it off.        *)
Holding == {w \in Walkers : pc[w] \in {"popped", "list", "entries", "check",
                                       "add", "push", "report", "finish"}}

HolderType == \A w \in Holding : dir[w] \in Dirs

(* The type of every variable of the walk; a walker at work has a          *)
(* directory, which is what makes scanDir's path argument a real one.      *)
TypeOK ==
  /\ items \in Seq(Dirs) /\ closed \in BOOLEAN /\ remaining \in Nat
  /\ cancelled \in BOOLEAN /\ ctx \in BOOLEAN /\ fatal \in BOOLEAN
  /\ PcType
  /\ dir \in [Walkers -> Dirs \cup {NoDir}] /\ HolderType
  /\ left \in [Walkers -> SUBSET (Dirs \cup File)]
  /\ sub \in [Dispatchers -> Dirs]
  /\ snap \in [Walkers -> CounterRecords]
  /\ visited \in SUBSET Dirs /\ unreadable \in SUBSET Dirs
  /\ seen \in SUBSET File /\ results \in SUBSET File
  /\ progress \in CounterRecords

(* The goroutines that have counted a directory and not queued it yet.     *)
Pushing == {p \in Dispatchers : pc[p] = "push"}

(* remaining counts exactly the directories that are queued, held by a     *)
(* walker, or between the Add and the push of dispatch: the termination    *)
(* test `remaining.Add(-1) == 0` is only as good as this equation.         *)
RemainingExact ==
  remaining = Len(items) + Cardinality(Holding) + Cardinality(Pushing)

(* The queue is never closed under a walk that is still going on: unless   *)
(* the context is done, a closed queue means no directory is queued, held  *)
(* or on its way into the queue, and the root was dispatched.              *)
NoEarlyClose ==
  closed /\ ~ctx =>
    /\ items = <<>> /\ Holding = {} /\ Pushing = {}
    /\ pc[Main] \in {"join", "returned"}

(* A Scan that returns without a fatal error, and whose caller did not     *)
(* cancel, has visited the root and every subdirectory of every directory  *)
(* it could list, and reported every ebook and archive they hold.          *)
CompleteWalk ==
  pc[Main] = "returned" /\ ~fatal /\ ~cancelled =>
    /\ Root \in visited
    /\ \A d \in visited \ unreadable :
         Children[d] \subseteq visited /\ Contents[d] \cap Supported \subseteq results

(* No directory is listed twice: in a tree, a directory is queued, held    *)
(* or being dispatched at most once, and never after its visit.            *)
ListedOnce ==
  [][\A w \in Walkers : ListDir(w) => dir[w] \notin visited]_vars

(* Under the fairness above Scan returns and its helper goroutine ends,    *)
(* whatever fails and whenever the caller cancels: no walker is left       *)
(* waiting on the queue.                                                   *)
Terminates == <>Ended
=============================================================================
