------------------------------ MODULE Progress ------------------------------
(***************************************************************************)
(* The progress bar of a scan: progressBar and progressReporter of         *)
(* internal/cli/progress.go, fed by the walkers and parse workers through  *)
(* ScanProcessor.report, by the ticker of runScan and, at the end, by      *)
(* runScan itself.                                                         *)
(*                                                                         *)
(* No snapshot is atomic: Stats loads one counter after the other, and the *)
(* bar gets snapshots in any order.                                        *)
(* What is drawn (throttle, frames, names, width) is left out: the bar is  *)
(* the numbers and flags a frame would show.                               *)
(***************************************************************************)
EXTENDS Integers, Sequences

CONSTANTS
  Walkers,     (* the scanner's goroutines                                 *)
  Workers,     (* the parse workers                                        *)
  Ticker,      (* the goroutine of runScan that keeps the bar moving       *)
  Main,        (* runScan                                                  *)
  Listing,     (* the directories each walker comes to list, each a        *)
               (* sequence of "file" and "archive"                         *)
  ArchiveSize, (* the ebooks in an archive                                 *)
  MaxTicks     (* bound on the ticks                                       *)

Reporters == Walkers \cup Workers \cup {Ticker, Main}
Kind == {"file", "archive"}

ASSUME ProgressAssumption ==
  /\ Walkers \cap Workers = {} /\ Ticker # Main
  /\ {Ticker, Main} \cap (Walkers \cup Workers) = {}
  /\ Listing \in [Walkers -> Seq(Seq(Kind))]
  /\ ArchiveSize \in Nat /\ MaxTicks \in Nat

VARIABLES
  count,    (* the counters: Scanner.found as scan, and found, parsed,     *)
            (* skipped, active of ScanProcessor                            *)
  lastScan, (* ScanProcessor.lastScan                                      *)
  snap,     (* the snapshot each reporter is taking                        *)
  ctx,      (* "live", "aborted" by a worker's fatal error (the context of *)
            (* Process only), or "canceled" by the user                    *)
  stop,     (* the channel stop is closed                                  *)
  queue,    (* resultQueue: kinds waiting for a worker                     *)
  pc, left, (* where each is; directories or ebooks it has left            *)
  ticks,    (* ticks so far                                                *)
  rep,      (* progressReporter: lastParsed, lastSkipped, maxFound         *)
  bar       (* progressBar: cur, max, active, canceling, done              *)

Counter == {"scan", "found", "parsed", "skipped", "active"}
Blank == [c \in Counter |-> 0]

vars == <<count, lastScan, snap, ctx, stop, queue, pc, left, ticks, rep, bar>>
workVars == <<count, lastScan, queue, left>>

Goto(r, next) == pc' = [pc EXCEPT ![r] = next]
Bump(c, n) == count' = [count EXCEPT ![c] = @ + n]

(***************************************************************************)
(* progressBar                                                             *)
(***************************************************************************)
Larger(a, b) == IF a > b THEN a ELSE b

(* Mutant of SetMax: the maximum is what was last reported.                *)
SetMaxLoose(b, n) == IF b.done THEN b ELSE [b EXCEPT !.max = n]

SetMax(b, n) == IF b.done THEN b ELSE [b EXCEPT !.max = Larger(@, Larger(n, b.cur))]

Add(b, n) ==
  IF b.done \/ n <= 0 THEN b
  ELSE [b EXCEPT !.cur = @ + n, !.max = Larger(@, b.cur + n)]

(***************************************************************************)
(* progressReporter                                                        *)
(***************************************************************************)
(* Mutant of ApplyActive: canceling is not looked at.                      *)
ApplyActiveAnyway(b, n) == [b EXCEPT !.active = n > 0]

ApplyActive(b, n) == [b EXCEPT !.active = n > 0 /\ ~b.canceling]

(* The part report and sync share: only what is new since the last         *)
(* snapshot is added.                                                      *)
(* Mutant of AddNew: a snapshot that is behind counts again.               *)
AddNewDifference(b, p) ==
  [b EXCEPT !.cur = p.parsed + p.skipped, !.max = Larger(@, p.parsed + p.skipped)]

AddNew(b, p) == Add(Add(b, p.parsed - rep.lastParsed), p.skipped - rep.lastSkipped)

Remember(p) == [rep EXCEPT !.lastParsed = Larger(@, p.parsed),
                           !.lastSkipped = Larger(@, p.skipped)]

(* Found of a snapshot: files the scanner found and members of archives.   *)
FoundIn(p) == p.scan + p.found

report(p) ==
  LET raised == IF FoundIn(p) > rep.maxFound THEN SetMax(bar, FoundIn(p)) ELSE bar IN
  /\ bar' = ApplyActive(AddNew(raised, p), p.active)
  /\ rep' = [Remember(p) EXCEPT !.maxFound = Larger(@, FoundIn(p))]

tick(p) == bar' = ApplyActive(bar, p.active) /\ UNCHANGED rep

cancel == bar' = [bar EXCEPT !.canceling = TRUE, !.active = FALSE] /\ UNCHANGED rep

(* Mutant of sync: it trusts the last live event for what is in flight.    *)
syncCounts(p) ==
  /\ bar' = AddNew(SetMax(bar, FoundIn(p)), p)
  /\ rep' = Remember(p)

sync(p) ==
  /\ bar' = [AddNew(SetMax(bar, FoundIn(p)), p) EXCEPT !.active = FALSE]
  /\ rep' = Remember(p)

(***************************************************************************)
(* Stats: the loads of one snapshot, in their order.  lastScan is what was *)
(* stored, the others are loaded live; the loads of parsed, skipped and    *)
(* active, which nothing compares with one another, are one step.          *)
(***************************************************************************)
Loads == [scan |-> {"scan"}, found |-> {"found"}, work |-> {"parsed", "skipped", "active"}]
Following == [scan |-> "found", found |-> "work", work |-> "report"]

Load(r) ==
  /\ pc[r] \in DOMAIN Loads
  /\ snap' = [snap EXCEPT ![r] =
       [c \in Counter |-> IF c \notin Loads[pc[r]] THEN @[c]
                          ELSE IF c = "scan" THEN lastScan ELSE count[c]]]
  /\ Goto(r, Following[pc[r]])
  /\ UNCHANGED <<workVars, ctx, stop, ticks, rep, bar>>

(* OnProgress: the snapshot reaches the bar, under the reporter's lock.    *)
Report(r) ==
  /\ pc[r] = "report" /\ r \in Walkers \cup Workers
  /\ report(snap[r])
  /\ snap' = [snap EXCEPT ![r] = Blank]
  /\ Goto(r, IF r \in Walkers THEN "dir" ELSE "unit")
  /\ UNCHANGED <<workVars, ctx, stop, ticks>>

(***************************************************************************)
(* A walker: it lists a directory, or cannot and reports that; every file  *)
(* is counted and pushed, and after the directory the scanner's counter is *)
(* loaded (Scanner.progress), stored (setScanProgress) and reported.       *)
(***************************************************************************)
List(w) ==
  /\ pc[w] = "dir" /\ ctx = "live" /\ left[w] # <<>>
  /\ \/ Goto(w, "list") /\ UNCHANGED left
     \/ Goto(w, "scan") /\ left' = [left EXCEPT ![w] = Tail(@)]
  /\ UNCHANGED <<count, lastScan, queue, snap, ctx, stop, ticks, rep, bar>>

Find(w) ==
  /\ pc[w] = "list" /\ Head(left[w]) # <<>>
  /\ LET kind == Head(Head(left[w])) IN
     /\ IF kind = "file" THEN Bump("scan", 1) ELSE UNCHANGED count
     /\ queue' = IF ctx = "live" THEN Append(queue, kind) ELSE queue
  /\ left' = [left EXCEPT ![w] = <<Tail(Head(@))>> \o Tail(@)]
  /\ UNCHANGED <<lastScan, snap, ctx, stop, pc, ticks, rep, bar>>

Listed(w) ==
  /\ pc[w] = "list" /\ Head(left[w]) = <<>>
  /\ left' = [left EXCEPT ![w] = Tail(@)]
  /\ snap' = [snap EXCEPT ![w].scan = count.scan]
  /\ Goto(w, "store")
  /\ UNCHANGED <<count, lastScan, queue, ctx, stop, ticks, rep, bar>>

setScanProgress(w) ==
  /\ pc[w] = "store"
  /\ lastScan' = snap[w].scan
  /\ Goto(w, "scan")
  /\ UNCHANGED <<count, queue, left, snap, ctx, stop, ticks, rep, bar>>

WalkerExits(w) ==
  /\ pc[w] = "dir" /\ (left[w] = <<>> \/ ctx # "live")
  /\ Goto(w, "done")
  /\ UNCHANGED <<workVars, snap, ctx, stop, ticks, rep, bar>>

Walker(w) == List(w) \/ Find(w) \/ Listed(w) \/ setScanProgress(w) \/ WalkerExits(w)

(***************************************************************************)
(* A parse worker.  A member of an archive is counted as found when it is  *)
(* about to be parsed; one that is passed over before that (recorded, too  *)
(* small) is skipped without being found.                                  *)
(***************************************************************************)
Connect(w) ==
  /\ pc[w] = "connect"
  /\ \/ Goto(w, "pop") /\ UNCHANGED ctx
     \/ Goto(w, "done") /\ ctx' = IF ctx = "live" THEN "aborted" ELSE ctx
  /\ UNCHANGED <<workVars, snap, stop, ticks, rep, bar>>

WalkersDone == \A v \in Walkers : pc[v] = "done"

(* The pop, the check of the context after it, and beginWork; the queue    *)
(* is closed when Scan has returned.                                       *)
Pop(w) ==
  /\ pc[w] = "pop"
  /\ \/ /\ queue # <<>>
        /\ queue' = Tail(queue)
        /\ IF ctx # "live" THEN UNCHANGED <<pc, left, count>>
           ELSE /\ Goto(w, "unit") /\ Bump("active", 1)
                /\ left' = [left EXCEPT ![w] =
                     IF Head(queue) = "file" THEN <<"file">>
                     ELSE [i \in 1..ArchiveSize |-> "member"]]
     \/ /\ queue = <<>> /\ WalkersDone
        /\ Goto(w, "done")
        /\ UNCHANGED <<queue, left, count>>
  /\ UNCHANGED <<lastScan, snap, ctx, stop, ticks, rep, bar>>

(* What happens to the next ebook before it is parsed.                     *)
Reach(w) ==
  /\ pc[w] = "unit" /\ left[w] # <<>>
  /\ \/ /\ Goto(w, "parse")
        /\ IF Head(left[w]) = "member" THEN Bump("found", 1) ELSE UNCHANGED count
        /\ UNCHANGED left
     \/ (* skip *)
        /\ Bump("skipped", 1) /\ Goto(w, "scan")
        /\ left' = [left EXCEPT ![w] = Tail(@)]
     \/ (* fail: this one, or the archive they are in *)
        /\ Goto(w, "scan") /\ UNCHANGED count
        /\ \E rest \in {Tail(left[w]), <<>>} : left' = [left EXCEPT ![w] = rest]
  /\ UNCHANGED <<lastScan, queue, snap, ctx, stop, ticks, rep, bar>>

(* parseEbook: parsed; not a book and skipped; failed and reported; or     *)
(* dropped without a trace, for the run is cancelled.                      *)
Parse(w) ==
  /\ pc[w] = "parse"
  /\ left' = [left EXCEPT ![w] = Tail(@)]
  /\ \/ \E c \in {"parsed", "skipped"} : Bump(c, 1) /\ Goto(w, "scan")
     \/ Goto(w, "scan") /\ UNCHANGED count
     \/ ctx # "live" /\ Goto(w, "unit") /\ UNCHANGED count
  /\ UNCHANGED <<lastScan, queue, snap, ctx, stop, ticks, rep, bar>>

endWork(w) ==
  /\ pc[w] = "unit" /\ (left[w] = <<>> \/ ctx # "live")
  /\ left' = [left EXCEPT ![w] = <<>>]
  /\ Bump("active", -1) /\ Goto(w, "pop")
  /\ UNCHANGED <<lastScan, queue, snap, ctx, stop, ticks, rep, bar>>

Worker(w) == Connect(w) \/ Pop(w) \/ Reach(w) \/ Parse(w) \/ endWork(w)

(***************************************************************************)
(* The ticker and runScan.                                                 *)
(***************************************************************************)
(* Of what Stats loads, tick uses the number in flight only.               *)
Tick ==
  /\ pc[Ticker] = "idle" /\ ticks < MaxTicks
  /\ ticks' = ticks + 1 /\ Goto(Ticker, "work")
  /\ UNCHANGED <<workVars, snap, ctx, stop, rep, bar>>

Ticked ==
  /\ pc[Ticker] = "report" /\ tick(snap[Ticker])
  /\ snap' = [snap EXCEPT ![Ticker] = Blank]
  /\ Goto(Ticker, "idle")
  /\ UNCHANGED <<workVars, ctx, stop, ticks>>

TickerExits ==
  /\ pc[Ticker] = "idle"
  /\ \/ stop /\ UNCHANGED <<rep, bar>>
     \/ ctx = "canceled" /\ cancel
  /\ Goto(Ticker, "done")
  /\ UNCHANGED <<workVars, snap, ctx, stop, ticks>>

(* Process has returned and runScan looks at the context: a canceled scan  *)
(* shows it, whether the ticker has seen it or not.                        *)
Returned ==
  /\ pc[Main] = "process"
  /\ WalkersDone /\ \A w \in Workers : pc[w] = "done"
  /\ IF ctx = "canceled" THEN cancel ELSE UNCHANGED <<rep, bar>>
  /\ Goto(Main, "finish")
  /\ UNCHANGED <<workVars, snap, ctx, stop, ticks>>

CloseStop ==
  /\ pc[Main] = "finish"
  /\ stop' = TRUE /\ Goto(Main, "wait")
  /\ UNCHANGED <<workVars, snap, ctx, ticks, rep, bar>>

(* <-tickDone, then Stats.                                                 *)
Waited ==
  /\ pc[Main] = "wait" /\ pc[Ticker] = "done"
  /\ Goto(Main, "scan")
  /\ UNCHANGED <<workVars, snap, ctx, stop, ticks, rep, bar>>

Sync ==
  /\ pc[Main] = "report" /\ sync(snap[Main])
  /\ Goto(Main, "synced")
  /\ UNCHANGED <<workVars, snap, ctx, stop, ticks>>

finish ==
  /\ pc[Main] = "synced"
  /\ bar' = [bar EXCEPT !.done = TRUE]
  /\ Goto(Main, "done")
  /\ UNCHANGED <<workVars, snap, ctx, stop, ticks, rep>>

(* Ctrl-C, at any moment.                                                  *)
Interrupt ==
  /\ ctx # "canceled" /\ pc[Main] # "done"
  /\ ctx' = "canceled"
  /\ UNCHANGED <<workVars, snap, stop, pc, ticks, rep, bar>>

Init ==
  /\ count = Blank
  /\ lastScan = 0
  /\ snap = [r \in Reporters |-> Blank]
  /\ ctx = "live" /\ stop = FALSE /\ queue = <<>>
  /\ pc = [r \in Reporters |-> CASE r \in Walkers -> "dir" [] r \in Workers -> "connect"
                                 [] r = Ticker -> "idle" [] OTHER -> "process"]
  /\ left = [r \in Walkers \cup Workers |-> IF r \in Walkers THEN Listing[r] ELSE <<>>]
  /\ ticks = 0
  /\ rep = [lastParsed |-> 0, lastSkipped |-> 0, maxFound |-> 0]
  /\ bar = [cur |-> 0, max |-> 0, active |-> FALSE, canceling |-> FALSE, done |-> FALSE]

(* The scan is over; any other state without a next one is a deadlock.     *)
Over == bar.done /\ UNCHANGED vars

RunScan == Returned \/ CloseStop \/ Waited \/ Sync \/ finish
Step(r) == Load(r) \/ Report(r)

Next ==
  \/ \E w \in Walkers : Walker(w)
  \/ \E w \in Workers : Worker(w)
  \/ \E r \in Reporters : Step(r)
  \/ Tick \/ Ticked \/ TickerExits \/ RunScan \/ Interrupt
  \/ Over

Spec == Init /\ [][Next]_vars

-----------------------------------------------------------------------------
(* The types of all variables.                                             *)
TypeOK ==
  /\ count \in [Counter -> Int] /\ lastScan \in Int
  /\ snap \in [Reporters -> [Counter -> Int]]
  /\ ctx \in {"live", "aborted", "canceled"} /\ stop \in BOOLEAN
  /\ queue \in Seq(Kind) /\ ticks \in 0..MaxTicks
  /\ pc \in [Reporters -> {"scan", "found", "work", "report", "dir", "list",
               "store", "connect", "pop", "unit", "parse", "idle", "process", "finish", "wait",
               "synced", "done"}]
  /\ DOMAIN left = Walkers \cup Workers
  /\ rep \in [lastParsed : Int, lastSkipped : Int, maxFound : Int]
  /\ bar \in [cur : Int, max : Int, active : BOOLEAN, canceling : BOOLEAN, done : BOOLEAN]

(* Whatever the order of the snapshots, the bar counts nothing twice and   *)
(* nothing that was not done: it is at what the newest snapshots say, and  *)
(* "can never show more work done than the total", which is never more     *)
(* than was found or, where members of archives are skipped unseen, done.  *)
NeverOverstates ==
  /\ bar.cur = rep.lastParsed + rep.lastSkipped
  /\ rep.lastParsed <= count.parsed /\ rep.lastSkipped <= count.skipped
  /\ bar.cur <= bar.max
  /\ bar.max <= Larger(count.scan + count.found, count.parsed + count.skipped)

(* A snapshot that comes late never takes the bar back.                    *)
NeverBack == [][bar'.cur >= bar.cur /\ bar'.max >= bar.max]_vars

(* The finished bar shows all the work that was counted and none in        *)
(* flight, though no live event tells that the last item ended, and a      *)
(* ticker, walker or worker never draws on it again.                       *)
EndsExact ==
  bar.done => /\ bar.cur = count.parsed + count.skipped /\ ~bar.active
              /\ \A r \in Reporters : pc[r] = "done"

(* A canceled display stays so: no late report makes it look like a        *)
(* running scan again.                                                     *)
StaysCanceled == bar.canceling => ~bar.active
=============================================================================
