---------------------------- MODULE ReportProofs ----------------------------
(***************************************************************************)
(* Proofs about what the user is shown: the bar of Progress while a scan   *)
(* runs, and what BookMeta makes of the files of a book, for any words, any*)
(* metadata of any contents, any paths, and any order of the commits.      *)
(***************************************************************************)
EXTENDS Progress, BookMeta, SequenceTheorems, FiniteSetTheorems, WellFoundedInduction,
        TLAPS

Shown == [cur : Int, max : Int, active : BOOLEAN, canceling : BOOLEAN, done : BOOLEAN]

Label == {"scan", "found", "work", "report", "dir", "list", "store", "connect", "pop", "unit",
          "parse", "idle", "process", "finish", "wait", "synced", "done"}

(* The counters that never fall.                                           *)
Total == {"scan", "found", "parsed", "skipped"}

Typed ==
  /\ count \in [Counter -> Int] /\ lastScan \in Int
  /\ snap \in [Reporters -> [Counter -> Int]]
  /\ pc \in [Reporters -> Label]
  /\ rep \in [lastParsed : Int, lastSkipped : Int, maxFound : Int]
  /\ bar \in Shown

(* No snapshot, taken, stored or on its way, is ahead of the counters.     *)
NeverAhead ==
  /\ lastScan <= count["scan"]
  /\ \A c \in Total : 0 <= count[c]
  /\ \A r \in Reporters, c \in Total : snap[r][c] <= count[c]

(* runScan goes on only when the others have ended: first the goroutines   *)
(* of Process, then the ticker.                                            *)
Awaited ==
  /\ pc[Main] # "process" => \A w \in Walkers \cup Workers : pc[w] = "done"
  /\ pc[Main] \notin {"process", "finish", "wait"} => pc[Ticker] = "done"
  /\ bar.done => pc[Main] = "done"

(* The last snapshot is all there is, and the bar shows it.                *)
Synced ==
  /\ pc[Main] = "report" => \A c \in {"parsed", "skipped"} : snap[Main][c] = count[c]
  /\ pc[Main] \in {"synced", "done"} =>
       /\ rep.lastParsed = count["parsed"] /\ rep.lastSkipped = count["skipped"]
       /\ ~bar.active

(* The inductive invariant.                                                *)
BarInv == Typed /\ NeverAhead /\ Awaited /\ Synced /\ NeverOverstates /\ StaysCanceled

-----------------------------------------------------------------------------
(* What the bar's operations do to its numbers and leave of its flags.     *)
LEMMA AddFacts ==
  ASSUME NEW b \in Shown, NEW n \in Int, ~b.done
  PROVE  /\ Add(b, n) \in Shown
         /\ Add(b, n).cur = b.cur + Larger(n, 0)
         /\ Add(b, n).max = IF n <= 0 THEN b.max ELSE Larger(b.max, b.cur + n)
         /\ Add(b, n).active = b.active /\ Add(b, n).canceling = b.canceling
         /\ ~Add(b, n).done
<1>1. b.cur \in Int /\ b.max \in Int /\ b.active \in BOOLEAN /\ b.canceling \in BOOLEAN
      /\ b.done \in BOOLEAN
  BY DEF Shown
<1>2. CASE n <= 0
  BY <1>1, <1>2 DEF Add, Larger
<1>3. CASE n > 0
  <2>1. Add(b, n) = [b EXCEPT !.cur = b.cur + n, !.max = Larger(b.max, b.cur + n)]
    BY <1>3 DEF Add
  <2>2. Add(b, n) = [cur |-> b.cur + n, max |-> Larger(b.max, b.cur + n), active |-> b.active,
                     canceling |-> b.canceling, done |-> b.done]
    BY <2>1 DEF Shown
  <2>3. Larger(b.max, b.cur + n) \in Int /\ Larger(n, 0) = n
    BY <1>1, <1>3 DEF Larger
  <2> QED
    BY <1>1, <1>3, <2>2, <2>3 DEF Shown
<1> QED
  BY <1>2, <1>3

(* A maximum is raised, to what is told or shown, and never lowered.       *)
LEMMA SetMaxFacts ==
  ASSUME NEW b \in Shown, NEW n \in Int, ~b.done
  PROVE  /\ SetMax(b, n) \in Shown
         /\ SetMax(b, n).cur = b.cur
         /\ SetMax(b, n).max >= b.max
         /\ SetMax(b, n).max <= Larger(b.max, Larger(n, b.cur))
         /\ SetMax(b, n).active = b.active /\ SetMax(b, n).canceling = b.canceling
         /\ ~SetMax(b, n).done
<1>1. b.cur \in Int /\ b.max \in Int /\ b.active \in BOOLEAN /\ b.canceling \in BOOLEAN
      /\ b.done \in BOOLEAN
  BY DEF Shown
<1>2. SetMax(b, n) = [cur |-> b.cur, max |-> Larger(b.max, Larger(n, b.cur)),
                      active |-> b.active, canceling |-> b.canceling, done |-> b.done]
  BY DEF SetMax, Shown
<1>3. Larger(b.max, Larger(n, b.cur)) \in Int /\ Larger(b.max, Larger(n, b.cur)) >= b.max
  BY <1>1 DEF Larger
<1> QED
  BY <1>1, <1>2, <1>3 DEF Shown

(* Adding what is new keeps the bar at the sum of the newest numbers, and  *)
(* raises its maximum only with it.                                        *)
LEMMA AddNewFacts ==
  ASSUME Typed, NEW b \in Shown, ~b.done, NEW p \in [Counter -> Int],
         b.cur = rep.lastParsed + rep.lastSkipped, b.cur <= b.max
  PROVE  /\ AddNew(b, p) \in Shown
         /\ AddNew(b, p).cur = Larger(rep.lastParsed, p["parsed"]) + Larger(rep.lastSkipped, p["skipped"])
         /\ AddNew(b, p).cur >= b.cur /\ AddNew(b, p).max >= b.max
         /\ AddNew(b, p).cur <= AddNew(b, p).max
         /\ AddNew(b, p).max <= Larger(b.max, AddNew(b, p).cur)
         /\ AddNew(b, p).active = b.active /\ AddNew(b, p).canceling = b.canceling
         /\ ~AddNew(b, p).done
<1> DEFINE n == p["parsed"] - rep.lastParsed
           m == p["skipped"] - rep.lastSkipped
           a == Add(b, n)
<1>1. /\ rep.lastParsed \in Int /\ rep.lastSkipped \in Int
      /\ p["parsed"] \in Int /\ p["skipped"] \in Int /\ n \in Int /\ m \in Int
  BY DEF Typed, Counter
<1>2. /\ a \in Shown /\ a.cur = b.cur + Larger(n, 0) /\ ~a.done
      /\ a.max = IF n <= 0 THEN b.max ELSE Larger(b.max, b.cur + n)
      /\ a.active = b.active /\ a.canceling = b.canceling
  BY <1>1, AddFacts
<1>3. /\ Add(a, m) \in Shown /\ Add(a, m).cur = a.cur + Larger(m, 0) /\ ~Add(a, m).done
      /\ Add(a, m).max = IF m <= 0 THEN a.max ELSE Larger(a.max, a.cur + m)
      /\ Add(a, m).active = a.active /\ Add(a, m).canceling = a.canceling
  BY <1>1, <1>2, AddFacts
<1>4. b.cur \in Int /\ b.max \in Int /\ a.cur \in Int /\ a.max \in Int
  BY <1>2 DEF Shown
<1>5. AddNew(b, p) = Add(a, m)
  BY DEF AddNew
<1> HIDE DEF a
<1>6. /\ Larger(rep.lastParsed, p["parsed"]) = rep.lastParsed + Larger(n, 0)
      /\ Larger(rep.lastSkipped, p["skipped"]) = rep.lastSkipped + Larger(m, 0)
      /\ Larger(n, 0) \in Int /\ Larger(n, 0) >= 0 /\ Larger(m, 0) \in Int /\ Larger(m, 0) >= 0
  BY <1>1 DEF Larger
<1>7. /\ a.cur <= a.max /\ a.max >= b.max /\ a.max <= Larger(b.max, a.cur)
  BY <1>2, <1>4, <1>1 DEF Larger
<1>8. /\ Add(a, m).cur <= Add(a, m).max /\ Add(a, m).max >= a.max
      /\ Add(a, m).max <= Larger(a.max, Add(a, m).cur)
  BY <1>3, <1>4, <1>1, <1>7 DEF Larger
<1>9. Add(a, m).cur \in Int /\ Add(a, m).max \in Int
  BY <1>3 DEF Shown
<1>10. Add(a, m).max <= Larger(b.max, Add(a, m).cur)
  BY <1>3, <1>4, <1>6, <1>7, <1>8, <1>9 DEF Larger
<1>11. Add(a, m).cur = Larger(rep.lastParsed, p["parsed"]) + Larger(rep.lastSkipped, p["skipped"])
  BY <1>1, <1>2, <1>3, <1>6
<1> QED
  <2>1. Add(a, m).cur >= b.cur /\ Add(a, m).max >= b.max
    BY <1>2, <1>3, <1>4, <1>6, <1>7, <1>8, <1>9
  <2> QED
    BY <1>2, <1>3, <1>5, <1>8, <1>10, <1>11, <2>1

(* Of the reporter's numbers each is the larger of the old and the new.    *)
LEMMA RememberFacts ==
  ASSUME Typed, NEW p \in [Counter -> Int]
  PROVE  /\ Remember(p) \in [lastParsed : Int, lastSkipped : Int, maxFound : Int]
         /\ Remember(p).lastParsed = Larger(rep.lastParsed, p["parsed"])
         /\ Remember(p).lastSkipped = Larger(rep.lastSkipped, p["skipped"])
         /\ Remember(p).maxFound = rep.maxFound
<1>1. /\ rep.lastParsed \in Int /\ rep.lastSkipped \in Int /\ rep.maxFound \in Int
      /\ p["parsed"] \in Int /\ p["skipped"] \in Int
  BY DEF Typed, Counter
<1>2. Remember(p) = [lastParsed |-> Larger(rep.lastParsed, p["parsed"]),
                     lastSkipped |-> Larger(rep.lastSkipped, p["skipped"]),
                     maxFound |-> rep.maxFound]
  <2> DEFINE x == Larger(rep.lastParsed, p["parsed"])
             y == Larger(rep.lastSkipped, p["skipped"])
  <2>1. p.parsed = p["parsed"] /\ p.skipped = p["skipped"]
    BY DEF Counter
  <2>2. Remember(p) = [rep EXCEPT !.lastParsed = x, !.lastSkipped = y]
    BY <2>1 DEF Remember
  <2> HIDE DEF x, y
  <2>3. rep \in [lastParsed : Int, lastSkipped : Int, maxFound : Int]
    BY DEF Typed
  <2>4. Remember(p) = [lastParsed |-> x, lastSkipped |-> y, maxFound |-> rep.maxFound]
    BY <2>2, <2>3
  <2> QED
    BY <2>4 DEF x, y
<1>3. Larger(rep.lastParsed, p["parsed"]) \in Int /\ Larger(rep.lastSkipped, p["skipped"]) \in Int
  BY <1>1 DEF Larger
<1> QED
  BY <1>1, <1>2, <1>3

-----------------------------------------------------------------------------
RepType == [lastParsed : Int, lastSkipped : Int, maxFound : Int]

(* What is shown never falls.                                              *)
Forward == bar'.cur >= bar.cur /\ bar'.max >= bar.max

(* Facts about the numbers in a state of the invariant.                    *)
LEMMA Numbers ==
  ASSUME BarInv
  PROVE  /\ bar \in Shown /\ bar.cur \in Int /\ bar.max \in Int /\ bar.active \in BOOLEAN
         /\ rep \in RepType /\ rep.lastParsed \in Int /\ rep.lastSkipped \in Int /\ rep.maxFound \in Int
         /\ \A c \in Counter : count[c] \in Int
         /\ \A c \in Total : 0 <= count[c] /\ c \in Counter
         /\ count.scan = count["scan"] /\ count.found = count["found"]
         /\ count.parsed = count["parsed"] /\ count.skipped = count["skipped"]
BY DEF BarInv, Typed, NeverAhead, Shown, RepType, Total, Counter

(* The part report and sync share: a bar whose maximum was raised to what  *)
(* a snapshot says was found, and to which its new work is added.          *)
LEMMA ShareFacts ==
  ASSUME BarInv, ~bar.done, NEW p \in [Counter -> Int], \A c \in Total : p[c] <= count[c],
         NEW b \in Shown, ~b.done, b.cur = bar.cur, b.max >= bar.max,
         b.max <= Larger(bar.max, Larger(FoundIn(p), bar.cur)),
         b.active = bar.active, b.canceling = bar.canceling,
         NEW a, a = AddNew(b, p), NEW r, r = Remember(p)
  PROVE  /\ a \in Shown /\ ~a.done /\ r \in RepType /\ r.maxFound = rep.maxFound
         /\ a.cur >= bar.cur /\ a.max >= bar.max
         /\ a.cur = r.lastParsed + r.lastSkipped
         /\ r.lastParsed <= count["parsed"] /\ r.lastSkipped <= count["skipped"]
         /\ a.cur <= a.max
         /\ a.max <= Larger(count["scan"] + count["found"], count["parsed"] + count["skipped"])
         /\ a.active = bar.active /\ a.canceling = bar.canceling
<1> USE Numbers
<1>1. /\ p["scan"] \in Int /\ p["found"] \in Int /\ p["parsed"] \in Int /\ p["skipped"] \in Int
      /\ p.scan = p["scan"] /\ p.found = p["found"]
      /\ p["scan"] <= count["scan"] /\ p["found"] <= count["found"]
      /\ p["parsed"] <= count["parsed"] /\ p["skipped"] <= count["skipped"]
  BY DEF Total, Counter
<1>2. /\ count["scan"] \in Int /\ count["found"] \in Int
      /\ count["parsed"] \in Int /\ count["skipped"] \in Int
  BY DEF Total
<1>3. b.cur \in Int /\ b.max \in Int
  BY DEF Shown
<1>4. /\ bar.cur = rep.lastParsed + rep.lastSkipped
      /\ rep.lastParsed <= count["parsed"] /\ rep.lastSkipped <= count["skipped"]
      /\ bar.cur <= bar.max
      /\ bar.max <= Larger(count["scan"] + count["found"], count["parsed"] + count["skipped"])
  BY DEF BarInv, NeverOverstates
<1>5. b.cur <= b.max
  BY <1>3, <1>4
<1>6. FoundIn(p) = p["scan"] + p["found"]
  BY <1>1 DEF FoundIn
<1>7. /\ a \in Shown /\ ~a.done /\ a.cur >= b.cur /\ a.max >= b.max /\ a.cur <= a.max
      /\ a.cur = Larger(rep.lastParsed, p["parsed"]) + Larger(rep.lastSkipped, p["skipped"])
      /\ a.max <= Larger(b.max, a.cur)
      /\ a.active = b.active /\ a.canceling = b.canceling
  BY <1>4, <1>5, AddNewFacts DEF BarInv
<1>8. /\ r \in RepType /\ r.maxFound = rep.maxFound
      /\ r.lastParsed = Larger(rep.lastParsed, p["parsed"])
      /\ r.lastSkipped = Larger(rep.lastSkipped, p["skipped"])
  BY RememberFacts DEF BarInv, RepType
<1>9. a.cur \in Int /\ a.max \in Int
  BY <1>7 DEF Shown
<1>10. /\ r.lastParsed <= count["parsed"] /\ r.lastSkipped <= count["skipped"]
       /\ r.lastParsed \in Int /\ r.lastSkipped \in Int
  BY <1>1, <1>2, <1>4, <1>8 DEF Larger
<1>11. a.max <= Larger(count["scan"] + count["found"], count["parsed"] + count["skipped"])
  <2>1. a.cur <= count["parsed"] + count["skipped"] /\ bar.cur <= count["parsed"] + count["skipped"]
    BY <1>2, <1>4, <1>7, <1>8, <1>10
  <2>2. b.max <= Larger(count["scan"] + count["found"], count["parsed"] + count["skipped"])
    BY <1>1, <1>2, <1>3, <1>4, <1>6, <2>1 DEF Larger
  <2> QED
    BY <1>2, <1>3, <1>7, <1>9, <2>1, <2>2 DEF Larger
<1> QED
  BY <1>3, <1>7, <1>8, <1>9, <1>10, <1>11

(* A snapshot reaches the bar.                                             *)
LEMMA ReportFacts ==
  ASSUME BarInv, ~bar.done, NEW p \in [Counter -> Int], \A c \in Total : p[c] <= count[c],
         report(p), UNCHANGED count
  PROVE  /\ bar' \in Shown /\ rep' \in RepType /\ bar'.done = bar.done
         /\ NeverOverstates' /\ StaysCanceled' /\ Forward
<1> USE Numbers
<1> DEFINE raised == IF FoundIn(p) > rep.maxFound THEN SetMax(bar, FoundIn(p)) ELSE bar
           a == AddNew(raised, p)
           r == Remember(p)
<1>1. FoundIn(p) \in Int
  BY DEF FoundIn, Counter
<1>2. /\ raised \in Shown /\ ~raised.done /\ raised.cur = bar.cur /\ raised.max >= bar.max
      /\ raised.max <= Larger(bar.max, Larger(FoundIn(p), bar.cur))
      /\ raised.active = bar.active /\ raised.canceling = bar.canceling
  <2>1. CASE FoundIn(p) > rep.maxFound
    BY <1>1, <2>1, SetMaxFacts
  <2>2. CASE ~(FoundIn(p) > rep.maxFound)
    <3>1. bar.max <= Larger(bar.max, Larger(FoundIn(p), bar.cur))
      BY <1>1 DEF Larger
    <3> QED
      BY <2>2, <3>1
  <2> QED
    BY <2>1, <2>2
<1>3. bar' = ApplyActive(a, p.active) /\ rep' = [r EXCEPT !.maxFound = Larger(rep.maxFound, FoundIn(p))]
  <2>1. r.maxFound = rep.maxFound
    BY RememberFacts DEF BarInv
  <2> QED
    BY <2>1 DEF report
<1> HIDE DEF raised
<1>4. /\ a \in Shown /\ ~a.done /\ r \in RepType /\ r.maxFound = rep.maxFound
      /\ a.cur >= bar.cur /\ a.max >= bar.max
      /\ a.cur = r.lastParsed + r.lastSkipped
      /\ r.lastParsed <= count["parsed"] /\ r.lastSkipped <= count["skipped"]
      /\ a.cur <= a.max
      /\ a.max <= Larger(count["scan"] + count["found"], count["parsed"] + count["skipped"])
      /\ a.active = bar.active /\ a.canceling = bar.canceling
  BY <1>2, ShareFacts
<1> HIDE DEF a, r
<1>5. /\ bar' \in Shown /\ bar'.cur = a.cur /\ bar'.max = a.max /\ bar'.done = a.done
      /\ bar'.canceling = a.canceling /\ (bar'.active => ~a.canceling)
  <2>1. bar' = [cur |-> a.cur, max |-> a.max, active |-> p.active > 0 /\ ~a.canceling,
                canceling |-> a.canceling, done |-> a.done]
    BY <1>3, <1>4 DEF ApplyActive, Shown
  <2> QED
    BY <1>4, <2>1 DEF Shown
<1>6. rep' \in RepType /\ rep'.lastParsed = r.lastParsed /\ rep'.lastSkipped = r.lastSkipped
  <2>1. Larger(rep.maxFound, FoundIn(p)) \in Int
    BY <1>1 DEF Larger
  <2> QED
    BY <1>3, <1>4, <2>1 DEF RepType
<1>7. bar.done \in BOOLEAN /\ a.done \in BOOLEAN
  BY <1>4 DEF Shown
<1>8. StaysCanceled'
  BY <1>5 DEF StaysCanceled
<1> QED
  BY <1>4, <1>5, <1>6, <1>7, <1>8 DEF NeverOverstates, Forward

(* runScan reconciles the bar with the final counters.                     *)
LEMMA SyncFacts ==
  ASSUME BarInv, ~bar.done, NEW p \in [Counter -> Int], \A c \in Total : p[c] <= count[c],
         sync(p), UNCHANGED count
  PROVE  /\ bar' \in Shown /\ rep' \in RepType /\ bar'.done = bar.done
         /\ NeverOverstates' /\ StaysCanceled' /\ Forward
         /\ ~bar'.active
         /\ \A c \in {"parsed", "skipped"} : p[c] = count[c] =>
              IF c = "parsed" THEN rep'.lastParsed = count[c] ELSE rep'.lastSkipped = count[c]
<1> USE Numbers
<1> DEFINE raised == SetMax(bar, FoundIn(p))
           a == AddNew(raised, p)
<1>1. FoundIn(p) \in Int
  BY DEF FoundIn, Counter
<1>2. /\ raised \in Shown /\ ~raised.done /\ raised.cur = bar.cur /\ raised.max >= bar.max
      /\ raised.max <= Larger(bar.max, Larger(FoundIn(p), bar.cur))
      /\ raised.active = bar.active /\ raised.canceling = bar.canceling
  BY <1>1, SetMaxFacts
<1>3. bar' = [a EXCEPT !.active = FALSE] /\ rep' = Remember(p)
  BY DEF sync
<1> HIDE DEF raised
<1>4. /\ a \in Shown /\ ~a.done /\ rep' \in RepType
      /\ a.cur >= bar.cur /\ a.max >= bar.max
      /\ a.cur = rep'.lastParsed + rep'.lastSkipped
      /\ rep'.lastParsed <= count["parsed"] /\ rep'.lastSkipped <= count["skipped"]
      /\ a.cur <= a.max
      /\ a.max <= Larger(count["scan"] + count["found"], count["parsed"] + count["skipped"])
  BY <1>2, <1>3, ShareFacts
<1> HIDE DEF a
<1>5. /\ bar' \in Shown /\ bar'.cur = a.cur /\ bar'.max = a.max /\ bar'.done = a.done /\ ~bar'.active
  <2>1. bar' = [cur |-> a.cur, max |-> a.max, active |-> FALSE,
                canceling |-> a.canceling, done |-> a.done]
    BY <1>3, <1>4 DEF Shown
  <2> QED
    BY <1>4, <2>1 DEF Shown
<1>6. bar.done \in BOOLEAN /\ a.done \in BOOLEAN
  BY <1>4 DEF Shown
<1>7. StaysCanceled'
  BY <1>5 DEF StaysCanceled
<1>8. ASSUME NEW c \in {"parsed", "skipped"}, p[c] = count[c]
      PROVE  IF c = "parsed" THEN rep'.lastParsed = count[c] ELSE rep'.lastSkipped = count[c]
  <2>1. /\ rep'.lastParsed = Larger(rep.lastParsed, p["parsed"])
        /\ rep'.lastSkipped = Larger(rep.lastSkipped, p["skipped"])
    BY <1>3, RememberFacts DEF BarInv
  <2>2. rep.lastParsed <= count["parsed"] /\ rep.lastSkipped <= count["skipped"]
    BY DEF BarInv, NeverOverstates
  <2>3. count["parsed"] \in Int /\ count["skipped"] \in Int
    BY DEF Counter
  <2> QED
    BY <1>8, <2>1, <2>2, <2>3 DEF Larger
<1> QED
  BY <1>4, <1>5, <1>6, <1>7, <1>8 DEF NeverOverstates, Forward

-----------------------------------------------------------------------------
(* The invariant over the steps, by who takes them.                        *)
Others == Walkers \cup Workers

(* runScan, its ticker and the goroutines of Process are all different.    *)
LEMMA Actors ==
  /\ Ticker # Main /\ Ticker \notin Others /\ Main \notin Others
  /\ Reporters = Others \cup {Ticker, Main}
BY ProgressAssumption DEF Others, Reporters

(* Only r may be elsewhere after the step.                                 *)
Moves(r) == pc' \in [Reporters -> Label] /\ \A q \in Reporters \ {r} : pc'[q] = pc[q]

(* A walker or worker that has not ended keeps runScan in Process, so what *)
(* holds of the end is not at stake.                                       *)
LEMMA StillInProcess ==
  ASSUME BarInv, NEW w \in Others, pc[w] # "done"
  PROVE  pc[Main] = "process" /\ ~bar.done
BY DEF BarInv, Awaited, Others

(* A step of a walker or worker leaves the bar alone, and the counters it  *)
(* shows only grow.                                                        *)
LEMMA WorkFacts ==
  ASSUME BarInv, NEW w \in Others, pc[w] # "done", Moves(w),
         UNCHANGED <<rep, bar>>,
         count' \in [Counter -> Int], \A c \in Total : count[c] <= count'[c],
         lastScan' \in Int, lastScan' <= count'["scan"],
         snap' \in [Reporters -> [Counter -> Int]],
         \A r \in Reporters, c \in Total : snap'[r][c] <= count'[c]
  PROVE  BarInv' /\ Forward
<1> USE Numbers
<1>1. pc[Main] = "process" /\ ~bar.done
  BY StillInProcess
<1>2. pc' \in [Reporters -> Label] /\ pc'[Main] = "process"
  BY <1>1, Actors DEF Moves
<1>3. Typed'
  BY <1>2 DEF BarInv, Typed
<1>4. NeverAhead'
  <2>1. \A c \in Total : count'[c] \in Int /\ count[c] \in Int
    BY DEF Total, Counter
  <2> QED
    BY <2>1 DEF BarInv, NeverAhead
<1>5. Awaited' /\ Synced'
  BY <1>1, <1>2 DEF Awaited, Synced
<1>6. NeverOverstates'
  <2>1. /\ count["scan"] <= count'["scan"] /\ count["found"] <= count'["found"]
        /\ count["parsed"] <= count'["parsed"] /\ count["skipped"] <= count'["skipped"]
        /\ count'["scan"] \in Int /\ count'["found"] \in Int
        /\ count'["parsed"] \in Int /\ count'["skipped"] \in Int
        /\ count["scan"] \in Int /\ count["found"] \in Int
        /\ count["parsed"] \in Int /\ count["skipped"] \in Int
    BY DEF Total, Counter
  <2>2. /\ bar.cur = rep.lastParsed + rep.lastSkipped
        /\ rep.lastParsed <= count["parsed"] /\ rep.lastSkipped <= count["skipped"]
        /\ bar.cur <= bar.max
        /\ bar.max <= Larger(count["scan"] + count["found"], count["parsed"] + count["skipped"])
    BY DEF BarInv, NeverOverstates
  <2>3. bar.max <= Larger(count'["scan"] + count'["found"], count'["parsed"] + count'["skipped"])
    BY <2>1, <2>2 DEF Larger
  <2>4. /\ count'.scan = count'["scan"] /\ count'.found = count'["found"]
        /\ count'.parsed = count'["parsed"] /\ count'.skipped = count'["skipped"]
    OBVIOUS
  <2> QED
    BY <2>1, <2>2, <2>3, <2>4 DEF NeverOverstates
<1>7. StaysCanceled'
  BY DEF BarInv, StaysCanceled
<1>8. Forward
  BY DEF Forward
<1> QED
  BY <1>3, <1>4, <1>5, <1>6, <1>7, <1>8 DEF BarInv

(* A counter that is bumped stays a number, and only active ever falls.    *)
LEMMA BumpFacts ==
  ASSUME BarInv, NEW c \in Counter, NEW n \in Int, Bump(c, n), n >= 0 \/ c = "active"
  PROVE  /\ count' \in [Counter -> Int] /\ \A d \in Total : count[d] <= count'[d]
         /\ count["scan"] <= count'["scan"]
<1>1. count \in [Counter -> Int]
  BY DEF BarInv, Typed
<1>2. count' = [count EXCEPT ![c] = count[c] + n]
  BY DEF Bump
<1>3. count[c] + n \in Int
  BY <1>1
<1>4. count' \in [Counter -> Int]
  BY <1>1, <1>2, <1>3
<1>5. \A d \in Counter : count'[d] = IF d = c THEN count[c] + n ELSE count[d]
  BY <1>1, <1>2
<1>6. "active" \notin Total /\ Total \subseteq Counter /\ "scan" \in Total
  BY DEF Total, Counter
<1>7. \A d \in Total : count[d] <= count'[d]
  BY <1>1, <1>3, <1>5, <1>6
<1> QED
  BY <1>4, <1>6, <1>7

(* The counters grow, and nothing else that matters to the bar changes.    *)
LEMMA CountFacts ==
  ASSUME BarInv, NEW w \in Others, pc[w] # "done", Moves(w), UNCHANGED <<lastScan, snap, rep, bar>>,
         UNCHANGED count \/ \E c \in Counter, n \in Int : Bump(c, n) /\ (n >= 0 \/ c = "active")
  PROVE  BarInv' /\ Forward
<1> USE Numbers
<1>1. /\ count' \in [Counter -> Int] /\ \A d \in Total : count[d] <= count'[d]
      /\ count["scan"] <= count'["scan"]
  <2>1. CASE UNCHANGED count
    BY <2>1 DEF BarInv, Typed, Total, Counter
  <2>2. CASE \E c \in Counter, n \in Int : Bump(c, n) /\ (n >= 0 \/ c = "active")
    BY <2>2, BumpFacts
  <2> QED
    BY <2>1, <2>2
<1>2. lastScan \in Int /\ lastScan <= count["scan"] /\ count["scan"] \in Int /\ count'["scan"] \in Int
  BY <1>1 DEF BarInv, Typed, NeverAhead, Counter
<1>3. \A r \in Reporters, c \in Total : snap'[r][c] <= count'[c]
  <2>1. \A r \in Reporters, c \in Total : snap[r][c] \in Int /\ count[c] \in Int /\ count'[c] \in Int
    BY <1>1 DEF BarInv, Typed, Total, Counter
  <2> QED
    BY <1>1, <2>1 DEF BarInv, NeverAhead
<1>4. lastScan' \in Int /\ lastScan' <= count'["scan"]
  BY <1>1, <1>2
<1>5. snap' \in [Reporters -> [Counter -> Int]]
  BY DEF BarInv, Typed
<1> QED
  BY <1>1, <1>3, <1>4, <1>5, WorkFacts

(* Walkers.                                                                *)
LEMMA WalkerStep ==
  ASSUME BarInv, NEW w \in Walkers, Walker(w)
  PROVE  BarInv' /\ Forward
<1>0. w \in Others /\ w \in Reporters
  BY Actors DEF Others
<1>1. CASE List(w)
  <2>1. pc[w] # "done" /\ (Goto(w, "list") \/ Goto(w, "scan")) /\ UNCHANGED <<count, lastScan, snap, rep, bar>>
    BY <1>1 DEF List
  <2>2. Moves(w)
    BY <1>0, <2>1 DEF Goto, Moves, BarInv, Typed, Label
  <2> QED
    BY <1>0, <2>1, <2>2, CountFacts
<1>2. CASE Find(w)
  <2>1. UNCHANGED count \/ Bump("scan", 1)
    BY <1>2 DEF Find
  <2>2. "scan" \in Counter /\ 1 \in Int /\ 1 >= 0
    BY DEF Counter
  <2>3. UNCHANGED count \/ \E c \in Counter, n \in Int : Bump(c, n) /\ (n >= 0 \/ c = "active")
    BY <2>1, <2>2
  <2>4. pc[w] # "done" /\ UNCHANGED <<pc, lastScan, snap, rep, bar>>
    BY <1>2 DEF Find
  <2>5. Moves(w)
    BY <2>4 DEF Moves, BarInv, Typed
  <2> QED
    BY <1>0, <2>3, <2>4, <2>5, CountFacts
<1>3. CASE Listed(w)
  <2>1. snap' = [snap EXCEPT ![w] = [snap[w] EXCEPT !["scan"] = count.scan]]
    BY <1>3 DEF Listed
  <2>2. w \in Reporters /\ snap \in [Reporters -> [Counter -> Int]] /\ count.scan \in Int
    BY <1>0, Actors, Numbers DEF BarInv, Typed, Counter
  <2>3. snap' \in [Reporters -> [Counter -> Int]]
    BY <2>1, <2>2
  <2>4. \A r \in Reporters, c \in Total : snap'[r][c] <= count[c]
    <3> SUFFICES ASSUME NEW r \in Reporters, NEW c \in Total PROVE snap'[r][c] <= count[c]
      OBVIOUS
    <3>1. c \in Counter /\ snap[r][c] <= count[c] /\ count[c] \in Int
      BY Numbers DEF BarInv, NeverAhead
    <3>2. snap'[r][c] = IF r = w /\ c = "scan" THEN count["scan"] ELSE snap[r][c]
      BY <2>1, <2>2, <3>1, Numbers
    <3> QED
      BY <3>1, <3>2
  <2>5. lastScan \in Int /\ lastScan <= count["scan"]
    BY DEF BarInv, Typed, NeverAhead
  <2>6. /\ pc[w] # "done" /\ Goto(w, "store") /\ UNCHANGED <<rep, bar, count, lastScan>>
    BY <1>3 DEF Listed
  <2>7. count \in [Counter -> Int] /\ \A c \in Total : count[c] <= count[c]
    BY DEF BarInv, Typed, Total, Counter
  <2>8. Moves(w)
    BY <1>0, <2>6 DEF Goto, Moves, BarInv, Typed, Label
  <2> QED
    BY <1>0, <2>3, <2>4, <2>5, <2>6, <2>7, <2>8, WorkFacts
<1>4. CASE setScanProgress(w)
  <2>1. /\ pc[w] # "done" /\ Goto(w, "scan") /\ UNCHANGED <<rep, bar, count, snap>>
        /\ lastScan' = snap[w]["scan"]
    BY <1>4 DEF setScanProgress
  <2>2. lastScan' \in Int /\ lastScan' <= count["scan"]
    BY <1>0, <2>1, Actors DEF BarInv, Typed, NeverAhead, Total, Counter
  <2>3. count \in [Counter -> Int] /\ \A c \in Total : count[c] <= count[c]
    BY DEF BarInv, Typed, Total, Counter
  <2>4. snap \in [Reporters -> [Counter -> Int]] /\ \A r \in Reporters, c \in Total : snap[r][c] <= count[c]
    BY DEF BarInv, Typed, NeverAhead
  <2>5. Moves(w)
    BY <1>0, <2>1 DEF Goto, Moves, BarInv, Typed, Label
  <2> QED
    BY <1>0, <2>1, <2>2, <2>3, <2>4, <2>5, WorkFacts
<1>5. CASE WalkerExits(w)
  <2>1. pc[w] # "done" /\ Goto(w, "done") /\ UNCHANGED <<lastScan, snap, rep, bar, count>>
    BY <1>5 DEF WalkerExits, workVars
  <2>2. Moves(w)
    BY <1>0, <2>1 DEF Goto, Moves, BarInv, Typed, Label
  <2> QED
    BY <1>0, <2>1, <2>2, CountFacts
<1> QED
  BY <1>1, <1>2, <1>3, <1>4, <1>5 DEF Walker

(* Parse workers.                                                          *)
LEMMA WorkerStep ==
  ASSUME BarInv, NEW w \in Workers, Worker(w)
  PROVE  BarInv' /\ Forward
<1>0. w \in Others /\ w \in Reporters
  BY Actors DEF Others
<1>1. pc[w] # "done" /\ UNCHANGED <<lastScan, snap, rep, bar>>
  BY DEF Worker, Connect, Pop, Reach, Parse, endWork, workVars
<1>2. Moves(w)
  <2>1. \/ UNCHANGED pc \/ Goto(w, "pop") \/ Goto(w, "done") \/ Goto(w, "unit")
        \/ Goto(w, "parse") \/ Goto(w, "scan")
    BY DEF Worker, Connect, Pop, Reach, Parse, endWork
  <2> QED
    BY <1>0, <2>1 DEF Goto, Moves, BarInv, Typed, Label
<1>3. UNCHANGED count \/ \E c \in Counter, n \in Int : Bump(c, n) /\ (n >= 0 \/ c = "active")
  <2>1. \/ UNCHANGED count \/ Bump("active", -1)
        \/ \E c \in {"active", "found", "skipped", "parsed"} : Bump(c, 1)
    BY DEF Worker, Connect, Pop, Reach, Parse, endWork, workVars
  <2>2. {"active", "found", "skipped", "parsed"} \subseteq Counter /\ 1 \in Int /\ -1 \in Int /\ 1 >= 0
    BY DEF Counter
  <2> QED
    BY <2>1, <2>2
<1> QED
  BY <1>0, <1>1, <1>2, <1>3, CountFacts

(* A snapshot that is replaced by a blank one is not ahead.                *)
LEMMA BlankFacts ==
  ASSUME BarInv, NEW r \in Reporters, snap' = [snap EXCEPT ![r] = Blank], UNCHANGED <<count, lastScan>>
  PROVE  NeverAhead' /\ snap' \in [Reporters -> [Counter -> Int]]
         /\ \A q \in Reporters \ {r} : snap'[q] = snap[q]
<1>1. Blank \in [Counter -> Int] /\ \A c \in Total : Blank[c] = 0
  BY DEF Blank, Total, Counter
<1>2. snap \in [Reporters -> [Counter -> Int]]
  BY DEF BarInv, Typed
<1>3. /\ snap' \in [Reporters -> [Counter -> Int]]
      /\ \A q \in Reporters : snap'[q] = IF q = r THEN Blank ELSE snap[q]
  BY <1>1, <1>2
<1>4. \A q \in Reporters, c \in Total : snap'[q][c] <= count[c]
  BY <1>1, <1>3 DEF BarInv, NeverAhead
<1> QED
  BY <1>3, <1>4 DEF BarInv, NeverAhead

(* What a reporter loads is not ahead, and the last load of runScan is all *)
(* there is.                                                               *)
LEMMA LoadStep ==
  ASSUME BarInv, NEW r \in Reporters, Load(r)
  PROVE  BarInv' /\ Forward
<1> USE Numbers
<1> DEFINE loaded == [c \in Counter |-> IF c \notin Loads[pc[r]] THEN snap[r][c]
                                        ELSE IF c = "scan" THEN lastScan ELSE count[c]]
<1>1. /\ pc[r] \in {"scan", "found", "work"}
      /\ snap' = [snap EXCEPT ![r] = loaded]
      /\ UNCHANGED <<count, lastScan, rep, bar>>
      /\ Goto(r, Following[pc[r]])
  BY DEF Load, Loads, workVars
<1>2. Following[pc[r]] \in {"found", "work", "report"}
      /\ (Following[pc[r]] = "report" => pc[r] = "work")
  BY <1>1 DEF Following
<1>3. pc' \in [Reporters -> Label] /\ \A q \in Reporters : pc'[q] = IF q = r THEN Following[pc[r]] ELSE pc[q]
  BY <1>1, <1>2 DEF Goto, BarInv, Typed, Label
<1>4. /\ snap \in [Reporters -> [Counter -> Int]] /\ lastScan \in Int /\ lastScan <= count["scan"]
      /\ \A c \in Total : snap[r][c] <= count[c]
      /\ Total \subseteq Counter
  BY DEF BarInv, Typed, NeverAhead
<1>5. loaded \in [Counter -> Int] /\ \A c \in Total : loaded[c] <= count[c]
  BY <1>4
<1>6. pc[r] = "work" => loaded["parsed"] = count["parsed"] /\ loaded["skipped"] = count["skipped"]
  BY DEF Loads, Counter
<1> HIDE DEF loaded
<1>7. snap' \in [Reporters -> [Counter -> Int]]
      /\ \A q \in Reporters : snap'[q] = IF q = r THEN loaded ELSE snap[q]
  BY <1>1, <1>4, <1>5
<1>8. NeverAhead'
  <2>1. \A q \in Reporters, c \in Total : snap'[q][c] <= count[c]
    BY <1>5, <1>7 DEF BarInv, NeverAhead
  <2> QED
    BY <1>1, <2>1 DEF BarInv, NeverAhead
<1>9. Awaited'
  <2>1. Main \in Reporters /\ Ticker \in Reporters /\ Ticker # Main /\ Others \subseteq Reporters /\ Main \notin Others
    BY Actors
  <2>2. pc[r] # "done" /\ pc[r] \notin {"process", "finish", "wait"}
    BY <1>1
  <2>3. ASSUME pc'[Main] # "process" PROVE \A w \in Others : pc'[w] = "done"
    BY <1>2, <1>3, <2>1, <2>2, <2>3 DEF BarInv, Awaited, Others
  <2>4. ASSUME pc'[Main] \notin {"process", "finish", "wait"} PROVE pc'[Ticker] = "done"
    BY <1>2, <1>3, <2>1, <2>2, <2>4 DEF BarInv, Awaited
  <2>5. ASSUME bar'.done PROVE pc'[Main] = "done"
    BY <1>1, <1>3, <2>1, <2>2, <2>5 DEF BarInv, Awaited
  <2> QED
    BY <2>3, <2>4, <2>5 DEF Awaited, Others
<1>10. Synced'
  <2>1. Main \in Reporters
    BY Actors
  <2>2. ASSUME pc'[Main] = "report", NEW c \in {"parsed", "skipped"} PROVE snap'[Main][c] = count'[c]
    <3>1. CASE r = Main
      BY <1>1, <1>2, <1>3, <1>6, <1>7, <2>1, <2>2, <3>1
    <3>2. CASE r # Main
      BY <1>1, <1>3, <1>7, <2>1, <2>2, <3>2 DEF BarInv, Synced
    <3> QED
      BY <3>1, <3>2
  <2>3. ASSUME pc'[Main] \in {"synced", "done"} PROVE pc[Main] \in {"synced", "done"}
    BY <1>2, <1>3, <2>1, <2>3
  <2> QED
    BY <1>1, <2>2, <2>3 DEF BarInv, Synced
<1>11. NeverOverstates' /\ StaysCanceled' /\ Forward
  BY <1>1 DEF BarInv, NeverOverstates, StaysCanceled, Forward
<1>12. Typed'
  BY <1>1, <1>3, <1>7 DEF BarInv, Typed
<1> QED
  BY <1>8, <1>9, <1>10, <1>11, <1>12 DEF BarInv

(* A snapshot reaches the bar while Process runs.                          *)
LEMMA ReportStep ==
  ASSUME BarInv, NEW r \in Reporters, Report(r)
  PROVE  BarInv' /\ Forward
<1>1. /\ r \in Others /\ pc[r] # "done" /\ report(snap[r])
      /\ snap' = [snap EXCEPT ![r] = Blank] /\ UNCHANGED <<count, lastScan>>
      /\ (Goto(r, "dir") \/ Goto(r, "unit"))
  BY DEF Report, Others, workVars
<1>2. pc[Main] = "process" /\ ~bar.done
  BY <1>1, StillInProcess
<1>3. pc' \in [Reporters -> Label] /\ pc'[Main] = "process"
  BY <1>1, <1>2, Actors DEF Goto, BarInv, Typed, Label
<1>4. snap[r] \in [Counter -> Int] /\ \A c \in Total : snap[r][c] <= count[c]
  BY DEF BarInv, Typed, NeverAhead
<1>5. /\ bar' \in Shown /\ rep' \in RepType /\ bar'.done = bar.done
      /\ NeverOverstates' /\ StaysCanceled' /\ Forward
  BY <1>1, <1>2, <1>4, ReportFacts
<1>6. NeverAhead' /\ snap' \in [Reporters -> [Counter -> Int]]
  BY <1>1, BlankFacts
<1>7. Typed'
  BY <1>1, <1>3, <1>5, <1>6 DEF BarInv, Typed, RepType
<1>8. Awaited' /\ Synced'
  BY <1>2, <1>3, <1>5 DEF Awaited, Synced
<1> QED
  BY <1>5, <1>6, <1>7, <1>8 DEF BarInv

(* The ticker draws, and leaves when Process has returned or is canceled.  *)
LEMMA TickerStep ==
  ASSUME BarInv, Tick \/ Ticked \/ TickerExits
  PROVE  BarInv' /\ Forward
<1> USE Numbers, Actors
<1>1. /\ pc[Ticker] \in {"idle", "report"} /\ UNCHANGED <<count, lastScan, rep>>
      /\ (Goto(Ticker, "work") \/ Goto(Ticker, "idle") \/ Goto(Ticker, "done"))
  BY DEF Tick, Ticked, TickerExits, tick, cancel, workVars
<1>2. pc[Main] \in {"process", "finish", "wait"} /\ ~bar.done
  BY <1>1 DEF BarInv, Awaited
<1>3. pc' \in [Reporters -> Label] /\ \A q \in Reporters \ {Ticker} : pc'[q] = pc[q]
  BY <1>1 DEF Goto, BarInv, Typed, Label
<1>4. bar' \in Shown /\ bar'.cur = bar.cur /\ bar'.max = bar.max /\ bar'.done = bar.done
      /\ (bar'.canceling => ~bar'.active)
  <2>1. CASE Tick \/ UNCHANGED bar
    BY <2>1 DEF Tick, BarInv, StaysCanceled
  <2>2. CASE Ticked
    <3>1. bar' = [bar EXCEPT !.active = snap[Ticker].active > 0 /\ ~bar.canceling]
      BY <2>2 DEF Ticked, tick, ApplyActive
    <3>2. bar' = [cur |-> bar.cur, max |-> bar.max, canceling |-> bar.canceling, done |-> bar.done,
                  active |-> snap[Ticker].active > 0 /\ ~bar.canceling]
      BY <3>1 DEF Shown
    <3> QED
      BY <3>2 DEF Shown
  <2>3. CASE cancel
    <3>1. bar' = [cur |-> bar.cur, max |-> bar.max, canceling |-> TRUE, done |-> bar.done,
                  active |-> FALSE]
      BY <2>3 DEF cancel, Shown
    <3> QED
      BY <3>1 DEF Shown
  <2> QED
    BY <2>1, <2>2, <2>3 DEF TickerExits
<1>5. NeverAhead' /\ snap' \in [Reporters -> [Counter -> Int]]
  <2>1. CASE Ticked
    BY <1>1, <2>1, BlankFacts DEF Ticked
  <2>2. CASE UNCHANGED snap
    BY <1>1, <2>2 DEF BarInv, NeverAhead, Typed
  <2> QED
    BY <2>1, <2>2 DEF Tick, TickerExits
<1>6. NeverOverstates' /\ StaysCanceled' /\ Forward
  BY <1>1, <1>4 DEF BarInv, NeverOverstates, StaysCanceled, Forward
<1>7. Typed'
  BY <1>1, <1>3, <1>4, <1>5 DEF BarInv, Typed, RepType
<1>8. Awaited' /\ Synced'
  BY <1>2, <1>3, <1>4 DEF BarInv, Awaited, Synced, Others
<1> QED
  BY <1>5, <1>6, <1>7, <1>8 DEF BarInv

(* runScan, after Process: it marks a cancellation, joins the ticker,      *)
(* reconciles the bar and ends it.                                         *)
LEMMA MainStep ==
  ASSUME BarInv, Returned \/ CloseStop \/ Waited \/ finish
  PROVE  BarInv' /\ Forward
<1> USE Numbers, Actors
<1>1. pc[Main] \in {"process", "finish", "wait", "synced"} /\ UNCHANGED <<count, lastScan, snap, rep>>
  BY DEF Returned, CloseStop, Waited, finish, cancel, workVars
<1>2. Goto(Main, "finish") \/ Goto(Main, "wait") \/ Goto(Main, "scan") \/ Goto(Main, "done")
  BY DEF Returned, CloseStop, Waited, finish
<1>3. pc' \in [Reporters -> Label] /\ \A q \in Reporters \ {Main} : pc'[q] = pc[q]
  BY <1>2 DEF Goto, BarInv, Typed, Label
<1>4. ~bar.done
  BY <1>1 DEF BarInv, Awaited
<1>5. bar' \in Shown /\ bar'.cur = bar.cur /\ bar'.max = bar.max
      /\ (bar'.canceling => ~bar'.active) /\ (bar'.active => bar.active)
      /\ (bar'.done => finish)
  <2>1. CASE UNCHANGED bar
    BY <1>4, <2>1 DEF BarInv, StaysCanceled
  <2>2. CASE cancel
    <3>1. bar' = [cur |-> bar.cur, max |-> bar.max, canceling |-> TRUE, done |-> bar.done,
                  active |-> FALSE]
      BY <2>2 DEF cancel, Shown
    <3> QED
      BY <1>4, <3>1 DEF Shown
  <2>3. CASE finish
    <3>1. bar' = [cur |-> bar.cur, max |-> bar.max, canceling |-> bar.canceling, done |-> TRUE,
                  active |-> bar.active]
      BY <2>3 DEF finish, Shown
    <3> QED
      BY <2>3, <3>1 DEF Shown, BarInv, StaysCanceled
  <2> QED
    BY <2>1, <2>2, <2>3 DEF Returned, CloseStop, Waited
<1>6. NeverAhead' /\ NeverOverstates' /\ StaysCanceled' /\ Forward /\ Typed'
  BY <1>1, <1>3, <1>5 DEF BarInv, NeverAhead, NeverOverstates, StaysCanceled, Forward, Typed
<1>7. Awaited'
  <2>1. \A w \in Walkers \cup Workers : pc[w] = "done" /\ pc'[w] = "done"
    <3>1. pc[Main] # "process" \/ Returned
      BY DEF Returned, CloseStop, Waited, finish
    <3> QED
      BY <1>3, <3>1 DEF BarInv, Awaited, Returned, WalkersDone, Others
  <2>2. pc'[Main] \notin {"process", "finish", "wait"} => pc'[Ticker] = "done"
    <3>1. CASE Waited
      BY <1>3, <3>1 DEF Waited
    <3>2. CASE finish
      BY <1>3, <3>2 DEF finish, BarInv, Awaited
    <3>3. CASE Returned \/ CloseStop
      <4>1. pc'[Main] \in {"finish", "wait"}
        BY <3>3 DEF Returned, CloseStop, Goto, BarInv, Typed
      <4> QED
        BY <4>1
    <3> QED
      BY <3>1, <3>2, <3>3
  <2>3. bar'.done => pc'[Main] = "done"
    BY <1>5 DEF finish, Goto, BarInv, Typed
  <2> QED
    BY <2>1, <2>2, <2>3 DEF Awaited
<1>8. Synced'
  <2>1. CASE finish
    <3>1. pc[Main] = "synced" /\ pc'[Main] = "done"
      BY <2>1 DEF finish, Goto, BarInv, Typed
    <3> QED
      BY <1>1, <1>5, <3>1 DEF BarInv, Synced, Shown
  <2>2. CASE Returned \/ CloseStop \/ Waited
    <3>1. pc'[Main] \in {"finish", "wait", "scan"}
      BY <2>2 DEF Returned, CloseStop, Waited, Goto, BarInv, Typed
    <3> QED
      BY <3>1 DEF Synced
  <2> QED
    BY <2>1, <2>2
<1> QED
  BY <1>6, <1>7, <1>8 DEF BarInv

(* runScan reconciles the bar with what its last snapshot says.            *)
LEMMA SyncStep ==
  ASSUME BarInv, Sync
  PROVE  BarInv' /\ Forward
<1> USE Numbers, Actors
<1>1. /\ pc[Main] = "report" /\ sync(snap[Main]) /\ UNCHANGED <<count, lastScan, snap>>
      /\ Goto(Main, "synced")
  BY DEF Sync, workVars
<1>2. /\ pc' \in [Reporters -> Label] /\ pc'[Main] = "synced"
      /\ \A q \in Reporters \ {Main} : pc'[q] = pc[q]
  BY <1>1 DEF Goto, BarInv, Typed, Label
<1>3. ~bar.done
  BY <1>1 DEF BarInv, Awaited
<1>4. /\ snap[Main] \in [Counter -> Int] /\ \A c \in Total : snap[Main][c] <= count[c]
      /\ \A c \in {"parsed", "skipped"} : snap[Main][c] = count[c]
  BY <1>1 DEF BarInv, Typed, NeverAhead, Synced
<1>5. /\ bar' \in Shown /\ rep' \in RepType /\ bar'.done = bar.done
      /\ NeverOverstates' /\ StaysCanceled' /\ Forward /\ ~bar'.active
      /\ \A c \in {"parsed", "skipped"} : snap[Main][c] = count[c] =>
           IF c = "parsed" THEN rep'.lastParsed = count[c] ELSE rep'.lastSkipped = count[c]
  BY <1>1, <1>3, <1>4, SyncFacts
<1>6. NeverAhead' /\ Typed'
  BY <1>1, <1>2, <1>5 DEF BarInv, NeverAhead, Typed, RepType
<1>7. Awaited'
  BY <1>1, <1>2, <1>3, <1>5 DEF BarInv, Awaited, Others
<1>8. Synced'
  BY <1>1, <1>2, <1>4, <1>5 DEF Synced
<1> QED
  BY <1>5, <1>6, <1>7, <1>8 DEF BarInv

-----------------------------------------------------------------------------
(* The invariant of every scan: it holds when runScan sets up the bar.     *)
LEMMA InitBar == Init => BarInv
<1> SUFFICES ASSUME Init PROVE BarInv
  OBVIOUS
<1> USE Actors DEF Init
<1>1. /\ count \in [Counter -> Int] /\ \A c \in Counter : count[c] = 0
      /\ snap = [r \in Reporters |-> count]
  BY DEF Blank
<1>2. /\ rep \in RepType /\ bar \in Shown /\ lastScan = 0
  BY DEF RepType, Shown
<1>3. pc \in [Reporters -> Label] /\ pc[Main] = "process"
  BY DEF Label, Others
<1>4. Typed
  BY <1>1, <1>2, <1>3 DEF Typed, RepType
<1>5. NeverAhead
  BY <1>1, <1>2 DEF NeverAhead, Total, Counter
<1>6. Awaited /\ Synced
  BY <1>3 DEF Awaited, Synced
<1>7. NeverOverstates /\ StaysCanceled
  <2>1. /\ count.parsed = 0 /\ count.skipped = 0 /\ count.scan = 0 /\ count.found = 0
    BY <1>1 DEF Counter
  <2> QED
    BY <2>1 DEF NeverOverstates, StaysCanceled, Larger
<1> QED
  BY <1>4, <1>5, <1>6, <1>7 DEF BarInv

(* Ctrl-C changes the context only, and a finished scan nothing.           *)
LEMMA StillStep ==
  ASSUME BarInv, UNCHANGED <<count, lastScan, snap, pc, rep, bar>>
  PROVE  BarInv' /\ Forward
BY Numbers DEF BarInv, Typed, NeverAhead, Awaited, Synced, NeverOverstates, StaysCanceled, Forward

(* Every step keeps the invariant, and takes the bar forward.              *)
LEMMA NextBar == BarInv /\ [Next]_vars => BarInv' /\ Forward
<1> SUFFICES ASSUME BarInv, [Next]_vars PROVE BarInv' /\ Forward
  OBVIOUS
<1>1. CASE \E w \in Walkers : Walker(w)
  BY <1>1, WalkerStep
<1>2. CASE \E w \in Workers : Worker(w)
  BY <1>2, WorkerStep
<1>3. CASE \E r \in Reporters : Step(r)
  BY <1>3, LoadStep, ReportStep DEF Step
<1>4. CASE Tick \/ Ticked \/ TickerExits
  BY <1>4, TickerStep
<1>5. CASE RunScan
  BY <1>5, MainStep, SyncStep DEF RunScan
<1>6. CASE Interrupt \/ Over \/ UNCHANGED vars
  BY <1>6, StillStep DEF Interrupt, Over, vars, workVars
<1> QED
  BY <1>1, <1>2, <1>3, <1>4, <1>5, <1>6 DEF Next

(* So it holds at every step of every goroutine.                           *)
LEMMA BarAlways == Spec => []BarInv
BY InitBar, NextBar, PTL DEF Spec

(* The bar counts nothing twice and nothing that was not done, and never   *)
(* shows more work than its maximum, which is never more than was found or *)
(* done: report and sync may get snapshots in any order, from any number   *)
(* of goroutines.                                                          *)
THEOREM ShowsWhatWasDone == Spec => []NeverOverstates
<1>1. BarInv => NeverOverstates
  BY DEF BarInv
<1> QED
  BY <1>1, BarAlways, PTL

(* A display that was canceled never looks like a running scan again.      *)
THEOREM CanceledForGood == Spec => []StaysCanceled
<1>1. BarInv => StaysCanceled
  BY DEF BarInv
<1> QED
  BY <1>1, BarAlways, PTL

(* A late snapshot never takes the bar back.                               *)
THEOREM BarNeverBack == Spec => NeverBack
<1>1. BarInv /\ [Next]_vars => [bar'.cur >= bar.cur /\ bar'.max >= bar.max]_vars
  BY NextBar DEF Forward
<1> QED
  BY <1>1, BarAlways, PTL DEF Spec, NeverBack

(* The finished bar shows all that was counted, nothing in flight, and     *)
(* nobody is left to draw on it: finish is after the join of the ticker    *)
(* and of all goroutines of Process.                                       *)
THEOREM FinishedExact == Spec => []EndsExact
<1>1. BarInv => EndsExact
  <2> SUFFICES ASSUME BarInv, bar.done
               PROVE  /\ bar.cur = count.parsed + count.skipped /\ ~bar.active
                      /\ \A r \in Reporters : pc[r] = "done"
    BY DEF EndsExact
  <2>1. pc[Main] = "done" /\ pc[Ticker] = "done" /\ \A w \in Others : pc[w] = "done"
    BY DEF BarInv, Awaited, Others
  <2>2. bar.cur = count["parsed"] + count["skipped"] /\ ~bar.active
    BY <2>1 DEF BarInv, Synced, NeverOverstates
  <2> QED
    BY <2>1, <2>2, Actors, Numbers
<1> QED
  BY <1>1, BarAlways, PTL

-----------------------------------------------------------------------------
(* A set that has zero, and the successor of each of its numbers, has all. *)
LEMMA Induct ==
  ASSUME NEW T, 0 \in T, \A k \in Nat : k \in T => k + 1 \in T
  PROVE  \A n \in Nat : n \in T
<1> DEFINE Missing == {n \in Nat : n \notin T}
<1> SUFFICES ASSUME Missing # {} PROVE FALSE
  OBVIOUS
<1>1. PICK n \in Missing : \A j \in Missing : ~(j < n)
  <2>1. \E n \in Missing : \A j \in Missing : ~(<<j, n>> \in OpToRel(<, Nat))
    <3>1. Missing \subseteq Nat
      OBVIOUS
    <3> HIDE DEF Missing
    <3> QED
      BY <3>1, NatLessThanWellFounded, WFMin
  <2> QED
    BY <2>1 DEF OpToRel
<1>2. n # 0 /\ n - 1 \in Nat /\ n - 1 < n
  BY <1>1
<1>3. n - 1 \in T
  BY <1>1, <1>2
<1> QED
  BY <1>1, <1>2, <1>3

(* The largest number of a set of the first n + 1 that has n + 1.          *)
LEMMA MaxOfSuccessor ==
  ASSUME NEW n \in Nat, NEW s \in SUBSET (1..n+1), n + 1 \in s
  PROVE  Max(s) = n + 1
<1>1. \A x \in s : x \in Nat /\ n + 1 >= x
  OBVIOUS
<1>2. \A x \in s : (\A y \in s : x >= y) <=> x = n + 1
  BY <1>1
<1> QED
  BY <1>2, Zenon DEF Max

(* A set of numbers up to n that is not empty has its largest number.      *)
LEMMA MaxInside ==
  ASSUME NEW n \in Nat
  PROVE  \A s \in SUBSET (1..n) : s # {} => Max(s) \in s
<1> DEFINE T == {k \in Nat : \A s \in SUBSET (1..k) : s # {} => Max(s) \in s}
<1>1. 0 \in T
  <2>1. 1..0 = {}
    OBVIOUS
  <2> QED
    BY <2>1
<1>2. ASSUME NEW k \in Nat, k \in T PROVE k + 1 \in T
  <2> SUFFICES ASSUME NEW s \in SUBSET (1..k+1), s # {} PROVE Max(s) \in s
    OBVIOUS
  <2>1. CASE k + 1 \in s
    BY <2>1, MaxOfSuccessor
  <2>2. CASE k + 1 \notin s
    BY <1>2, <2>2
  <2> QED
    BY <2>1, <2>2
<1> HIDE DEF T
<1>3. n \in T
  BY <1>1, <1>2, Induct
<1> QED
  BY <1>3 DEF T

(* The sets of the first n numbers are finite, and smaller without one of  *)
(* their elements.                                                         *)
LEMMA SizeOfNumbers ==
  ASSUME NEW n \in Nat, NEW s \in SUBSET (1..n)
  PROVE  /\ IsFiniteSet(s) /\ Cardinality(s) \in 0..n /\ (Cardinality(s) = 0 <=> s = {})
         /\ \A x \in s : Cardinality(s \ {x}) = Cardinality(s) - 1
<1>1. IsFiniteSet(1..n) /\ Cardinality(1..n) = n
  BY FS_Interval
<1>2. IsFiniteSet(s) /\ Cardinality(s) <= n /\ Cardinality(s) \in Nat
  BY <1>1, FS_Subset, FS_CardinalityType
<1>3. Cardinality(s) = 0 <=> s = {}
  BY <1>2, FS_EmptySet
<1>4. \A x \in s : Cardinality(s \ {x}) = Cardinality(s) - 1
  BY <1>2, FS_RemoveElement
<1> QED
  BY <1>2, <1>3, <1>4

(* c takes an element out of every set of the first n numbers, and F is    *)
(* the fold over them in that order, with the steps g.                     *)
Takes(n, c) == \A s \in SUBSET (1..n) : s # {} => c[s] \in s
Folded(base, n, g, c, F) ==
  F = [s \in SUBSET (1..n) |-> IF s = {} THEN base ELSE g[c[s]][F[s \ {c[s]}]]]

(* The equation of a fold has a solution, for steps that are functions     *)
(* from the values it may have to such values.                             *)
LEMMA FoldExists ==
  ASSUME NEW W, NEW base \in W, NEW n \in Nat, NEW g \in [1..n -> [W -> W]],
         NEW c, Takes(n, c)
  PROVE  \E F \in [SUBSET (1..n) -> W] : Folded(base, n, g, c, F)
<1> USE DEF Takes
<1> DEFINE One(F, s) == IF s = {} THEN base ELSE g[c[s]][F[s \ {c[s]}]]
           Reached(k) == \E F \in [SUBSET (1..n) -> W] :
                       \A s \in SUBSET (1..n) : Cardinality(s) <= k => F[s] = One(F, s)
           T == {k \in Nat : Reached(k)}
<1>0. ASSUME NEW F \in [SUBSET (1..n) -> W], NEW s \in SUBSET (1..n) PROVE One(F, s) \in W
  <2>1. CASE s # {}
    <3>1. c[s] \in 1..n /\ F[s \ {c[s]}] \in W
      BY <2>1
    <3>2. g[c[s]] \in [W -> W]
      BY <3>1
    <3> QED
      BY <3>1, <3>2
  <2> QED
    BY <2>1
<1>1. Reached(0)
  <2> DEFINE F == [s \in SUBSET (1..n) |-> base]
  <2>1. F \in [SUBSET (1..n) -> W]
    OBVIOUS
  <2>2. ASSUME NEW s \in SUBSET (1..n), Cardinality(s) <= 0 PROVE F[s] = One(F, s)
    BY <2>2, SizeOfNumbers
  <2> QED
    BY <2>1, <2>2
<1>2. ASSUME NEW k \in Nat, Reached(k) PROVE Reached(k + 1)
  <2>1. PICK F \in [SUBSET (1..n) -> W] :
               \A s \in SUBSET (1..n) : Cardinality(s) <= k => F[s] = One(F, s)
    BY <1>2
  <2> DEFINE G == [s \in SUBSET (1..n) |-> IF Cardinality(s) <= k THEN F[s] ELSE One(F, s)]
  <2>2. G \in [SUBSET (1..n) -> W]
    BY <1>0
  <2>3. ASSUME NEW s \in SUBSET (1..n), Cardinality(s) <= k + 1 PROVE G[s] = One(G, s)
    <3>1. G[s] = One(F, s)
      BY <2>1
    <3>2. CASE s # {}
      <4>1. c[s] \in s /\ s \ {c[s]} \in SUBSET (1..n)
        BY <3>2
      <4>2. Cardinality(s \ {c[s]}) = Cardinality(s) - 1 /\ Cardinality(s) \in Nat
        <5> DEFINE x == c[s]
      <5>1. x \in s
        BY <4>1
      <5> HIDE DEF x
      <5>2. Cardinality(s \ {x}) = Cardinality(s) - 1 /\ Cardinality(s) \in Nat
        BY <5>1, SizeOfNumbers
      <5> QED
        BY <5>2 DEF x
      <4>3. Cardinality(s \ {c[s]}) <= k
        BY <2>3, <4>2
      <4>4. G[s \ {c[s]}] = F[s \ {c[s]}]
        BY <4>1, <4>3
      <4> QED
        BY <3>1, <4>4
    <3> QED
      BY <3>1, <3>2
  <2> QED
    BY <2>2, <2>3
<1>3. Reached(n)
  <2> HIDE DEF Reached
  <2>1. 0 \in T /\ \A k \in Nat : k \in T => k + 1 \in T
    BY <1>1, <1>2
  <2> HIDE DEF T
  <2>2. n \in T
    BY <2>1, Induct
  <2> QED
    BY <2>2 DEF T
<1>4. PICK F \in [SUBSET (1..n) -> W] :
             \A s \in SUBSET (1..n) : Cardinality(s) <= n => F[s] = One(F, s)
  BY <1>3
<1>5. \A s \in SUBSET (1..n) : F[s] = One(F, s)
  <2> SUFFICES ASSUME NEW s \in SUBSET (1..n) PROVE F[s] = One(F, s)
    OBVIOUS
  <2>1. Cardinality(s) <= n
    <3>1. Cardinality(s) \in 0..n
      BY SizeOfNumbers
    <3> QED
      BY <3>1
  <2> QED
    BY <1>4, <2>1
<1>6. F = [s \in SUBSET (1..n) |-> F[s]]
  OBVIOUS
<1>7. [s \in SUBSET (1..n) |-> F[s]] = [s \in SUBSET (1..n) |-> One(F, s)]
  BY <1>5, Zenon
<1>8. F = [s \in SUBSET (1..n) |-> One(F, s)]
  BY <1>6, <1>7, Zenon
<1> QED
  BY <1>8 DEF Folded

(* A fold from the left takes the largest number last.  H is one as far as *)
(* its values are in W.                                                    *)
FoldsLeft(W, base, n, g, H) ==
  /\ H[{}] = base
  /\ \A s \in SUBSET (1..n) : s # {} /\ H[s \ {Max(s)}] \in W =>
       H[s] = g[Max(s)][H[s \ {Max(s)}]]

(* The same for a fold from the left.                                      *)
LEMMA MaxFold ==
  ASSUME NEW W, NEW base \in W, NEW n \in Nat, NEW g \in [1..n -> [W -> W]]
  PROVE  \E F \in [SUBSET (1..n) -> W] : FoldsLeft(W, base, n, g, F)
<1>1. \E c : c = [s \in SUBSET (1..n) |-> Max(s)]
  OBVIOUS
<1>2. ASSUME NEW c, c = [s \in SUBSET (1..n) |-> Max(s)]
      PROVE  \E F \in [SUBSET (1..n) -> W] : FoldsLeft(W, base, n, g, F)
  <2>1. \A s \in SUBSET (1..n) : c[s] = Max(s)
    BY <1>2
  <2>2. Takes(n, c)
    BY <2>1, MaxInside DEF Takes
  <2>3. PICK F \in [SUBSET (1..n) -> W] : Folded(base, n, g, c, F)
    BY <2>2, FoldExists
  <2>4. \A s \in SUBSET (1..n) : F[s] = IF s = {} THEN base ELSE g[c[s]][F[s \ {c[s]}]]
    BY <2>3 DEF Folded
  <2>5. F[{}] = base
    <3>1. {} \in SUBSET (1..n)
      OBVIOUS
    <3> QED
      BY <2>4, <3>1
  <2>6. ASSUME NEW s \in SUBSET (1..n), s # {} PROVE F[s] = g[Max(s)][F[s \ {Max(s)}]]
    BY <2>1, <2>4, <2>6
  <2> QED
    BY <2>5, <2>6 DEF FoldsLeft
<1> QED
  BY <1>1, <1>2

(* What a fold from the left goes through: the first k numbers after the   *)
(* first k - 1.                                                            *)
LEMMA Initials ==
  ASSUME NEW n \in Nat, NEW k \in 1..n
  PROVE  /\ 1..k \in SUBSET (1..n) /\ 1..k # {} /\ Max(1..k) = k
         /\ (1..k) \ {k} = 1..k-1 /\ k - 1 \in 0..n
<1>1. k - 1 \in Nat /\ k = (k - 1) + 1
  OBVIOUS
<1>2. Max(1..k) = k
  <2>1. \A m \in Nat : Max(1..m+1) = m + 1
    <3> SUFFICES ASSUME NEW m \in Nat PROVE Max(1..m+1) = m + 1
      OBVIOUS
    <3>1. 1..m+1 \in SUBSET (1..m+1) /\ m + 1 \in 1..m+1
      OBVIOUS
    <3> QED
      BY <3>1, MaxOfSuccessor
  <2> QED
    BY <1>1, <2>1
<1> QED
  BY <1>2

(* The values b of a loop with the steps g, before it and after each.      *)
Loop(W, base, n, g, b) ==
  /\ b \in [0..n -> W] /\ b[0] = base
  /\ \A k \in 1..n : b[k] = g[k][b[k-1]]

(* A fold from the left is a loop.                                         *)
LEMMA FoldIsLoop ==
  ASSUME NEW W, NEW base \in W, NEW n \in Nat, NEW g \in [1..n -> [W -> W]],
         NEW H, FoldsLeft(W, base, n, g, H)
  PROVE  \E b : Loop(W, base, n, g, b) /\ b[n] = H[1..n]
<1> DEFINE b == [k \in 0..n |-> H[1..k]]
           T == {k \in Nat : k <= n => b[k] \in W /\ (k # 0 => b[k] = g[k][b[k-1]])}
<1>1. 0 \in T /\ b[0] = base
  <2>1. 1..0 = {}
    OBVIOUS
  <2> QED
    BY <2>1 DEF FoldsLeft
<1>2. ASSUME NEW k \in Nat, k \in T PROVE k + 1 \in T
  <2> SUFFICES ASSUME k + 1 <= n PROVE k + 1 \in T
    OBVIOUS
  <2>1. k + 1 \in 1..n /\ (k + 1) - 1 = k /\ b[k] \in W /\ b[k] = H[1..k] /\ b[k+1] = H[1..k+1]
    BY <1>2
  <2>2. /\ 1..k+1 \in SUBSET (1..n) /\ 1..k+1 # {} /\ Max(1..k+1) = k + 1
        /\ (1..k+1) \ {k + 1} = 1..k
    <3> HIDE DEF b
    <3> QED
      BY <2>1, Initials
  <2>3. H[1..k+1] = g[k+1][H[1..k]]
    BY <2>1, <2>2 DEF FoldsLeft
  <2>4. g[k+1] \in [W -> W]
    BY <2>1
  <2>5. g[k+1][b[k]] \in W
    BY <2>1, <2>4
  <2> QED
    BY <2>1, <2>3, <2>5
<1>3. \A k \in Nat : k \in T
  <2> HIDE DEF T
  <2> QED
    BY <1>1, <1>2, Induct
<1>4. \A k \in 0..n : b[k] \in W /\ (k # 0 => b[k] = g[k][b[k-1]])
  <2> HIDE DEF b
  <2> QED
    BY <1>3
<1>5. \A k \in 1..n : b[k] = g[k][b[k-1]]
  <2> HIDE DEF b
  <2> QED
    BY <1>4
<1>6. b \in [0..n -> W] /\ b[n] = H[1..n]
  <2>1. \A k \in 0..n : H[1..k] \in W
    BY <1>4
  <2> QED
    BY <2>1
<1> HIDE DEF b
<1> QED
  BY <1>1, <1>5, <1>6 DEF Loop

(* A function over the first n numbers is a sequence.                      *)
LEMMA IsSeq ==
  ASSUME NEW S, NEW n \in Nat, NEW f \in [1..n -> S]
  PROVE  f \in Seq(S) /\ Len(f) = n /\ DOMAIN f = 1..n
OBVIOUS

(* The filter goes through its sequence element by element.                *)
OnlyLoop(S, s, set, b) ==
  /\ b \in [0..Len(s) -> Seq(S)]
  /\ b[0] = <<>> /\ Only(s, set) = b[Len(s)]
  /\ \A k \in 1..Len(s) : b[k] = IF s[k] \in set THEN Append(b[k-1], s[k]) ELSE b[k-1]

(* The filter is such a run.                                               *)
LEMMA OnlyRun ==
  ASSUME NEW S, NEW s \in Seq(S), NEW set
  PROVE  \E b : OnlyLoop(S, s, set, b)
<1> DEFINE n == Len(s)
           W == Seq(S)
           op(w, x) == IF x \in set THEN Append(w, x) ELSE w
           One(F, t) == IF t = {} THEN <<>> ELSE op(F[t \ {Max(t)}], s[Max(t)])
           g == [k \in 1..n |-> [w \in W |-> op(w, s[k])]]
<1>1. n \in Nat /\ DOMAIN s = 1..n /\ <<>> \in W
  OBVIOUS
<1>2. ASSUME NEW k \in 1..n, NEW w \in W PROVE op(w, s[k]) \in W
  OBVIOUS
<1>3. g \in [1..n -> [W -> W]] /\ \A k \in 1..n, w \in W : g[k][w] = op(w, s[k])
  <2> HIDE DEF op, W
  <2> QED
    BY <1>2
<1> HIDE DEF g, W, op
<1>4. \E F : F = [t \in SUBSET (1..n) |-> One(F, t)]
  <2>1. PICK F \in [SUBSET (1..n) -> W] : FoldsLeft(W, <<>>, n, g, F)
    BY <1>1, <1>3, MaxFold
  <2>2. ASSUME NEW t \in SUBSET (1..n) PROVE F[t] = One(F, t)
    <3>1. CASE t # {}
      <4>1. Max(t) \in 1..n /\ F[t \ {Max(t)}] \in W
        BY <1>1, <3>1, MaxInside
      <4> QED
        BY <1>3, <2>1, <3>1, <4>1 DEF FoldsLeft
    <3> QED
      BY <2>1, <3>1 DEF FoldsLeft
  <2>3. [t \in SUBSET (1..n) |-> F[t]] = [t \in SUBSET (1..n) |-> One(F, t)]
    BY <2>2, Zenon
  <2>4. F = [t \in SUBSET (1..n) |-> F[t]]
    OBVIOUS
  <2> QED
    BY <2>3, <2>4, Zenon
<1> DEFINE H == CHOOSE F : F = [t \in SUBSET (1..n) |-> One(F, t)]
<1>5. H = [t \in SUBSET (1..n) |-> One(H, t)]
  BY <1>4, Zenon
<1>6. Only(s, set) = H[1..n]
  BY <1>1 DEF Only, FoldLeft, MapThenFoldSet, op
<1> HIDE DEF H
<1>7. FoldsLeft(W, <<>>, n, g, H)
  <2>1. H[{}] = <<>>
    BY <1>5
  <2>2. ASSUME NEW t \in SUBSET (1..n), t # {}, H[t \ {Max(t)}] \in W
        PROVE  H[t] = g[Max(t)][H[t \ {Max(t)}]]
    <3>1. H[t] = op(H[t \ {Max(t)}], s[Max(t)]) /\ Max(t) \in 1..n
      BY <1>1, <1>5, <2>2, MaxInside
    <3> QED
      BY <1>3, <2>2, <3>1
  <2> QED
    BY <2>1, <2>2 DEF FoldsLeft
<1>8. PICK b : Loop(W, <<>>, n, g, b) /\ b[n] = H[1..n]
  <2>1. n \in Nat /\ g \in [1..n -> [W -> W]]
    BY <1>1, <1>3
  <2>2. <<>> \in W
    BY <1>1
  <2> HIDE DEF n
  <2> QED
    BY <2>1, <2>2, <1>7, FoldIsLoop
<1>9. b \in [0..n -> W] /\ b[0] = <<>> /\ \A k \in 1..n : b[k] = g[k][b[k-1]]
  BY <1>8 DEF Loop
<1>10. ASSUME NEW k \in 1..n PROVE b[k] = op(b[k-1], s[k])
  <2>0. k - 1 \in 0..n
    BY <1>1
  <2>1. k - 1 \in 0..n /\ b[k-1] \in W
    BY <1>9, <2>0
  <2> QED
    BY <1>3, <1>9, <2>1
<1> QED
  BY <1>6, <1>8, <1>9, <1>10 DEF W, op, OnlyLoop

(* What is filtered out of a sequence of S is one.                         *)
LEMMA OnlyTyped ==
  ASSUME NEW S, NEW s \in Seq(S), NEW set
  PROVE  Only(s, set) \in Seq(S)
<1>1. PICK b : OnlyLoop(S, s, set, b)
  BY OnlyRun
<1>2. Len(s) \in 0..Len(s)
  OBVIOUS
<1> QED
  BY <1>1, <1>2 DEF OnlyLoop

(* So does the removal of what was seen, by metaKey                        *)
DistinctLoop(S, s, b) ==
  /\ b \in [0..Len(s) -> Seq(S)]
  /\ b[0] = <<>> /\ Distinct(s, metaKey) = b[Len(s)]
  /\ \A k \in 1..Len(s) : b[k] = IF \E i \in DOMAIN b[k-1] : metaKey(b[k-1][i]) = metaKey(s[k])
                                      THEN b[k-1] ELSE Append(b[k-1], s[k])

(* The removal is such a run.                                              *)
LEMMA DistinctRun ==
  ASSUME NEW S, NEW s \in Seq(S)
  PROVE  \E b : DistinctLoop(S, s, b)
<1> DEFINE n == Len(s)
           W == Seq(S)
           op(w, x) == IF \E i \in DOMAIN w : metaKey(w[i]) = metaKey(x) THEN w ELSE Append(w, x)
           One(F, t) == IF t = {} THEN <<>> ELSE op(F[t \ {Max(t)}], s[Max(t)])
           g == [k \in 1..n |-> [w \in W |-> op(w, s[k])]]
<1>1. n \in Nat /\ DOMAIN s = 1..n /\ <<>> \in W
  OBVIOUS
<1>2. ASSUME NEW k \in 1..n, NEW w \in W PROVE op(w, s[k]) \in W
  OBVIOUS
<1>3. g \in [1..n -> [W -> W]] /\ \A k \in 1..n, w \in W : g[k][w] = op(w, s[k])
  <2> HIDE DEF op, W
  <2> QED
    BY <1>2
<1> HIDE DEF g, W, op
<1>4. \E F : F = [t \in SUBSET (1..n) |-> One(F, t)]
  <2>1. PICK F \in [SUBSET (1..n) -> W] : FoldsLeft(W, <<>>, n, g, F)
    BY <1>1, <1>3, MaxFold
  <2>2. ASSUME NEW t \in SUBSET (1..n) PROVE F[t] = One(F, t)
    <3>1. CASE t # {}
      <4>1. Max(t) \in 1..n /\ F[t \ {Max(t)}] \in W
        BY <1>1, <3>1, MaxInside
      <4> QED
        BY <1>3, <2>1, <3>1, <4>1 DEF FoldsLeft
    <3> QED
      BY <2>1, <3>1 DEF FoldsLeft
  <2>3. [t \in SUBSET (1..n) |-> F[t]] = [t \in SUBSET (1..n) |-> One(F, t)]
    BY <2>2, Zenon
  <2>4. F = [t \in SUBSET (1..n) |-> F[t]]
    OBVIOUS
  <2> QED
    BY <2>3, <2>4, Zenon
<1> DEFINE H == CHOOSE F : F = [t \in SUBSET (1..n) |-> One(F, t)]
<1>5. H = [t \in SUBSET (1..n) |-> One(H, t)]
  BY <1>4, Zenon
<1>6. Distinct(s, metaKey) = H[1..n]
  BY <1>1 DEF Distinct, FoldLeft, MapThenFoldSet, op
<1> HIDE DEF H
<1>7. FoldsLeft(W, <<>>, n, g, H)
  <2>1. H[{}] = <<>>
    BY <1>5
  <2>2. ASSUME NEW t \in SUBSET (1..n), t # {}, H[t \ {Max(t)}] \in W
        PROVE  H[t] = g[Max(t)][H[t \ {Max(t)}]]
    <3>1. H[t] = op(H[t \ {Max(t)}], s[Max(t)]) /\ Max(t) \in 1..n
      BY <1>1, <1>5, <2>2, MaxInside
    <3> QED
      BY <1>3, <2>2, <3>1
  <2> QED
    BY <2>1, <2>2 DEF FoldsLeft
<1>8. PICK b : Loop(W, <<>>, n, g, b) /\ b[n] = H[1..n]
  <2>1. n \in Nat /\ g \in [1..n -> [W -> W]]
    BY <1>1, <1>3
  <2>2. <<>> \in W
    BY <1>1
  <2> HIDE DEF n
  <2> QED
    BY <2>1, <2>2, <1>7, FoldIsLoop
<1>9. b \in [0..n -> W] /\ b[0] = <<>> /\ \A k \in 1..n : b[k] = g[k][b[k-1]]
  BY <1>8 DEF Loop
<1>10. ASSUME NEW k \in 1..n PROVE b[k] = op(b[k-1], s[k])
  <2>0. k - 1 \in 0..n
    BY <1>1
  <2>1. k - 1 \in 0..n /\ b[k-1] \in W
    BY <1>9, <2>0
  <2> QED
    BY <1>3, <1>9, <2>1
<1> QED
  BY <1>6, <1>8, <1>9, <1>10 DEF W, op, DistinctLoop

(* or as it is.                                                            *)
OnceLoop(S, s, b) ==
  /\ b \in [0..Len(s) -> Seq(S)]
  /\ b[0] = <<>> /\ Distinct(s, LAMBDA x : x) = b[Len(s)]
  /\ \A k \in 1..Len(s) : b[k] = IF \E i \in DOMAIN b[k-1] : b[k-1][i] = s[k] THEN b[k-1]
                                      ELSE Append(b[k-1], s[k])

(* The removal of what is equal is one.                                    *)
LEMMA PlainDistinctRun ==
  ASSUME NEW S, NEW s \in Seq(S)
  PROVE  \E b : OnceLoop(S, s, b)
<1> DEFINE n == Len(s)
           W == Seq(S)
           op(w, x) == IF \E i \in DOMAIN w : w[i] = x THEN w ELSE Append(w, x)
           One(F, t) == IF t = {} THEN <<>> ELSE op(F[t \ {Max(t)}], s[Max(t)])
           g == [k \in 1..n |-> [w \in W |-> op(w, s[k])]]
<1>1. n \in Nat /\ DOMAIN s = 1..n /\ <<>> \in W
  OBVIOUS
<1>2. ASSUME NEW k \in 1..n, NEW w \in W PROVE op(w, s[k]) \in W
  OBVIOUS
<1>3. g \in [1..n -> [W -> W]] /\ \A k \in 1..n, w \in W : g[k][w] = op(w, s[k])
  <2> HIDE DEF op, W
  <2> QED
    BY <1>2
<1> HIDE DEF g, W, op
<1>4. \E F : F = [t \in SUBSET (1..n) |-> One(F, t)]
  <2>1. PICK F \in [SUBSET (1..n) -> W] : FoldsLeft(W, <<>>, n, g, F)
    BY <1>1, <1>3, MaxFold
  <2>2. ASSUME NEW t \in SUBSET (1..n) PROVE F[t] = One(F, t)
    <3>1. CASE t # {}
      <4>1. Max(t) \in 1..n /\ F[t \ {Max(t)}] \in W
        BY <1>1, <3>1, MaxInside
      <4> QED
        BY <1>3, <2>1, <3>1, <4>1 DEF FoldsLeft
    <3> QED
      BY <2>1, <3>1 DEF FoldsLeft
  <2>3. [t \in SUBSET (1..n) |-> F[t]] = [t \in SUBSET (1..n) |-> One(F, t)]
    BY <2>2, Zenon
  <2>4. F = [t \in SUBSET (1..n) |-> F[t]]
    OBVIOUS
  <2> QED
    BY <2>3, <2>4, Zenon
<1> DEFINE H == CHOOSE F : F = [t \in SUBSET (1..n) |-> One(F, t)]
<1>5. H = [t \in SUBSET (1..n) |-> One(H, t)]
  BY <1>4, Zenon
<1>6. Distinct(s, LAMBDA x : x) = H[1..n]
  BY <1>1 DEF Distinct, FoldLeft, MapThenFoldSet, op
<1> HIDE DEF H
<1>7. FoldsLeft(W, <<>>, n, g, H)
  <2>1. H[{}] = <<>>
    BY <1>5
  <2>2. ASSUME NEW t \in SUBSET (1..n), t # {}, H[t \ {Max(t)}] \in W
        PROVE  H[t] = g[Max(t)][H[t \ {Max(t)}]]
    <3>1. H[t] = op(H[t \ {Max(t)}], s[Max(t)]) /\ Max(t) \in 1..n
      BY <1>1, <1>5, <2>2, MaxInside
    <3> QED
      BY <1>3, <2>2, <3>1
  <2> QED
    BY <2>1, <2>2 DEF FoldsLeft
<1>8. PICK b : Loop(W, <<>>, n, g, b) /\ b[n] = H[1..n]
  <2>1. n \in Nat /\ g \in [1..n -> [W -> W]]
    BY <1>1, <1>3
  <2>2. <<>> \in W
    BY <1>1
  <2> HIDE DEF n
  <2> QED
    BY <2>1, <2>2, <1>7, FoldIsLoop
<1>9. b \in [0..n -> W] /\ b[0] = <<>> /\ \A k \in 1..n : b[k] = g[k][b[k-1]]
  BY <1>8 DEF Loop
<1>10. ASSUME NEW k \in 1..n PROVE b[k] = op(b[k-1], s[k])
  <2>0. k - 1 \in 0..n
    BY <1>1
  <2>1. k - 1 \in 0..n /\ b[k-1] \in W
    BY <1>9, <2>0
  <2> QED
    BY <1>3, <1>9, <2>1
<1> QED
  BY <1>6, <1>8, <1>9, <1>10 DEF W, op, OnceLoop

(* A title more leaves a sequence of votes.                                *)
LEMMA TitleVoteTyped ==
  ASSUME NEW votes \in Seq([title : BookTexts, count : Nat]), NEW t \in BookTexts
  PROVE  TitleVote(votes, t) \in Seq([title : BookTexts, count : Nat])
<1> DEFINE pos == {k \in DOMAIN votes : metaKey(votes[k].title) = metaKey(t)}
           V == [title : BookTexts, count : Nat]
<1>1. CASE pos = {}
  BY <1>1 DEF TitleVote
<1>2. CASE pos # {}
  <2> DEFINE One(k) == IF k \notin pos THEN votes[k]
               ELSE [title |-> IF runeLen(t) > runeLen(votes[k].title) THEN t ELSE votes[k].title,
                     count |-> votes[k].count + 1]
  <2>1. TitleVote(votes, t) = [k \in DOMAIN votes |-> One(k)]
    BY <1>2 DEF TitleVote
  <2>2. DOMAIN votes = 1..Len(votes) /\ Len(votes) \in Nat /\ \A k \in DOMAIN votes : votes[k] \in V
    <3>1. votes \in Seq(V)
      OBVIOUS
    <3> HIDE DEF V
    <3> QED
      BY <3>1
  <2>3. \A k \in DOMAIN votes : One(k) \in V
    BY <2>2
  <2>4. [k \in 1..Len(votes) |-> One(k)] \in Seq(V)
    <3> HIDE DEF One
    <3> QED
      BY <2>2, <2>3
  <2> QED
    BY <2>1, <2>2, <2>4
<1> QED
  BY <1>1, <1>2

(* pickTitle counts the titles one by one.                                 *)
LEMMA TitleVotesRun ==
  ASSUME NEW s \in Seq(BookTexts)
  PROVE  \E b \in [0..Len(s) -> Seq([title : BookTexts, count : Nat])] :
           /\ b[0] = <<>> /\ FoldLeft(TitleVote, <<>>, s) = b[Len(s)]
           /\ \A k \in 1..Len(s) : b[k] = TitleVote(b[k-1], s[k])
<1> DEFINE n == Len(s)
           W == Seq([title : BookTexts, count : Nat])
           op(w, x) == TitleVote(w, x)
           One(F, t) == IF t = {} THEN <<>> ELSE op(F[t \ {Max(t)}], s[Max(t)])
           g == [k \in 1..n |-> [w \in W |-> op(w, s[k])]]
<1>1. n \in Nat /\ DOMAIN s = 1..n /\ <<>> \in W
  OBVIOUS
<1>2. ASSUME NEW k \in 1..n, NEW w \in W PROVE op(w, s[k]) \in W
  <2>1. s[k] \in BookTexts
    BY <1>1
  <2> QED
    BY <2>1, TitleVoteTyped
<1>3. g \in [1..n -> [W -> W]] /\ \A k \in 1..n, w \in W : g[k][w] = op(w, s[k])
  <2> HIDE DEF op, W
  <2> QED
    BY <1>2
<1> HIDE DEF g, W, op
<1>4. \E F : F = [t \in SUBSET (1..n) |-> One(F, t)]
  <2>1. PICK F \in [SUBSET (1..n) -> W] : FoldsLeft(W, <<>>, n, g, F)
    BY <1>1, <1>3, MaxFold
  <2>2. ASSUME NEW t \in SUBSET (1..n) PROVE F[t] = One(F, t)
    <3>1. CASE t # {}
      <4>1. Max(t) \in 1..n /\ F[t \ {Max(t)}] \in W
        BY <1>1, <3>1, MaxInside
      <4> QED
        BY <1>3, <2>1, <3>1, <4>1 DEF FoldsLeft
    <3> QED
      BY <2>1, <3>1 DEF FoldsLeft
  <2>3. [t \in SUBSET (1..n) |-> F[t]] = [t \in SUBSET (1..n) |-> One(F, t)]
    BY <2>2, Zenon
  <2>4. F = [t \in SUBSET (1..n) |-> F[t]]
    OBVIOUS
  <2> QED
    BY <2>3, <2>4, Zenon
<1> DEFINE H == CHOOSE F : F = [t \in SUBSET (1..n) |-> One(F, t)]
<1>5. H = [t \in SUBSET (1..n) |-> One(H, t)]
  BY <1>4, Zenon
<1>6. FoldLeft(TitleVote, <<>>, s) = H[1..n]
  BY <1>1 DEF TitleVote, FoldLeft, MapThenFoldSet, op
<1> HIDE DEF H
<1>7. FoldsLeft(W, <<>>, n, g, H)
  <2>1. H[{}] = <<>>
    BY <1>5
  <2>2. ASSUME NEW t \in SUBSET (1..n), t # {}, H[t \ {Max(t)}] \in W
        PROVE  H[t] = g[Max(t)][H[t \ {Max(t)}]]
    <3>1. H[t] = op(H[t \ {Max(t)}], s[Max(t)]) /\ Max(t) \in 1..n
      BY <1>1, <1>5, <2>2, MaxInside
    <3> QED
      BY <1>3, <2>2, <3>1
  <2> QED
    BY <2>1, <2>2 DEF FoldsLeft
<1>8. PICK b : Loop(W, <<>>, n, g, b) /\ b[n] = H[1..n]
  <2>1. n \in Nat /\ g \in [1..n -> [W -> W]]
    BY <1>1, <1>3
  <2>2. <<>> \in W
    BY <1>1
  <2> HIDE DEF n
  <2> QED
    BY <2>1, <2>2, <1>7, FoldIsLoop
<1>9. b \in [0..n -> W] /\ b[0] = <<>> /\ \A k \in 1..n : b[k] = g[k][b[k-1]]
  BY <1>8 DEF Loop
<1>10. ASSUME NEW k \in 1..n PROVE b[k] = op(b[k-1], s[k])
  <2>1. k - 1 \in 0..n /\ b[k-1] \in W
    BY <1>1, <1>9
  <2> QED
    BY <1>3, <1>9, <2>1
<1> QED
  BY <1>6, <1>8, <1>9, <1>10 DEF W, op

(***************************************************************************)
(* Votes by index.  Of the candidates 1..k, with their keys and lengths,   *)
(* those of one key are a class; the m votes are the classes in the order  *)
(* they were first seen, each with the first of its longest and its size.  *)
(***************************************************************************)
Class(key, k, i) == {j \in 1..k : key[j] = key[i]}

Longest(key, len, k, i) ==
  \A j \in 1..k : key[j] = key[i] => len[j] < len[i] \/ (len[j] = len[i] /\ i <= j)

Counted(key, len, k, m, pos, cnt) ==
  /\ m \in Nat /\ pos \in [1..m -> 1..k] /\ cnt \in [1..m -> Nat]
  /\ \A p \in 1..m : cnt[p] = Cardinality(Class(key, k, pos[p])) /\ Longest(key, len, k, pos[p])
  /\ \A i \in 1..k : \E p \in 1..m : key[pos[p]] = key[i]
  /\ \A p, q \in 1..m : p < q =>
       \E i \in 1..k : key[i] = key[pos[p]] /\ \A j \in 1..k : key[j] = key[pos[q]] => i < j

(* The size of a class with a candidate more.                              *)
LEMMA ClassGrows ==
  ASSUME NEW key, NEW k \in Nat, NEW i \in 1..k
  PROVE  /\ key[i] # key[k+1] => Class(key, k + 1, i) = Class(key, k, i)
         /\ key[i] = key[k+1] =>
              /\ Cardinality(Class(key, k + 1, i)) = Cardinality(Class(key, k, i)) + 1
              /\ Cardinality(Class(key, k, i)) \in Nat
<1>1. k + 1 \in Nat /\ k + 1 \in 1..k+1 /\ \A j \in 1..k+1 : j = k + 1 \/ j \in 1..k
  OBVIOUS
<1>2. \A j \in 1..k : j \in 1..k+1 /\ j # k + 1
  OBVIOUS
<1>3. ASSUME key[i] = key[k+1]
      PROVE  Class(key, k + 1, i) \ {k + 1} = Class(key, k, i) /\ k + 1 \in Class(key, k + 1, i)
  BY <1>1, <1>2, <1>3 DEF Class
<1>4. ASSUME key[i] = key[k+1]
      PROVE  /\ Cardinality(Class(key, k + 1, i)) = Cardinality(Class(key, k, i)) + 1
             /\ Cardinality(Class(key, k, i)) \in Nat
  <2> DEFINE c == Class(key, k + 1, i)
  <2>1. c \in SUBSET (1..k+1)
    BY DEF Class
  <2>2. Cardinality(c) \in 0..k+1 /\ Cardinality(c \ {k + 1}) = Cardinality(c) - 1
    <3>1. k + 1 \in c
      BY <1>3, <1>4
    <3> HIDE DEF c
    <3> QED
      BY <1>1, <2>1, <3>1, SizeOfNumbers
  <2>3. c \ {k + 1} = Class(key, k, i)
    BY <1>3, <1>4
  <2>4. Class(key, k, i) \in SUBSET (1..k)
    BY DEF Class
  <2>5. Cardinality(Class(key, k, i)) \in 0..k
    BY <2>4, SizeOfNumbers
  <2>6. Cardinality(Class(key, k, i)) = Cardinality(c) - 1
    BY <2>2, <2>3
  <2> HIDE DEF c
  <2>7. Cardinality(c) = Cardinality(Class(key, k, i)) + 1
    BY <2>2, <2>5, <2>6
  <2> QED
    BY <2>5, <2>7 DEF c
<1>5. key[i] # key[k+1] => Class(key, k + 1, i) = Class(key, k, i)
  BY <1>1, <1>2 DEF Class
<1> QED
  BY <1>4, <1>5

(* The votes with a new one, and with one that is counted again.           *)
With(m, f, v) == [p \in 1..m+1 |-> IF p = m + 1 THEN v ELSE f[p]]
Respelt(key, len, k, m, pos) ==
  [p \in 1..m |-> IF key[pos[p]] = key[k] /\ len[k] > len[pos[p]] THEN k ELSE pos[p]]
Raised(key, k, m, pos, cnt) ==
  [p \in 1..m |-> IF key[pos[p]] = key[k] THEN cnt[p] + 1 ELSE cnt[p]]

(* A candidate of a key not seen before is a vote of its own.              *)
LEMMA NewVote ==
  ASSUME NEW n \in Nat, NEW key, NEW len \in [1..n -> Nat], NEW k \in Nat, k + 1 <= n,
         NEW m, NEW pos, NEW cnt, Counted(key, len, k, m, pos, cnt),
         \A p \in 1..m : key[pos[p]] # key[k+1]
  PROVE  Counted(key, len, k + 1, m + 1, With(m, pos, k + 1), With(m, cnt, 1))
<1> DEFINE more == k + 1
           a == [p \in 1..m+1 |-> IF p = m + 1 THEN more ELSE pos[p]]
           c == [p \in 1..m+1 |-> IF p = m + 1 THEN 1 ELSE cnt[p]]
<1>1. /\ m \in Nat /\ pos \in [1..m -> 1..k] /\ cnt \in [1..m -> Nat]
      /\ \A i \in 1..k : \E p \in 1..m : key[pos[p]] = key[i]
  BY DEF Counted
<1>2. /\ more \in Nat /\ more \in 1..more /\ \A i \in 1..more : i = more \/ i \in 1..k
      /\ \A i \in 1..k : i \in 1..more /\ i < more /\ i # more /\ i \in 1..n
  OBVIOUS
<1>3. /\ m + 1 \in 1..m+1 /\ \A p \in 1..m+1 : p = m + 1 \/ p \in 1..m
      /\ \A p \in 1..m : p \in 1..m+1 /\ p # m + 1 /\ p < m + 1
  BY <1>1
<1>4. /\ a[m+1] = more /\ c[m+1] = 1
      /\ \A p \in 1..m : a[p] = pos[p] /\ c[p] = cnt[p] /\ pos[p] \in 1..k
  BY <1>1, <1>3
<1>5. a \in [1..m+1 -> 1..more] /\ c \in [1..m+1 -> Nat]
  <2>1. \A p \in 1..m+1 : (IF p = m + 1 THEN more ELSE pos[p]) \in 1..more
    BY <1>1, <1>2, <1>3
  <2>2. \A p \in 1..m+1 : (IF p = m + 1 THEN 1 ELSE cnt[p]) \in Nat
    BY <1>1, <1>3
  <2> QED
    BY <2>1, <2>2
<1> HIDE DEF a, c
<1>6. \A i \in 1..k : key[i] # key[more]
  BY <1>1
<1>7. Cardinality(Class(key, more, more)) = 1 /\ Longest(key, len, more, more)
  <2>1. Class(key, more, more) = {more}
    BY <1>2, <1>6 DEF Class
  <2>2. Longest(key, len, more, more)
    BY <1>2, <1>6 DEF Longest
  <2> QED
    BY <2>1, <2>2, FS_Singleton
<1>8. ASSUME NEW p \in 1..m
      PROVE  cnt[p] = Cardinality(Class(key, more, pos[p])) /\ Longest(key, len, more, pos[p])
  <2>1. cnt[p] = Cardinality(Class(key, k, pos[p])) /\ Longest(key, len, k, pos[p])
    BY DEF Counted
  <2>2. Class(key, more, pos[p]) = Class(key, k, pos[p])
    BY <1>4, <1>6, ClassGrows
  <2>3. Longest(key, len, more, pos[p])
    <3>1. key[more] # key[pos[p]]
      OBVIOUS
    <3> QED
      BY <1>2, <2>1, <3>1 DEF Longest
  <2> QED
    BY <2>1, <2>2, <2>3
<1>9. \A p \in 1..m+1 : c[p] = Cardinality(Class(key, more, a[p])) /\ Longest(key, len, more, a[p])
  BY <1>3, <1>4, <1>7, <1>8
<1>10. ASSUME NEW i \in 1..more PROVE \E p \in 1..m+1 : key[a[p]] = key[i]
  <2>1. CASE i = more
    BY <1>3, <1>4, <2>1
  <2>2. CASE i \in 1..k
    <3>1. PICK p \in 1..m : key[pos[p]] = key[i]
      BY <1>1, <2>2
    <3> QED
      BY <1>3, <1>4, <3>1
  <2> QED
    BY <1>2, <2>1, <2>2
<1>11. ASSUME NEW p \in 1..m+1, NEW q \in 1..m+1, p < q
       PROVE  \E i \in 1..more : key[i] = key[a[p]] /\ \A j \in 1..more : key[j] = key[a[q]] => i < j
  <2>0. p \in 1..m
    <3>1. p # m + 1
      BY <1>1, <1>11
    <3> QED
      BY <1>3, <3>1
  <2>1. p \in 1..m /\ a[p] = pos[p] /\ pos[p] \in 1..k
    BY <1>4, <2>0
  <2>2. CASE q = m + 1
    <3>1. \A j \in 1..more : key[j] = key[a[q]] => j = more
      BY <1>2, <1>4, <1>6, <2>2
    <3>2. pos[p] \in 1..more /\ pos[p] < more
      BY <1>2, <2>1
    <3> QED
      BY <2>1, <3>1, <3>2
  <2>3. CASE q \in 1..m
    <3>1. PICK i \in 1..k : key[i] = key[pos[p]] /\ \A j \in 1..k : key[j] = key[pos[q]] => i < j
      BY <1>11, <2>1, <2>3 DEF Counted
    <3>2. key[more] # key[pos[q]] /\ a[q] = pos[q]
      BY <1>4, <2>3
    <3> QED
      BY <1>2, <2>1, <3>1, <3>2
  <2> QED
    BY <1>3, <2>2, <2>3
<1>12. m + 1 \in Nat
  BY <1>1
<1>13. Counted(key, len, more, m + 1, a, c)
  BY <1>5, <1>9, <1>10, <1>11, <1>12 DEF Counted
<1> QED
  BY <1>13 DEF a, c, With

(* One of a key seen before raises the count of its vote, which takes its  *)
(* spelling if that is longer.                                             *)
LEMMA VoteAgain ==
  ASSUME NEW n \in Nat, NEW key, NEW len \in [1..n -> Nat], NEW k \in Nat, k + 1 <= n,
         NEW m, NEW pos, NEW cnt, Counted(key, len, k, m, pos, cnt),
         \E p \in 1..m : key[pos[p]] = key[k+1]
  PROVE  Counted(key, len, k + 1, m, Respelt(key, len, k + 1, m, pos),
                 Raised(key, k + 1, m, pos, cnt))
<1> DEFINE more == k + 1
           a == [p \in 1..m |-> IF key[pos[p]] = key[more] /\ len[more] > len[pos[p]] THEN more ELSE pos[p]]
           c == [p \in 1..m |-> IF key[pos[p]] = key[more] THEN cnt[p] + 1 ELSE cnt[p]]
<1>1. /\ m \in Nat /\ pos \in [1..m -> 1..k] /\ cnt \in [1..m -> Nat]
      /\ \A i \in 1..k : \E p \in 1..m : key[pos[p]] = key[i]
  BY DEF Counted
<1>2. /\ more \in Nat /\ more \in 1..more /\ \A i \in 1..more : i = more \/ i \in 1..k
      /\ \A i \in 1..k : i \in 1..more /\ i < more /\ i # more /\ i \in 1..n
      /\ more \in 1..n
  OBVIOUS
<1>3. a \in [1..m -> 1..more] /\ c \in [1..m -> Nat]
  <2>0. \A p \in 1..m : pos[p] \in 1..k /\ cnt[p] \in Nat
    BY <1>1
  <2>1. \A p \in 1..m : pos[p] \in 1..more /\ cnt[p] \in Nat /\ cnt[p] + 1 \in Nat
    BY <1>2, <2>0
  <2>2. \A p \in 1..m : (IF key[pos[p]] = key[more] /\ len[more] > len[pos[p]] THEN more ELSE pos[p]) \in 1..more
    BY <1>2, <2>1
  <2>3. \A p \in 1..m : (IF key[pos[p]] = key[more] THEN cnt[p] + 1 ELSE cnt[p]) \in Nat
    BY <2>1
  <2> QED
    BY <2>2, <2>3
<1>4. \A p \in 1..m :
        /\ pos[p] \in 1..k
        /\ a[p] = IF key[pos[p]] = key[more] /\ len[more] > len[pos[p]] THEN more ELSE pos[p]
        /\ c[p] = IF key[pos[p]] = key[more] THEN cnt[p] + 1 ELSE cnt[p]
  BY <1>1
<1> HIDE DEF a, c
<1>5. \A p \in 1..m : key[a[p]] = key[pos[p]]
  BY <1>4
<1>6. \A p \in 1..m : Class(key, more, a[p]) = Class(key, more, pos[p])
  BY <1>5 DEF Class
<1>7. ASSUME NEW p \in 1..m
      PROVE  c[p] = Cardinality(Class(key, more, a[p])) /\ Longest(key, len, more, a[p])
  <2>1. cnt[p] = Cardinality(Class(key, k, pos[p])) /\ Longest(key, len, k, pos[p])
    BY DEF Counted
  <2>2. c[p] = Cardinality(Class(key, more, pos[p]))
    BY <1>4, <2>1, ClassGrows
  <2>3. Longest(key, len, more, a[p])
    <3>1. pos[p] \in 1..k /\ pos[p] \in 1..n /\ pos[p] < more /\ len[pos[p]] \in Nat /\ len[more] \in Nat
      BY <1>2, <1>4
    <3> SUFFICES ASSUME NEW j \in 1..more, key[j] = key[a[p]]
                 PROVE  len[j] < len[a[p]] \/ (len[j] = len[a[p]] /\ a[p] <= j)
      BY DEF Longest
    <3>2. key[j] = key[pos[p]] /\ (j = more \/ j \in 1..k) /\ len[j] \in Nat
      BY <1>2, <1>5
    <3>3. j \in 1..k => len[j] < len[pos[p]] \/ (len[j] = len[pos[p]] /\ pos[p] <= j)
      BY <2>1, <3>2 DEF Longest
    <3>4. CASE key[pos[p]] = key[more] /\ len[more] > len[pos[p]]
      <4>1. a[p] = more
        BY <1>4, <3>4
      <4> QED
        BY <3>1, <3>2, <3>3, <3>4, <4>1
    <3>5. CASE ~(key[pos[p]] = key[more] /\ len[more] > len[pos[p]])
      <4>1. a[p] = pos[p]
        BY <1>4, <3>5
      <4> QED
        BY <3>1, <3>2, <3>3, <3>5, <4>1
    <3> QED
      BY <3>4, <3>5
  <2> QED
    BY <1>6, <2>2, <2>3
<1>8. \A i \in 1..more : \E p \in 1..m : key[a[p]] = key[i]
  BY <1>1, <1>2, <1>5
<1>9. ASSUME NEW p \in 1..m, NEW q \in 1..m, p < q
      PROVE  \E i \in 1..more : key[i] = key[a[p]] /\ \A j \in 1..more : key[j] = key[a[q]] => i < j
  <2>1. PICK i \in 1..k : key[i] = key[pos[p]] /\ \A j \in 1..k : key[j] = key[pos[q]] => i < j
    BY <1>9 DEF Counted
  <2> QED
    BY <1>2, <1>5, <2>1
<1>10. Counted(key, len, more, m, a, c)
  BY <1>1, <1>3, <1>7, <1>8, <1>9 DEF Counted
<1> QED
  BY <1>10 DEF a, c, Respelt, Raised

(***************************************************************************)
(* Ranks.  x, y and z are told of a candidate; a vote is above another by  *)
(* its count, then by the x, y and z of its spelling.                      *)
(***************************************************************************)
Tops(n, x, y, z) == x \in [1..n -> Int] /\ y \in [1..n -> Int] /\ z \in [1..n -> Int]

Higher(a1, a2, a3, a4, b1, b2, b3, b4) ==
  \/ a1 > b1
  \/ /\ a1 = b1
     /\ a2 > b2 \/ (a2 = b2 /\ (a3 > b3 \/ (a3 = b3 /\ a4 > b4)))

AtTop(key, n, x, y, z, i, j, ri, rj) ==
  Higher(Cardinality(Class(key, n, i)), x[ri], y[ri], z[ri],
         Cardinality(Class(key, n, j)), x[rj], y[rj], z[rj])

Leads(pos, cnt, x, y, z, p, q) ==
  Higher(cnt[p], x[pos[p]], y[pos[p]], z[pos[p]], cnt[q], x[pos[q]], y[pos[q]], z[pos[q]])

(* w is the first of the votes 1..k that none of them leads.               *)
Leader(pos, cnt, x, y, z, k, w) ==
  /\ w \in 1..k
  /\ \A q \in 1..k : /\ ~Leads(pos, cnt, x, y, z, q, w)
                     /\ q < w => Leads(pos, cnt, x, y, z, w, q)

(* spell is the first of the longest of each class.                        *)
Spells(key, len, n, spell) ==
  spell \in [1..n -> 1..n] /\ \A i \in 1..n : key[spell[i]] = key[i] /\ Longest(key, len, n, spell[i])

(* i is the first candidate that no other is above of, spell being the     *)
(* spelling of each.                                                       *)
Foremost(key, n, x, y, z, spell, i) ==
  /\ \A j \in 1..n : ~AtTop(key, n, x, y, z, j, i, spell[j], spell[i])
  /\ \A k \in 1..n : (\A j \in 1..n : ~AtTop(key, n, x, y, z, j, k, spell[j], spell[k])) => i <= k

(* The first vote none leads is that of the first candidate no other is    *)
(* above of.                                                               *)
LEMMA Elected ==
  ASSUME NEW n \in Nat, NEW key, NEW len \in [1..n -> Nat],
         NEW m, NEW pos, NEW cnt, Counted(key, len, n, m, pos, cnt),
         NEW x, NEW y, NEW z, Tops(n, x, y, z), NEW spell,
         Spells(key, len, n, spell),
         NEW w, Leader(pos, cnt, x, y, z, m, w)
  PROVE  \E i \in 1..n : spell[i] = pos[w] /\ Foremost(key, n, x, y, z, spell, i)
<1>1. /\ m \in Nat /\ pos \in [1..m -> 1..n] /\ cnt \in [1..m -> Nat]
      /\ \A p \in 1..m : cnt[p] = Cardinality(Class(key, n, pos[p])) /\ Longest(key, len, n, pos[p])
      /\ \A i \in 1..n : \E p \in 1..m : key[pos[p]] = key[i]
      /\ w \in 1..m
      /\ \A q \in 1..m : /\ ~Leads(pos, cnt, x, y, z, q, w)
                         /\ q < w => Leads(pos, cnt, x, y, z, w, q)
  BY DEF Counted, Leader
<1>0. w \in 1..m
  BY DEF Leader
<1>9. /\ spell \in [1..n -> 1..n]
      /\ \A i \in 1..n : key[spell[i]] = key[i] /\ Longest(key, len, n, spell[i])
  BY DEF Spells
<1>2. ASSUME NEW i \in 1..n, NEW p \in 1..m, key[pos[p]] = key[i]
      PROVE  spell[i] = pos[p] /\ Cardinality(Class(key, n, i)) = cnt[p]
  <2>1. pos[p] \in 1..n /\ spell[i] \in 1..n
    BY <1>1, <1>9
  <2>2. spell[i] = pos[p]
    <3>1. Longest(key, len, n, pos[p]) /\ Longest(key, len, n, spell[i]) /\ key[spell[i]] = key[pos[p]]
      BY <1>1, <1>2, <1>9
    <3>2. len[spell[i]] < len[pos[p]] \/ (len[spell[i]] = len[pos[p]] /\ pos[p] <= spell[i])
      BY <2>1, <3>1 DEF Longest
    <3>3. len[pos[p]] < len[spell[i]] \/ (len[pos[p]] = len[spell[i]] /\ spell[i] <= pos[p])
      BY <2>1, <3>1 DEF Longest
    <3>4. len[pos[p]] \in Nat /\ len[spell[i]] \in Nat
      BY <2>1
    <3>5. \A a, b, c, d \in Nat :
            (c < d \/ (c = d /\ a <= b)) /\ (d < c \/ (d = c /\ b <= a)) => a = b
      OBVIOUS
    <3>6. pos[p] \in Nat /\ spell[i] \in Nat
      <4>1. \A h \in 1..n : h \in Nat
        OBVIOUS
      <4> QED
        BY <2>1, <4>1
    <3> QED
      BY <3>2, <3>3, <3>4, <3>5, <3>6
  <2>3. Class(key, n, i) = Class(key, n, pos[p])
    BY <1>2 DEF Class
  <2> QED
    BY <1>1, <2>2, <2>3
<1>3. ASSUME NEW i \in 1..n, NEW j \in 1..n, NEW p \in 1..m, NEW q \in 1..m,
             key[pos[p]] = key[i], key[pos[q]] = key[j]
      PROVE  AtTop(key, n, x, y, z, i, j, spell[i], spell[j]) <=> Leads(pos, cnt, x, y, z, p, q)
  <2>1. /\ spell[i] = pos[p] /\ Cardinality(Class(key, n, i)) = cnt[p]
        /\ spell[j] = pos[q] /\ Cardinality(Class(key, n, j)) = cnt[q]
    BY <1>2, <1>3
  <2> QED
    BY <2>1 DEF AtTop, Leads
<1>4. \E i \in 1..n : key[i] = key[pos[w]] /\ \A k \in 1..n : key[k] = key[pos[w]] => i <= k
  <2> DEFINE c == {k \in 1..n : key[k] = key[pos[w]]}
  <2>1. pos[w] \in c /\ c \subseteq Nat
    BY <1>1
  <2>2. \E i \in c : \A k \in c : ~(<<k, i>> \in OpToRel(<, Nat))
    <3> HIDE DEF c
    <3> QED
      BY <2>1, NatLessThanWellFounded, WFMin
  <2>3. \E i \in c : \A k \in c : ~(k < i)
    BY <2>1, <2>2 DEF OpToRel
  <2> QED
    BY <2>3
<1>5. PICK i \in 1..n : key[i] = key[pos[w]] /\ \A k \in 1..n : key[k] = key[pos[w]] => i <= k
  BY <1>4
<1>6. spell[i] = pos[w]
  BY <1>0, <1>2, <1>5
<1>7. ASSUME NEW j \in 1..n PROVE ~AtTop(key, n, x, y, z, j, i, spell[j], spell[i])
  <2>1. PICK q \in 1..m : key[pos[q]] = key[j]
    BY <1>1
  <2> QED
    BY <1>0, <1>1, <1>3, <1>5, <2>1
<1>8. ASSUME NEW k \in 1..n, \A j \in 1..n : ~AtTop(key, n, x, y, z, j, k, spell[j], spell[k])
      PROVE  i <= k
  <2>1. PICK q \in 1..m : key[pos[q]] = key[k]
    BY <1>1
  <2>2. ~(q < w)
    <3>1. ~Leads(pos, cnt, x, y, z, w, q)
      <4>1. ~AtTop(key, n, x, y, z, i, k, spell[i], spell[k])
        BY <1>8
      <4> QED
        BY <1>0, <1>3, <1>5, <2>1, <4>1
    <3> QED
      BY <1>1, <3>1
  <2>3. CASE q = w
    BY <1>5, <2>1, <2>3
  <2>4. CASE w < q
    <3>1. PICK h \in 1..n : key[h] = key[pos[w]] /\ \A j \in 1..n : key[j] = key[pos[q]] => h < j
      <4>1. \A p, q1 \in 1..m : p < q1 =>
              \E h \in 1..n : key[h] = key[pos[p]] /\ \A j \in 1..n : key[j] = key[pos[q1]] => h < j
        BY DEF Counted
      <4> QED
        BY <1>0, <2>4, <4>1
    <3>2. i <= h /\ h < k
      BY <1>5, <2>1, <3>1
    <3> QED
      BY <3>2
  <2> QED
    BY <1>1, <2>2, <2>3, <2>4
<1> QED
  BY <1>6, <1>7, <1>8 DEF Foremost

(* A lexicographic order is transitive.                                    *)
LEMMA LexTransitive ==
  ASSUME NEW a1 \in Int, NEW a2 \in Int, NEW a3 \in Int, NEW a4 \in Int,
         NEW b1 \in Int, NEW b2 \in Int, NEW b3 \in Int, NEW b4 \in Int,
         NEW c1 \in Int, NEW c2 \in Int, NEW c3 \in Int, NEW c4 \in Int
  PROVE  LET ab == Higher(a1, a2, a3, a4, b1, b2, b3, b4)
             bc == Higher(b1, b2, b3, b4, c1, c2, c3, c4)
             ac == Higher(a1, a2, a3, a4, c1, c2, c3, c4)
         IN (ab /\ bc => ac) /\ (ac /\ ~bc => ab) /\ ~Higher(a1, a2, a3, a4, a1, a2, a3, a4)
BY DEF Higher

(* It stays so when one that leads takes its place.                        *)
LEMMA LeaderStep ==
  ASSUME NEW n \in Nat, NEW m \in Nat, NEW pos \in [1..m -> 1..n], NEW cnt \in [1..m -> Nat],
         NEW x, NEW y, NEW z, Tops(n, x, y, z), NEW k \in Nat, k + 1 <= m,
         NEW w, Leader(pos, cnt, x, y, z, k, w)
  PROVE  Leader(pos, cnt, x, y, z, k + 1, IF Leads(pos, cnt, x, y, z, k + 1, w) THEN k + 1 ELSE w)
<1> DEFINE L(p, q) == Leads(pos, cnt, x, y, z, p, q)
<1>1. /\ k + 1 \in 1..m /\ k + 1 \in 1..k+1 /\ \A q \in 1..k+1 : q = k + 1 \/ q \in 1..k
      /\ \A q \in 1..k : q \in 1..m /\ q < k + 1 /\ q \in 1..k+1
  OBVIOUS
<1>2. \A p \in 1..m : /\ cnt[p] \in Int /\ x[pos[p]] \in Int /\ y[pos[p]] \in Int
                      /\ z[pos[p]] \in Int
  <2>1. \A i \in 1..n : x[i] \in Int /\ y[i] \in Int /\ z[i] \in Int
    BY DEF Tops
  <2> QED
    BY <2>1
<1>3. ASSUME NEW p \in 1..m, NEW q \in 1..m, NEW r \in 1..m
      PROVE  /\ L(p, q) /\ L(q, r) => L(p, r)
             /\ L(p, r) /\ ~L(q, r) => L(p, q)
             /\ ~L(p, p)
  <2> DEFINE a1 == cnt[p]  a2 == x[pos[p]]  a3 == y[pos[p]]  a4 == z[pos[p]]
             b1 == cnt[q]  b2 == x[pos[q]]  b3 == y[pos[q]]  b4 == z[pos[q]]
             c1 == cnt[r]  c2 == x[pos[r]]  c3 == y[pos[r]]  c4 == z[pos[r]]
  <2>1. /\ a1 \in Int /\ a2 \in Int /\ a3 \in Int /\ a4 \in Int
        /\ b1 \in Int /\ b2 \in Int /\ b3 \in Int /\ b4 \in Int
        /\ c1 \in Int /\ c2 \in Int /\ c3 \in Int /\ c4 \in Int
    BY <1>2
  <2>2. /\ L(p, q) <=> Higher(a1, a2, a3, a4, b1, b2, b3, b4)
        /\ L(q, r) <=> Higher(b1, b2, b3, b4, c1, c2, c3, c4)
        /\ L(p, r) <=> Higher(a1, a2, a3, a4, c1, c2, c3, c4)
        /\ L(p, p) <=> Higher(a1, a2, a3, a4, a1, a2, a3, a4)
    BY DEF Leads
  <2> HIDE DEF L, a1, a2, a3, a4, b1, b2, b3, b4, c1, c2, c3, c4
  <2>3. /\ /\ Higher(a1, a2, a3, a4, b1, b2, b3, b4)
           /\ Higher(b1, b2, b3, b4, c1, c2, c3, c4)
           => Higher(a1, a2, a3, a4, c1, c2, c3, c4)
        /\ /\ Higher(a1, a2, a3, a4, c1, c2, c3, c4)
           /\ ~Higher(b1, b2, b3, b4, c1, c2, c3, c4)
           => Higher(a1, a2, a3, a4, b1, b2, b3, b4)
        /\ ~Higher(a1, a2, a3, a4, a1, a2, a3, a4)
    BY <2>1, LexTransitive
  <2> QED
    BY <2>2, <2>3
<1>4. w \in 1..k /\ \A q \in 1..k : ~L(q, w) /\ (q < w => L(w, q))
  BY DEF Leader
<1> HIDE DEF L
<1>5. CASE L(k + 1, w)
  <2>1. ASSUME NEW q \in 1..k PROVE ~L(q, k + 1) /\ L(k + 1, q)
    BY <1>1, <1>3, <1>4, <1>5
  <2>2. \A q \in 1..k+1 : ~L(q, k + 1) /\ (q < k + 1 => L(k + 1, q))
    BY <1>1, <1>3, <2>1
  <2> QED
    BY <1>1, <1>5, <2>2 DEF Leader, L
<1>6. CASE ~L(k + 1, w)
  <2>1. ~(k + 1 < w)
    BY <1>4
  <2>2. w \in 1..k+1 /\ \A q \in 1..k+1 : ~L(q, w) /\ (q < w => L(w, q))
    BY <1>1, <1>4, <1>6, <2>1
  <2> QED
    BY <1>6, <2>2 DEF Leader, L
<1> QED
  BY <1>5, <1>6

(* The first vote leads itself, and counts for something.                  *)
LEMMA FirstLeader ==
  ASSUME NEW n \in Nat, n # 0, NEW key, NEW len, NEW m, NEW pos, NEW cnt,
         Counted(key, len, n, m, pos, cnt), NEW x, NEW y, NEW z, Tops(n, x, y, z)
  PROVE  1 \in 1..m /\ cnt[1] > 0 /\ Leader(pos, cnt, x, y, z, 1, 1)
<1>1. m \in Nat /\ pos \in [1..m -> 1..n] /\ cnt \in [1..m -> Nat]
  BY DEF Counted
<1>2. 1 \in 1..m
  <2>1. \E p \in 1..m : key[pos[p]] = key[1]
    BY DEF Counted
  <2> QED
    BY <1>1, <2>1
<1>3. cnt[1] > 0
  <2>1. cnt[1] = Cardinality(Class(key, n, pos[1])) /\ pos[1] \in 1..n /\ cnt[1] \in Nat
    BY <1>1, <1>2 DEF Counted
  <2>2. Class(key, n, pos[1]) \in SUBSET (1..n) /\ Class(key, n, pos[1]) # {}
    BY <2>1 DEF Class
  <2>3. Cardinality(Class(key, n, pos[1])) # 0
    BY <2>2, SizeOfNumbers
  <2> QED
    BY <2>1, <2>3
<1>4. ~Leads(pos, cnt, x, y, z, 1, 1)
  <2> DEFINE a1 == cnt[1]  a2 == x[pos[1]]  a3 == y[pos[1]]  a4 == z[pos[1]]
  <2>1. pos[1] \in 1..n /\ a1 \in Int
    BY <1>1, <1>2
  <2>2. a2 \in Int /\ a3 \in Int /\ a4 \in Int
    BY <2>1 DEF Tops
  <2>3. Leads(pos, cnt, x, y, z, 1, 1) <=> Higher(a1, a2, a3, a4, a1, a2, a3, a4)
    BY DEF Leads
  <2> HIDE DEF a1, a2, a3, a4
  <2> QED
    BY <2>1, <2>2, <2>3 DEF Higher
<1> QED
  BY <1>2, <1>3, <1>4 DEF Leader

(* The least number of a set that has one.                                 *)
LEMMA MinIs ==
  ASSUME NEW S \in SUBSET Nat, NEW i \in S, \A j \in S : i <= j
  PROVE  Min(S) = i
<1>1. \A x \in S : (\A y \in S : x =< y) <=> x = i
  <2>1. S \subseteq Nat
    OBVIOUS
  <2> QED
    BY <2>1
<1> QED
  BY <1>1, Zenon DEF Min

(***************************************************************************)
(* The votes of pickTitle, by index.                                       *)
(***************************************************************************)
TitleKeys(t) == [i \in 1..Len(t) |-> metaKey(t[i])]
TitleLengths(t) == [i \in 1..Len(t) |-> runeLen(t[i])]
TitlesAt(t, m, pos, cnt) == [p \in 1..m |-> [title |-> t[pos[p]], count |-> cnt[p]]]

(* A vote for the title at k + 1 is a vote by its index.                   *)
LEMMA TitleVoteAt ==
  ASSUME NEW t \in Seq(BookTexts), NEW k \in Nat, k + 1 <= Len(t),
         TitleLengths(t) \in [1..Len(t) -> Nat],
         NEW m, NEW pos, NEW cnt, Counted(TitleKeys(t), TitleLengths(t), k, m, pos, cnt)
  PROVE  \E m2, at2, cnt2 :
           /\ Counted(TitleKeys(t), TitleLengths(t), k + 1, m2, at2, cnt2)
           /\ TitleVote(TitlesAt(t, m, pos, cnt), t[k+1]) = TitlesAt(t, m2, at2, cnt2)
<1> DEFINE n == Len(t)  key == TitleKeys(t)  len == TitleLengths(t)  more == k + 1
           votes == TitlesAt(t, m, pos, cnt)
           mine == {p \in DOMAIN votes : metaKey(votes[p].title) = metaKey(t[more])}
<1>0. len \in [1..n -> Nat] /\ more <= n /\ Counted(key, len, k, m, pos, cnt)
  OBVIOUS
<1>1. /\ m \in Nat /\ pos \in [1..m -> 1..k] /\ cnt \in [1..m -> Nat]
      /\ n \in Nat /\ more \in 1..n /\ \A i \in 1..k : i \in 1..n
  BY DEF Counted
<1>2. \A i \in 1..n : key[i] = metaKey(t[i]) /\ len[i] = runeLen(t[i])
  BY DEF TitleKeys, TitleLengths
<1>3. /\ DOMAIN votes = 1..m
      /\ \A p \in 1..m : votes[p] = [title |-> t[pos[p]], count |-> cnt[p]] /\ pos[p] \in 1..n
  BY <1>1 DEF TitlesAt
<1>4. \A p \in 1..m : metaKey(votes[p].title) = key[pos[p]] /\ runeLen(votes[p].title) = len[pos[p]]
  BY <1>2, <1>3
<1>5. mine = {p \in 1..m : key[pos[p]] = key[more]}
  BY <1>1, <1>2, <1>3, <1>4
<1>6. CASE mine = {}
  <2> DEFINE at2 == With(m, pos, more)  cnt2 == With(m, cnt, 1)
  <2>1. \A p \in 1..m : key[pos[p]] # key[more]
    BY <1>5, <1>6
  <2>2. Counted(key, len, more, m + 1, at2, cnt2)
    <3> HIDE DEF n, key, len, votes, mine
    <3> QED
      BY <1>0, <1>1, <2>1, NewVote
  <2>3. TitleVote(votes, t[more]) = Append(votes, [title |-> t[more], count |-> 1])
    BY <1>6 DEF TitleVote
  <2>4. Append(votes, [title |-> t[more], count |-> 1]) = TitlesAt(t, m + 1, at2, cnt2)
    <3>1. votes = [p \in 1..m |-> [title |-> t[pos[p]], count |-> cnt[p]]]
      BY DEF TitlesAt
    <3>2. Len(votes) = m
      BY <1>1, <3>1
    <3>3. \A p \in 1..m+1 : p = m + 1 \/ p \in 1..m
      BY <1>1
    <3>4. \A p \in 1..m : p # m + 1 /\ p \in 1..m+1
      BY <1>1
    <3>5. \A p \in 1..m+1 :
            (IF p <= m THEN votes[p] ELSE [title |-> t[more], count |-> 1])
              = [title |-> t[at2[p]], count |-> cnt2[p]]
      <4> TAKE p \in 1..m+1
      <4>1. CASE p = m + 1
        BY <1>1, <4>1 DEF With
      <4>2. CASE p \in 1..m
        BY <1>1, <3>1, <3>4, <4>2 DEF With
      <4> QED
        BY <3>3, <4>1, <4>2
    <3>6. Append(votes, [title |-> t[more], count |-> 1])
            = [p \in 1..m+1 |-> IF p <= m THEN votes[p] ELSE [title |-> t[more], count |-> 1]]
      <4>1. votes \in Seq([title : {t[i] : i \in 1..n}, count : Nat])
        BY <1>1, <3>1
      <4> HIDE DEF votes
      <4> QED
        BY <1>1, <3>2, <4>1
    <3> HIDE DEF votes, at2, cnt2
    <3> QED
      BY <3>5, <3>6 DEF TitlesAt
  <2> QED
    BY <2>2, <2>3, <2>4
<1>7. CASE mine # {}
  <2> DEFINE at2 == Respelt(key, len, more, m, pos)  cnt2 == Raised(key, more, m, pos, cnt)
  <2>1. \E p \in 1..m : key[pos[p]] = key[more]
    BY <1>5, <1>7
  <2>2. Counted(key, len, more, m, at2, cnt2)
    <3> HIDE DEF n, key, len, votes, mine
    <3> QED
      BY <1>0, <1>1, <2>1, VoteAgain
  <2>3. TitleVote(votes, t[more]) =
          [p \in DOMAIN votes |-> IF p \notin mine THEN votes[p]
             ELSE [title |-> IF runeLen(t[more]) > runeLen(votes[p].title) THEN t[more] ELSE votes[p].title,
                   count |-> votes[p].count + 1]]
    BY <1>7 DEF TitleVote
  <2>4. \A p \in 1..m :
          (IF p \notin mine THEN votes[p]
             ELSE [title |-> IF runeLen(t[more]) > runeLen(votes[p].title) THEN t[more] ELSE votes[p].title,
                   count |-> votes[p].count + 1]) = [title |-> t[at2[p]], count |-> cnt2[p]]
    <3> TAKE p \in 1..m
    <3>1. p \in mine <=> key[pos[p]] = key[more]
      BY <1>5
    <3>2. votes[p].title = t[pos[p]] /\ votes[p].count = cnt[p] /\ runeLen(votes[p].title) = len[pos[p]]
          /\ runeLen(t[more]) = len[more]
      BY <1>1, <1>2, <1>3, <1>4
    <3> HIDE DEF mine, votes, key, len
    <3>3. CASE p \notin mine
      BY <1>3, <3>1, <3>3 DEF Respelt, Raised
    <3>4. CASE p \in mine
      BY <3>1, <3>2, <3>4 DEF Respelt, Raised
    <3> QED
      BY <3>3, <3>4
  <2> HIDE DEF mine, votes, key, len, at2, cnt2
  <2>5. TitleVote(votes, t[more]) = [p \in 1..m |-> [title |-> t[at2[p]], count |-> cnt2[p]]]
    BY <1>3, <2>3, <2>4
  <2>6. TitleVote(votes, t[more]) = TitlesAt(t, m, at2, cnt2)
    BY <2>5 DEF TitlesAt
  <2> QED
    BY <2>2, <2>6 DEF key, len, votes
<1> QED
  BY <1>6, <1>7

(* H is a sum over sets of the first n numbers.                            *)
Sums(n, f, H) ==
  \A s \in SUBSET (1..n) :
    H[s] = IF s = {} THEN 0 ELSE f[CHOOSE x \in s : TRUE] + H[s \ {CHOOSE x \in s : TRUE}]

(* There is such a sum, and it is a natural number when its parts are.     *)
LEMMA SumExists ==
  ASSUME NEW n \in Nat, NEW f \in [1..n -> Nat]
  PROVE  \E F \in [SUBSET (1..n) -> Nat] : Sums(n, f, F)
<1>1. \E c : c = [s \in SUBSET (1..n) |-> CHOOSE x \in s : TRUE]
  OBVIOUS
<1>2. ASSUME NEW c, c = [s \in SUBSET (1..n) |-> CHOOSE x \in s : TRUE]
      PROVE  \E F \in [SUBSET (1..n) -> Nat] : Sums(n, f, F)
  <2> DEFINE g == [k \in 1..n |-> [w \in Nat |-> f[k] + w]]
  <2>1. \A s \in SUBSET (1..n) : c[s] = CHOOSE x \in s : TRUE
    BY <1>2
  <2>2. \A s \in SUBSET (1..n) : s # {} => c[s] \in s
    BY <2>1
  <2>3. g \in [1..n -> [Nat -> Nat]] /\ \A k \in 1..n, w \in Nat : g[k][w] = f[k] + w
    OBVIOUS
  <2> HIDE DEF g
  <2>4. PICK F \in [SUBSET (1..n) -> Nat] : Folded(0, n, g, c, F)
    BY <2>2, <2>3, FoldExists DEF Takes
  <2>5. \A s \in SUBSET (1..n) : F[s] = IF s = {} THEN 0 ELSE g[c[s]][F[s \ {c[s]}]]
    BY <2>4 DEF Folded
  <2>6. ASSUME NEW s \in SUBSET (1..n), s # {} PROVE F[s] = f[c[s]] + F[s \ {c[s]}]
    <3>1. c[s] \in 1..n /\ F[s \ {c[s]}] \in Nat
      BY <2>2, <2>6
    <3> QED
      BY <2>3, <2>5, <2>6, <3>1
  <2>7. ASSUME NEW s \in SUBSET (1..n)
        PROVE  F[s] = IF s = {} THEN 0 ELSE f[CHOOSE x \in s : TRUE] + F[s \ {CHOOSE x \in s : TRUE}]
    BY <2>1, <2>5, <2>6
  <2> QED
    BY <2>7 DEF Sums
<1> QED
  BY <1>1, <1>2

(* A sum of sizes is a size.                                               *)
LEMMA SumIsNat ==
  ASSUME NEW n \in Nat, NEW f \in [1..n -> Nat], NEW H, Sums(n, f, H)
  PROVE  \A s \in SUBSET (1..n) : H[s] \in Nat
<1> DEFINE T == {k \in Nat : \A s \in SUBSET (1..n) : Cardinality(s) = k => H[s] \in Nat}
<1>1. 0 \in T
  <2> SUFFICES ASSUME NEW s \in SUBSET (1..n), Cardinality(s) = 0 PROVE H[s] \in Nat
    OBVIOUS
  <2>1. s = {}
    BY SizeOfNumbers
  <2>2. H[s] = 0
    BY <2>1 DEF Sums
  <2> QED
    BY <2>2
<1>2. ASSUME NEW k \in Nat, k \in T PROVE k + 1 \in T
  <2> SUFFICES ASSUME NEW s \in SUBSET (1..n), Cardinality(s) = k + 1 PROVE H[s] \in Nat
    OBVIOUS
  <2> DEFINE x == CHOOSE x \in s : TRUE
  <2>1. s # {}
    <3>1. Cardinality(s) # 0
      OBVIOUS
    <3> QED
      BY <3>1, SizeOfNumbers
  <2>2. x \in s
    BY <2>1
  <2>3. H[s] = f[x] + H[s \ {x}]
    BY <2>1 DEF Sums
  <2> HIDE DEF x
  <2>4. Cardinality(s \ {x}) = k
    <3>1. Cardinality(s \ {x}) = Cardinality(s) - 1
      BY <2>2, SizeOfNumbers
    <3> QED
      BY <3>1
  <2>5. H[s \ {x}] \in Nat /\ f[x] \in Nat
    BY <1>2, <2>2, <2>4
  <2> QED
    BY <2>3, <2>5
<1>3. \A k \in Nat : k \in T
  <2> HIDE DEF T
  <2> QED
    BY <1>1, <1>2, Induct
<1>4. ASSUME NEW s \in SUBSET (1..n) PROVE H[s] \in Nat
  <2>1. Cardinality(s) \in 0..n
    BY SizeOfNumbers
  <2>2. Cardinality(s) \in T
    BY <1>3, <2>1
  <2> QED
    BY <2>2
<1> QED
  BY <1>4

(* A text is some number of runes long.                                    *)
LEMMA RuneLenNat ==
  ASSUME NEW t \in BookTexts
  PROVE  runeLen(t) \in Nat
<1> DEFINE n == Len(t)
           f == [i \in 1..n |-> SizeAt(t, i)]
           One(F, s) == IF s = {} THEN 0
                        ELSE SizeAt(t, CHOOSE x \in s : TRUE) + F[s \ {CHOOSE x \in s : TRUE}]
           H == CHOOSE F : F = [s \in SUBSET (1..n) |-> One(F, s)]
<1>1. n \in Nat /\ DOMAIN t = 1..n /\ \A i \in 1..n : t[i] \in Word \cup Separator
  BY DEF BookTexts
<1>2. \A i \in 1..n : SizeAt(t, i) \in Nat
  <2>1. \A w \in Word : Lex[w].size \in Nat
    BY TextAssumption
  <2> TAKE i \in 1..n
  <2> DEFINE size == IF t[i] \in Word THEN Lex[t[i]].size ELSE 1
             space == IF i = Len(t) \/ Joined(t, i) THEN 0 ELSE 1
  <2>2. size \in Nat /\ space \in Nat
    BY <2>1
  <2>3. SizeAt(t, i) = size + space
    BY DEF SizeAt
  <2> HIDE DEF size, space
  <2> QED
    BY <2>2, <2>3
<1>3. f \in [1..n -> Nat] /\ \A i \in 1..n : f[i] = SizeAt(t, i)
  BY <1>2
<1> HIDE DEF f
<1>4. \A s \in SUBSET (1..n) : s # {} => f[CHOOSE x \in s : TRUE] = SizeAt(t, CHOOSE x \in s : TRUE)
  BY <1>3
<1>5. PICK F \in [SUBSET (1..n) -> Nat] : Sums(n, f, F)
  BY <1>1, <1>3, SumExists
<1>6. \E G : G = [s \in SUBSET (1..n) |-> One(G, s)]
  <2>1. \A s \in SUBSET (1..n) : F[s] = One(F, s)
    BY <1>4, <1>5 DEF Sums
  <2>2. F = [s \in SUBSET (1..n) |-> F[s]]
    OBVIOUS
  <2>3. [s \in SUBSET (1..n) |-> F[s]] = [s \in SUBSET (1..n) |-> One(F, s)]
    BY <2>1, Zenon
  <2> QED
    BY <2>2, <2>3, Zenon
<1>7. H = [s \in SUBSET (1..n) |-> One(H, s)]
  BY <1>6, Zenon
<1>8. runeLen(t) = H[1..n]
  BY <1>1 DEF runeLen, MapThenSumSet, MapThenFoldSet
<1> HIDE DEF H
<1>9. Sums(n, f, H)
  BY <1>4, <1>7 DEF Sums
<1> QED
  BY <1>1, <1>3, <1>8, <1>9, SumIsNat

(* The best of the votes of pickTitle.                                     *)
BestTitle(votes, tokenSets) ==
  FoldLeft(LAMBDA w, v : IF TitleBeats(v, w, tokenSets) THEN v ELSE w,
           [title |-> <<>>, count |-> 0], votes)

(* The votes are compared one by one with the best so far.                 *)
LEMMA PickTitleRun ==
  ASSUME NEW tokenSets, NEW s \in Seq([title : BookTexts, count : Nat])
  PROVE  \E b \in [0..Len(s) -> [title : BookTexts, count : Nat]] :
           /\ b[0] = [title |-> <<>>, count |-> 0] /\ BestTitle(s, tokenSets) = b[Len(s)]
           /\ \A k \in 1..Len(s) : b[k] = IF TitleBeats(s[k], b[k-1], tokenSets) THEN s[k] ELSE b[k-1]
<1> DEFINE n == Len(s)
           W == [title : BookTexts, count : Nat]
           op(w, x) == IF TitleBeats(x, w, tokenSets) THEN x ELSE w
           One(F, t) == IF t = {} THEN [title |-> <<>>, count |-> 0] ELSE op(F[t \ {Max(t)}], s[Max(t)])
           g == [k \in 1..n |-> [w \in W |-> op(w, s[k])]]
<1>1. n \in Nat /\ DOMAIN s = 1..n /\ [title |-> <<>>, count |-> 0] \in W
  <2>1. <<>> \in BookTexts
    BY DEF BookTexts
  <2> QED
    BY <2>1
<1>2. ASSUME NEW k \in 1..n, NEW w \in W PROVE op(w, s[k]) \in W
  <2>1. s \in Seq(W) /\ DOMAIN s = 1..n
    BY <1>1
  <2> HIDE DEF W
  <2>2. s[k] \in W
    BY <1>1, <2>1
  <2> QED
    BY <2>2
<1>3. g \in [1..n -> [W -> W]] /\ \A k \in 1..n, w \in W : g[k][w] = op(w, s[k])
  <2> HIDE DEF op, W
  <2> QED
    BY <1>2
<1> HIDE DEF g, W, op
<1>4. \E F : F = [t \in SUBSET (1..n) |-> One(F, t)]
  <2>1. PICK F \in [SUBSET (1..n) -> W] : FoldsLeft(W, [title |-> <<>>, count |-> 0], n, g, F)
    BY <1>1, <1>3, MaxFold
  <2>2. ASSUME NEW t \in SUBSET (1..n) PROVE F[t] = One(F, t)
    <3>1. CASE t # {}
      <4>1. Max(t) \in 1..n /\ F[t \ {Max(t)}] \in W
        BY <1>1, <3>1, MaxInside
      <4> QED
        BY <1>3, <2>1, <3>1, <4>1 DEF FoldsLeft
    <3> QED
      BY <2>1, <3>1 DEF FoldsLeft
  <2>3. [t \in SUBSET (1..n) |-> F[t]] = [t \in SUBSET (1..n) |-> One(F, t)]
    BY <2>2, Zenon
  <2>4. F = [t \in SUBSET (1..n) |-> F[t]]
    OBVIOUS
  <2> QED
    BY <2>3, <2>4, Zenon
<1> DEFINE H == CHOOSE F : F = [t \in SUBSET (1..n) |-> One(F, t)]
<1>5. H = [t \in SUBSET (1..n) |-> One(H, t)]
  BY <1>4, Zenon
<1>6. BestTitle(s, tokenSets) = H[1..n]
  BY <1>1 DEF BestTitle, FoldLeft, MapThenFoldSet, op
<1> HIDE DEF H
<1>7. FoldsLeft(W, [title |-> <<>>, count |-> 0], n, g, H)
  <2>1. H[{}] = [title |-> <<>>, count |-> 0]
    BY <1>5
  <2>2. ASSUME NEW t \in SUBSET (1..n), t # {}, H[t \ {Max(t)}] \in W
        PROVE  H[t] = g[Max(t)][H[t \ {Max(t)}]]
    <3>1. H[t] = op(H[t \ {Max(t)}], s[Max(t)]) /\ Max(t) \in 1..n
      BY <1>1, <1>5, <2>2, MaxInside
    <3> QED
      BY <1>3, <2>2, <3>1
  <2> QED
    BY <2>1, <2>2 DEF FoldsLeft
<1>8. PICK b : Loop(W, [title |-> <<>>, count |-> 0], n, g, b) /\ b[n] = H[1..n]
  <2>1. n \in Nat /\ g \in [1..n -> [W -> W]]
    BY <1>1, <1>3
  <2>2. [title |-> <<>>, count |-> 0] \in W
    BY <1>1
  <2> HIDE DEF n
  <2> QED
    BY <2>1, <2>2, <1>7, FoldIsLoop
<1>9. b \in [0..n -> W] /\ b[0] = [title |-> <<>>, count |-> 0] /\ \A k \in 1..n : b[k] = g[k][b[k-1]]
  BY <1>8 DEF Loop
<1>10. ASSUME NEW k \in 1..n PROVE b[k] = op(b[k-1], s[k])
  <2>1. k - 1 \in 0..n /\ b[k-1] \in W
    BY <1>1, <1>9
  <2> QED
    BY <1>3, <1>9, <2>1
<1> QED
  BY <1>6, <1>8, <1>9, <1>10 DEF W, op

(* Every title is counted.                                                 *)
LEMMA TitlesCounted ==
  ASSUME NEW t \in Seq(BookTexts)
  PROVE  \E m, pos, cnt :
           /\ Counted(TitleKeys(t), TitleLengths(t), Len(t), m, pos, cnt)
           /\ FoldLeft(TitleVote, <<>>, t) = TitlesAt(t, m, pos, cnt)
<1> DEFINE n == Len(t)  key == TitleKeys(t)  len == TitleLengths(t)
<1>1. PICK b \in [0..n -> Seq([title : BookTexts, count : Nat])] :
         /\ b[0] = <<>> /\ FoldLeft(TitleVote, <<>>, t) = b[n]
         /\ \A k \in 1..n : b[k] = TitleVote(b[k-1], t[k])
  BY TitleVotesRun
<1>2. n \in Nat /\ \A i \in 1..n : t[i] \in BookTexts
  OBVIOUS
<1>3. len \in [1..n -> Nat]
  BY <1>2, RuneLenNat DEF TitleLengths
<1> DEFINE Reached(k) == \E m, pos, cnt : Counted(key, len, k, m, pos, cnt) /\ b[k] = TitlesAt(t, m, pos, cnt)
           T == {k \in Nat : k <= n => Reached(k)}
<1>4. Reached(0)
  <2> DEFINE pos == [p \in 1..0 |-> 0]
  <2>1. Counted(key, len, 0, 0, pos, pos)
    BY DEF Counted
  <2>2. TitlesAt(t, 0, pos, pos) = <<>>
    BY DEF TitlesAt
  <2> QED
    BY <1>1, <2>1, <2>2
<1>5. ASSUME NEW k \in Nat, k + 1 <= n, Reached(k) PROVE Reached(k + 1)
  <2>1. PICK m, pos, cnt : Counted(key, len, k, m, pos, cnt) /\ b[k] = TitlesAt(t, m, pos, cnt)
    BY <1>5
  <2>2. PICK m2, at2, cnt2 :
          /\ Counted(key, len, k + 1, m2, at2, cnt2)
          /\ TitleVote(TitlesAt(t, m, pos, cnt), t[k+1]) = TitlesAt(t, m2, at2, cnt2)
    BY <1>3, <1>5, <2>1, TitleVoteAt
  <2>3. b[k+1] = TitleVote(b[k], t[k+1])
    <3>1. k + 1 \in 1..n /\ (k + 1) - 1 = k
      BY <1>2, <1>5
    <3> QED
      BY <1>1, <3>1
  <2> QED
    BY <2>1, <2>2, <2>3
<1> HIDE DEF Reached
<1>6. 0 \in T /\ \A k \in Nat : k \in T => k + 1 \in T
  BY <1>2, <1>4, <1>5
<1>7. n \in T
  <2> HIDE DEF T
  <2> QED
    BY <1>2, <1>6, Induct
<1>8. Reached(n)
  BY <1>7
<1> QED
  BY <1>1, <1>8 DEF Reached

(* What one title, before its votes are counted, has to put forward.       *)
TitleTops(t, tokenSets) ==
  [x |-> [i \in 1..Len(t) |-> -Underscores(t[i])],
   y |-> [i \in 1..Len(t) |-> IF titleMentionsAuthor(t[i], tokenSets) THEN -1 ELSE 0]]

TitleLeads(t, tokenSets, pos, cnt, p, q) ==
  Leads(pos, cnt, TitleTops(t, tokenSets).x, TitleTops(t, tokenSets).y, TitleLengths(t), p, q)

(* Underscores are counted.                                                *)
LEMMA UnderscoresNat ==
  ASSUME NEW t \in BookTexts
  PROVE  Underscores(t) \in Nat
<1> DEFINE pos == {i \in DOMAIN t : t[i] = "_"}
<1>0. DOMAIN t = 1..Len(t) /\ Len(t) \in Nat
  BY DEF BookTexts
<1>1. Len(t) \in Nat /\ pos \in SUBSET (1..Len(t))
  BY <1>0
<1>2. Underscores(t) = Cardinality(pos)
  BY DEF Underscores
<1> HIDE DEF pos
<1>3. Cardinality(pos) \in 0..Len(t)
  BY <1>1, SizeOfNumbers
<1> QED
  BY <1>1, <1>2, <1>3

(* pickTitle compares two votes by their counts and what their spellings   *)
(* put forward.                                                            *)
LEMMA BeatsIsLeads ==
  ASSUME NEW t \in Seq(BookTexts), NEW tokenSets, NEW m \in Nat, NEW pos \in [1..m -> 1..Len(t)],
         NEW cnt \in [1..m -> Nat], NEW p \in 1..m, NEW q \in 1..m
  PROVE  TitleBeats(TitlesAt(t, m, pos, cnt)[p], TitlesAt(t, m, pos, cnt)[q], tokenSets)
           <=> TitleLeads(t, tokenSets, pos, cnt, p, q)
<1> DEFINE v == TitlesAt(t, m, pos, cnt)[p]  w == TitlesAt(t, m, pos, cnt)[q]
<1>1. /\ v.title = t[pos[p]] /\ v.count = cnt[p] /\ w.title = t[pos[q]] /\ w.count = cnt[q]
      /\ pos[p] \in 1..Len(t) /\ pos[q] \in 1..Len(t) /\ t[pos[p]] \in BookTexts /\ t[pos[q]] \in BookTexts
  BY DEF TitlesAt
<1>2. /\ Underscores(v.title) \in Nat /\ Underscores(w.title) \in Nat
      /\ runeLen(v.title) \in Nat /\ runeLen(w.title) \in Nat
      /\ cnt[p] \in Nat /\ cnt[q] \in Nat
  BY <1>1, UnderscoresNat, RuneLenNat
<1>3. /\ TitleTops(t, tokenSets).x[pos[p]] = -Underscores(v.title)
      /\ TitleTops(t, tokenSets).x[pos[q]] = -Underscores(w.title)
      /\ TitleTops(t, tokenSets).y[pos[p]] = IF titleMentionsAuthor(v.title, tokenSets) THEN -1 ELSE 0
      /\ TitleTops(t, tokenSets).y[pos[q]] = IF titleMentionsAuthor(w.title, tokenSets) THEN -1 ELSE 0
      /\ TitleLengths(t)[pos[p]] = runeLen(v.title) /\ TitleLengths(t)[pos[q]] = runeLen(w.title)
  BY <1>1 DEF TitleTops, TitleLengths
<1> HIDE DEF v, w
<1>4. TitleLeads(t, tokenSets, pos, cnt, p, q) <=>
        Higher(v.count, -Underscores(v.title), IF titleMentionsAuthor(v.title, tokenSets) THEN -1 ELSE 0,
               runeLen(v.title),
               w.count, -Underscores(w.title), IF titleMentionsAuthor(w.title, tokenSets) THEN -1 ELSE 0,
               runeLen(w.title))
  BY <1>1, <1>3 DEF TitleLeads, Leads
<1> DEFINE nv == titleMentionsAuthor(v.title, tokenSets)  nw == titleMentionsAuthor(w.title, tokenSets)
           uv == Underscores(v.title)  uw == Underscores(w.title)
           rv == runeLen(v.title)  rw == runeLen(w.title)  cv == v.count  cw == w.count
<1>5. nv \in BOOLEAN /\ nw \in BOOLEAN
  BY DEF titleMentionsAuthor
<1>6. TitleBeats(v, w, tokenSets) <=>
        \/ cv > cw
        \/ /\ cv = cw
           /\ \/ uv < uw
              \/ /\ uv = uw
                 /\ \/ ~nv /\ nw
                    \/ nv = nw /\ rv > rw
  BY DEF TitleBeats
<1>7. cv \in Nat /\ cw \in Nat /\ uv \in Nat /\ uw \in Nat /\ rv \in Nat /\ rw \in Nat
  BY <1>1, <1>2
<1>8. TitleLeads(t, tokenSets, pos, cnt, p, q) <=>
        Higher(cv, -uv, IF nv THEN -1 ELSE 0, rv, cw, -uw, IF nw THEN -1 ELSE 0, rw)
  BY <1>4
<1> HIDE DEF nv, nw, uv, uw, rv, rw, cv, cw
<1>9. TitleBeats(v, w, tokenSets) <=> TitleLeads(t, tokenSets, pos, cnt, p, q)
  <2> DEFINE xv == -uv  xw == -uw  yv == IF nv THEN -1 ELSE 0  yw == IF nw THEN -1 ELSE 0
  <2>1. (xv > xw <=> uv < uw) /\ (xv = xw <=> uv = uw)
    BY <1>7
  <2>2. (yv > yw <=> ~nv /\ nw) /\ (yv = yw <=> nv = nw)
    BY <1>5
  <2>3. TitleLeads(t, tokenSets, pos, cnt, p, q) <=> Higher(cv, xv, yv, rv, cw, xw, yw, rw)
    BY <1>8
  <2> HIDE DEF xv, xw, yv, yw
  <2> QED
    BY <1>6, <2>1, <2>2, <2>3 DEF Higher
<1> QED
  BY <1>9 DEF v, w

(* What ranks a title is numbers.                                          *)
LEMMA TitleTopsTyped ==
  ASSUME NEW t \in Seq(BookTexts), NEW tokenSets
  PROVE  /\ Tops(Len(t), TitleTops(t, tokenSets).x, TitleTops(t, tokenSets).y, TitleLengths(t))
         /\ TitleLengths(t) \in [1..Len(t) -> Nat]
<1>1. \A i \in 1..Len(t) : t[i] \in BookTexts
  OBVIOUS
<1>2. \A i \in 1..Len(t) : -Underscores(t[i]) \in Int
  BY <1>1, UnderscoresNat
<1>3. TitleLengths(t) \in [1..Len(t) -> Nat]
  BY <1>1, RuneLenNat DEF TitleLengths
<1>4. TitleTops(t, tokenSets).x \in [1..Len(t) -> Int]
  BY <1>2 DEF TitleTops
<1>5. TitleTops(t, tokenSets).y \in [1..Len(t) -> Int]
  BY DEF TitleTops
<1> QED
  BY <1>3, <1>4, <1>5 DEF Tops

TitleLeader(t, tokenSets, m, pos, cnt, w) ==
  /\ Leader(pos, cnt, TitleTops(t, tokenSets).x, TitleTops(t, tokenSets).y, TitleLengths(t), m, w)
  /\ BestTitle(TitlesAt(t, m, pos, cnt), tokenSets).title = t[pos[w]]

(* pickTitle takes the first vote that none leads.                         *)
LEMMA TitleElected ==
  ASSUME NEW t \in Seq(BookTexts), t # <<>>, NEW tokenSets, NEW m, NEW pos, NEW cnt,
         Counted(TitleKeys(t), TitleLengths(t), Len(t), m, pos, cnt)
  PROVE  \E w : TitleLeader(t, tokenSets, m, pos, cnt, w)
<1> DEFINE n == Len(t)  votes == TitlesAt(t, m, pos, cnt)
           x == TitleTops(t, tokenSets).x  y == TitleTops(t, tokenSets).y  z == TitleLengths(t)
<1>1. /\ m \in Nat /\ pos \in [1..m -> 1..n] /\ cnt \in [1..m -> Nat]
      /\ n \in Nat /\ n # 0 /\ \A i \in 1..n : t[i] \in BookTexts
  <2>1. n \in Nat /\ n # 0 /\ \A i \in 1..n : t[i] \in BookTexts
    OBVIOUS
  <2> HIDE DEF n
  <2>2. m \in Nat /\ pos \in [1..m -> 1..n] /\ cnt \in [1..m -> Nat]
    BY DEF Counted, n
  <2> QED
    BY <2>1, <2>2
<1>2. votes \in Seq([title : BookTexts, count : Nat]) /\ Len(votes) = m
  BY <1>1 DEF TitlesAt
<1>3. PICK b \in [0..m -> [title : BookTexts, count : Nat]] :
         /\ b[0] = [title |-> <<>>, count |-> 0]
         /\ BestTitle(votes, tokenSets) = b[m]
         /\ \A k \in 1..m : b[k] = IF TitleBeats(votes[k], b[k-1], tokenSets) THEN votes[k] ELSE b[k-1]
  <2> HIDE DEF votes
  <2> QED
    BY <1>2, PickTitleRun
<1>4. Tops(n, x, y, z)
  BY TitleTopsTyped
<1>5. 1 \in 1..m /\ cnt[1] > 0 /\ Leader(pos, cnt, x, y, z, 1, 1)
  BY <1>1, <1>4, FirstLeader
<1> DEFINE Reached(k) == \E w : Leader(pos, cnt, x, y, z, k, w) /\ b[k] = votes[w]
           T == {k \in Nat : k + 1 <= m => Reached(k + 1)}
<1>6. Reached(1)
  <2>1. votes[1].count = cnt[1]
    BY <1>5 DEF TitlesAt
  <2>2. TitleBeats(votes[1], b[0], tokenSets)
    <3>1. b[0].count = 0
      BY <1>3
    <3> HIDE DEF votes
    <3> QED
      BY <1>5, <2>1, <3>1 DEF TitleBeats
  <2>3. b[1] = votes[1]
    <3>1. 1 - 1 = 0
      OBVIOUS
    <3> QED
      BY <1>3, <1>5, <2>2, <3>1
  <2> QED
    BY <1>5, <2>3
<1>7. ASSUME NEW k \in Nat, k # 0, k + 1 <= m, Reached(k) PROVE Reached(k + 1)
  <2>1. PICK w : Leader(pos, cnt, x, y, z, k, w) /\ b[k] = votes[w]
    BY <1>7
  <2>2. w \in 1..m /\ k + 1 \in 1..m /\ (k + 1) - 1 = k
    BY <1>1, <1>7, <2>1 DEF Leader
  <2>3. b[k+1] = IF TitleBeats(votes[k+1], votes[w], tokenSets) THEN votes[k+1] ELSE votes[w]
    BY <1>3, <2>1, <2>2
  <2>4. TitleBeats(votes[k+1], votes[w], tokenSets) <=> Leads(pos, cnt, x, y, z, k + 1, w)
    BY <1>1, <2>2, BeatsIsLeads DEF TitleLeads
  <2>5. Leader(pos, cnt, x, y, z, k + 1, IF Leads(pos, cnt, x, y, z, k + 1, w) THEN k + 1 ELSE w)
    <3> HIDE DEF x, y, z, n
    <3> QED
      BY <1>1, <1>4, <1>7, <2>1, LeaderStep
  <2>6. b[k+1] = votes[IF Leads(pos, cnt, x, y, z, k + 1, w) THEN k + 1 ELSE w]
    BY <2>3, <2>4
  <2> QED
    BY <2>5, <2>6
<1> HIDE DEF Reached
<1>8. 0 \in T /\ \A k \in Nat : k \in T => k + 1 \in T
  <2>1. 0 \in T
    BY <1>6
  <2>2. ASSUME NEW k \in Nat, k \in T PROVE k + 1 \in T
    <3> SUFFICES ASSUME (k + 1) + 1 <= m PROVE Reached((k + 1) + 1)
      OBVIOUS
    <3>1. k + 1 \in Nat /\ k + 1 # 0 /\ k + 1 <= m
      BY <1>1
    <3> QED
      BY <1>7, <2>2, <3>1
  <2> QED
    BY <2>1, <2>2
<1>9. \A k \in Nat : k \in T
  <2> HIDE DEF T
  <2> QED
    BY <1>8, Induct
<1>10. Reached(m)
  <2>1. m - 1 \in Nat /\ (m - 1) + 1 = m
    BY <1>1, <1>5
  <2> QED
    BY <1>9, <2>1
<1>11. PICK w : Leader(pos, cnt, x, y, z, m, w) /\ b[m] = votes[w]
  BY <1>10 DEF Reached
<1>12. votes[w].title = t[pos[w]]
  BY <1>11 DEF TitlesAt, Leader
<1> QED
  BY <1>3, <1>11, <1>12 DEF TitleLeader

(* Above compares tuples of four numbers from the left.                    *)
LEMMA AboveIsHigher ==
  ASSUME NEW a1 \in Int, NEW a2 \in Int, NEW a3 \in Int, NEW a4 \in Int,
         NEW b1 \in Int, NEW b2 \in Int, NEW b3 \in Int, NEW b4 \in Int
  PROVE  Above(<<a1, a2, a3, a4>>, <<b1, b2, b3, b4>>) <=> Higher(a1, a2, a3, a4, b1, b2, b3, b4)
<1> DEFINE a == <<a1, a2, a3, a4>>  b == <<b1, b2, b3, b4>>
           At(i) == a[i] > b[i] /\ \A j \in 1..i-1 : a[j] = b[j]
<1>1. DOMAIN a = 1..4
  OBVIOUS
<1>2. /\ a[1] = a1 /\ a[2] = a2 /\ a[3] = a3 /\ a[4] = a4
      /\ b[1] = b1 /\ b[2] = b2 /\ b[3] = b3 /\ b[4] = b4
  OBVIOUS
<1>3. Above(a, b) <=> \E i \in 1..4 : At(i)
  BY <1>1 DEF Above
<1> HIDE DEF a, b
<1>4. /\ At(1) <=> a1 > b1
      /\ At(2) <=> a2 > b2 /\ a1 = b1
      /\ At(3) <=> a3 > b3 /\ a1 = b1 /\ a2 = b2
      /\ At(4) <=> a4 > b4 /\ a1 = b1 /\ a2 = b2 /\ a3 = b3
  <2>1. At(1) <=> a1 > b1
    BY <1>2
  <2>2. At(2) <=> a2 > b2 /\ a1 = b1
    <3>1. 1..2-1 = {1}
      OBVIOUS
    <3> QED
      BY <1>2, <3>1
  <2>3. At(3) <=> a3 > b3 /\ a1 = b1 /\ a2 = b2
    <3>1. 1..3-1 = {1, 2}
      OBVIOUS
    <3> QED
      BY <1>2, <3>1
  <2>4. At(4) <=> a4 > b4 /\ a1 = b1 /\ a2 = b2 /\ a3 = b3
    <3>1. 1..4-1 = {1, 2, 3}
      OBVIOUS
    <3> QED
      BY <1>2, <3>1
  <2> QED
    BY <2>1, <2>2, <2>3, <2>4
<1> HIDE DEF At
<1>5. (\E i \in 1..4 : At(i)) <=> At(1) \/ At(2) \/ At(3) \/ At(4)
  <2>1. \A i \in 1..4 : i = 1 \/ i = 2 \/ i = 3 \/ i = 4
    OBVIOUS
  <2>2. 1 \in 1..4 /\ 2 \in 1..4 /\ 3 \in 1..4 /\ 4 \in 1..4
    OBVIOUS
  <2> QED
    BY <2>1, <2>2
<1>6. Above(a, b) <=> Higher(a1, a2, a3, a4, b1, b2, b3, b4)
  BY <1>3, <1>4, <1>5 DEF Higher
<1> QED
  BY <1>6 DEF a, b

(* The titles spelt like one, but for case, and the longest of them.       *)
AlikeTitles(t, i) == {j \in DOMAIN t : metaKey(t[j]) = metaKey(t[i])}
LongestTitles(t, i) ==
  {j \in AlikeTitles(t, i) : \A k \in AlikeTitles(t, i) : runeLen(t[j]) >= runeLen(t[k])}

(* The first of the longest titles of a class is the spelling of its vote. *)
LEMMA TitleSpelling ==
  ASSUME NEW t \in Seq(BookTexts), NEW m, NEW pos, NEW cnt,
         Counted(TitleKeys(t), TitleLengths(t), Len(t), m, pos, cnt),
         NEW i \in 1..Len(t), NEW p \in 1..m, TitleKeys(t)[pos[p]] = TitleKeys(t)[i]
  PROVE  AlikeTitles(t, i) = Class(TitleKeys(t), Len(t), i) /\ Min(LongestTitles(t, i)) = pos[p]
<1> DEFINE n == Len(t)  key == TitleKeys(t)  len == TitleLengths(t)
           Same == {j \in DOMAIN t : metaKey(t[j]) = metaKey(t[i])}
           L == {j \in Same : \A k \in Same : runeLen(t[j]) >= runeLen(t[k])}
<1>1. DOMAIN t = 1..n /\ n \in Nat /\ \A j \in 1..n : t[j] \in BookTexts
  OBVIOUS
<1>2. \A j \in 1..n : key[j] = metaKey(t[j]) /\ len[j] = runeLen(t[j]) /\ runeLen(t[j]) \in Nat
  BY <1>1, RuneLenNat DEF TitleKeys, TitleLengths
<1>3. Same = Class(key, n, i) /\ Same \subseteq 1..n
  BY <1>1, <1>2 DEF Class
<1>4. pos[p] \in 1..n /\ Longest(key, len, n, pos[p])
  BY DEF Counted
<1>5. \A j \in Same : \/ len[j] < len[pos[p]]
                      \/ len[j] = len[pos[p]] /\ pos[p] <= j
  BY <1>3, <1>4 DEF Class, Longest
<1>6. pos[p] \in Same
  BY <1>3, <1>4 DEF Class
<1> HIDE DEF Same
<1>7. pos[p] \in L
  <2>1. ASSUME NEW k \in Same PROVE runeLen(t[pos[p]]) >= runeLen(t[k])
    <3>1. k \in 1..n /\ (len[k] < len[pos[p]] \/ len[k] = len[pos[p]])
      BY <1>3, <1>5
    <3>2. len[k] = runeLen(t[k]) /\ len[pos[p]] = runeLen(t[pos[p]])
          /\ runeLen(t[k]) \in Nat /\ runeLen(t[pos[p]]) \in Nat
      BY <1>2, <1>4, <3>1
    <3> QED
      BY <3>1, <3>2
  <2> QED
    BY <1>6, <2>1
<1>8. ASSUME NEW j \in L PROVE pos[p] <= j
  <2>1. j \in Same /\ runeLen(t[j]) >= runeLen(t[pos[p]]) /\ j \in 1..n
    BY <1>3, <1>6
  <2>2. len[j] >= len[pos[p]] /\ len[j] \in Nat /\ len[pos[p]] \in Nat
    BY <1>2, <1>4, <2>1
  <2> QED
    BY <1>5, <2>1, <2>2
<1>9. L \in SUBSET Nat
  BY <1>3
<1> HIDE DEF L
<1>10. Min(L) = pos[p]
  BY <1>7, <1>8, <1>9, MinIs
<1> QED
  BY <1>3, <1>10 DEF L, Same, AlikeTitles, LongestTitles

(* The winner of a vote on titles, as the README describes it.             *)
TitleBest(titles, names) ==
  LET t == Only(titles, {x \in ToSet(titles) : ~isPlaceholderTitle(x)})
      Same(i) == {j \in DOMAIN t : metaKey(t[j]) = metaKey(t[i])}
      Spelling(i) == t[Min({j \in Same(i) : \A k \in Same(i) : runeLen(t[j]) >= runeLen(t[k])})]
      Noise(x) == IF \E a \in names : matchTokens(a) # {} /\ matchTokens(a) \subseteq matchTokens(x)
                  THEN 1 ELSE 0
      Rank(i) == <<Cardinality(Same(i)), -Underscores(Spelling(i)), -Noise(Spelling(i)),
                   runeLen(Spelling(i))>>
  IN IF t = <<>> THEN <<>>
     ELSE Spelling(Min({i \in DOMAIN t : \A j \in DOMAIN t : ~Above(Rank(j), Rank(i))}))

(* names are those titleMentionsAuthor finds in a title.                   *)
Finds(tokenSets, names) ==
  \A u \in BookTexts : titleMentionsAuthor(u, tokenSets)
    <=> \E a \in names : matchTokens(a) # {} /\ matchTokens(a) \subseteq matchTokens(u)

(* pickTitle elects whom the README says.                                  *)
LEMMA TitleChosen ==
  ASSUME NEW titles \in Seq(BookTexts), NEW tokenSets, NEW names, Finds(tokenSets, names)
  PROVE  pickTitle(titles, tokenSets) = TitleBest(titles, names)
<1> DEFINE t == Only(titles, {x \in ToSet(titles) : ~isPlaceholderTitle(x)})
           n == Len(t)  key == TitleKeys(t)  len == TitleLengths(t)
           Same(i) == {j \in DOMAIN t : metaKey(t[j]) = metaKey(t[i])}
           L(i) == {j \in Same(i) : \A k \in Same(i) : runeLen(t[j]) >= runeLen(t[k])}
           Spelling(i) == t[Min(L(i))]
           Noise(x) == IF \E a \in names : matchTokens(a) # {} /\ matchTokens(a) \subseteq matchTokens(x)
                       THEN 1 ELSE 0
           Rank(i) == <<Cardinality(Same(i)), -Underscores(Spelling(i)), -Noise(Spelling(i)),
                        runeLen(Spelling(i))>>
           Best == {i \in DOMAIN t : \A j \in DOMAIN t : ~Above(Rank(j), Rank(i))}
           x == TitleTops(t, tokenSets).x  y == TitleTops(t, tokenSets).y
<1>1. t \in Seq(BookTexts)
  BY OnlyTyped
<1>2. pickTitle(titles, tokenSets) = BestTitle(FoldLeft(TitleVote, <<>>, t), tokenSets).title
  BY DEF pickTitle, TitleVotes, BestTitle
<1> HIDE DEF t
<1>3. CASE t = <<>>
  <2>1. <<>> \in Seq(BookTexts) /\ Len(<<>>) = 0 /\ <<>> \in Seq([title : BookTexts, count : Nat])
    OBVIOUS
  <2>2. FoldLeft(TitleVote, <<>>, <<>>) = <<>>
    BY <2>1, TitleVotesRun
  <2>3. BestTitle(<<>>, tokenSets).title = <<>>
    <3> DEFINE W == [title : BookTexts, count : Nat]  none == [title |-> <<>>, count |-> 0]
    <3>1. <<>> \in Seq(W)
      OBVIOUS
    <3>2. PICK b : b[0] = none /\ BestTitle(<<>>, tokenSets) = b[Len(<<>>)]
      BY <3>1, PickTitleRun
    <3> QED
      BY <2>1, <3>2
  <2> QED
    BY <1>2, <1>3, <2>2, <2>3 DEF t, TitleBest
<1>4. CASE t # <<>>
  <2>1. n \in Nat /\ n # 0 /\ DOMAIN t = 1..n /\ \A i \in 1..n : t[i] \in BookTexts
    BY <1>1, <1>4
  <2>2. PICK m, pos, cnt : /\ Counted(key, len, n, m, pos, cnt)
                          /\ FoldLeft(TitleVote, <<>>, t) = TitlesAt(t, m, pos, cnt)
    BY <1>1, TitlesCounted
  <2>3. PICK w : /\ Leader(pos, cnt, TitleTops(t, tokenSets).x, TitleTops(t, tokenSets).y,
                          TitleLengths(t), m, w)
                 /\ BestTitle(TitlesAt(t, m, pos, cnt), tokenSets).title = t[pos[w]]
    <3> HIDE DEF n, key, len, x, y
    <3>1. \E w : TitleLeader(t, tokenSets, m, pos, cnt, w)
      <4>1. Counted(TitleKeys(t), TitleLengths(t), Len(t), m, pos, cnt)
        BY <2>2 DEF n, key, len
      <4> QED
        BY <1>1, <1>4, <4>1, TitleElected
    <3> QED
      BY <3>1 DEF TitleLeader
  <2>4. Tops(n, x, y, len) /\ len \in [1..n -> Nat]
    BY <1>1, TitleTopsTyped
  <2>5. /\ m \in Nat /\ pos \in [1..m -> 1..n] /\ cnt \in [1..m -> Nat]
        /\ \A i \in 1..n : \E p \in 1..m : key[pos[p]] = key[i]
        /\ \A p \in 1..m : cnt[p] = Cardinality(Class(key, n, pos[p])) /\ Longest(key, len, n, pos[p])
    BY <2>2 DEF Counted
  <2> DEFINE spell == [i \in 1..n |-> Min(L(i))]
  <2>6. ASSUME NEW i \in 1..n, NEW p \in 1..m, key[pos[p]] = key[i]
        PROVE  Same(i) = Class(key, n, i) /\ Min(L(i)) = pos[p]
    <3>1. TitleKeys(t)[pos[p]] = TitleKeys(t)[i] /\ i \in 1..Len(t)
          /\ Counted(TitleKeys(t), TitleLengths(t), Len(t), m, pos, cnt)
      BY <2>2, <2>6
    <3>2. AlikeTitles(t, i) = Class(TitleKeys(t), Len(t), i) /\ Min(LongestTitles(t, i)) = pos[p]
      <4> HIDE DEF key, len, n, x, y, Same, L
      <4> QED
        BY <1>1, <3>1, TitleSpelling
    <3> QED
      BY <3>2 DEF AlikeTitles, LongestTitles
  <2>7. ASSUME NEW i \in 1..n
        PROVE  /\ spell[i] = Min(L(i)) /\ spell[i] \in 1..n /\ key[spell[i]] = key[i]
               /\ Longest(key, len, n, spell[i]) /\ Same(i) = Class(key, n, i)
    <3>1. PICK p \in 1..m : key[pos[p]] = key[i]
      BY <2>5
    <3>2. Min(L(i)) = pos[p] /\ Same(i) = Class(key, n, i)
      BY <2>6, <3>1
    <3>3. spell[i] = Min(L(i))
      OBVIOUS
    <3> HIDE DEF L, Same, spell
    <3> QED
      BY <2>5, <3>1, <3>2, <3>3
  <2>8. spell \in [1..n -> 1..n]
    <3> HIDE DEF L
    <3> QED
      BY <2>7
  <2> HIDE DEF spell
  <2>9. PICK i \in 1..n :
          /\ spell[i] = pos[w]
          /\ \A j \in 1..n : ~AtTop(key, n, x, y, len, j, i, spell[j], spell[i])
          /\ \A k \in 1..n :
               (\A j \in 1..n : ~AtTop(key, n, x, y, len, j, k, spell[j], spell[k])) => i <= k
    <3>1. Spells(key, len, n, spell)
      <4> HIDE DEF x, y, key, len, n, L, Same
      <4> QED
        BY <2>7, <2>8 DEF Spells
    <3>2. Leader(pos, cnt, x, y, len, m, w)
      BY <2>3
    <3> HIDE DEF x, y, key, len, n, L, Same
    <3> QED
      <4>1. n \in Nat /\ len \in [1..n -> Nat] /\ Tops(n, x, y, len)
        BY <2>1, <2>4
      <4>2. Counted(key, len, n, m, pos, cnt)
        BY <2>2
      <4>3. \E i \in 1..n : spell[i] = pos[w] /\ Foremost(key, n, x, y, len, spell, i)
        BY <4>1, <4>2, <3>1, <3>2, Elected
      <4> QED
        BY <4>3 DEF Foremost
  <2>10. ASSUME NEW j \in 1..n
         PROVE  /\ Spelling(j) = t[spell[j]] /\ spell[j] \in 1..n
                /\ Cardinality(Same(j)) = Cardinality(Class(key, n, j))
                /\ -Underscores(Spelling(j)) = x[spell[j]] /\ -Noise(Spelling(j)) = y[spell[j]]
                /\ runeLen(Spelling(j)) = len[spell[j]]
    <3>1. Spelling(j) = t[spell[j]] /\ spell[j] \in 1..n /\ t[spell[j]] \in BookTexts
          /\ Same(j) = Class(key, n, j)
      BY <2>1, <2>7
    <3>2. x[spell[j]] = -Underscores(t[spell[j]]) /\ len[spell[j]] = runeLen(t[spell[j]])
      BY <3>1 DEF TitleTops, TitleLengths
    <3>3. y[spell[j]] = IF titleMentionsAuthor(t[spell[j]], tokenSets) THEN -1 ELSE 0
      BY <3>1 DEF TitleTops
    <3>4. y[spell[j]] = -Noise(t[spell[j]])
      BY <3>1, <3>3 DEF Finds
    <3> HIDE DEF Spelling, Same, Noise, x, y, len
    <3> QED
      BY <3>1, <3>2, <3>4
  <2>11. ASSUME NEW j \in 1..n, NEW k \in 1..n
         PROVE  Above(Rank(j), Rank(k)) <=> AtTop(key, n, x, y, len, j, k, spell[j], spell[k])
    <3> DEFINE a1 == Cardinality(Class(key, n, j))  a2 == x[spell[j]]  a3 == y[spell[j]]  a4 == len[spell[j]]
               b1 == Cardinality(Class(key, n, k))  b2 == x[spell[k]]  b3 == y[spell[k]]  b4 == len[spell[k]]
    <3>1. Rank(j) = <<a1, a2, a3, a4>> /\ Rank(k) = <<b1, b2, b3, b4>>
      <4> HIDE DEF Spelling, Same, Noise, x, y, len, key, n
      <4> QED
        BY <2>10
    <3>2. a1 \in Int /\ b1 \in Int
      <4>1. Class(key, n, j) \in SUBSET (1..n) /\ Class(key, n, k) \in SUBSET (1..n)
        BY DEF Class
      <4>2. Cardinality(Class(key, n, j)) \in 0..n /\ Cardinality(Class(key, n, k)) \in 0..n
        BY <2>1, <4>1, SizeOfNumbers
      <4> HIDE DEF n, key
      <4> QED
        BY <4>2
    <3>3. /\ a2 \in Int /\ a3 \in Int /\ a4 \in Int
          /\ b2 \in Int /\ b3 \in Int /\ b4 \in Int
      <4> HIDE DEF x, y, len, n
      <4> QED
        BY <2>4, <2>10 DEF Tops
    <3>4. AtTop(key, n, x, y, len, j, k, spell[j], spell[k]) <=> Higher(a1, a2, a3, a4, b1, b2, b3, b4)
      BY DEF AtTop
    <3> HIDE DEF a1, a2, a3, a4, b1, b2, b3, b4, Rank
    <3>5. Above(<<a1, a2, a3, a4>>, <<b1, b2, b3, b4>>) <=> Higher(a1, a2, a3, a4, b1, b2, b3, b4)
      BY <3>2, <3>3, AboveIsHigher
    <3> QED
      BY <3>1, <3>4, <3>5, Zenon
  <2>12. Min(Best) = i
    <3> HIDE DEF Rank
    <3>1. i \in Best /\ \A k \in Best : i <= k
      BY <2>1, <2>9, <2>11
    <3>2. Best \in SUBSET Nat
      BY <2>1
    <3> HIDE DEF Best
    <3> QED
      BY <3>1, <3>2, MinIs
  <2>13. Spelling(Min(Best)) = t[pos[w]]
    <3> HIDE DEF Best, Spelling
    <3> QED
      BY <2>9, <2>10, <2>12
  <2>14. pickTitle(titles, tokenSets) = Spelling(Min(Best))
    <3> HIDE DEF Best, Spelling
    <3> QED
      BY <1>2, <2>2, <2>3, <2>13
  <2> QED
    BY <1>4, <2>14 DEF t, TitleBest
<1> QED
  BY <1>3, <1>4

(* A list more leaves a sequence of votes.                                 *)
LEMMA AuthorVoteTyped ==
  ASSUME NEW votes \in Seq([list : Seq(BookTexts), count : Nat]), NEW l \in Seq(BookTexts)
  PROVE  AuthorVote(votes, l) \in Seq([list : Seq(BookTexts), count : Nat])
<1> DEFINE pos == {k \in DOMAIN votes : AuthorKey(votes[k].list) = AuthorKey(l)}
           V == [list : Seq(BookTexts), count : Nat]
<1>1. CASE pos = {}
  BY <1>1 DEF AuthorVote
<1>2. CASE pos # {}
  <2> DEFINE One(k) == IF k \in pos THEN [votes[k] EXCEPT !.count = @ + 1] ELSE votes[k]
  <2>1. AuthorVote(votes, l) = [k \in DOMAIN votes |-> One(k)]
    BY <1>2 DEF AuthorVote
  <2>2. DOMAIN votes = 1..Len(votes) /\ Len(votes) \in Nat /\ \A k \in DOMAIN votes : votes[k] \in V
    <3>1. votes \in Seq(V)
      OBVIOUS
    <3> HIDE DEF V
    <3> QED
      BY <3>1
  <2>3. \A k \in DOMAIN votes : One(k) \in V
    BY <2>2
  <2>4. [k \in 1..Len(votes) |-> One(k)] \in Seq(V)
    <3> HIDE DEF One, V
    <3>1. [k \in 1..Len(votes) |-> One(k)] \in [1..Len(votes) -> V]
      BY <2>2, <2>3
    <3>2. Len(votes) \in Nat
      BY <2>2
    <3> QED
      BY <3>1, <3>2, IsSeq
  <2> QED
    BY <2>1, <2>2, <2>4
<1> QED
  BY <1>1, <1>2

(* pickAuthors counts the lists one by one.                                *)
LEMMA AuthorVotesRun ==
  ASSUME NEW s \in Seq(Seq(BookTexts))
  PROVE  \E b \in [0..Len(s) -> Seq([list : Seq(BookTexts), count : Nat])] :
           /\ b[0] = <<>> /\ FoldLeft(AuthorVote, <<>>, s) = b[Len(s)]
           /\ \A k \in 1..Len(s) : b[k] = AuthorVote(b[k-1], s[k])
<1> DEFINE n == Len(s)
           W == Seq([list : Seq(BookTexts), count : Nat])
           op(w, x) == AuthorVote(w, x)
           One(F, t) == IF t = {} THEN <<>> ELSE op(F[t \ {Max(t)}], s[Max(t)])
           g == [k \in 1..n |-> [w \in W |-> op(w, s[k])]]
<1>1. n \in Nat /\ DOMAIN s = 1..n /\ <<>> \in W
  OBVIOUS
<1>2. ASSUME NEW k \in 1..n, NEW w \in W PROVE op(w, s[k]) \in W
  <2>1. s[k] \in Seq(BookTexts)
    BY <1>1
  <2> QED
    BY <2>1, AuthorVoteTyped
<1>3. g \in [1..n -> [W -> W]] /\ \A k \in 1..n, w \in W : g[k][w] = op(w, s[k])
  <2> HIDE DEF op, W
  <2> QED
    BY <1>2
<1> HIDE DEF g, W, op
<1>4. \E F : F = [t \in SUBSET (1..n) |-> One(F, t)]
  <2>1. PICK F \in [SUBSET (1..n) -> W] : FoldsLeft(W, <<>>, n, g, F)
    BY <1>1, <1>3, MaxFold
  <2>2. ASSUME NEW t \in SUBSET (1..n) PROVE F[t] = One(F, t)
    <3>1. CASE t # {}
      <4>1. Max(t) \in 1..n /\ F[t \ {Max(t)}] \in W
        BY <1>1, <3>1, MaxInside
      <4> QED
        BY <1>3, <2>1, <3>1, <4>1 DEF FoldsLeft
    <3> QED
      BY <2>1, <3>1 DEF FoldsLeft
  <2>3. [t \in SUBSET (1..n) |-> F[t]] = [t \in SUBSET (1..n) |-> One(F, t)]
    BY <2>2, Zenon
  <2>4. F = [t \in SUBSET (1..n) |-> F[t]]
    OBVIOUS
  <2> QED
    BY <2>3, <2>4, Zenon
<1> DEFINE H == CHOOSE F : F = [t \in SUBSET (1..n) |-> One(F, t)]
<1>5. H = [t \in SUBSET (1..n) |-> One(H, t)]
  BY <1>4, Zenon
<1>6. FoldLeft(AuthorVote, <<>>, s) = H[1..n]
  BY <1>1 DEF AuthorVote, FoldLeft, MapThenFoldSet, op
<1> HIDE DEF H
<1>7. FoldsLeft(W, <<>>, n, g, H)
  <2>1. H[{}] = <<>>
    BY <1>5
  <2>2. ASSUME NEW t \in SUBSET (1..n), t # {}, H[t \ {Max(t)}] \in W
        PROVE  H[t] = g[Max(t)][H[t \ {Max(t)}]]
    <3>1. H[t] = op(H[t \ {Max(t)}], s[Max(t)]) /\ Max(t) \in 1..n
      BY <1>1, <1>5, <2>2, MaxInside
    <3> QED
      BY <1>3, <2>2, <3>1
  <2> QED
    BY <2>1, <2>2 DEF FoldsLeft
<1>8. PICK b : Loop(W, <<>>, n, g, b) /\ b[n] = H[1..n]
  <2>1. n \in Nat /\ g \in [1..n -> [W -> W]]
    BY <1>1, <1>3
  <2>2. <<>> \in W
    BY <1>1
  <2> HIDE DEF n
  <2> QED
    BY <2>1, <2>2, <1>7, FoldIsLoop
<1>9. b \in [0..n -> W] /\ b[0] = <<>> /\ \A k \in 1..n : b[k] = g[k][b[k-1]]
  BY <1>8 DEF Loop
<1>10. ASSUME NEW k \in 1..n PROVE b[k] = op(b[k-1], s[k])
  <2>0. k - 1 \in 0..n
    BY <1>1
  <2>1. k - 1 \in 0..n /\ b[k-1] \in W
    BY <1>9, <2>0
  <2> QED
    BY <1>3, <1>9, <2>1
<1> QED
  BY <1>6, <1>8, <1>9, <1>10 DEF W, op

(* The best of the votes of pickAuthors.                                   *)
BestAuthors(votes) ==
  FoldLeft(LAMBDA w, v : IF Above(AuthorRank(v), AuthorRank(w)) THEN v ELSE w,
           [list |-> <<>>, count |-> 0], votes)

(* The votes are compared one by one with the best so far.                 *)
LEMMA PickAuthorsRun ==
  ASSUME NEW s \in Seq([list : Seq(BookTexts), count : Nat])
  PROVE  \E b \in [0..Len(s) -> [list : Seq(BookTexts), count : Nat]] :
           /\ b[0] = [list |-> <<>>, count |-> 0] /\ BestAuthors(s) = b[Len(s)]
           /\ \A k \in 1..Len(s) : b[k] = IF Above(AuthorRank(s[k]), AuthorRank(b[k-1])) THEN s[k] ELSE b[k-1]
<1> DEFINE n == Len(s)
           W == [list : Seq(BookTexts), count : Nat]
           op(w, x) == IF Above(AuthorRank(x), AuthorRank(w)) THEN x ELSE w
           One(F, t) == IF t = {} THEN [list |-> <<>>, count |-> 0] ELSE op(F[t \ {Max(t)}], s[Max(t)])
           g == [k \in 1..n |-> [w \in W |-> op(w, s[k])]]
<1>1. n \in Nat /\ DOMAIN s = 1..n /\ [list |-> <<>>, count |-> 0] \in W
  OBVIOUS
<1>2. ASSUME NEW k \in 1..n, NEW w \in W PROVE op(w, s[k]) \in W
  <2>1. s \in Seq(W) /\ DOMAIN s = 1..n
    BY <1>1
  <2> HIDE DEF W
  <2>2. s[k] \in W
    BY <1>1, <2>1
  <2> QED
    BY <2>2
<1>3. g \in [1..n -> [W -> W]] /\ \A k \in 1..n, w \in W : g[k][w] = op(w, s[k])
  <2> HIDE DEF op, W
  <2> QED
    BY <1>2
<1> HIDE DEF g, W, op
<1>4. \E F : F = [t \in SUBSET (1..n) |-> One(F, t)]
  <2>1. PICK F \in [SUBSET (1..n) -> W] : FoldsLeft(W, [list |-> <<>>, count |-> 0], n, g, F)
    BY <1>1, <1>3, MaxFold
  <2>2. ASSUME NEW t \in SUBSET (1..n) PROVE F[t] = One(F, t)
    <3>1. CASE t # {}
      <4>1. Max(t) \in 1..n /\ F[t \ {Max(t)}] \in W
        BY <1>1, <3>1, MaxInside
      <4> QED
        BY <1>3, <2>1, <3>1, <4>1 DEF FoldsLeft
    <3> QED
      BY <2>1, <3>1 DEF FoldsLeft
  <2>3. [t \in SUBSET (1..n) |-> F[t]] = [t \in SUBSET (1..n) |-> One(F, t)]
    BY <2>2, Zenon
  <2>4. F = [t \in SUBSET (1..n) |-> F[t]]
    OBVIOUS
  <2> QED
    BY <2>3, <2>4, Zenon
<1> DEFINE H == CHOOSE F : F = [t \in SUBSET (1..n) |-> One(F, t)]
<1>5. H = [t \in SUBSET (1..n) |-> One(H, t)]
  BY <1>4, Zenon
<1>6. BestAuthors(s) = H[1..n]
  BY <1>1 DEF BestAuthors, FoldLeft, MapThenFoldSet, op
<1> HIDE DEF H
<1>7. FoldsLeft(W, [list |-> <<>>, count |-> 0], n, g, H)
  <2>1. H[{}] = [list |-> <<>>, count |-> 0]
    BY <1>5
  <2>2. ASSUME NEW t \in SUBSET (1..n), t # {}, H[t \ {Max(t)}] \in W
        PROVE  H[t] = g[Max(t)][H[t \ {Max(t)}]]
    <3>1. H[t] = op(H[t \ {Max(t)}], s[Max(t)]) /\ Max(t) \in 1..n
      BY <1>1, <1>5, <2>2, MaxInside
    <3> QED
      BY <1>3, <2>2, <3>1
  <2> QED
    BY <2>1, <2>2 DEF FoldsLeft
<1>8. PICK b : Loop(W, [list |-> <<>>, count |-> 0], n, g, b) /\ b[n] = H[1..n]
  <2>1. n \in Nat /\ g \in [1..n -> [W -> W]]
    BY <1>1, <1>3
  <2>2. [list |-> <<>>, count |-> 0] \in W
    BY <1>1
  <2> HIDE DEF n
  <2> QED
    BY <2>1, <2>2, <1>7, FoldIsLoop
<1>9. b \in [0..n -> W] /\ b[0] = [list |-> <<>>, count |-> 0] /\ \A k \in 1..n : b[k] = g[k][b[k-1]]
  BY <1>8 DEF Loop
<1>10. ASSUME NEW k \in 1..n PROVE b[k] = op(b[k-1], s[k])
  <2>0. k - 1 \in 0..n
    BY <1>1
  <2>1. k - 1 \in 0..n /\ b[k-1] \in W
    BY <1>9, <2>0
  <2> QED
    BY <1>3, <1>9, <2>1
<1> QED
  BY <1>6, <1>8, <1>9, <1>10 DEF W, op

(***************************************************************************)
(* The votes of pickAuthors, by index.  No list of a class is longer than  *)
(* another: the first one seen stays.                                      *)
(***************************************************************************)
AuthorKeys(t) == [i \in 1..Len(t) |-> AuthorKey(t[i])]
NoLengths(t) == [i \in 1..Len(t) |-> 0]
AuthorsAt(t, m, pos, cnt) == [p \in 1..m |-> [list |-> t[pos[p]], count |-> cnt[p]]]

(* A vote for the list at k + 1 is a vote by its index.                    *)
LEMMA AuthorVoteAt ==
  ASSUME NEW t \in Seq(Seq(BookTexts)), NEW k \in Nat, k + 1 <= Len(t),
         NEW m, NEW pos, NEW cnt, Counted(AuthorKeys(t), NoLengths(t), k, m, pos, cnt)
  PROVE  \E m2, at2, cnt2 :
           /\ Counted(AuthorKeys(t), NoLengths(t), k + 1, m2, at2, cnt2)
           /\ AuthorVote(AuthorsAt(t, m, pos, cnt), t[k+1]) = AuthorsAt(t, m2, at2, cnt2)
<1> DEFINE n == Len(t)  key == AuthorKeys(t)  len == NoLengths(t)  more == k + 1
           votes == AuthorsAt(t, m, pos, cnt)
           mine == {p \in DOMAIN votes : AuthorKey(votes[p].list) = AuthorKey(t[more])}
<1>0. len \in [1..n -> Nat] /\ more <= n /\ Counted(key, len, k, m, pos, cnt)
  BY DEF NoLengths
<1>1. /\ m \in Nat /\ pos \in [1..m -> 1..k] /\ cnt \in [1..m -> Nat]
      /\ n \in Nat /\ more \in 1..n /\ \A i \in 1..k : i \in 1..n
  <2>1. m \in Nat /\ pos \in [1..m -> 1..k] /\ cnt \in [1..m -> Nat]
    BY DEF Counted
  <2>2. n \in Nat
    OBVIOUS
  <2> HIDE DEF n
  <2>3. more \in 1..n /\ \A i \in 1..k : i \in 1..n
    BY <1>0, <2>2
  <2> QED
    BY <2>1, <2>2, <2>3
<1>2. \A i \in 1..n : key[i] = AuthorKey(t[i]) /\ len[i] = 0
  BY DEF AuthorKeys, NoLengths
<1>3. /\ DOMAIN votes = 1..m
      /\ \A p \in 1..m : votes[p] = [list |-> t[pos[p]], count |-> cnt[p]] /\ pos[p] \in 1..n
  BY <1>1 DEF AuthorsAt
<1>4. \A p \in 1..m : AuthorKey(votes[p].list) = key[pos[p]]
  BY <1>2, <1>3
<1>5. mine = {p \in 1..m : key[pos[p]] = key[more]}
  BY <1>1, <1>2, <1>3, <1>4
<1>6. CASE mine = {}
  <2> DEFINE at2 == With(m, pos, more)  cnt2 == With(m, cnt, 1)
  <2>1. \A p \in 1..m : key[pos[p]] # key[more]
    BY <1>5, <1>6
  <2>2. Counted(key, len, more, m + 1, at2, cnt2)
    <3> HIDE DEF n, key, len, votes, mine
    <3> QED
      BY <1>0, <1>1, <2>1, NewVote
  <2>3. AuthorVote(votes, t[more]) = Append(votes, [list |-> t[more], count |-> 1])
    BY <1>6 DEF AuthorVote
  <2>4. Append(votes, [list |-> t[more], count |-> 1]) = AuthorsAt(t, m + 1, at2, cnt2)
    <3>1. votes = [p \in 1..m |-> [list |-> t[pos[p]], count |-> cnt[p]]]
      BY DEF AuthorsAt
    <3>2. Len(votes) = m
      BY <1>1, <3>1
    <3>3. \A p \in 1..m+1 : p = m + 1 \/ p \in 1..m
      BY <1>1
    <3>4. \A p \in 1..m : p # m + 1 /\ p \in 1..m+1
      BY <1>1
    <3>5. \A p \in 1..m+1 :
            (IF p <= m THEN votes[p] ELSE [list |-> t[more], count |-> 1])
              = [list |-> t[at2[p]], count |-> cnt2[p]]
      <4> TAKE p \in 1..m+1
      <4>1. CASE p = m + 1
        BY <1>1, <4>1 DEF With
      <4>2. CASE p \in 1..m
        BY <1>1, <3>1, <3>4, <4>2 DEF With
      <4> QED
        BY <3>3, <4>1, <4>2
    <3>6. Append(votes, [list |-> t[more], count |-> 1])
            = [p \in 1..m+1 |-> IF p <= m THEN votes[p] ELSE [list |-> t[more], count |-> 1]]
      <4>1. votes \in Seq([list : {t[i] : i \in 1..n}, count : Nat])
        <5> DEFINE V == [list : {t[i] : i \in 1..n}, count : Nat]
        <5>1. votes \in [1..m -> V]
          BY <1>1, <3>1
        <5> HIDE DEF V, votes
        <5> QED
          BY <1>1, <5>1, IsSeq DEF V
      <4> HIDE DEF votes
      <4> QED
        BY <1>1, <3>2, <4>1
    <3> HIDE DEF votes, at2, cnt2
    <3> QED
      BY <3>5, <3>6 DEF AuthorsAt
  <2> QED
    BY <2>2, <2>3, <2>4
<1>7. CASE mine # {}
  <2> DEFINE cnt2 == Raised(key, more, m, pos, cnt)
  <2>1. \E p \in 1..m : key[pos[p]] = key[more]
    BY <1>5, <1>7
  <2>0. Respelt(key, len, more, m, pos) = pos
    <3>1. \A p \in 1..m : (IF key[pos[p]] = key[more] /\ len[more] > len[pos[p]] THEN more ELSE pos[p]) = pos[p]
      <4>1. \A p \in 1..m : ~(len[more] > len[pos[p]])
        BY <1>1, <1>2
      <4> HIDE DEF key, len, more
      <4> QED
        BY <4>1
    <3> HIDE DEF key, len, more
    <3>2. Respelt(key, len, more, m, pos) = [p \in 1..m |-> pos[p]]
      BY <3>1 DEF Respelt
    <3> QED
      BY <1>1, <3>2
  <2>2. Counted(key, len, more, m, pos, cnt2)
    <3> HIDE DEF n, key, len, votes, mine
    <3>1. Counted(key, len, more, m, Respelt(key, len, more, m, pos), cnt2)
      BY <1>0, <1>1, <2>1, VoteAgain
    <3> HIDE DEF cnt2, more
    <3> QED
      BY <2>0, <3>1
  <2>3. AuthorVote(votes, t[more]) =
          [p \in DOMAIN votes |-> IF p \in mine THEN [votes[p] EXCEPT !.count = @ + 1] ELSE votes[p]]
    BY <1>7 DEF AuthorVote
  <2>4. \A p \in 1..m :
          (IF p \in mine THEN [votes[p] EXCEPT !.count = @ + 1] ELSE votes[p])
            = [list |-> t[pos[p]], count |-> cnt2[p]]
    <3> TAKE p \in 1..m
    <3>1. p \in mine <=> key[pos[p]] = key[more]
      BY <1>5
    <3>2. votes[p] = [list |-> t[pos[p]], count |-> cnt[p]]
      BY <1>3
    <3>3. cnt2[p] = IF key[pos[p]] = key[more] THEN cnt[p] + 1 ELSE cnt[p]
      BY DEF Raised
    <3> HIDE DEF mine, votes, key, len, cnt2
    <3>4. CASE p \notin mine
      BY <3>1, <3>2, <3>3, <3>4
    <3>5. CASE p \in mine
      BY <3>1, <3>2, <3>3, <3>5
    <3> QED
      BY <3>4, <3>5
  <2> HIDE DEF mine, votes, key, len, cnt2
  <2>5. AuthorVote(votes, t[more]) = [p \in 1..m |-> [list |-> t[pos[p]], count |-> cnt2[p]]]
    BY <1>3, <2>3, <2>4
  <2>6. AuthorVote(votes, t[more]) = AuthorsAt(t, m, pos, cnt2)
    BY <2>5 DEF AuthorsAt
  <2> QED
    BY <2>2, <2>6 DEF key, len, votes
<1> QED
  BY <1>6, <1>7

(* Every list is counted.                                                  *)
LEMMA AuthorsCounted ==
  ASSUME NEW t \in Seq(Seq(BookTexts))
  PROVE  \E m, pos, cnt :
           /\ Counted(AuthorKeys(t), NoLengths(t), Len(t), m, pos, cnt)
           /\ FoldLeft(AuthorVote, <<>>, t) = AuthorsAt(t, m, pos, cnt)
<1> DEFINE n == Len(t)  key == AuthorKeys(t)  len == NoLengths(t)
<1>1. PICK b \in [0..n -> Seq([list : Seq(BookTexts), count : Nat])] :
         /\ b[0] = <<>> /\ FoldLeft(AuthorVote, <<>>, t) = b[n]
         /\ \A k \in 1..n : b[k] = AuthorVote(b[k-1], t[k])
  BY AuthorVotesRun
<1>2. n \in Nat
  OBVIOUS
<1> DEFINE Reached(k) == \E m, pos, cnt : Counted(key, len, k, m, pos, cnt) /\ b[k] = AuthorsAt(t, m, pos, cnt)
           T == {k \in Nat : k <= n => Reached(k)}
<1>4. Reached(0)
  <2> DEFINE pos == [p \in 1..0 |-> 0]
  <2>1. Counted(key, len, 0, 0, pos, pos)
    BY DEF Counted
  <2>2. AuthorsAt(t, 0, pos, pos) = <<>>
    BY DEF AuthorsAt
  <2> QED
    BY <1>1, <2>1, <2>2
<1>5. ASSUME NEW k \in Nat, k + 1 <= n, Reached(k) PROVE Reached(k + 1)
  <2>1. PICK m, pos, cnt : Counted(key, len, k, m, pos, cnt) /\ b[k] = AuthorsAt(t, m, pos, cnt)
    BY <1>5
  <2>2. PICK m2, at2, cnt2 :
          /\ Counted(key, len, k + 1, m2, at2, cnt2)
          /\ AuthorVote(AuthorsAt(t, m, pos, cnt), t[k+1]) = AuthorsAt(t, m2, at2, cnt2)
    BY <1>5, <2>1, AuthorVoteAt
  <2>3. b[k+1] = AuthorVote(b[k], t[k+1])
    <3>1. k + 1 \in 1..n /\ (k + 1) - 1 = k
      BY <1>2, <1>5
    <3> QED
      BY <1>1, <3>1
  <2> QED
    BY <2>1, <2>2, <2>3
<1> HIDE DEF Reached
<1>6. 0 \in T /\ \A k \in Nat : k \in T => k + 1 \in T
  BY <1>2, <1>4, <1>5
<1>7. n \in T
  <2> HIDE DEF T
  <2> QED
    BY <1>2, <1>6, Induct
<1>8. Reached(n)
  BY <1>7
<1> QED
  BY <1>1, <1>8 DEF Reached

(* The runes of a list are the sum of the lengths of its names.            *)
SummedBy(l, f, H) ==
  /\ f \in [1..Len(l) -> Nat] /\ \A i \in 1..Len(l) : f[i] = runeLen(l[i])
  /\ Sums(Len(l), f, H) /\ Runes(l) = H[1..Len(l)]

(* They are such a sum.                                                    *)
LEMMA RunesAreSum ==
  ASSUME NEW l \in Seq(BookTexts)
  PROVE  \E f, H : SummedBy(l, f, H)
<1> DEFINE n == Len(l)
           f == [i \in 1..n |-> runeLen(l[i])]
           One(F, s) == IF s = {} THEN 0
                        ELSE runeLen(l[CHOOSE x \in s : TRUE]) + F[s \ {CHOOSE x \in s : TRUE}]
           H == CHOOSE F : F = [s \in SUBSET (1..n) |-> One(F, s)]
<1>1. n \in Nat /\ DOMAIN l = 1..n /\ \A i \in 1..n : l[i] \in BookTexts
  OBVIOUS
<1>2. f \in [1..n -> Nat] /\ \A i \in 1..n : f[i] = runeLen(l[i])
  BY <1>1, RuneLenNat
<1> HIDE DEF f
<1>3. \A s \in SUBSET (1..n) : s # {} => f[CHOOSE x \in s : TRUE] = runeLen(l[CHOOSE x \in s : TRUE])
  BY <1>2
<1>4. PICK F \in [SUBSET (1..n) -> Nat] : Sums(n, f, F)
  BY <1>1, <1>2, SumExists
<1>5. \E G : G = [s \in SUBSET (1..n) |-> One(G, s)]
  <2>1. \A s \in SUBSET (1..n) : F[s] = One(F, s)
    BY <1>3, <1>4 DEF Sums
  <2>2. F = [s \in SUBSET (1..n) |-> F[s]]
    OBVIOUS
  <2>3. [s \in SUBSET (1..n) |-> F[s]] = [s \in SUBSET (1..n) |-> One(F, s)]
    BY <2>1, Zenon
  <2> QED
    BY <2>2, <2>3, Zenon
<1>6. H = [s \in SUBSET (1..n) |-> One(H, s)]
  BY <1>5, Zenon
<1>7. Runes(l) = H[1..n]
  BY <1>1 DEF Runes, MapThenSumSet, MapThenFoldSet
<1> HIDE DEF H
<1>8. Sums(n, f, H)
  <2>1. \A s \in SUBSET (1..n) : H[s] = One(H, s)
    <3> HIDE DEF One
    <3> QED
      BY <1>6
  <2> QED
    BY <1>3, <2>1 DEF Sums
<1> QED
  BY <1>2, <1>7, <1>8 DEF SummedBy

(* What pickAuthors compares of a list are numbers.                        *)
LEMMA RanksAreNumbers ==
  ASSUME NEW l \in Seq(BookTexts)
  PROVE  Len(l) \in Nat /\ Runes(l) \in Nat /\ spacedCount(l) \in Nat
<1> DEFINE n == Len(l)  pos == {i \in DOMAIN l : FieldCount(l[i]) > 1}
<1>1. n \in Nat /\ DOMAIN l = 1..n
  OBVIOUS
<1>2. PICK f, H : SummedBy(l, f, H)
  BY RunesAreSum
<1>3. f \in [1..n -> Nat] /\ Sums(n, f, H) /\ Runes(l) = H[1..n]
  BY <1>2 DEF SummedBy
<1>4. Runes(l) \in Nat
  <2> HIDE DEF n
  <2>1. \A s \in SUBSET (1..n) : H[s] \in Nat
    BY <1>1, <1>3, SumIsNat
  <2>2. 1..n \in SUBSET (1..n)
    OBVIOUS
  <2> QED
    BY <1>3, <2>1, <2>2
<1>5. pos \in SUBSET (1..n)
  BY <1>1
<1>6. spacedCount(l) = Cardinality(pos)
  BY DEF spacedCount
<1> HIDE DEF pos
<1>7. Cardinality(pos) \in 0..n
  BY <1>1, <1>5, SizeOfNumbers
<1> QED
  BY <1>1, <1>4, <1>6, <1>7

(* What a list, before its votes are counted, has to put forward.          *)
AuthorTops(t) ==
  [x |-> [i \in 1..Len(t) |-> Len(t[i])], y |-> [i \in 1..Len(t) |-> Runes(t[i])],
   z |-> [i \in 1..Len(t) |-> spacedCount(t[i])]]

AuthorLeads(t, pos, cnt, p, q) ==
  Leads(pos, cnt, AuthorTops(t).x, AuthorTops(t).y, AuthorTops(t).z, p, q)

(* pickAuthors compares two votes by their counts and what their lists put *)
(* forward.                                                                *)
LEMMA RankIsLeads ==
  ASSUME NEW t \in Seq(Seq(BookTexts)), NEW m \in Nat, NEW pos \in [1..m -> 1..Len(t)],
         NEW cnt \in [1..m -> Nat], NEW p \in 1..m, NEW q \in 1..m
  PROVE  Above(AuthorRank(AuthorsAt(t, m, pos, cnt)[p]), AuthorRank(AuthorsAt(t, m, pos, cnt)[q]))
           <=> AuthorLeads(t, pos, cnt, p, q)
<1> DEFINE v == t[pos[p]]  w == t[pos[q]]
           a2 == Len(v)  a3 == Runes(v)  a4 == spacedCount(v)
           b2 == Len(w)  b3 == Runes(w)  b4 == spacedCount(w)
           cp == cnt[p]  cq == cnt[q]
<1>1. pos[p] \in 1..Len(t) /\ pos[q] \in 1..Len(t) /\ cp \in Nat /\ cq \in Nat
  OBVIOUS
<1>2. v \in Seq(BookTexts) /\ w \in Seq(BookTexts)
  <2>1. \A k \in 1..Len(t) : t[k] \in Seq(BookTexts)
    OBVIOUS
  <2> QED
    BY <1>1, <2>1, Zenon
<1>3. AuthorRank(AuthorsAt(t, m, pos, cnt)[p]) = <<cp, a2, a3, a4>>
      /\ AuthorRank(AuthorsAt(t, m, pos, cnt)[q]) = <<cq, b2, b3, b4>>
  BY DEF AuthorsAt, AuthorRank
<1>4. AuthorLeads(t, pos, cnt, p, q) <=> Higher(cp, a2, a3, a4, cq, b2, b3, b4)
  BY <1>1 DEF AuthorLeads, Leads, AuthorTops
<1>5. a2 \in Nat /\ a3 \in Nat /\ a4 \in Nat /\ b2 \in Nat /\ b3 \in Nat /\ b4 \in Nat
  <2> HIDE DEF v, w
  <2> QED
    BY <1>2, RanksAreNumbers
<1> HIDE DEF cp, cq, a2, a3, a4, b2, b3, b4
<1>6. Above(<<cp, a2, a3, a4>>, <<cq, b2, b3, b4>>) <=> Higher(cp, a2, a3, a4, cq, b2, b3, b4)
  <2>1. cp \in Int /\ cq \in Int /\ a2 \in Int /\ a3 \in Int /\ a4 \in Int
        /\ b2 \in Int /\ b3 \in Int /\ b4 \in Int
    BY <1>1, <1>5
  <2> QED
    BY <2>1, AboveIsHigher
<1> QED
  BY <1>3, <1>4, <1>6

(* They are numbers.                                                       *)
LEMMA AuthorTopsTyped ==
  ASSUME NEW t \in Seq(Seq(BookTexts))
  PROVE  /\ Tops(Len(t), AuthorTops(t).x, AuthorTops(t).y, AuthorTops(t).z)
         /\ NoLengths(t) \in [1..Len(t) -> Nat]
<1> DEFINE n == Len(t)
<1>1. \A i \in 1..n : t[i] \in Seq(BookTexts)
  OBVIOUS
<1>2. \A i \in 1..n : Len(t[i]) \in Int /\ Runes(t[i]) \in Int /\ spacedCount(t[i]) \in Int
  <2> TAKE i \in 1..n
  <2>1. Len(t[i]) \in Nat /\ Runes(t[i]) \in Nat /\ spacedCount(t[i]) \in Nat
    BY <1>1, RanksAreNumbers
  <2> QED
    BY <2>1
<1> HIDE DEF n
<1>3. /\ [i \in 1..n |-> Len(t[i])] \in [1..n -> Int]
      /\ [i \in 1..n |-> Runes(t[i])] \in [1..n -> Int]
      /\ [i \in 1..n |-> spacedCount(t[i])] \in [1..n -> Int]
      /\ [i \in 1..n |-> 0] \in [1..n -> Nat]
  BY <1>2
<1> QED
  BY <1>3 DEF Tops, AuthorTops, NoLengths, n

AuthorsLeader(t, m, pos, cnt, w) ==
  /\ Leader(pos, cnt, AuthorTops(t).x, AuthorTops(t).y, AuthorTops(t).z, m, w)
  /\ BestAuthors(AuthorsAt(t, m, pos, cnt)).list = t[pos[w]]

(* pickAuthors takes the first vote that none leads.                       *)
LEMMA AuthorsElected ==
  ASSUME NEW t \in Seq(Seq(BookTexts)), t # <<>>, NEW m, NEW pos, NEW cnt,
         Counted(AuthorKeys(t), NoLengths(t), Len(t), m, pos, cnt)
  PROVE  \E w : AuthorsLeader(t, m, pos, cnt, w)
<1> DEFINE n == Len(t)  votes == AuthorsAt(t, m, pos, cnt)
           x == AuthorTops(t).x  y == AuthorTops(t).y  z == AuthorTops(t).z
<1>0. /\ m \in Nat /\ pos \in [1..m -> 1..n] /\ cnt \in [1..m -> Nat]
      /\ \A p \in 1..m : cnt[p] = Cardinality(Class(AuthorKeys(t), n, pos[p]))
      /\ \A i \in 1..n : \E p \in 1..m : AuthorKeys(t)[pos[p]] = AuthorKeys(t)[i]
  BY DEF Counted
<1>1. n \in Nat /\ n # 0 /\ \A i \in 1..n : t[i] \in Seq(BookTexts)
  OBVIOUS
<1>2. votes \in Seq([list : Seq(BookTexts), count : Nat]) /\ Len(votes) = m
  <2> DEFINE V == [list : Seq(BookTexts), count : Nat]
  <2>1. \A p \in 1..m : pos[p] \in 1..n /\ cnt[p] \in Nat
    BY <1>0
  <2>2. \A p \in 1..m : [list |-> t[pos[p]], count |-> cnt[p]] \in V
    <3> TAKE p \in 1..m
    <3>1. t[pos[p]] \in Seq(BookTexts) /\ cnt[p] \in Nat
      BY <1>1, <2>1
    <3> QED
      BY <3>1
  <2> HIDE DEF V
  <2>3. [p \in 1..m |-> [list |-> t[pos[p]], count |-> cnt[p]]] \in [1..m -> V]
    BY <2>2
  <2>4. votes \in [1..m -> V]
    BY <2>3 DEF AuthorsAt
  <2> HIDE DEF votes
  <2>5. votes \in Seq(V) /\ Len(votes) = m
    BY <1>0, <2>4, IsSeq
  <2> QED
    BY <2>5 DEF V
<1>3. PICK b \in [0..m -> [list : Seq(BookTexts), count : Nat]] :
         /\ b[0] = [list |-> <<>>, count |-> 0]
         /\ BestAuthors(votes) = b[m]
         /\ \A k \in 1..m : b[k] = IF Above(AuthorRank(votes[k]), AuthorRank(b[k-1])) THEN votes[k] ELSE b[k-1]
  <2> HIDE DEF votes
  <2> QED
    BY <1>2, PickAuthorsRun
<1>4. Tops(n, x, y, z)
  BY AuthorTopsTyped
<1>5. 1 \in 1..m /\ cnt[1] > 0 /\ Leader(pos, cnt, x, y, z, 1, 1)
  <2>1. \A i \in 1..n : \E p \in 1..m : AuthorKeys(t)[pos[p]] = AuthorKeys(t)[i]
    BY <1>0
  <2>2. Counted(AuthorKeys(t), NoLengths(t), n, m, pos, cnt)
    OBVIOUS
  <2> HIDE DEF n, x, y, z
  <2> QED
    BY <1>1, <1>4, <2>2, FirstLeader
<1> DEFINE Reached(k) == \E w : Leader(pos, cnt, x, y, z, k, w) /\ b[k] = votes[w]
           T == {k \in Nat : k + 1 <= m => Reached(k + 1)}
<1>6. Reached(1)
  <2>1. votes[1] = [list |-> t[pos[1]], count |-> cnt[1]] /\ t[pos[1]] \in Seq(BookTexts)
    <3>1. pos[1] \in 1..n
      BY <1>0, <1>5
    <3> QED
      BY <1>1, <1>5, <3>1 DEF AuthorsAt
  <2>2. Above(AuthorRank(votes[1]), AuthorRank(b[0]))
    <3> DEFINE a2 == Len(t[pos[1]])  a3 == Runes(t[pos[1]])  a4 == spacedCount(t[pos[1]])
               b2 == Len(<<>>)  b3 == Runes(<<>>)  b4 == spacedCount(<<>>)  c1 == cnt[1]
    <3>1. AuthorRank(votes[1]) = <<c1, a2, a3, a4>> /\ AuthorRank(b[0]) = <<0, b2, b3, b4>>
      BY <1>3, <2>1 DEF AuthorRank
    <3>2. <<>> \in Seq(BookTexts)
      OBVIOUS
    <3>3. a2 \in Nat /\ a3 \in Nat /\ a4 \in Nat
      BY <2>1, RanksAreNumbers
    <3>4. b2 \in Nat /\ b3 \in Nat /\ b4 \in Nat
      BY <3>2, RanksAreNumbers
    <3>5. c1 \in Nat /\ c1 > 0
      BY <1>0, <1>5
    <3> HIDE DEF a2, a3, a4, b2, b3, b4, c1
    <3>6. Higher(c1, a2, a3, a4, 0, b2, b3, b4)
      BY <3>5 DEF Higher
    <3>7. Above(<<c1, a2, a3, a4>>, <<0, b2, b3, b4>>) <=> Higher(c1, a2, a3, a4, 0, b2, b3, b4)
      <4>1. c1 \in Int /\ a2 \in Int /\ a3 \in Int /\ a4 \in Int
            /\ 0 \in Int /\ b2 \in Int /\ b3 \in Int /\ b4 \in Int
        BY <3>3, <3>4, <3>5
      <4> QED
        BY <4>1, AboveIsHigher
    <3> QED
      BY <3>1, <3>6, <3>7
  <2>3. b[1] = votes[1]
    <3>1. 1 - 1 = 0
      OBVIOUS
    <3> HIDE DEF votes
    <3> QED
      BY <1>3, <1>5, <2>2, <3>1
  <2> QED
    BY <1>5, <2>3
<1>7. ASSUME NEW k \in Nat, k # 0, k + 1 <= m, Reached(k) PROVE Reached(k + 1)
  <2>1. PICK w : Leader(pos, cnt, x, y, z, k, w) /\ b[k] = votes[w]
    BY <1>7
  <2>2. w \in 1..m /\ k + 1 \in 1..m /\ (k + 1) - 1 = k
    <3>1. w \in 1..k
      BY <2>1 DEF Leader
    <3> QED
      BY <1>0, <1>7, <3>1
  <2>3. b[k+1] = IF Above(AuthorRank(votes[k+1]), AuthorRank(votes[w])) THEN votes[k+1] ELSE votes[w]
    <3> HIDE DEF votes
    <3> QED
      BY <1>3, <2>1, <2>2
  <2>4. Above(AuthorRank(votes[k+1]), AuthorRank(votes[w])) <=> Leads(pos, cnt, x, y, z, k + 1, w)
    BY <1>0, <2>2, RankIsLeads DEF AuthorLeads
  <2>5. Leader(pos, cnt, x, y, z, k + 1, IF Leads(pos, cnt, x, y, z, k + 1, w) THEN k + 1 ELSE w)
    <3> HIDE DEF x, y, z, n
    <3> QED
      BY <1>0, <1>1, <1>4, <1>7, <2>1, LeaderStep
  <2>6. b[k+1] = votes[IF Leads(pos, cnt, x, y, z, k + 1, w) THEN k + 1 ELSE w]
    <3> HIDE DEF votes, x, y, z
    <3> QED
      BY <2>3, <2>4
  <2> QED
    BY <2>5, <2>6
<1> HIDE DEF Reached
<1>8. 0 \in T /\ \A k \in Nat : k \in T => k + 1 \in T
  <2>1. 0 \in T
    BY <1>6
  <2>2. ASSUME NEW k \in Nat, k \in T PROVE k + 1 \in T
    <3> SUFFICES ASSUME (k + 1) + 1 <= m PROVE Reached((k + 1) + 1)
      OBVIOUS
    <3>1. k + 1 \in Nat /\ k + 1 # 0 /\ k + 1 <= m
      BY <1>0
    <3> QED
      BY <1>7, <2>2, <3>1
  <2> QED
    BY <2>1, <2>2
<1>9. \A k \in Nat : k \in T
  <2> HIDE DEF T
  <2> QED
    BY <1>8, Induct
<1>10. Reached(m)
  <2>1. m - 1 \in Nat /\ (m - 1) + 1 = m
    BY <1>0, <1>5
  <2> QED
    BY <1>9, <2>1
<1>11. PICK w : Leader(pos, cnt, x, y, z, m, w) /\ b[m] = votes[w]
  BY <1>10 DEF Reached
<1>12. votes[w].list = t[pos[w]]
  <2>1. w \in 1..m
    BY <1>11 DEF Leader
  <2> QED
    BY <2>1 DEF AuthorsAt
<1>13. BestAuthors(votes).list = t[pos[w]]
  <2> HIDE DEF votes
  <2> QED
    BY <1>3, <1>11, <1>12
<1> QED
  BY <1>11, <1>13 DEF AuthorsLeader

AlikeLists(t, i) == {j \in DOMAIN t : AuthorKey(t[j]) = AuthorKey(t[i])}

(* The first list of a class is the one of its vote.                       *)
LEMMA ListSpelling ==
  ASSUME NEW t \in Seq(Seq(BookTexts)), NEW m, NEW pos, NEW cnt,
         Counted(AuthorKeys(t), NoLengths(t), Len(t), m, pos, cnt),
         NEW i \in 1..Len(t), NEW p \in 1..m, AuthorKeys(t)[pos[p]] = AuthorKeys(t)[i]
  PROVE  AlikeLists(t, i) = Class(AuthorKeys(t), Len(t), i) /\ Min(AlikeLists(t, i)) = pos[p]
<1> DEFINE n == Len(t)  key == AuthorKeys(t)  len == NoLengths(t)
           Same == {j \in DOMAIN t : AuthorKey(t[j]) = AuthorKey(t[i])}
<1>1. DOMAIN t = 1..n /\ n \in Nat
  OBVIOUS
<1>2. \A j \in 1..n : key[j] = AuthorKey(t[j]) /\ len[j] = 0
  BY <1>1 DEF AuthorKeys, NoLengths
<1>3. Same = Class(key, n, i) /\ Same \subseteq 1..n
  BY <1>1, <1>2 DEF Class
<1>4. pos[p] \in 1..n /\ Longest(key, len, n, pos[p])
  BY DEF Counted
<1>5. \A j \in Same : pos[p] <= j
  <2> TAKE j \in Same
  <2>1. j \in 1..n /\ key[j] = key[pos[p]]
    BY <1>3 DEF Class
  <2>2. len[j] < len[pos[p]] \/ (len[j] = len[pos[p]] /\ pos[p] <= j)
    BY <1>4, <2>1 DEF Longest
  <2>3. len[j] = 0 /\ len[pos[p]] = 0
    BY <1>2, <1>4, <2>1
  <2> HIDE DEF len, key, n, Same
  <2> QED
    BY <2>2, <2>3
<1>6. pos[p] \in Same
  BY <1>3, <1>4 DEF Class
<1>7. Same \in SUBSET Nat
  BY <1>3
<1> HIDE DEF Same
<1>8. Min(Same) = pos[p]
  BY <1>5, <1>6, <1>7, MinIs
<1> QED
  BY <1>3, <1>8 DEF Same, AlikeLists

(* The winner of a vote on lists of authors, as the README describes it.   *)
ListBest(lists) ==
  LET l == Only(lists, ToSet(lists) \ {<<>>})
      Same(i) == {j \in DOMAIN l : AuthorKey(l[j]) = AuthorKey(l[i])}
      Kept(i) == l[Min(Same(i))]
      Rank(i) == <<Cardinality(Same(i)), Len(Kept(i)), Runes(Kept(i)), spacedCount(Kept(i))>>
  IN IF l = <<>> THEN <<>>
     ELSE Kept(Min({i \in DOMAIN l : \A j \in DOMAIN l : ~Above(Rank(j), Rank(i))}))

(* pickAuthors elects whom the README says.                                *)
LEMMA AuthorsChosen ==
  ASSUME NEW lists \in Seq(Seq(BookTexts))
  PROVE  pickAuthors(lists) = ListBest(lists)
<1> DEFINE t == Only(lists, ToSet(lists) \ {<<>>})
           n == Len(t)  key == AuthorKeys(t)  len == NoLengths(t)
           Same(i) == {j \in DOMAIN t : AuthorKey(t[j]) = AuthorKey(t[i])}
           Kept(i) == t[Min(Same(i))]
           Rank(i) == <<Cardinality(Same(i)), Len(Kept(i)), Runes(Kept(i)), spacedCount(Kept(i))>>
           Best == {i \in DOMAIN t : \A j \in DOMAIN t : ~Above(Rank(j), Rank(i))}
           x == AuthorTops(t).x  y == AuthorTops(t).y  z == AuthorTops(t).z
<1>1. t \in Seq(Seq(BookTexts))
  <2> DEFINE S == Seq(BookTexts)
  <2>1. lists \in Seq(S)
    OBVIOUS
  <2> HIDE DEF S
  <2>2. \A set : Only(lists, set) \in Seq(S)
    BY <2>1, OnlyTyped
  <2> QED
    BY <2>2 DEF S
<1>2. pickAuthors(lists) = BestAuthors(FoldLeft(AuthorVote, <<>>, t)).list
  BY DEF pickAuthors, AuthorVotes, BestAuthors
<1> HIDE DEF t
<1>3. CASE t = <<>>
  <2>1. <<>> \in Seq(Seq(BookTexts)) /\ Len(<<>>) = 0
    OBVIOUS
  <2>2. FoldLeft(AuthorVote, <<>>, <<>>) = <<>>
    BY <2>1, AuthorVotesRun
  <2>3. BestAuthors(<<>>).list = <<>>
    <3> DEFINE W == [list : Seq(BookTexts), count : Nat]  none == [list |-> <<>>, count |-> 0]
    <3>1. <<>> \in Seq(W)
      OBVIOUS
    <3>2. PICK b : b[0] = none /\ BestAuthors(<<>>) = b[Len(<<>>)]
      BY <3>1, PickAuthorsRun
    <3> QED
      BY <2>1, <3>2
  <2> QED
    BY <1>2, <1>3, <2>2, <2>3 DEF t, ListBest
<1>4. CASE t # <<>>
  <2>1. n \in Nat /\ n # 0 /\ DOMAIN t = 1..n /\ \A i \in 1..n : t[i] \in Seq(BookTexts)
    BY <1>1, <1>4
  <2>2. PICK m, pos, cnt : /\ Counted(key, len, n, m, pos, cnt)
                          /\ FoldLeft(AuthorVote, <<>>, t) = AuthorsAt(t, m, pos, cnt)
    BY <1>1, AuthorsCounted
  <2>3. PICK w : /\ Leader(pos, cnt, AuthorTops(t).x, AuthorTops(t).y, AuthorTops(t).z, m, w)
                 /\ BestAuthors(AuthorsAt(t, m, pos, cnt)).list = t[pos[w]]
    <3> HIDE DEF n, key, len, x, y, z
    <3>1. \E w : AuthorsLeader(t, m, pos, cnt, w)
      <4>1. Counted(AuthorKeys(t), NoLengths(t), Len(t), m, pos, cnt)
        BY <2>2 DEF n, key, len
      <4> QED
        BY <1>1, <1>4, <4>1, AuthorsElected
    <3> QED
      BY <3>1 DEF AuthorsLeader
  <2>4. Tops(n, x, y, z) /\ len \in [1..n -> Nat]
    BY <1>1, AuthorTopsTyped
  <2>5. /\ m \in Nat /\ pos \in [1..m -> 1..n] /\ cnt \in [1..m -> Nat]
        /\ \A i \in 1..n : \E p \in 1..m : key[pos[p]] = key[i]
        /\ \A p \in 1..m : cnt[p] = Cardinality(Class(key, n, pos[p])) /\ Longest(key, len, n, pos[p])
    BY <2>2 DEF Counted
  <2> DEFINE spell == [i \in 1..n |-> Min(Same(i))]
  <2>6. ASSUME NEW i \in 1..n, NEW p \in 1..m, key[pos[p]] = key[i]
        PROVE  Same(i) = Class(key, n, i) /\ Min(Same(i)) = pos[p]
    <3>1. AuthorKeys(t)[pos[p]] = AuthorKeys(t)[i] /\ i \in 1..Len(t)
          /\ Counted(AuthorKeys(t), NoLengths(t), Len(t), m, pos, cnt)
      BY <2>2, <2>6
    <3>2. AlikeLists(t, i) = Class(AuthorKeys(t), Len(t), i) /\ Min(AlikeLists(t, i)) = pos[p]
      <4> HIDE DEF key, len, n, x, y, z, Same
      <4> QED
        BY <1>1, <3>1, ListSpelling
    <3> QED
      BY <3>2 DEF AlikeLists
  <2>7. ASSUME NEW i \in 1..n
        PROVE  /\ spell[i] = Min(Same(i)) /\ spell[i] \in 1..n /\ key[spell[i]] = key[i]
               /\ Longest(key, len, n, spell[i]) /\ Same(i) = Class(key, n, i)
    <3>1. PICK p \in 1..m : key[pos[p]] = key[i]
      BY <2>5
    <3>2. Min(Same(i)) = pos[p] /\ Same(i) = Class(key, n, i)
      BY <2>6, <3>1
    <3>3. spell[i] = Min(Same(i))
      OBVIOUS
    <3> HIDE DEF Same, spell
    <3> QED
      BY <2>5, <3>1, <3>2, <3>3
  <2>8. spell \in [1..n -> 1..n]
    <3> HIDE DEF Same
    <3> QED
      BY <2>7
  <2> HIDE DEF spell
  <2>9. PICK i \in 1..n :
          /\ spell[i] = pos[w]
          /\ \A j \in 1..n : ~AtTop(key, n, x, y, z, j, i, spell[j], spell[i])
          /\ \A k \in 1..n :
               (\A j \in 1..n : ~AtTop(key, n, x, y, z, j, k, spell[j], spell[k])) => i <= k
    <3>1. Spells(key, len, n, spell)
      <4> HIDE DEF x, y, z, key, len, n, Same
      <4> QED
        BY <2>7, <2>8 DEF Spells
    <3>2. Leader(pos, cnt, x, y, z, m, w)
      BY <2>3
    <3> HIDE DEF x, y, z, key, len, n, Same
    <3>3. n \in Nat /\ len \in [1..n -> Nat] /\ Tops(n, x, y, z)
      BY <2>1, <2>4
    <3>4. Counted(key, len, n, m, pos, cnt)
      BY <2>2
    <3>5. \E i \in 1..n : spell[i] = pos[w] /\ Foremost(key, n, x, y, z, spell, i)
      BY <3>1, <3>2, <3>3, <3>4, Elected
    <3> QED
      BY <3>5 DEF Foremost
  <2>10. ASSUME NEW j \in 1..n
         PROVE  /\ Kept(j) = t[spell[j]] /\ spell[j] \in 1..n
                /\ Cardinality(Same(j)) = Cardinality(Class(key, n, j))
                /\ Len(Kept(j)) = x[spell[j]] /\ Runes(Kept(j)) = y[spell[j]]
                /\ spacedCount(Kept(j)) = z[spell[j]]
    <3>1. Kept(j) = t[spell[j]] /\ spell[j] \in 1..n /\ Same(j) = Class(key, n, j)
      BY <2>1, <2>7
    <3>2. x[spell[j]] = Len(t[spell[j]]) /\ y[spell[j]] = Runes(t[spell[j]]) /\ z[spell[j]] = spacedCount(t[spell[j]])
      BY <3>1 DEF AuthorTops
    <3> HIDE DEF Kept, Same, x, y, z
    <3> QED
      BY <3>1, <3>2
  <2>11. ASSUME NEW j \in 1..n, NEW k \in 1..n
         PROVE  Above(Rank(j), Rank(k)) <=> AtTop(key, n, x, y, z, j, k, spell[j], spell[k])
    <3> DEFINE a1 == Cardinality(Class(key, n, j))  a2 == x[spell[j]]  a3 == y[spell[j]]  a4 == z[spell[j]]
               b1 == Cardinality(Class(key, n, k))  b2 == x[spell[k]]  b3 == y[spell[k]]  b4 == z[spell[k]]
    <3>1. Rank(j) = <<a1, a2, a3, a4>> /\ Rank(k) = <<b1, b2, b3, b4>>
      <4> HIDE DEF Kept, Same, x, y, z, key, n
      <4> QED
        BY <2>10
    <3>2. a1 \in Int /\ b1 \in Int
      <4>1. Class(key, n, j) \in SUBSET (1..n) /\ Class(key, n, k) \in SUBSET (1..n)
        BY DEF Class
      <4>2. Cardinality(Class(key, n, j)) \in 0..n /\ Cardinality(Class(key, n, k)) \in 0..n
        BY <2>1, <4>1, SizeOfNumbers
      <4> HIDE DEF n, key
      <4> QED
        BY <4>2
    <3>3. /\ a2 \in Int /\ a3 \in Int /\ a4 \in Int
          /\ b2 \in Int /\ b3 \in Int /\ b4 \in Int
      <4> HIDE DEF x, y, z, n
      <4> QED
        BY <2>4, <2>10 DEF Tops
    <3>4. AtTop(key, n, x, y, z, j, k, spell[j], spell[k]) <=> Higher(a1, a2, a3, a4, b1, b2, b3, b4)
      BY DEF AtTop
    <3> HIDE DEF a1, a2, a3, a4, b1, b2, b3, b4, Rank
    <3>5. Above(<<a1, a2, a3, a4>>, <<b1, b2, b3, b4>>) <=> Higher(a1, a2, a3, a4, b1, b2, b3, b4)
      BY <3>2, <3>3, AboveIsHigher
    <3> QED
      BY <3>1, <3>4, <3>5, Zenon
  <2>12. Min(Best) = i
    <3> HIDE DEF Rank
    <3>1. i \in Best /\ \A k \in Best : i <= k
      BY <2>1, <2>9, <2>11
    <3>2. Best \in SUBSET Nat
      BY <2>1
    <3> HIDE DEF Best
    <3> QED
      BY <3>1, <3>2, MinIs
  <2>13. Kept(Min(Best)) = t[pos[w]]
    <3> HIDE DEF Best, Kept
    <3> QED
      BY <2>9, <2>10, <2>12
  <2>14. pickAuthors(lists) = Kept(Min(Best))
    <3> HIDE DEF Best, Kept
    <3> QED
      BY <1>2, <2>2, <2>3, <2>13
  <2> QED
    BY <1>4, <2>14 DEF t, ListBest
<1> QED
  BY <1>3, <1>4

(* Two runs of the same steps agree.                                       *)
SameSteps(n, b, c) == b[0] = c[0] /\ \A k \in 1..n : b[k-1] = c[k-1] => b[k] = c[k]

(* Runs that begin alike and go on alike end alike.                        *)
LEMMA OneRun ==
  ASSUME NEW n \in Nat, NEW b, NEW c, SameSteps(n, b, c)
  PROVE  b[n] = c[n]
<1> DEFINE T == {k \in Nat : k <= n => b[k] = c[k]}
<1>1. 0 \in T
  BY DEF SameSteps
<1>2. ASSUME NEW k \in Nat, k \in T PROVE k + 1 \in T
  <2> SUFFICES ASSUME k + 1 <= n PROVE b[k+1] = c[k+1]
    OBVIOUS
  <2>1. k + 1 \in 1..n /\ (k + 1) - 1 = k /\ b[k] = c[k]
    BY <1>2
  <2> QED
    BY <2>1 DEF SameSteps
<1>3. n \in T
  <2> HIDE DEF T
  <2> QED
    BY <1>1, <1>2, Induct
<1> QED
  BY <1>3

(* What holds of <<>> and of a sequence with an element more holds of all. *)
LEMMA BySequence ==
  ASSUME NEW S, NEW T, <<>> \in T, \A s \in Seq(S), x \in S : s \in T => Append(s, x) \in T
  PROVE  \A s \in Seq(S) : s \in T
<1> DEFINE N == {k \in Nat : \A s \in Seq(S) : Len(s) = k => s \in T}
<1>1. 0 \in N
  OBVIOUS
<1>2. ASSUME NEW k \in Nat, k \in N PROVE k + 1 \in N
  <2> SUFFICES ASSUME NEW s \in Seq(S), Len(s) = k + 1 PROVE s \in T
    OBVIOUS
  <2>1. s # <<>>
    OBVIOUS
  <2>2. PICK front \in Seq(S), x \in S : s = Append(front, x)
    BY <2>1, SequenceEmptyOrAppend
  <2>3. Len(front) = k
    BY <2>2
  <2> QED
    BY <1>2, <2>2, <2>3
<1>3. \A k \in Nat : k \in N
  <2> HIDE DEF N
  <2> QED
    BY <1>1, <1>2, Induct
<1>4. \A s \in Seq(S) : Len(s) \in Nat
  OBVIOUS
<1> QED
  BY <1>3, <1>4

(***************************************************************************)
(* Only.                                                                   *)
(***************************************************************************)
LEMMA OnlyEmpty == \A A : Only(<<>>, A) = <<>>
<1> SUFFICES ASSUME NEW A PROVE Only(<<>>, A) = <<>>
  OBVIOUS
<1>1. <<>> \in Seq({}) /\ Len(<<>>) = 0
  OBVIOUS
<1>2. PICK b : OnlyLoop({}, <<>>, A, b)
  BY <1>1, OnlyRun
<1> QED
  BY <1>1, <1>2 DEF OnlyLoop

(* The last element is looked at last.                                     *)
LEMMA OnlyAppend ==
  ASSUME NEW S, NEW s \in Seq(S), NEW x \in S, NEW A
  PROVE  /\ Only(s, A) \in Seq(S)
         /\ Only(Append(s, x), A) = IF x \in A THEN Append(Only(s, A), x) ELSE Only(s, A)
<1> DEFINE n == Len(s)  t == Append(s, x)
<1>1. n \in Nat /\ t \in Seq(S) /\ Len(t) = n + 1 /\ t[n+1] = x /\ \A k \in 1..n : t[k] = s[k]
  OBVIOUS
<1>0. PICK b : OnlyLoop(S, s, A, b)
  BY OnlyRun
<1>2. /\ b \in [0..n -> Seq(S)] /\ b[0] = <<>> /\ Only(s, A) = b[n]
      /\ \A k \in 1..n : b[k] = IF s[k] \in A THEN Append(b[k-1], s[k]) ELSE b[k-1]
  BY <1>0 DEF OnlyLoop
<1> HIDE DEF t
<1>8. PICK c : OnlyLoop(S, t, A, c)
  BY <1>1, OnlyRun
<1>3. /\ c \in [0..Len(t) -> Seq(S)] /\ c[0] = <<>> /\ Only(t, A) = c[Len(t)]
      /\ \A k \in 1..Len(t) : c[k] = IF t[k] \in A THEN Append(c[k-1], t[k]) ELSE c[k-1]
  BY <1>8 DEF OnlyLoop
<1> HIDE DEF n
<1>4. \A k \in 1..n : b[k-1] = c[k-1] => b[k] = c[k]
  <2>1. \A k \in 1..n : k \in 1..Len(t)
    BY <1>1
  <2> QED
    BY <1>1, <1>2, <1>3, <2>1
<1>5. b[n] = c[n]
  <2>1. SameSteps(n, b, c)
    BY <1>2, <1>3, <1>4 DEF SameSteps
  <2> QED
    BY <1>1, <2>1, OneRun
<1>6. c[n+1] = IF x \in A THEN Append(c[n], x) ELSE c[n]
  <2>1. n + 1 \in 1..Len(t) /\ (n + 1) - 1 = n
    BY <1>1
  <2> QED
    BY <1>1, <1>3, <2>1
<1>7. b[n] \in Seq(S)
  BY <1>1, <1>2
<1> QED
  BY <1>1, <1>2, <1>3, <1>5, <1>6, <1>7 DEF t

(* What is appended joins the elements.                                    *)
LEMMA ToSetAppend ==
  ASSUME NEW S, NEW s \in Seq(S), NEW x
  PROVE  ToSet(Append(s, x)) = ToSet(s) \cup {x}
<1>1. DOMAIN s = 1..Len(s) /\ DOMAIN Append(s, x) = 1..Len(s)+1 /\ Len(s) \in Nat
  OBVIOUS
<1>2. \A i \in 1..Len(s) : Append(s, x)[i] = s[i]
  OBVIOUS
<1>3. Append(s, x)[Len(s)+1] = x
  OBVIOUS
<1>4. 1..Len(s)+1 = (1..Len(s)) \cup {Len(s)+1}
  BY <1>1
<1> QED
  BY <1>1, <1>2, <1>3, <1>4 DEF ToSet

(* A filter keeps what is in its set.                                      *)
LEMMA OnlySet ==
  ASSUME NEW S, NEW s \in Seq(S), NEW A
  PROVE  Only(s, A) \in Seq(S) /\ ToSet(Only(s, A)) = ToSet(s) \cap A
<1> DEFINE T == {t \in Seq(S) : ToSet(Only(t, A)) = ToSet(t) \cap A}
<1>1. <<>> \in T
  BY OnlyEmpty DEF ToSet
<1>2. ASSUME NEW t \in Seq(S), NEW x \in S, t \in T PROVE Append(t, x) \in T
  <2>1. Only(t, A) \in Seq(S)
        /\ Only(Append(t, x), A) = IF x \in A THEN Append(Only(t, A), x) ELSE Only(t, A)
    BY OnlyAppend
  <2>2. ToSet(Append(t, x)) = ToSet(t) \cup {x}
    BY ToSetAppend
  <2>3. ToSet(Append(Only(t, A), x)) = ToSet(Only(t, A)) \cup {x}
    BY <2>1, ToSetAppend
  <2>4. Append(t, x) \in Seq(S) /\ ToSet(Only(t, A)) = ToSet(t) \cap A
    BY <1>2
  <2> QED
    BY <2>1, <2>2, <2>3, <2>4
<1>3. s \in T
  <2> HIDE DEF T
  <2> QED
    BY <1>1, <1>2, BySequence
<1>4. Only(s, A) \in Seq(S)
  <2>1. PICK b : OnlyLoop(S, s, A, b)
    BY OnlyRun
  <2> QED
    BY <2>1 DEF OnlyLoop
<1> QED
  BY <1>3, <1>4

(* A filter after another keeps what is in both sets.                      *)
LEMMA OnlyTwice ==
  ASSUME NEW S, NEW s \in Seq(S), NEW A, NEW B, B \subseteq A
  PROVE  Only(Only(s, A), B) = Only(s, B)
<1> DEFINE T == {t \in Seq(S) : Only(Only(t, A), B) = Only(t, B)}
<1>1. <<>> \in T
  BY OnlyEmpty
<1>2. ASSUME NEW t \in Seq(S), NEW x \in S, t \in T PROVE Append(t, x) \in T
  <2>1. Only(t, A) \in Seq(S)
        /\ Only(Append(t, x), A) = IF x \in A THEN Append(Only(t, A), x) ELSE Only(t, A)
    BY OnlyAppend
  <2>2. Only(Append(t, x), B) = IF x \in B THEN Append(Only(t, B), x) ELSE Only(t, B)
    BY OnlyAppend
  <2>3. Only(Append(Only(t, A), x), B)
          = IF x \in B THEN Append(Only(Only(t, A), B), x) ELSE Only(Only(t, A), B)
    <3> DEFINE u == Only(t, A)
    <3>1. u \in Seq(S)
      BY <2>1
    <3> HIDE DEF u
    <3>2. Only(Append(u, x), B) = IF x \in B THEN Append(Only(u, B), x) ELSE Only(u, B)
      BY <3>1, OnlyAppend
    <3> QED
      BY <3>2 DEF u
  <2>4. Append(t, x) \in Seq(S) /\ Only(Only(t, A), B) = Only(t, B)
    BY <1>2
  <2> QED
    BY <2>1, <2>2, <2>3, <2>4
<1>3. s \in T
  <2> HIDE DEF T
  <2> QED
    BY <1>1, <1>2, BySequence
<1> QED
  BY <1>3

(***************************************************************************)
(* Distinct.                                                               *)
(***************************************************************************)
Once(s) == Distinct(s, LAMBDA x : x)

(* Nothing without repetitions is nothing.                                 *)
LEMMA OnceEmpty == Once(<<>>) = <<>>
<1>1. <<>> \in Seq({}) /\ Len(<<>>) = 0
  OBVIOUS
<1>2. PICK b : OnceLoop({}, <<>>, b)
  BY <1>1, PlainDistinctRun
<1> QED
  BY <1>1, <1>2 DEF OnceLoop, Once

(* An element joins when it is new.                                        *)
LEMMA OnceAppend ==
  ASSUME NEW S, NEW s \in Seq(S), NEW x \in S
  PROVE  /\ Once(s) \in Seq(S)
         /\ Once(Append(s, x)) = IF x \in ToSet(Once(s)) THEN Once(s) ELSE Append(Once(s), x)
<1> DEFINE n == Len(s)  t == Append(s, x)
<1>1. n \in Nat /\ t \in Seq(S) /\ Len(t) = n + 1 /\ t[n+1] = x /\ \A k \in 1..n : t[k] = s[k]
  OBVIOUS
<1>0. PICK b : OnceLoop(S, s, b)
  BY PlainDistinctRun
<1>2. /\ b \in [0..n -> Seq(S)] /\ b[0] = <<>> /\ Once(s) = b[n]
      /\ \A k \in 1..n : b[k] = IF \E i \in DOMAIN b[k-1] : b[k-1][i] = s[k] THEN b[k-1]
                                ELSE Append(b[k-1], s[k])
  BY <1>0 DEF Once, OnceLoop
<1> HIDE DEF t
<1>9. PICK c : OnceLoop(S, t, c)
  BY <1>1, PlainDistinctRun
<1>3. /\ c \in [0..Len(t) -> Seq(S)] /\ c[0] = <<>> /\ Once(t) = c[Len(t)]
      /\ \A k \in 1..Len(t) : c[k] = IF \E i \in DOMAIN c[k-1] : c[k-1][i] = t[k] THEN c[k-1]
                                     ELSE Append(c[k-1], t[k])
  BY <1>9 DEF Once, OnceLoop
<1> HIDE DEF n
<1>4. \A k \in 1..n : b[k-1] = c[k-1] => b[k] = c[k]
  <2>1. \A k \in 1..n : k \in 1..Len(t)
    BY <1>1
  <2> SUFFICES ASSUME NEW k \in 1..n, b[k-1] = c[k-1] PROVE b[k] = c[k]
    OBVIOUS
  <2>2. b[k] = IF \E i \in DOMAIN b[k-1] : b[k-1][i] = s[k] THEN b[k-1] ELSE Append(b[k-1], s[k])
    BY <1>2
  <2>3. c[k] = IF \E i \in DOMAIN c[k-1] : c[k-1][i] = t[k] THEN c[k-1] ELSE Append(c[k-1], t[k])
    BY <1>3, <2>1
  <2>4. t[k] = s[k]
    BY <1>1
  <2> QED
    BY <2>2, <2>3, <2>4, Zenon
<1>5. b[n] = c[n]
  <2>1. SameSteps(n, b, c)
    BY <1>2, <1>3, <1>4 DEF SameSteps
  <2> QED
    BY <1>1, <2>1, OneRun
<1>6. c[n+1] = IF \E i \in DOMAIN c[n] : c[n][i] = x THEN c[n] ELSE Append(c[n], x)
  <2>1. n + 1 \in 1..Len(t) /\ (n + 1) - 1 = n
    BY <1>1
  <2> QED
    BY <1>1, <1>3, <2>1
<1>7. b[n] \in Seq(S)
  BY <1>1, <1>2
<1>8. x \in ToSet(c[n]) <=> \E i \in DOMAIN c[n] : c[n][i] = x
  BY DEF ToSet
<1> QED
  BY <1>1, <1>2, <1>3, <1>5, <1>6, <1>7, <1>8 DEF t

NoTwice(s) == \A i, j \in DOMAIN s : s[i] = s[j] => i = j

(* A new element repeats nothing.                                          *)
LEMMA NoTwiceAppend ==
  ASSUME NEW S, NEW s \in Seq(S), NEW x
  PROVE  NoTwice(Append(s, x)) <=> NoTwice(s) /\ x \notin ToSet(s)
<1> DEFINE n == Len(s)  t == Append(s, x)
<1>1. DOMAIN s = 1..n /\ DOMAIN t = 1..n+1 /\ n \in Nat /\ t[n+1] = x /\ \A i \in 1..n : t[i] = s[i]
  OBVIOUS
<1>2. \A i \in 1..n+1 : i \in 1..n \/ i = n + 1
  BY <1>1
<1>3. n + 1 \in 1..n+1 /\ \A i \in 1..n : i \in 1..n+1 /\ i # n + 1
  BY <1>1
<1> HIDE DEF n, t
<1>4. NoTwice(t) => NoTwice(s) /\ x \notin ToSet(s)
  BY <1>1, <1>3 DEF NoTwice, ToSet
<1>5. NoTwice(s) /\ x \notin ToSet(s) => NoTwice(t)
  <2> SUFFICES ASSUME NoTwice(s), x \notin ToSet(s), NEW i \in 1..n+1, NEW j \in 1..n+1, t[i] = t[j]
               PROVE  i = j
    BY <1>1 DEF NoTwice
  <2>1. \A k \in 1..n : s[k] # x
    BY <1>1 DEF ToSet
  <2> QED
    BY <1>1, <1>2, <2>1 DEF NoTwice
<1> QED
  BY <1>4, <1>5 DEF t

(* It keeps one of each.                                                   *)
LEMMA OnceSet ==
  ASSUME NEW S, NEW s \in Seq(S)
  PROVE  Once(s) \in Seq(S) /\ ToSet(Once(s)) = ToSet(s) /\ NoTwice(Once(s))
<1> DEFINE T == {t \in Seq(S) : Once(t) \in Seq(S) /\ ToSet(Once(t)) = ToSet(t) /\ NoTwice(Once(t))}
<1>1. <<>> \in T
  <2>1. <<>> \in Seq(S) /\ DOMAIN <<>> = {}
    OBVIOUS
  <2>2. NoTwice(<<>>)
    BY <2>1 DEF NoTwice
  <2> QED
    BY <2>1, <2>2, OnceEmpty
<1>2. ASSUME NEW t \in Seq(S), NEW x \in S, t \in T PROVE Append(t, x) \in T
  <2>1. /\ Append(t, x) \in Seq(S) /\ Once(t) \in Seq(S)
        /\ Once(Append(t, x)) = IF x \in ToSet(Once(t)) THEN Once(t) ELSE Append(Once(t), x)
    BY OnceAppend
  <2>2. ToSet(Append(t, x)) = ToSet(t) \cup {x} /\ ToSet(Append(Once(t), x)) = ToSet(Once(t)) \cup {x}
    BY <2>1, ToSetAppend
  <2>3. NoTwice(Append(Once(t), x)) <=> NoTwice(Once(t)) /\ x \notin ToSet(Once(t))
    BY <2>1, NoTwiceAppend
  <2>4. ToSet(Once(t)) = ToSet(t) /\ NoTwice(Once(t)) /\ Append(Once(t), x) \in Seq(S)
    BY <1>2, <2>1
  <2> QED
    BY <2>1, <2>2, <2>3, <2>4
<1>3. s \in T
  <2> HIDE DEF T
  <2> QED
    BY <1>1, <1>2, BySequence
<1> QED
  BY <1>3

(* It leaves alone what has one of each.                                   *)
LEMMA OnceAgain ==
  ASSUME NEW S, NEW s \in Seq(S), NoTwice(s)
  PROVE  Once(s) = s
<1> DEFINE T == {t \in Seq(S) : NoTwice(t) => Once(t) = t}
<1>1. <<>> \in T
  BY OnceEmpty
<1>2. ASSUME NEW t \in Seq(S), NEW x \in S, t \in T PROVE Append(t, x) \in T
  <2>1. /\ Append(t, x) \in Seq(S)
        /\ Once(Append(t, x)) = IF x \in ToSet(Once(t)) THEN Once(t) ELSE Append(Once(t), x)
    BY OnceAppend
  <2>2. NoTwice(Append(t, x)) <=> NoTwice(t) /\ x \notin ToSet(t)
    BY NoTwiceAppend
  <2>3. NoTwice(t) => Once(t) = t
    BY <1>2
  <2> QED
    BY <2>1, <2>2, <2>3
<1>3. s \in T
  <2> HIDE DEF T
  <2> QED
    BY <1>1, <1>2, BySequence
<1> QED
  BY <1>3

(* What the filter does with one more element.                             *)
OnlyGrows(s, x, A) ==
  Only(Append(s, x), A) = IF x \in A THEN Append(Only(s, A), x) ELSE Only(s, A)

(* The filter takes one element at a time.                                 *)
LEMMA OnlyGrown ==
  ASSUME NEW S, NEW s \in Seq(S), NEW x \in S, NEW A
  PROVE  OnlyGrows(s, x, A)
BY OnlyAppend DEF OnlyGrows

(* What is added at the end does not show among what was there before.     *)
LEMMA OnlyKnown ==
  ASSUME NEW S, NEW s \in Seq(S), NEW r \in Seq(S), NoTwice(s), NEW B, B \subseteq ToSet(s)
  PROVE  Only(Once(s \o r), B) = Only(s, B)
<1> DEFINE T == {t \in Seq(S) : Only(Once(s \o t), B) = Only(s, B)}
<1>1. <<>> \in T
  <2>1. s \o <<>> = s
    OBVIOUS
  <2> QED
    BY <2>1, OnceAgain
<1>2. ASSUME NEW t \in Seq(S), NEW x \in S, t \in T PROVE Append(t, x) \in T
  <2> DEFINE u == s \o t
  <2>1. Append(t, x) \in Seq(S) /\ u \in Seq(S) /\ s \o Append(t, x) = Append(u, x)
    OBVIOUS
  <2>2. ToSet(s) \subseteq ToSet(u)
    <3>1. DOMAIN s \subseteq DOMAIN u /\ \A i \in DOMAIN s : u[i] = s[i]
      OBVIOUS
    <3> QED
      BY <3>1 DEF ToSet
  <2> HIDE DEF u
  <2>3. /\ Once(u) \in Seq(S) /\ ToSet(Once(u)) = ToSet(u)
        /\ Once(Append(u, x)) = IF x \in ToSet(Once(u)) THEN Once(u) ELSE Append(Once(u), x)
    BY <2>1, OnceAppend, OnceSet
  <2>4. Only(Append(Once(u), x), B) = IF x \in B THEN Append(Only(Once(u), B), x) ELSE Only(Once(u), B)
    <3> DEFINE v == Once(u)
    <3>1. v \in Seq(S) /\ x \in S
      BY <2>3
    <3> HIDE DEF v
    <3>2. OnlyGrows(v, x, B)
      BY <3>1, OnlyGrown
    <3> QED
      BY <3>2 DEF v, OnlyGrows
  <2>5. Only(Once(u), B) = Only(s, B)
    BY <1>2 DEF u
  <2>6. x \in B => x \in ToSet(Once(u))
    BY <2>2, <2>3
  <2> QED
    BY <2>1, <2>3, <2>4, <2>5, <2>6
<1>3. r \in T
  <2> HIDE DEF T
  <2> QED
    BY <1>1, <1>2, BySequence
<1> QED
  BY <1>3

(* The elements of a concatenation.                                        *)
LEMMA ToSetConcat ==
  ASSUME NEW S, NEW s \in Seq(S), NEW t \in Seq(S)
  PROVE  s \o t \in Seq(S) /\ ToSet(s \o t) = ToSet(s) \cup ToSet(t)
<1> DEFINE u == s \o t  m == Len(s)  n == Len(t)
<1>1. /\ m \in Nat /\ n \in Nat /\ DOMAIN s = 1..m /\ DOMAIN t = 1..n /\ DOMAIN u = 1..m+n
      /\ \A i \in 1..m : u[i] = s[i]
      /\ \A i \in 1..n : u[m+i] = t[i]
  OBVIOUS
<1>2. u \in Seq(S)
  OBVIOUS
<1> HIDE DEF m, n, u
<1>3. \A i \in 1..m+n : i \in 1..m \/ \E j \in 1..n : i = m + j
  <2> SUFFICES ASSUME NEW i \in 1..m+n, i \notin 1..m PROVE \E j \in 1..n : i = m + j
    OBVIOUS
  <2>1. i - m \in 1..n /\ i = m + (i - m)
    BY <1>1
  <2> QED
    BY <2>1
<1>4. /\ \A i \in 1..m : i \in 1..m+n
      /\ \A i \in 1..n : m + i \in 1..m+n
  BY <1>1
<1>5. ToSet(u) \subseteq ToSet(s) \cup ToSet(t)
  <2> SUFFICES ASSUME NEW i \in 1..m+n PROVE u[i] \in ToSet(s) \cup ToSet(t)
    BY <1>1 DEF ToSet
  <2> QED
    BY <1>1, <1>3 DEF ToSet
<1>6. ToSet(s) \subseteq ToSet(u)
  BY <1>1, <1>4 DEF ToSet
<1>7. ToSet(t) \subseteq ToSet(u)
  BY <1>1, <1>4 DEF ToSet
<1> QED
  BY <1>2, <1>5, <1>6, <1>7 DEF u

(* Without repetitions when neither has any and they share none.           *)
LEMMA OnceConcat ==
  ASSUME NEW S, NEW s \in Seq(S), NEW t \in Seq(S),
         NoTwice(s), NoTwice(t), ToSet(s) \cap ToSet(t) = {}
  PROVE  NoTwice(s \o t)
<1> DEFINE u == s \o t  m == Len(s)  n == Len(t)
<1>1. /\ m \in Nat /\ n \in Nat /\ DOMAIN s = 1..m /\ DOMAIN t = 1..n /\ DOMAIN u = 1..m+n
      /\ \A i \in 1..m : u[i] = s[i]
      /\ \A i \in 1..n : u[m+i] = t[i]
  OBVIOUS
<1> HIDE DEF m, n, u
<1>2. \A i \in 1..m+n : i \in 1..m \/ \E j \in 1..n : i = m + j
  <2> SUFFICES ASSUME NEW i \in 1..m+n, i \notin 1..m PROVE \E j \in 1..n : i = m + j
    OBVIOUS
  <2>1. i - m \in 1..n /\ i = m + (i - m)
    BY <1>1
  <2> QED
    BY <2>1
<1>3. \A i \in 1..m, j \in 1..n : s[i] # t[j]
  BY <1>1 DEF ToSet
<1>4. ASSUME NEW i \in 1..m+n, NEW j \in 1..m+n, u[i] = u[j] PROVE i = j
  <2>1. CASE i \in 1..m /\ j \in 1..m
    BY <1>1, <1>4, <2>1 DEF NoTwice
  <2>2. CASE i \in 1..m /\ j \notin 1..m
    <3>1. PICK y \in 1..n : j = m + y
      BY <1>2, <2>2
    <3>2. u[i] = s[i] /\ u[j] = t[y] /\ s[i] # t[y]
      BY <1>1, <1>3, <2>2, <3>1
    <3> QED
      BY <1>4, <3>2
  <2>3. CASE i \notin 1..m /\ j \in 1..m
    <3>1. PICK x \in 1..n : i = m + x
      BY <1>2, <2>3
    <3>2. u[j] = s[j] /\ u[i] = t[x] /\ s[j] # t[x]
      BY <1>1, <1>3, <2>3, <3>1
    <3> QED
      BY <1>4, <3>2
  <2>4. CASE i \notin 1..m /\ j \notin 1..m
    <3>1. PICK x \in 1..n : i = m + x
      BY <1>2, <2>4
    <3>2. PICK y \in 1..n : j = m + y
      BY <1>2, <2>4
    <3>3. t[x] = t[y]
      BY <1>1, <1>4, <3>1, <3>2
    <3>4. x = y
      BY <1>1, <3>3 DEF NoTwice
    <3> QED
      BY <3>1, <3>2, <3>4
  <2> QED
    BY <2>1, <2>2, <2>3, <2>4
<1> QED
  BY <1>1, <1>4 DEF NoTwice, u

(* FlattenSeq puts sequences one after the other.                          *)
FlattenLoop(S, ss, b) ==
  /\ b \in [0..Len(ss) -> Seq(S)]
  /\ b[0] = <<>> /\ FlattenSeq(ss) = b[Len(ss)]
  /\ \A k \in 1..Len(ss) : b[k] = b[k-1] \o ss[k]

(* It is such a run.                                                       *)
LEMMA FlattenRun ==
  ASSUME NEW S, NEW ss \in Seq(Seq(S))
  PROVE  \E b : FlattenLoop(S, ss, b)
<1> DEFINE W == Seq(S)  n == Len(ss)
           g == [k \in 1..n |-> [w \in W |-> w \o ss[k]]]
<1>1. ss \in Seq(W) /\ <<>> \in W
  OBVIOUS
<1>2. \A v, w \in W : v \o w \in W /\ <<>> \o w = w /\ ToSet(v \o w) = ToSet(v) \cup ToSet(w)
  BY ToSetConcat
<1> HIDE DEF W
<1>3. n \in Nat /\ DOMAIN ss = 1..n /\ \A k \in 1..n : ss[k] \in W
  BY <1>1
<1>4. g \in [1..n -> [W -> W]] /\ \A k \in 1..n, w \in W : g[k][w] = w \o ss[k]
  BY <1>2, <1>3
<1> HIDE DEF g, n
<1>5. PICK b : Loop(W, <<>>, n, g, b)
  <2>1. PICK F \in [SUBSET (1..n) -> W] : FoldsLeft(W, <<>>, n, g, F)
    BY <1>1, <1>3, <1>4, MaxFold
  <2> QED
    BY <1>1, <1>3, <1>4, <2>1, FoldIsLoop
<1>6. b \in [0..n -> W] /\ b[0] = <<>> /\ \A k \in 1..n : b[k] = g[k][b[k-1]]
  BY <1>5 DEF Loop
<1>7. \A k \in 1..n : k - 1 \in 0..n /\ k \in 0..n /\ b[k-1] \in W /\ b[k] = b[k-1] \o ss[k]
  <2> TAKE k \in 1..n
  <2>1. k - 1 \in 0..n /\ k \in 0..n
    BY <1>3
  <2>2. b[k-1] \in W
    BY <1>6, <2>1
  <2> QED
    BY <1>4, <1>6, <2>1, <2>2
<1>8. FlattenSeq(ss) = b[n]
  <2>1. CASE n = 0
    <3>1. ss = <<>>
      BY <1>1, <2>1 DEF n
    <3> QED
      BY <1>6, <2>1, <3>1 DEF FlattenSeq
  <2>2. CASE n # 0
    <3> DEFINE One(f, i) == IF i = 1 THEN ss[i] ELSE f[i-1] \o ss[i]
               H == CHOOSE f : f = [i \in 1..n |-> One(f, i)]
               F == [i \in 1..n |-> b[i]]
    <3>1. \A i \in 1..n : F[i] = One(F, i)
      <4> TAKE i \in 1..n
      <4>1. CASE i = 1
        <5>0. 1 \in 1..n /\ 1 - 1 = 0
          BY <4>1
        <5>1. b[1] = b[0] \o ss[1]
          BY <1>7, <5>0
        <5> QED
          BY <1>2, <1>3, <1>6, <4>1, <5>1
      <4>2. CASE i # 1
        <5>1. i - 1 \in 1..n
          BY <1>3, <4>2
        <5> QED
          BY <1>7, <4>2, <5>1
      <4> QED
        BY <4>1, <4>2
    <3>2. \E f : f = [i \in 1..n |-> One(f, i)]
      <4>1. [i \in 1..n |-> F[i]] = [i \in 1..n |-> One(F, i)]
        BY <3>1, Zenon
      <4>2. F = [i \in 1..n |-> F[i]]
        OBVIOUS
      <4> QED
        BY <4>1, <4>2, Zenon
    <3>3. H = [i \in 1..n |-> One(H, i)]
      BY <3>2, Zenon
    <3>4. FlattenSeq(ss) = H[n]
      BY <2>2 DEF FlattenSeq, n
    <3> HIDE DEF H, F
    <3> DEFINE c == [k \in 0..n |-> IF k = 0 THEN <<>> ELSE H[k]]
    <3>5. \A k \in 1..n : c[k-1] = b[k-1] => c[k] = b[k]
      <4> SUFFICES ASSUME NEW k \in 1..n, c[k-1] = b[k-1] PROVE c[k] = b[k]
        OBVIOUS
      <4>0. k \in 0..n /\ k # 0
        BY <1>3
      <4>1. c[k] = H[k] /\ H[k] = One(H, k)
        <5>1. c[k] = H[k]
          BY <4>0
        <5>2. H[k] = One(H, k)
          BY <3>3
        <5> QED
          BY <5>1, <5>2
      <4>2. CASE k = 1
        <5>0. 1 \in 1..n /\ 1 - 1 = 0
          BY <4>2
        <5>1. b[1] = b[0] \o ss[1]
          BY <1>7, <5>0
        <5> QED
          BY <1>2, <1>3, <1>6, <4>1, <4>2, <5>1
      <4>3. CASE k # 1
        <5>1. k - 1 \in 1..n /\ k - 1 # 0 /\ k - 1 \in 0..n
          BY <1>3, <4>3
        <5>2. c[k-1] = H[k-1]
          BY <5>1
        <5> QED
          BY <1>7, <4>1, <4>3, <5>2
      <4> QED
        BY <4>2, <4>3
    <3>6. c[0] = b[0] /\ c[n] = H[n]
      BY <1>3, <1>6, <2>2
    <3> HIDE DEF c
    <3>7. SameSteps(n, c, b)
      BY <3>5, <3>6 DEF SameSteps
    <3>8. c[n] = b[n]
      BY <1>3, <3>7, OneRun
    <3> QED
      BY <3>4, <3>6, <3>8
  <2> QED
    BY <2>1, <2>2
<1> QED
  BY <1>6, <1>7, <1>8 DEF FlattenLoop, W, n

(* Its elements are those of all.                                          *)
LEMMA Flattened ==
  ASSUME NEW S, NEW ss \in Seq(Seq(S))
  PROVE  /\ FlattenSeq(ss) \in Seq(S)
         /\ ToSet(FlattenSeq(ss)) = UNION {ToSet(ss[i]) : i \in DOMAIN ss}
<1> DEFINE W == Seq(S)  n == Len(ss)
<1>1. ss \in Seq(W)
  OBVIOUS
<1>2. \A v, w \in W : ToSet(v \o w) = ToSet(v) \cup ToSet(w)
  BY ToSetConcat
<1>3. PICK b : FlattenLoop(S, ss, b)
  BY FlattenRun
<1> HIDE DEF W
<1>4. n \in Nat /\ DOMAIN ss = 1..n /\ \A k \in 1..n : ss[k] \in W
  BY <1>1
<1>5. /\ b \in [0..n -> W] /\ b[0] = <<>> /\ FlattenSeq(ss) = b[n]
      /\ \A k \in 1..n : b[k] = b[k-1] \o ss[k]
  BY <1>3 DEF FlattenLoop, W
<1> HIDE DEF n
<1> DEFINE T == {k \in Nat : k <= n => ToSet(b[k]) = UNION {ToSet(ss[i]) : i \in 1..k}}
<1>9. 0 \in T
  BY <1>5 DEF ToSet
<1>10. ASSUME NEW k \in Nat, k \in T PROVE k + 1 \in T
  <2> SUFFICES ASSUME k + 1 <= n PROVE ToSet(b[k+1]) = UNION {ToSet(ss[i]) : i \in 1..k+1}
    OBVIOUS
  <2>1. k + 1 \in 1..n /\ (k + 1) - 1 = k /\ ToSet(b[k]) = UNION {ToSet(ss[i]) : i \in 1..k}
    BY <1>4, <1>10
  <2>2. b[k+1] = b[k] \o ss[k+1] /\ b[k] \in W /\ ss[k+1] \in W
    <3>1. k \in 0..n
      BY <1>4, <2>1
    <3> QED
      BY <1>4, <1>5, <2>1, <3>1
  <2>3. ToSet(b[k+1]) = ToSet(b[k]) \cup ToSet(ss[k+1])
    BY <1>2, <2>2
  <2>4. 1..k+1 = (1..k) \cup {k+1}
    OBVIOUS
  <2> QED
    BY <2>1, <2>3, <2>4
<1>11. n \in T
  <2> HIDE DEF T
  <2> QED
    BY <1>4, <1>9, <1>10, Induct
<1>12. b[n] \in W
  BY <1>4, <1>5
<1> QED
  BY <1>4, <1>5, <1>11, <1>12 DEF W

(* Without repetitions when none of them has any and no two share any.     *)
LEMMA FlattenOnce ==
  ASSUME NEW S, NEW ss \in Seq(Seq(S)), \A i \in DOMAIN ss : NoTwice(ss[i]),
         \A i, j \in DOMAIN ss : i # j => ToSet(ss[i]) \cap ToSet(ss[j]) = {}
  PROVE  NoTwice(FlattenSeq(ss))
<1> DEFINE W == Seq(S)  n == Len(ss)
<1>1. ss \in Seq(W)
  OBVIOUS
<1>2. \A v, w \in W : ToSet(v \o w) = ToSet(v) \cup ToSet(w)
  BY ToSetConcat
<1>3. PICK b : FlattenLoop(S, ss, b)
  BY FlattenRun
<1>4. \A v, w \in W : NoTwice(v) /\ NoTwice(w) /\ ToSet(v) \cap ToSet(w) = {} => NoTwice(v \o w)
  BY OnceConcat
<1> HIDE DEF W
<1>5. n \in Nat /\ DOMAIN ss = 1..n /\ \A k \in 1..n : ss[k] \in W
  BY <1>1
<1>6. /\ b \in [0..n -> W] /\ b[0] = <<>> /\ FlattenSeq(ss) = b[n]
      /\ \A k \in 1..n : b[k] = b[k-1] \o ss[k]
  BY <1>3 DEF FlattenLoop, W
<1> HIDE DEF n
<1> DEFINE T == {k \in Nat : k <= n => /\ ToSet(b[k]) = UNION {ToSet(ss[i]) : i \in 1..k}
                                      /\ NoTwice(b[k])}
<1>7. 0 \in T
  BY <1>6 DEF ToSet, NoTwice
<1>8. ASSUME NEW k \in Nat, k \in T PROVE k + 1 \in T
  <2> SUFFICES ASSUME k + 1 <= n
               PROVE  ToSet(b[k+1]) = UNION {ToSet(ss[i]) : i \in 1..k+1} /\ NoTwice(b[k+1])
    OBVIOUS
  <2>1. /\ k + 1 \in 1..n /\ k \in 0..n /\ (k + 1) - 1 = k
        /\ ToSet(b[k]) = UNION {ToSet(ss[i]) : i \in 1..k} /\ NoTwice(b[k])
    BY <1>5, <1>8
  <2>2. b[k+1] = b[k] \o ss[k+1] /\ b[k] \in W /\ ss[k+1] \in W
    BY <1>5, <1>6, <2>1
  <2>3. ToSet(b[k+1]) = ToSet(b[k]) \cup ToSet(ss[k+1])
    BY <1>2, <2>2
  <2>4. 1..k+1 = (1..k) \cup {k+1}
    OBVIOUS
  <2>5. ToSet(b[k]) \cap ToSet(ss[k+1]) = {}
    <3>1. \A i \in 1..k : i \in 1..n /\ i # k + 1
      BY <1>5, <2>1
    <3>2. \A i \in 1..k : ToSet(ss[i]) \cap ToSet(ss[k+1]) = {}
      BY <1>5, <2>1, <3>1
    <3> QED
      BY <2>1, <3>2
  <2>6. NoTwice(ss[k+1])
    BY <1>5, <2>1
  <2>7. NoTwice(b[k+1])
    BY <1>4, <2>1, <2>2, <2>5, <2>6
  <2>8. ToSet(b[k+1]) = UNION {ToSet(ss[i]) : i \in 1..k+1}
    BY <2>1, <2>3, <2>4
  <2> QED
    BY <2>7, <2>8
<1>9. n \in T
  <2> HIDE DEF T
  <2> QED
    BY <1>5, <1>7, <1>8, Induct
<1> QED
  BY <1>5, <1>6, <1>9

(* Texts that differ in case only have the same distinctive words.         *)
LEMMA SameTokens ==
  ASSUME NEW a \in BookTexts, NEW b \in BookTexts, metaKey(a) = metaKey(b)
  PROVE  matchTokens(a) = matchTokens(b)
<1>1. \A t \in BookTexts : DOMAIN t = 1..Len(t) /\ Len(t) \in Nat /\ \A i \in DOMAIN t : t[i] \in Word \cup Separator
  BY DEF BookTexts
<1>2. DOMAIN a = DOMAIN b
  <2>1. DOMAIN metaKey(a) = DOMAIN a /\ DOMAIN metaKey(b) = DOMAIN b
    BY DEF metaKey
  <2> QED
    BY <2>1
<1>3. ASSUME NEW i \in DOMAIN a
      PROVE  /\ a[i] \in Word <=> b[i] \in Word
             /\ a[i] \in Word => /\ Lex[a[i]].fold = Lex[b[i]].fold
                                 /\ Lex[a[i]].size = Lex[b[i]].size
                                 /\ a[i] \in Lists["nameParticle"] <=> b[i] \in Lists["nameParticle"]
  <2>1. metaKey(a)[i] = metaKey(b)[i]
    OBVIOUS
  <2>2. /\ metaKey(a)[i] = IF a[i] \in Word THEN Lex[a[i]].lower ELSE a[i]
        /\ metaKey(b)[i] = IF b[i] \in Word THEN Lex[b[i]].lower ELSE b[i]
    BY <1>2 DEF metaKey
  <2>3. a[i] \in Word \cup Separator /\ b[i] \in Word \cup Separator
    BY <1>1, <1>2
  <2>4. \A v \in Word : Lex[v].lower \notin Separator
    BY CaseAssumption
  <2>5. \A v, w \in Word : Lex[v].lower = Lex[w].lower =>
          /\ Lex[v].fold = Lex[w].fold /\ Lex[v].size = Lex[w].size
          /\ v \in Lists["nameParticle"] <=> w \in Lists["nameParticle"]
    BY CaseAssumption
  <2>6. a[i] \in Word <=> b[i] \in Word
    BY <2>1, <2>2, <2>3, <2>4
  <2>7. a[i] \in Word => b[i] \in Word /\ Lex[a[i]].lower = Lex[b[i]].lower
    BY <2>1, <2>2, <2>6
  <2> QED
    BY <2>5, <2>6, <2>7
<1> DEFINE Of(t) == {j \in DOMAIN t : t[j] \in Word /\ Lex[t[j]].size > 2 /\ ~On("nameParticle", t[j])}
<1>4. Of(a) = Of(b)
  <2>1. \A i \in DOMAIN a : i \in Of(a) <=> i \in Of(b)
    BY <1>2, <1>3 DEF On
  <2> QED
    BY <1>2, <2>1
<1>5. \A i \in Of(a) : Lex[a[i]].fold = Lex[b[i]].fold
  BY <1>3
<1>6. matchTokens(a) = {Lex[a[i]].fold : i \in Of(a)} /\ matchTokens(b) = {Lex[b[i]].fold : i \in Of(b)}
  BY DEF matchTokens
<1> HIDE DEF Of
<1> QED
  BY <1>4, <1>5, <1>6

Unlike(s) == Distinct(s, metaKey)

(* The same of what differs by its metaKey.                                *)
LEMMA UnlikeEmpty == Unlike(<<>>) = <<>>
<1>1. <<>> \in Seq({}) /\ Len(<<>>) = 0
  OBVIOUS
<1>2. PICK b : DistinctLoop({}, <<>>, b)
  BY <1>1, DistinctRun
<1> QED
  BY <1>1, <1>2 DEF DistinctLoop, Unlike

(* A name joins when none is spelt alike.                                  *)
LEMMA UnlikeAppend ==
  ASSUME NEW S, NEW s \in Seq(S), NEW x \in S
  PROVE  /\ Unlike(s) \in Seq(S)
         /\ Unlike(Append(s, x)) = IF \E y \in ToSet(Unlike(s)) : metaKey(y) = metaKey(x)
                                   THEN Unlike(s) ELSE Append(Unlike(s), x)
<1> DEFINE n == Len(s)  t == Append(s, x)
<1>1. n \in Nat /\ t \in Seq(S) /\ Len(t) = n + 1 /\ t[n+1] = x /\ \A k \in 1..n : t[k] = s[k]
  OBVIOUS
<1>0. PICK b : DistinctLoop(S, s, b)
  BY DistinctRun
<1>2. /\ b \in [0..n -> Seq(S)] /\ b[0] = <<>> /\ Unlike(s) = b[n]
      /\ \A k \in 1..n : b[k] = IF \E i \in DOMAIN b[k-1] : metaKey(b[k-1][i]) = metaKey(s[k])
                                THEN b[k-1] ELSE Append(b[k-1], s[k])
  BY <1>0 DEF Unlike, DistinctLoop
<1> HIDE DEF t
<1>9. PICK c : DistinctLoop(S, t, c)
  BY <1>1, DistinctRun
<1>3. /\ c \in [0..Len(t) -> Seq(S)] /\ c[0] = <<>> /\ Unlike(t) = c[Len(t)]
      /\ \A k \in 1..Len(t) : c[k] = IF \E i \in DOMAIN c[k-1] : metaKey(c[k-1][i]) = metaKey(t[k])
                                     THEN c[k-1] ELSE Append(c[k-1], t[k])
  BY <1>9 DEF Unlike, DistinctLoop
<1> HIDE DEF n
<1>4. \A k \in 1..n : b[k-1] = c[k-1] => b[k] = c[k]
  <2>1. \A k \in 1..n : k \in 1..Len(t)
    BY <1>1
  <2> SUFFICES ASSUME NEW k \in 1..n, b[k-1] = c[k-1] PROVE b[k] = c[k]
    OBVIOUS
  <2>2. b[k] = IF \E i \in DOMAIN b[k-1] : metaKey(b[k-1][i]) = metaKey(s[k])
               THEN b[k-1] ELSE Append(b[k-1], s[k])
    BY <1>2
  <2>3. c[k] = IF \E i \in DOMAIN c[k-1] : metaKey(c[k-1][i]) = metaKey(t[k])
               THEN c[k-1] ELSE Append(c[k-1], t[k])
    BY <1>3, <2>1
  <2>4. t[k] = s[k]
    BY <1>1
  <2> QED
    BY <2>2, <2>3, <2>4, Zenon
<1>5. b[n] = c[n]
  <2>1. SameSteps(n, b, c)
    BY <1>2, <1>3, <1>4 DEF SameSteps
  <2> QED
    BY <1>1, <2>1, OneRun
<1>6. c[n+1] = IF \E i \in DOMAIN c[n] : metaKey(c[n][i]) = metaKey(x) THEN c[n] ELSE Append(c[n], x)
  <2>1. n + 1 \in 1..Len(t) /\ (n + 1) - 1 = n
    BY <1>1
  <2> QED
    BY <1>1, <1>3, <2>1
<1>7. b[n] \in Seq(S)
  BY <1>1, <1>2
<1>8. (\E y \in ToSet(c[n]) : metaKey(y) = metaKey(x)) <=> \E i \in DOMAIN c[n] : metaKey(c[n][i]) = metaKey(x)
  BY DEF ToSet
<1> QED
  BY <1>1, <1>2, <1>3, <1>5, <1>6, <1>7, <1>8 DEF t

Represents(kept, all) ==
  ToSet(kept) \subseteq ToSet(all) /\ \A x \in ToSet(all) : \E y \in ToSet(kept) : metaKey(y) = metaKey(x)

(* What is taken out for its key leaves one of its key behind.             *)
LEMMA UnlikeSet ==
  ASSUME NEW S, NEW s \in Seq(S)
  PROVE  Unlike(s) \in Seq(S) /\ Represents(Unlike(s), s)
<1> DEFINE T == {t \in Seq(S) : Unlike(t) \in Seq(S) /\ Represents(Unlike(t), t)}
<1>1. <<>> \in T
  <2>1. <<>> \in Seq(S) /\ ToSet(<<>>) = {}
    BY DEF ToSet
  <2> QED
    BY <2>1, UnlikeEmpty DEF Represents
<1>2. ASSUME NEW t \in Seq(S), NEW x \in S, t \in T PROVE Append(t, x) \in T
  <2> DEFINE u == Unlike(t)
  <2>1. /\ Append(t, x) \in Seq(S) /\ u \in Seq(S) /\ Append(u, x) \in Seq(S)
        /\ Unlike(Append(t, x)) = IF \E y \in ToSet(u) : metaKey(y) = metaKey(x)
                                  THEN u ELSE Append(u, x)
    BY <1>2, UnlikeAppend
  <2>2. ToSet(Append(t, x)) = ToSet(t) \cup {x}
    BY ToSetAppend
  <2>3. Represents(u, t)
    BY <1>2
  <2> HIDE DEF u
  <2>4. ToSet(Append(u, x)) = ToSet(u) \cup {x}
    BY <2>1, ToSetAppend
  <2>5. CASE \E y \in ToSet(u) : metaKey(y) = metaKey(x)
    BY <2>1, <2>2, <2>3, <2>5 DEF Represents
  <2>6. CASE ~\E y \in ToSet(u) : metaKey(y) = metaKey(x)
    BY <2>1, <2>2, <2>3, <2>4, <2>6 DEF Represents
  <2> QED
    BY <2>5, <2>6
<1>3. s \in T
  <2> HIDE DEF T
  <2> QED
    BY <1>1, <1>2, BySequence
<1> QED
  BY <1>3

(* titleMentionsAuthor asks the same of a title, whichever spelling of a   *)
(* name was kept.                                                          *)
Mentioned(names, u) == \E a \in names : matchTokens(a) # {} /\ matchTokens(a) \subseteq matchTokens(u)

(* The names kept are found in the titles all the names are found in.      *)
LEMMA NoiseIsMention ==
  ASSUME NEW l \in Seq(BookTexts), NEW u
  PROVE  titleMentionsAuthor(u, AsSets(Unlike(l))) <=> Mentioned(ToSet(l), u)
<1> DEFINE k == Unlike(l)
<1>1. k \in Seq(BookTexts) /\ Represents(k, l)
  BY UnlikeSet
<1>2. ToSet(l) \subseteq BookTexts
  BY DEF ToSet
<1> HIDE DEF k
<1>3. titleMentionsAuthor(u, AsSets(k)) <=> Mentioned(ToSet(k), u)
  BY DEF titleMentionsAuthor, AsSets, Mentioned, ToSet
<1>4. \A x \in ToSet(l) : \E y \in ToSet(k) : matchTokens(y) = matchTokens(x)
  <2> TAKE x \in ToSet(l)
  <2>1. PICK y \in ToSet(k) : metaKey(y) = metaKey(x)
    BY <1>1 DEF Represents
  <2>2. x \in BookTexts /\ y \in BookTexts
    BY <1>1, <1>2 DEF Represents
  <2>3. matchTokens(y) = matchTokens(x)
    BY <2>1, <2>2, SameTokens
  <2> QED
    BY <2>3
<1>5. Mentioned(ToSet(k), u) <=> Mentioned(ToSet(l), u)
  BY <1>1, <1>4 DEF Mentioned, Represents
<1> QED
  BY <1>3, <1>5 DEF k

Entry == [path : Path, content : Content]
OnePathEach(set) == set \subseteq Entry /\ \A x, y \in set : x.path = y.path => x = y
InOrder(set, f) ==
  /\ f \in [1..Cardinality(set) -> set]
  /\ \A i, j \in DOMAIN f : i < j => f[i].path < f[j].path

(* Files can be laid out in the order of their paths.                      *)
LEMMA OrderExists ==
  ASSUME NEW set, OnePathEach(set)
  PROVE  IsFiniteSet(set) /\ \E f : InOrder(set, f)
<1> DEFINE Ok(s) == IsFiniteSet(s) /\ \E f : InOrder(s, f)
           T == {n \in Nat : \A s : OnePathEach(s) /\ (\A x \in s : x.path <= n) => Ok(s)}
<1>0. Len(PathOf) \in Nat /\ Path = 1..Len(PathOf)
  BY BookMetaAssumption
<1>1. 0 \in T
  <2> SUFFICES ASSUME NEW s, OnePathEach(s), \A x \in s : x.path <= 0 PROVE Ok(s)
    OBVIOUS
  <2>1. s = {}
    <3>1. \A x \in s : x.path \in 1..Len(PathOf)
      BY <1>0 DEF OnePathEach, Entry
    <3> QED
      BY <3>1
  <2>2. IsFiniteSet({}) /\ Cardinality({}) = 0
    BY FS_EmptySet
  <2>3. InOrder({}, <<>>)
    BY <2>2 DEF InOrder
  <2> QED
    BY <2>1, <2>2, <2>3
<1>2. ASSUME NEW n \in Nat, n \in T PROVE n + 1 \in T
  <2> SUFFICES ASSUME NEW s, OnePathEach(s), \A x \in s : x.path <= n + 1 PROVE Ok(s)
    OBVIOUS
  <2>1. \A x \in s : x.path \in Nat
    BY <1>0 DEF OnePathEach, Entry
  <2>2. \A r : OnePathEach(r) /\ (\A x \in r : x.path <= n) => Ok(r)
    BY <1>2
  <2> HIDE DEF Ok
  <2>3. CASE \A x \in s : x.path # n + 1
    <3>1. \A x \in s : x.path <= n
      BY <2>1, <2>3
    <3> QED
      BY <2>2, <3>1
  <2>4. CASE \E x \in s : x.path = n + 1
    <3>1. PICK x \in s : x.path = n + 1
      BY <2>4
    <3> DEFINE r == s \ {x}
    <3>2. OnePathEach(r) /\ x \notin r /\ s = r \cup {x} /\ r \subseteq s
      BY DEF OnePathEach
    <3>3. \A y \in r : y.path <= n
      <4> TAKE y \in r
      <4>1. y \in s /\ y # x
        OBVIOUS
      <4>2. y.path # n + 1
        BY <3>1, <4>1 DEF OnePathEach
      <4> QED
        BY <2>1, <4>1, <4>2
    <3> HIDE DEF r
    <3>4. Ok(r)
      BY <2>2, <3>2, <3>3
    <3>5. PICK f : InOrder(r, f)
      BY <3>4 DEF Ok
    <3>6. IsFiniteSet(r) /\ Cardinality(r) \in Nat
      <4>1. IsFiniteSet(r)
        BY <3>4 DEF Ok
      <4> QED
        BY <4>1, FS_CardinalityType
    <3> DEFINE m == Cardinality(r)  g == With(m, f, x)
    <3>7. IsFiniteSet(s) /\ Cardinality(s) = m + 1
      BY <3>2, <3>6, FS_AddElement
    <3>8. m \in Nat /\ f \in [1..m -> r] /\ \A i, j \in 1..m : i < j => f[i].path < f[j].path
      BY <3>5, <3>6 DEF InOrder
    <3> HIDE DEF m
    <3>9. /\ DOMAIN g = 1..m+1 /\ g[m+1] = x
          /\ \A i \in 1..m : g[i] = f[i] /\ f[i] \in r
          /\ \A i \in 1..m+1 : i = m + 1 \/ i \in 1..m
      <4>1. m + 1 \in 1..m+1 /\ \A i \in 1..m : i \in 1..m+1 /\ i # m + 1
        BY <3>8
      <4>2. \A i \in 1..m+1 : i = m + 1 \/ i \in 1..m
        BY <3>8
      <4> QED
        BY <3>8, <4>1, <4>2 DEF With
    <3> HIDE DEF g
    <3>10. g \in [1..m+1 -> s]
      <4>1. \A i \in 1..m+1 : g[i] \in s
        BY <3>1, <3>2, <3>9
      <4>2. g = [i \in 1..m+1 |-> g[i]]
        BY <3>9 DEF g, With
      <4> QED
        BY <4>1, <4>2
    <3>11. \A i, j \in 1..m+1 : i < j => g[i].path < g[j].path
      <4> SUFFICES ASSUME NEW i \in 1..m+1, NEW j \in 1..m+1, i < j PROVE g[i].path < g[j].path
        OBVIOUS
      <4>1. i \in 1..m
        BY <3>8
      <4>2. g[i] = f[i] /\ f[i] \in r /\ f[i].path \in Nat /\ f[i].path <= n
        BY <2>1, <3>2, <3>3, <3>9, <4>1
      <4>3. CASE j \in 1..m
        BY <3>8, <3>9, <4>1, <4>3
      <4>4. CASE j = m + 1
        BY <3>1, <3>9, <4>2, <4>4
      <4> QED
        BY <3>9, <4>3, <4>4
    <3>12. InOrder(s, g)
      BY <3>7, <3>9, <3>10, <3>11 DEF InOrder
    <3> QED
      BY <3>7, <3>12 DEF Ok
  <2> QED
    BY <2>3, <2>4
<1>3. Len(PathOf) \in T
  <2> HIDE DEF T
  <2> QED
    BY <1>0, <1>1, <1>2, Induct
<1>4. \A x \in set : x.path <= Len(PathOf)
  BY <1>0 DEF OnePathEach, Entry
<1> QED
  BY <1>3, <1>4

(* ByPath lays out a set, and nothing but it.                              *)
LEMMA ByPathIs ==
  ASSUME NEW set, OnePathEach(set)
  PROVE  ByPath(set) \in Seq(set) /\ ToSet(ByPath(set)) = set
<1> DEFINE n == Cardinality(set)  f == ByPath(set)
<1>1. IsFiniteSet(set) /\ n \in Nat
  BY OrderExists, FS_CardinalityType
<1>2. InOrder(set, f)
  <2>1. PICK h : InOrder(set, h)
    BY OrderExists
  <2>2. \E g \in [1..n -> set] : \A i, j \in DOMAIN g : i < j => g[i].path < g[j].path
    BY <2>1 DEF InOrder
  <2> QED
    BY <2>2 DEF ByPath, InOrder
<1>3. f \in [1..n -> set] /\ \A i, j \in 1..n : i < j => f[i].path < f[j].path
  BY <1>2 DEF InOrder
<1> HIDE DEF f, n
<1>4. \A x \in set : x.path \in Nat
  BY BookMetaAssumption DEF OnePathEach, Entry
<1>5. f \in Injection(1..n, set)
  <2>1. ASSUME NEW i \in 1..n, NEW j \in 1..n, f[i] = f[j] PROVE i = j
    <3>1. f[i].path \in Nat /\ f[i].path = f[j].path
      BY <1>3, <1>4, <2>1
    <3>2. ~(i < j) /\ ~(j < i)
      BY <1>3, <3>1
    <3> QED
      BY <1>1, <3>2
  <2> QED
    BY <1>3, <2>1 DEF Injection, IsInjective
<1>6. Cardinality(1..n) = n /\ IsFiniteSet(1..n)
  BY <1>1, SizeOfNumbers, FS_Interval
<1>7. f \in Surjection(1..n, set)
  BY <1>1, <1>5, <1>6, FS_Injection DEF n
<1>8. \A x \in set : \E i \in 1..n : f[i] = x
  BY <1>7 DEF Surjection
<1>9. ToSet(f) = set
  BY <1>3, <1>8 DEF ToSet
<1>10. f \in Seq(set)
  BY <1>1, <1>3, IsSeq
<1> QED
  BY <1>9, <1>10 DEF f

Names == {a \in BookTexts : IsName(a)}
Books == [title : BookTexts, author : Names]
Halves == [left : BookTexts, right : BookTexts]

(* A part of a sequence is one of the same elements.                       *)
LEMMA SubSeqTyped ==
  ASSUME NEW S, NEW s \in Seq(S), NEW i, NEW j, i \in 1..Len(s) + 1, j \in 0..Len(s)
  PROVE  SubSeq(s, i, j) \in Seq(S)
<1>1. \A k \in i..j : k \in 1..Len(s)
  OBVIOUS
<1>2. \A k \in i..j : s[k] \in S
  BY <1>1
<1> QED
  BY <1>2

(* A part of a text is a text.                                             *)
LEMMA TextPart ==
  ASSUME NEW t \in BookTexts, NEW i, NEW j, i \in 1..Len(t) + 1, j \in 0..Len(t)
  PROVE  SubSeq(t, i, j) \in BookTexts
BY SubSeqTyped DEF BookTexts

(* A text is words and separators.                                         *)
LEMMA TextLen ==
  ASSUME NEW t \in BookTexts
  PROVE  Len(t) \in Nat /\ DOMAIN t = 1..Len(t) /\ \A i \in 1..Len(t) : t[i] \in Word \cup Separator
BY DEF BookTexts

(* A text cut at a position leaves two texts.                              *)
LEMMA SplitTyped ==
  ASSUME NEW t \in BookTexts, NEW i \in 1..Len(t)
  PROVE  SplitAt(t, i) \in Halves
<1>1. Len(t) \in Nat
  BY TextLen
<1>2. SubSeq(t, 1, i - 1) \in BookTexts
  <2>1. 1 \in 1..Len(t)+1 /\ i - 1 \in 0..Len(t)
    BY <1>1
  <2> QED
    BY <2>1, TextPart
<1>3. SubSeq(t, i + 1, Len(t)) \in BookTexts
  <2>1. i + 1 \in 1..Len(t)+1 /\ Len(t) \in 0..Len(t)
    BY <1>1
  <2> QED
    BY <2>1, TextPart
<1> QED
  BY <1>2, <1>3 DEF SplitAt, Halves

(* The sequence of one element, and of none.                               *)
LEMMA OneOf ==
  ASSUME NEW S, NEW x \in S
  PROVE  <<x>> \in Seq(S) /\ <<>> \in Seq(S)
OBVIOUS

(* An article goes in front of a title, which stays a title.               *)
LEMMA ArticleTyped ==
  ASSUME NEW t \in BookTexts
  PROVE  normalizeTitleArticle(t) \in BookTexts
<1> DEFINE n == Len(t)
<1>1. n \in Nat
  BY TextLen
<1>2. CASE n > 2 /\ t[n-1] = "," /\ t[n] \in Word /\ Lex[t[n]].lower \in DOMAIN TitleArticle
  <2> DEFINE a == TitleArticle[Lex[t[n]].lower]  s == SubSeq(t, 1, n - 2)
  <2>1. a \in Word
    BY <1>2, BookMetaAssumption
  <2>2. s \in BookTexts
    <3>1. n > 2
      BY <1>2
    <3> HIDE DEF n
    <3>2. 1 \in 1..n+1 /\ n - 2 \in 0..n
      BY <1>1, <3>1
    <3> QED
      BY <3>2, TextPart DEF n
  <2>3. normalizeTitleArticle(t) = <<a>> \o s
    BY <1>2 DEF normalizeTitleArticle
  <2> HIDE DEF a, s
  <2> DEFINE S == Word \cup Separator
  <2>4. a \in S /\ s \in Seq(S)
    BY <2>1, <2>2 DEF BookTexts
  <2> HIDE DEF S
  <2>5. <<a>> \in Seq(S)
    BY <2>4
  <2>6. <<a>> \o s \in Seq(S)
    BY <2>4, <2>5, ToSetConcat
  <2> QED
    BY <2>3, <2>6 DEF BookTexts, S
<1>3. CASE ~(n > 2 /\ t[n-1] = "," /\ t[n] \in Word /\ Lex[t[n]].lower \in DOMAIN TitleArticle)
  BY <1>3 DEF normalizeTitleArticle
<1> QED
  BY <1>2, <1>3

(* A title and a name make a book.                                         *)
LEMMA BookTyped ==
  ASSUME NEW t \in BookTexts, NEW a \in BookTexts, IsName(a)
  PROVE  Book(t, a) \in Seq(Books)
<1>1. [title |-> normalizeTitleArticle(t), author |-> a] \in Books
  BY ArticleTyped DEF Books, Names
<1> QED
  BY <1>1, OneOf DEF Book

(* The first and the last dash are in the text.                            *)
LEMMA CutsInside ==
  ASSUME NEW t \in BookTexts, NEW d
  PROVE  /\ Cuts(t, d) \in SUBSET (1..Len(t))
         /\ Cuts(t, d) # {} => /\ Max(Cuts(t, d)) \in 1..Len(t)
                               /\ Min(Cuts(t, d)) \in 1..Len(t)
<1> DEFINE c == Cuts(t, d)
<1>1. Len(t) \in Nat
  BY TextLen
<1>2. c \in SUBSET (1..Len(t))
  BY <1>1 DEF Cuts
<1> HIDE DEF c
<1>3. ASSUME c # {} PROVE Max(c) \in 1..Len(t)
  BY <1>1, <1>2, <1>3, MaxInside
<1>4. ASSUME c # {} PROVE Min(c) \in 1..Len(t)
  <2>1. c \subseteq Nat
    BY <1>1, <1>2
  <2>2. \E i \in c : \A k \in c : ~(<<k, i>> \in OpToRel(<, Nat))
    BY <1>4, <2>1, NatLessThanWellFounded, WFMin
  <2>3. PICK i \in c : \A k \in c : ~(k < i)
    BY <2>1, <2>2 DEF OpToRel
  <2>4. \A k \in c : i <= k
    BY <2>1, <2>3
  <2>5. Min(c) = i
    BY <2>1, <2>4, MinIs
  <2> QED
    BY <1>2, <2>5
<1> QED
  BY <1>2, <1>3, <1>4 DEF c

(* The first of a sequence is of its elements.                             *)
LEMMA FirstTyped ==
  ASSUME NEW S, NEW s \in Seq(S)
  PROVE  First(s) \in Seq(S) /\ ToSet(First(s)) \subseteq ToSet(s)
<1>1. CASE s = <<>>
  BY <1>1 DEF First, ToSet
<1>2. CASE s # <<>>
  <2>1. s[1] \in S /\ 1 \in DOMAIN s
    BY <1>2
  <2>2. First(s) = <<s[1]>>
    BY <1>2 DEF First
  <2> QED
    BY <2>1, <2>2 DEF ToSet
<1> QED
  BY <1>1, <1>2

(***************************************************************************)
(* Whom the readings of a file name call an author reads as a name.        *)
(***************************************************************************)
LEMMA CalibreSplitTyped ==
  ASSUME NEW stem \in BookTexts
  PROVE  CalibreSplit(stem) \in Seq(Halves)
<1> DEFINE c == Cuts(stem, Dash)
<1>1. CASE c = {} \/ isPlaceholderTitle(SplitAt(stem, Max(c)).left)
  BY <1>1 DEF CalibreSplit
<1>2. CASE ~(c = {} \/ isPlaceholderTitle(SplitAt(stem, Max(c)).left))
  <2>1. SplitAt(stem, Max(c)) \in Halves
    BY <1>2, CutsInside, SplitTyped
  <2> QED
    BY <1>2, <2>1, OneOf DEF CalibreSplit
<1> QED
  BY <1>1, <1>2

(* parseCalibreFilename credits a book to a name.                          *)
LEMMA CalibreTyped ==
  ASSUME NEW stem \in BookTexts
  PROVE  parseCalibreFilename(stem) \in Seq(Books)
<1> DEFINE s == CalibreSplit(stem)
           One(k) == LET lhs == s[k].left  rhs == s[k].right IN
             IF calibreAuthorShape(rhs) /\ IsName(rhs) THEN Book(lhs, rhs)
             ELSE IF calibreAuthorShape(lhs) /\ IsName(lhs) /\ IsTitle(rhs) THEN Book(rhs, lhs)
             ELSE <<>>
<1>1. Len(s) \in Nat /\ DOMAIN s = 1..Len(s) /\ \A k \in 1..Len(s) : s[k] \in Halves
  BY CalibreSplitTyped
<1> HIDE DEF s
<1>2. ASSUME NEW k \in 1..Len(s) PROVE One(k) \in Seq(Books)
  <2>1. s[k].left \in BookTexts /\ s[k].right \in BookTexts
    BY <1>1 DEF Halves
  <2>2. <<>> \in Seq(Books)
    OBVIOUS
  <2> QED
    BY <2>1, <2>2, BookTyped
<1>3. parseCalibreFilename(stem) = FlattenSeq([k \in DOMAIN s |-> One(k)])
  BY DEF parseCalibreFilename, s
<1> HIDE DEF One
<1> DEFINE B == Seq(Books)  ss == [k \in DOMAIN s |-> One(k)]
<1>4. ss \in [1..Len(s) -> B]
  <2> HIDE DEF B
  <2>1. \A k \in 1..Len(s) : One(k) \in B
    BY <1>2 DEF B
  <2> QED
    BY <1>1, <2>1
<1> HIDE DEF ss
<1>5. ss \in Seq(B)
  BY <1>1, <1>4, IsSeq
<1> QED
  BY <1>3, <1>5, Flattened DEF ss, B

(* Sequences laid out one after the other.                                 *)
SeqsOf(S, n, f) == f = [k \in 1..n |-> f[k]] /\ \A k \in 1..n : f[k] \in Seq(S)

(* Such a sequence has the elements of all.                                *)
LEMMA Gathered ==
  ASSUME NEW S, NEW n \in Nat, NEW f, SeqsOf(S, n, f)
  PROVE  FlattenSeq(f) \in Seq(S) /\ ToSet(FlattenSeq(f)) = UNION {ToSet(f[i]) : i \in 1..n}
<1> DEFINE B == Seq(S)
<1>1. f = [k \in 1..n |-> f[k]] /\ \A k \in 1..n : f[k] \in B
  BY DEF SeqsOf
<1> HIDE DEF B
<1>2. f \in [1..n -> B]
  BY <1>1
<1>3. f \in Seq(B) /\ DOMAIN f = 1..n
  BY <1>2, IsSeq
<1>4. FlattenSeq(f) \in Seq(S) /\ ToSet(FlattenSeq(f)) = UNION {ToSet(f[i]) : i \in DOMAIN f}
  BY <1>3, Flattened DEF B
<1> QED
  BY <1>3, <1>4

(* A sequence of what is in a set.                                         *)
LEMMA SeqNarrow ==
  ASSUME NEW S, NEW s \in Seq(S), NEW A, ToSet(s) \subseteq A
  PROVE  s \in Seq(A)
<1>1. \A k \in 1..Len(s) : s[k] \in A
  BY DEF ToSet
<1> QED
  BY <1>1

(* The sequence of two elements.                                           *)
LEMMA TwoOf ==
  ASSUME NEW S, NEW a \in S, NEW b \in S
  PROVE  <<a, b>> \in Seq(S)
OBVIOUS

(* Both ways to cut a stem at a dash leave two texts.                      *)
LEMMA PairsTyped ==
  ASSUME NEW stem \in BookTexts
  PROVE  splitFilenamePairs(stem) \in Seq(Halves)
<1> DEFINE cuts(k) == Cuts(stem, {Dashes[k]})
           One(k) == IF cuts(k) = {} THEN <<>>
                     ELSE <<SplitAt(stem, Min(cuts(k))), SplitAt(stem, Max(cuts(k)))>>
           f == [k \in DOMAIN Dashes |-> One(k)]
<1>1. DOMAIN Dashes = 1..3 /\ 3 \in Nat
  BY DEF Dashes
<1>2. ASSUME NEW k \in 1..3 PROVE One(k) \in Seq(Halves)
  <2> DEFINE a == SplitAt(stem, Min(cuts(k)))  b == SplitAt(stem, Max(cuts(k)))
  <2>1. CASE cuts(k) = {}
    BY <2>1
  <2>2. CASE cuts(k) # {}
    <3>1. a \in Halves /\ b \in Halves
      BY <2>2, CutsInside, SplitTyped
    <3>2. One(k) = <<a, b>>
      BY <2>2
    <3> HIDE DEF a, b
    <3>3. <<a, b>> \in Seq(Halves)
      BY <3>1, TwoOf
    <3> QED
      BY <3>2, <3>3
  <2> QED
    BY <2>1, <2>2
<1>3. splitFilenamePairs(stem) = FlattenSeq(f)
  BY DEF splitFilenamePairs
<1> HIDE DEF One
<1>4. SeqsOf(Halves, 3, f)
  BY <1>1, <1>2 DEF SeqsOf
<1> HIDE DEF f
<1> QED
  BY <1>1, <1>3, <1>4, Gathered

(* A pair read either way credits a book to a name.                        *)
LEMMA NaturalReadingTyped ==
  ASSUME NEW lhs \in BookTexts, NEW rhs \in BookTexts
  PROVE  NaturalReading(lhs, rhs) \in Seq(Books)
<1>1. IsName(rhs) => Book(lhs, rhs) \in Seq(Books)
  BY BookTyped
<1>2. IsName(lhs) => Book(rhs, lhs) \in Seq(Books)
  BY BookTyped
<1>3. <<>> \in Seq(Books)
  OBVIOUS
<1> QED
  BY <1>1, <1>2, <1>3 DEF NaturalReading, IsReading

(* parseNaturalFilename credits a book to a name.                          *)
LEMMA NaturalTyped ==
  ASSUME NEW stem \in BookTexts
  PROVE  parseNaturalFilename(stem) \in Seq(Books)
<1> DEFINE pairs == splitFilenamePairs(stem)  n == Len(pairs)
           f == [k \in DOMAIN pairs |-> NaturalReading(pairs[k].left, pairs[k].right)]
<1>1. n \in Nat /\ DOMAIN pairs = 1..n /\ \A k \in 1..n : pairs[k] \in Halves
  BY PairsTyped
<1>2. parseNaturalFilename(stem) = First(FlattenSeq(f))
  BY DEF parseNaturalFilename
<1> HIDE DEF pairs, n
<1>3. \A k \in 1..n : NaturalReading(pairs[k].left, pairs[k].right) \in Seq(Books)
  <2> TAKE k \in 1..n
  <2>1. pairs[k].left \in BookTexts /\ pairs[k].right \in BookTexts
    BY <1>1 DEF Halves
  <2> QED
    BY <2>1, NaturalReadingTyped
<1>4. SeqsOf(Books, n, f)
  BY <1>1, <1>3 DEF SeqsOf
<1> HIDE DEF f
<1>5. FlattenSeq(f) \in Seq(Books)
  BY <1>1, <1>4, Gathered
<1> QED
  BY <1>2, <1>5, FirstTyped

(* parseCalibreAuthorOnly finds a name.                                    *)
LEMMA CalibreAuthorTyped ==
  ASSUME NEW stem \in BookTexts
  PROVE  parseCalibreAuthorOnly(stem) \in Seq(Names)
<1> DEFINE IsFullName(s) == FieldCount(s.right) = 2 /\ NameSized(s.right, {}) /\ IsName(s.right)
           c == CalibreSplit(stem)
           A == {s \in ToSet(c) : IsFullName(s)}
           named == Only(c, A)  n == Len(named)
           f == [k \in DOMAIN named |-> named[k].right]
<1>1. c \in Seq(Halves)
  BY CalibreSplitTyped
<1>2. \A s \in A : IsName(s.right)
  OBVIOUS
<1>3. parseCalibreAuthorOnly(stem) = f
  BY DEF parseCalibreAuthorOnly
<1> HIDE DEF c, A
<1>4. named \in Seq(Halves) /\ ToSet(named) = ToSet(c) \cap A
  BY <1>1, OnlySet
<1>5. n \in Nat /\ DOMAIN named = 1..n /\ \A k \in 1..n : named[k] \in Halves /\ named[k] \in A
  BY <1>4 DEF ToSet
<1> HIDE DEF named, n
<1>6. \A k \in 1..n : named[k].right \in Names
  BY <1>2, <1>5 DEF Names, Halves
<1>7. f \in [1..n -> Names]
  BY <1>5, <1>6
<1> HIDE DEF f
<1> QED
  BY <1>3, <1>5, <1>7, IsSeq

(* The candidates of a directory are texts.                                *)
LEMMA CandidatesTyped ==
  ASSUME NEW t \in BookTexts
  PROVE  pathAuthorCandidates(t) \in Seq(BookTexts)
<1> DEFINE kept == {i \in DOMAIN t : ~On("edition", t[i])}  s == stripEditionSuffix(t)
<1>1. s \in BookTexts
  <2>1. CASE kept = {}
    BY <2>1 DEF stripEditionSuffix, BookTexts
  <2>2. CASE kept # {}
    <3>1. Len(t) \in Nat /\ kept \in SUBSET (1..Len(t))
      BY TextLen
    <3>2. s = SubSeq(t, 1, Max(kept))
      BY <2>2 DEF stripEditionSuffix
    <3> HIDE DEF kept
    <3>3. Max(kept) \in kept
      BY <2>2, <3>1, MaxInside
    <3> DEFINE m == Max(kept)  n == Len(t)
    <3>5. n \in Nat /\ m \in 1..n
      BY <3>1, <3>3
    <3> HIDE DEF m, n
    <3>6. 1 \in 1..n+1 /\ m \in 0..n
      BY <3>5
    <3>4. 1 \in 1..Len(t)+1 /\ Max(kept) \in 0..Len(t)
      BY <3>6 DEF m, n
    <3> QED
      BY <3>2, <3>4, TextPart
  <2> QED
    BY <2>1, <2>2
<1> HIDE DEF s
<1>2. pathAuthorCandidates(t) = <<t>> \o (IF s \in {<<>>, t} THEN <<>> ELSE <<s>>)
  BY DEF pathAuthorCandidates, s
<1>3. <<t>> \in Seq(BookTexts) /\ (IF s \in {<<>>, t} THEN <<>> ELSE <<s>>) \in Seq(BookTexts)
  BY <1>1, OneOf
<1> QED
  BY <1>2, <1>3, ToSetConcat

(* A directory named like a file credits its books to a name.              *)
LEMMA PairAuthorTyped ==
  ASSUME NEW t \in BookTexts
  PROVE  filenamePairAuthor(t) \in Seq(Names)
<1> DEFINE b == First(parseCalibreFilename(t) \o parseNaturalFilename(t))
           f == [k \in DOMAIN b |-> b[k].author]
<1>1. parseCalibreFilename(t) \in Seq(Books) /\ parseNaturalFilename(t) \in Seq(Books)
  BY CalibreTyped, NaturalTyped
<1>2. parseCalibreFilename(t) \o parseNaturalFilename(t) \in Seq(Books)
  BY <1>1, ToSetConcat
<1>3. b \in Seq(Books)
  BY <1>2, FirstTyped
<1>4. filenamePairAuthor(t) = f
  BY DEF filenamePairAuthor, AuthorsOf
<1> HIDE DEF b
<1>5. Len(b) \in Nat /\ DOMAIN b = 1..Len(b) /\ \A k \in 1..Len(b) : b[k].author \in Names
  <2>1. Len(b) \in Nat /\ DOMAIN b = 1..Len(b) /\ \A k \in 1..Len(b) : b[k] \in Books
    BY <1>3
  <2> QED
    BY <2>1 DEF Books
<1>6. f \in [1..Len(b) -> Names]
  BY <1>5
<1> HIDE DEF f
<1> QED
  BY <1>4, <1>5, <1>6, IsSeq

(* What a directory credits a book to reads as a name.                     *)
LEMMA DirAuthorTyped ==
  ASSUME NEW path, path.dirs \in Seq(BookTexts), NEW title
  PROVE  authorFromPath(path, title) \in Seq(Names)
<1> DEFINE d == path.dirs  n == Len(d)
           f == [k \in DOMAIN d |-> pathAuthorCandidates(Reverse(d)[k])]
           c == FlattenSeq(f)  m == Len(c)
           g == [k \in DOMAIN c |-> filenamePairAuthor(c[k]) \o <<c[k]>>]
           names == FlattenSeq(g)
           A == {a \in ToSet(names) : usablePathAuthor(a, title)}
<1>1. n \in Nat /\ DOMAIN d = 1..n /\ \A k \in 1..n : d[k] \in BookTexts
  OBVIOUS
<1>2. authorFromPath(path, title) = First(Only(names, A))
  BY DEF authorFromPath, FirstUsable
<1>3. \A k \in 1..n : pathAuthorCandidates(Reverse(d)[k]) \in Seq(BookTexts)
  <2> HIDE DEF d
  <2> TAKE k \in 1..n
  <2>1. Reverse(d)[k] = d[(n - k) + 1]
    BY DEF Reverse
  <2> HIDE DEF n
  <2>2. (n - k) + 1 \in 1..n
    BY <1>1
  <2>3. Reverse(d)[k] \in BookTexts
    BY <1>1, <2>1, <2>2
  <2> QED
    BY <2>3, CandidatesTyped
<1>4. SeqsOf(BookTexts, n, f)
  BY <1>1, <1>3 DEF SeqsOf
<1> HIDE DEF f, d, n
<1>5. c \in Seq(BookTexts)
  BY <1>1, <1>4, Gathered
<1> HIDE DEF c
<1>6. m \in Nat /\ DOMAIN c = 1..m /\ \A k \in 1..m : c[k] \in BookTexts
  BY <1>5
<1> HIDE DEF m
<1>7. \A k \in 1..m : filenamePairAuthor(c[k]) \o <<c[k]>> \in Seq(BookTexts)
  <2> TAKE k \in 1..m
  <2>1. filenamePairAuthor(c[k]) \in Seq(BookTexts)
    <3>1. filenamePairAuthor(c[k]) \in Seq(Names)
      BY <1>6, PairAuthorTyped
    <3>2. ToSet(filenamePairAuthor(c[k])) \subseteq BookTexts
      BY <3>1 DEF ToSet, Names
    <3> QED
      BY <3>1, <3>2, SeqNarrow
  <2>2. <<c[k]>> \in Seq(BookTexts)
    BY <1>6, OneOf
  <2> QED
    BY <2>1, <2>2, ToSetConcat
<1>8. SeqsOf(BookTexts, m, g)
  BY <1>6, <1>7 DEF SeqsOf
<1> HIDE DEF g
<1>9. names \in Seq(BookTexts)
  BY <1>6, <1>8, Gathered
<1>10. \A a \in A : IsName(a)
  BY DEF usablePathAuthor
<1> HIDE DEF names, A
<1> DEFINE o == Only(names, A)
<1>11. o \in Seq(BookTexts) /\ ToSet(o) = ToSet(names) \cap A
  BY <1>9, OnlySet
<1>12. ToSet(names) \subseteq BookTexts
  BY <1>9 DEF ToSet
<1>13. ToSet(o) \subseteq Names
  BY <1>10, <1>11, <1>12 DEF Names
<1> HIDE DEF o
<1>14. o \in Seq(Names)
  BY <1>11, <1>13, SeqNarrow
<1> QED
  BY <1>2, <1>14, FirstTyped DEF o

PathsTyped(n, paths) ==
  /\ paths = [k \in 1..n |-> paths[k]]
  /\ \A k \in 1..n : paths[k].stem \in BookTexts /\ paths[k].dirs \in Seq(BookTexts)

(* What is read off names and directories leaves a known title alone, and  *)
(* brings an author only who is wanted and reads as a name.                *)
SoundReading(r, known, needAuthor) ==
  /\ known # <<>> => r.title = known
  /\ ~needAuthor => r.author = <<>>
  /\ r.author = <<>> \/ r.author \in Names

(* The first element is one of the set.                                    *)
LEMMA FirstIn ==
  ASSUME NEW S, NEW s \in Seq(S), s # <<>>
  PROVE  s[1] \in S
OBVIOUS

(* The readings in their order are sound.                                  *)
LEMMA ReadingsSound ==
  ASSUME NEW n \in Nat, NEW paths, PathsTyped(n, paths), NEW known, NEW fallback,
         NEW needAuthor \in BOOLEAN, NEW natural \in Seq(Books), NEW calibre \in Seq(Books),
         NEW calibreAuthor \in Seq(Names)
  PROVE  SoundReading(FromReadings(paths, known, fallback, needAuthor, natural, calibre,
                                   calibreAuthor), known, needAuthor)
<1> DEFINE title == IF known # <<>> THEN known ELSE FirstOr(natural, [title |-> fallback]).title
           f == [k \in DOMAIN paths |-> authorFromPath(paths[k], title)]
           dir == FirstOr(FlattenSeq(f), <<>>)
           Named(author) == [title |-> title, author |-> author]
           r == FromReadings(paths, known, fallback, needAuthor, natural, calibre, calibreAuthor)
<1>1. r = IF ~needAuthor THEN Named(<<>>)
          ELSE IF natural # <<>> THEN Named(natural[1].author)
          ELSE IF known = <<>> /\ calibre # <<>> THEN calibre[1]
          ELSE IF known # <<>> /\ calibreAuthor # <<>> THEN Named(calibreAuthor[1])
          ELSE Named(dir)
  BY DEF FromReadings
<1>2. known # <<>> => title = known
  OBVIOUS
<1> HIDE DEF title, r
<1>3. natural # <<>> => natural[1].author \in Names
  <2>1. natural # <<>> => natural[1] \in Books
    BY FirstIn
  <2> QED
    BY <2>1 DEF Books
<1>4. calibre # <<>> => calibre[1].author \in Names
  <2>1. calibre # <<>> => calibre[1] \in Books
    BY FirstIn
  <2> QED
    BY <2>1 DEF Books
<1>5. calibreAuthor # <<>> => calibreAuthor[1] \in Names
  BY FirstIn
<1>6. dir = <<>> \/ dir \in Names
  <2>1. \A k \in 1..n : authorFromPath(paths[k], title) \in Seq(Names)
    BY DirAuthorTyped DEF PathsTyped
  <2>2. DOMAIN paths = 1..n
    BY DEF PathsTyped
  <2>3. SeqsOf(Names, n, f)
    BY <2>1, <2>2 DEF SeqsOf
  <2> HIDE DEF f
  <2> DEFINE s == FlattenSeq(f)
  <2>4. s \in Seq(Names)
    BY <2>3, Gathered
  <2> HIDE DEF s
  <2>5. dir = IF s = <<>> THEN <<>> ELSE s[1]
    BY DEF FirstOr, s
  <2> QED
    BY <2>4, <2>5, FirstIn
<1> HIDE DEF dir
<1>7. \A a : Named(a).title = title /\ Named(a).author = a
  OBVIOUS
<1> HIDE DEF Named
<1>8. known # <<>> => r.title = known
  BY <1>1, <1>2, <1>7
<1>9. ~needAuthor => r.author = <<>>
  BY <1>1, <1>7
<1>10. r.author = <<>> \/ r.author \in Names
  BY <1>1, <1>3, <1>4, <1>5, <1>6, <1>7
<1> QED
  BY <1>8, <1>9, <1>10 DEF SoundReading, r

(* So are those of the names of the files.                                 *)
LEMMA FromNamesSound ==
  ASSUME NEW n \in Nat, NEW paths, PathsTyped(n, paths), NEW known, NEW fallback,
         NEW needAuthor \in BOOLEAN
  PROVE  SoundReading(FromNames(paths, known, fallback, needAuthor), known, needAuthor)
<1> DEFINE f == [k \in DOMAIN paths |-> parseNaturalFilename(paths[k].stem)]
           g == [k \in DOMAIN paths |-> parseCalibreFilename(paths[k].stem)]
           h == [k \in DOMAIN paths |-> parseCalibreAuthorOnly(paths[k].stem)]
           s == FlattenSeq(f)
           A == {b \in ToSet(s) : known = <<>> \/ titlesAgree(b.title, known)}
           x == First(Only(s, A))  y == First(FlattenSeq(g))  z == First(FlattenSeq(h))
<1>1. FromNames(paths, known, fallback, needAuthor) =
        FromReadings(paths, known, fallback, needAuthor, x, y, z)
  BY DEF FromNames, FirstAgreeing
<1>2. DOMAIN paths = 1..n /\ \A k \in 1..n : paths[k].stem \in BookTexts
  BY DEF PathsTyped
<1> HIDE DEF A
<1>3. x \in Seq(Books)
  <2>1. SeqsOf(Books, n, f)
    BY <1>2, NaturalTyped DEF SeqsOf
  <2> HIDE DEF f
  <2>2. s \in Seq(Books)
    BY <2>1, Gathered
  <2> HIDE DEF s
  <2>3. Only(s, A) \in Seq(Books)
    BY <2>2, OnlyTyped
  <2> QED
    BY <2>3, FirstTyped
<1>4. y \in Seq(Books)
  <2>1. SeqsOf(Books, n, g)
    BY <1>2, CalibreTyped DEF SeqsOf
  <2> HIDE DEF g
  <2>2. FlattenSeq(g) \in Seq(Books)
    BY <2>1, Gathered
  <2> QED
    BY <2>2, FirstTyped
<1>5. z \in Seq(Names)
  <2>1. SeqsOf(Names, n, h)
    BY <1>2, CalibreAuthorTyped DEF SeqsOf
  <2> HIDE DEF h
  <2>2. FlattenSeq(h) \in Seq(Names)
    BY <2>1, Gathered
  <2> QED
    BY <2>2, FirstTyped
<1> HIDE DEF x, y, z
<1> QED
  BY <1>1, <1>3, <1>4, <1>5, ReadingsSound

(* A book described: title and authors of its files stand, whatever the    *)
(* names of the files say.                                                 *)
SoundDescription(d, known, picked) ==
  /\ d.known = known /\ d.picked = picked
  /\ known # <<>> => d.raw = known
  /\ picked # <<>> => d.recovered = <<>> /\ d.authors = ToSet(picked)
  /\ d.recovered = <<>> \/ \E a \in Names : d.recovered = <<a>>
  /\ d.authors = ToSet(picked \o d.recovered)

(* Every description is sound.                                             *)
LEMMA DescribedSound ==
  ASSUME NEW n \in Nat, NEW paths, PathsTyped(n, paths), NEW known, NEW names,
         NEW picked \in Seq(BookTexts)
  PROVE  SoundDescription(Described(known, picked, names, paths), known, picked)
<1> DEFINE r == IF known # <<>> /\ picked # <<>> THEN [title |-> known, author |-> <<>>]
                ELSE FromNames(paths, known, titleFromPath(paths[1]), picked = <<>>)
           d == Washed(known, picked, names, r)
<1>1. Described(known, picked, names, paths) = d
  BY DEF Described
<1>2. SoundReading(r, known, picked = <<>>)
  <2>1. SoundReading(FromNames(paths, known, titleFromPath(paths[1]), picked = <<>>),
                     known, picked = <<>>)
    <3> DEFINE need == picked = <<>>
    <3>1. need \in BOOLEAN
      OBVIOUS
    <3> HIDE DEF need
    <3>2. SoundReading(FromNames(paths, known, titleFromPath(paths[1]), need), known, need)
      BY <3>1, FromNamesSound
    <3> QED
      BY <3>2 DEF need
  <2>2. SoundReading([title |-> known, author |-> <<>>], known, picked = <<>>)
    BY DEF SoundReading
  <2> QED
    BY <2>1, <2>2
<1> HIDE DEF r
<1>3. /\ known # <<>> => r.title = known
      /\ picked # <<>> => r.author = <<>>
      /\ r.author = <<>> \/ r.author \in Names
  BY <1>2 DEF SoundReading
<1>4. /\ d.known = known /\ d.picked = picked /\ d.raw = r.title
      /\ d.recovered = IF r.author = <<>> THEN <<>> ELSE <<r.author>>
      /\ d.authors = ToSet(picked \o (IF r.author = <<>> THEN <<>> ELSE <<r.author>>))
  BY DEF Washed
<1> HIDE DEF d
<1>5. d.authors = ToSet(picked \o d.recovered)
  BY <1>4
<1>6. picked # <<>> => d.recovered = <<>> /\ d.authors = ToSet(picked)
  <2>1. picked # <<>> => d.recovered = <<>>
    BY <1>3, <1>4
  <2>2. picked \o <<>> = picked
    OBVIOUS
  <2> QED
    BY <1>5, <2>1, <2>2
<1>7. d.recovered = <<>> \/ \E a \in Names : d.recovered = <<a>>
  BY <1>3, <1>4
<1>8. known # <<>> => d.raw = known
  BY <1>3, <1>4
<1> QED
  BY <1>1, <1>4, <1>5, <1>6, <1>7, <1>8 DEF SoundDescription

(* The title picked is one of those that voted.                            *)
LEMMA TitleIsOneOf ==
  ASSUME NEW titles \in Seq(BookTexts), NEW tokenSets,
         \E x \in ToSet(titles) : ~isPlaceholderTitle(x)
  PROVE  /\ pickTitle(titles, tokenSets) \in ToSet(titles)
         /\ ~isPlaceholderTitle(pickTitle(titles, tokenSets))
<1> DEFINE A == {x \in ToSet(titles) : ~isPlaceholderTitle(x)}
           t == Only(titles, A)
           n == Len(t)  key == TitleKeys(t)  len == TitleLengths(t)
<1>0. \A x \in A : x \in ToSet(titles) /\ ~isPlaceholderTitle(x)
  OBVIOUS
<1>1. A # {} /\ A \subseteq ToSet(titles)
  OBVIOUS
<1>2. pickTitle(titles, tokenSets) = BestTitle(FoldLeft(TitleVote, <<>>, t), tokenSets).title
  BY DEF pickTitle, TitleVotes, BestTitle
<1> HIDE DEF A
<1>3. t \in Seq(BookTexts) /\ ToSet(t) = A
  <2>1. t \in Seq(BookTexts) /\ ToSet(t) = ToSet(titles) \cap A
    BY OnlySet
  <2> QED
    BY <1>1, <2>1
<1> HIDE DEF t
<1>4. t # <<>>
  BY <1>1, <1>3 DEF ToSet
<1>5. DOMAIN t = 1..n
  BY <1>3
<1>6. PICK m, pos, cnt : /\ Counted(key, len, n, m, pos, cnt)
                        /\ FoldLeft(TitleVote, <<>>, t) = TitlesAt(t, m, pos, cnt)
  BY <1>3, TitlesCounted
<1> HIDE DEF n, key, len
<1>7. PICK w : TitleLeader(t, tokenSets, m, pos, cnt, w)
  <2>1. Counted(TitleKeys(t), TitleLengths(t), Len(t), m, pos, cnt)
    BY <1>6 DEF n, key, len
  <2> QED
    BY <1>3, <1>4, <2>1, TitleElected
<1>8. w \in 1..m /\ BestTitle(TitlesAt(t, m, pos, cnt), tokenSets).title = t[pos[w]]
  BY <1>7 DEF TitleLeader, Leader
<1>9. pos \in [1..m -> 1..n]
  BY <1>6 DEF Counted
<1>10. t[pos[w]] \in A
  BY <1>3, <1>5, <1>8, <1>9 DEF ToSet
<1> QED
  BY <1>0, <1>2, <1>6, <1>8, <1>10

(* A sequence without elements is empty.                                   *)
LEMMA NothingIn ==
  ASSUME NEW S, NEW s \in Seq(S), ToSet(s) = {}
  PROVE  s = <<>>
<1>1. SUFFICES ASSUME s # <<>> PROVE FALSE
  OBVIOUS
<1>2. 1 \in DOMAIN s
  BY <1>1
<1> QED
  BY <1>2 DEF ToSet

(* So is the list of authors.                                              *)
LEMMA ListIsOneOf ==
  ASSUME NEW lists \in Seq(Seq(BookTexts))
  PROVE  IF ToSet(lists) \ {<<>>} = {} THEN pickAuthors(lists) = <<>>
         ELSE pickAuthors(lists) \in ToSet(lists) \ {<<>>}
<1> DEFINE A == ToSet(lists) \ {<<>>}
           t == Only(lists, A)
           n == Len(t)  key == AuthorKeys(t)  len == NoLengths(t)
<1>1. pickAuthors(lists) = BestAuthors(FoldLeft(AuthorVote, <<>>, t)).list
  BY DEF pickAuthors, AuthorVotes, BestAuthors
<1>2. A \subseteq ToSet(lists)
  OBVIOUS
<1> HIDE DEF A
<1>3. t \in Seq(Seq(BookTexts)) /\ ToSet(t) = A
  <2> DEFINE S == Seq(BookTexts)
  <2>1. lists \in Seq(S)
    OBVIOUS
  <2> HIDE DEF S
  <2>2. t \in Seq(S) /\ ToSet(t) = ToSet(lists) \cap A
    BY <2>1, OnlySet
  <2> QED
    BY <1>2, <2>2 DEF S
<1>4. CASE A = {}
  <2>0. t = <<>>
    <3> HIDE DEF t
    <3> QED
      BY <1>3, <1>4, NothingIn
  <2>1. <<>> \in Seq(Seq(BookTexts)) /\ Len(<<>>) = 0
    OBVIOUS
  <2>2. FoldLeft(AuthorVote, <<>>, <<>>) = <<>>
    BY <2>1, AuthorVotesRun
  <2>3. BestAuthors(<<>>).list = <<>>
    <3> DEFINE W == [list : Seq(BookTexts), count : Nat]  none == [list |-> <<>>, count |-> 0]
    <3>1. <<>> \in Seq(W)
      OBVIOUS
    <3>2. PICK b : b[0] = none /\ BestAuthors(<<>>) = b[Len(<<>>)]
      BY <3>1, PickAuthorsRun
    <3> QED
      BY <2>1, <3>2
  <2>4. pickAuthors(lists) = <<>>
    BY <1>1, <2>0, <2>2, <2>3
  <2> QED
    BY <1>4, <2>4 DEF A
<1>5. CASE A # {}
  <2> HIDE DEF t
  <2>1. t # <<>>
    BY <1>3, <1>5 DEF ToSet
  <2>2. DOMAIN t = 1..n
    BY <1>3
  <2>3. PICK m, pos, cnt : /\ Counted(key, len, n, m, pos, cnt)
                          /\ FoldLeft(AuthorVote, <<>>, t) = AuthorsAt(t, m, pos, cnt)
    BY <1>3, AuthorsCounted
  <2> HIDE DEF n, key, len
  <2>4. PICK w : AuthorsLeader(t, m, pos, cnt, w)
    <3>1. Counted(AuthorKeys(t), NoLengths(t), Len(t), m, pos, cnt)
      BY <2>3 DEF n, key, len
    <3> QED
      BY <1>3, <2>1, <3>1, AuthorsElected
  <2>5. w \in 1..m /\ BestAuthors(AuthorsAt(t, m, pos, cnt)).list = t[pos[w]]
    BY <2>4 DEF AuthorsLeader, Leader
  <2>6. pos \in [1..m -> 1..n]
    BY <2>3 DEF Counted
  <2>7. t[pos[w]] \in A
    BY <1>3, <2>2, <2>5, <2>6 DEF ToSet
  <2>8. pickAuthors(lists) = t[pos[w]]
    BY <1>1, <2>3, <2>5
  <2> QED
    BY <1>5, <2>7, <2>8 DEF A
<1> QED
  BY <1>4, <1>5 DEF A

(***************************************************************************)
(* What Consolidate votes on: the titles and the lists of authors of the   *)
(* rows by path, and the names in the lists.                               *)
(***************************************************************************)
TitlesOf(rs) ==
  LET sorted == ByPath(ToSet(rs)) IN [k \in DOMAIN sorted |-> Meta[sorted[k].content].title]
ListsOf(rs, table) ==
  LET sorted == ByPath(ToSet(rs)) IN [k \in DOMAIN sorted |-> FileAuthors(sorted[k].content, table)]
NamesOf(rs, table) == UNION {ToSet(FileAuthors(r.content, table)) : r \in ToSet(rs)}
TokensOf(rs, table) == AsSets(Unlike(FlattenSeq(ListsOf(rs, table))))

(* The metadata of a content is texts.                                     *)
LEMMA ContentKnown ==
  ASSUME NEW c \in Content
  PROVE  Meta[c].title \in BookTexts /\ Meta[c].authors \in Seq(BookTexts)
<1>1. \A x \in Content : Meta[x].title \in BookTexts /\ Meta[x].authors \in Seq(BookTexts)
  BY BookMetaAssumption, Zenon
<1> QED
  BY <1>1

(* So are the names of a path.                                             *)
LEMMA PathKnown ==
  ASSUME NEW p \in Path
  PROVE  PathOf[p].stem \in BookTexts /\ PathOf[p].dirs \in Seq(BookTexts)
<1>1. \A x \in Path : PathOf[x].stem \in BookTexts /\ PathOf[x].dirs \in Seq(BookTexts)
  BY BookMetaAssumption, Zenon
<1> QED
  BY <1>1

(* The authors of a file are texts.                                        *)
LEMMA FileAuthorsTyped ==
  ASSUME NEW c, NEW table \in Seq(BookTexts)
  PROVE  FileAuthors(c, table) \in Seq(BookTexts)
BY OnlyTyped DEF FileAuthors

(* The titles and the lists that vote are those of the rows.               *)
LEMMA VotedOn ==
  ASSUME NEW rs, OnePathEach(ToSet(rs)), NEW table \in Seq(BookTexts)
  PROVE  /\ TitlesOf(rs) \in Seq(BookTexts)
         /\ ToSet(TitlesOf(rs)) = {Meta[r.content].title : r \in ToSet(rs)}
         /\ ListsOf(rs, table) \in Seq(Seq(BookTexts))
         /\ ToSet(ListsOf(rs, table)) = {FileAuthors(r.content, table) : r \in ToSet(rs)}
<1> DEFINE set == ToSet(rs)  s == ByPath(set)  n == Len(s)  B == Seq(BookTexts)
           f == [k \in DOMAIN s |-> Meta[s[k].content].title]
           g == [k \in DOMAIN s |-> FileAuthors(s[k].content, table)]
<1>1. s \in Seq(set) /\ ToSet(s) = set
  BY ByPathIs
<1>2. \A r \in set : r.content \in Content
  BY DEF OnePathEach, Entry
<1>3. TitlesOf(rs) = f /\ ListsOf(rs, table) = g
  BY DEF TitlesOf, ListsOf
<1>4. \A r \in set : Meta[r.content].title \in BookTexts /\ FileAuthors(r.content, table) \in B
  BY <1>2, ContentKnown, FileAuthorsTyped
<1> HIDE DEF s, set, B
<1>5. n \in Nat /\ DOMAIN s = 1..n /\ (\A k \in 1..n : s[k] \in set)
  BY <1>1
<1> HIDE DEF n
<1>6. set = {s[k] : k \in 1..n}
  BY <1>1, <1>5 DEF ToSet
<1>7. f \in [1..n -> BookTexts] /\ g \in [1..n -> B]
  BY <1>4, <1>5
<1>8. \A k \in 1..n : f[k] = Meta[s[k].content].title /\ g[k] = FileAuthors(s[k].content, table)
  BY <1>5
<1> HIDE DEF f, g
<1>9. ToSet(f) = {Meta[r.content].title : r \in set}
  BY <1>6, <1>7, <1>8 DEF ToSet
<1>10. ToSet(g) = {FileAuthors(r.content, table) : r \in set}
  BY <1>6, <1>7, <1>8 DEF ToSet
<1>11. f \in Seq(BookTexts) /\ g \in Seq(B)
  BY <1>5, <1>7, IsSeq
<1> QED
  BY <1>3, <1>9, <1>10, <1>11 DEF set, B

(* What the vote on the title takes for the name of an author.             *)
LEMMA NoiseKnown ==
  ASSUME NEW rs, OnePathEach(ToSet(rs)), NEW table \in Seq(BookTexts), NEW u
  PROVE  titleMentionsAuthor(u, TokensOf(rs, table)) <=> Mentioned(NamesOf(rs, table), u)
<1> DEFINE l == ListsOf(rs, table)  a == FlattenSeq(l)
<1>1. l \in Seq(Seq(BookTexts)) /\ ToSet(l) = {FileAuthors(r.content, table) : r \in ToSet(rs)}
  BY VotedOn
<1> HIDE DEF l
<1>2. a \in Seq(BookTexts) /\ ToSet(a) = UNION {ToSet(l[i]) : i \in DOMAIN l}
  BY <1>1, Flattened
<1>3. ToSet(l) = {l[i] : i \in DOMAIN l}
  BY DEF ToSet
<1>4. UNION {ToSet(l[i]) : i \in DOMAIN l} = UNION {ToSet(x) : x \in ToSet(l)}
  BY <1>3
<1>5. UNION {ToSet(x) : x \in ToSet(l)} = NamesOf(rs, table)
  BY <1>1 DEF NamesOf
<1>6. ToSet(a) = NamesOf(rs, table)
  BY <1>2, <1>4, <1>5
<1> HIDE DEF a
<1>7. titleMentionsAuthor(u, AsSets(Unlike(a))) <=> Mentioned(ToSet(a), u)
  BY <1>2, NoiseIsMention
<1> QED
  BY <1>6, <1>7 DEF TokensOf, a, l

(* The description is the outcome of the votes.                            *)
LEMMA DescribeSound ==
  ASSUME NEW rs, OnePathEach(ToSet(rs)), NEW ds, OnePathEach(ds), NEW table \in Seq(BookTexts)
  PROVE  SoundDescription(Describe(rs, ds, table), pickTitle(TitlesOf(rs), TokensOf(rs, table)),
                          pickAuthors(ListsOf(rs, table)))
<1> DEFINE files == Files(rs, ds)  n == Len(files)
           paths == [k \in DOMAIN files |-> PathOf[files[k].path]]
           names == Unlike(FlattenSeq(ListsOf(rs, table)))
           known == pickTitle(TitlesOf(rs), TokensOf(rs, table))
           picked == pickAuthors(ListsOf(rs, table))
<1>1. Describe(rs, ds, table) = Described(known, picked, names, paths)
  BY DEF Describe, TitlesOf, ListsOf, TokensOf, Unlike
<1>2. files \in Seq(Entry)
  <2>1. ByPath(ToSet(rs)) \in Seq(ToSet(rs)) /\ ByPath(ds) \in Seq(ds)
    BY ByPathIs
  <2>2. ToSet(rs) \subseteq Entry /\ ds \subseteq Entry
    BY DEF OnePathEach
  <2>3. ByPath(ToSet(rs)) \in Seq(Entry) /\ ByPath(ds) \in Seq(Entry)
    BY <2>1, <2>2
  <2>4. ByPath(ToSet(rs)) \o ByPath(ds) \in Seq(Entry)
    BY <2>3, ToSetConcat
  <2> QED
    BY <2>4 DEF Files
<1> HIDE DEF files
<1>3. n \in Nat /\ DOMAIN files = 1..n /\ \A k \in 1..n : files[k].path \in Path
  <2>1. n \in Nat /\ DOMAIN files = 1..n /\ \A k \in 1..n : files[k] \in Entry
    BY <1>2
  <2> QED
    BY <2>1 DEF Entry
<1> HIDE DEF n
<1>4. PathsTyped(n, paths)
  <2>1. \A k \in 1..n : PathOf[files[k].path].stem \in BookTexts /\ PathOf[files[k].path].dirs \in Seq(BookTexts)
    BY <1>3, PathKnown
  <2> QED
    BY <1>3, <2>1 DEF PathsTyped
<1>5. picked \in Seq(BookTexts)
  <2> DEFINE l == ListsOf(rs, table)
  <2>1. l \in Seq(Seq(BookTexts))
    BY VotedOn
  <2> HIDE DEF l
  <2>2. IF ToSet(l) \ {<<>>} = {} THEN pickAuthors(l) = <<>> ELSE pickAuthors(l) \in ToSet(l) \ {<<>>}
    BY <2>1, ListIsOneOf
  <2>3. ToSet(l) \subseteq Seq(BookTexts) /\ <<>> \in Seq(BookTexts)
    BY <2>1 DEF ToSet
  <2> QED
    BY <2>2, <2>3 DEF l
<1> HIDE DEF known, picked, names, paths
<1>6. SoundDescription(Described(known, picked, names, paths), known, picked)
  BY <1>3, <1>4, <1>5, DescribedSound
<1> QED
  BY <1>1, <1>6 DEF known, picked

(* What is filtered out of a sequence without repetition repeats nothing.  *)
LEMMA NoTwiceOnly ==
  ASSUME NEW S, NEW s \in Seq(S), NoTwice(s), NEW A
  PROVE  NoTwice(Only(s, A))
<1> DEFINE T == {t \in Seq(S) : NoTwice(t) => NoTwice(Only(t, A))}
<1>1. <<>> \in T
  <2>1. <<>> \in Seq(S) /\ Only(<<>>, A) = <<>>
    BY OnlyEmpty
  <2> QED
    BY <2>1
<1>2. ASSUME NEW t \in Seq(S), NEW x \in S, t \in T PROVE Append(t, x) \in T
  <2>1. Only(t, A) \in Seq(S) /\ ToSet(Only(t, A)) = ToSet(t) \cap A
    BY OnlySet
  <2>2. Only(Append(t, x), A) = IF x \in A THEN Append(Only(t, A), x) ELSE Only(t, A)
    BY OnlyAppend
  <2>3. NoTwice(Append(t, x)) <=> NoTwice(t) /\ x \notin ToSet(t)
    BY NoTwiceAppend
  <2> DEFINE u == Only(t, A)
  <2> HIDE DEF u
  <2>4. NoTwice(Append(u, x)) <=> NoTwice(u) /\ x \notin ToSet(u)
    BY <2>1, NoTwiceAppend DEF u
  <2>5. Append(t, x) \in Seq(S)
    OBVIOUS
  <2> QED
    BY <1>2, <2>1, <2>2, <2>3, <2>4, <2>5 DEF u
<1>3. s \in T
  <2> HIDE DEF T
  <2> QED
    BY <1>1, <1>2, BySequence
<1> QED
  BY <1>3

(* A set of numbers has its smallest one.                                  *)
LEMMA MinIn ==
  ASSUME NEW s \in SUBSET Nat, s # {}
  PROVE  Min(s) \in s
<1>1. \E i \in s : \A k \in s : ~(<<k, i>> \in OpToRel(<, Nat))
  BY NatLessThanWellFounded, WFMin
<1>2. PICK i \in s : \A k \in s : ~(k < i)
  BY <1>1 DEF OpToRel
<1>3. \A k \in s : i <= k
  BY <1>2
<1>4. Min(s) = i
  BY <1>3, MinIs
<1> QED
  BY <1>4

(* The table of authors keeps its first names when others are added and    *)
(* those nobody is credited as are deleted: a list of names read from it   *)
(* is the same.                                                            *)
LEMMA SameList ==
  ASSUME NEW table \in Seq(BookTexts), NoTwice(table), NEW r \in Seq(BookTexts), NEW B, NEW c,
         ToSet(Meta[c].authors) \subseteq B, ToSet(Meta[c].authors) \subseteq ToSet(table)
  PROVE  FileAuthors(c, Only(Once(table \o r), B)) = FileAuthors(c, table)
<1> DEFINE A == {n \in ToSet(Meta[c].authors) :
                   ~isPlaceholderAuthor(n) /\ ~isTitleEcho(n, Meta[c].title)}
<1>1. A \subseteq B /\ A \subseteq ToSet(table)
  OBVIOUS
<1>2. \A t : FileAuthors(c, t) = Only(t, A)
  BY DEF FileAuthors
<1> HIDE DEF A
<1>3. table \o r \in Seq(BookTexts)
  BY ToSetConcat
<1> DEFINE o == Once(table \o r)
<1>4. o \in Seq(BookTexts)
  BY <1>3, OnceSet
<1>5. Only(o, A) = Only(table, A)
  BY <1>1, OnlyKnown
<1> HIDE DEF o
<1>6. Only(Only(o, B), A) = Only(o, A)
  BY <1>1, <1>4, OnlyTwice
<1> QED
  BY <1>2, <1>5, <1>6 DEF o

(***************************************************************************)
(* The files of the book: a path is one file's, and the names its rows are *)
(* credited to are in the table, once.                                     *)
(***************************************************************************)
Credited(rs, table) == \A r \in ToSet(rs) : ToSet(Meta[r.content].authors) \subseteq ToSet(table)

BookInv ==
  /\ rows \in Seq(Entry)
  /\ OnePathEach(Rows \cup dups)
  /\ authors \in Seq(BookTexts) /\ NoTwice(authors) /\ Credited(rows, authors)

(* A file is its path and its content.                                     *)
LEMMA OneEntry ==
  ASSUME NEW x \in Entry, NEW y \in Entry, x.path = y.path, x.content = y.content
  PROVE  x = y
BY DEF Entry

(* Canonical leaves a row its content, and gives it a path of its files.   *)
LEMMA CanonicalKeeps ==
  ASSUME NEW rs \in Seq(Entry), NEW ds, ds \subseteq Entry
  PROVE  /\ Canonical(rs, ds) \in Seq(Entry) /\ DOMAIN Canonical(rs, ds) = DOMAIN rs
         /\ \A k \in DOMAIN rs : /\ Canonical(rs, ds)[k] \in ToSet(rs) \cup ds
                                 /\ Canonical(rs, ds)[k].content = rs[k].content
<1> DEFINE n == Len(rs)  f == Canonical(rs, ds)  all == ToSet(rs) \cup ds
           P(k) == {r.path : r \in {x \in all : x.content = rs[k].content}}
<1>1. n \in Nat /\ DOMAIN rs = 1..n /\ \A k \in 1..n : rs[k] \in Entry /\ rs[k] \in all
  BY DEF ToSet
<1>2. all \subseteq Entry
  BY <1>1 DEF ToSet
<1>3. f = [k \in 1..n |-> [rs[k] EXCEPT !.path = Min(P(k))]]
  BY <1>1 DEF Canonical
<1> HIDE DEF all, n, f
<1>4. ASSUME NEW k \in 1..n PROVE f[k] \in all /\ f[k].content = rs[k].content
  <2>1. P(k) \in SUBSET Nat
    <3>1. \A x \in Entry : x.path \in Nat
      BY BookMetaAssumption DEF Entry
    <3> QED
      BY <1>2, <3>1
  <2>2. P(k) # {}
    BY <1>1
  <2>3. Min(P(k)) \in P(k)
    <3> HIDE DEF P
    <3> QED
      BY <2>1, <2>2, MinIn
  <2>4. PICK x \in all : x.content = rs[k].content /\ x.path = Min(P(k))
    BY <2>3
  <2> HIDE DEF P
  <2>5. f[k] = [rs[k] EXCEPT !.path = x.path]
    BY <1>3, <2>4
  <2>6. x \in Entry /\ rs[k] \in Entry
    BY <1>1, <1>2
  <2>7. f[k] \in Entry /\ f[k].path = x.path /\ f[k].content = x.content
    BY <2>4, <2>5, <2>6 DEF Entry
  <2>8. f[k] = x
    BY <2>6, <2>7, OneEntry
  <2> QED
    BY <2>4, <2>8
<1>5. f = [k \in 1..n |-> f[k]]
  BY <1>3
<1>6. f \in [1..n -> Entry]
  BY <1>2, <1>4, <1>5
<1>7. f \in Seq(Entry) /\ DOMAIN f = 1..n
  BY <1>1, <1>6, IsSeq
<1> QED
  BY <1>1, <1>4, <1>7 DEF f, all

(* The invariant holds at first, and a commit keeps it.                    *)
LEMMA BookInitOk == BookInit => BookInv
<1> SUFFICES ASSUME BookInit PROVE BookInv
  OBVIOUS
<1>1. rows = <<>> /\ dups = {} /\ authors = <<>>
  BY DEF BookInit
<1>2. ToSet(<<>>) = {}
  BY DEF ToSet
<1>3. <<>> \in Seq(Entry) /\ <<>> \in Seq(BookTexts) /\ NoTwice(<<>>)
  BY DEF NoTwice
<1> QED
  BY <1>1, <1>2, <1>3 DEF BookInv, Rows, OnePathEach, Credited

(* A commit keeps the invariant.                                           *)
LEMMA CommitOk ==
  ASSUME BookInv, NEW p \in Path, NEW c \in Content, CommitFile(p, c)
  PROVE  BookInv'
<1> DEFINE e == [path |-> p, content |-> c]
<1>1. e \in Entry /\ e.path = p /\ e.content = c
  BY DEF Entry
<1>2. p \notin Taken
  BY DEF CommitFile
<1>3. \A x \in Rows \cup dups : x.path # p
  BY <1>2 DEF Taken
<1> HIDE DEF e
<1>4. OnePathEach(Rows \cup dups \cup {e})
  BY <1>1, <1>3 DEF BookInv, OnePathEach
<1>5. CASE \E r \in Rows : r.content = c
  <2>1. dups' = dups \cup {e} /\ rows' = rows /\ authors' = authors
    BY <1>5 DEF CommitFile, e
  <2>2. Rows' \cup dups' = Rows \cup dups \cup {e}
    BY <2>1 DEF Rows
  <2> QED
    BY <1>4, <2>1, <2>2 DEF BookInv
<1>6. CASE ~\E r \in Rows : r.content = c
  <2> DEFINE m == Meta[c].authors
  <2>1. rows' = Append(rows, e) /\ authors' = AddNames(m) /\ dups' = dups
    BY <1>6 DEF CommitFile, e
  <2>2. rows \in Seq(Entry) /\ authors \in Seq(BookTexts)
    BY DEF BookInv
  <2>3. Rows' = Rows \cup {e}
    BY <2>1, <2>2, ToSetAppend DEF Rows
  <2>4. m \in Seq(BookTexts)
    BY ContentKnown
  <2> HIDE DEF m
  <2>5. authors \o m \in Seq(BookTexts) /\ ToSet(authors \o m) = ToSet(authors) \cup ToSet(m)
    BY <2>2, <2>4, ToSetConcat
  <2>6. authors' = Once(authors \o m)
    BY <2>1 DEF AddNames, Once
  <2> DEFINE s == authors \o m
  <2> HIDE DEF s
  <2>7. Once(s) \in Seq(BookTexts) /\ ToSet(Once(s)) = ToSet(s) /\ NoTwice(Once(s))
    BY <2>5, OnceSet DEF s
  <2>8. Credited(rows, authors)'
    <3>1. \A r \in Rows : ToSet(Meta[r.content].authors) \subseteq ToSet(authors)
      BY DEF BookInv, Credited, Rows
    <3>2. ToSet(authors') = ToSet(authors) \cup ToSet(m)
      BY <2>5, <2>6, <2>7 DEF s
    <3>3. \A r \in Rows \cup {e} : ToSet(Meta[r.content].authors) \subseteq ToSet(authors')
      BY <1>1, <3>1, <3>2 DEF m
    <3> QED
      BY <2>3, <3>3 DEF Credited, Rows
  <2>9. rows' \in Seq(Entry)
    BY <1>1, <2>1, <2>2
  <2>10. Rows' \cup dups' = Rows \cup dups \cup {e}
    BY <2>1, <2>3
  <2>11. authors' \in Seq(BookTexts) /\ NoTwice(authors')
    BY <2>6, <2>7 DEF s
  <2> QED
    BY <1>4, <2>8, <2>9, <2>10, <2>11 DEF BookInv
<1> QED
  BY <1>5, <1>6

(* The votes Consolidate holds are on the rows as it leaves them.          *)
Voted(rs, ds, table, d) ==
  SoundDescription(d, pickTitle(TitlesOf(rs), TokensOf(rs, table)), pickAuthors(ListsOf(rs, table)))

(* Consolidate keeps the files and the names of the book.                  *)
LEMMA ConsolidateOk ==
  ASSUME BookInv, Consolidate
  PROVE  /\ BookInv'
         /\ OnePathEach(ToSet(rows')) /\ Voted(rows', dups', authors, D')
         /\ \A r \in ToSet(rows') : FileAuthors(r.content, authors') = FileAuthors(r.content, authors)
<1> DEFINE all == Rows \cup dups
           rec == D'.recovered
           credited == UNION {ToSet(Meta[r.content].authors) : r \in Rows}
           B == credited \cup D'.authors
<1>1. /\ rows \in Seq(Entry) /\ OnePathEach(all)
      /\ authors \in Seq(BookTexts) /\ NoTwice(authors) /\ Credited(rows, authors)
  BY DEF BookInv
<1>2. /\ rows' = Canonical(rows, dups)
      /\ dups' = {d \in [path : Taken, content : Content] :
                    d.path \in PathsOf(d.content) /\ d \notin ToSet(rows')}
      /\ D' = Describe(rows', dups', authors)
      /\ authors' = Only(AddNames(rec), B)
  BY DEF Consolidate, D
<1>3. all \subseteq Entry /\ \A x, y \in all : x.path = y.path => x = y
  BY <1>1 DEF OnePathEach
<1>4. /\ rows' \in Seq(Entry) /\ DOMAIN rows' = DOMAIN rows
      /\ \A k \in DOMAIN rows : rows'[k] \in all /\ rows'[k].content = rows[k].content
  <2>1. dups \subseteq Entry
    BY <1>3
  <2> QED
    BY <1>1, <1>2, <2>1, CanonicalKeeps DEF Rows
<1>5. ToSet(rows') \subseteq all
  BY <1>4 DEF ToSet
<1>6. \A r \in ToSet(rows') : \E x \in Rows : x.content = r.content
  BY <1>4 DEF ToSet, Rows
<1>7. dups' \subseteq all
  <2> SUFFICES ASSUME NEW d \in dups' PROVE d \in all
    OBVIOUS
  <2>1. d \in [path : Taken, content : Content] /\ d.path \in PathsOf(d.content)
    BY <1>2
  <2>2. PICK x \in all : x.content = d.content /\ x.path = d.path
    BY <2>1 DEF PathsOf
  <2>3. x \in Entry
    BY <1>3
  <2>4. d \in Entry
    <3>1. x.path \in Path
      BY <2>3 DEF Entry
    <3> QED
      BY <2>1, <2>2, <3>1 DEF Entry
  <2> QED
    BY <2>2, <2>3, <2>4, OneEntry
<1> HIDE DEF all, rec, B, credited
<1>8. OnePathEach(ToSet(rows') \cup dups') /\ OnePathEach(ToSet(rows')) /\ OnePathEach(dups')
  BY <1>3, <1>5, <1>7 DEF OnePathEach
<1>9. Voted(rows', dups', authors, D')
  BY <1>1, <1>2, <1>8, DescribeSound DEF Voted
<1>10. rec \in Seq(BookTexts)
  <2>1. rec = <<>> \/ \E a \in Names : rec = <<a>>
    BY <1>9 DEF Voted, SoundDescription, rec
  <2>2. \A a \in Names : a \in BookTexts
    BY DEF Names
  <2>3. ASSUME NEW a \in BookTexts PROVE <<a>> \in Seq(BookTexts)
    BY OneOf
  <2>4. <<>> \in Seq(BookTexts)
    OBVIOUS
  <2> HIDE DEF rec
  <2>5. CASE rec = <<>>
    BY <2>4, <2>5
  <2>6. CASE \E a \in Names : rec = <<a>>
    <3>1. PICK a \in Names : rec = <<a>>
      BY <2>6
    <3> QED
      BY <2>2, <2>3, <3>1
  <2> QED
    BY <2>1, <2>5, <2>6
<1>11. AddNames(rec) = Once(authors \o rec)
  BY DEF AddNames, Once
<1>12. \A r \in ToSet(rows') : /\ ToSet(Meta[r.content].authors) \subseteq ToSet(authors)
                               /\ ToSet(Meta[r.content].authors) \subseteq B
  <2>1. \A x \in Rows : ToSet(Meta[x.content].authors) \subseteq ToSet(authors)
    BY <1>1 DEF Credited, Rows
  <2>2. \A x \in Rows : ToSet(Meta[x.content].authors) \subseteq B
    BY DEF B, credited
  <2> QED
    BY <1>6, <2>1, <2>2
<1>13. \A r \in ToSet(rows') : FileAuthors(r.content, authors') = FileAuthors(r.content, authors)
  <2> TAKE r \in ToSet(rows')
  <2>1. FileAuthors(r.content, Only(Once(authors \o rec), B)) = FileAuthors(r.content, authors)
    BY <1>1, <1>10, <1>12, SameList
  <2> QED
    BY <1>2, <1>11, <2>1
<1>14. authors' \in Seq(BookTexts) /\ NoTwice(authors')
       /\ \A r \in ToSet(rows') : ToSet(Meta[r.content].authors) \subseteq ToSet(authors')
  <2> DEFINE s == authors \o rec  o == Once(s)
  <2>1. s \in Seq(BookTexts) /\ ToSet(s) = ToSet(authors) \cup ToSet(rec)
    BY <1>1, <1>10, ToSetConcat
  <2>2. authors' = Only(o, B)
    BY <1>2, <1>11
  <2> HIDE DEF s
  <2>3. o \in Seq(BookTexts) /\ ToSet(o) = ToSet(s) /\ NoTwice(o)
    BY <2>1, OnceSet
  <2> HIDE DEF o
  <2>4. Only(o, B) \in Seq(BookTexts) /\ ToSet(Only(o, B)) = ToSet(o) \cap B
    BY <2>3, OnlySet
  <2>5. NoTwice(Only(o, B))
    BY <2>3, NoTwiceOnly
  <2> QED
    BY <1>12, <2>1, <2>2, <2>3, <2>4, <2>5
<1>15. BookInv'
  BY <1>4, <1>8, <1>14 DEF BookInv, Rows, Credited
<1> QED
  BY <1>8, <1>9, <1>13, <1>15

(* What the README promises, in these words.                               *)
LEMMA Winners ==
  TitleWinner = TitleBest(TitlesOf(rows), NamesOf(rows, authors))
  /\ AuthorsWinner = ListBest(ListsOf(rows, authors))
<1>1. TitleWinner = TitleBest(TitlesOf(rows), NamesOf(rows, authors))
  BY DEF TitleWinner, TitleBest, TitlesOf, NamesOf, Sorted, Rows
<1>2. AuthorsWinner = ListBest(ListsOf(rows, authors))
  BY DEF AuthorsWinner, ListBest, ListsOf, Sorted, Rows
<1> QED
  BY <1>1, <1>2

(* The same of the next state.                                             *)
LEMMA WinnersNext ==
  TitleWinner' = TitleBest(TitlesOf(rows'), NamesOf(rows', authors'))
  /\ AuthorsWinner' = ListBest(ListsOf(rows', authors'))
<1>1. TitleWinner' = TitleBest(TitlesOf(rows'), NamesOf(rows', authors'))
  BY DEF TitleWinner, TitleBest, TitlesOf, NamesOf, Sorted, Rows
<1>2. AuthorsWinner' = ListBest(ListsOf(rows', authors'))
  BY DEF AuthorsWinner, ListBest, ListsOf, Sorted, Rows
<1> QED
  BY <1>1, <1>2

(* The loops elect the winners, of the rows and the table as they are.     *)
LEMMA ElectedAreWinners ==
  ASSUME NEW rs, OnePathEach(ToSet(rs)), NEW table \in Seq(BookTexts)
  PROVE  /\ pickTitle(TitlesOf(rs), TokensOf(rs, table)) = TitleBest(TitlesOf(rs), NamesOf(rs, table))
         /\ pickAuthors(ListsOf(rs, table)) = ListBest(ListsOf(rs, table))
<1> DEFINE titles == TitlesOf(rs)  lists == ListsOf(rs, table)  ts == TokensOf(rs, table)
           names == NamesOf(rs, table)
<1>1. titles \in Seq(BookTexts) /\ lists \in Seq(Seq(BookTexts))
  BY VotedOn
<1>2. Finds(ts, names)
  BY NoiseKnown DEF Mentioned, Finds
<1> HIDE DEF titles, lists, ts, names
<1>3. pickTitle(titles, ts) = TitleBest(titles, names)
  BY <1>1, <1>2, TitleChosen
<1>4. pickAuthors(lists) = ListBest(lists)
  BY <1>1, AuthorsChosen
<1> QED
  BY <1>3, <1>4 DEF titles, lists, ts, names

(* The lists to vote on are the same in the table Consolidate leaves.      *)
LEMMA SameLists ==
  ASSUME NEW rs, OnePathEach(ToSet(rs)), NEW a, NEW b,
         \A r \in ToSet(rs) : FileAuthors(r.content, a) = FileAuthors(r.content, b)
  PROVE  ListsOf(rs, a) = ListsOf(rs, b) /\ NamesOf(rs, a) = NamesOf(rs, b)
<1> DEFINE set == ToSet(rs)  s == ByPath(set)
<1>1. s \in Seq(set)
  BY ByPathIs
<1> HIDE DEF s, set
<1>2. \A k \in DOMAIN s : s[k] \in set
  BY <1>1
<1>3. \A k \in DOMAIN s : FileAuthors(s[k].content, a) = FileAuthors(s[k].content, b)
  BY <1>2 DEF set
<1>4. [k \in DOMAIN s |-> FileAuthors(s[k].content, a)] = [k \in DOMAIN s |-> FileAuthors(s[k].content, b)]
  BY <1>3, Zenon
<1>5. ListsOf(rs, a) = ListsOf(rs, b)
  BY <1>4 DEF ListsOf, s, set
<1>6. NamesOf(rs, a) = NamesOf(rs, b)
  BY DEF NamesOf
<1> QED
  BY <1>5, <1>6

(* An invariant of all histories of the book.                              *)
LEMMA BookStep == BookInv /\ [BookNext]_bookVars => BookInv'
<1> SUFFICES ASSUME BookInv, [BookNext]_bookVars PROVE BookInv'
  OBVIOUS
<1>1. CASE Consolidate
  BY <1>1, ConsolidateOk
<1>2. ASSUME NEW p \in Path, NEW c \in Content, CommitFile(p, c) PROVE BookInv'
  BY <1>2, CommitOk
<1>3. CASE UNCHANGED bookVars
  <2>1. rows' = rows /\ dups' = dups /\ authors' = authors
    BY <1>3 DEF bookVars
  <2> QED
    BY <2>1 DEF BookInv, Rows
<1> QED
  BY <1>1, <1>2, <1>3 DEF BookNext

(* The files of a book and the table of authors stay in order.             *)
THEOREM BookInvAlways == BookSpec => []BookInv
<1>1. BookInit => BookInv
  BY BookInitOk
<1>2. BookInv /\ [BookNext]_bookVars => BookInv'
  BY BookStep
<1> QED
  BY <1>1, <1>2, PTL DEF BookSpec

(* pickTitle and pickAuthors elect whom the README says.                   *)
THEOREM VotesAreRight == BookSpec => []VotesRight
<1>1. BookInit => VotesRight
  BY DEF BookInit, VotesRight
<1>2. BookInv /\ VotesRight /\ [BookNext]_bookVars => VotesRight'
  <2> SUFFICES ASSUME BookInv, VotesRight, [BookNext]_bookVars PROVE VotesRight'
    OBVIOUS
  <2>1. CASE Consolidate
    <3>1. /\ OnePathEach(ToSet(rows')) /\ Voted(rows', dups', authors, D')
          /\ \A r \in ToSet(rows') : FileAuthors(r.content, authors') = FileAuthors(r.content, authors)
      BY <2>1, ConsolidateOk
    <3>2. authors \in Seq(BookTexts)
      BY DEF BookInv
    <3>3. /\ D'.known = pickTitle(TitlesOf(rows'), TokensOf(rows', authors))
          /\ D'.picked = pickAuthors(ListsOf(rows', authors))
      BY <3>1 DEF Voted, SoundDescription
    <3>4. /\ D'.known = TitleBest(TitlesOf(rows'), NamesOf(rows', authors))
          /\ D'.picked = ListBest(ListsOf(rows', authors))
      BY <3>1, <3>2, <3>3, ElectedAreWinners
    <3>5. ListsOf(rows', authors') = ListsOf(rows', authors) /\ NamesOf(rows', authors') = NamesOf(rows', authors)
      BY <3>1, SameLists
    <3>6. D'.known = TitleWinner' /\ D'.picked = AuthorsWinner'
      BY <3>4, <3>5, WinnersNext
    <3> QED
      BY <3>6 DEF VotesRight
  <2>2. CASE \E p \in Path, c \in Content : CommitFile(p, c)
    <3>1. fresh' = FALSE
      BY <2>2 DEF CommitFile
    <3> QED
      BY <3>1 DEF VotesRight
  <2>3. CASE UNCHANGED bookVars
    <3>1. rows' = rows /\ authors' = authors /\ book' = book /\ fresh' = fresh
      BY <2>3 DEF bookVars
    <3>2. TitleWinner' = TitleWinner /\ AuthorsWinner' = AuthorsWinner
      BY <3>1, Winners, WinnersNext
    <3>3. D' = D
      BY <3>1 DEF D
    <3> QED
      BY <3>1, <3>2, <3>3 DEF VotesRight
  <2> QED
    BY <2>1, <2>2, <2>3 DEF BookNext
<1> QED
  BY <1>1, <1>2, BookInvAlways, PTL DEF BookSpec

(* What the names of the files say never replaces what the files say.      *)
THEOREM MetadataComesFirst == BookSpec => []MetadataFirst
<1>1. BookInit => MetadataFirst
  BY DEF BookInit, MetadataFirst
<1>2. BookInv /\ MetadataFirst /\ [BookNext]_bookVars => MetadataFirst'
  <2> SUFFICES ASSUME BookInv, MetadataFirst, [BookNext]_bookVars PROVE MetadataFirst'
    OBVIOUS
  <2>1. CASE Consolidate
    <3> DEFINE titles == TitlesOf(rows')  lists == ListsOf(rows', authors)
               ts == TokensOf(rows', authors)
               titled == {t \in {Meta[r.content].title : r \in Rows'} : ~isPlaceholderTitle(t)}
               named == {FileAuthors(r.content, authors') : r \in Rows'} \ {<<>>}
    <3>1. /\ OnePathEach(ToSet(rows')) /\ Voted(rows', dups', authors, D')
          /\ \A r \in ToSet(rows') : FileAuthors(r.content, authors') = FileAuthors(r.content, authors)
      BY <2>1, ConsolidateOk
    <3>2. authors \in Seq(BookTexts)
      BY DEF BookInv
    <3>3. /\ D'.known = pickTitle(titles, ts) /\ D'.picked = pickAuthors(lists)
          /\ D'.known # <<>> => D'.raw = D'.known
          /\ D'.picked # <<>> => D'.recovered = <<>> /\ D'.authors = ToSet(D'.picked)
          /\ D'.recovered = <<>> \/ \E a \in Names : D'.recovered = <<a>>
      BY <3>1 DEF Voted, SoundDescription
    <3>4. /\ titles \in Seq(BookTexts) /\ ToSet(titles) = {Meta[r.content].title : r \in Rows'}
          /\ lists \in Seq(Seq(BookTexts))
          /\ ToSet(lists) = {FileAuthors(r.content, authors) : r \in Rows'}
      BY <3>1, <3>2, VotedOn DEF Rows
    <3>5. named = ToSet(lists) \ {<<>>}
      <4>1. \A r \in Rows' : FileAuthors(r.content, authors') = FileAuthors(r.content, authors)
        BY <3>1 DEF Rows
      <4> QED
        BY <3>4, <4>1
    <3> HIDE DEF titles, lists, ts
    <3>6. ASSUME titled # {} PROVE D'.raw = D'.known /\ D'.known \in titled
      <4>1. \E x \in ToSet(titles) : ~isPlaceholderTitle(x)
        BY <3>4, <3>6
      <4>2. D'.known \in ToSet(titles) /\ ~isPlaceholderTitle(D'.known)
        BY <3>3, <3>4, <4>1, TitleIsOneOf
      <4>3. D'.known # <<>>
        BY <4>2 DEF isPlaceholderTitle
      <4> QED
        BY <3>3, <3>4, <4>2, <4>3
    <3>7. ASSUME named # {}
          PROVE  D'.recovered = <<>> /\ D'.authors = ToSet(D'.picked) /\ D'.picked \in named
      <4>1. D'.picked \in ToSet(lists) \ {<<>>}
        BY <3>3, <3>4, <3>5, <3>7, ListIsOneOf
      <4> QED
        BY <3>3, <3>5, <4>1
    <3>8. \A k \in DOMAIN D'.recovered : IsName(D'.recovered[k])
      <4>1. CASE D'.recovered = <<>>
        BY <4>1
      <4>2. CASE \E a \in Names : D'.recovered = <<a>>
        BY <4>2 DEF Names
      <4> QED
        BY <3>3, <4>1, <4>2
    <3> QED
      BY <3>6, <3>7, <3>8 DEF MetadataFirst
  <2>2. CASE \E p \in Path, c \in Content : CommitFile(p, c)
    <3>1. fresh' = FALSE
      BY <2>2 DEF CommitFile
    <3> QED
      BY <3>1 DEF MetadataFirst
  <2>3. CASE UNCHANGED bookVars
    <3>1. rows' = rows /\ authors' = authors /\ book' = book /\ fresh' = fresh
      BY <2>3 DEF bookVars
    <3>2. D' = D /\ Rows' = Rows
      BY <3>1 DEF D, Rows
    <3> QED
      BY <3>1, <3>2 DEF MetadataFirst
  <2> QED
    BY <2>1, <2>2, <2>3 DEF BookNext
<1> QED
  BY <1>1, <1>2, BookInvAlways, PTL DEF BookSpec

(***************************************************************************)
(* washAuthorAffix.                                                        *)
(***************************************************************************)
Ascending(s) == \A i, j \in DOMAIN s : i < j => s[i] < s[j]

(* What is greater than all goes to the end.                               *)
LEMMA AscendingAppend ==
  ASSUME NEW s \in Seq(Nat), NEW x \in Nat
  PROVE  Ascending(Append(s, x)) <=> Ascending(s) /\ \A y \in ToSet(s) : y < x
<1> DEFINE u == Append(s, x)  n == Len(s)
<1>1. /\ n \in Nat /\ DOMAIN s = 1..n /\ DOMAIN u = 1..n+1 /\ u[n+1] = x
      /\ \A i \in 1..n : u[i] = s[i] /\ s[i] \in Nat
  OBVIOUS
<1> HIDE DEF u, n
<1>2. /\ n + 1 \in 1..n+1 /\ \A i \in 1..n : i \in 1..n+1 /\ i < n + 1
      /\ \A i, j \in 1..n+1 : i < j => i \in 1..n /\ (j \in 1..n \/ j = n + 1)
  BY <1>1
<1>3. ASSUME Ascending(u) PROVE Ascending(s) /\ \A y \in ToSet(s) : y < x
  BY <1>1, <1>2, <1>3 DEF Ascending, ToSet
<1>4. ASSUME Ascending(s), \A y \in ToSet(s) : y < x PROVE Ascending(u)
  <2> SUFFICES ASSUME NEW i \in 1..n+1, NEW j \in 1..n+1, i < j PROVE u[i] < u[j]
    BY <1>1 DEF Ascending
  <2>1. i \in 1..n /\ u[i] = s[i]
    BY <1>1, <1>2
  <2>2. CASE j \in 1..n
    BY <1>1, <1>4, <2>1, <2>2 DEF Ascending
  <2>3. CASE j = n + 1
    BY <1>1, <1>4, <2>1, <2>3 DEF ToSet
  <2> QED
    BY <1>2, <2>2, <2>3
<1> QED
  BY <1>3, <1>4 DEF u

(* A filter keeps the order.                                               *)
LEMMA OnlyAscending ==
  ASSUME NEW s \in Seq(Nat), Ascending(s), NEW A
  PROVE  Ascending(Only(s, A))
<1> DEFINE T == {t \in Seq(Nat) : Ascending(t) => Ascending(Only(t, A))}
<1>1. <<>> \in T
  <2>1. <<>> \in Seq(Nat) /\ Only(<<>>, A) = <<>>
    BY OnlyEmpty
  <2> QED
    BY <2>1
<1>2. ASSUME NEW t \in Seq(Nat), NEW x \in Nat, t \in T PROVE Append(t, x) \in T
  <2>1. Only(t, A) \in Seq(Nat) /\ ToSet(Only(t, A)) = ToSet(t) \cap A
    BY OnlySet
  <2>2. Only(Append(t, x), A) = IF x \in A THEN Append(Only(t, A), x) ELSE Only(t, A)
    <3> DEFINE S == Nat
    <3>1. t \in Seq(S) /\ x \in S
      OBVIOUS
    <3> HIDE DEF S
    <3> QED
      BY <3>1, OnlyAppend
  <2>3. Ascending(Append(t, x)) <=> Ascending(t) /\ \A y \in ToSet(t) : y < x
    BY AscendingAppend
  <2> DEFINE u == Only(t, A)
  <2> HIDE DEF u
  <2>4. Ascending(Append(u, x)) <=> Ascending(u) /\ \A y \in ToSet(u) : y < x
    BY <2>1, AscendingAppend DEF u
  <2>5. Append(t, x) \in Seq(Nat)
    OBVIOUS
  <2> QED
    BY <1>2, <2>1, <2>2, <2>3, <2>4, <2>5 DEF u
<1>3. s \in T
  <2> HIDE DEF T
  <2> QED
    BY <1>1, <1>2, BySequence
<1> QED
  BY <1>3

(* The positions of the words, in their order.                             *)
LEMMA WordsFound ==
  ASSUME NEW t \in BookTexts
  PROVE  /\ WordsAt(t) \in Seq(1..Len(t)) /\ Ascending(WordsAt(t))
         /\ ToSet(WordsAt(t)) = {i \in 1..Len(t) : t[i] \in Word}
<1> DEFINE n == Len(t)  s == [i \in 1..n |-> i]  A == {i \in 1..n : t[i] \in Word}
<1>1. n \in Nat /\ DOMAIN t = 1..n
  BY TextLen
<1>2. WordsAt(t) = Only(s, A)
  BY <1>1 DEF WordsAt
<1> HIDE DEF n, A
<1>3. s \in Seq(1..n) /\ s \in Seq(Nat) /\ DOMAIN s = 1..n
  BY <1>1
<1>4. ToSet(s) = 1..n /\ Ascending(s)
  BY <1>1, <1>3 DEF ToSet, Ascending
<1> HIDE DEF s
<1>5. Only(s, A) \in Seq(1..n) /\ ToSet(Only(s, A)) = ToSet(s) \cap A
  <2> DEFINE S == 1..n
  <2>1. s \in Seq(S)
    BY <1>3
  <2> HIDE DEF S
  <2>2. Only(s, A) \in Seq(S) /\ ToSet(Only(s, A)) = ToSet(s) \cap A
    BY <2>1, OnlySet
  <2> QED
    BY <2>2 DEF S
<1>6. Ascending(Only(s, A))
  BY <1>3, <1>4, OnlyAscending
<1> QED
  BY <1>2, <1>4, <1>5, <1>6 DEF A, n

(* A credit at the front: words of the author, and a dash behind them.     *)
CreditBefore(t, set, d) ==
  \E m, e \in 1..Len(t) :
    /\ d = 1..e /\ m <= e /\ t[m] \in Dash
    /\ \A i \in 1..Len(t) : t[i] \in Word => (i < m => Lex[t[i]].fold \in set) /\ (m < i => e < i)

(* A credit at the back: a dash or "by" in front of them.                  *)
CreditBehind(t, set, d) ==
  \E m, e \in 1..Len(t) :
    /\ d = e..Len(t) /\ m <= e /\ (t[m] \in Dash \/ "by" \in WordsIn(t, m, m))
    /\ \A i \in 1..Len(t) : t[i] \in Word => (m < i => Lex[t[i]].fold \in set) /\ (i < e => i < m)

Credits(t, set) ==
  {d \in SUBSET (1..Len(t)) : CreditBefore(t, set, d) \/ CreditBehind(t, set, d)}

(* The words of a part of the text are folded one by one.                  *)
LEMMA PartFolded ==
  ASSUME NEW t, NEW S, NEW at \in Seq(S), NEW i \in Nat, NEW j \in Nat, i >= 1, i <= j + 1, j <= Len(at),
         NEW set, setsEqual(FoldAt(t, SubSeq(at, i, j)), set)
  PROVE  \A q \in i..j : Lex[t[at[q]]].fold \in set
<1> DEFINE part == SubSeq(at, i, j)
<1>1. Len(at) \in Nat
  OBVIOUS
<1>2. DOMAIN part = 1..(j - i + 1) /\ \A q \in 1..(j - i + 1) : part[q] = at[i + q - 1]
  BY <1>1
<1> HIDE DEF part
<1>3. ToSet(FoldAt(t, part)) \subseteq set
  BY DEF setsEqual, part
<1> TAKE q \in i..j
<1>4. q - i + 1 \in 1..(j - i + 1) /\ i + (q - i + 1) - 1 = q
  OBVIOUS
<1>5. part[q - i + 1] = at[q]
  BY <1>2, <1>4
<1>6. Lex[t[part[q - i + 1]]].fold \in ToSet(FoldAt(t, part))
  BY <1>2, <1>4 DEF FoldAt, ToSet
<1> QED
  BY <1>3, <1>5, <1>6

(* A position before a word is at a word before it.                        *)
LEMMA WordBefore ==
  ASSUME NEW t \in BookTexts, NEW at, at = WordsAt(t), NEW m \in 1..Len(at)
  PROVE  /\ Len(at) \in Nat /\ at \in Seq(1..Len(t))
         /\ \A q \in 1..Len(at) : at[q] \in 1..Len(t) /\ t[at[q]] \in Word
         /\ \A i \in 1..Len(t) : t[i] \in Word =>
              /\ i < at[m] => \E q \in 1..m-1 : at[q] = i
              /\ i >= at[m] => \E q \in m..Len(at) : at[q] = i
<1>1. at \in Seq(1..Len(t)) /\ Ascending(at) /\ ToSet(at) = {i \in 1..Len(t) : t[i] \in Word}
  BY WordsFound
<1>2. Len(at) \in Nat /\ DOMAIN at = 1..Len(at) /\ \A q \in 1..Len(at) : at[q] \in ToSet(at)
  BY <1>1 DEF ToSet
<1>3. Len(t) \in Nat
  BY TextLen
<1>4. ASSUME NEW i \in 1..Len(t), t[i] \in Word
      PROVE  /\ i < at[m] => \E q \in 1..m-1 : at[q] = i
             /\ i >= at[m] => \E q \in m..Len(at) : at[q] = i
  <2>1. PICK q \in 1..Len(at) : at[q] = i
    <3>1. i \in ToSet(at)
      BY <1>1, <1>4
    <3>2. DOMAIN at = 1..Len(at)
      BY <1>2
    <3> QED
      BY <3>1, <3>2, Zenon DEF ToSet
  <2>2. at[m] \in Nat /\ i \in Nat /\ q \in Nat /\ m \in Nat
    BY <1>1, <1>2, <1>3
  <2>3. (q < m => i < at[m]) /\ (m < q => at[m] < i) /\ (m = q => at[m] = i)
    <3>1. \A x, y \in 1..Len(at) : x < y => at[x] < at[y]
      BY <1>1, <1>2 DEF Ascending
    <3>2. q \in 1..Len(at) /\ m \in 1..Len(at)
      OBVIOUS
    <3> QED
      BY <2>1, <3>1, <3>2
  <2>4. i < at[m] => q \in 1..m-1
    BY <1>2, <2>2, <2>3
  <2>5. i >= at[m] => q \in m..Len(at)
    BY <1>2, <2>2, <2>3
  <2> QED
    BY <2>1, <2>4, <2>5
<1> QED
  BY <1>1, <1>2, <1>4

(* A credit before the title.                                              *)
LEMMA LeadingIsCredit ==
  ASSUME NEW t \in BookTexts, NEW set, Cardinality(set) \in Nat
  PROVE  LeadingCredit(t, set) \in Seq(Credits(t, set))
<1> DEFINE at == WordsAt(t)  k == Cardinality(set)  n == Len(t)  d == 1..at[k+1]-1
           found == k > 0 /\ Len(at) > k /\ setsEqual(FoldAt(t, SubSeq(at, 1, k)), set)
                    /\ DashBetween(t, at[k], at[k+1])
<1>1. LeadingCredit(t, set) = IF found THEN <<d>> ELSE <<>>
  BY DEF LeadingCredit
<1>2. ASSUME found PROVE d \in Credits(t, set)
  <2>1. Len(at) \in Nat /\ at \in Seq(1..n)
    BY WordsFound
  <2>10. \A x, y \in 1..Len(at) : x < y => at[x] < at[y]
    BY WordsFound DEF Ascending
  <2>2. k \in Nat /\ k + 1 \in 1..Len(at) /\ k \in 1..Len(at) /\ (k + 1) - 1 = k
    BY <1>2, <2>1
  <2> HIDE DEF k
  <2>3. /\ \A q \in 1..Len(at) : at[q] \in 1..n /\ t[at[q]] \in Word
        /\ \A i \in 1..n : t[i] \in Word => (i < at[k+1] => \E q \in 1..k : at[q] = i)
    <3> HIDE DEF at, n
    <3> DEFINE m == k + 1
    <3>1. m \in 1..Len(at) /\ m - 1 = k
      BY <2>2
    <3> HIDE DEF m
    <3>2. /\ \A q \in 1..Len(at) : at[q] \in 1..n /\ t[at[q]] \in Word
          /\ \A i \in 1..n : t[i] \in Word => (i < at[m] => \E q \in 1..m-1 : at[q] = i)
      BY <3>1, WordBefore DEF at, n
    <3> QED
      BY <3>1, <3>2 DEF m
  <2> HIDE DEF at
  <2>4. at[k] \in 1..n /\ at[k+1] \in 1..n /\ n \in Nat
    BY <2>2, <2>3, TextLen
  <2>5. \A q \in 1..k : Lex[t[at[q]]].fold \in set
    <3> DEFINE i == 1
    <3>1. i \in Nat /\ k \in Nat /\ i >= 1 /\ i <= k + 1 /\ k <= Len(at)
      BY <2>1, <2>2
    <3>2. setsEqual(FoldAt(t, SubSeq(at, i, k)), set)
      BY <1>2
    <3> HIDE DEF i
    <3>3. \A q \in i..k : Lex[t[at[q]]].fold \in set
      BY <2>1, <3>1, <3>2, PartFolded
    <3> QED
      BY <3>3 DEF i
  <2>6. PICK m \in at[k]+1..at[k+1]-1 : t[m] \in Dash
    BY <1>2 DEF DashBetween
  <2> DEFINE e == at[k+1] - 1
  <2>7. m \in 1..n /\ e \in 1..n /\ m <= e /\ d = 1..e /\ d \in SUBSET (1..n)
    BY <2>4, <2>6
  <2>8. ASSUME NEW i \in 1..n, t[i] \in Word
        PROVE  (i < m => Lex[t[i]].fold \in set) /\ (m < i => e < i)
    <3>1. i < at[k+1] => \E q \in 1..k : at[q] = i
      BY <2>3, <2>8
    <3>2. i < at[k+1] => Lex[t[i]].fold \in set
      BY <2>5, <3>1
    <3>3. i < at[k+1] => i <= at[k]
      <4>1. \A q \in 1..k : q = k \/ at[q] < at[k]
        <5>1. \A q \in 1..k : q \in 1..Len(at) /\ (q = k \/ q < k)
          BY <2>1, <2>2
        <5> QED
          BY <2>2, <2>10, <5>1
      <4> QED
        BY <2>4, <3>1, <4>1
    <3> QED
      BY <2>4, <2>6, <3>2, <3>3
  <2> HIDE DEF d, e
  <2>9. CreditBefore(t, set, d)
    BY <2>6, <2>7, <2>8 DEF CreditBefore, n
  <2> QED
    BY <2>7, <2>9 DEF Credits, n
<1> HIDE DEF found, d
<1> QED
  BY <1>1, <1>2, OneOf

(* A credit behind it.                                                     *)
LEMMA TrailingIsCredit ==
  ASSUME NEW t \in BookTexts, NEW set, IsFiniteSet(set)
  PROVE  TrailingCredit(t, set) \in Seq(Credits(t, set))
<1> DEFINE at == WordsAt(t)  n == Len(at) - Cardinality(set)  m == Len(at)
           found == set # {} /\ n > 0 /\ setsEqual(FoldAt(t, SubSeq(at, n + 1, Len(at))), set)
           dash == DashBetween(t, at[n], at[n+1])  by == Lex[t[at[n]]].fold = "by"
           d == at[n+1]..Len(t)  e == at[n]..Len(t)
<1>1. TrailingCredit(t, set) = IF ~found THEN <<>> ELSE IF dash THEN <<d>> ELSE IF by THEN <<e>> ELSE <<>>
  BY DEF TrailingCredit
<1>2. ASSUME found, dash \/ by
      PROVE  (dash => d \in Credits(t, set)) /\ (~dash /\ by => e \in Credits(t, set))
  <2>1. m \in Nat /\ at \in Seq(1..Len(t)) /\ Len(t) \in Nat
    BY WordsFound, TextLen
  <2>2. Cardinality(set) \in Nat /\ Cardinality(set) # 0
    BY <1>2, FS_CardinalityType, FS_EmptySet
  <2>3. n \in 1..m /\ n + 1 \in 1..m
    BY <1>2, <2>1, <2>2
  <2>4. \A q \in n+1..m : Lex[t[at[q]]].fold \in set
    <3> DEFINE i == n + 1
    <3>1. i \in Nat /\ m \in Nat /\ i >= 1 /\ i <= m + 1 /\ m <= Len(at)
      BY <2>1, <2>3
    <3>2. setsEqual(FoldAt(t, SubSeq(at, i, m)), set)
      BY <1>2
    <3> HIDE DEF i, m, n, at
    <3>3. \A q \in i..m : Lex[t[at[q]]].fold \in set
      BY <2>1, <3>1, <3>2, PartFolded
    <3> QED
      BY <3>3 DEF i
  <2> HIDE DEF n
  <2>5. /\ \A q \in 1..m : at[q] \in 1..Len(t) /\ t[at[q]] \in Word
        /\ \A i \in 1..Len(t) : t[i] \in Word => (i >= at[n+1] => \E q \in n+1..m : at[q] = i)
        /\ \A i \in 1..Len(t) : t[i] \in Word => (i >= at[n] => \E q \in n..m : at[q] = i)
    <3> DEFINE u == n + 1
    <3>1. u \in 1..m
      BY <2>3
    <3> HIDE DEF u, at
    <3>2. /\ \A q \in 1..m : at[q] \in 1..Len(t) /\ t[at[q]] \in Word
          /\ \A i \in 1..Len(t) : t[i] \in Word => (i >= at[u] => \E q \in u..m : at[q] = i)
      BY <3>1, WordBefore DEF at
    <3>3. \A i \in 1..Len(t) : t[i] \in Word => (i >= at[n] => \E q \in n..m : at[q] = i)
      BY <2>3, WordBefore DEF at
    <3> QED
      BY <3>2, <3>3 DEF u
  <2>9. \A q \in n+1..m : at[n+1] <= at[q]
    <3>1. \A x, y \in 1..Len(at) : x < y => at[x] < at[y]
      BY WordsFound DEF Ascending
    <3> HIDE DEF at
    <3>2. \A q \in n+1..m : q = n+1 \/ at[n+1] < at[q]
      BY <2>1, <2>3, <3>1
    <3>3. \A q \in 1..m : at[q] \in Nat
      BY <2>1
    <3> QED
      BY <2>1, <2>3, <3>2, <3>3
  <2> HIDE DEF at, m
  <2>6. at[n] \in 1..Len(t) /\ at[n+1] \in 1..Len(t)
    BY <2>3, <2>5
  <2>7. ASSUME dash PROVE d \in Credits(t, set)
    <3>1. PICK i \in at[n]+1..at[n+1]-1 : t[i] \in Dash
      BY <2>7 DEF DashBetween
    <3> DEFINE hi == at[n+1]
    <3>2. i \in 1..Len(t) /\ hi \in 1..Len(t) /\ i <= hi /\ d = hi..Len(t) /\ d \in SUBSET (1..Len(t))
      BY <2>1, <2>6, <3>1
    <3>3. ASSUME NEW j \in 1..Len(t), t[j] \in Word
          PROVE  (i < j => Lex[t[j]].fold \in set) /\ (j < hi => j < i)
      <4>1. /\ j >= hi => \E q \in n+1..m : at[q] = j
            /\ j >= at[n] => \E q \in n..m : at[q] = j
        BY <2>5, <3>3
      <4>2. j >= hi => Lex[t[j]].fold \in set
        BY <2>4, <4>1
      <4>3. j < hi => j <= at[n]
        <5>1. \A q \in n..m : q = n \/ hi <= at[q]
          BY <2>3, <2>9
        <5> QED
          BY <2>6, <4>1, <5>1
      <4> QED
        BY <2>6, <3>1, <4>2, <4>3
    <3> HIDE DEF d, hi
    <3>4. CreditBehind(t, set, d)
      BY <3>1, <3>2, <3>3 DEF CreditBehind
    <3> QED
      BY <3>2, <3>4 DEF Credits
  <2>8. ASSUME by PROVE e \in Credits(t, set)
    <3> DEFINE i == at[n]
    <3>1. i \in 1..Len(t) /\ e = i..Len(t) /\ e \in SUBSET (1..Len(t))
      BY <2>1, <2>6
    <3>2. ASSUME NEW j \in 1..Len(t), t[j] \in Word, i < j PROVE Lex[t[j]].fold \in set
      <4>1. PICK q \in n..m : at[q] = j
        BY <2>5, <2>6, <3>2
      <4>2. q \in n+1..m
        BY <2>3, <3>2, <4>1
      <4> QED
        BY <2>4, <4>1, <4>2
    <3>3. "by" \in WordsIn(t, i, i)
      <4>1. i \in i..i /\ t[i] \in Word /\ Lex[t[i]].fold = "by"
        BY <2>3, <2>5, <2>8, <3>1
      <4> QED
        BY <4>1 DEF WordsIn
    <3> HIDE DEF e, i
    <3>4. CreditBehind(t, set, e)
      BY <3>1, <3>2, <3>3 DEF CreditBehind
    <3> QED
      BY <3>1, <3>4 DEF Credits
  <2> QED
    BY <2>7, <2>8
<1> HIDE DEF found, dash, by, d, e
<1> QED
  BY <1>1, <1>2, OneOf

(* A name has finitely many words.                                         *)
LEMMA TokensFinite ==
  ASSUME NEW a \in BookTexts
  PROVE  IsFiniteSet(matchTokens(a)) /\ matchTokens(a) \subseteq WordsIn(a, 1, Len(a))
<1> DEFINE n == Len(a)
           J == {j \in 1..n : a[j] \in Word /\ Lex[a[j]].size > 2 /\ ~On("nameParticle", a[j])}
           f == [i \in J |-> Lex[a[i]].fold]
<1>1. n \in Nat /\ DOMAIN a = 1..n
  BY TextLen
<1>2. matchTokens(a) = {f[i] : i \in J}
  BY <1>1 DEF matchTokens
<1>3. IsFiniteSet(J)
  <2>1. J \in SUBSET (1..n)
    OBVIOUS
  <2> HIDE DEF J
  <2> QED
    BY <1>1, <2>1, SizeOfNumbers
<1>4. {f[i] : i \in J} \subseteq WordsIn(a, 1, n)
  BY DEF WordsIn
<1> HIDE DEF J
<1>5. f \in Surjection(J, {f[i] : i \in J})
  BY DEF Surjection
<1> HIDE DEF f
<1>6. IsFiniteSet({f[i] : i \in J})
  BY <1>3, <1>5, FS_Surjection
<1> QED
  BY <1>2, <1>4, <1>6

(* The ends of a set of positions.                                         *)
LEMMA Ends ==
  ASSUME NEW n \in Nat, NEW s \in SUBSET (1..n), s # {}
  PROVE  Min(s) \in s /\ Max(s) \in s /\ \A k \in s : Min(s) <= k /\ k <= Max(s)
<1>0. s \subseteq Nat
  OBVIOUS
<1>1. PICK i \in s : \A k \in s : ~(k < i)
  <2>1. \E i \in s : \A k \in s : ~(<<k, i>> \in OpToRel(<, Nat))
    BY <1>0, NatLessThanWellFounded, WFMin
  <2> QED
    BY <1>0, <2>1 DEF OpToRel
<1>2. \A k \in s : i <= k
  BY <1>0, <1>1
<1>3. Min(s) = i
  BY <1>0, <1>2, MinIs
<1> DEFINE U == {m \in Nat : \A k \in s : k <= m}
<1>4. PICK m \in U : \A k \in U : ~(k < m)
  <2>1. n \in U
    OBVIOUS
  <2>2. U \subseteq Nat
    OBVIOUS
  <2> HIDE DEF U
  <2>3. \E i2 \in U : \A k \in U : ~(<<k, i2>> \in OpToRel(<, Nat))
    BY <2>1, <2>2, NatLessThanWellFounded, WFMin
  <2> QED
    BY <2>2, <2>3 DEF OpToRel
<1>5. m \in s
  <2> SUFFICES ASSUME m \notin s PROVE FALSE
    OBVIOUS
  <2>1. m \in Nat /\ i \in Nat /\ i >= 1 /\ i <= m
    BY <1>4
  <2>2. m - 1 \in Nat /\ m - 1 < m
    BY <2>1
  <2>3. \A k \in s : k <= m - 1
    BY <1>4, <1>0
  <2>4. m - 1 \in U
    BY <2>2, <2>3
  <2> QED
    BY <1>4, <2>2, <2>4
<1>6. Max(s) = m
  <2>1. \A x \in s : (\A y \in s : x >= y) <=> x = m
    BY <1>0, <1>4, <1>5
  <2> QED
    BY <1>5, <2>1, Zenon DEF Max
<1>7. \A k \in s : k <= m
  BY <1>4
<1> QED
  BY <1>1, <1>2, <1>3, <1>5, <1>6, <1>7

(* What is left of a title is a part of it, and what is not left is the    *)
(* credit and separators.                                                  *)
LEMMA WithoutCredit ==
  ASSUME NEW t \in BookTexts, NEW set, NEW d \in Credits(t, set), NEW author,
         set \subseteq WordsIn(author, 1, Len(author)), ~isPlaceholderTitle(Without(t, d))
  PROVE  \E i, j \in 1..Len(t) : Without(t, d) = SubSeq(t, i, j) /\ OneCredit(t, i, j, author)
<1> DEFINE kept == {i \in DOMAIN t \ d : t[i] \in Word}  w == Without(t, d)
           lo == Min(kept)  hi == Max(kept)  n == Len(t)  name == WordsIn(author, 1, Len(author))
<1>1. n \in Nat /\ DOMAIN t = 1..n
  BY TextLen
<1>2. w = (IF kept = {} THEN <<>> ELSE SubSeq(t, lo, hi)) /\ w # <<>>
  BY DEF Without, isPlaceholderTitle
<1>3. kept \in SUBSET (1..n) /\ kept # {}
  BY <1>1, <1>2
<1>4. /\ lo \in kept /\ hi \in kept /\ \A k \in kept : lo <= k /\ k <= hi
      /\ w = SubSeq(t, lo, hi)
  <2> HIDE DEF kept
  <2>1. Min(kept) \in kept /\ Max(kept) \in kept /\ \A k \in kept : Min(kept) <= k /\ k <= Max(kept)
    BY <1>1, <1>3, Ends
  <2> QED
    BY <1>2, <1>3, <2>1
<1>5. \A k \in kept : k \in 1..n /\ k \notin d
  BY <1>1
<1>6. \A k \in 1..n : t[k] \in Word /\ k \notin d => k \in kept
  BY <1>1
<1> HIDE DEF w, kept, lo, hi
<1>7. lo \in 1..n /\ hi \in 1..n /\ lo <= hi
  BY <1>4, <1>5
(* No word stands from i to j, and the words that do are of the set.       *)
<1>8. ASSUME NEW i \in Nat, NEW j \in Nat, \A k \in 1..n : t[k] \in Word => ~(i <= k /\ k <= j),
             i >= 1, j <= n
      PROVE  WordsIn(t, i, j) = {}
  BY <1>1, <1>8 DEF WordsIn
<1>9. ASSUME NEW i \in Nat, NEW j \in Nat, i >= 1, j <= n,
             \A k \in 1..n : t[k] \in Word /\ i <= k /\ k <= j => Lex[t[k]].fold \in set
      PROVE  WordsIn(t, i, j) \subseteq name
  BY <1>1, <1>9 DEF WordsIn
<1> HIDE DEF name
<1>10. CASE CreditBefore(t, set, d)
  <2>1. PICK m \in 1..n, e \in 1..n :
          /\ d = 1..e /\ m <= e /\ t[m] \in Dash
          /\ \A i \in 1..n : t[i] \in Word => (i < m => Lex[t[i]].fold \in set) /\ (m < i => e < i)
    BY <1>10 DEF CreditBefore
  <2>2. e < lo /\ m \in 1..lo-1
    BY <1>1, <1>4, <1>5, <1>7, <2>1
  <2>3. \A k \in 1..n : t[k] \in Word /\ e < k => lo <= k /\ k <= hi
    BY <1>1, <1>4, <1>6, <2>1
  <2>4. WordsIn(t, hi + 1, n) = {}
    <3>1. hi + 1 \in Nat /\ hi + 1 >= 1 /\ n <= n
      BY <1>1, <1>7
    <3>2. \A k \in 1..n : t[k] \in Word => ~(hi + 1 <= k /\ k <= n)
      BY <1>1, <1>7, <2>2, <2>3
    <3> QED
      BY <1>1, <1>8, <3>1, <3>2
  <2>5. WordsIn(t, m + 1, lo - 1) = {}
    <3>1. m + 1 \in Nat /\ m + 1 >= 1 /\ lo - 1 \in Nat /\ lo - 1 <= n
      BY <1>1, <1>7
    <3>2. \A k \in 1..n : t[k] \in Word => ~(m + 1 <= k /\ k <= lo - 1)
      BY <1>1, <1>7, <2>1, <2>3
    <3> QED
      BY <1>8, <3>1, <3>2
  <2>6. WordsIn(t, 1, m - 1) \subseteq name
    <3>1. 1 \in Nat /\ 1 >= 1 /\ m - 1 \in Nat /\ m - 1 <= n
      BY <1>1
    <3>2. \A k \in 1..n : t[k] \in Word /\ 1 <= k /\ k <= m - 1 => Lex[t[k]].fold \in set
      BY <1>1, <2>1
    <3> QED
      BY <1>9, <3>1, <3>2
  <2>7. OneCredit(t, lo, hi, author)
    BY <2>1, <2>2, <2>4, <2>5, <2>6 DEF OneCredit, name, n
  <2> QED
    BY <1>4, <1>7, <2>7 DEF w
<1>11. CASE CreditBehind(t, set, d)
  <2>1. PICK m \in 1..n, e \in 1..n :
          /\ d = e..n /\ m <= e /\ (t[m] \in Dash \/ "by" \in WordsIn(t, m, m))
          /\ \A i \in 1..n : t[i] \in Word => (m < i => Lex[t[i]].fold \in set) /\ (i < e => i < m)
    BY <1>11 DEF CreditBehind
  <2>2. hi < e /\ t[hi] \in Word
    BY <1>1, <1>4, <1>5, <1>7, <2>1 DEF kept
  <2>3. m \in hi+1..n
    BY <1>1, <1>7, <2>1, <2>2
  <2>4. \A k \in 1..n : t[k] \in Word /\ k < e => lo <= k /\ k <= hi
    BY <1>1, <1>4, <1>6, <2>1
  <2>5. WordsIn(t, 1, lo - 1) = {}
    <3>1. 1 \in Nat /\ 1 >= 1 /\ lo - 1 \in Nat /\ lo - 1 <= n
      BY <1>1, <1>7
    <3>2. \A k \in 1..n : t[k] \in Word => ~(1 <= k /\ k <= lo - 1)
      BY <1>1, <1>7, <2>2, <2>4
    <3> QED
      BY <1>8, <3>1, <3>2
  <2>6. WordsIn(t, hi + 1, m - 1) = {}
    <3>1. hi + 1 \in Nat /\ hi + 1 >= 1 /\ m - 1 \in Nat /\ m - 1 <= n
      BY <1>1, <1>7
    <3>2. \A k \in 1..n : t[k] \in Word => ~(hi + 1 <= k /\ k <= m - 1)
      BY <1>1, <1>7, <2>1, <2>4
    <3> QED
      BY <1>8, <3>1, <3>2
  <2>7. WordsIn(t, m + 1, n) \subseteq name
    <3>1. m + 1 \in Nat /\ m + 1 >= 1 /\ n <= n
      BY <1>1
    <3>2. \A k \in 1..n : t[k] \in Word /\ m + 1 <= k /\ k <= n => Lex[t[k]].fold \in set
      BY <1>1, <2>1
    <3> QED
      BY <1>1, <1>9, <3>1, <3>2
  <2>8. OneCredit(t, lo, hi, author)
    BY <2>1, <2>3, <2>5, <2>6, <2>7 DEF OneCredit, name, n
  <2> QED
    BY <1>4, <1>7, <2>8 DEF w
<1> QED
  BY <1>10, <1>11 DEF Credits

(* One of the credits is washed off, or none.                              *)
LEMMA WashIsOne ==
  ASSUME NEW t \in BookTexts, NEW n \in Nat, NEW sets, DOMAIN sets = 1..n,
         \A k \in 1..n : IsFiniteSet(sets[k])
  PROVE  \/ washAuthorAffix(t, sets) = t
         \/ \E k \in 1..n : \E d \in Credits(t, sets[k]) :
              washAuthorAffix(t, sets) = Without(t, d) /\ ~isPlaceholderTitle(Without(t, d))
<1> DEFINE f == [k \in DOMAIN sets |-> LeadingCredit(t, sets[k])]
           g == [k \in DOMAIN sets |-> TrailingCredit(t, sets[k])]
           C == UNION {Credits(t, sets[k]) : k \in 1..n}
           drop == First(FlattenSeq(f) \o FlattenSeq(g))
<1>1. washAuthorAffix(t, sets) = IF drop = <<>> \/ isPlaceholderTitle(Without(t, drop[1])) THEN t
                                 ELSE Without(t, drop[1])
  BY DEF washAuthorAffix
<1>2. \A k \in 1..n : LeadingCredit(t, sets[k]) \in Seq(C) /\ TrailingCredit(t, sets[k]) \in Seq(C)
  <2> TAKE k \in 1..n
  <2> DEFINE K == Credits(t, sets[k])
  <2>1. LeadingCredit(t, sets[k]) \in Seq(K) /\ TrailingCredit(t, sets[k]) \in Seq(K)
    BY LeadingIsCredit, TrailingIsCredit, FS_CardinalityType
  <2>2. K \subseteq C
    OBVIOUS
  <2> HIDE DEF K, C
  <2> QED
    BY <2>1, <2>2
<1> HIDE DEF C
<1>3. SeqsOf(C, n, f) /\ SeqsOf(C, n, g)
  BY <1>2 DEF SeqsOf
<1> HIDE DEF f, g
<1>4. FlattenSeq(f) \in Seq(C) /\ FlattenSeq(g) \in Seq(C)
  BY <1>3, Gathered
<1>5. FlattenSeq(f) \o FlattenSeq(g) \in Seq(C)
  BY <1>4, ToSetConcat
<1>6. drop \in Seq(C)
  BY <1>5, FirstTyped
<1> HIDE DEF drop
<1>7. drop # <<>> => drop[1] \in C
  BY <1>6, FirstIn
<1> QED
  BY <1>1, <1>7 DEF C

(* What pickTitle elects is a text.                                        *)
LEMMA KnownTyped ==
  ASSUME NEW titles \in Seq(BookTexts), NEW tokenSets
  PROVE  pickTitle(titles, tokenSets) \in BookTexts
<1> DEFINE t == Only(titles, {x \in ToSet(titles) : ~isPlaceholderTitle(x)})
           W == [title : BookTexts, count : Nat]
<1>1. pickTitle(titles, tokenSets) = BestTitle(FoldLeft(TitleVote, <<>>, t), tokenSets).title
  BY DEF pickTitle, TitleVotes, BestTitle
<1>2. t \in Seq(BookTexts)
  BY OnlyTyped
<1> HIDE DEF t
<1> DEFINE n == Len(t)  votes == FoldLeft(TitleVote, <<>>, t)  m == Len(votes)
<1>3. PICK b \in [0..n -> Seq(W)] : votes = b[n]
  BY <1>2, TitleVotesRun
<1>4. n \in Nat /\ n \in 0..n
  BY <1>2
<1> HIDE DEF W
<1>5. votes \in Seq(W)
  BY <1>3, <1>4
<1> HIDE DEF votes
<1>6. PICK c \in [0..m -> W] : BestTitle(votes, tokenSets) = c[m]
  BY <1>5, PickTitleRun DEF W
<1>7. m \in Nat /\ m \in 0..m
  BY <1>5
<1>8. BestTitle(votes, tokenSets) \in W
  BY <1>6, <1>7
<1> QED
  BY <1>1, <1>8 DEF W, votes

(* The title that was read is a text too.                                  *)
LEMMA ReadingTitled ==
  ASSUME NEW n \in Nat, NEW paths, PathsTyped(n, paths), NEW known \in BookTexts,
         NEW fallback \in BookTexts, NEW needAuthor \in BOOLEAN
  PROVE  FromNames(paths, known, fallback, needAuthor).title \in BookTexts
<1> DEFINE f == [k \in DOMAIN paths |-> parseNaturalFilename(paths[k].stem)]
           g == [k \in DOMAIN paths |-> parseCalibreFilename(paths[k].stem)]
           h == [k \in DOMAIN paths |-> parseCalibreAuthorOnly(paths[k].stem)]
           s == FlattenSeq(f)
           A == {b \in ToSet(s) : known = <<>> \/ titlesAgree(b.title, known)}
           x == First(Only(s, A))  y == First(FlattenSeq(g))  z == First(FlattenSeq(h))
           r == FromReadings(paths, known, fallback, needAuthor, x, y, z)
           title == IF known # <<>> THEN known ELSE FirstOr(x, [title |-> fallback]).title
           dir == FirstOr(FlattenSeq([k \in DOMAIN paths |-> authorFromPath(paths[k], title)]), <<>>)
           Named(author) == [title |-> title, author |-> author]
<1>1. FromNames(paths, known, fallback, needAuthor) = r
  BY DEF FromNames, FirstAgreeing
<1>2. DOMAIN paths = 1..n /\ \A k \in 1..n : paths[k].stem \in BookTexts
  BY DEF PathsTyped
<1>3. r = IF ~needAuthor THEN Named(<<>>)
          ELSE IF x # <<>> THEN Named(x[1].author)
          ELSE IF known = <<>> /\ y # <<>> THEN y[1]
          ELSE IF known # <<>> /\ z # <<>> THEN Named(z[1])
          ELSE Named(dir)
  BY DEF FromReadings
<1> HIDE DEF A, r, dir
<1>4. x \in Seq(Books)
  <2>1. SeqsOf(Books, n, f)
    BY <1>2, NaturalTyped DEF SeqsOf
  <2> HIDE DEF f
  <2>2. s \in Seq(Books)
    BY <2>1, Gathered
  <2> HIDE DEF s
  <2>3. Only(s, A) \in Seq(Books)
    BY <2>2, OnlyTyped
  <2> QED
    BY <2>3, FirstTyped
<1>5. y \in Seq(Books)
  <2>1. SeqsOf(Books, n, g)
    BY <1>2, CalibreTyped DEF SeqsOf
  <2> HIDE DEF g
  <2>2. FlattenSeq(g) \in Seq(Books)
    BY <2>1, Gathered
  <2> QED
    BY <2>2, FirstTyped
<1> HIDE DEF x, y, z
<1>6. title \in BookTexts
  <2>1. x # <<>> => x[1].title \in BookTexts
    <3>1. x # <<>> => x[1] \in Books
      BY <1>4, FirstIn
    <3> QED
      BY <3>1 DEF Books
  <2> QED
    BY <2>1 DEF FirstOr
<1>7. y # <<>> => y[1].title \in BookTexts
  <2>1. y # <<>> => y[1] \in Books
    BY <1>5, FirstIn
  <2> QED
    BY <2>1 DEF Books
<1>8. \A a : Named(a).title = title
  OBVIOUS
<1> HIDE DEF Named, title
<1> QED
  BY <1>1, <1>3, <1>6, <1>7, <1>8

(* The title of a description, before and after the washing: the credits   *)
(* are those of names the files are credited to, and of one recovered.     *)
WashedAs(d, names) ==
  /\ d.raw \in BookTexts
  /\ \/ d.title = d.raw
     \/ \E a \in names \cup ToSet(d.recovered) : \E c \in Credits(d.raw, matchTokens(a)) :
          a \in BookTexts /\ d.title = Without(d.raw, c) /\ ~isPlaceholderTitle(d.title)

(* washAuthorAffix takes off one credit of an author, or nothing.          *)
LEMMA WashIsSound ==
  ASSUME NEW t \in BookTexts, NEW l \in Seq(BookTexts), NEW names, ToSet(l) \subseteq names
  PROVE  \/ washAuthorAffix(t, AsSets(l)) = t
         \/ \E a \in names : \E c \in Credits(t, matchTokens(a)) :
              /\ a \in BookTexts /\ washAuthorAffix(t, AsSets(l)) = Without(t, c)
              /\ ~isPlaceholderTitle(washAuthorAffix(t, AsSets(l)))
<1> DEFINE n == Len(l)  sets == AsSets(l)
<1>1. n \in Nat /\ DOMAIN l = 1..n /\ \A k \in 1..n : l[k] \in BookTexts /\ l[k] \in names
  BY DEF ToSet
<1>2. DOMAIN sets = 1..n /\ \A k \in 1..n : sets[k] = matchTokens(l[k])
  BY <1>1 DEF AsSets
<1> HIDE DEF sets, n
<1>3. \A k \in 1..n : IsFiniteSet(sets[k])
  BY <1>1, <1>2, TokensFinite
<1>4. \/ washAuthorAffix(t, sets) = t
      \/ \E k \in 1..n : \E d \in Credits(t, sets[k]) :
           washAuthorAffix(t, sets) = Without(t, d) /\ ~isPlaceholderTitle(Without(t, d))
  BY <1>1, <1>2, <1>3, WashIsOne
<1>5. ASSUME NEW k \in 1..n, NEW d \in Credits(t, sets[k]),
             washAuthorAffix(t, sets) = Without(t, d), ~isPlaceholderTitle(Without(t, d))
      PROVE  \E a \in names : \E c \in Credits(t, matchTokens(a)) :
               /\ a \in BookTexts /\ washAuthorAffix(t, sets) = Without(t, c)
               /\ ~isPlaceholderTitle(washAuthorAffix(t, sets))
  BY <1>1, <1>2, <1>5
<1> QED
  BY <1>4, <1>5 DEF sets

(* So is that of a book.                                                   *)
LEMMA DescribeWashes ==
  ASSUME NEW rs, OnePathEach(ToSet(rs)), ToSet(rs) # {}, NEW ds, OnePathEach(ds),
         NEW table \in Seq(BookTexts)
  PROVE  WashedAs(Describe(rs, ds, table), NamesOf(rs, table))
<1> DEFINE files == Files(rs, ds)  n == Len(files)
           paths == [k \in DOMAIN files |-> PathOf[files[k].path]]
           l == ListsOf(rs, table)
           all == FlattenSeq(l)
           names == Unlike(all)
           known == pickTitle(TitlesOf(rs), TokensOf(rs, table))
           picked == pickAuthors(l)
           r == IF known # <<>> /\ picked # <<>> THEN [title |-> known, author |-> <<>>]
                ELSE FromNames(paths, known, titleFromPath(paths[1]), picked = <<>>)
           d == Describe(rs, ds, table)
           rec == IF r.author = <<>> THEN <<>> ELSE <<r.author>>
<1>1. d = Washed(known, picked, names, r)
  BY DEF Describe, Described, TitlesOf, ListsOf, TokensOf, Unlike
<1>2. /\ d.raw = r.title /\ d.recovered = rec
      /\ d.title = IF picked \o rec = <<>> THEN r.title
                   ELSE washAuthorAffix(r.title, AsSets(names \o rec))
  <2> HIDE DEF known, picked, names, r, d
  <2> QED
    BY <1>1 DEF Washed
<1>3. files \in Seq(Entry) /\ files # <<>>
  <2>1. /\ ByPath(ToSet(rs)) \in Seq(ToSet(rs)) /\ ByPath(ds) \in Seq(ds)
        /\ ToSet(ByPath(ToSet(rs))) = ToSet(rs)
    BY ByPathIs
  <2>2. ToSet(rs) \subseteq Entry /\ ds \subseteq Entry
    BY DEF OnePathEach
  <2>3. ByPath(ToSet(rs)) \in Seq(Entry) /\ ByPath(ds) \in Seq(Entry)
    BY <2>1, <2>2
  <2> DEFINE a == ByPath(ToSet(rs))  b == ByPath(ds)
  <2>4. a \in Seq(Entry) /\ b \in Seq(Entry) /\ ToSet(a) # {}
    BY <2>1, <2>3
  <2> HIDE DEF a, b
  <2>5. a \o b \in Seq(Entry) /\ ToSet(a \o b) = ToSet(a) \cup ToSet(b)
    BY <2>4, ToSetConcat
  <2>6. a \o b # <<>>
    BY <2>4, <2>5 DEF ToSet
  <2> QED
    BY <2>5, <2>6 DEF Files, a, b
<1>4. SoundDescription(d, known, picked)
  BY DescribeSound
<1> HIDE DEF files, d
<1>5. n \in Nat /\ n # 0 /\ DOMAIN files = 1..n /\ \A k \in 1..n : files[k].path \in Path
  <2>1. n \in Nat /\ n # 0 /\ DOMAIN files = 1..n /\ \A k \in 1..n : files[k] \in Entry
    BY <1>3
  <2> QED
    BY <2>1 DEF Entry
<1> HIDE DEF n
<1>6. PathsTyped(n, paths) /\ titleFromPath(paths[1]) \in BookTexts
  <2>1. \A k \in 1..n : PathOf[files[k].path].stem \in BookTexts /\ PathOf[files[k].path].dirs \in Seq(BookTexts)
    BY <1>5, PathKnown
  <2>2. 1 \in 1..n
    BY <1>5
  <2> QED
    BY <1>5, <2>1, <2>2 DEF PathsTyped, titleFromPath
<1>7. known \in BookTexts
  BY VotedOn, KnownTyped
<1>8. l \in Seq(Seq(BookTexts))
  BY VotedOn
<1>9. ToSet(l) = {FileAuthors(x.content, table) : x \in ToSet(rs)}
  BY VotedOn
<1> HIDE DEF l, known, picked, paths
<1>10. all \in Seq(BookTexts) /\ ToSet(all) = NamesOf(rs, table)
  <2>1. all \in Seq(BookTexts) /\ ToSet(all) = UNION {ToSet(l[i]) : i \in DOMAIN l}
    BY <1>8, Flattened
  <2>2. UNION {ToSet(l[i]) : i \in DOMAIN l} = UNION {ToSet(x) : x \in ToSet(l)}
    BY DEF ToSet
  <2> QED
    BY <1>9, <2>1, <2>2 DEF NamesOf
<1> HIDE DEF all
<1>11. names \in Seq(BookTexts) /\ ToSet(names) \subseteq NamesOf(rs, table)
  BY <1>10, UnlikeSet DEF Represents
<1> HIDE DEF names
<1>12. r.title \in BookTexts
  <2> DEFINE need == picked = <<>>
  <2>1. need \in BOOLEAN
    OBVIOUS
  <2> HIDE DEF need
  <2>2. FromNames(paths, known, titleFromPath(paths[1]), need).title \in BookTexts
    BY <1>5, <1>6, <1>7, <2>1, ReadingTitled
  <2> QED
    BY <1>7, <2>2 DEF need
<1> HIDE DEF r
<1>13. rec \in Seq(BookTexts)
  <2>1. rec = <<>> \/ \E a \in BookTexts : rec = <<a>>
    BY <1>2, <1>4 DEF SoundDescription, Names
  <2>2. ASSUME NEW a \in BookTexts PROVE <<a>> \in Seq(BookTexts)
    BY OneOf
  <2>3. <<>> \in Seq(BookTexts)
    OBVIOUS
  <2> HIDE DEF rec
  <2> QED
    BY <2>1, <2>2, <2>3
<1> HIDE DEF rec
<1> DEFINE u == names \o rec
<1>14. u \in Seq(BookTexts) /\ ToSet(u) = ToSet(names) \cup ToSet(rec)
  BY <1>11, <1>13, ToSetConcat
<1> HIDE DEF u
<1>15. ToSet(u) \subseteq NamesOf(rs, table) \cup ToSet(rec)
  BY <1>11, <1>14
<1>16. \/ washAuthorAffix(r.title, AsSets(u)) = r.title
       \/ \E a \in NamesOf(rs, table) \cup ToSet(rec) : \E c \in Credits(r.title, matchTokens(a)) :
            /\ a \in BookTexts /\ washAuthorAffix(r.title, AsSets(u)) = Without(r.title, c)
            /\ ~isPlaceholderTitle(washAuthorAffix(r.title, AsSets(u)))
  BY <1>12, <1>14, <1>15, WashIsSound
<1>17. d.title = r.title \/ d.title = washAuthorAffix(r.title, AsSets(u))
  BY <1>2 DEF u
<1> QED
  BY <1>2, <1>12, <1>16, <1>17 DEF WashedAs, d

(* Washing takes a credit of one of the names off an end of the title.     *)
OneWashed(d, names) ==
  \/ d.title = d.raw
  \/ /\ ~isPlaceholderTitle(d.title)
     /\ \E a \in names, i, j \in 1..Len(d.raw) :
          d.title = SubSeq(d.raw, i, j) /\ OneCredit(d.raw, i, j, a)

(* So it does when the credit is that of an author or of a name.           *)
LEMMA WashedOk ==
  ASSUME NEW d, NEW names, WashedAs(d, names), ToSet(d.recovered) \subseteq d.authors
  PROVE  OneWashed(d, d.authors \cup names)
<1> DEFINE t == d.raw  w == d.title
<1>1. t \in BookTexts
  BY DEF WashedAs
<1>2. CASE w # t
  <2>1. PICK a \in names \cup ToSet(d.recovered) : \E c \in Credits(t, matchTokens(a)) :
          a \in BookTexts /\ w = Without(t, c) /\ ~isPlaceholderTitle(w)
    BY <1>2 DEF WashedAs
  <2>2. PICK c \in Credits(t, matchTokens(a)) :
          a \in BookTexts /\ w = Without(t, c) /\ ~isPlaceholderTitle(w)
    BY <2>1
  <2>3. matchTokens(a) \subseteq WordsIn(a, 1, Len(a))
    BY <2>2, TokensFinite
  <2>4. \E i, j \in 1..Len(t) : w = SubSeq(t, i, j) /\ OneCredit(t, i, j, a)
    <3> HIDE DEF t
    <3> QED
      BY <1>1, <2>2, <2>3, WithoutCredit
  <2>5. a \in d.authors \cup names
    BY <2>1
  <2> HIDE DEF t, w
  <2> QED
    BY <2>2, <2>4, <2>5 DEF OneWashed, t, w
<1> QED
  BY <1>2 DEF OneWashed

(* Who was recovered is one of the authors.                                *)
LEMMA RecoveredJoins ==
  ASSUME NEW d, NEW known, NEW lists \in Seq(Seq(BookTexts)),
         SoundDescription(d, known, pickAuthors(lists))
  PROVE  ToSet(d.recovered) \subseteq d.authors
<1> DEFINE picked == pickAuthors(lists)  rec == d.recovered
<1>1. picked \in Seq(BookTexts)
  <2>1. IF ToSet(lists) \ {<<>>} = {} THEN picked = <<>> ELSE picked \in ToSet(lists) \ {<<>>}
    BY ListIsOneOf
  <2>2. ToSet(lists) \subseteq Seq(BookTexts) /\ <<>> \in Seq(BookTexts)
    BY DEF ToSet
  <2> HIDE DEF picked
  <2> QED
    BY <2>1, <2>2
<1> HIDE DEF picked
<1>2. d.authors = ToSet(picked \o rec) /\ (rec = <<>> \/ \E a \in BookTexts : rec = <<a>>)
  BY DEF SoundDescription, picked, Names
<1> HIDE DEF rec
<1>3. rec \in Seq(BookTexts)
  <2>1. ASSUME NEW a \in BookTexts PROVE <<a>> \in Seq(BookTexts)
    BY OneOf
  <2>2. <<>> \in Seq(BookTexts)
    OBVIOUS
  <2> QED
    BY <1>2, <2>1, <2>2
<1>4. ToSet(picked \o rec) = ToSet(picked) \cup ToSet(rec)
  BY <1>1, <1>3, ToSetConcat
<1> QED
  BY <1>2, <1>4 DEF rec

(* Whatever the title and the names, washing takes one credit of one of    *)
(* them off one end of it, or nothing.                                     *)
THEOREM WashingIsRight == BookSpec => []WashedRight
<1>1. BookInit => WashedRight
  BY DEF BookInit, WashedRight
<1>2. BookInv /\ WashedRight /\ [BookNext]_bookVars => WashedRight'
  <2> SUFFICES ASSUME BookInv, WashedRight, [BookNext]_bookVars PROVE WashedRight'
    OBVIOUS
  <2>1. CASE Consolidate
    <3> DEFINE d == D'  names == NamesOf(rows', authors)
    <3>1. /\ BookInv' /\ OnePathEach(ToSet(rows')) /\ Voted(rows', dups', authors, d)
          /\ \A r \in ToSet(rows') : FileAuthors(r.content, authors') = FileAuthors(r.content, authors)
      BY <2>1, ConsolidateOk
    <3>2. authors \in Seq(BookTexts) /\ rows \in Seq(Entry)
      BY DEF BookInv
    <3>3. d = Describe(rows', dups', authors) /\ rows # <<>> /\ rows' = Canonical(rows, dups)
      BY <2>1 DEF Consolidate, D
    <3>4. ToSet(rows') # {}
      <4>1. DOMAIN rows' = DOMAIN rows
        BY <3>3 DEF Canonical
      <4>2. 1 \in DOMAIN rows
        BY <3>2, <3>3
      <4> QED
        BY <4>1, <4>2 DEF ToSet
    <3>5. OnePathEach(dups')
      BY <3>1 DEF BookInv, OnePathEach
    <3> HIDE DEF d, names
    <3>6. WashedAs(d, names)
      BY <3>1, <3>2, <3>3, <3>4, <3>5, DescribeWashes DEF names
    <3>7. ToSet(d.recovered) \subseteq d.authors
      <4>1. ListsOf(rows', authors) \in Seq(Seq(BookTexts))
        BY <3>1, <3>2, VotedOn
      <4> QED
        BY <3>1, <4>1, RecoveredJoins DEF Voted
    <3>8. names \subseteq ToSet(authors')
      <4>1. authors' \in Seq(BookTexts)
        BY <3>1 DEF BookInv
      <4>2. ASSUME NEW r \in ToSet(rows') PROVE ToSet(FileAuthors(r.content, authors)) \subseteq ToSet(authors')
        <5> DEFINE A == {n \in ToSet(Meta[r.content].authors) :
                           ~isPlaceholderAuthor(n) /\ ~isTitleEcho(n, Meta[r.content].title)}
                   B == authors'
        <5>1. FileAuthors(r.content, authors) = Only(B, A)
          BY <3>1 DEF FileAuthors
        <5> HIDE DEF A, B
        <5>2. ToSet(Only(B, A)) = ToSet(B) \cap A
          BY <4>1, OnlySet DEF B
        <5> QED
          BY <5>1, <5>2 DEF B
      <4> QED
        BY <4>2 DEF names, NamesOf
    <3>9. OneWashed(d, d.authors \cup names)
      BY <3>6, <3>7, WashedOk
    <3> QED
      BY <3>8, <3>9 DEF WashedRight, OneWashed, d
  <2>2. CASE \E p \in Path, c \in Content : CommitFile(p, c)
    <3>1. fresh' = FALSE
      BY <2>2 DEF CommitFile
    <3> QED
      BY <3>1 DEF WashedRight
  <2>3. CASE UNCHANGED bookVars
    <3>1. rows' = rows /\ authors' = authors /\ book' = book /\ fresh' = fresh
      BY <2>3 DEF bookVars
    <3>2. D' = D
      BY <3>1 DEF D
    <3> QED
      BY <3>1, <3>2 DEF WashedRight
  <2> QED
    BY <2>1, <2>2, <2>3 DEF BookNext
<1> QED
  BY <1>1, <1>2, BookInvAlways, PTL DEF BookSpec

(***************************************************************************)
(* The other fields.  Distinct by foldName is a loop too.                  *)
(***************************************************************************)
SpellingLoop(S, s, b) ==
  /\ b \in [0..Len(s) -> Seq(S)]
  /\ b[0] = <<>> /\ Distinct(s, foldName) = b[Len(s)]
  /\ \A k \in 1..Len(s) : b[k] = IF \E i \in DOMAIN b[k-1] : foldName(b[k-1][i]) = foldName(s[k])
                                      THEN b[k-1] ELSE Append(b[k-1], s[k])

(* The removal is such a run.                                              *)
LEMMA SpellingRun ==
  ASSUME NEW S, NEW s \in Seq(S)
  PROVE  \E b : SpellingLoop(S, s, b)
<1> DEFINE n == Len(s)
           W == Seq(S)
           op(w, x) == IF \E i \in DOMAIN w : foldName(w[i]) = foldName(x) THEN w ELSE Append(w, x)
           One(F, t) == IF t = {} THEN <<>> ELSE op(F[t \ {Max(t)}], s[Max(t)])
           g == [k \in 1..n |-> [w \in W |-> op(w, s[k])]]
<1>1. n \in Nat /\ DOMAIN s = 1..n /\ <<>> \in W
  OBVIOUS
<1>2. ASSUME NEW k \in 1..n, NEW w \in W PROVE op(w, s[k]) \in W
  OBVIOUS
<1>3. g \in [1..n -> [W -> W]] /\ \A k \in 1..n, w \in W : g[k][w] = op(w, s[k])
  <2> HIDE DEF op, W
  <2> QED
    BY <1>2
<1> HIDE DEF g, W, op
<1>4. \E F : F = [t \in SUBSET (1..n) |-> One(F, t)]
  <2>1. PICK F \in [SUBSET (1..n) -> W] : FoldsLeft(W, <<>>, n, g, F)
    BY <1>1, <1>3, MaxFold
  <2>2. ASSUME NEW t \in SUBSET (1..n) PROVE F[t] = One(F, t)
    <3>1. CASE t # {}
      <4>1. Max(t) \in 1..n /\ F[t \ {Max(t)}] \in W
        BY <1>1, <3>1, MaxInside
      <4> QED
        BY <1>3, <2>1, <3>1, <4>1 DEF FoldsLeft
    <3> QED
      BY <2>1, <3>1 DEF FoldsLeft
  <2>3. [t \in SUBSET (1..n) |-> F[t]] = [t \in SUBSET (1..n) |-> One(F, t)]
    BY <2>2, Zenon
  <2>4. F = [t \in SUBSET (1..n) |-> F[t]]
    OBVIOUS
  <2> QED
    BY <2>3, <2>4, Zenon
<1> DEFINE H == CHOOSE F : F = [t \in SUBSET (1..n) |-> One(F, t)]
<1>5. H = [t \in SUBSET (1..n) |-> One(H, t)]
  BY <1>4, Zenon
<1>6. Distinct(s, foldName) = H[1..n]
  BY <1>1 DEF Distinct, FoldLeft, MapThenFoldSet, op
<1> HIDE DEF H
<1>7. FoldsLeft(W, <<>>, n, g, H)
  <2>1. H[{}] = <<>>
    BY <1>5
  <2>2. ASSUME NEW t \in SUBSET (1..n), t # {}, H[t \ {Max(t)}] \in W
        PROVE  H[t] = g[Max(t)][H[t \ {Max(t)}]]
    <3>1. H[t] = op(H[t \ {Max(t)}], s[Max(t)]) /\ Max(t) \in 1..n
      BY <1>1, <1>5, <2>2, MaxInside
    <3> QED
      BY <1>3, <2>2, <3>1
  <2> QED
    BY <2>1, <2>2 DEF FoldsLeft
<1>8. PICK b : Loop(W, <<>>, n, g, b) /\ b[n] = H[1..n]
  <2>1. n \in Nat /\ g \in [1..n -> [W -> W]]
    BY <1>1, <1>3
  <2>2. <<>> \in W
    BY <1>1
  <2> HIDE DEF n
  <2> QED
    BY <2>1, <2>2, <1>7, FoldIsLoop
<1>9. b \in [0..n -> W] /\ b[0] = <<>> /\ \A k \in 1..n : b[k] = g[k][b[k-1]]
  BY <1>8 DEF Loop
<1>10. ASSUME NEW k \in 1..n PROVE b[k] = op(b[k-1], s[k])
  <2>0. k - 1 \in 0..n
    BY <1>1
  <2>1. k - 1 \in 0..n /\ b[k-1] \in W
    BY <1>9, <2>0
  <2> QED
    BY <1>3, <1>9, <2>1
<1> QED
  BY <1>6, <1>8, <1>9, <1>10 DEF W, op, SpellingLoop

(* One of each publisher: what differs by its foldName.                    *)
OneSpelling(s) == Distinct(s, foldName)

(* Nothing spelt twice leaves nothing.                                     *)
LEMMA SpellingEmpty == OneSpelling(<<>>) = <<>>
<1>1. <<>> \in Seq({}) /\ Len(<<>>) = 0
  OBVIOUS
<1>2. PICK b : SpellingLoop({}, <<>>, b)
  BY <1>1, SpellingRun
<1> QED
  BY <1>1, <1>2 DEF SpellingLoop, OneSpelling

(* A spelling joins when none of its name is there.                        *)
LEMMA SpellingAppend ==
  ASSUME NEW S, NEW s \in Seq(S), NEW x \in S
  PROVE  /\ OneSpelling(s) \in Seq(S)
         /\ OneSpelling(Append(s, x)) = IF \E y \in ToSet(OneSpelling(s)) : foldName(y) = foldName(x)
                                   THEN OneSpelling(s) ELSE Append(OneSpelling(s), x)
<1> DEFINE n == Len(s)  t == Append(s, x)
<1>1. n \in Nat /\ t \in Seq(S) /\ Len(t) = n + 1 /\ t[n+1] = x /\ \A k \in 1..n : t[k] = s[k]
  OBVIOUS
<1>0. PICK b : SpellingLoop(S, s, b)
  BY SpellingRun
<1>2. /\ b \in [0..n -> Seq(S)] /\ b[0] = <<>> /\ OneSpelling(s) = b[n]
      /\ \A k \in 1..n : b[k] = IF \E i \in DOMAIN b[k-1] : foldName(b[k-1][i]) = foldName(s[k])
                                THEN b[k-1] ELSE Append(b[k-1], s[k])
  BY <1>0 DEF OneSpelling, SpellingLoop
<1> HIDE DEF t
<1>9. PICK c : SpellingLoop(S, t, c)
  BY <1>1, SpellingRun
<1>3. /\ c \in [0..Len(t) -> Seq(S)] /\ c[0] = <<>> /\ OneSpelling(t) = c[Len(t)]
      /\ \A k \in 1..Len(t) : c[k] = IF \E i \in DOMAIN c[k-1] : foldName(c[k-1][i]) = foldName(t[k])
                                     THEN c[k-1] ELSE Append(c[k-1], t[k])
  BY <1>9 DEF OneSpelling, SpellingLoop
<1> HIDE DEF n
<1>4. \A k \in 1..n : b[k-1] = c[k-1] => b[k] = c[k]
  <2>1. \A k \in 1..n : k \in 1..Len(t)
    BY <1>1
  <2> SUFFICES ASSUME NEW k \in 1..n, b[k-1] = c[k-1] PROVE b[k] = c[k]
    OBVIOUS
  <2>2. b[k] = IF \E i \in DOMAIN b[k-1] : foldName(b[k-1][i]) = foldName(s[k])
               THEN b[k-1] ELSE Append(b[k-1], s[k])
    BY <1>2
  <2>3. c[k] = IF \E i \in DOMAIN c[k-1] : foldName(c[k-1][i]) = foldName(t[k])
               THEN c[k-1] ELSE Append(c[k-1], t[k])
    BY <1>3, <2>1
  <2>4. t[k] = s[k]
    BY <1>1
  <2> QED
    BY <2>2, <2>3, <2>4, Zenon
<1>5. b[n] = c[n]
  <2>1. SameSteps(n, b, c)
    BY <1>2, <1>3, <1>4 DEF SameSteps
  <2> QED
    BY <1>1, <2>1, OneRun
<1>6. c[n+1] = IF \E i \in DOMAIN c[n] : foldName(c[n][i]) = foldName(x) THEN c[n] ELSE Append(c[n], x)
  <2>1. n + 1 \in 1..Len(t) /\ (n + 1) - 1 = n
    BY <1>1
  <2> QED
    BY <1>1, <1>3, <2>1
<1>7. b[n] \in Seq(S)
  BY <1>1, <1>2
<1>8. (\E y \in ToSet(c[n]) : foldName(y) = foldName(x)) <=> \E i \in DOMAIN c[n] : foldName(c[n][i]) = foldName(x)
  BY DEF ToSet
<1> QED
  BY <1>1, <1>2, <1>3, <1>5, <1>6, <1>7, <1>8 DEF t

(* It leaves one of each key.                                              *)
OneOfEach(kept, all) ==
  /\ ToSet(kept) \subseteq ToSet(all)
  /\ \A x \in ToSet(all) : \E y \in ToSet(kept) : foldName(y) = foldName(x)
  /\ \A i, j \in DOMAIN kept : foldName(kept[i]) = foldName(kept[j]) => i = j

(* It leaves one spelling of each name.                                    *)
LEMMA SpellingSet ==
  ASSUME NEW S, NEW s \in Seq(S)
  PROVE  OneSpelling(s) \in Seq(S) /\ OneOfEach(OneSpelling(s), s)
<1> DEFINE T == {t \in Seq(S) : OneSpelling(t) \in Seq(S) /\ OneOfEach(OneSpelling(t), t)}
<1>1. <<>> \in T
  <2>1. <<>> \in Seq(S) /\ ToSet(<<>>) = {} /\ DOMAIN <<>> = {}
    BY DEF ToSet
  <2> QED
    BY <2>1, SpellingEmpty DEF OneOfEach
<1>2. ASSUME NEW t \in Seq(S), NEW x \in S, t \in T PROVE Append(t, x) \in T
  <2> DEFINE u == OneSpelling(t)  v == Append(u, x)
  <2>1. /\ Append(t, x) \in Seq(S) /\ u \in Seq(S) /\ v \in Seq(S)
        /\ OneSpelling(Append(t, x)) = IF \E y \in ToSet(u) : foldName(y) = foldName(x) THEN u ELSE v
    BY <1>2, SpellingAppend
  <2>2. ToSet(Append(t, x)) = ToSet(t) \cup {x}
    BY ToSetAppend
  <2>3. OneOfEach(u, t)
    BY <1>2
  <2> HIDE DEF u
  <2>4. ToSet(v) = ToSet(u) \cup {x}
    BY <2>1, ToSetAppend
  <2>5. CASE \E y \in ToSet(u) : foldName(y) = foldName(x)
    BY <2>1, <2>2, <2>3, <2>5 DEF OneOfEach
  <2>6. CASE ~\E y \in ToSet(u) : foldName(y) = foldName(x)
    <3>1. /\ DOMAIN u = 1..Len(u) /\ DOMAIN v = 1..Len(u)+1 /\ Len(u) \in Nat
          /\ v[Len(u)+1] = x /\ \A i \in 1..Len(u) : v[i] = u[i]
      BY <2>1
    <3>2. \A i \in DOMAIN u : foldName(u[i]) # foldName(x)
      BY <2>6 DEF ToSet
    <3>3. \A i \in 1..Len(u)+1 : i \in 1..Len(u) \/ i = Len(u) + 1
      BY <3>1
    <3> HIDE DEF v
    <3>4. ASSUME NEW i \in DOMAIN v, NEW j \in DOMAIN v, foldName(v[i]) = foldName(v[j]) PROVE i = j
      BY <2>3, <3>1, <3>2, <3>3, <3>4 DEF OneOfEach
    <3>5. ToSet(v) \subseteq ToSet(Append(t, x))
      BY <2>2, <2>3, <2>4 DEF OneOfEach
    <3>6. \A z \in ToSet(Append(t, x)) : \E y \in ToSet(v) : foldName(y) = foldName(z)
      BY <2>2, <2>3, <2>4 DEF OneOfEach
    <3> QED
      BY <2>1, <2>6, <3>4, <3>5, <3>6 DEF OneOfEach
  <2> QED
    BY <2>5, <2>6
<1>3. s \in T
  <2> HIDE DEF T
  <2> QED
    BY <1>1, <1>2, BySequence
<1> QED
  BY <1>3

(* A value more leaves a sequence of votes.                                *)
LEMMA ValueTyped ==
  ASSUME NEW S, NEW votes \in Seq([title : S, count : Nat]), NEW l \in S
  PROVE  Value(votes, l) \in Seq([title : S, count : Nat])
<1> DEFINE pos == {k \in DOMAIN votes : foldName(votes[k].title) = foldName(l)}
           V == [title : S, count : Nat]
<1>1. CASE pos = {}
  BY <1>1 DEF Value
<1>2. CASE pos # {}
  <2> DEFINE One(k) == IF k \in pos THEN [votes[k] EXCEPT !.count = @ + 1] ELSE votes[k]
  <2>1. Value(votes, l) = [k \in DOMAIN votes |-> One(k)]
    BY <1>2 DEF Value
  <2>2. DOMAIN votes = 1..Len(votes) /\ Len(votes) \in Nat /\ \A k \in DOMAIN votes : votes[k] \in V
    <3>1. votes \in Seq(V)
      OBVIOUS
    <3> HIDE DEF V
    <3> QED
      BY <3>1
  <2>3. \A k \in DOMAIN votes : One(k) \in V
    BY <2>2
  <2>4. [k \in 1..Len(votes) |-> One(k)] \in Seq(V)
    <3> HIDE DEF One, V
    <3>1. [k \in 1..Len(votes) |-> One(k)] \in [1..Len(votes) -> V]
      BY <2>2, <2>3
    <3>2. Len(votes) \in Nat
      BY <2>2
    <3> QED
      BY <3>1, <3>2, IsSeq
  <2> QED
    BY <2>1, <2>2, <2>4
<1> QED
  BY <1>1, <1>2

(* pickCommonValue counts the values one by one.                           *)
LEMMA ValuesRun ==
  ASSUME NEW S, NEW s \in Seq(S)
  PROVE  \E b \in [0..Len(s) -> Seq([title : S, count : Nat])] :
           /\ b[0] = <<>> /\ FoldLeft(Value, <<>>, s) = b[Len(s)]
           /\ \A k \in 1..Len(s) : b[k] = Value(b[k-1], s[k])
<1> DEFINE n == Len(s)
           W == Seq([title : S, count : Nat])
           op(w, x) == Value(w, x)
           One(F, t) == IF t = {} THEN <<>> ELSE op(F[t \ {Max(t)}], s[Max(t)])
           g == [k \in 1..n |-> [w \in W |-> op(w, s[k])]]
<1>1. n \in Nat /\ DOMAIN s = 1..n /\ <<>> \in W
  OBVIOUS
<1>2. ASSUME NEW k \in 1..n, NEW w \in W PROVE op(w, s[k]) \in W
  <2>1. s[k] \in S
    BY <1>1
  <2> QED
    BY <2>1, ValueTyped
<1>3. g \in [1..n -> [W -> W]] /\ \A k \in 1..n, w \in W : g[k][w] = op(w, s[k])
  <2> HIDE DEF op, W
  <2> QED
    BY <1>2
<1> HIDE DEF g, W, op
<1>4. \E F : F = [t \in SUBSET (1..n) |-> One(F, t)]
  <2>1. PICK F \in [SUBSET (1..n) -> W] : FoldsLeft(W, <<>>, n, g, F)
    BY <1>1, <1>3, MaxFold
  <2>2. ASSUME NEW t \in SUBSET (1..n) PROVE F[t] = One(F, t)
    <3>1. CASE t # {}
      <4>1. Max(t) \in 1..n /\ F[t \ {Max(t)}] \in W
        BY <1>1, <3>1, MaxInside
      <4> QED
        BY <1>3, <2>1, <3>1, <4>1 DEF FoldsLeft
    <3> QED
      BY <2>1, <3>1 DEF FoldsLeft
  <2>3. [t \in SUBSET (1..n) |-> F[t]] = [t \in SUBSET (1..n) |-> One(F, t)]
    BY <2>2, Zenon
  <2>4. F = [t \in SUBSET (1..n) |-> F[t]]
    OBVIOUS
  <2> QED
    BY <2>3, <2>4, Zenon
<1> DEFINE H == CHOOSE F : F = [t \in SUBSET (1..n) |-> One(F, t)]
<1>5. H = [t \in SUBSET (1..n) |-> One(H, t)]
  BY <1>4, Zenon
<1>6. FoldLeft(Value, <<>>, s) = H[1..n]
  BY <1>1 DEF Value, FoldLeft, MapThenFoldSet, op
<1> HIDE DEF H
<1>7. FoldsLeft(W, <<>>, n, g, H)
  <2>1. H[{}] = <<>>
    BY <1>5
  <2>2. ASSUME NEW t \in SUBSET (1..n), t # {}, H[t \ {Max(t)}] \in W
        PROVE  H[t] = g[Max(t)][H[t \ {Max(t)}]]
    <3>1. H[t] = op(H[t \ {Max(t)}], s[Max(t)]) /\ Max(t) \in 1..n
      BY <1>1, <1>5, <2>2, MaxInside
    <3> QED
      BY <1>3, <2>2, <3>1
  <2> QED
    BY <2>1, <2>2 DEF FoldsLeft
<1>8. PICK b : Loop(W, <<>>, n, g, b) /\ b[n] = H[1..n]
  <2>1. n \in Nat /\ g \in [1..n -> [W -> W]]
    BY <1>1, <1>3
  <2>2. <<>> \in W
    BY <1>1
  <2> HIDE DEF n
  <2> QED
    BY <2>1, <2>2, <1>7, FoldIsLoop
<1>9. b \in [0..n -> W] /\ b[0] = <<>> /\ \A k \in 1..n : b[k] = g[k][b[k-1]]
  BY <1>8 DEF Loop
<1>10. ASSUME NEW k \in 1..n PROVE b[k] = op(b[k-1], s[k])
  <2>0. k - 1 \in 0..n
    BY <1>1
  <2>1. k - 1 \in 0..n /\ b[k-1] \in W
    BY <1>9, <2>0
  <2> QED
    BY <1>3, <1>9, <2>1
<1> QED
  BY <1>6, <1>8, <1>9, <1>10 DEF W, op

ValueBeats(v, w, preferLonger) ==
  \/ v.count > w.count
  \/ /\ v.count = w.count /\ preferLonger
     /\ runeLen(v.title) > runeLen(w.title)

(* The best of the votes of pickCommonValue.                               *)
BestValue(votes, preferLonger) ==
  FoldLeft(LAMBDA w, v : IF ValueBeats(v, w, preferLonger) THEN v ELSE w,
           [title |-> <<>>, count |-> 0], votes)

(* Its votes are compared one by one with the best so far.                 *)
BestLoop(S, s, preferLonger, b) ==
  /\ b \in [0..Len(s) -> [title : S, count : Nat]]
  /\ b[0] = [title |-> <<>>, count |-> 0] /\ BestValue(s, preferLonger) = b[Len(s)]
  /\ \A k \in 1..Len(s) : b[k] = IF ValueBeats(s[k], b[k-1], preferLonger) THEN s[k] ELSE b[k-1]

(* It is such a run.                                                       *)
LEMMA BestValueRun ==
  ASSUME NEW S, <<>> \in S, NEW preferLonger, NEW s \in Seq([title : S, count : Nat])
  PROVE  \E b : BestLoop(S, s, preferLonger, b)
<1> DEFINE n == Len(s)
           W == [title : S, count : Nat]
           op(w, x) == IF ValueBeats(x, w, preferLonger) THEN x ELSE w
           One(F, t) == IF t = {} THEN [title |-> <<>>, count |-> 0] ELSE op(F[t \ {Max(t)}], s[Max(t)])
           g == [k \in 1..n |-> [w \in W |-> op(w, s[k])]]
<1>1. n \in Nat /\ DOMAIN s = 1..n /\ [title |-> <<>>, count |-> 0] \in W
  OBVIOUS
<1>2. ASSUME NEW k \in 1..n, NEW w \in W PROVE op(w, s[k]) \in W
  <2>1. s \in Seq(W) /\ DOMAIN s = 1..n
    BY <1>1
  <2> HIDE DEF W
  <2>2. s[k] \in W
    BY <1>1, <2>1
  <2> QED
    BY <2>2
<1>3. g \in [1..n -> [W -> W]] /\ \A k \in 1..n, w \in W : g[k][w] = op(w, s[k])
  <2> HIDE DEF op, W
  <2> QED
    BY <1>2
<1> HIDE DEF g, W, op
<1>4. \E F : F = [t \in SUBSET (1..n) |-> One(F, t)]
  <2>1. PICK F \in [SUBSET (1..n) -> W] : FoldsLeft(W, [title |-> <<>>, count |-> 0], n, g, F)
    BY <1>1, <1>3, MaxFold
  <2>2. ASSUME NEW t \in SUBSET (1..n) PROVE F[t] = One(F, t)
    <3>1. CASE t # {}
      <4>1. Max(t) \in 1..n /\ F[t \ {Max(t)}] \in W
        BY <1>1, <3>1, MaxInside
      <4> QED
        BY <1>3, <2>1, <3>1, <4>1 DEF FoldsLeft
    <3> QED
      BY <2>1, <3>1 DEF FoldsLeft
  <2>3. [t \in SUBSET (1..n) |-> F[t]] = [t \in SUBSET (1..n) |-> One(F, t)]
    BY <2>2, Zenon
  <2>4. F = [t \in SUBSET (1..n) |-> F[t]]
    OBVIOUS
  <2> QED
    BY <2>3, <2>4, Zenon
<1> DEFINE H == CHOOSE F : F = [t \in SUBSET (1..n) |-> One(F, t)]
<1>5. H = [t \in SUBSET (1..n) |-> One(H, t)]
  BY <1>4, Zenon
<1>6. BestValue(s, preferLonger) = H[1..n]
  BY <1>1 DEF BestValue, ValueBeats, FoldLeft, MapThenFoldSet, op
<1> HIDE DEF H
<1>7. FoldsLeft(W, [title |-> <<>>, count |-> 0], n, g, H)
  <2>1. H[{}] = [title |-> <<>>, count |-> 0]
    BY <1>5
  <2>2. ASSUME NEW t \in SUBSET (1..n), t # {}, H[t \ {Max(t)}] \in W
        PROVE  H[t] = g[Max(t)][H[t \ {Max(t)}]]
    <3>1. H[t] = op(H[t \ {Max(t)}], s[Max(t)]) /\ Max(t) \in 1..n
      BY <1>1, <1>5, <2>2, MaxInside
    <3> QED
      BY <1>3, <2>2, <3>1
  <2> QED
    BY <2>1, <2>2 DEF FoldsLeft
<1>8. PICK b : Loop(W, [title |-> <<>>, count |-> 0], n, g, b) /\ b[n] = H[1..n]
  <2>1. n \in Nat /\ g \in [1..n -> [W -> W]]
    BY <1>1, <1>3
  <2>2. [title |-> <<>>, count |-> 0] \in W
    BY <1>1
  <2> HIDE DEF n
  <2> QED
    BY <2>1, <2>2, <1>7, FoldIsLoop
<1>9. b \in [0..n -> W] /\ b[0] = [title |-> <<>>, count |-> 0] /\ \A k \in 1..n : b[k] = g[k][b[k-1]]
  BY <1>8 DEF Loop
<1>10. ASSUME NEW k \in 1..n PROVE b[k] = op(b[k-1], s[k])
  <2>0. k - 1 \in 0..n
    BY <1>1
  <2>1. k - 1 \in 0..n /\ b[k-1] \in W
    BY <1>9, <2>0
  <2> QED
    BY <1>3, <1>9, <2>1
<1> QED
  BY <1>6, <1>8, <1>9, <1>10 DEF W, op, BestLoop

(* pickCommonValue finds a value there is, or none.                        *)
LEMMA CommonIsOne ==
  ASSUME NEW S, NEW values \in Seq(S), NEW preferLonger
  PROVE  pickCommonValue(values, preferLonger) = <<>>
           \/ pickCommonValue(values, preferLonger) \in ToSet(values)
<1> DEFINE t == Only(values, ToSet(values) \ {<<>>})  A == ToSet(values) \cup {<<>>}
           W == [title : A, count : Nat]
<1>1. pickCommonValue(values, preferLonger) = BestValue(FoldLeft(Value, <<>>, t), preferLonger).title
  BY Zenon DEF pickCommonValue, BestValue, ValueBeats
<1>2. t \in Seq(A)
  <2> DEFINE X == ToSet(values) \ {<<>>}
  <2>0. X \subseteq A
    OBVIOUS
  <2> HIDE DEF X, A
  <2>1. Only(values, X) \in Seq(S) /\ ToSet(Only(values, X)) = ToSet(values) \cap X
    BY OnlySet
  <2>2. ToSet(Only(values, X)) \subseteq A
    BY <2>0, <2>1
  <2>3. Only(values, X) \in Seq(A)
    BY <2>1, <2>2, SeqNarrow
  <2> QED
    BY <2>3 DEF X
<1>3. <<>> \in A
  OBVIOUS
<1> HIDE DEF t, A
<1> DEFINE n == Len(t)  votes == FoldLeft(Value, <<>>, t)  m == Len(votes)
<1>4. PICK b \in [0..n -> Seq(W)] : votes = b[n]
  BY <1>2, ValuesRun
<1>5. n \in Nat /\ n \in 0..n
  BY <1>2
<1> HIDE DEF W
<1>6. votes \in Seq(W)
  BY <1>4, <1>5
<1> HIDE DEF votes
<1>7. PICK c \in [0..m -> W] : BestValue(votes, preferLonger) = c[m]
  <2>1. votes \in Seq([title : A, count : Nat])
    BY <1>6 DEF W
  <2>2. \E c : BestLoop(A, votes, preferLonger, c)
    BY <1>3, <2>1, BestValueRun
  <2> QED
    BY <2>2 DEF W, BestLoop
<1>8. m \in Nat /\ m \in 0..m
  BY <1>6
<1>9. BestValue(votes, preferLonger) \in W
  BY <1>7, <1>8
<1>10. BestValue(votes, preferLonger).title \in A
  BY <1>9 DEF W
<1> QED
  BY <1>1, <1>10 DEF votes, A

(* What is read off the elements of a sequence, one by one.                *)
Reads(g, s, h) == g = [k \in DOMAIN s |-> g[k]] /\ \A k \in DOMAIN s : g[k] = h[s[k]]

(* It has what is read off each of the elements.                           *)
LEMMA ReadOff ==
  ASSUME NEW S, NEW s \in Seq(S), NEW E, NEW h \in [S -> E], NEW g, Reads(g, s, h)
  PROVE  g \in Seq(E) /\ DOMAIN g = DOMAIN s /\ ToSet(g) = {h[x] : x \in ToSet(s)}
<1> DEFINE n == Len(s)
<1>1. n \in Nat /\ DOMAIN s = 1..n /\ \A k \in 1..n : s[k] \in S
  OBVIOUS
<1> HIDE DEF n
<1>2. g = [k \in 1..n |-> g[k]] /\ \A k \in 1..n : g[k] = h[s[k]]
  BY <1>1 DEF Reads
<1>3. g \in [1..n -> E]
  BY <1>1, <1>2
<1>4. g \in Seq(E) /\ DOMAIN g = 1..n
  BY <1>1, <1>3, IsSeq
<1> QED
  BY <1>1, <1>2, <1>4 DEF ToSet

(* As many elements as places, when nothing is there twice.                *)
LEMMA OnceCounts ==
  ASSUME NEW S, NEW s \in Seq(S), NoTwice(s)
  PROVE  IsFiniteSet(ToSet(s)) /\ Cardinality(ToSet(s)) = Len(s)
<1> DEFINE T == {t \in Seq(S) : NoTwice(t) => IsFiniteSet(ToSet(t)) /\ Cardinality(ToSet(t)) = Len(t)}
<1>1. <<>> \in T
  <2>1. <<>> \in Seq(S) /\ ToSet(<<>>) = {} /\ Len(<<>>) = 0
    BY DEF ToSet
  <2> QED
    BY <2>1, FS_EmptySet
<1>2. ASSUME NEW t \in Seq(S), NEW x \in S, t \in T PROVE Append(t, x) \in T
  <2>1. Append(t, x) \in Seq(S) /\ Len(Append(t, x)) = Len(t) + 1 /\ Len(t) \in Nat
    OBVIOUS
  <2>2. ToSet(Append(t, x)) = ToSet(t) \cup {x}
    BY ToSetAppend
  <2>3. NoTwice(Append(t, x)) <=> NoTwice(t) /\ x \notin ToSet(t)
    BY NoTwiceAppend
  <2> SUFFICES ASSUME NoTwice(Append(t, x))
               PROVE  IsFiniteSet(ToSet(Append(t, x))) /\ Cardinality(ToSet(Append(t, x))) = Len(Append(t, x))
    BY <2>1
  <2>4. IsFiniteSet(ToSet(t)) /\ Cardinality(ToSet(t)) = Len(t)
    BY <1>2, <2>3
  <2>5. IsFiniteSet(ToSet(t) \cup {x}) /\ Cardinality(ToSet(t) \cup {x}) = Cardinality(ToSet(t)) + 1
    BY <2>3, <2>4, FS_AddElement
  <2> QED
    BY <2>1, <2>2, <2>4, <2>5
<1>3. s \in T
  <2> HIDE DEF T
  <2> QED
    BY <1>1, <1>2, BySequence
<1> QED
  BY <1>3

(* The valid dates of a publisher, spelt in whatever way.                  *)
SameHouse(F, p) == {f \in F : foldName(f.publisher) = foldName(p)}
DatesOf(F, p) == {normalizePublicationDate(f.date) : f \in SameHouse(F, p)} \ {""}

(* Each of them once.                                                      *)
LEMMA DatesFound ==
  ASSUME NEW S, NEW s \in Seq(S), NEW p
  PROVE  /\ Dates(s, p) \in Seq(DatesOf(ToSet(s), p))
         /\ ToSet(Dates(s, p)) = DatesOf(ToSet(s), p) /\ NoTwice(Dates(s, p))
<1> DEFINE of == Only(s, SameHouse(ToSet(s), p))
           dates == [k \in DOMAIN of |-> normalizePublicationDate(of[k].date)]
           valid == Only(dates, ToSet(dates) \ {""})
           E == {normalizePublicationDate(f.date) : f \in S}
           h == [f \in S |-> normalizePublicationDate(f.date)]
<1>1. Dates(s, p) = Once(valid)
  BY DEF Dates, Once, SameHouse
<1>2. of \in Seq(S) /\ ToSet(of) = SameHouse(ToSet(s), p)
  <2> DEFINE A == SameHouse(ToSet(s), p)
  <2>1. A \subseteq ToSet(s)
    BY DEF SameHouse
  <2> HIDE DEF A
  <2>2. Only(s, A) \in Seq(S) /\ ToSet(Only(s, A)) = ToSet(s) \cap A
    BY OnlySet
  <2> QED
    BY <2>1, <2>2 DEF A
<1> HIDE DEF of
<1>3. h \in [S -> E] /\ \A f \in S : h[f] = normalizePublicationDate(f.date)
  OBVIOUS
<1>4. \A k \in DOMAIN of : of[k] \in S
  BY <1>2
<1>5. Reads(dates, of, h)
  BY <1>3, <1>4 DEF Reads
<1>6. ToSet(of) \subseteq S
  BY <1>4 DEF ToSet
<1> HIDE DEF dates, h, E
<1>7. dates \in Seq(E) /\ ToSet(dates) = {h[x] : x \in ToSet(of)}
  BY <1>2, <1>3, <1>5, ReadOff
<1>8. {h[x] : x \in ToSet(of)} = {normalizePublicationDate(f.date) : f \in SameHouse(ToSet(s), p)}
  BY <1>2, <1>3, <1>6
<1>9. valid \in Seq(E) /\ ToSet(valid) = ToSet(dates) \ {""}
  <2> DEFINE A == ToSet(dates) \ {""}
  <2>1. A \subseteq ToSet(dates)
    OBVIOUS
  <2> HIDE DEF A
  <2>2. Only(dates, A) \in Seq(E) /\ ToSet(Only(dates, A)) = ToSet(dates) \cap A
    BY <1>7, OnlySet
  <2> QED
    BY <2>1, <2>2 DEF A
<1> HIDE DEF valid
<1>10. Once(valid) \in Seq(E) /\ ToSet(Once(valid)) = ToSet(valid) /\ NoTwice(Once(valid))
  BY <1>9, OnceSet
<1>11. ToSet(valid) = DatesOf(ToSet(s), p)
  BY <1>7, <1>8, <1>9 DEF DatesOf
<1>12. Once(valid) \in Seq(ToSet(valid))
  BY <1>10, SeqNarrow
<1> QED
  BY <1>1, <1>10, <1>11, <1>12

(* The publications of one publisher: with each of its dates, or alone.    *)
Issues(s, p) ==
  LET dates == Dates(s, p) IN
  IF dates # <<>> THEN [k \in DOMAIN dates |-> [publisher |-> p, date |-> dates[k]]]
  ELSE IF p # <<>> THEN <<[publisher |-> p, date |-> ""]>> ELSE <<>>

(* What they are, as a set.                                                *)
IssuesOf(F, p) ==
  {[publisher |-> p, date |-> d] :
     d \in DatesOf(F, p) \cup (IF DatesOf(F, p) = {} /\ p # <<>> THEN {""} ELSE {})}

(* They are of the publisher, at a date.                                   *)
LEMMA IssuesName ==
  ASSUME NEW F, NEW p
  PROVE  \A x \in IssuesOf(F, p) :
           /\ x.publisher = p
           /\ x.date \in DatesOf(F, p) \/ (x.date = "" /\ DatesOf(F, p) = {} /\ p # <<>>)
<1> DEFINE B == DatesOf(F, p) \cup (IF DatesOf(F, p) = {} /\ p # <<>> THEN {""} ELSE {})
<1>1. IssuesOf(F, p) = {[publisher |-> p, date |-> d] : d \in B}
  BY DEF IssuesOf
<1>2. ASSUME NEW x \in IssuesOf(F, p) PROVE x.publisher = p /\ x.date \in B
  <2> HIDE DEF B
  <2>1. PICK d \in B : x = [publisher |-> p, date |-> d]
    BY <1>1
  <2> QED
    BY <2>1
<1> QED
  BY <1>2

(* They are found, and once.                                               *)
LEMMA IssuesFound ==
  ASSUME NEW S, NEW s \in Seq(S), NEW p
  PROVE  /\ Issues(s, p) \in Seq(IssuesOf(ToSet(s), p))
         /\ ToSet(Issues(s, p)) = IssuesOf(ToSet(s), p) /\ NoTwice(Issues(s, p))
<1> DEFINE dates == Dates(s, p)  B == DatesOf(ToSet(s), p)  I == IssuesOf(ToSet(s), p)
           told == [k \in DOMAIN dates |-> [publisher |-> p, date |-> dates[k]]]
           h == [d \in B |-> [publisher |-> p, date |-> d]]
<1>1. dates \in Seq(B) /\ ToSet(dates) = B /\ NoTwice(dates)
  BY DatesFound
<1> HIDE DEF dates, B
<1>2. CASE dates # <<>>
  <2>1. B # {}
    <3>1. dates[1] \in B
      BY <1>1, <1>2, FirstIn
    <3> QED
      BY <3>1
  <2>2. I = {[publisher |-> p, date |-> d] : d \in B}
    BY <2>1 DEF IssuesOf, B
  <2>3. h \in [B -> I] /\ \A d \in B : h[d] = [publisher |-> p, date |-> d]
    <3> HIDE DEF I
    <3> QED
      BY <2>2
  <2>4. Reads(told, dates, h)
    <3>1. \A k \in DOMAIN dates : dates[k] \in B
      BY <1>1
    <3> QED
      BY <2>3, <3>1 DEF Reads
  <2>5. Issues(s, p) = told
    BY <1>2 DEF Issues, dates
  <2>6. NoTwice(told)
    <3> SUFFICES ASSUME NEW i \in DOMAIN told, NEW j \in DOMAIN told, told[i] = told[j] PROVE i = j
      BY DEF NoTwice
    <3>1. told[i].date = dates[i] /\ told[j].date = dates[j]
      OBVIOUS
    <3>2. dates[i] = dates[j]
      BY <3>1
    <3> QED
      BY <1>1, <3>2 DEF NoTwice
  <2> HIDE DEF told, h, I
  <2>7. told \in Seq(I) /\ ToSet(told) = {h[x] : x \in ToSet(dates)}
    <3>1. h \in [B -> I] /\ dates \in Seq(B)
      BY <1>1, <2>3
    <3> QED
      BY <2>4, <3>1, ReadOff
  <2>8. {h[x] : x \in ToSet(dates)} = I
    BY <1>1, <2>2, <2>3
  <2> QED
    BY <2>5, <2>6, <2>7, <2>8 DEF I
<1>3. CASE dates = <<>>
  <2>1. B = {}
    BY <1>1, <1>3 DEF ToSet
  <2>2. CASE p # <<>>
    <3> DEFINE x == [publisher |-> p, date |-> ""]
    <3>1. I = {x}
      BY <2>1, <2>2 DEF IssuesOf, B
    <3>2. Issues(s, p) = <<x>>
      BY <1>3, <2>2 DEF Issues, dates
    <3> HIDE DEF x, I
    <3>3. <<x>> \in Seq(I) /\ ToSet(<<x>>) = {x} /\ NoTwice(<<x>>)
      BY <3>1 DEF ToSet, NoTwice
    <3> QED
      BY <3>1, <3>2, <3>3 DEF I
  <2>3. CASE p = <<>>
    <3>1. I = {}
      BY <2>1, <2>3 DEF IssuesOf, B
    <3>2. Issues(s, p) = <<>>
      BY <1>3, <2>3 DEF Issues, dates
    <3> HIDE DEF I
    <3>3. <<>> \in Seq(I) /\ ToSet(<<>>) = {} /\ NoTwice(<<>>)
      BY DEF ToSet, NoTwice
    <3> QED
      BY <3>1, <3>2, <3>3 DEF I
  <2> QED
    BY <2>2, <2>3
<1> QED
  BY <1>2, <1>3

(* The files that tell of a publication.                                   *)
Tells(F) == {f \in F : f.publisher # <<>> \/ normalizePublicationDate(f.date) # ""}

(* The publishers are those of the files that tell, each in one spelling.  *)
Houses(F, pubs) ==
  /\ \A i \in DOMAIN pubs : \E f \in Tells(F) : pubs[i] = f.publisher
  /\ \A f \in Tells(F) : \E i \in DOMAIN pubs : foldName(pubs[i]) = foldName(f.publisher)
  /\ \A i, j \in DOMAIN pubs : foldName(pubs[i]) = foldName(pubs[j]) => i = j

(* mergePublications lists the publications of each publisher in turn.     *)
LEMMA Published ==
  ASSUME NEW S, NEW s \in Seq(S)
  PROVE  \E R : \E pubs \in Seq(R) :
           /\ Houses(ToSet(s), pubs)
           /\ mergePublications(s) = FlattenSeq([k \in DOMAIN pubs |-> Issues(s, pubs[k])])
<1> DEFINE A == Tells(ToSet(s))  told == Only(s, A)
           R == {f.publisher : f \in S}
           names == [k \in DOMAIN told |-> told[k].publisher]
           h == [f \in S |-> f.publisher]
           pubs == OneSpelling(names)
<1>1. mergePublications(s) = FlattenSeq([k \in DOMAIN pubs |-> Issues(s, pubs[k])])
  BY DEF mergePublications, OneSpelling, Tells, Issues
<1>2. A \subseteq ToSet(s)
  BY DEF Tells
<1> HIDE DEF A
<1>3. told \in Seq(S) /\ ToSet(told) = A
  <2>1. Only(s, A) \in Seq(S) /\ ToSet(Only(s, A)) = ToSet(s) \cap A
    BY OnlySet
  <2> QED
    BY <1>2, <2>1
<1> HIDE DEF told
<1>4. h \in [S -> R] /\ \A f \in S : h[f] = f.publisher
  OBVIOUS
<1>5. \A k \in DOMAIN told : told[k] \in S
  BY <1>3
<1>6. Reads(names, told, h)
  BY <1>4, <1>5 DEF Reads
<1>7. A \subseteq S
  BY <1>3, <1>5 DEF ToSet
<1> HIDE DEF names, h, R
<1>8. names \in Seq(R) /\ ToSet(names) = {h[x] : x \in ToSet(told)}
  <2>1. h \in [S -> R]
    BY <1>4
  <2> QED
    BY <1>3, <1>6, <2>1, ReadOff
<1>9. ToSet(names) = {f.publisher : f \in A}
  BY <1>3, <1>4, <1>7, <1>8
<1>10. pubs \in Seq(R) /\ OneOfEach(pubs, names)
  BY <1>8, SpellingSet
<1> HIDE DEF pubs
<1>11. Houses(ToSet(s), pubs)
  <2>1. \A i \in DOMAIN pubs : \E f \in A : pubs[i] = f.publisher
    <3>1. \A i \in DOMAIN pubs : pubs[i] \in ToSet(pubs)
      BY DEF ToSet
    <3> QED
      BY <1>9, <1>10, <3>1 DEF OneOfEach
  <2>2. \A f \in A : \E i \in DOMAIN pubs : foldName(pubs[i]) = foldName(f.publisher)
    <3> SUFFICES ASSUME NEW f \in A PROVE \E i \in DOMAIN pubs : foldName(pubs[i]) = foldName(f.publisher)
      OBVIOUS
    <3>1. f.publisher \in ToSet(names)
      BY <1>9
    <3>2. PICK y \in ToSet(pubs) : foldName(y) = foldName(f.publisher)
      BY <1>10, <3>1 DEF OneOfEach
    <3> QED
      BY <3>2 DEF ToSet
  <2>3. \A i, j \in DOMAIN pubs : foldName(pubs[i]) = foldName(pubs[j]) => i = j
    BY <1>10 DEF OneOfEach
  <2> QED
    BY <2>1, <2>2, <2>3 DEF Houses, A
<1> QED
  BY <1>1, <1>10, <1>11

(* None is lost, none is there twice.                                      *)
Publications(F, m) ==
  /\ {<<foldName(p.publisher), p.date>> : p \in ToSet(m)} =
       {<<foldName(f.publisher), normalizePublicationDate(f.date)>> :
          f \in {g \in F : \/ normalizePublicationDate(g.date) # ""
                           \/ g.publisher # <<>> /\ DatesOf(F, g.publisher) = {}}}
  /\ Cardinality(ToSet(m)) = Len(m)

(* mergePublications keeps the publications of the files.                  *)
LEMMA PublicationsKept ==
  ASSUME NEW S, NEW s \in Seq(S)
  PROVE  Publications(ToSet(s), mergePublications(s))
<1> DEFINE F == ToSet(s)  m == mergePublications(s)
<1>0. PICK R : \E pubs \in Seq(R) : /\ Houses(F, pubs)
              /\ m = FlattenSeq([k \in DOMAIN pubs |-> Issues(s, pubs[k])])
  BY Published
<1>1. PICK pubs \in Seq(R) : /\ Houses(F, pubs)
              /\ m = FlattenSeq([k \in DOMAIN pubs |-> Issues(s, pubs[k])])
  BY <1>0
<1> DEFINE n == Len(pubs)  ss == [k \in DOMAIN pubs |-> Issues(s, pubs[k])]
           I == UNION {IssuesOf(F, pubs[k]) : k \in 1..n}  W == Seq(I)
<1>2. n \in Nat /\ DOMAIN pubs = 1..n
  BY <1>1
<1>3. \A k \in 1..n : /\ Issues(s, pubs[k]) \in Seq(IssuesOf(F, pubs[k]))
                      /\ ToSet(Issues(s, pubs[k])) = IssuesOf(F, pubs[k])
                      /\ NoTwice(Issues(s, pubs[k]))
  BY IssuesFound
<1> HIDE DEF n, F
<1>4. \A k \in 1..n : Issues(s, pubs[k]) \in W
  <2> TAKE k \in 1..n
  <2>1. ToSet(Issues(s, pubs[k])) \subseteq I
    BY <1>3
  <2> HIDE DEF I
  <2> QED
    BY <1>3, <2>1, SeqNarrow
<1> HIDE DEF W
<1>5. ss \in [1..n -> W]
  BY <1>2, <1>4
<1>6. ss \in Seq(W) /\ DOMAIN ss = 1..n /\ \A k \in 1..n : ss[k] = Issues(s, pubs[k])
  BY <1>2, <1>5, IsSeq
<1>7. m = FlattenSeq(ss)
  BY <1>1
<1> HIDE DEF ss, m
<1>8. \A i, j \in 1..n : i # j => ToSet(ss[i]) \cap ToSet(ss[j]) = {}
  <2> SUFFICES ASSUME NEW i \in 1..n, NEW j \in 1..n, i # j
               PROVE  ToSet(ss[i]) \cap ToSet(ss[j]) = {}
    OBVIOUS
  <2>1. pubs[i] # pubs[j]
    BY <1>1, <1>2 DEF Houses
  <2>2. \A x \in IssuesOf(F, pubs[i]) : x.publisher = pubs[i]
    BY IssuesName
  <2>3. \A x \in IssuesOf(F, pubs[j]) : x.publisher = pubs[j]
    BY IssuesName
  <2> QED
    BY <1>3, <1>6, <2>1, <2>2, <2>3
<1>9. m \in Seq(I) /\ ToSet(m) = UNION {ToSet(ss[i]) : i \in DOMAIN ss} /\ NoTwice(m)
  <2>1. ss \in Seq(Seq(I)) /\ \A i \in DOMAIN ss : NoTwice(ss[i])
    BY <1>3, <1>6 DEF W
  <2>2. \A i, j \in DOMAIN ss : i # j => ToSet(ss[i]) \cap ToSet(ss[j]) = {}
    BY <1>6, <1>8
  <2> HIDE DEF I
  <2> QED
    BY <1>7, <2>1, <2>2, Flattened, FlattenOnce
<1>10. ToSet(m) = I
  BY <1>3, <1>6, <1>9
<1>11. Cardinality(ToSet(m)) = Len(m)
  <2> HIDE DEF I
  <2> QED
    BY <1>9, OnceCounts
<1> DEFINE Left == {<<foldName(p.publisher), p.date>> : p \in I}
           Told == {g \in F : \/ normalizePublicationDate(g.date) # ""
                              \/ g.publisher # <<>> /\ DatesOf(F, g.publisher) = {}}
           Right == {<<foldName(f.publisher), normalizePublicationDate(f.date)>> : f \in Told}
<1>12. ASSUME NEW f \in Told PROVE <<foldName(f.publisher), normalizePublicationDate(f.date)>> \in Left
  <2> DEFINE d == normalizePublicationDate(f.date)
  <2>1. f \in Tells(F)
    BY DEF Tells
  <2>2. PICK i \in 1..n : foldName(pubs[i]) = foldName(f.publisher)
    BY <1>1, <1>2, <2>1 DEF Houses
  <2>3. DatesOf(F, pubs[i]) = DatesOf(F, f.publisher)
    BY <2>2 DEF DatesOf, SameHouse
  <2>4. d # "" => d \in DatesOf(F, f.publisher)
    BY DEF DatesOf, SameHouse
  <2>5. PICK g \in Tells(F) : pubs[i] = g.publisher
    BY <1>1, <1>2 DEF Houses
  <2>6. normalizePublicationDate(g.date) # "" => normalizePublicationDate(g.date) \in DatesOf(F, pubs[i])
    BY <2>5 DEF DatesOf, SameHouse, Tells
  <2>7. [publisher |-> pubs[i], date |-> d] \in IssuesOf(F, pubs[i])
    <3>1. d \in DatesOf(F, pubs[i]) \/ (d = "" /\ DatesOf(F, pubs[i]) = {} /\ pubs[i] # <<>>)
      BY <2>3, <2>4, <2>5, <2>6 DEF Tells
    <3> QED
      BY <3>1 DEF IssuesOf
  <2> DEFINE x == [publisher |-> pubs[i], date |-> d]
  <2>8. x \in I /\ x.publisher = pubs[i] /\ x.date = d
    BY <2>7
  <2> HIDE DEF x, I
  <2> QED
    BY <2>2, <2>8
<1>13. ASSUME NEW p \in I PROVE <<foldName(p.publisher), p.date>> \in Right
  <2>1. PICK i \in 1..n : p \in IssuesOf(F, pubs[i])
    OBVIOUS
  <2> DEFINE d == p.date
  <2>2. /\ p.publisher = pubs[i]
        /\ d \in DatesOf(F, pubs[i]) \/ (d = "" /\ DatesOf(F, pubs[i]) = {} /\ pubs[i] # <<>>)
    BY <2>1, IssuesName
  <2>3. p.publisher = pubs[i] /\ p.date = d
    BY <2>2
  <2> HIDE DEF d
  <2>4. CASE d \in DatesOf(F, pubs[i])
    <3>1. PICK f \in SameHouse(F, pubs[i]) : d = normalizePublicationDate(f.date) /\ d # ""
      BY <2>4 DEF DatesOf
    <3>2. f \in F /\ foldName(f.publisher) = foldName(pubs[i])
      BY DEF SameHouse
    <3>3. normalizePublicationDate(f.date) # ""
      BY <3>1, Zenon
    <3>4. f \in Told
      BY <3>2, <3>3, Zenon
    <3> HIDE DEF Told, I
    <3> QED
      BY <2>3, <3>1, <3>2, <3>4
  <2>5. CASE d \notin DatesOf(F, pubs[i])
    <3>1. d = "" /\ DatesOf(F, pubs[i]) = {} /\ pubs[i] # <<>>
      BY <2>2, <2>5
    <3>2. PICK g \in Tells(F) : pubs[i] = g.publisher
      BY <1>1, <1>2 DEF Houses
    <3>3. normalizePublicationDate(g.date) # "" => normalizePublicationDate(g.date) \in DatesOf(F, pubs[i])
      BY <3>2 DEF DatesOf, SameHouse, Tells
    <3>4. g \in Told /\ normalizePublicationDate(g.date) = d
      BY <3>1, <3>2, <3>3 DEF Tells
    <3> HIDE DEF Told, I
    <3> QED
      BY <2>3, <3>2, <3>4
  <2> QED
    BY <2>4, <2>5
<1>14. Left = Right
  <2>1. Right \subseteq Left
    <3> HIDE DEF Left, Told
    <3> QED
      BY <1>12
  <2>2. Left \subseteq Right
    <3> HIDE DEF Right, I
    <3> QED
      BY <1>13
  <2> QED
    BY <2>1, <2>2
<1>15. {<<foldName(p.publisher), p.date>> : p \in ToSet(m)} = Right
  BY <1>10, <1>14, Zenon
<1>16. Publications(F, m)
  BY <1>11, <1>15 DEF Publications
<1> QED
  BY <1>16 DEF F, m

(* The index is one that a file has with the series.                       *)
LEMMA IndexKept ==
  ASSUME NEW S, NEW s \in Seq(S), NEW series
  PROVE  LET index == pickSeriesIndex(s, series)
         IN index # <<>> => \E f \in ToSet(s) : /\ foldName(f.series) = foldName(series)
                                                /\ foldName(f.index) = foldName(index)
<1> DEFINE A == {f \in ToSet(s) : foldName(f.series) = foldName(series)}
           told == Only(s, A)  found == [k \in DOMAIN told |-> told[k].index]
           R == {f.index : f \in S}  h == [f \in S |-> f.index]
           index == pickSeriesIndex(s, series)
<1> SUFFICES ASSUME index # <<>>
             PROVE  \E f \in ToSet(s) : foldName(f.series) = foldName(series) /\ foldName(f.index) = foldName(index)
  OBVIOUS
<1>1. index = pickCommonValue(found, FALSE)
  BY DEF pickSeriesIndex
<1>2. told \in Seq(S) /\ ToSet(told) = A
  <2>1. A \subseteq ToSet(s)
    OBVIOUS
  <2> HIDE DEF A
  <2>2. Only(s, A) \in Seq(S) /\ ToSet(Only(s, A)) = ToSet(s) \cap A
    BY OnlySet
  <2> QED
    BY <2>1, <2>2
<1> HIDE DEF A, told
<1>3. h \in [S -> R] /\ \A f \in S : h[f] = f.index
  OBVIOUS
<1>4. \A k \in DOMAIN told : told[k] \in S
  BY <1>2
<1>5. Reads(found, told, h)
  BY <1>3, <1>4 DEF Reads
<1> HIDE DEF found, h, R, index
<1>6. found \in Seq(R) /\ ToSet(found) = {h[x] : x \in ToSet(told)}
  <2>1. h \in [S -> R]
    BY <1>3
  <2> QED
    BY <1>2, <1>5, <2>1, ReadOff
<1>7. index \in ToSet(found)
  BY <1>1, <1>6, CommonIsOne
<1>8. PICK f \in A : index = h[f]
  BY <1>2, <1>6, <1>7
<1>9. f \in S
  BY <1>2, <1>4, <1>8 DEF ToSet
<1>10. index = f.index
  BY <1>3, <1>8, <1>9
<1>11. f \in ToSet(s) /\ foldName(f.series) = foldName(series)
  BY <1>8 DEF A
<1> QED
  BY <1>10, <1>11, Zenon

(* What Consolidate merges: the metadata of the files by path.             *)
Metas(rs) == LET sorted == ByPath(ToSet(rs)) IN [k \in DOMAIN sorted |-> Meta[sorted[k].content]]

(* It is the metadata of the rows.                                         *)
LEMMA MetasOf ==
  ASSUME NEW rs, OnePathEach(ToSet(rs))
  PROVE  \E S : Metas(rs) \in Seq(S) /\ ToSet(Metas(rs)) = {Meta[r.content] : r \in ToSet(rs)}
<1> DEFINE set == ToSet(rs)  sorted == ByPath(set)  R == {Meta[r.content] : r \in set}
           h == [r \in set |-> Meta[r.content]]
<1>1. sorted \in Seq(set) /\ ToSet(sorted) = set
  BY ByPathIs
<1>2. h \in [set -> R] /\ \A r \in set : h[r] = Meta[r.content]
  OBVIOUS
<1>3. Reads(Metas(rs), sorted, h)
  <2>1. \A k \in DOMAIN sorted : sorted[k] \in set
    BY <1>1
  <2> QED
    BY <1>2, <2>1 DEF Reads, Metas
<1>4. {h[x] : x \in set} = R
  BY <1>2
<1> HIDE DEF h, R, sorted, set
<1>5. Metas(rs) \in Seq(R) /\ ToSet(Metas(rs)) = {h[x] : x \in ToSet(sorted)}
  <2> DEFINE read == Metas(rs)
  <2>1. h \in [set -> R]
    BY <1>2
  <2>2. Reads(read, sorted, h) /\ sorted \in Seq(set)
    BY <1>1, <1>3
  <2> HIDE DEF read
  <2>3. read \in Seq(R) /\ ToSet(read) = {h[x] : x \in ToSet(sorted)}
    BY <2>1, <2>2, ReadOff
  <2> QED
    BY <2>3 DEF read
<1>6. ToSet(Metas(rs)) = R
  BY <1>1, <1>4, <1>5
<1> QED
  BY <1>5, <1>6 DEF R, set

(* The merging of rows is right.                                           *)
MergeOk(F, m) ==
  /\ m.index # <<>> => \E f \in F : /\ foldName(f.series) = foldName(m.series)
                                    /\ foldName(f.index) = foldName(m.index)
  /\ Publications(F, m.publications)

(* Merge is right about the files it merges.                               *)
LEMMA MergeKeeps ==
  ASSUME NEW rs, OnePathEach(ToSet(rs))
  PROVE  MergeOk({Meta[r.content] : r \in ToSet(rs)}, Merge(rs))
<1> DEFINE s == Metas(rs)  m == Merge(rs)  F == {Meta[r.content] : r \in ToSet(rs)}
<1>1. m.index = pickSeriesIndex(s, m.series) /\ m.publications = mergePublications(s)
  BY DEF Merge, Metas
<1> HIDE DEF s, m, F
<1>2. PICK S : s \in Seq(S) /\ ToSet(s) = F
  BY MetasOf DEF s, F
<1>3. Publications(F, m.publications)
  BY <1>1, <1>2, PublicationsKept
<1>4. m.index # <<>> => \E f \in F : /\ foldName(f.series) = foldName(m.series)
                                    /\ foldName(f.index) = foldName(m.index)
  BY <1>1, <1>2, IndexKept
<1>5. MergeOk(F, m)
  BY <1>3, <1>4, Zenon DEF MergeOk
<1> QED
  BY <1>5 DEF m, F

(* The merged metadata of the files is right.                              *)
THEOREM MergingIsRight == BookSpec => []MergedRight
<1>1. BookInit => MergedRight
  BY DEF BookInit, MergedRight
<1>2. BookInv /\ MergedRight /\ [BookNext]_bookVars => MergedRight'
  <2> SUFFICES ASSUME BookInv, MergedRight, [BookNext]_bookVars PROVE MergedRight'
    OBVIOUS
  <2>1. CASE Consolidate
    <3> DEFINE F == {Meta[r.content] : r \in ToSet(rows')}  m == M'
    <3>1. OnePathEach(ToSet(rows'))
      BY <2>1, ConsolidateOk
    <3>2. m = Merge(rows')
      BY <2>1 DEF Consolidate, M
    <3>3. MergeOk(F, m)
      BY <3>1, <3>2, MergeKeeps
    <3>4. Rows' = ToSet(rows')
      BY DEF Rows
    <3> DEFINE Dated(p) == {f \in F : foldName(f.publisher) = foldName(p)
                                      /\ normalizePublicationDate(f.date) # ""}
    <3>5. ASSUME NEW p PROVE DatesOf(F, p) = {} <=> Dated(p) = {}
      BY DEF DatesOf, SameHouse
    <3>6. {g \in F : \/ normalizePublicationDate(g.date) # ""
                     \/ g.publisher # <<>> /\ DatesOf(F, g.publisher) = {}}
            = {g \in F : \/ normalizePublicationDate(g.date) # ""
                         \/ g.publisher # <<>> /\ Dated(g.publisher) = {}}
      <4> HIDE DEF F, Dated
      <4> QED
        BY <3>5
    <3>7. /\ m.index # <<>> => \E f \in F : /\ foldName(f.series) = foldName(m.series)
                                          /\ foldName(f.index) = foldName(m.index)
          /\ {<<foldName(p.publisher), p.date>> : p \in ToSet(m.publications)} =
               {<<foldName(f.publisher), normalizePublicationDate(f.date)>> :
                  f \in {g \in F : \/ normalizePublicationDate(g.date) # ""
                                   \/ g.publisher # <<>> /\ Dated(g.publisher) = {}}}
          /\ Cardinality(ToSet(m.publications)) = Len(m.publications)
      <4> HIDE DEF F, Dated, m
      <4> QED
        BY <3>3, <3>6, Zenon DEF MergeOk, Publications
    <3>8. F = {Meta[r.content] : r \in Rows'}
      BY <3>4
    <3> QED
      BY <3>7, <3>8, Zenon DEF MergedRight
  <2>2. CASE \E p \in Path, c \in Content : CommitFile(p, c)
    <3>1. fresh' = FALSE
      BY <2>2 DEF CommitFile
    <3> QED
      BY <3>1 DEF MergedRight
  <2>3. CASE UNCHANGED bookVars
    <3>1. rows' = rows /\ book' = book /\ fresh' = fresh
      BY <2>3 DEF bookVars
    <3>2. M' = M /\ Rows' = Rows
      BY <3>1 DEF M, Rows
    <3> QED
      BY <3>1, <3>2 DEF MergedRight
  <2> QED
    BY <2>1, <2>2, <2>3 DEF BookNext
<1> QED
  BY <1>1, <1>2, BookInvAlways, PTL DEF BookSpec

(***************************************************************************)
(* The order of the commits does not show.  Two tables of authors list the *)
(* names of a file in two orders: p takes the places of one to the other.  *)
(***************************************************************************)
Order(n, p) ==
  /\ p \in [1..n -> 1..n]
  /\ \A i, j \in 1..n : p[i] = p[j] => i = j
  /\ \A j \in 1..n : \E i \in 1..n : p[i] = j
Reorders(a, b, p) ==
  /\ Len(b) = Len(a) /\ Order(Len(a), p) /\ \A k \in 1..Len(a) : b[k] = a[p[k]]

(* Lists of the same names, each of them once, differ by their order.      *)
LEMMA SameElements ==
  ASSUME NEW S, NEW a \in Seq(S), NEW b \in Seq(S), NoTwice(a), NoTwice(b), ToSet(a) = ToSet(b)
  PROVE  \E p : Reorders(a, b, p)
<1> DEFINE n == Len(a)  p == [k \in 1..n |-> CHOOSE i \in 1..n : a[i] = b[k]]
<1>1. Len(b) = n
  <2>1. Cardinality(ToSet(a)) = Len(a) /\ Cardinality(ToSet(b)) = Len(b)
    BY OnceCounts
  <2> QED
    BY <2>1
<1>2. n \in Nat /\ DOMAIN a = 1..n /\ DOMAIN b = 1..n
  BY <1>1
<1> HIDE DEF n
<1>3. \A k \in 1..n : \E i \in 1..n : a[i] = b[k]
  BY <1>2 DEF ToSet
<1>4. \A i \in 1..n : \E k \in 1..n : a[i] = b[k]
  BY <1>2 DEF ToSet
<1>5. ASSUME NEW k \in 1..n PROVE p[k] \in 1..n /\ a[p[k]] = b[k]
  BY <1>3
<1>6. p \in [1..n -> 1..n]
  BY <1>5
<1> HIDE DEF p
<1>7. \A i, j \in 1..n : p[i] = p[j] => i = j
  BY <1>2, <1>5 DEF NoTwice
<1>8. ASSUME NEW j \in 1..n PROVE \E i \in 1..n : p[i] = j
  <2>1. PICK k \in 1..n : a[j] = b[k]
    BY <1>4
  <2>2. p[k] \in 1..n /\ a[p[k]] = a[j]
    BY <1>5, <2>1
  <2>3. p[k] = j
    BY <1>2, <2>2 DEF NoTwice
  <2> QED
    BY <2>3
<1> QED
  BY <1>1, <1>5, <1>6, <1>7, <1>8 DEF Reorders, Order, n

(* As many places of one as of the other have a property.                  *)
LEMMA SameCount ==
  ASSUME NEW n \in Nat, NEW p, Order(n, p), NEW A, NEW B \in SUBSET (1..n),
         A = {k \in 1..n : p[k] \in B}
  PROVE  Cardinality(A) = Cardinality(B)
<1> DEFINE f == [k \in A |-> p[k]]
<1>1. p \in [1..n -> 1..n] /\ A \in SUBSET (1..n)
  BY DEF Order
<1>2. \A k \in A : f[k] = p[k] /\ f[k] \in B
  OBVIOUS
<1>3. f \in [A -> B]
  BY <1>2
<1>4. \A i, j \in A : f[i] = f[j] => i = j
  BY <1>1, <1>2 DEF Order
<1>5. \A j \in B : \E i \in A : f[i] = j
  <2> SUFFICES ASSUME NEW j \in B PROVE \E i \in A : f[i] = j
    OBVIOUS
  <2>1. PICK i \in 1..n : p[i] = j
    BY DEF Order
  <2>2. i \in A
    BY <2>1
  <2> QED
    BY <1>2, <2>1, <2>2
<1> HIDE DEF f
<1>6. f \in Bijection(A, B)
  BY <1>3, <1>4, <1>5 DEF Bijection, Injection, Surjection, IsInjective
<1>7. IsFiniteSet(A)
  BY <1>1, SizeOfNumbers
<1>8. ExistsBijection(A, B)
  BY <1>6 DEF ExistsBijection
<1> QED
  BY <1>7, <1>8, FS_Bijection

(* Of a sum any part can be taken out first.                               *)
AnyFirst(n, f, H) == \A s \in SUBSET (1..n) : \A x \in s : H[s] = f[x] + H[s \ {x}]

(* It does not matter which the sum takes.                                 *)
LEMMA SumOfAny ==
  ASSUME NEW n \in Nat, NEW f \in [1..n -> Nat], NEW H, Sums(n, f, H)
  PROVE  AnyFirst(n, f, H)
<1> DEFINE T == {k \in Nat : \A s \in SUBSET (1..n) :
                   Cardinality(s) = k => \A x \in s : H[s] = f[x] + H[s \ {x}]}
<1>0. \A s \in SUBSET (1..n) : H[s] \in Nat
  BY SumIsNat
<1>1. 0 \in T
  <2> SUFFICES ASSUME NEW s \in SUBSET (1..n), Cardinality(s) = 0, NEW x \in s PROVE FALSE
    OBVIOUS
  <2> QED
    BY SizeOfNumbers
<1>2. ASSUME NEW k \in Nat, k \in T PROVE k + 1 \in T
  <2> SUFFICES ASSUME NEW s \in SUBSET (1..n), Cardinality(s) = k + 1, NEW x \in s
               PROVE  H[s] = f[x] + H[s \ {x}]
    OBVIOUS
  <2> DEFINE c == CHOOSE y \in s : TRUE
  <2>1. c \in s
    OBVIOUS
  <2>2. H[s] = f[c] + H[s \ {c}]
    BY DEF Sums
  <2> HIDE DEF c
  <2>3. CASE x = c
    BY <2>2, <2>3
  <2>4. CASE x # c
    <3> DEFINE u == s \ {c}  v == s \ {x}  w == (s \ {c}) \ {x}
    <3>1. /\ u \in SUBSET (1..n) /\ v \in SUBSET (1..n) /\ w \in SUBSET (1..n)
          /\ x \in u /\ c \in v /\ u \ {x} = w /\ v \ {c} = w
      BY <2>1, <2>4
    <3>2. Cardinality(u) = k /\ Cardinality(v) = k
      <4>1. Cardinality(u) = Cardinality(s) - 1 /\ Cardinality(v) = Cardinality(s) - 1
        BY <2>1, SizeOfNumbers
      <4> QED
        BY <4>1
    <3> HIDE DEF u, v, w
    <3>3. H[u] = f[x] + H[w] /\ H[v] = f[c] + H[w]
      <4>1. H[u] = f[x] + H[u \ {x}]
        BY <1>2, <3>1, <3>2
      <4>2. H[v] = f[c] + H[v \ {c}]
        BY <1>2, <3>1, <3>2
      <4> QED
        BY <3>1, <4>1, <4>2
    <3>4. H[s] = f[c] + H[u]
      BY <2>2 DEF u
    <3>5. f[c] \in Nat /\ f[x] \in Nat /\ H[w] \in Nat
      BY <1>0, <2>1, <3>1
    <3>6. H[s] = f[x] + H[v]
      BY <3>3, <3>4, <3>5
    <3> QED
      BY <3>6 DEF v
  <2> QED
    BY <2>3, <2>4
<1>3. \A k \in Nat : k \in T
  <2> HIDE DEF T
  <2> QED
    BY <1>1, <1>2, Induct
<1>4. ASSUME NEW s \in SUBSET (1..n) PROVE \A x \in s : H[s] = f[x] + H[s \ {x}]
  <2>1. Cardinality(s) \in 0..n
    BY SizeOfNumbers
  <2>2. Cardinality(s) \in T
    <3> HIDE DEF T
    <3> QED
      BY <1>3, <2>1
  <2> QED
    BY <2>2
<1> QED
  BY <1>4 DEF AnyFirst

Resummed(n, p, f, F, g, G) ==
  /\ n \in Nat /\ Order(n, p) /\ f \in [1..n -> Nat] /\ g \in [1..n -> Nat]
  /\ \A k \in 1..n : g[k] = f[p[k]]
  /\ Sums(n, f, F) /\ Sums(n, g, G)

(* A sum is the same in another order.                                     *)
LEMMA SameSum ==
  ASSUME NEW n, NEW p, NEW f, NEW F, NEW g, NEW G, Resummed(n, p, f, F, g, G)
  PROVE  G[1..n] = F[1..n]
<1> DEFINE Places(s) == {p[k] : k \in s}
           T == {k \in Nat : \A s \in SUBSET (1..n) : Cardinality(s) = k => G[s] = F[Places(s)]}
<1>11. /\ n \in Nat /\ Order(n, p) /\ f \in [1..n -> Nat] /\ g \in [1..n -> Nat]
       /\ \A k \in 1..n : g[k] = f[p[k]]
  BY DEF Resummed
<1>12. Sums(n, f, F) /\ Sums(n, g, G)
  BY DEF Resummed
<1>0. p \in [1..n -> 1..n] /\ \A i, j \in 1..n : p[i] = p[j] => i = j
  BY <1>11 DEF Order
<1>1. AnyFirst(n, f, F) /\ AnyFirst(n, g, G)
  <2> HIDE DEF T
  <2> QED
    BY <1>11, <1>12, SumOfAny
<1>2. 0 \in T
  <2> SUFFICES ASSUME NEW s \in SUBSET (1..n), Cardinality(s) = 0 PROVE G[s] = F[Places(s)]
    OBVIOUS
  <2>1. s = {} /\ Places(s) = {}
    BY <1>11, SizeOfNumbers
  <2>2. G[{}] = 0 /\ F[{}] = 0
    BY <1>12 DEF Sums
  <2> QED
    BY <2>1, <2>2
<1>3. ASSUME NEW k \in Nat, k \in T PROVE k + 1 \in T
  <2>1. ASSUME NEW s \in SUBSET (1..n), Cardinality(s) = k + 1
        PROVE  G[s] = F[Places(s)]
    <3>1. PICK x : x \in s
      <4>1. Cardinality(s) # 0
        BY <2>1
      <4>2. s # {}
        BY <1>11, <4>1, SizeOfNumbers
      <4> QED
        BY <4>2
    <3> DEFINE u == s \ {x}  v == Places(s)  w == Places(u)
    <3>2. u \in SUBSET (1..n) /\ Cardinality(u) = k
      <4>1. Cardinality(u) = Cardinality(s) - 1
        BY <1>11, <3>1, SizeOfNumbers
      <4>2. u \in SUBSET (1..n)
        OBVIOUS
      <4>3. Cardinality(u) = k
        <5> HIDE DEF u
        <5> QED
          BY <2>1, <4>1
      <4> QED
        BY <4>2, <4>3
    <3>3. G[u] = F[w]
      BY <1>3, <3>2
    <3>4. x \in 1..n
      BY <3>1
    <3>5. v \in SUBSET (1..n) /\ p[x] \in v
      <4>1. \A y \in s : p[y] \in 1..n
        BY <1>0
      <4> QED
        BY <3>1, <4>1
    <3>6. v \ {p[x]} = w
      <4>1. \A y \in s : y \in 1..n /\ (p[y] = p[x] => y = x)
        BY <1>0, <3>4
      <4> QED
        BY <3>1, <4>1
    <3> HIDE DEF Places, u, v, w
    <3>7. F[v] = f[p[x]] + F[v \ {p[x]}]
      BY <1>1, <3>5 DEF AnyFirst
    <3>8. G[s] = g[x] + G[s \ {x}]
      BY <1>1, <3>1 DEF AnyFirst
    <3>9. g[x] = f[p[x]]
      BY <1>11, <3>4
    <3>10. G[s] = F[v]
      BY <3>3, <3>6, <3>7, <3>8, <3>9 DEF u
    <3> QED
      BY <3>10 DEF v
  <2> HIDE DEF Places
  <2> QED
    BY <2>1
<1>4. \A k \in Nat : k \in T
  <2> HIDE DEF T
  <2> QED
    BY <1>2, <1>3, Induct
<1>5. Cardinality(1..n) \in T
  <2>1. Cardinality(1..n) \in Nat
    BY <1>11, SizeOfNumbers
  <2> HIDE DEF T
  <2> QED
    BY <1>4, <2>1
<1>6. Places(1..n) = 1..n
  BY <1>11 DEF Order
<1> QED
  BY <1>5, <1>6

(* Lists of the same names in two orders rank alike, and vote together.    *)
LEMMA SameRanks ==
  ASSUME NEW a \in Seq(BookTexts), NEW b \in Seq(BookTexts), NEW p, Reorders(a, b, p)
  PROVE  /\ Len(b) = Len(a) /\ Runes(b) = Runes(a) /\ spacedCount(b) = spacedCount(a)
         /\ AuthorKey(b) = AuthorKey(a)
<1> DEFINE n == Len(a)
<1>1. /\ n \in Nat /\ Len(b) = n /\ DOMAIN a = 1..n /\ DOMAIN b = 1..n
      /\ Order(n, p) /\ p \in [1..n -> 1..n] /\ \A k \in 1..n : b[k] = a[p[k]]
  <2>1. n \in Nat /\ DOMAIN a = 1..n /\ DOMAIN b = 1..Len(b)
    OBVIOUS
  <2> QED
    BY <2>1 DEF Reorders, Order
<1>2. Runes(b) = Runes(a)
  <2>1. PICK f, F : SummedBy(a, f, F)
    BY RunesAreSum
  <2>2. PICK g, G : SummedBy(b, g, G)
    BY RunesAreSum
  <2>3. /\ f \in [1..n -> Nat] /\ (\A i \in 1..n : f[i] = runeLen(a[i]))
        /\ Sums(n, f, F) /\ Runes(a) = F[1..n]
    BY <2>1 DEF SummedBy
  <2>4. /\ g \in [1..n -> Nat] /\ (\A i \in 1..n : g[i] = runeLen(b[i]))
        /\ Sums(n, g, G) /\ Runes(b) = G[1..n]
    BY <1>1, <2>2 DEF SummedBy
  <2> HIDE DEF n
  <2>5. \A k \in 1..n : g[k] = f[p[k]]
    BY <1>1, <2>3, <2>4
  <2>6. Resummed(n, p, f, F, g, G)
    BY <1>1, <2>3, <2>4, <2>5 DEF Resummed
  <2>7. G[1..n] = F[1..n]
    BY <2>6, SameSum
  <2> QED
    BY <2>3, <2>4, <2>7
<1>3. spacedCount(b) = spacedCount(a)
  <2> DEFINE A == {k \in DOMAIN b : FieldCount(b[k]) > 1}  B == {k \in DOMAIN a : FieldCount(a[k]) > 1}
  <2>1. B \in SUBSET (1..n) /\ A = {k \in 1..n : p[k] \in B}
    BY <1>1
  <2>2. spacedCount(b) = Cardinality(A) /\ spacedCount(a) = Cardinality(B)
    BY DEF spacedCount
  <2> HIDE DEF A, B, n
  <2>3. Cardinality(A) = Cardinality(B)
    BY <1>1, <2>1, SameCount
  <2> QED
    BY <2>2, <2>3
<1>4. AuthorKey(b) = AuthorKey(a)
  <2> DEFINE u == [k \in DOMAIN a |-> canonicalAuthorName(a[k])]
             v == [k \in DOMAIN b |-> canonicalAuthorName(b[k])]
             bag(s) == [x \in Range(s) |-> Cardinality({i \in DOMAIN s : s[i] = x})]
  <2>1. AuthorKey(a) = bag(u) /\ AuthorKey(b) = bag(v)
    BY DEF AuthorKey, ToBag
  <2>2. DOMAIN u = 1..n /\ DOMAIN v = 1..n /\ \A k \in 1..n : v[k] = u[p[k]]
    BY <1>1
  <2> HIDE DEF u, v, n
  <2>3. Range(u) = Range(v)
    <3>1. \A k \in 1..n : p[k] \in 1..n
      BY <1>1 DEF Order
    <3>2. \A k \in 1..n : \E i \in 1..n : p[i] = k
      BY <1>1 DEF Order
    <3>3. Range(v) \subseteq Range(u)
      BY <2>2, <3>1 DEF Range
    <3>4. Range(u) \subseteq Range(v)
      BY <2>2, <3>2 DEF Range
    <3> QED
      BY <3>3, <3>4
  <2>4. ASSUME NEW x PROVE Cardinality({i \in DOMAIN v : v[i] = x}) = Cardinality({i \in DOMAIN u : u[i] = x})
    <3> DEFINE A == {i \in DOMAIN v : v[i] = x}  B == {i \in DOMAIN u : u[i] = x}
    <3>1. B \in SUBSET (1..n) /\ A = {k \in 1..n : p[k] \in B}
      BY <1>1, <2>2
    <3> HIDE DEF A, B
    <3>2. Cardinality(A) = Cardinality(B)
      BY <1>1, <3>1, SameCount
    <3> QED
      BY <3>2 DEF A, B
  <2>5. bag(u) = bag(v)
    BY <2>3, <2>4
  <2> QED
    BY <2>1, <2>5
<1> QED
  BY <1>1, <1>2, <1>3, <1>4

(***************************************************************************)
(* Lists that pair by pair name the same authors, in two orders each.      *)
(***************************************************************************)
Permuted(a, b) == a \in Seq(BookTexts) /\ b \in Seq(BookTexts) /\ \E p : Reorders(a, b, p)
Alike(u, v) ==
  /\ u \in Seq(Seq(BookTexts)) /\ v \in Seq(Seq(BookTexts)) /\ Len(v) = Len(u)
  /\ \A i \in 1..Len(u) : Permuted(u[i], v[i])

(* Of two such lists either both are empty or none is.                     *)
LEMMA EmptyTogether ==
  ASSUME NEW a, NEW b, Permuted(a, b)
  PROVE  a = <<>> <=> b = <<>>
<1>1. a \in Seq(BookTexts) /\ b \in Seq(BookTexts) /\ Len(b) = Len(a)
  BY DEF Permuted, Reorders
<1> QED
  BY <1>1

(* One pair more.                                                          *)
LEMMA AlikeAppend ==
  ASSUME NEW u, NEW v, Alike(u, v), NEW a, NEW b, Permuted(a, b)
  PROVE  Alike(Append(u, a), Append(v, b))
<1> DEFINE S == Seq(BookTexts)
<1>1. /\ u \in Seq(S) /\ v \in Seq(S) /\ Len(v) = Len(u)
      /\ \A i \in 1..Len(u) : Permuted(u[i], v[i])
      /\ a \in S /\ b \in S
  BY DEF Alike, Permuted
<1> HIDE DEF S
<1>2. /\ Append(u, a) \in Seq(S) /\ Append(v, b) \in Seq(S)
      /\ Len(Append(u, a)) = Len(u) + 1 /\ Len(Append(v, b)) = Len(v) + 1
      /\ \A i \in 1..Len(u) + 1 : /\ Append(u, a)[i] = IF i = Len(u) + 1 THEN a ELSE u[i]
                                  /\ Append(v, b)[i] = IF i = Len(u) + 1 THEN b ELSE v[i]
  BY <1>1
<1>3. \A i \in 1..Len(u) + 1 : i = Len(u) + 1 \/ i \in 1..Len(u)
  <2>1. Len(u) \in Nat
    BY <1>1
  <2> QED
    BY <2>1
<1>4. \A i \in 1..Len(u) + 1 : Permuted(Append(u, a)[i], Append(v, b)[i])
  BY <1>1, <1>2, <1>3
<1> QED
  BY <1>1, <1>2, <1>4 DEF Alike, S

(* The lists that vote, those with a name, stay pairs.                     *)
LEMMA AlikeOnly ==
  ASSUME NEW s, NEW t, Alike(s, t)
  PROVE  Alike(Only(s, ToSet(s) \ {<<>>}), Only(t, ToSet(t) \ {<<>>}))
<1> DEFINE S == Seq(BookTexts)  A == ToSet(s) \ {<<>>}  B == ToSet(t) \ {<<>>}  n == Len(s)
<1>1. /\ s \in Seq(S) /\ t \in Seq(S) /\ Len(t) = n /\ n \in Nat
      /\ \A i \in 1..n : Permuted(s[i], t[i])
  BY DEF Alike
<1>2. \A i \in 1..n : (s[i] \in A <=> s[i] # <<>>) /\ (t[i] \in B <=> t[i] # <<>>)
  <2>1. DOMAIN s = 1..n /\ DOMAIN t = 1..n
    BY <1>1
  <2> QED
    BY <2>1 DEF ToSet
<1>3. \A i \in 1..n : s[i] \in A <=> t[i] \in B
  BY <1>1, <1>2, EmptyTogether
<1> HIDE DEF S, A, B
<1>4. PICK b : OnlyLoop(S, s, A, b)
  BY <1>1, OnlyRun
<1>5. PICK c : OnlyLoop(S, t, B, c)
  BY <1>1, OnlyRun
<1>6. /\ b[0] = <<>> /\ Only(s, A) = b[n]
      /\ \A k \in 1..n : b[k] = IF s[k] \in A THEN Append(b[k-1], s[k]) ELSE b[k-1]
  BY <1>4 DEF OnlyLoop
<1>7. /\ c[0] = <<>> /\ Only(t, B) = c[n]
      /\ \A k \in 1..n : c[k] = IF t[k] \in B THEN Append(c[k-1], t[k]) ELSE c[k-1]
  BY <1>1, <1>5 DEF OnlyLoop
<1> DEFINE T == {k \in Nat : k <= n => Alike(b[k], c[k])}
<1>8. 0 \in T
  <2>1. Alike(<<>>, <<>>)
    BY DEF Alike
  <2> QED
    BY <1>6, <1>7, <2>1
<1>9. ASSUME NEW k \in Nat, k \in T PROVE k + 1 \in T
  <2> SUFFICES ASSUME k + 1 <= n PROVE Alike(b[k+1], c[k+1])
    OBVIOUS
  <2>1. k + 1 \in 1..n /\ (k + 1) - 1 = k /\ k <= n
    BY <1>1
  <2>2. Alike(b[k], c[k])
    BY <1>9, <2>1
  <2>3. Alike(Append(b[k], s[k+1]), Append(c[k], t[k+1]))
    BY <1>1, <2>1, <2>2, AlikeAppend
  <2>4. /\ b[k+1] = IF s[k+1] \in A THEN Append(b[k], s[k+1]) ELSE b[k]
        /\ c[k+1] = IF t[k+1] \in B THEN Append(c[k], t[k+1]) ELSE c[k]
    BY <1>6, <1>7, <2>1
  <2> QED
    BY <1>3, <2>1, <2>2, <2>3, <2>4
<1>10. \A k \in Nat : k \in T
  <2> HIDE DEF T
  <2> QED
    BY <1>8, <1>9, Induct
<1>11. Alike(b[n], c[n])
  BY <1>1, <1>10
<1> QED
  BY <1>6, <1>7, <1>11 DEF A, B

(* The first list of the class of each, which stands for it.               *)
Stands(t) == [i \in 1..Len(t) |-> Min(AlikeLists(t, i))]
(* Where the elected list is: the first that no other is above of.         *)
Place(t, i) ==
  Foremost(AuthorKeys(t), Len(t), AuthorTops(t).x, AuthorTops(t).y, AuthorTops(t).z, Stands(t), i)
(* What pickAuthors takes of the lists that vote.                          *)
Pick(t) == BestAuthors(FoldLeft(AuthorVote, <<>>, t)).list

(* pickAuthors takes the list that stands for the foremost one.            *)
LEMMA AuthorsPlace ==
  ASSUME NEW t \in Seq(Seq(BookTexts)), t # <<>>
  PROVE  \E i \in 1..Len(t) : /\ Place(t, i) /\ Stands(t)[i] \in 1..Len(t)
                              /\ Pick(t) = t[Stands(t)[i]]
<1> DEFINE n == Len(t)  key == AuthorKeys(t)  len == NoLengths(t)  spell == Stands(t)
           x == AuthorTops(t).x  y == AuthorTops(t).y  z == AuthorTops(t).z
<1>1. n \in Nat /\ len \in [1..n -> Nat] /\ Tops(n, x, y, z)
  <2>1. n \in Nat
    OBVIOUS
  <2> QED
    BY <2>1, AuthorTopsTyped
<1>2. PICK m, pos, cnt : /\ Counted(key, len, n, m, pos, cnt)
                        /\ FoldLeft(AuthorVote, <<>>, t) = AuthorsAt(t, m, pos, cnt)
  BY AuthorsCounted
<1>3. PICK w : AuthorsLeader(t, m, pos, cnt, w)
  BY <1>2, AuthorsElected
<1>4. Leader(pos, cnt, x, y, z, m, w) /\ Pick(t) = t[pos[w]]
  BY <1>2, <1>3 DEF AuthorsLeader, Pick
<1>5. /\ pos \in [1..m -> 1..n]
      /\ \A i \in 1..n : \E p \in 1..m : key[pos[p]] = key[i]
      /\ \A p \in 1..m : Longest(key, len, n, pos[p])
  BY <1>2 DEF Counted
<1>6. ASSUME NEW i \in 1..n
      PROVE  /\ spell[i] \in 1..n /\ key[spell[i]] = key[i] /\ Longest(key, len, n, spell[i])
  <2>1. PICK p \in 1..m : key[pos[p]] = key[i]
    BY <1>5
  <2>2. Min(AlikeLists(t, i)) = pos[p]
    BY <1>2, <2>1, ListSpelling
  <2>3. spell[i] = pos[p]
    BY <2>2 DEF Stands
  <2> HIDE DEF spell, key, len, n
  <2> QED
    BY <1>5, <2>1, <2>3
<1>7. Spells(key, len, n, spell)
  <2>1. spell = [i \in 1..n |-> spell[i]]
    BY DEF Stands
  <2> HIDE DEF spell, key, len, n
  <2> QED
    BY <1>6, <2>1 DEF Spells
<1> HIDE DEF spell, key, len, n, x, y, z
<1>8. PICK i \in 1..n : spell[i] = pos[w] /\ Foremost(key, n, x, y, z, spell, i)
  <2>1. n \in Nat /\ len \in [1..n -> Nat]
    BY <1>1
  <2>2. Counted(key, len, n, m, pos, cnt)
    BY <1>2
  <2>3. Tops(n, x, y, z) /\ Leader(pos, cnt, x, y, z, m, w)
    BY <1>1, <1>4
  <2> QED
    BY <1>7, <2>1, <2>2, <2>3, Elected
<1>9. Place(t, i)
  BY <1>8 DEF Place, spell, key, n, x, y, z
<1>10. spell[i] \in 1..n /\ Pick(t) = t[spell[i]]
  BY <1>4, <1>6, <1>8
<1> QED
  BY <1>9, <1>10 DEF spell, n

(* Lists that pair by pair have the same names put the same forward.       *)
LEMMA AlikeTops ==
  ASSUME NEW s, NEW t, Alike(s, t)
  PROVE  /\ Len(t) = Len(s) /\ AuthorKeys(t) = AuthorKeys(s) /\ AuthorTops(t) = AuthorTops(s)
         /\ Stands(t) = Stands(s)
<1> DEFINE n == Len(s)
<1>1. /\ s \in Seq(Seq(BookTexts)) /\ t \in Seq(Seq(BookTexts)) /\ Len(t) = n
      /\ n \in Nat /\ DOMAIN s = 1..n /\ DOMAIN t = 1..n
      /\ \A i \in 1..n : Permuted(s[i], t[i])
  <2>1. s \in Seq(Seq(BookTexts)) /\ t \in Seq(Seq(BookTexts)) /\ Len(t) = n
    BY DEF Alike
  <2>2. n \in Nat /\ DOMAIN s = 1..n /\ DOMAIN t = 1..Len(t)
    BY <2>1
  <2> QED
    BY <2>1, <2>2 DEF Alike
<1>2. ASSUME NEW i \in 1..n
      PROVE  /\ Len(t[i]) = Len(s[i]) /\ Runes(t[i]) = Runes(s[i])
             /\ spacedCount(t[i]) = spacedCount(s[i]) /\ AuthorKey(t[i]) = AuthorKey(s[i])
  <2> DEFINE a == s[i]  b == t[i]
  <2>1. PICK p : a \in Seq(BookTexts) /\ b \in Seq(BookTexts) /\ Reorders(a, b, p)
    BY <1>1 DEF Permuted
  <2> HIDE DEF a, b
  <2>2. /\ Len(b) = Len(a) /\ Runes(b) = Runes(a) /\ spacedCount(b) = spacedCount(a)
        /\ AuthorKey(b) = AuthorKey(a)
    BY <2>1, SameRanks
  <2> QED
    BY <2>2 DEF a, b
<1>3. Len(t) = n
  BY <1>1
<1> HIDE DEF n
<1>4. AuthorKeys(t) = AuthorKeys(s)
  <2>1. [i \in 1..n |-> AuthorKey(t[i])] = [i \in 1..n |-> AuthorKey(s[i])]
    BY <1>2, Zenon
  <2> QED
    BY <1>3, <2>1 DEF AuthorKeys, n
<1>5. AuthorTops(t) = AuthorTops(s)
  <2>1. /\ [i \in 1..n |-> Len(t[i])] = [i \in 1..n |-> Len(s[i])]
        /\ [i \in 1..n |-> Runes(t[i])] = [i \in 1..n |-> Runes(s[i])]
        /\ [i \in 1..n |-> spacedCount(t[i])] = [i \in 1..n |-> spacedCount(s[i])]
    BY <1>2, Zenon
  <2> QED
    BY <1>3, <2>1 DEF AuthorTops, n
<1>6. Stands(t) = Stands(s)
  <2>1. ASSUME NEW i \in 1..n PROVE AlikeLists(t, i) = AlikeLists(s, i)
    BY <1>1, <1>2 DEF AlikeLists
  <2>2. [i \in 1..n |-> Min(AlikeLists(t, i))] = [i \in 1..n |-> Min(AlikeLists(s, i))]
    BY <2>1, Zenon
  <2> QED
    BY <1>3, <2>2 DEF Stands, n
<1> QED
  BY <1>3, <1>4, <1>5, <1>6 DEF n

(* pickAuthors picks the same names.                                       *)
LEMMA AlikePicked ==
  ASSUME NEW s, NEW t, Alike(s, t)
  PROVE  Permuted(pickAuthors(s), pickAuthors(t))
<1> DEFINE u == Only(s, ToSet(s) \ {<<>>})  v == Only(t, ToSet(t) \ {<<>>})
<1>1. pickAuthors(s) = Pick(u) /\ pickAuthors(t) = Pick(v)
  BY DEF pickAuthors, AuthorVotes, BestAuthors, Pick
<1>2. Alike(u, v)
  BY AlikeOnly
<1> HIDE DEF u, v
<1>3. /\ u \in Seq(Seq(BookTexts)) /\ v \in Seq(Seq(BookTexts)) /\ Len(v) = Len(u)
      /\ \A i \in 1..Len(u) : Permuted(u[i], v[i])
  BY <1>2 DEF Alike
<1>4. CASE u = <<>>
  <2>1. v = <<>>
    BY <1>3, <1>4
  <2>2. Pick(<<>>) = <<>>
    <3>1. <<>> \in Seq(Seq(BookTexts)) /\ Len(<<>>) = 0 /\ ToSet(<<>>) = {}
      BY DEF ToSet
    <3>2. FoldLeft(AuthorVote, <<>>, <<>>) = <<>>
      BY <3>1, AuthorVotesRun
    <3>3. BestAuthors(<<>>).list = <<>>
      <4> DEFINE W == [list : Seq(BookTexts), count : Nat]  none == [list |-> <<>>, count |-> 0]
      <4>1. <<>> \in Seq(W)
        OBVIOUS
      <4>2. PICK b : b[0] = none /\ BestAuthors(<<>>) = b[Len(<<>>)]
        BY <4>1, PickAuthorsRun
      <4> QED
        BY <3>1, <4>2
    <3> QED
      BY <3>2, <3>3 DEF Pick
  <2>3. Permuted(<<>>, <<>>)
    <3> DEFINE p == [k \in 1..0 |-> k]
    <3>1. Len(<<>>) = 0 /\ <<>> \in Seq(BookTexts) /\ 1..0 = {}
      OBVIOUS
    <3>2. p \in [1..0 -> 1..0]
      OBVIOUS
    <3> HIDE DEF p
    <3>3. Reorders(<<>>, <<>>, p)
      BY <3>1, <3>2 DEF Reorders, Order
    <3> QED
      BY <3>1, <3>3 DEF Permuted
  <2> QED
    BY <1>1, <1>4, <2>1, <2>2, <2>3
<1>5. CASE u # <<>>
  <2>1. v # <<>>
    BY <1>3, <1>5
  <2>2. PICK i \in 1..Len(u) : Place(u, i) /\ Stands(u)[i] \in 1..Len(u) /\ Pick(u) = u[Stands(u)[i]]
    BY <1>3, <1>5, AuthorsPlace
  <2>3. PICK j \in 1..Len(v) : Place(v, j) /\ Stands(v)[j] \in 1..Len(v) /\ Pick(v) = v[Stands(v)[j]]
    BY <1>3, <2>1, AuthorsPlace
  <2>4. Stands(v) = Stands(u) /\ Place(u, j) /\ j \in 1..Len(u)
    BY <1>2, <2>3, AlikeTops DEF Place
  <2>5. i = j
    <3>1. Len(u) \in Nat
      BY <1>3
    <3>2. i <= j /\ j <= i
      BY <2>2, <2>4 DEF Place, Foremost
    <3> QED
      BY <2>2, <2>4, <3>1, <3>2
  <2>6. Permuted(u[Stands(u)[i]], v[Stands(u)[i]])
    BY <1>3, <2>2
  <2> QED
    BY <1>1, <2>2, <2>3, <2>4, <2>5, <2>6
<1> QED
  BY <1>4, <1>5

(* A table that has every name the rows are credited to, once.             *)
Tabled(rs, table) == table \in Seq(BookTexts) /\ NoTwice(table) /\ Credited(rs, table)

(* Two such tables list the same authors of a file, in their orders.       *)
LEMMA ListReordered ==
  ASSUME NEW c, NEW a \in Seq(BookTexts), NEW b \in Seq(BookTexts), NoTwice(a), NoTwice(b),
         ToSet(Meta[c].authors) \subseteq ToSet(a), ToSet(Meta[c].authors) \subseteq ToSet(b)
  PROVE  /\ Permuted(FileAuthors(c, a), FileAuthors(c, b))
         /\ ToSet(FileAuthors(c, a)) = ToSet(FileAuthors(c, b))
<1> DEFINE A == {n \in ToSet(Meta[c].authors) :
                   ~isPlaceholderAuthor(n) /\ ~isTitleEcho(n, Meta[c].title)}
           u == Only(a, A)  v == Only(b, A)
<1>1. FileAuthors(c, a) = u /\ FileAuthors(c, b) = v
  BY DEF FileAuthors
<1>2. A \subseteq ToSet(a) /\ A \subseteq ToSet(b)
  OBVIOUS
<1> HIDE DEF A
<1>3. u \in Seq(BookTexts) /\ ToSet(u) = ToSet(a) \cap A /\ NoTwice(u)
  BY OnlySet, NoTwiceOnly
<1>4. v \in Seq(BookTexts) /\ ToSet(v) = ToSet(b) \cap A /\ NoTwice(v)
  BY OnlySet, NoTwiceOnly
<1> HIDE DEF u, v
<1>5. ToSet(u) = ToSet(v)
  BY <1>2, <1>3, <1>4
<1>6. \E p : Reorders(u, v, p)
  BY <1>3, <1>4, <1>5, SameElements
<1>7. Permuted(u, v)
  BY <1>3, <1>4, <1>6 DEF Permuted
<1> QED
  BY <1>1, <1>5, <1>7

(* The votes of the files end the same, but for the order of the names.    *)
LEMMA SameVotes ==
  ASSUME NEW rs, OnePathEach(ToSet(rs)), NEW a, Tabled(rs, a), NEW b, Tabled(rs, b)
  PROVE  /\ NamesOf(rs, a) = NamesOf(rs, b)
         /\ pickTitle(TitlesOf(rs), TokensOf(rs, a)) = pickTitle(TitlesOf(rs), TokensOf(rs, b))
         /\ Permuted(pickAuthors(ListsOf(rs, a)), pickAuthors(ListsOf(rs, b)))
<1> DEFINE set == ToSet(rs)  s == ByPath(set)  u == ListsOf(rs, a)  v == ListsOf(rs, b)
<1>0. /\ a \in Seq(BookTexts) /\ NoTwice(a) /\ b \in Seq(BookTexts) /\ NoTwice(b)
      /\ \A r \in set : /\ ToSet(Meta[r.content].authors) \subseteq ToSet(a)
                        /\ ToSet(Meta[r.content].authors) \subseteq ToSet(b)
  BY DEF Tabled, Credited
<1>1. \A r \in set : /\ Permuted(FileAuthors(r.content, a), FileAuthors(r.content, b))
                     /\ ToSet(FileAuthors(r.content, a)) = ToSet(FileAuthors(r.content, b))
  BY <1>0, ListReordered
<1>2. NamesOf(rs, a) = NamesOf(rs, b)
  <2>1. {ToSet(FileAuthors(r.content, a)) : r \in set} = {ToSet(FileAuthors(r.content, b)) : r \in set}
    BY <1>1
  <2> QED
    BY <2>1 DEF NamesOf
<1>3. u \in Seq(Seq(BookTexts)) /\ v \in Seq(Seq(BookTexts))
  BY <1>0, VotedOn
<1>4. s \in Seq(set)
  BY ByPathIs
<1>5. /\ u = [k \in DOMAIN s |-> FileAuthors(s[k].content, a)]
      /\ v = [k \in DOMAIN s |-> FileAuthors(s[k].content, b)]
  BY DEF ListsOf
<1> HIDE DEF u, v, s, set
<1>6. DOMAIN s = 1..Len(s) /\ Len(s) \in Nat /\ \A k \in 1..Len(s) : s[k] \in set
  BY <1>4
<1>7. /\ Len(u) = Len(s) /\ Len(v) = Len(s)
      /\ \A k \in 1..Len(s) : /\ u[k] = FileAuthors(s[k].content, a)
                              /\ v[k] = FileAuthors(s[k].content, b)
  <2>1. DOMAIN u = 1..Len(s) /\ DOMAIN v = 1..Len(s)
    BY <1>5, <1>6
  <2>2. Len(u) \in Nat /\ DOMAIN u = 1..Len(u) /\ Len(v) \in Nat /\ DOMAIN v = 1..Len(v)
    BY <1>3
  <2>3. Len(u) = Len(s) /\ Len(v) = Len(s)
    BY <1>6, <2>1, <2>2
  <2> QED
    BY <1>5, <1>6, <2>3
<1>8. \A k \in 1..Len(u) : Permuted(u[k], v[k])
  BY <1>1, <1>6, <1>7
<1>9. Alike(u, v)
  BY <1>3, <1>7, <1>8 DEF Alike
<1>10. Permuted(pickAuthors(u), pickAuthors(v))
  BY <1>9, AlikePicked
<1>11. pickTitle(TitlesOf(rs), TokensOf(rs, a)) = pickTitle(TitlesOf(rs), TokensOf(rs, b))
  <2>1. pickTitle(TitlesOf(rs), TokensOf(rs, a)) = TitleBest(TitlesOf(rs), NamesOf(rs, a))
    BY <1>0, ElectedAreWinners
  <2>2. pickTitle(TitlesOf(rs), TokensOf(rs, b)) = TitleBest(TitlesOf(rs), NamesOf(rs, b))
    BY <1>0, ElectedAreWinners
  <2> QED
    BY <1>2, <2>1, <2>2
<1> QED
  BY <1>2, <1>10, <1>11 DEF u, v

(***************************************************************************)
(* Washing takes the first credit found.                                   *)
(***************************************************************************)
Leadings(t, sets) == FlattenSeq([k \in DOMAIN sets |-> LeadingCredit(t, sets[k])])
Trailings(t, sets) == FlattenSeq([k \in DOMAIN sets |-> TrailingCredit(t, sets[k])])

(* Those of the names of a list are those of each of them.                 *)
LEMMA CreditsFound ==
  ASSUME NEW t \in BookTexts, NEW l \in Seq(BookTexts)
  PROVE  \E C : /\ Leadings(t, AsSets(l)) \in Seq(C) /\ Trailings(t, AsSets(l)) \in Seq(C)
                /\ ToSet(Leadings(t, AsSets(l))) =
                     UNION {ToSet(LeadingCredit(t, matchTokens(x))) : x \in ToSet(l)}
                /\ ToSet(Trailings(t, AsSets(l))) =
                     UNION {ToSet(TrailingCredit(t, matchTokens(x))) : x \in ToSet(l)}
<1> DEFINE n == Len(l)  sets == AsSets(l)
           f == [k \in DOMAIN sets |-> LeadingCredit(t, sets[k])]
           g == [k \in DOMAIN sets |-> TrailingCredit(t, sets[k])]
           C == UNION {Credits(t, sets[k]) : k \in 1..n}
<1>1. n \in Nat /\ DOMAIN l = 1..n /\ \A k \in 1..n : l[k] \in BookTexts
  OBVIOUS
<1>2. DOMAIN sets = 1..n /\ \A k \in 1..n : sets[k] = matchTokens(l[k])
  BY <1>1 DEF AsSets
<1>3. ToSet(l) = {l[k] : k \in 1..n}
  BY <1>1 DEF ToSet
<1> HIDE DEF sets, n
<1>4. \A k \in 1..n : IsFiniteSet(sets[k])
  BY <1>1, <1>2, TokensFinite
<1>5. \A k \in 1..n : LeadingCredit(t, sets[k]) \in Seq(C) /\ TrailingCredit(t, sets[k]) \in Seq(C)
  <2> TAKE k \in 1..n
  <2> DEFINE K == Credits(t, sets[k])
  <2>1. LeadingCredit(t, sets[k]) \in Seq(K) /\ TrailingCredit(t, sets[k]) \in Seq(K)
    BY <1>4, LeadingIsCredit, TrailingIsCredit, FS_CardinalityType
  <2>2. K \subseteq C
    OBVIOUS
  <2> HIDE DEF K, C
  <2> QED
    BY <2>1, <2>2
<1> HIDE DEF C
<1>6. /\ SeqsOf(C, n, f) /\ SeqsOf(C, n, g)
      /\ \A k \in 1..n : /\ f[k] = LeadingCredit(t, matchTokens(l[k]))
                         /\ g[k] = TrailingCredit(t, matchTokens(l[k]))
  BY <1>2, <1>5 DEF SeqsOf
<1>7. Leadings(t, sets) = FlattenSeq(f) /\ Trailings(t, sets) = FlattenSeq(g)
  BY DEF Leadings, Trailings
<1> HIDE DEF f, g
<1>8. /\ FlattenSeq(f) \in Seq(C) /\ ToSet(FlattenSeq(f)) = UNION {ToSet(f[i]) : i \in 1..n}
      /\ FlattenSeq(g) \in Seq(C) /\ ToSet(FlattenSeq(g)) = UNION {ToSet(g[i]) : i \in 1..n}
  BY <1>1, <1>6, Gathered
<1>9. UNION {ToSet(f[i]) : i \in 1..n} = UNION {ToSet(LeadingCredit(t, matchTokens(x))) : x \in ToSet(l)}
  BY <1>3, <1>6
<1>10. UNION {ToSet(g[i]) : i \in 1..n} = UNION {ToSet(TrailingCredit(t, matchTokens(x))) : x \in ToSet(l)}
  BY <1>3, <1>6
<1>11. \E K : /\ FlattenSeq(f) \in Seq(K) /\ FlattenSeq(g) \in Seq(K)
              /\ ToSet(FlattenSeq(f)) = UNION {ToSet(LeadingCredit(t, matchTokens(x))) : x \in ToSet(l)}
              /\ ToSet(FlattenSeq(g)) = UNION {ToSet(TrailingCredit(t, matchTokens(x))) : x \in ToSet(l)}
  BY <1>8, <1>9, <1>10
<1> QED
  BY <1>7, <1>11 DEF sets

(* The first of two sequences of one element is the same.                  *)
LEMMA SameFirst ==
  ASSUME NEW A, NEW B, NEW C, NEW E, NEW a \in Seq(A), NEW b \in Seq(B), NEW c \in Seq(C), NEW e \in Seq(E),
         ToSet(a) = ToSet(b), ToSet(c) = ToSet(e),
         \A x, y \in ToSet(a) : x = y, \A x, y \in ToSet(c) : x = y
  PROVE  First(a \o c) = First(b \o e)
<1>1. /\ a # <<>> => First(a \o c) = <<a[1]>> /\ a[1] \in ToSet(a)
      /\ b # <<>> => First(b \o e) = <<b[1]>> /\ b[1] \in ToSet(b)
      /\ c # <<>> => First(c) = <<c[1]>> /\ c[1] \in ToSet(c)
      /\ e # <<>> => First(e) = <<e[1]>> /\ e[1] \in ToSet(e)
  <2>1. ASSUME a # <<>> PROVE First(a \o c) = <<a[1]>> /\ a[1] \in ToSet(a)
    <3>1. 1 \in DOMAIN a /\ a \o c # <<>> /\ (a \o c)[1] = a[1]
      BY <2>1
    <3> QED
      BY <3>1 DEF First, ToSet
  <2>2. ASSUME b # <<>> PROVE First(b \o e) = <<b[1]>> /\ b[1] \in ToSet(b)
    <3>1. 1 \in DOMAIN b /\ b \o e # <<>> /\ (b \o e)[1] = b[1]
      BY <2>2
    <3> QED
      BY <3>1 DEF First, ToSet
  <2>3. /\ c # <<>> => 1 \in DOMAIN c
        /\ e # <<>> => 1 \in DOMAIN e
    OBVIOUS
  <2> QED
    BY <2>1, <2>2, <2>3 DEF First, ToSet
<1>2. /\ a = <<>> <=> ToSet(a) = {}
      /\ b = <<>> <=> ToSet(b) = {}
      /\ c = <<>> <=> ToSet(c) = {}
      /\ e = <<>> <=> ToSet(e) = {}
  BY <1>1 DEF ToSet
<1>3. CASE a # <<>>
  BY <1>1, <1>2, <1>3
<1>4. CASE a = <<>>
  <2>1. b = <<>> /\ <<>> \o c = c /\ <<>> \o e = e
    BY <1>2, <1>4
  <2>2. First(c) = First(e)
    <3>1. CASE c = <<>>
      BY <1>2, <3>1
    <3>2. CASE c # <<>>
      BY <1>1, <1>2, <3>2
    <3> QED
      BY <3>1, <3>2
  <2> QED
    BY <1>4, <2>1, <2>2
<1> QED
  BY <1>3, <1>4

(* The distinctive words of the names of a list.                           *)
Tokens(l) == {matchTokens(x) : x \in ToSet(l)}

(* Names of the same words are washed off alike, except where two stand.   *)
LEMMA SameWash ==
  ASSUME NEW t \in BookTexts, NEW u \in Seq(BookTexts), NEW v \in Seq(BookTexts), Tokens(u) = Tokens(v),
         NEW names, ToSet(u) \subseteq names, ~TwoCredits(t, names)
  PROVE  washAuthorAffix(t, AsSets(u)) = washAuthorAffix(t, AsSets(v))
<1> DEFINE U == AsSets(u)  V == AsSets(v)
           Led(l) == UNION {ToSet(LeadingCredit(t, matchTokens(x))) : x \in ToSet(l)}
           Trailed(l) == UNION {ToSet(TrailingCredit(t, matchTokens(x))) : x \in ToSet(l)}
<1>1. PICK A : /\ Leadings(t, U) \in Seq(A) /\ Trailings(t, U) \in Seq(A)
               /\ ToSet(Leadings(t, U)) = Led(u) /\ ToSet(Trailings(t, U)) = Trailed(u)
  BY CreditsFound
<1>2. PICK B : /\ Leadings(t, V) \in Seq(B) /\ Trailings(t, V) \in Seq(B)
               /\ ToSet(Leadings(t, V)) = Led(v) /\ ToSet(Trailings(t, V)) = Trailed(v)
  BY CreditsFound
<1>3. Led(u) = UNION {ToSet(LeadingCredit(t, s)) : s \in Tokens(u)}
      /\ Trailed(u) = UNION {ToSet(TrailingCredit(t, s)) : s \in Tokens(u)}
  BY DEF Tokens
<1>4. Led(v) = UNION {ToSet(LeadingCredit(t, s)) : s \in Tokens(v)}
      /\ Trailed(v) = UNION {ToSet(TrailingCredit(t, s)) : s \in Tokens(v)}
  BY DEF Tokens
<1>5. Led(u) = Led(v) /\ Trailed(u) = Trailed(v)
  BY <1>3, <1>4
<1>6. \A a, b \in names :
        /\ LeadingCredit(t, matchTokens(a)) = <<>> \/ LeadingCredit(t, matchTokens(b)) = <<>>
             \/ LeadingCredit(t, matchTokens(a)) = LeadingCredit(t, matchTokens(b))
        /\ TrailingCredit(t, matchTokens(a)) = <<>> \/ TrailingCredit(t, matchTokens(b)) = <<>>
             \/ TrailingCredit(t, matchTokens(a)) = TrailingCredit(t, matchTokens(b))
  <2> TAKE a, b \in names
  <2> DEFINE p == LeadingCredit(t, matchTokens(a))  q == LeadingCredit(t, matchTokens(b))
             y == TrailingCredit(t, matchTokens(a))  z == TrailingCredit(t, matchTokens(b))
             Two(at) == at[1] # <<>> /\ at[2] # <<>> /\ at[1] # at[2]
  <2>1. ~(Two(<<p, q>>) \/ Two(<<y, z>>))
    BY DEF TwoCredits
  <2> HIDE DEF p, q, y, z
  <2>2. /\ p = <<>> \/ q = <<>> \/ p = q
        /\ y = <<>> \/ z = <<>> \/ y = z
    BY <2>1
  <2> QED
    BY <2>2 DEF p, q, y, z
<1>7. \A s : /\ \A x, y \in ToSet(LeadingCredit(t, s)) : x = y
             /\ \A x, y \in ToSet(TrailingCredit(t, s)) : x = y
  <2> TAKE s
  <2>1. LeadingCredit(t, s) = <<>> \/ \E x : LeadingCredit(t, s) = <<x>>
    BY DEF LeadingCredit
  <2>2. TrailingCredit(t, s) = <<>> \/ \E x : TrailingCredit(t, s) = <<x>>
    BY DEF TrailingCredit
  <2> QED
    BY <2>1, <2>2 DEF ToSet
<1>8. ToSet(<<>>) = {}
  BY DEF ToSet
<1>9. \A x, y \in Led(u) : x = y
  BY <1>6, <1>7, <1>8
<1>10. \A x, y \in Trailed(u) : x = y
  BY <1>6, <1>7, <1>8
<1> DEFINE d == First(Leadings(t, U) \o Trailings(t, U))  e == First(Leadings(t, V) \o Trailings(t, V))
<1>11. d = e
  <2> DEFINE a == Leadings(t, U)  b == Leadings(t, V)  c == Trailings(t, U)  f == Trailings(t, V)
  <2>1. /\ a \in Seq(A) /\ b \in Seq(B) /\ c \in Seq(A) /\ f \in Seq(B)
        /\ ToSet(a) = ToSet(b) /\ ToSet(c) = ToSet(f)
        /\ \A x, y \in ToSet(a) : x = y
        /\ \A x, y \in ToSet(c) : x = y
    <3> HIDE DEF Led, Trailed
    <3> QED
      BY <1>1, <1>2, <1>5, <1>9, <1>10
  <2> HIDE DEF a, b, c, f
  <2>2. First(a \o c) = First(b \o f)
    BY <2>1, SameFirst
  <2> QED
    BY <2>2 DEF a, b, c, f
<1>12. washAuthorAffix(t, U) = IF d = <<>> \/ isPlaceholderTitle(Without(t, d[1])) THEN t ELSE Without(t, d[1])
  BY DEF washAuthorAffix, Leadings, Trailings
<1>13. washAuthorAffix(t, V) = IF e = <<>> \/ isPlaceholderTitle(Without(t, e[1])) THEN t ELSE Without(t, e[1])
  BY DEF washAuthorAffix, Leadings, Trailings
<1> HIDE DEF d, e
<1> QED
  BY <1>11, <1>12, <1>13

(***************************************************************************)
(* The parts of a description of the files rs and ds.                      *)
(***************************************************************************)
KnownOf(rs, table) == pickTitle(TitlesOf(rs), TokensOf(rs, table))
PickedOf(rs, table) == pickAuthors(ListsOf(rs, table))
UnlikeOf(rs, table) == Unlike(FlattenSeq(ListsOf(rs, table)))
PathsRead(rs, ds) == LET files == Files(rs, ds) IN [k \in DOMAIN files |-> PathOf[files[k].path]]
Reading(rs, ds, known, none) ==
  IF known # <<>> /\ ~none THEN [title |-> known, author |-> <<>>]
  ELSE FromNames(PathsRead(rs, ds), known, titleFromPath(PathsRead(rs, ds)[1]), none)
Recovered(r) == IF r.author = <<>> THEN <<>> ELSE <<r.author>>

(* Who is washed off: the names of the files, and who was recovered.       *)
Washes(l, names) ==
  l \in Seq(BookTexts) /\ ToSet(l) \subseteq names /\ Tokens(l) = {matchTokens(x) : x \in names}

(* Describe, in the terms of the reading it takes.                         *)
LEMMA DescribedBy ==
  ASSUME NEW rs, NEW ds, NEW table, NEW r,
         r = Reading(rs, ds, KnownOf(rs, table), PickedOf(rs, table) = <<>>)
  PROVE  /\ Describe(rs, ds, table).raw = r.title
         /\ Describe(rs, ds, table).recovered = Recovered(r)
         /\ Describe(rs, ds, table).authors = ToSet(PickedOf(rs, table) \o Recovered(r))
         /\ Describe(rs, ds, table).title =
              IF PickedOf(rs, table) \o Recovered(r) = <<>> THEN r.title
              ELSE washAuthorAffix(r.title, AsSets(UnlikeOf(rs, table) \o Recovered(r)))
<1> DEFINE known == KnownOf(rs, table)  picked == PickedOf(rs, table)  names == UnlikeOf(rs, table)
           paths == PathsRead(rs, ds)
           q == IF known # <<>> /\ picked # <<>> THEN [title |-> known, author |-> <<>>]
                ELSE FromNames(paths, known, titleFromPath(paths[1]), picked = <<>>)
<1>1. Describe(rs, ds, table) = Described(known, picked, names, paths)
  BY DEF Describe, TitlesOf, ListsOf, TokensOf, Unlike, KnownOf, PickedOf, UnlikeOf, PathsRead
<1>2. q = r
  BY DEF Reading
<1>3. Described(known, picked, names, paths) = Washed(known, picked, names, q)
  BY DEF Described
<1> HIDE DEF known, picked, names, paths, q
<1>4. Describe(rs, ds, table) = Washed(known, picked, names, r)
  BY <1>1, <1>2, <1>3
<1> QED
  BY <1>4 DEF Washed, Recovered, known, picked, names

(* They are texts and lists of texts.                                      *)
LEMMA PartsTyped ==
  ASSUME NEW rs, OnePathEach(ToSet(rs)), ToSet(rs) # {}, NEW ds, OnePathEach(ds),
         NEW table \in Seq(BookTexts), NEW r,
         r = Reading(rs, ds, KnownOf(rs, table), PickedOf(rs, table) = <<>>)
  PROVE  /\ r.title \in BookTexts /\ Recovered(r) \in Seq(BookTexts)
         /\ Washes(UnlikeOf(rs, table) \o Recovered(r), NamesOf(rs, table) \cup ToSet(Recovered(r)))
<1> DEFINE d == Describe(rs, ds, table)  rec == Recovered(r)  l == ListsOf(rs, table)
           all == FlattenSeq(l)  names == UnlikeOf(rs, table)
<1>1. d.raw = r.title /\ d.recovered = rec
  BY DescribedBy
<1>2. d.raw \in BookTexts
  BY DescribeWashes DEF WashedAs
<1>3. d.recovered = <<>> \/ \E a \in Names : d.recovered = <<a>>
  BY DescribeSound DEF SoundDescription
<1> HIDE DEF d, rec
<1>4. rec \in Seq(BookTexts)
  <2>1. ASSUME NEW a \in BookTexts PROVE <<a>> \in Seq(BookTexts)
    BY OneOf
  <2>2. <<>> \in Seq(BookTexts)
    OBVIOUS
  <2>3. \A a \in Names : a \in BookTexts
    BY DEF Names
  <2> QED
    BY <1>1, <1>3, <2>1, <2>2, <2>3
<1>5. l \in Seq(Seq(BookTexts)) /\ ToSet(l) = {FileAuthors(x.content, table) : x \in ToSet(rs)}
  BY VotedOn
<1>6. names = Unlike(all)
  BY DEF UnlikeOf
<1> HIDE DEF l
<1>7. all \in Seq(BookTexts) /\ ToSet(all) = NamesOf(rs, table)
  <2>1. all \in Seq(BookTexts) /\ ToSet(all) = UNION {ToSet(l[i]) : i \in DOMAIN l}
    BY <1>5, Flattened
  <2>2. UNION {ToSet(l[i]) : i \in DOMAIN l} = UNION {ToSet(x) : x \in ToSet(l)}
    BY DEF ToSet
  <2> QED
    BY <1>5, <2>1, <2>2 DEF NamesOf
<1> HIDE DEF all, names
<1>8. names \in Seq(BookTexts) /\ Represents(names, all)
  BY <1>6, <1>7, UnlikeSet
<1>9. /\ ToSet(names) \subseteq ToSet(all)
      /\ \A x \in ToSet(all) : \E y \in ToSet(names) : metaKey(y) = metaKey(x)
  BY <1>8 DEF Represents
<1>10. ToSet(all) \subseteq BookTexts
  BY <1>7 DEF ToSet
<1>11. \A x \in ToSet(all) : \E y \in ToSet(names) : matchTokens(y) = matchTokens(x)
  <2> TAKE x \in ToSet(all)
  <2>1. PICK y \in ToSet(names) : metaKey(y) = metaKey(x)
    BY <1>9
  <2>2. x \in BookTexts /\ y \in BookTexts
    BY <1>9, <1>10
  <2> QED
    BY <2>1, <2>2, SameTokens
<1> DEFINE u == names \o rec
<1>12. u \in Seq(BookTexts) /\ ToSet(u) = ToSet(names) \cup ToSet(rec)
  BY <1>4, <1>8, ToSetConcat
<1> HIDE DEF u
<1>13. Tokens(u) = {matchTokens(x) : x \in ToSet(all) \cup ToSet(rec)}
  BY <1>9, <1>11, <1>12 DEF Tokens
<1>14. Washes(u, ToSet(all) \cup ToSet(rec))
  BY <1>9, <1>12, <1>13 DEF Washes
<1> QED
  BY <1>1, <1>2, <1>4, <1>7, <1>14 DEF u, names, rec

(* Two descriptions that differ at most by which of two credits was washed *)
(* off the title.                                                          *)
SameDescription(d, e, names) ==
  /\ d.raw = e.raw /\ d.recovered = e.recovered /\ d.authors = e.authors
  /\ d.title = e.title \/ TwoCredits(d.raw, names \cup ToSet(d.recovered))

(* The order of the table does not show in the description.                *)
LEMMA DescribedAlike ==
  ASSUME NEW rs, OnePathEach(ToSet(rs)), ToSet(rs) # {}, NEW ds, OnePathEach(ds),
         NEW a, Tabled(rs, a), NEW b, Tabled(rs, b)
  PROVE  SameDescription(Describe(rs, ds, a), Describe(rs, ds, b), NamesOf(rs, a))
<1> DEFINE d == Describe(rs, ds, a)  e == Describe(rs, ds, b)
           p == PickedOf(rs, a)  q == PickedOf(rs, b)
           r == Reading(rs, ds, KnownOf(rs, a), p = <<>>)  rec == Recovered(r)
           u == UnlikeOf(rs, a) \o rec  v == UnlikeOf(rs, b) \o rec
           names == NamesOf(rs, a) \cup ToSet(rec)
<1>0. a \in Seq(BookTexts) /\ b \in Seq(BookTexts)
  BY DEF Tabled
<1>1. NamesOf(rs, a) = NamesOf(rs, b) /\ KnownOf(rs, a) = KnownOf(rs, b) /\ Permuted(p, q)
  BY SameVotes DEF KnownOf, PickedOf
<1>2. p = <<>> <=> q = <<>>
  <2> HIDE DEF p, q
  <2> QED
    BY <1>1, EmptyTogether
<1>3. r = Reading(rs, ds, KnownOf(rs, b), q = <<>>)
  BY <1>1, <1>2 DEF Reading
<1>4. /\ d.raw = r.title /\ d.recovered = rec /\ d.authors = ToSet(p \o rec)
      /\ d.title = IF p \o rec = <<>> THEN r.title ELSE washAuthorAffix(r.title, AsSets(u))
  BY DescribedBy
<1>5. /\ e.raw = r.title /\ e.recovered = rec /\ e.authors = ToSet(q \o rec)
      /\ e.title = IF q \o rec = <<>> THEN r.title ELSE washAuthorAffix(r.title, AsSets(v))
  BY <1>3, DescribedBy
<1>6. r.title \in BookTexts /\ rec \in Seq(BookTexts) /\ Washes(u, names)
  BY <1>0, PartsTyped
<1>7. Washes(v, names)
  <2> HIDE DEF r, p, q
  <2>1. Washes(v, NamesOf(rs, b) \cup ToSet(rec))
    BY <1>0, <1>3, PartsTyped DEF q
  <2> HIDE DEF v, rec
  <2> QED
    BY <1>1, <2>1
<1> HIDE DEF d, e, p, q, r, rec, u, v
<1>8. ToSet(p \o rec) = ToSet(q \o rec) /\ (p \o rec = <<>> <=> q \o rec = <<>>)
  <2>1. PICK o : p \in Seq(BookTexts) /\ q \in Seq(BookTexts) /\ Reorders(p, q, o)
    BY <1>1 DEF Permuted
  <2>2. ToSet(p) = ToSet(q)
    <3> DEFINE n == Len(p)
    <3>1. DOMAIN p = 1..n /\ DOMAIN q = 1..n /\ Order(n, o) /\ \A k \in 1..n : q[k] = p[o[k]]
      BY <2>1 DEF Reorders
    <3> HIDE DEF n
    <3>2. \A k \in 1..n : o[k] \in 1..n
      BY <3>1 DEF Order
    <3>3. \A k \in 1..n : \E i \in 1..n : o[i] = k
      BY <3>1 DEF Order
    <3>4. ToSet(q) \subseteq ToSet(p)
      BY <3>1, <3>2 DEF ToSet
    <3>5. ToSet(p) \subseteq ToSet(q)
      BY <3>1, <3>3 DEF ToSet
    <3> QED
      BY <3>4, <3>5
  <2>3. /\ p \o rec \in Seq(BookTexts) /\ ToSet(p \o rec) = ToSet(p) \cup ToSet(rec)
        /\ q \o rec \in Seq(BookTexts) /\ ToSet(q \o rec) = ToSet(q) \cup ToSet(rec)
    BY <1>6, <2>1, ToSetConcat
  <2>4. p \o rec = <<>> <=> p = <<>> /\ rec = <<>>
    BY <1>6, <2>1
  <2>5. q \o rec = <<>> <=> q = <<>> /\ rec = <<>>
    BY <1>6, <2>1
  <2> QED
    BY <1>2, <2>2, <2>3, <2>4, <2>5
<1>9. ~TwoCredits(r.title, names) => washAuthorAffix(r.title, AsSets(u)) = washAuthorAffix(r.title, AsSets(v))
  <2> HIDE DEF names
  <2>1. /\ u \in Seq(BookTexts) /\ v \in Seq(BookTexts) /\ Tokens(u) = Tokens(v)
        /\ ToSet(u) \subseteq names
    BY <1>6, <1>7 DEF Washes
  <2> QED
    BY <1>6, <2>1, SameWash
<1>10. d.title = e.title \/ TwoCredits(r.title, names)
  <2> DEFINE w == washAuthorAffix(r.title, AsSets(u))  x == washAuthorAffix(r.title, AsSets(v))
  <2> HIDE DEF w, x, names
  <2> QED
    BY <1>4, <1>5, <1>8, <1>9 DEF w, x
<1> QED
  BY <1>4, <1>5, <1>8, <1>10 DEF SameDescription, d, e

(***************************************************************************)
(* Subjects, languages and identifiers are merged in the order of the      *)
(* rows, and are as sets the same in any order.                            *)
(***************************************************************************)
FoldedNames(s) == {foldName(s[k]) : k \in DOMAIN s}

(* mergeSubjects keeps a spelling of each name.                            *)
LEMMA SubjectsKept ==
  ASSUME NEW S, NEW s \in Seq(S)
  PROVE  FoldedNames(mergeSubjects(s)) = {foldName(x) : x \in ToSet(s) \ {<<>>}}
<1> DEFINE A == ToSet(s) \ {<<>>}  u == Only(s, A)  v == OneSpelling(u)
<1>1. A \subseteq ToSet(s)
  OBVIOUS
<1>2. mergeSubjects(s) = v
  BY DEF mergeSubjects, OneSpelling
<1> HIDE DEF A
<1>3. u \in Seq(S) /\ ToSet(u) = ToSet(s) \cap A
  BY OnlySet
<1> HIDE DEF u
<1>4. OneOfEach(v, u)
  BY <1>3, SpellingSet
<1> HIDE DEF v
<1>5. ToSet(v) \subseteq A /\ \A x \in A : \E y \in ToSet(v) : foldName(y) = foldName(x)
  BY <1>1, <1>3, <1>4 DEF OneOfEach
<1>6. FoldedNames(v) = {foldName(y) : y \in ToSet(v)}
  BY DEF FoldedNames, ToSet
<1>7. {foldName(y) : y \in ToSet(v)} = {foldName(x) : x \in A}
  BY <1>5
<1> QED
  BY <1>2, <1>6, <1>7 DEF A

(* mergeLanguages keeps each language.                                     *)
LEMMA LanguagesKept ==
  ASSUME NEW S, NEW s \in Seq(S)
  PROVE  ToSet(mergeLanguages(s)) = UNION {ToSet(normalizeLanguage(x)) : x \in ToSet(s)}
<1> DEFINE n == Len(s)  f == [k \in DOMAIN s |-> normalizeLanguage(s[k])]
           C == {TagOf[x] : x \in DOMAIN TagOf}  u == FlattenSeq(f)
<1>1. n \in Nat /\ DOMAIN s = 1..n /\ ToSet(s) = {s[k] : k \in 1..n}
  BY DEF ToSet
<1>2. mergeLanguages(s) = Once(u)
  BY DEF mergeLanguages, Once
<1>3. \A x : normalizeLanguage(x) \in Seq(C)
  <2> TAKE x
  <2>1. CASE x \in DOMAIN TagOf /\ TagOf[x] \notin NoTag
    <3>1. TagOf[x] \in C
      BY <2>1
    <3> HIDE DEF C
    <3>2. <<TagOf[x]>> \in Seq(C)
      BY <3>1, OneOf
    <3> QED
      BY <2>1, <3>2 DEF normalizeLanguage
  <2>2. CASE ~(x \in DOMAIN TagOf /\ TagOf[x] \notin NoTag)
    <3> HIDE DEF C
    <3>1. <<>> \in Seq(C)
      OBVIOUS
    <3> QED
      BY <2>2, <3>1 DEF normalizeLanguage
  <2> QED
    BY <2>1, <2>2
<1> HIDE DEF C, n
<1>4. SeqsOf(C, n, f) /\ \A k \in 1..n : f[k] = normalizeLanguage(s[k])
  BY <1>1, <1>3 DEF SeqsOf
<1> HIDE DEF f
<1>5. u \in Seq(C) /\ ToSet(u) = UNION {ToSet(f[i]) : i \in 1..n}
  BY <1>1, <1>4, Gathered
<1>6. UNION {ToSet(f[i]) : i \in 1..n} = UNION {ToSet(normalizeLanguage(x)) : x \in ToSet(s)}
  BY <1>1, <1>4
<1> HIDE DEF u
<1>7. ToSet(Once(u)) = ToSet(u)
  BY <1>5, OnceSet
<1> QED
  BY <1>2, <1>5, <1>6, <1>7

(* The identifiers of a set of items.                                      *)
IsbnsOf(items) == {i \in items : i.scheme = "ISBN" /\ i.value \in DOMAIN ISBN13}
SourcesOf(items, v) == UNION {i.source : i \in {j \in IsbnsOf(items) : ISBN13[j.value] = v}}

(* mergeIdentifiers keeps each identifier.                                 *)
LEMMA IdentifiersKept ==
  ASSUME NEW S, NEW s \in Seq(S)
  PROVE  ToSet(mergeIdentifiers(s)) =
           {[value |-> v, source |-> SourcesOf(ToSet(s), v)] : v \in {ISBN13[i.value] : i \in IsbnsOf(ToSet(s))}}
<1> DEFINE A == {i \in ToSet(s) : i.scheme = "ISBN" /\ i.value \in DOMAIN ISBN13}
           valid == Only(s, A)  read == [k \in DOMAIN valid |-> ISBN13[valid[k].value]]
           values == Once(read)  h == [i \in S |-> ISBN13[i.value]]  E == {ISBN13[i.value] : i \in S}
           Item(v) == [value |-> v, source |-> UNION {i.source : i \in {j \in ToSet(valid) : ISBN13[j.value] = v}}]
           merged == mergeIdentifiers(s)
<1>1. merged = [k \in DOMAIN values |-> Item(values[k])]
  BY DEF mergeIdentifiers, Once
<1>2. A \subseteq ToSet(s) /\ A = IsbnsOf(ToSet(s))
  BY DEF IsbnsOf
<1> HIDE DEF A
<1>3. valid \in Seq(S) /\ ToSet(valid) = ToSet(s) \cap A
  BY OnlySet
<1>4. ToSet(valid) = A
  BY <1>2, <1>3
<1> HIDE DEF valid
<1>5. h \in [S -> E] /\ \A i \in S : h[i] = ISBN13[i.value]
  OBVIOUS
<1>6. \A k \in DOMAIN valid : valid[k] \in S
  BY <1>3
<1>7. Reads(read, valid, h)
  BY <1>5, <1>6 DEF Reads
<1> HIDE DEF read, h, E
<1>8. read \in Seq(E) /\ ToSet(read) = {h[x] : x \in ToSet(valid)}
  <2>1. h \in [S -> E]
    BY <1>5
  <2> QED
    BY <1>3, <1>7, <2>1, ReadOff
<1>9. ToSet(values) = ToSet(read)
  BY <1>8, OnceSet
<1> HIDE DEF values
<1>10. A \subseteq S
  BY <1>4, <1>6 DEF ToSet
<1>11. ToSet(values) = {ISBN13[i.value] : i \in A}
  BY <1>4, <1>5, <1>8, <1>9, <1>10
<1>12. \A v : Item(v) = [value |-> v, source |-> SourcesOf(ToSet(s), v)]
  BY <1>2, <1>4 DEF SourcesOf
<1> HIDE DEF Item, merged
<1>13. ToSet(merged) = {Item(v) : v \in ToSet(values)}
  <2>1. DOMAIN merged = DOMAIN values /\ \A k \in DOMAIN values : merged[k] = Item(values[k])
    BY <1>1
  <2> QED
    BY <2>1 DEF ToSet
<1> QED
  BY <1>2, <1>11, <1>12, <1>13 DEF merged

(* What is read off the rows in turn, has the elements of all.             *)
ReadRows(rs, F) == FlattenSeq([k \in DOMAIN rs |-> F[rs[k].content]])

(* What is read off the rows is what their contents have.                  *)
LEMMA RowsGathered ==
  ASSUME NEW rs \in Seq(Entry), NEW F, \A c \in Content : F[c] \in Seq(ToSet(F[c]))
  PROVE  \E S : /\ ReadRows(rs, F) \in Seq(S)
                /\ ToSet(ReadRows(rs, F)) = UNION {ToSet(F[r.content]) : r \in ToSet(rs)}
<1> DEFINE n == Len(rs)  f == [k \in DOMAIN rs |-> F[rs[k].content]]
           S == UNION {ToSet(F[c]) : c \in Content}
<1>1. n \in Nat /\ DOMAIN rs = 1..n /\ \A k \in 1..n : rs[k] \in Entry
  OBVIOUS
<1>2. ToSet(rs) = {rs[k] : k \in 1..n}
  BY <1>1 DEF ToSet
<1>3. \A k \in 1..n : rs[k].content \in Content
  BY <1>1 DEF Entry
<1>4. \A c \in Content : F[c] \in Seq(S)
  <2> TAKE c \in Content
  <2> DEFINE s == F[c]  A == ToSet(F[c])
  <2>1. s \in Seq(A) /\ A \subseteq S
    OBVIOUS
  <2> HIDE DEF s, A, S
  <2>2. s \in Seq(S)
    BY <2>1
  <2> QED
    BY <2>2 DEF s
<1> HIDE DEF n, S
<1>5. SeqsOf(S, n, f) /\ \A k \in 1..n : f[k] = F[rs[k].content]
  BY <1>1, <1>3, <1>4 DEF SeqsOf
<1>6. ReadRows(rs, F) = FlattenSeq(f)
  BY DEF ReadRows
<1> HIDE DEF f
<1>7. FlattenSeq(f) \in Seq(S) /\ ToSet(FlattenSeq(f)) = UNION {ToSet(f[i]) : i \in 1..n}
  BY <1>1, <1>5, Gathered
<1>8. UNION {ToSet(f[i]) : i \in 1..n} = UNION {ToSet(F[r.content]) : r \in ToSet(rs)}
  BY <1>2, <1>5
<1> QED
  BY <1>6, <1>7, <1>8

(* The lists of a content.                                                 *)
Subjects == [c \in Content |-> Meta[c].subjects]
Languages == [c \in Content |-> Meta[c].languages]
Identifiers == [c \in Content |-> Meta[c].identifiers]

(* A parser reads lists.                                                   *)
LEMMA FieldsKnown ==
  /\ \A c \in Content : Subjects[c] \in Seq(ToSet(Subjects[c]))
  /\ \A c \in Content : Languages[c] \in Seq(ToSet(Languages[c]))
  /\ \A c \in Content : Identifiers[c] \in Seq(ToSet(Identifiers[c]))
<1>1. \A c \in Content : Meta[c].subjects \in Seq(ToSet(Meta[c].subjects))
  BY FieldAssumption, Zenon
<1>2. \A c \in Content : Meta[c].languages \in Seq(ToSet(Meta[c].languages))
  BY FieldAssumption, Zenon
<1>3. \A c \in Content : Meta[c].identifiers \in Seq(ToSet(Meta[c].identifiers))
  BY FieldAssumption, Zenon
<1>4. \A c \in Content : /\ Subjects[c] = Meta[c].subjects /\ Languages[c] = Meta[c].languages
                         /\ Identifiers[c] = Meta[c].identifiers
  BY DEF Subjects, Languages, Identifiers
<1> QED
  BY <1>1, <1>2, <1>3, <1>4, Zenon

(* What Consolidate merges of each, as a set.                              *)
SubjectsOf(set) == {foldName(x) : x \in (UNION {ToSet(Subjects[r.content]) : r \in set}) \ {<<>>}}
LanguagesOf(set) ==
  UNION {ToSet(normalizeLanguage(x)) : x \in UNION {ToSet(Languages[r.content]) : r \in set}}
IdentifiersOf(set) ==
  LET items == UNION {ToSet(Identifiers[r.content]) : r \in set}
  IN {[value |-> v, source |-> SourcesOf(items, v)] : v \in {ISBN13[i.value] : i \in IsbnsOf(items)}}

(* What Merge keeps depends on the set of the files.                       *)
LEMMA MergedSets ==
  ASSUME NEW rs \in Seq(Entry)
  PROVE  /\ FoldedNames(Merge(rs).subjects) = SubjectsOf(ToSet(rs))
         /\ ToSet(Merge(rs).languages) = LanguagesOf(ToSet(rs))
         /\ ToSet(Merge(rs).identifiers) = IdentifiersOf(ToSet(rs))
<1> DEFINE byId == [k \in DOMAIN rs |-> Meta[rs[k].content]]
           u == ReadRows(rs, Subjects)  v == ReadRows(rs, Languages)  w == ReadRows(rs, Identifiers)
<1>1. \A k \in DOMAIN rs : rs[k].content \in Content
  <2>1. \A k \in DOMAIN rs : rs[k] \in Entry
    OBVIOUS
  <2> QED
    BY <2>1 DEF Entry
<1>2. /\ [k \in DOMAIN byId |-> byId[k].subjects] = [k \in DOMAIN rs |-> Subjects[rs[k].content]]
      /\ [k \in DOMAIN byId |-> byId[k].languages] = [k \in DOMAIN rs |-> Languages[rs[k].content]]
      /\ [k \in DOMAIN byId |-> byId[k].identifiers] = [k \in DOMAIN rs |-> Identifiers[rs[k].content]]
  BY <1>1 DEF Subjects, Languages, Identifiers
<1>3. /\ FlattenSeq([k \in DOMAIN byId |-> byId[k].subjects]) = u
      /\ FlattenSeq([k \in DOMAIN byId |-> byId[k].languages]) = v
      /\ FlattenSeq([k \in DOMAIN byId |-> byId[k].identifiers]) = w
  BY <1>2 DEF ReadRows
<1>4. /\ Merge(rs).subjects = mergeSubjects(u) /\ Merge(rs).languages = mergeLanguages(v)
      /\ Merge(rs).identifiers = mergeIdentifiers(w)
  BY <1>3 DEF Merge
<1> HIDE DEF u, v, w
<1>5. \E S : u \in Seq(S) /\ ToSet(u) = UNION {ToSet(Subjects[r.content]) : r \in ToSet(rs)}
  BY FieldsKnown, RowsGathered DEF u
<1>6. \E S : v \in Seq(S) /\ ToSet(v) = UNION {ToSet(Languages[r.content]) : r \in ToSet(rs)}
  BY FieldsKnown, RowsGathered DEF v
<1>7. \E S : w \in Seq(S) /\ ToSet(w) = UNION {ToSet(Identifiers[r.content]) : r \in ToSet(rs)}
  BY FieldsKnown, RowsGathered DEF w
<1>8. FoldedNames(mergeSubjects(u)) = {foldName(x) : x \in ToSet(u) \ {<<>>}}
  BY <1>5, SubjectsKept
<1>9. ToSet(mergeLanguages(v)) = UNION {ToSet(normalizeLanguage(x)) : x \in ToSet(v)}
  BY <1>6, LanguagesKept
<1>10. ToSet(mergeIdentifiers(w)) =
         {[value |-> x, source |-> SourcesOf(ToSet(w), x)] : x \in {ISBN13[i.value] : i \in IsbnsOf(ToSet(w))}}
  BY <1>7, IdentifiersKept
<1>11. FoldedNames(Merge(rs).subjects) = SubjectsOf(ToSet(rs))
  <2> DEFINE A == UNION {ToSet(Subjects[r.content]) : r \in ToSet(rs)}
  <2>1. ToSet(u) = A
    BY <1>5
  <2>2. SubjectsOf(ToSet(rs)) = {foldName(x) : x \in A \ {<<>>}}
    BY DEF SubjectsOf
  <2> HIDE DEF A
  <2> QED
    BY <1>4, <1>8, <2>1, <2>2
<1>12. ToSet(Merge(rs).languages) = LanguagesOf(ToSet(rs))
  BY <1>4, <1>6, <1>9 DEF LanguagesOf
<1>13. ToSet(Merge(rs).identifiers) = IdentifiersOf(ToSet(rs))
  BY <1>4, <1>7, <1>10 DEF IdentifiersOf
<1> QED
  BY <1>11, <1>12, <1>13

(* Rows in two orders are merged alike.                                    *)
SameMerge(m, o) ==
  /\ m.description = o.description /\ m.series = o.series /\ m.index = o.index
  /\ m.publications = o.publications
  /\ FoldedNames(m.subjects) = FoldedNames(o.subjects)
  /\ ToSet(m.languages) = ToSet(o.languages) /\ ToSet(m.identifiers) = ToSet(o.identifiers)

(* Merge does not see the order of the files.                              *)
LEMMA MergedAlike ==
  ASSUME NEW rs \in Seq(Entry), NEW ss \in Seq(Entry), ToSet(rs) = ToSet(ss)
  PROVE  SameMerge(Merge(rs), Merge(ss))
<1> DEFINE m == Merge(rs)  o == Merge(ss)
<1>1. Metas(rs) = Metas(ss)
  BY DEF Metas
<1> DEFINE s == Metas(rs)  series == pickCommonValue([k \in DOMAIN s |-> s[k].series], FALSE)
<1>2. /\ m.description = pickCommonValue([k \in DOMAIN s |-> s[k].description], TRUE)
      /\ m.series = series /\ m.index = pickSeriesIndex(s, series) /\ m.publications = mergePublications(s)
  BY DEF Merge, Metas
<1> DEFINE t == Metas(ss)  of == pickCommonValue([k \in DOMAIN t |-> t[k].series], FALSE)
<1>3. /\ o.description = pickCommonValue([k \in DOMAIN t |-> t[k].description], TRUE)
      /\ o.series = of /\ o.index = pickSeriesIndex(t, of) /\ o.publications = mergePublications(t)
  BY DEF Merge, Metas
<1>4. /\ FoldedNames(m.subjects) = FoldedNames(o.subjects)
      /\ ToSet(m.languages) = ToSet(o.languages) /\ ToSet(m.identifiers) = ToSet(o.identifiers)
  BY MergedSets
<1>5. s = t
  BY <1>1
<1> HIDE DEF m, o, s, t
<1> QED
  BY <1>2, <1>3, <1>4, <1>5 DEF SameMerge, m, o

(***************************************************************************)
(* A duplicate is one of a row; Consolidate leaves the first path of each  *)
(* content to its row, and the others as duplicates.                       *)
(***************************************************************************)
DupsKnown == \A d \in dups : \E r \in Rows : r.content = d.content

Contents == {r.content : r \in Rows}
FirstFiles == {[path |-> Min(PathsOf(c)), content |-> c] : c \in Contents}
RestFiles ==
  {f \in {[path |-> p, content |-> c] : p \in Taken, c \in Contents} :
     f.path \in PathsOf(f.content) /\ f \notin FirstFiles}

(* The files of the book stay, and which are rows is up to them.           *)
LEMMA ConsolidateFiles ==
  ASSUME BookInv, DupsKnown, Consolidate
  PROVE  /\ DupsKnown' /\ ToSet(rows') = FirstFiles' /\ dups' = RestFiles'
<1> DEFINE all == Rows \cup dups
<1>1. rows \in Seq(Entry) /\ all \subseteq Entry
  BY DEF BookInv, OnePathEach
<1>2. /\ rows' = Canonical(rows, dups)
      /\ dups' = {d \in [path : Taken, content : Content] :
                    d.path \in PathsOf(d.content) /\ d \notin ToSet(rows')}
  BY DEF Consolidate
<1>3. /\ rows' \in Seq(Entry) /\ DOMAIN rows' = DOMAIN rows
      /\ \A k \in DOMAIN rows : rows'[k] \in all /\ rows'[k].content = rows[k].content
  <2>1. dups \subseteq Entry
    BY <1>1
  <2> QED
    BY <1>1, <1>2, <2>1, CanonicalKeeps DEF Rows
<1>4. Rows' \subseteq all
  BY <1>3 DEF Rows, ToSet
<1>5. Contents' = Contents
  BY <1>3 DEF Contents, Rows, ToSet
<1>6. \A x \in all : x.content \in Contents
  BY DEF DupsKnown, Contents
<1>7. \A x \in Entry : x = [path |-> x.path, content |-> x.content] /\ x.content \in Content
  BY DEF Entry
<1> HIDE DEF all
<1>8. dups' \subseteq all
  <2> SUFFICES ASSUME NEW d \in dups' PROVE d \in all
    OBVIOUS
  <2>1. d \in [path : Taken, content : Content] /\ d.path \in PathsOf(d.content)
    BY <1>2
  <2>2. PICK x \in all : x.content = d.content /\ x.path = d.path
    BY <2>1 DEF PathsOf, all
  <2>3. x = [path |-> x.path, content |-> x.content]
    BY <1>1, <1>7
  <2>4. d = [path |-> d.path, content |-> d.content]
    BY <2>1
  <2> QED
    BY <2>2, <2>3, <2>4
<1>9. Rows' \cup dups' = all
  <2> SUFFICES ASSUME NEW x \in all, x \notin Rows' PROVE x \in dups'
    BY <1>4, <1>8
  <2>1. x = [path |-> x.path, content |-> x.content] /\ x.content \in Content
    BY <1>1, <1>7
  <2>2. x.path \in Taken /\ x.path \in PathsOf(x.content)
    BY DEF Taken, PathsOf, all
  <2>3. x \in [path : Taken, content : Content]
    BY <2>1, <2>2
  <2> QED
    BY <1>2, <2>2, <2>3 DEF Rows
<1>10. Taken' = Taken /\ \A c : PathsOf(c)' = PathsOf(c)
  BY <1>9 DEF Taken, PathsOf, all
<1>11. FirstFiles' = {[path |-> Min(PathsOf(c)), content |-> c] : c \in Contents}
  BY <1>5, <1>10 DEF FirstFiles
<1>12. ToSet(rows') = FirstFiles'
  <2>1. rows' = [k \in DOMAIN rows |-> [rows[k] EXCEPT !.path = Min(PathsOf(rows[k].content))]]
    BY <1>2 DEF Canonical, PathsOf, Rows
  <2>2. \A k \in DOMAIN rows : rows[k] \in Entry
    BY <1>1
  <2>3. \A k \in DOMAIN rows : rows'[k] = [path |-> Min(PathsOf(rows[k].content)), content |-> rows[k].content]
    <3>1. \A x \in Entry : \A p : [x EXCEPT !.path = p] = [path |-> p, content |-> x.content]
      BY DEF Entry
    <3> QED
      BY <2>1, <2>2, <3>1
  <2>4. Contents = {rows[k].content : k \in DOMAIN rows}
    BY DEF Contents, Rows, ToSet
  <2>5. ToSet(rows') = {rows'[k] : k \in DOMAIN rows}
    BY <1>3 DEF ToSet
  <2> DEFINE At(c) == [path |-> Min(PathsOf(c)), content |-> c]
  <2>6. FirstFiles' = {At(c) : c \in Contents} /\ \A k \in DOMAIN rows : rows'[k] = At(rows[k].content)
    BY <1>11, <2>3
  <2> HIDE DEF At
  <2> QED
    BY <2>4, <2>5, <2>6
<1>13. dups' = RestFiles'
  <2>1. RestFiles' = {f \in {[path |-> p, content |-> c] : p \in Taken, c \in Contents} :
                        f.path \in PathsOf(f.content) /\ f \notin ToSet(rows')}
    BY <1>5, <1>10, <1>12 DEF RestFiles
  <2>2. Contents \subseteq Content
    BY <1>1, <1>7 DEF Contents, all
  <2>3. \A c : PathsOf(c) # {} => c \in Contents
    BY <1>6 DEF PathsOf, all
  <2>4. ASSUME NEW f, f.path \in PathsOf(f.content)
        PROVE  f \in [path : Taken, content : Content]
                 <=> f \in {[path |-> p, content |-> c] : p \in Taken, c \in Contents}
    <3>1. f.content \in Contents
      BY <2>3, <2>4
    <3> QED
      BY <2>2, <3>1
  <2> QED
    BY <1>2, <2>1, <2>4
<1>14. DupsKnown'
  <2>1. \A d \in dups' : d.content \in Contents'
    BY <1>5, <1>6, <1>8
  <2> QED
    BY <2>1 DEF DupsKnown, Contents
<1> QED
  BY <1>12, <1>13, <1>14

(* So it is in every history of the book.                                  *)
LEMMA DupsKnownAlways == BookSpec => []DupsKnown
<1>1. BookInit => DupsKnown
  BY DEF BookInit, DupsKnown
<1>2. BookInv /\ DupsKnown /\ [BookNext]_bookVars => DupsKnown'
  <2> SUFFICES ASSUME BookInv, DupsKnown, [BookNext]_bookVars PROVE DupsKnown'
    OBVIOUS
  <2>1. CASE Consolidate
    BY <2>1, ConsolidateFiles
  <2>2. ASSUME NEW p \in Path, NEW c \in Content, CommitFile(p, c) PROVE DupsKnown'
    <3>1. CASE \E r \in Rows : r.content = c
      <4>1. dups' = dups \cup {[path |-> p, content |-> c]} /\ rows' = rows
        BY <2>2, <3>1 DEF CommitFile
      <4> QED
        BY <3>1, <4>1 DEF DupsKnown, Rows
    <3>2. CASE ~\E r \in Rows : r.content = c
      <4> DEFINE e == [path |-> p, content |-> c]
      <4>1. dups' = dups /\ rows' = Append(rows, e) /\ rows \in Seq(Entry)
        BY <2>2, <3>2 DEF CommitFile, BookInv
      <4> HIDE DEF e
      <4>2. Rows' = Rows \cup {e}
        BY <4>1, ToSetAppend DEF Rows
      <4> QED
        BY <4>1, <4>2 DEF DupsKnown
    <3> QED
      BY <3>1, <3>2
  <2>3. CASE UNCHANGED bookVars
    <3>1. rows' = rows /\ dups' = dups
      BY <2>3 DEF bookVars
    <3> QED
      BY <3>1 DEF DupsKnown, Rows
  <2> QED
    BY <2>1, <2>2, <2>3 DEF BookNext
<1> QED
  BY <1>1, <1>2, BookInvAlways, PTL DEF BookSpec

(* A book as another order of the commits would have left it.              *)
Alternative(d, m, e, o, names) ==
  /\ d.raw = e.raw /\ d.authors = e.authors
  /\ d.title = e.title \/ TwoCredits(d.raw, names \cup ToSet(d.recovered))
  /\ SameMerge(m, o)

TableOf(first) == Once(FlattenSeq([k \in DOMAIN first |-> Meta[first[k].content].authors]))
RestOf(first) ==
  {f \in {[path |-> p, content |-> c] : p \in Taken, c \in Contents} :
     f.path \in PathsOf(f.content) /\ f \notin ToSet(first)}

(* ScheduleFree compares the book with its alternative.                    *)
LEMMA FreeIs ==
  ScheduleFree <=>
    (fresh => Alternative(D, M, Describe(ByPath(FirstFiles), RestOf(ByPath(FirstFiles)), TableOf(ByPath(FirstFiles))),
                          Merge(ByPath(FirstFiles)), NamesOf(rows, authors)))
BY DEF ScheduleFree, SameBook, Alternative, SameMerge, FoldedNames, TableOf, Once, RestOf, FirstFiles, Contents,
       NamesOf, Rows, PathsOf, Taken, Distinct, FoldLeft, MapThenFoldSet

(* So it does after a step.                                                *)
LEMMA FreeNext ==
  ScheduleFree' <=>
    (fresh' => Alternative(D', M', Describe(ByPath(FirstFiles'), RestOf(ByPath(FirstFiles))', TableOf(ByPath(FirstFiles'))),
                           Merge(ByPath(FirstFiles')), NamesOf(rows', authors')))
BY DEF ScheduleFree, SameBook, Alternative, SameMerge, FoldedNames, TableOf, Once, RestOf, FirstFiles, Contents,
       NamesOf, Rows, PathsOf, Taken, Distinct, FoldLeft, MapThenFoldSet

(* Described and merged are the same files, whatever sequence they are in. *)
DescribeFiles(sorted, ds, table) ==
  LET files == sorted \o ByPath(ds)
      titles == [k \in DOMAIN sorted |-> Meta[sorted[k].content].title]
      lists == [k \in DOMAIN sorted |-> FileAuthors(sorted[k].content, table)]
      names == Distinct(FlattenSeq(lists), metaKey)
  IN Described(pickTitle(titles, AsSets(names)), pickAuthors(lists), names,
               [k \in DOMAIN files |-> PathOf[files[k].path]])

(* Describe does not see the order of the files it is given.               *)
LEMMA DescribedFiles ==
  ASSUME NEW rs, NEW ss, ToSet(rs) = ToSet(ss), NEW ds, NEW table
  PROVE  Describe(rs, ds, table) = Describe(ss, ds, table)
<1>1. Describe(rs, ds, table) = DescribeFiles(ByPath(ToSet(rs)), ds, table)
  BY DEF Describe, DescribeFiles, Files
<1>2. Describe(ss, ds, table) = DescribeFiles(ByPath(ToSet(ss)), ds, table)
  BY DEF Describe, DescribeFiles, Files
<1> QED
  BY <1>1, <1>2

(* The authors of files committed in an order make a table of them.        *)
LEMMA TableTyped ==
  ASSUME NEW first \in Seq(Entry)
  PROVE  Tabled(first, TableOf(first))
<1> DEFINE n == Len(first)  f == [k \in DOMAIN first |-> Meta[first[k].content].authors]
           all == FlattenSeq(f)  t == Once(all)
<1>1. n \in Nat /\ DOMAIN first = 1..n /\ \A k \in 1..n : first[k] \in Entry
  OBVIOUS
<1>2. \A k \in 1..n : Meta[first[k].content].authors \in Seq(BookTexts)
  <2>1. \A k \in 1..n : first[k].content \in Content
    BY <1>1 DEF Entry
  <2> QED
    BY <2>1, ContentKnown
<1>3. ToSet(first) = {first[k] : k \in 1..n}
  BY <1>1 DEF ToSet
<1> HIDE DEF n
<1>4. SeqsOf(BookTexts, n, f) /\ \A k \in 1..n : f[k] = Meta[first[k].content].authors
  BY <1>1, <1>2 DEF SeqsOf
<1> HIDE DEF f
<1>5. all \in Seq(BookTexts) /\ ToSet(all) = UNION {ToSet(f[i]) : i \in 1..n}
  BY <1>1, <1>4, Gathered
<1> HIDE DEF all
<1>6. t \in Seq(BookTexts) /\ ToSet(t) = ToSet(all) /\ NoTwice(t)
  BY <1>5, OnceSet
<1>7. TableOf(first) = t
  BY DEF TableOf, all, f
<1> HIDE DEF t
<1>8. \A r \in ToSet(first) : ToSet(Meta[r.content].authors) \subseteq ToSet(t)
  BY <1>3, <1>4, <1>5, <1>6
<1> QED
  BY <1>6, <1>7, <1>8 DEF Tabled, Credited

(* Consolidate leaves the book any order of the commits would have left.   *)
LEMMA ConsolidateIsFree ==
  ASSUME BookInv, DupsKnown, Consolidate
  PROVE  ScheduleFree'
<1> DEFINE set == ToSet(rows')  first == ByPath(set)  table == TableOf(first)
           d == D'  m == M'  e == Describe(first, dups', table)  o == Merge(first)
<1>1. /\ OnePathEach(set) /\ BookInv'
      /\ \A r \in set : FileAuthors(r.content, authors') = FileAuthors(r.content, authors)
  BY ConsolidateOk
<1>2. set = FirstFiles' /\ dups' = RestFiles'
  BY ConsolidateFiles
<1>3. first \in Seq(set) /\ ToSet(first) = set
  BY <1>1, ByPathIs
<1>4. dups' = RestOf(ByPath(FirstFiles))'
  <2>1. ToSet(ByPath(FirstFiles')) = FirstFiles'
    BY <1>2, <1>3
  <2> QED
    BY <1>2, <2>1 DEF RestFiles, RestOf
<1>5. /\ rows \in Seq(Entry) /\ dups \subseteq Entry
      /\ authors \in Seq(BookTexts) /\ NoTwice(authors) /\ Credited(rows, authors)
  BY DEF BookInv, OnePathEach
<1>6. /\ rows # <<>> /\ rows' = Canonical(rows, dups)
      /\ d = Describe(rows', dups', authors) /\ m = Merge(rows')
  BY DEF Consolidate, D, M
<1>7. /\ rows' \in Seq(Entry) /\ DOMAIN rows' = DOMAIN rows
      /\ \A k \in DOMAIN rows : rows'[k].content = rows[k].content
  BY <1>5, <1>6, CanonicalKeeps
<1>8. OnePathEach(dups')
  BY <1>1 DEF BookInv, OnePathEach
<1>9. set # {}
  <2>1. 1 \in DOMAIN rows
    BY <1>5, <1>6
  <2> QED
    BY <1>7, <2>1 DEF ToSet
<1>10. Tabled(rows', authors)
  <2>1. \A r \in set : \E x \in ToSet(rows) : x.content = r.content
    BY <1>7 DEF ToSet
  <2> QED
    BY <1>5, <2>1 DEF Tabled, Credited
<1>11. first \in Seq(Entry)
  <2>1. set \subseteq Entry
    BY <1>1 DEF OnePathEach
  <2> HIDE DEF set, first
  <2> QED
    BY <1>3, <2>1
<1>12. Tabled(rows', table)
  <2>1. Tabled(first, table)
    BY <1>11, TableTyped
  <2> HIDE DEF first, table
  <2> QED
    BY <1>3, <2>1 DEF Tabled, Credited
<1>13. SameDescription(d, e, NamesOf(rows', authors))
  <2>1. SameDescription(Describe(rows', dups', authors), Describe(rows', dups', table), NamesOf(rows', authors))
    <3> HIDE DEF table
    <3> QED
      BY <1>1, <1>8, <1>9, <1>10, <1>12, DescribedAlike
  <2>2. Describe(rows', dups', table) = e
    BY <1>3, DescribedFiles
  <2> HIDE DEF d, e
  <2> QED
    BY <1>6, <2>1, <2>2
<1>14. SameMerge(m, o)
  <2>1. SameMerge(Merge(rows'), Merge(first))
    BY <1>3, <1>7, <1>11, MergedAlike
  <2> QED
    BY <1>6, <2>1
<1>15. NamesOf(rows', authors') = NamesOf(rows', authors)
  BY <1>1 DEF NamesOf
<1>16. Alternative(d, m, e, o, NamesOf(rows', authors'))
  <2> HIDE DEF d, m, e, o
  <2> QED
    BY <1>13, <1>14, <1>15 DEF Alternative, SameDescription
<1>17. /\ e = Describe(ByPath(FirstFiles'), RestOf(ByPath(FirstFiles))', TableOf(ByPath(FirstFiles')))
       /\ o = Merge(ByPath(FirstFiles'))
  BY <1>2, <1>4
<1> HIDE DEF d, m, e, o
<1> QED
  BY <1>16, <1>17, FreeNext DEF d, m

(* The book does not tell in which order its files were committed.         *)
THEOREM OrderDoesNotShow == BookSpec => []ScheduleFree
<1>1. BookInit => ScheduleFree
  BY DEF BookInit, ScheduleFree
<1>2. BookInv /\ DupsKnown /\ ScheduleFree /\ [BookNext]_bookVars => ScheduleFree'
  <2> SUFFICES ASSUME BookInv, DupsKnown, ScheduleFree, [BookNext]_bookVars PROVE ScheduleFree'
    OBVIOUS
  <2>1. CASE Consolidate
    BY <2>1, ConsolidateIsFree
  <2>2. CASE \E p \in Path, c \in Content : CommitFile(p, c)
    <3>1. fresh' = FALSE
      BY <2>2 DEF CommitFile
    <3> QED
      BY <3>1 DEF ScheduleFree
  <2>3. CASE UNCHANGED bookVars
    <3>1. rows' = rows /\ dups' = dups /\ authors' = authors /\ book' = book /\ fresh' = fresh
      BY <2>3 DEF bookVars
    <3>2. D' = D /\ M' = M
      BY <3>1 DEF D, M
    <3>3. FirstFiles' = FirstFiles /\ \A f : RestOf(f)' = RestOf(f)
      BY <3>1 DEF FirstFiles, RestOf, Contents, PathsOf, Taken, Rows
    <3>4. RestOf(ByPath(FirstFiles))' = RestOf(ByPath(FirstFiles))
      BY <3>1 DEF FirstFiles, RestOf, Contents, PathsOf, Taken, Rows
    <3> QED
      BY <3>1, <3>2, <3>3, <3>4, FreeIs, FreeNext
  <2> QED
    BY <2>1, <2>2, <2>3 DEF BookNext
<1> QED
  BY <1>1, <1>2, BookInvAlways, DupsKnownAlways, PTL DEF BookSpec
=============================================================================
