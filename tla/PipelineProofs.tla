--------------------------- MODULE PipelineProofs ---------------------------
(***************************************************************************)
(* Proofs about Pipeline, for any tree, any number of workers and any      *)
(* outcome of every parse and transaction.                                 *)
(*                                                                         *)
(* The argument is one of ownership: a subject can be counted by at most   *)
(* one party at a time, counting it gives it up, and nobody gets it back.  *)
(***************************************************************************)
EXTENDS Pipeline, TLAPS

(* What a worker holds at each of its states.                              *)
InHand(w) == pc[w] \in {"popped", "next", "gate", "parse", "commit", "count", "fail", "lose"}
Loaded(w) == pc[w] \in {"next", "gate", "parse", "commit", "count", "fail"}
Busy(w)   == pc[w] \in {"gate", "parse", "commit", "count", "fail"}
Queued    == {queue[n] : n \in DOMAIN queue}

(* An item is in the queue once or in the hands of one worker, and a       *)
(* worker's units are those of its item.                                   *)
QueueOnce ==
  /\ Queued \subseteq results
  /\ \A m, n \in DOMAIN queue : m # n => queue[m] # queue[n]
HandsOnce ==
  /\ \A w \in Workers : InHand(w) => item[w] \in results \ Queued
  /\ \A w, v \in Workers : w # v /\ InHand(w) /\ InHand(v) => item[w] # item[v]
HandsFit == \A w \in Workers :
  /\ Loaded(w) => todo[w] \subseteq Units[item[w]]
  /\ Busy(w) => unit[w] \in Units[item[w]] \ todo[w]
  /\ pc[w] = "lose" => item[w] \in ArchiveItem

OwnInv == TypeOK /\ QueueOnce /\ HandsOnce /\ HandsFit

(* Who may still count a subject: the walk, the queue, or a worker.        *)
AheadOf(s) == \E i \in Item :
  (i \notin results \/ i \in Queued) /\ (s \in Units[i] \/ (s = i /\ s \in ArchiveItem))
MayCount(w, s) ==
  \/ InHand(w) /\ s = item[w] /\ s \in ArchiveItem
  \/ pc[w] = "popped" /\ s \in Units[item[w]]
  \/ Loaded(w) /\ s \in todo[w]
  \/ Busy(w) /\ s = unit[w]
Pending(s) ==
  s \in Dir \ unreadable \/ s \in losing \/ AheadOf(s) \/ \E w \in Workers : MayCount(w, s)

PendingUncounted == \A s \in Subject : Pending(s) => Tally(s) = 0

(* The inductive invariant of the counters.                                *)
CountInv == OwnInv /\ PendingUncounted /\ CountedOnce

(* How the run ends: the queue is closed once the scan has returned, the   *)
(* workers leave an empty, closed queue, and Process returns after them.   *)
Ending ==
  /\ pc[Main] # "scan" => scan # "running"
  /\ qclosed => pc[Main] # "scan"
  /\ ~ctx => \A w \in Workers : pc[w] = "exited" => qclosed /\ queue = <<>>
  /\ scan # "running" => losing = {}
  /\ ~ctx /\ scan = "ok" => Item \subseteq results \cup Scanner!Lost
  /\ outcome # "running" => pc[Main] = "returned"
  /\ pc[Main] = "returned" => ctx /\ \A w \in Workers : pc[w] = "exited"

(* Until the run is cancelled, what nobody will count any more is counted, *)
(* or its archive is, or is about to be.                                   *)
GivenUp(i) == \E w \in Workers : pc[w] = "lose" /\ item[w] = i
NothingLostYet ==
  ~ctx =>
    /\ \A i \in Item : \/ i \in ArchiveItem /\ (failed[i] = 1 \/ GivenUp(i))
                       \/ \A u \in Units[i] : Pending(u) \/ Tally(u) = 1
    /\ \A d \in unreadable : failed[d] = 1 \/ d \in losing

(* The inductive invariant of a complete run.                              *)
LosslessInv == CountInv /\ Ending /\ NothingLostYet /\ NothingDropped

-----------------------------------------------------------------------------
(* A queue of distinct items without its head holds what it held but the   *)
(* head, and no item twice.                                                *)
LEMMA TailOnce ==
  ASSUME NEW q \in Seq(Item), q # <<>>,
         \A m, n \in DOMAIN q : m # n => q[m] # q[n]
  PROVE  /\ Head(q) \in Item /\ Tail(q) \in Seq(Item)
         /\ Head(q) \in {q[n] : n \in DOMAIN q}
         /\ {Tail(q)[n] : n \in DOMAIN Tail(q)} = {q[n] : n \in DOMAIN q} \ {Head(q)}
         /\ \A m, n \in DOMAIN Tail(q) : m # n => Tail(q)[m] # Tail(q)[n]
<1> DEFINE t == Tail(q)
<1>1. /\ Len(q) \in Nat /\ Len(q) > 0 /\ DOMAIN q = 1..Len(q) /\ Head(q) = q[1]
      /\ t \in Seq(Item) /\ Len(t) = Len(q) - 1 /\ DOMAIN t = 1..(Len(q) - 1)
      /\ \A n \in 1..(Len(q) - 1) : t[n] = q[n + 1]
  OBVIOUS
<1>2. \A n \in DOMAIN q : q[n] \in Item
  OBVIOUS
<1> HIDE DEF t
<1>3. \A n \in DOMAIN t : n + 1 \in DOMAIN q /\ n + 1 # 1 /\ t[n] = q[n + 1]
  BY <1>1
<1>4. \A m \in DOMAIN q : m # 1 => m - 1 \in DOMAIN t /\ t[m - 1] = q[m]
  <2> SUFFICES ASSUME NEW m \in 1..Len(q), m # 1
               PROVE  m - 1 \in 1..(Len(q) - 1) /\ t[m - 1] = q[m]
    BY <1>1
  <2>1. m - 1 \in 1..(Len(q) - 1) /\ (m - 1) + 1 = m
    BY <1>1
  <2> QED
    BY <1>1, <2>1
<1>5. 1 \in DOMAIN q
  BY <1>1
<1>6. {t[n] : n \in DOMAIN t} = {q[n] : n \in DOMAIN q} \ {q[1]}
  BY <1>3, <1>4, <1>5
<1>7. \A m, n \in DOMAIN t : m # n => m + 1 # n + 1
  BY <1>1
<1>8. \A m, n \in DOMAIN t : m # n => t[m] # t[n]
  BY <1>3, <1>7
<1> QED
  BY <1>1, <1>2, <1>5, <1>6, <1>8 DEF t

(* Appending an item that is not there keeps the items distinct.           *)
LEMMA AppendOnce ==
  ASSUME NEW q \in Seq(Item), NEW i \in Item, i \notin {q[n] : n \in DOMAIN q},
         \A m, n \in DOMAIN q : m # n => q[m] # q[n]
  PROVE  /\ Append(q, i) \in Seq(Item)
         /\ {Append(q, i)[n] : n \in DOMAIN Append(q, i)} = {q[n] : n \in DOMAIN q} \cup {i}
         /\ \A m, n \in DOMAIN Append(q, i) : m # n => Append(q, i)[m] # Append(q, i)[n]
<1> DEFINE t == Append(q, i)
<1>1. /\ Len(q) \in Nat /\ DOMAIN q = 1..Len(q) /\ t \in Seq(Item) /\ Len(t) = Len(q) + 1
      /\ DOMAIN t = 1..(Len(q) + 1) /\ t[Len(q) + 1] = i
      /\ \A n \in 1..Len(q) : t[n] = q[n]
  OBVIOUS
<1> HIDE DEF t
<1>2. DOMAIN t = DOMAIN q \cup {Len(q) + 1} /\ Len(q) + 1 \notin DOMAIN q
  BY <1>1
<1> QED
  BY <1>1, <1>2 DEF t

(* A counter of one subject is raised by at most one.                      *)
LEMMA CounterTypes ==
  ASSUME TypeOK, NEW s \in Subject
  PROVE  /\ AddFailure(s) => failed' \in [Subject -> Nat]
         /\ Skip(s) => skipped' \in [Subject -> Nat]
         /\ [parsed EXCEPT ![s] = @ + 1] \in [Subject -> Nat]
<1>1. \A f \in [Subject -> Nat] : [f EXCEPT ![s] = @ + 1] \in [Subject -> Nat]
  OBVIOUS
<1>2. /\ failed \in [Subject -> Nat] /\ skipped \in [Subject -> Nat]
      /\ parsed \in [Subject -> Nat]
  BY DEF TypeOK
<1> QED
  BY <1>1, <1>2 DEF AddFailure, Skip

(* What a worker works on is a unit.                                       *)
LEMMA BusyUnit ==
  ASSUME OwnInv, NEW w \in Workers, Busy(w)
  PROVE  unit[w] \in Unit /\ unit[w] \in Subject /\ item[w] \in Item
<1>1. unit[w] \in Units[item[w]] /\ item[w] \in Item
  BY DEF OwnInv, HandsOnce, HandsFit, InHand, Busy, TypeOK
<1> QED
  BY <1>1, PipelineAssumption DEF Subject

(* Going to another state keeps every goroutine at states of its kind.     *)
PcType ==
  /\ pc \in [Workers \cup {Main} -> WorkerStates \cup MainStates]
  /\ pc[Main] \in MainStates /\ \A w \in Workers : pc[w] \in WorkerStates

(* A process goes to a place of its own.                                   *)
LEMMA GotoType ==
  ASSUME PcType
  PROVE  /\ \A w \in Workers, n \in WorkerStates : pc' = [pc EXCEPT ![w] = n] => PcType'
         /\ \A n \in MainStates : pc' = [pc EXCEPT ![Main] = n] => PcType'
         /\ pc' = pc => PcType'
BY PipelineAssumption DEF PcType

(* The unchanged rest of the state keeps its types.                        *)
WorkType ==
  /\ item \in [Workers -> Item \cup {AnyItem}] /\ unit \in [Workers -> Unit \cup {AnyUnit}]
  /\ todo \in [Workers -> SUBSET Unit]
RunType ==
  /\ results \subseteq Item /\ unreadable \subseteq Dir /\ losing \subseteq unreadable
  /\ scan \in {"running", "ok", "fatal"}
  /\ ctx \in BOOLEAN /\ cancelled \in BOOLEAN /\ qclosed \in BOOLEAN /\ fatal \in BOOLEAN
  /\ outcome \in {"running", "ok", "fatal", "scan error", "canceled"}
CountType ==
  /\ parsed \in [Subject -> Nat] /\ failed \in [Subject -> Nat]
  /\ skipped \in [Subject -> Nat]
  /\ rows \subseteq Unit

(* The type invariant is that of its parts.                                *)
LEMMA TypeParts ==
  /\ TypeOK <=> PcType /\ WorkType /\ RunType /\ CountType /\ queue \in Seq(Item)
  /\ TypeOK' <=> PcType' /\ WorkType' /\ RunType' /\ CountType' /\ queue' \in Seq(Item)
BY DEF TypeOK, PcType, WorkType, RunType, CountType

(* Every step keeps the types.                                             *)
LEMMA TypeStep == OwnInv /\ [Next]_vars => TypeOK'
<1> SUFFICES ASSUME OwnInv, [Next]_vars PROVE TypeOK'
  OBVIOUS
<1>0. TypeOK /\ PcType /\ WorkType /\ RunType /\ CountType /\ queue \in Seq(Item)
  BY TypeParts DEF OwnInv
<1> USE DEF discoveryVars, queueVars, workVars, countVars
<1>1. PcType'
  <2>1. ASSUME NEW i \in Item, OnResult(i) PROVE PcType'
    <3>1. pc' = pc \/ \E w \in Workers : pc' = [pc EXCEPT ![w] = "pop"]
      BY <2>1 DEF OnResult, Goto
    <3> QED
      BY <1>0, <3>1, GotoType DEF WorkerStates
  <2>2. ASSUME NEW w \in Workers, Worker(w) PROVE PcType'
    <3>1. \E n \in WorkerStates : pc' = [pc EXCEPT ![w] = n]
      BY <2>2 DEF Worker, ProcessSource, ParseEbook, Connect, Pop, Popped, NextUnit, ArchiveFails,
         ArchiveFailed, PassOver, Open, Parse, Commit, Count, UnitFailed, Goto, FailOpening, Fail,
         WorkerStates
    <3> QED
      BY <1>0, <3>1, GotoType
  <2>3. CASE EndQueue
    BY <1>0, <2>3, PipelineAssumption DEF EndQueue, PcType, WorkerStates, MainStates
  <2>4. CASE Return
    BY <1>0, <2>4, GotoType DEF Return, Goto, MainStates
  <2>5. CASE pc' = pc
    BY <1>0, <2>5, GotoType
  <2> QED
    BY <2>1, <2>2, <2>3, <2>4, <2>5 DEF Next, Walk, Process, OnError, DirFailed, ScanReturns,
       Cancel, Done, vars
<1>2. WorkType'
  <2>1. ASSUME NEW w \in Workers, Pop(w), queue # <<>> PROVE WorkType'
    <3>1. Head(queue) \in Item
      BY <1>0, <2>1
    <3> QED
      BY <1>0, <2>1, <3>1 DEF Pop, WorkType
  <2>2. ASSUME NEW w \in Workers, Popped(w) PROVE WorkType'
    <3>1. item[w] \in Item
      BY <1>0, <2>2 DEF Popped, OwnInv, HandsOnce, InHand, RunType
    <3>2. Units[item[w]] \in SUBSET Unit
      BY <3>1, PipelineAssumption
    <3> QED
      BY <1>0, <2>2, <3>2 DEF Popped, WorkType
  <2>3. ASSUME NEW w \in Workers, NextUnit(w) PROVE WorkType'
    BY <1>0, <2>3 DEF NextUnit, WorkType
  <2>4. CASE UNCHANGED workVars
    BY <1>0, <2>4 DEF WorkType
  <2>5. ASSUME NEW w \in Workers, Worker(w), ~Popped(w), ~NextUnit(w), ~(Pop(w) /\ queue # <<>>)
        PROVE  UNCHANGED workVars
    BY <2>5 DEF Worker, ProcessSource, ParseEbook, Connect, Pop, ArchiveFails, ArchiveFailed,
       PassOver, Open, Parse, Commit, Count, UnitFailed
  <2> QED
    BY <2>1, <2>2, <2>3, <2>4, <2>5 DEF Next, Walk, Process, OnResult, OnError, DirFailed,
       ScanReturns, EndQueue, Return, Cancel, Done, vars
<1>3. RunType'
  <2>1. ASSUME NEW w \in Workers, Worker(w) PROVE RunType'
    BY <1>0, <2>1 DEF Worker, ProcessSource, ParseEbook, Connect, Pop, Popped, NextUnit,
       ArchiveFails, ArchiveFailed, PassOver, Open, Parse, Commit, Count, UnitFailed, RunType
  <2>2. CASE Walk
    BY <1>0, <2>2 DEF Walk, OnResult, OnError, DirFailed, ScanReturns, Scanner!Discover,
       Scanner!LoseDir, Scanner!ScanReturns, RunType
  <2>3. CASE EndQueue
    BY <1>0, <2>3 DEF EndQueue, RunType
  <2>4. CASE Return
    BY <1>0, <2>4 DEF Return, RunType
  <2>5. CASE Cancel \/ Done \/ UNCHANGED vars
    BY <1>0, <2>5 DEF Cancel, Done, vars, RunType
  <2> QED
    BY <2>1, <2>2, <2>3, <2>4, <2>5 DEF Next, Process
<1>4. CountType'
  <2>1. ASSUME NEW d \in Dir, DirFailed(d) PROVE CountType'
    BY <1>0, <2>1, TypeParts, CounterTypes DEF DirFailed, Subject, CountType
  <2>2. ASSUME NEW w \in Workers, ArchiveFailed(w) PROVE CountType'
    <3>1. item[w] \in Subject
      BY <2>2 DEF ArchiveFailed, OwnInv, HandsFit, Subject
    <3> QED
      BY <1>0, <2>2, <3>1, TypeParts, CounterTypes DEF ArchiveFailed, CountType
  <2>3. ASSUME NEW w \in Workers, PassOver(w) \/ Parse(w) PROVE CountType'
    <3>1. unit[w] \in Subject
      BY BusyUnit, <2>3 DEF PassOver, Parse, Busy
    <3> QED
      BY <1>0, <2>3, <3>1, TypeParts, CounterTypes DEF PassOver, Parse, CountType
  <2>4. ASSUME NEW w \in Workers, Commit(w) \/ Count(w) \/ UnitFailed(w) PROVE CountType'
    <3>1. unit[w] \in Unit /\ unit[w] \in Subject
      BY BusyUnit, <2>4 DEF Commit, Count, UnitFailed, Busy
    <3> QED
      BY <1>0, <2>4, <3>1, TypeParts, CounterTypes DEF Commit, Count, UnitFailed, CountType
  <2>5. CASE UNCHANGED countVars
    BY <1>0, <2>5 DEF CountType
  <2> QED
    BY <2>1, <2>2, <2>3, <2>4, <2>5 DEF Next, Walk, Worker, ProcessSource, ParseEbook, Process,
       OnResult, OnError, ScanReturns, Connect, Pop, Popped, NextUnit, ArchiveFails, Open,
       EndQueue, Return, Cancel, Done, vars
<1>5. queue' \in Seq(Item)
  <2>0. <<>> \in Seq(Item)
    OBVIOUS
  <2>1. CASE queue' = queue \/ queue' = <<>>
    BY <1>0, <2>0, <2>1
  <2>2. ASSUME NEW i \in Item, queue' = Append(queue, i) PROVE queue' \in Seq(Item)
    BY <1>0, <2>2
  <2>3. CASE queue # <<>> /\ queue' = Tail(queue)
    BY <1>0, <2>3
  <2> QED
    BY <2>1, <2>2, <2>3 DEF Next, Walk, Worker, ProcessSource, ParseEbook, Process, OnResult,
       OnError, DirFailed, ScanReturns, Connect, Pop, Popped, NextUnit, ArchiveFails,
       ArchiveFailed, PassOver, Open, Parse, Commit, Count, UnitFailed, EndQueue, Return, Cancel,
       Done, vars
<1> QED
  BY <1>1, <1>2, <1>3, <1>4, <1>5, TypeParts

-----------------------------------------------------------------------------
(* The steps of a worker that keep its item keep the rest of them, too.    *)
LEMMA WorkerKeeps ==
  ASSUME TypeOK, NEW w \in Workers, Popped(w) \/ ProcessSource(w)
  PROVE  /\ UNCHANGED <<discoveryVars, queue, item, losing>>
         /\ InHand(w)
         /\ \A v \in Workers : v # w => /\ pc'[v] = pc[v] /\ todo'[v] = todo[v]
                                        /\ unit'[v] = unit[v]
BY DEF Popped, ProcessSource, NextUnit, ArchiveFails, ArchiveFailed, PassOver, Open,
   ParseEbook, Parse, Commit, Count, UnitFailed, Fail, FailOpening, Goto,
   queueVars, workVars, TypeOK, InHand

(* No two parties hold the same item.                                      *)
LEMMA OwnStep == OwnInv /\ [Next]_vars => QueueOnce' /\ HandsOnce'
<1> SUFFICES ASSUME OwnInv, [Next]_vars PROVE QueueOnce' /\ HandsOnce'
  OBVIOUS
<1>0. TypeOK /\ QueueOnce /\ HandsOnce
  BY DEF OwnInv
<1> USE DEF discoveryVars, queueVars, workVars
<1>1. ASSUME NEW i \in Item, OnResult(i) PROVE QueueOnce' /\ HandsOnce'
  <2>1. i \notin results /\ results' = results \cup {i} /\ item' = item
    BY <1>1 DEF OnResult, Scanner!Discover
  <2>2. \A w \in Workers : InHand(w)' <=> InHand(w)
    BY <1>0, <1>1 DEF OnResult, Goto, InHand, TypeOK
  <2>3. CASE queue' = queue
    BY <1>0, <2>1, <2>2, <2>3 DEF QueueOnce, HandsOnce, Queued
  <2>4. CASE queue' = Append(queue, i)
    <3>1. queue \in Seq(Item) /\ i \notin {queue[n] : n \in DOMAIN queue}
      BY <1>0, <2>1 DEF TypeOK, QueueOnce, Queued
    <3>2. Queued' = Queued \cup {i} /\ \A m, n \in DOMAIN queue' : m # n => queue'[m] # queue'[n]
      BY <1>0, <2>4, <3>1, AppendOnce DEF QueueOnce, Queued
    <3> QED
      BY <1>0, <2>1, <2>2, <3>2 DEF QueueOnce, HandsOnce
  <2> QED
    BY <1>1, <2>3, <2>4 DEF OnResult
<1>2. ASSUME NEW w \in Workers, Connect(w) PROVE QueueOnce' /\ HandsOnce'
  <2>1. UNCHANGED <<results, queue, item>> /\ \A v \in Workers : InHand(v)' <=> InHand(v)
    BY <1>0, <1>2 DEF Connect, Goto, InHand, TypeOK
  <2> QED
    BY <1>0, <2>1 DEF QueueOnce, HandsOnce, Queued
<1>3. ASSUME NEW w \in Workers, Pop(w) PROVE QueueOnce' /\ HandsOnce'
  <2>1. results' = results /\ ~InHand(w) /\ \A v \in Workers : v # w => (InHand(v)' <=> InHand(v))
    BY <1>0, <1>3 DEF Pop, Goto, InHand, TypeOK
  <2>2. CASE queue # <<>>
    <3>1. /\ Head(queue) \in Queued /\ Queued' = Queued \ {Head(queue)}
          /\ \A m, n \in DOMAIN queue' : m # n => queue'[m] # queue'[n]
      <4>1. queue \in Seq(Item) /\ \A m, n \in DOMAIN queue : m # n => queue[m] # queue[n]
        BY <1>0 DEF TypeOK, QueueOnce
      <4>2. queue' = Tail(queue)
        BY <1>3, <2>2 DEF Pop
      <4>3. /\ Head(queue) \in {queue[n] : n \in DOMAIN queue}
            /\ {Tail(queue)[n] : n \in DOMAIN Tail(queue)}
                 = {queue[n] : n \in DOMAIN queue} \ {Head(queue)}
            /\ \A m, n \in DOMAIN Tail(queue) : m # n => Tail(queue)[m] # Tail(queue)[n]
        BY <2>2, <4>1, TailOnce
      <4> QED
        BY <4>2, <4>3 DEF Queued
    <3>2. item'[w] = Head(queue) /\ \A v \in Workers : v # w => item'[v] = item[v]
      BY <1>0, <1>3, <2>2 DEF Pop, TypeOK
    <3> QED
      BY <1>0, <2>1, <3>1, <3>2 DEF QueueOnce, HandsOnce
  <2>3. CASE queue = <<>>
    <3>1. UNCHANGED <<queue, item>> /\ ~InHand(w)'
      BY <1>0, <1>3, <2>3 DEF Pop, Goto, InHand, TypeOK
    <3> QED
      BY <1>0, <2>1, <3>1 DEF QueueOnce, HandsOnce, Queued
  <2> QED
    BY <2>2, <2>3
<1>4. ASSUME NEW w \in Workers, Popped(w) \/ ProcessSource(w)
      PROVE  QueueOnce' /\ HandsOnce'
  <2>1. UNCHANGED <<results, queue, item>> /\ \A v \in Workers : InHand(v)' => InHand(v)
    BY <1>0, <1>4, WorkerKeeps DEF InHand
  <2> QED
    BY <1>0, <2>1 DEF QueueOnce, HandsOnce, Queued
<1>5. CASE EndQueue
  <2>1. UNCHANGED <<results, item>> /\ \A v \in Workers : InHand(v)' => InHand(v)
    BY <1>0, <1>5, PipelineAssumption DEF EndQueue, InHand, TypeOK
  <2>2. CASE queue' = queue
    BY <1>0, <2>1, <2>2 DEF QueueOnce, HandsOnce, Queued
  <2>3. CASE queue' = <<>>
    <3>1. Queued' = {} /\ DOMAIN queue' = {}
      BY <2>3 DEF Queued
    <3> QED
      BY <1>0, <2>1, <3>1 DEF QueueOnce, HandsOnce
  <2> QED
    BY <1>5, <2>2, <2>3 DEF EndQueue
<1>6. CASE Return
  <2>1. UNCHANGED <<results, queue, item>> /\ \A v \in Workers : InHand(v)' => InHand(v)
    BY <1>0, <1>6, PipelineAssumption DEF Return, Goto, InHand, TypeOK
  <2> QED
    BY <1>0, <2>1 DEF QueueOnce, HandsOnce, Queued
<1>7. CASE UNCHANGED <<results, queue, item, pc>>
  BY <1>0, <1>7 DEF QueueOnce, HandsOnce, Queued, InHand
<1> QED
  BY <1>1, <1>2, <1>3, <1>4, <1>5, <1>6, <1>7 DEF Next, Walk, Worker, ProcessSource, Process,
     OnError, DirFailed, Scanner!LoseDir, ScanReturns, Scanner!ScanReturns, Cancel, Done, vars

(* A worker's units are those of its item, and the one it is at is not     *)
(* among those to come.                                                    *)
LEMMA FitStep == OwnInv /\ [Next]_vars => HandsFit'
<1> SUFFICES ASSUME OwnInv, [Next]_vars PROVE HandsFit'
  OBVIOUS
<1>0. TypeOK /\ HandsFit
  BY DEF OwnInv
<1> USE DEF discoveryVars, queueVars, workVars
<1>1. ASSUME NEW w \in Workers, Connect(w) \/ Pop(w) PROVE HandsFit'
  <2>1. \A v \in Workers : v # w => UNCHANGED <<pc[v], todo[v], unit[v], item[v]>>
    BY <1>0, <1>1 DEF Connect, Pop, Goto, TypeOK
  <2>2. ~Loaded(w)' /\ ~Busy(w)' /\ pc'[w] # "lose"
    BY <1>0, <1>1 DEF Connect, Pop, Goto, TypeOK, Loaded, Busy
  <2> QED
    BY <1>0, <2>1, <2>2 DEF HandsFit, Loaded, Busy
<1>2. ASSUME NEW w \in Workers, Popped(w) \/ ProcessSource(w)
      PROVE  HandsFit'
  <2>1. item' = item /\ \A v \in Workers : v # w => UNCHANGED <<pc[v], todo[v], unit[v]>>
    BY <1>0, <1>2, WorkerKeeps
  <2>2. CASE Popped(w)
    <3>1. ~Busy(w)' /\ pc'[w] # "lose" /\ (Loaded(w)' => todo'[w] = Units[item[w]])
      BY <1>0, <2>2 DEF Popped, Goto, Loaded, Busy, TypeOK
    <3> QED
      BY <1>0, <2>1, <3>1 DEF HandsFit, Loaded, Busy
  <2>3. CASE NextUnit(w)
    <3>1. \/ ~Loaded(w)' /\ ~Busy(w)'
          \/ \E u \in todo[w] : todo'[w] = todo[w] \ {u} /\ unit'[w] = u
      BY <1>0, <2>3 DEF NextUnit, Goto, Loaded, Busy, TypeOK
    <3>2. Loaded(w) /\ pc'[w] # "lose"
      BY <1>0, <2>3 DEF NextUnit, Goto, Loaded, TypeOK
    <3> QED
      BY <1>0, <2>1, <3>1, <3>2 DEF HandsFit, Loaded, Busy
  <2>4. CASE ProcessSource(w) /\ ~NextUnit(w)
    <3>1. /\ UNCHANGED <<todo, unit>> /\ (Loaded(w)' => Loaded(w)) /\ (Busy(w)' => Busy(w))
          /\ pc'[w] = "lose" => item[w] \in ArchiveItem
      BY <1>0, <2>4 DEF ProcessSource, ArchiveFails, ArchiveFailed, PassOver, Open, ParseEbook,
         Parse, Commit, Count, UnitFailed, Goto, FailOpening, Fail, Loaded, Busy, TypeOK
    <3> QED
      BY <1>0, <2>1, <3>1 DEF HandsFit, Loaded, Busy
  <2> QED
    BY <1>2, <2>2, <2>3, <2>4
<1> DEFINE Kept == \A w \in Workers : /\ (Loaded(w)' => Loaded(w)) /\ (Busy(w)' => Busy(w))
                                      /\ pc'[w] = "lose" => pc[w] = "lose"
<1>3. CASE UNCHANGED workVars /\ Kept
  BY <1>0, <1>3 DEF HandsFit
<1>4. ASSUME NEW i \in Item, OnResult(i) PROVE Kept
  BY <1>0, <1>4 DEF OnResult, Goto, Loaded, Busy, TypeOK
<1>5. ASSUME EndQueue \/ Return PROVE Kept
  BY <1>0, <1>5, PipelineAssumption DEF EndQueue, Return, Goto, Loaded, Busy, TypeOK
<1>6. ASSUME UNCHANGED pc PROVE Kept
  BY <1>6 DEF Loaded, Busy
<1> HIDE DEF Kept
<1> QED
  BY <1>1, <1>2, <1>3, <1>4, <1>5, <1>6 DEF Next, Walk, Worker, Process, OnResult, OnError,
     DirFailed, ScanReturns, EndQueue, Return, Cancel, Done, vars

-----------------------------------------------------------------------------
(* Only one party may count a subject.                                     *)
LEMMA Exclusive ==
  ASSUME OwnInv, NEW s
  PROVE  /\ AheadOf(s) => s \in Unit \cup ArchiveItem
         /\ \A w \in Workers : MayCount(w, s) =>
              /\ s \in Unit \cup ArchiveItem /\ ~AheadOf(s)
              /\ \A v \in Workers : MayCount(v, s) => v = w
<1>0. TypeOK /\ QueueOnce /\ HandsOnce /\ HandsFit
  BY DEF OwnInv
<1>1. \A i \in Item : Units[i] \subseteq Unit
  BY PipelineAssumption
<1>2. AheadOf(s) => s \in Unit \cup ArchiveItem
  BY <1>1 DEF AheadOf
<1>3. \A w \in Workers : InHand(w) => item[w] \in Item
  BY <1>0 DEF HandsOnce, TypeOK
<1>4. \A w \in Workers : MayCount(w, s) =>
        InHand(w) /\ (s \in Units[item[w]] \/ (s = item[w] /\ s \in ArchiveItem))
  BY <1>0 DEF MayCount, InHand, Loaded, Busy, HandsFit
<1>5. \A i, j \in Item :
        (s \in Units[i] \/ (s = i /\ s \in ArchiveItem))
          /\ (s \in Units[j] \/ (s = j /\ s \in ArchiveItem)) => i = j
  BY <1>1, PipelineAssumption
<1>6. ASSUME NEW w \in Workers, MayCount(w, s) PROVE ~AheadOf(s)
  BY <1>0, <1>3, <1>4, <1>5, <1>6 DEF AheadOf, HandsOnce
<1>7. ASSUME NEW w \in Workers, MayCount(w, s), NEW v \in Workers, MayCount(v, s) PROVE v = w
  BY <1>0, <1>3, <1>4, <1>5, <1>7 DEF HandsOnce
<1>8. \A w \in Workers : MayCount(w, s) => s \in Unit \cup ArchiveItem
  BY <1>1, <1>3, <1>4
<1> QED
  BY <1>2, <1>6, <1>7, <1>8

(* What the steps of a worker on its item leave to the others.             *)
LEMMA OthersKeep ==
  ASSUME TypeOK, NEW w \in Workers, NEW s,
         Popped(w) \/ ProcessSource(w)
  PROVE  /\ unreadable' = unreadable /\ (AheadOf(s)' <=> AheadOf(s))
         /\ \A v \in Workers \ {w} : MayCount(v, s)' <=> MayCount(v, s)
<1>1. /\ UNCHANGED <<results, unreadable, queue, item>>
      /\ \A v \in Workers \ {w} : UNCHANGED <<pc[v], todo[v], unit[v]>>
  BY WorkerKeeps DEF discoveryVars
<1>2. AheadOf(s)' <=> AheadOf(s)
  BY <1>1 DEF AheadOf, Queued
<1>3. \A v \in Workers \ {w} : MayCount(v, s)' <=> MayCount(v, s)
  BY <1>1 DEF MayCount, InHand, Loaded, Busy
<1> QED
  BY <1>1, <1>2, <1>3

(* Nobody gets a subject back: what may be counted after a step could be   *)
(* counted before it.                                                      *)
LEMMA PendingShrinks == OwnInv /\ [Next]_vars => \A s \in Subject : Pending(s)' => Pending(s)
<1> SUFFICES ASSUME OwnInv, [Next]_vars, NEW s \in Subject, Pending(s)' PROVE Pending(s)
  OBVIOUS
<1>0. TypeOK /\ QueueOnce /\ HandsOnce /\ HandsFit
  BY DEF OwnInv
<1> USE DEF discoveryVars, queueVars, workVars
<1>1. ASSUME NEW i \in Item, OnResult(i) PROVE Pending(s)
  <2>1. i \notin results /\ results' = results \cup {i} /\ UNCHANGED <<unreadable, losing>>
    BY <1>1 DEF OnResult, Scanner!Discover
  <2>2. Queued' \subseteq Queued \cup {i}
    <3>1. CASE queue' = queue
      BY <3>1 DEF Queued
    <3>2. CASE queue' = Append(queue, i)
      <4>1. /\ queue \in Seq(Item) /\ i \notin {queue[n] : n \in DOMAIN queue}
            /\ \A m, n \in DOMAIN queue : m # n => queue[m] # queue[n]
        BY <1>0, <2>1 DEF TypeOK, QueueOnce, Queued
      <4>2. {Append(queue, i)[n] : n \in DOMAIN Append(queue, i)}
              = {queue[n] : n \in DOMAIN queue} \cup {i}
        BY <4>1, AppendOnce
      <4> QED
        BY <3>2, <4>2 DEF Queued
    <3> QED
      BY <1>1, <3>1, <3>2 DEF OnResult
  <2>3. AheadOf(s)' => AheadOf(s)
    BY <2>1, <2>2 DEF AheadOf
  <2>4. \A w \in Workers : MayCount(w, s)' => MayCount(w, s)
    BY <1>0, <1>1 DEF OnResult, Goto, TypeOK, MayCount, InHand, Loaded, Busy
  <2> QED
    BY <2>1, <2>3, <2>4 DEF Pending
<1>2. ASSUME NEW w \in Workers, Connect(w) PROVE Pending(s)
  <2>1. \A v \in Workers : MayCount(v, s)' => MayCount(v, s)
    BY <1>0, <1>2 DEF Connect, Goto, TypeOK, MayCount, InHand, Loaded, Busy
  <2>2. UNCHANGED <<results, unreadable, losing, queue>>
    BY <1>2 DEF Connect
  <2> QED
    BY <2>1, <2>2 DEF Pending, AheadOf, Queued
<1>3. ASSUME NEW w \in Workers, Pop(w) PROVE Pending(s)
  <2>1. \A v \in Workers \ {w} : MayCount(v, s)' => MayCount(v, s)
    BY <1>0, <1>3 DEF Pop, Goto, TypeOK, MayCount, InHand, Loaded, Busy
  <2>2. UNCHANGED <<results, unreadable, losing>>
    BY <1>3 DEF Pop
  <2>3. CASE queue # <<>>
    <3>1. queue \in Seq(Item) /\ queue' = Tail(queue)
      BY <1>0, <1>3, <2>3 DEF Pop, TypeOK
    <3>2. Head(queue) \in Queued /\ Head(queue) \in Item /\ Queued' \subseteq Queued
      BY <1>0, <2>3, <3>1, TailOnce DEF QueueOnce, Queued
    <3>3. item'[w] = Head(queue) /\ pc'[w] = "popped"
      BY <1>0, <1>3, <2>3 DEF Pop, Goto, TypeOK
    <3>4. MayCount(w, s)' => AheadOf(s)
      BY <3>2, <3>3 DEF MayCount, Loaded, Busy, AheadOf
    <3> QED
      BY <2>1, <2>2, <3>2, <3>4 DEF Pending, AheadOf
  <2>4. CASE queue = <<>>
    <3>1. ~MayCount(w, s)' /\ queue' = queue
      BY <1>0, <1>3, <2>4 DEF Pop, Goto, TypeOK, MayCount, InHand, Loaded, Busy
    <3> QED
      BY <2>1, <2>2, <3>1 DEF Pending, AheadOf, Queued
  <2> QED
    BY <2>3, <2>4
<1>4. ASSUME NEW w \in Workers, Popped(w) \/ ProcessSource(w)
      PROVE  Pending(s)
  <2>1. MayCount(w, s)' => MayCount(w, s)
    <3>1. CASE Popped(w)
      BY <1>0, <3>1 DEF Popped, Goto, TypeOK, MayCount, InHand, Loaded, Busy
    <3>2. CASE NextUnit(w)
      <4>1. pc[w] = "next" /\ item' = item
            /\ \/ pc'[w] = "pop"
               \/ /\ pc'[w] = "gate"
                  /\ \E u \in todo[w] : todo'[w] = todo[w] \ {u} /\ unit'[w] = u
        BY <1>0, <3>2 DEF NextUnit, Goto, TypeOK
      <4> QED
        BY <4>1 DEF MayCount, InHand, Loaded, Busy
    <3>3. CASE ProcessSource(w) /\ ~NextUnit(w)
      BY <1>0, <3>3 DEF ProcessSource, ArchiveFails, ArchiveFailed, PassOver, Open, ParseEbook,
         Parse, Commit, Count, UnitFailed, Goto, FailOpening, Fail, TypeOK, MayCount, InHand,
         Loaded, Busy
    <3> QED
      BY <1>4, <3>1, <3>2, <3>3
  <2>2. UNCHANGED <<unreadable, losing>> /\ (AheadOf(s)' <=> AheadOf(s))
        /\ \A v \in Workers \ {w} : MayCount(v, s)' <=> MayCount(v, s)
    BY <1>0, <1>4, OthersKeep, WorkerKeeps
  <2> QED
    BY <2>1, <2>2 DEF Pending
<1>5. CASE EndQueue \/ Return
  <2>1. \A w \in Workers : pc'[w] = pc[w] \/ (pc[w] = "wait" /\ pc'[w] = "pop")
    <3>1. /\ \A w \in Workers : w # Main
          /\ pc \in [Workers \cup {Main} -> WorkerStates \cup MainStates]
      BY <1>0, PipelineAssumption DEF TypeOK
    <3>2. CASE EndQueue
      BY <3>1, <3>2 DEF EndQueue
    <3>3. CASE Return
      BY <3>1, <3>3 DEF Return, Goto
    <3> QED
      BY <1>5, <3>2, <3>3
  <2>4. \A w \in Workers : MayCount(w, s)' => MayCount(w, s)
    <3>1. UNCHANGED <<item, todo, unit>>
      BY <1>5 DEF EndQueue, Return
    <3> QED
      BY <2>1, <3>1 DEF MayCount, InHand, Loaded, Busy
  <2>2. UNCHANGED <<results, unreadable, losing>> /\ (queue' = queue \/ queue' = <<>>)
    BY <1>5 DEF EndQueue, Return
  <2>3. Queued' \subseteq Queued
    BY <2>2 DEF Queued
  <2> QED
    BY <2>2, <2>3, <2>4 DEF Pending, AheadOf
<1>6. CASE /\ UNCHANGED <<results, queue, pc, workVars>> /\ unreadable \subseteq unreadable'
           /\ losing' \subseteq losing \cup (Dir \ unreadable)
  BY <1>6 DEF Pending, AheadOf, Queued, MayCount, InHand, Loaded, Busy
<1> QED
  BY <1>1, <1>2, <1>3, <1>4, <1>5, <1>6 DEF Next, Walk, Worker, ProcessSource, Process, OnError,
     DirFailed, Scanner!LoseDir, ScanReturns, Scanner!ScanReturns, Cancel, Done, vars

-----------------------------------------------------------------------------
(* The counters of one subject go up by at most one, the others stay.      *)
Raised(s) ==
  /\ \A t \in Subject \ {s} : Tally(t)' = Tally(t)
  /\ Tally(s)' \in {Tally(s), Tally(s) + 1}
  /\ \A t \in Subject : parsed'[t] >= parsed[t] /\ failed'[t] >= failed[t]

(* One count of one subject goes up by one.                                *)
LEMMA RaiseOne ==
  ASSUME CountType, NEW s \in Subject,
         \A t \in Subject \ {s} :
           parsed'[t] = parsed[t] /\ failed'[t] = failed[t] /\ skipped'[t] = skipped[t],
         \/ parsed'[s] = parsed[s] + 1 /\ failed'[s] = failed[s] /\ skipped'[s] = skipped[s]
         \/ parsed'[s] = parsed[s] /\ failed'[s] = failed[s] + 1 /\ skipped'[s] = skipped[s]
         \/ parsed'[s] = parsed[s] /\ failed'[s] = failed[s] /\ skipped'[s] = skipped[s] + 1
  PROVE  Raised(s) /\ Tally(s)' = Tally(s) + 1
<1>1. \A t \in Subject : parsed[t] \in Nat /\ failed[t] \in Nat /\ skipped[t] \in Nat
  BY DEF CountType
<1>2. Tally(s)' = Tally(s) + 1
  BY <1>1 DEF Tally
<1>3. \A t \in Subject \ {s} : Tally(t)' = Tally(t)
  BY DEF Tally
<1>4. \A t \in Subject : parsed'[t] >= parsed[t] /\ failed'[t] >= failed[t]
  BY <1>1
<1> QED
  BY <1>2, <1>3, <1>4 DEF Raised


(* A failed subject is counted once, as failed.                            *)
LEMMA FailRaises ==
  ASSUME CountType, NEW s \in Subject, UNCHANGED <<parsed, skipped>>, AddFailure(s)
  PROVE  Raised(s) /\ Tally(s)' = Tally(s) + 1 /\ failed'[s] = failed[s] + 1
<1>1. failed'[s] = failed[s] + 1 /\ \A t \in Subject \ {s} : failed'[t] = failed[t]
  BY DEF CountType, AddFailure
<1> QED
  BY <1>1, RaiseOne

(* A skipped subject is counted once, as skipped.                          *)
LEMMA SkipRaises ==
  ASSUME CountType, NEW s \in Subject, UNCHANGED <<parsed, failed>>, Skip(s)
  PROVE  Raised(s) /\ Tally(s)' = Tally(s) + 1
<1>1. skipped'[s] = skipped[s] + 1 /\ \A t \in Subject \ {s} : skipped'[t] = skipped[t]
  BY DEF CountType, Skip
<1> QED
  BY <1>1, RaiseOne

(* A parsed subject is counted once, as parsed.                            *)
LEMMA ParsedRaises ==
  ASSUME CountType, NEW s \in Subject, UNCHANGED <<failed, skipped>>,
         parsed' = [parsed EXCEPT ![s] = @ + 1]
  PROVE  Raised(s) /\ Tally(s)' = Tally(s) + 1 /\ parsed'[s] = parsed[s] + 1
<1>1. parsed'[s] = parsed[s] + 1 /\ \A t \in Subject \ {s} : parsed'[t] = parsed[t]
  BY DEF CountType
<1> QED
  BY <1>1, RaiseOne

(* A worker that leaves its unit gives it up.                              *)
LEMMA UnitGivenUp ==
  ASSUME OwnInv, NEW w \in Workers, Busy(w), pc'[w] = "next", UNCHANGED <<todo, item, losing>>,
         PassOver(w) \/ Open(w) \/ ParseEbook(w), NEW s, s = unit[w]
  PROVE  Pending(s) /\ ~Pending(s)'
<1>0. TypeOK /\ HandsFit /\ s \in Unit /\ s \in Subject
  BY BusyUnit DEF OwnInv
<1>1. MayCount(w, s)
  BY DEF MayCount
<1>2. s \notin ArchiveItem /\ s \notin Dir /\ s \notin losing /\ s \notin todo[w]
  BY <1>0, PipelineAssumption DEF HandsFit, TypeOK
<1>3. ~MayCount(w, s)'
  BY <1>2 DEF MayCount, Busy
<1>4. ~AheadOf(s) /\ \A v \in Workers \ {w} : ~MayCount(v, s)
  BY <1>1, Exclusive
<1>5. ~AheadOf(s)' /\ \A v \in Workers \ {w} : ~MayCount(v, s)'
  BY <1>0, <1>4, OthersKeep DEF ProcessSource
<1> QED
  BY <1>1, <1>2, <1>3, <1>5, OthersKeep, <1>0 DEF Pending

(* Whatever a step counts was pending and is no more.                      *)
LEMMA CountsPending ==
  OwnInv /\ [Next]_vars =>
    \/ UNCHANGED <<parsed, failed, skipped>>
    \/ \E s \in Subject : Raised(s) /\ Pending(s) /\ ~Pending(s)'
<1> SUFFICES ASSUME OwnInv, [Next]_vars, ~UNCHANGED <<parsed, failed, skipped>>
             PROVE  \E s \in Subject : Raised(s) /\ Pending(s) /\ ~Pending(s)'
  OBVIOUS
<1>0. TypeOK /\ CountType /\ CountType' /\ HandsOnce
  BY TypeStep, TypeParts DEF OwnInv
<1>1. ASSUME NEW d \in Dir, DirFailed(d)
      PROVE  \E s \in Subject : Raised(s) /\ Pending(s) /\ ~Pending(s)'
  <2>1. d \in Subject /\ d \notin Unit \cup ArchiveItem
    BY PipelineAssumption DEF Subject
  <2>2. Raised(d)
    BY <1>0, <1>1, <2>1, FailRaises DEF DirFailed
  <2>3. Pending(d) /\ d \in unreadable' /\ d \notin losing'
    BY <1>0, <1>1 DEF DirFailed, Pending, TypeOK, discoveryVars
  <2>4. ~AheadOf(d) /\ \A w \in Workers : ~MayCount(w, d)
    BY <2>1, Exclusive
  <2>5. UNCHANGED <<results, queue, pc, item, todo, unit>>
    BY <1>1 DEF DirFailed, discoveryVars, queueVars, workVars
  <2>6. ~AheadOf(d)' /\ \A w \in Workers : ~MayCount(w, d)'
    BY <2>4, <2>5 DEF AheadOf, MayCount, Queued, InHand, Loaded, Busy
  <2> QED
    BY <2>1, <2>2, <2>3, <2>6 DEF Pending
<1>2. ASSUME NEW w \in Workers, ArchiveFailed(w)
      PROVE  \E s \in Subject : Raised(s) /\ Pending(s) /\ ~Pending(s)'
  <2>0. PICK s : s = item[w]
    OBVIOUS
  <2>1. /\ s \in ArchiveItem /\ s \in Subject /\ s \notin Dir /\ s \notin losing'
        /\ pc[w] = "lose" /\ pc'[w] = "pop"
    BY <1>0, <1>2, <2>0, PipelineAssumption DEF ArchiveFailed, Subject, Goto, TypeOK, OwnInv,
       HandsFit
  <2>2. Raised(s)
    BY <1>0, <1>2, <2>0, <2>1, FailRaises DEF ArchiveFailed
  <2>3. MayCount(w, s)
    BY <2>0, <2>1 DEF MayCount, InHand
  <2>4. ~AheadOf(s) /\ \A v \in Workers \ {w} : ~MayCount(v, s)
    BY <2>3, Exclusive
  <2>5. ~AheadOf(s)' /\ \A v \in Workers \ {w} : ~MayCount(v, s)'
    BY <1>0, <1>2, <2>4, OthersKeep DEF ProcessSource
  <2>6. ~MayCount(w, s)' /\ unreadable' = unreadable
    BY <1>2, <2>1 DEF MayCount, InHand, Loaded, Busy, ArchiveFailed, discoveryVars
  <2> QED
    BY <2>1, <2>2, <2>3, <2>5, <2>6 DEF Pending
<1>3. ASSUME NEW w \in Workers, PassOver(w) \/ ParseEbook(w),
             ~UNCHANGED <<parsed, failed, skipped>>
      PROVE  \E s \in Subject : Raised(s) /\ Pending(s) /\ ~Pending(s)'
  <2>1. Busy(w) /\ pc'[w] = "next" /\ UNCHANGED <<todo, item, losing>>
    BY <1>0, <1>3 DEF PassOver, ParseEbook, Parse, Commit, Count, UnitFailed, Fail, Goto, TypeOK,
       Busy, workVars
  <2>2. PICK s \in Subject : s = unit[w]
    BY <2>1, BusyUnit
  <2>3. Pending(s) /\ ~Pending(s)'
    BY <1>3, <2>1, <2>2, UnitGivenUp
  <2>4. Raised(s)
    <3>1. CASE PassOver(w)
      BY <1>0, <2>2, <3>1, SkipRaises DEF PassOver
    <3>2. CASE Parse(w)
      BY <1>0, <1>3, <2>2, <3>2, SkipRaises DEF Parse
    <3>3. CASE Count(w)
      BY <1>0, <2>2, <3>3, ParsedRaises DEF Count
    <3>4. CASE UnitFailed(w)
      BY <1>0, <2>2, <3>4, FailRaises DEF UnitFailed
    <3> QED
      BY <1>3, <3>1, <3>2, <3>3, <3>4 DEF ParseEbook, Commit
  <2> QED
    BY <2>2, <2>3, <2>4
<1> QED
  BY <1>1, <1>2, <1>3 DEF Next, Walk, Worker, ProcessSource, Process, OnResult, OnError,
     ScanReturns, Connect, Pop, Popped, NextUnit, ArchiveFails, Open, EndQueue, Return, Cancel,
     Done, vars, countVars

(* Nothing that may still be counted was.                                  *)
LEMMA PendingStep ==
  OwnInv /\ PendingUncounted /\ (\A s \in Subject : Tally(s) <= 1) /\ [Next]_vars
    => PendingUncounted' /\ \A s \in Subject : Tally(s)' <= 1
<1> SUFFICES ASSUME OwnInv, PendingUncounted, \A s \in Subject : Tally(s) <= 1, [Next]_vars,
                    NEW t \in Subject
             PROVE  (Pending(t)' => Tally(t)' = 0) /\ Tally(t)' <= 1
  BY DEF PendingUncounted
<1>1. Pending(t)' => Pending(t)
  BY PendingShrinks
<1>2. Pending(t) => Tally(t) = 0
  BY DEF PendingUncounted
<1>3. CASE UNCHANGED <<parsed, failed, skipped>>
  BY <1>1, <1>2, <1>3 DEF Tally
<1>4. ASSUME NEW s \in Subject, Raised(s), Pending(s), ~Pending(s)'
      PROVE  (Pending(t)' => Tally(t)' = 0) /\ Tally(t)' <= 1
  <2>1. Tally(s) = 0 /\ (t # s => Tally(t)' = Tally(t)) /\ Tally(s)' \in {Tally(s), Tally(s) + 1}
    BY <1>4 DEF Raised, PendingUncounted
  <2> QED
    BY <1>1, <1>2, <1>4, <2>1
<1> QED
  BY <1>3, <1>4, CountsPending

(* A unit gets its row and its count together.                             *)
Counting(u) == \E w \in Workers : pc[w] = "count" /\ unit[w] = u
RowsMatch == \A u \in Unit \ Recorded : u \in rows <=> parsed[u] = 1 \/ Counting(u)

(* Every step keeps the row of a unit with its count, but for the worker   *)
(* between the commit and the count.                                       *)
LEMMA RowsStep ==
  OwnInv /\ PendingUncounted /\ RowsMatch /\ [Next]_vars => RowsMatch'
<1> SUFFICES ASSUME OwnInv, PendingUncounted, RowsMatch, [Next]_vars PROVE RowsMatch'
  OBVIOUS
<1>0. TypeOK
  BY DEF OwnInv
<1>1. ASSUME NEW w \in Workers, Commit(w) PROVE RowsMatch'
  <2>1. CASE rows' = rows \cup {unit[w]} /\ pc' = [pc EXCEPT ![w] = "count"]
    <3>1. pc'[w] = "count" /\ \A v \in Workers \ {w} : pc'[v] = pc[v]
      BY <1>0, <2>1 DEF TypeOK
    <3>2. UNCHANGED <<parsed, unit>> /\ pc[w] = "commit"
      BY <1>1 DEF Commit, workVars
    <3>3. \A u : Counting(u)' <=> Counting(u) \/ u = unit[w]
      BY <3>1, <3>2 DEF Counting
    <3> QED
      BY <2>1, <3>2, <3>3 DEF RowsMatch
  <2>2. ASSUME NEW n \in {"fail", "next"}, rows' = rows, pc' = [pc EXCEPT ![w] = n]
        PROVE  RowsMatch'
    <3>1. UNCHANGED <<parsed, unit>> /\ \A v \in Workers : pc'[v] = "count" <=> pc[v] = "count"
      BY <1>0, <1>1, <2>2 DEF Commit, TypeOK, workVars
    <3> QED
      BY <2>2, <3>1 DEF RowsMatch, Counting
  <2> QED
    BY <1>1, <2>1, <2>2 DEF Commit, Fail, Goto
<1>2. ASSUME NEW w \in Workers, Count(w) PROVE RowsMatch'
  <2>1. Busy(w) /\ UNCHANGED <<rows, unit>> /\ pc[w] = "count"
        /\ parsed' = [parsed EXCEPT ![unit[w]] = @ + 1]
    BY <1>2 DEF Count, Busy, workVars
  <2>2. PICK s \in Subject : s = unit[w]
    BY <2>1, BusyUnit
  <2>3. Tally(s) = 0 /\ parsed[s] \in Nat /\ failed[s] \in Nat /\ skipped[s] \in Nat
    <3>1. Pending(s)
      BY <2>1, <2>2 DEF Pending, MayCount
    <3> QED
      BY <1>0, <2>2, <3>1 DEF PendingUncounted, TypeOK
  <2>4. parsed'[s] = 1 /\ \A t \in Subject \ {s} : parsed'[t] = parsed[t]
    <3>1. parsed[s] = 0
      <4>1. parsed[s] + failed[s] + skipped[s] = 0
        BY <2>3 DEF Tally
      <4>2. parsed[s] \in Nat /\ failed[s] \in Nat /\ skipped[s] \in Nat
        BY <2>3
      <4> QED
        BY <4>1, <4>2
    <3>2. parsed \in [Subject -> Nat]
      BY <1>0 DEF TypeOK
    <3> QED
      BY <2>1, <2>2, <3>1, <3>2
  <2>5. \A u \in Unit \ {s} : Counting(u)' <=> Counting(u)
    BY <1>0, <1>2, <2>2 DEF Count, Goto, Counting, TypeOK, workVars
  <2>6. Counting(s)
    BY <2>1, <2>2 DEF Counting
  <2>7. Unit \subseteq Subject
    BY DEF Subject
  <2> QED
    BY <2>1, <2>4, <2>5, <2>6, <2>7 DEF RowsMatch
<1>3. CASE /\ UNCHANGED <<rows, parsed>>
           /\ \A v \in Workers : /\ pc'[v] = "count" <=> pc[v] = "count"
                                 /\ pc[v] = "count" => unit'[v] = unit[v]
  BY <1>3 DEF RowsMatch, Counting
<1>4. ASSUME NEW w \in Workers, Worker(w), ~Commit(w), ~Count(w)
      PROVE  /\ UNCHANGED <<rows, parsed>>
             /\ \A v \in Workers : /\ pc'[v] = "count" <=> pc[v] = "count"
                                   /\ pc[v] = "count" => unit'[v] = unit[v]
  <2>1. UNCHANGED <<rows, parsed>>
    BY <1>4 DEF Worker, ProcessSource, ParseEbook, UnitFailed, Connect, Pop, Popped, NextUnit,
       ArchiveFails, ArchiveFailed, PassOver, Open, Parse, countVars
  <2>2. pc[w] # "count" /\ pc'[w] # "count" /\ \A v \in Workers \ {w} : pc'[v] = pc[v]
    BY <1>0, <1>4 DEF Worker, ProcessSource, ParseEbook, UnitFailed, Connect, Pop, Popped,
       NextUnit, ArchiveFails, ArchiveFailed, PassOver, Open, Parse, Goto, FailOpening, Fail,
       TypeOK
  <2>3. \A v \in Workers \ {w} : unit'[v] = unit[v]
    BY <1>0, <1>4 DEF Worker, ProcessSource, ParseEbook, UnitFailed, Connect, Pop, Popped,
       NextUnit, ArchiveFails, ArchiveFailed, PassOver, Open, Parse, TypeOK, workVars
  <2> QED
    BY <2>1, <2>2, <2>3
<1>5. ASSUME NEW i \in Item, OnResult(i)
      PROVE  /\ UNCHANGED <<rows, parsed, unit>>
             /\ \A v \in Workers : pc'[v] = "count" <=> pc[v] = "count"
  BY <1>0, <1>5 DEF OnResult, Goto, TypeOK, countVars, workVars
<1>6. ASSUME EndQueue \/ Return
      PROVE  /\ UNCHANGED <<rows, parsed, unit>>
             /\ \A v \in Workers : pc'[v] = "count" <=> pc[v] = "count"
  <2>1. /\ \A w \in Workers : w # Main
        /\ pc \in [Workers \cup {Main} -> WorkerStates \cup MainStates]
    BY <1>0, PipelineAssumption DEF TypeOK
  <2> QED
    BY <1>6, <2>1 DEF EndQueue, Return, Goto, countVars, workVars
<1>7. CASE UNCHANGED <<rows, parsed, unit, pc>>
  BY <1>7 DEF RowsMatch, Counting
<1> QED
  BY <1>1, <1>2, <1>3, <1>4, <1>5, <1>6, <1>7 DEF Next, Walk, Process, OnError, DirFailed,
     ScanReturns, Cancel, Done, vars, countVars, workVars

(* The invariant of the counters holds when Process is called.             *)
LEMMA CountInit == Init => CountInv
<1> SUFFICES ASSUME Init PROVE CountInv
  OBVIOUS
<1> USE DEF Init
<1>1. TypeOK
  <2>1. PcType
    BY PipelineAssumption DEF PcType, WorkerStates, MainStates
  <2>2. WorkType /\ RunType
    BY DEF WorkType, RunType
  <2>3. CountType
    BY PipelineAssumption DEF CountType
  <2>4. queue \in Seq(Item)
    <3>1. <<>> \in Seq(Item)
      OBVIOUS
    <3> QED
      BY <3>1
  <2> QED
    BY <2>1, <2>2, <2>3, <2>4, TypeParts
<1>2. \A w \in Workers : pc[w] = "connect"
  BY PipelineAssumption
<1>3. QueueOnce /\ HandsOnce /\ HandsFit
  BY <1>2 DEF QueueOnce, Queued, HandsOnce, HandsFit, InHand, Loaded, Busy
<1>4. \A s \in Subject : Tally(s) = 0
  BY DEF Tally
<1>5. CountedOnce
  BY <1>2, <1>4, PipelineAssumption DEF CountedOnce, Subject
<1> QED
  BY <1>1, <1>3, <1>4, <1>5 DEF CountInv, OwnInv, PendingUncounted

(* Every step counts a subject at most once, and the one whose worker gives*)
(* it up.                                                                  *)
LEMMA CountStep == CountInv /\ [Next]_vars => CountInv'
<1>1. CountedOnce <=> (\A s \in Subject : Tally(s) <= 1) /\ RowsMatch
  BY DEF CountedOnce, RowsMatch, Counting
<1>2. CountedOnce' <=> (\A s \in Subject : Tally(s)' <= 1) /\ RowsMatch'
  BY DEF CountedOnce, RowsMatch, Counting
<1> QED
  BY <1>1, <1>2, TypeStep, OwnStep, FitStep, PendingStep, RowsStep DEF CountInv, OwnInv

(* Nothing is counted twice, and a unit has a row exactly if it is parsed. *)
THEOREM CountInvAlways == Spec => []CountInv
BY CountInit, CountStep, PTL DEF Spec

(* The summary counts a file or member once, whoever closes, cancels or    *)
(* times out, and a parsed one has its row (scan.go's counters).           *)
THEOREM EverythingCountedOnce == Spec => []CountedOnce
<1>1. CountInv => CountedOnce
  BY DEF CountInv
<1> QED
  BY <1>1, CountInvAlways, PTL

-----------------------------------------------------------------------------
(* How Main, the queue and the workers come to their end.                  *)
LEMMA EndingStep == TypeOK /\ Ending /\ [Next]_vars => Ending'
<1> SUFFICES ASSUME TypeOK, Ending, [Next]_vars PROVE Ending'
  OBVIOUS
<1>0. (\A w \in Workers : w # Main) /\ PcType /\ scan \in {"running", "ok", "fatal"}
      /\ pc \in [Workers \cup {Main} -> WorkerStates \cup MainStates]
  BY PipelineAssumption, TypeParts DEF PcType, RunType
<1> USE DEF Ending, discoveryVars, queueVars
<1>1. ASSUME NEW i \in Item, OnResult(i) PROVE Ending'
  <2>1. scan = "running" /\ UNCHANGED <<unreadable, losing, ctx, scan, qclosed, outcome>>
        /\ results \subseteq results'
    BY <1>1 DEF OnResult, Scanner!Discover
  <2>2. pc'[Main] = pc[Main] /\ \A w \in Workers : pc'[w] = "exited" <=> pc[w] = "exited"
    BY <1>0, <1>1 DEF OnResult, Goto
  <2> QED
    BY <2>1, <2>2
<1>2. ASSUME NEW d \in Dir, OnError(d) PROVE Ending'
  BY <1>2 DEF OnError, Scanner!LoseDir, Scanner!Lost
<1>10. ASSUME NEW d \in Dir, DirFailed(d) PROVE Ending'
  BY <1>10 DEF DirFailed, Scanner!Lost
<1>3. CASE ScanReturns
  BY <1>3 DEF ScanReturns, Scanner!ScanReturns, Scanner!Lost
<1>4. ASSUME NEW w \in Workers, Connect(w) PROVE Ending'
  <2>1. UNCHANGED <<results, unreadable, losing, scan, queue, qclosed, outcome>> /\ (ctx => ctx')
        /\ pc[w] = "connect" /\ (pc'[w] = "exited" => ctx')
    BY <1>0, <1>4 DEF Connect, Goto
  <2>2. pc'[Main] = pc[Main] /\ \A v \in Workers \ {w} : pc'[v] = pc[v]
    BY <1>0, <1>4 DEF Connect, Goto
  <2> QED
    BY <2>1, <2>2 DEF Scanner!Lost
<1>5. ASSUME NEW w \in Workers, Pop(w) PROVE Ending'
  <2>1. UNCHANGED <<results, unreadable, losing, scan, ctx, qclosed, outcome>> /\ pc[w] = "pop"
        /\ (queue = <<>> => queue' = queue) /\ (pc'[w] = "exited" => qclosed /\ queue = <<>>)
    BY <1>0, <1>5 DEF Pop, Goto
  <2>2. pc'[Main] = pc[Main] /\ \A v \in Workers \ {w} : pc'[v] = pc[v]
    BY <1>0, <1>5 DEF Pop, Goto
  <2> QED
    BY <2>1, <2>2 DEF Scanner!Lost
<1>6. ASSUME NEW w \in Workers, Popped(w) \/ ProcessSource(w)
      PROVE  Ending'
  <2>1. UNCHANGED <<results, unreadable, losing, scan, ctx, queue, qclosed, outcome>>
    BY <1>6 DEF Popped, ProcessSource, NextUnit, ArchiveFails, ArchiveFailed, PassOver, Open,
       ParseEbook, Parse, Commit, Count, UnitFailed, Fail, FailOpening
  <2>2. /\ pc[w] # "exited" /\ pc'[w] # "exited" /\ pc'[Main] = pc[Main]
        /\ \A v \in Workers \ {w} : pc'[v] = pc[v]
    BY <1>0, <1>6 DEF Popped, ProcessSource, NextUnit, ArchiveFails, ArchiveFailed, PassOver,
       Open, ParseEbook, Parse, Commit, Count, UnitFailed, Fail, FailOpening, Goto
  <2> QED
    BY <2>1, <2>2 DEF Scanner!Lost
<1>7. CASE EndQueue
  <2>1. pc'[Main] = "join" /\ \A w \in Workers : pc'[w] = "exited" <=> pc[w] = "exited"
    BY <1>0, <1>7 DEF EndQueue
  <2>2. qclosed' /\ pc[Main] = "scan" /\ scan # "running"
        /\ UNCHANGED <<results, unreadable, losing, ctx, scan, outcome>>
    BY <1>7 DEF EndQueue
  <2> QED
    BY <2>1, <2>2 DEF Scanner!Lost
<1>8. CASE Return
  <2>1. pc'[Main] = "returned" /\ \A w \in Workers : pc'[w] = pc[w]
    BY <1>0, <1>8 DEF Return, Goto
  <2> QED
    BY <1>8, <2>1 DEF Return
<1>9. CASE Cancel \/ Done \/ UNCHANGED vars
  BY <1>9 DEF Cancel, Done, vars, Scanner!Lost
<1> QED
  BY <1>1, <1>2, <1>3, <1>4, <1>5, <1>6, <1>7, <1>8, <1>9, <1>10 DEF Next, Walk, Worker,
     Process

(* Until the run is cancelled a unit is only given up by being counted, or *)
(* with its archive, whose failure is counted.                             *)
Accounted(u) == \/ Tally(u)' = Tally(u) + 1
                \/ \E i \in ArchiveItem : u \in Units[i] /\ GivenUp(i)'

(* A unit nobody holds any more has been counted, or its archive is about  *)
(* to be.                                                                  *)
LEMMA LossStep ==
  ASSUME OwnInv, Ending, ~NetTimeouts, [Next]_vars, ~ctx',
         NEW u \in Unit, Pending(u), ~Pending(u)'
  PROVE  Accounted(u)
<1>0. TypeOK /\ CountType /\ QueueOnce /\ HandsOnce /\ HandsFit /\ u \in Subject
      /\ pc \in [Workers \cup {Main} -> WorkerStates \cup MainStates]
  BY TypeParts DEF OwnInv, Subject, PcType
<1>1. u \notin ArchiveItem /\ u \notin Dir /\ u \notin losing /\ u \notin losing'
      /\ (\A w \in Workers : w # Main)
  BY <1>0, TypeStep, PipelineAssumption DEF TypeOK
<1>2. (AheadOf(u) \/ \E w \in Workers : MayCount(w, u))
      /\ ~AheadOf(u)' /\ (\A w \in Workers : ~MayCount(w, u)')
  BY <1>1 DEF Pending
<1> USE DEF discoveryVars, queueVars, workVars
<1>3. ASSUME NEW i \in Item, OnResult(i) PROVE FALSE
  <2>1. i \notin results /\ results' = results \cup {i} /\ scan = "running"
    BY <1>3 DEF OnResult, Scanner!Discover
  <2>2. queue' = Append(queue, i)
    BY <1>3, <2>1 DEF OnResult, Scanner!Discover, Ending
  <2>3. Queued' = Queued \cup {i}
    <3>1. /\ queue \in Seq(Item) /\ i \notin {queue[n] : n \in DOMAIN queue}
          /\ \A m, n \in DOMAIN queue : m # n => queue[m] # queue[n]
      BY <1>0, <2>1 DEF TypeOK, QueueOnce, Queued
    <3>2. {Append(queue, i)[n] : n \in DOMAIN Append(queue, i)}
            = {queue[n] : n \in DOMAIN queue} \cup {i}
      BY <3>1, AppendOnce
    <3> QED
      BY <2>2, <3>2 DEF Queued
  <2>4. AheadOf(u) => AheadOf(u)'
    BY <2>1, <2>3 DEF AheadOf
  <2>5. \A w \in Workers : MayCount(w, u) => MayCount(w, u)'
    BY <1>0, <1>3 DEF OnResult, Goto, MayCount, InHand, Loaded, Busy
  <2> QED
    BY <1>2, <2>4, <2>5
<1>4. ASSUME NEW w \in Workers, Connect(w) PROVE FALSE
  <2>1. \A v \in Workers : MayCount(v, u) => MayCount(v, u)'
    BY <1>0, <1>4 DEF Connect, Goto, MayCount, InHand, Loaded, Busy
  <2>2. UNCHANGED <<results, queue>>
    BY <1>4 DEF Connect
  <2> QED
    BY <1>2, <2>1, <2>2 DEF AheadOf, Queued
<1>5. ASSUME NEW w \in Workers, Pop(w) PROVE FALSE
  <2>1. results' = results /\ \A v \in Workers : MayCount(v, u) => MayCount(v, u)'
    BY <1>0, <1>5 DEF Pop, Goto, TypeOK, MayCount, InHand, Loaded, Busy
  <2>2. CASE queue # <<>>
    <3>1. /\ queue \in Seq(Item) /\ queue' = Tail(queue)
          /\ \A m, n \in DOMAIN queue : m # n => queue[m] # queue[n]
      BY <1>0, <1>5, <2>2 DEF Pop, TypeOK, QueueOnce
    <3>2. {Tail(queue)[n] : n \in DOMAIN Tail(queue)}
            = {queue[n] : n \in DOMAIN queue} \ {Head(queue)}
      BY <2>2, <3>1, TailOnce
    <3>3. Queued' = Queued \ {Head(queue)}
      BY <3>1, <3>2 DEF Queued
    <3>4. item'[w] = Head(queue) /\ pc'[w] = "popped"
      BY <1>0, <1>5, <2>2 DEF Pop, Goto, TypeOK
    <3>5. u \in Units[Head(queue)] => MayCount(w, u)'
      BY <3>4 DEF MayCount
    <3>6. AheadOf(u) => AheadOf(u)' \/ MayCount(w, u)'
      BY <1>1, <2>1, <3>3, <3>5 DEF AheadOf
    <3> QED
      BY <1>2, <2>1, <3>6
  <2>3. CASE queue = <<>>
    <3>1. queue' = queue
      BY <1>5, <2>3 DEF Pop
    <3> QED
      BY <1>2, <2>1, <3>1 DEF AheadOf, Queued
  <2> QED
    BY <2>2, <2>3
<1>6. ASSUME NEW w \in Workers, Popped(w) \/ ProcessSource(w)
      PROVE  Accounted(u)
  <2>1. MayCount(w, u)
    <3>1. losing' = losing
      BY <1>6, WorkerKeeps, <1>0
    <3> QED
      BY <1>0, <1>2, <1>6, OthersKeep
  <2>2. ~ctx
    BY <1>6, WorkerKeeps, <1>0
  <2>3. CASE Popped(w)
    <3>1. pc[w] = "popped" /\ pc'[w] = "next" /\ todo'[w] = Units[item[w]] /\ item' = item
      BY <1>0, <2>2, <2>3 DEF Popped, Goto, TypeOK
    <3> QED
      BY <1>1, <1>2, <2>1, <3>1 DEF MayCount, InHand, Loaded, Busy
  <2>4. CASE NextUnit(w)
    <3>1. u \in todo[w]
      BY <1>1, <2>1, <2>4 DEF NextUnit, MayCount, InHand, Busy
    <3>2. PICK v \in todo[w] : pc'[w] = "gate" /\ todo'[w] = todo[w] \ {v} /\ unit'[w] = v
      BY <1>0, <2>2, <2>4, <3>1 DEF NextUnit, Goto, TypeOK
    <3> QED
      BY <1>2, <3>1, <3>2 DEF MayCount, Loaded, Busy
  <2>5. CASE ArchiveFails(w)
    <3>1. u \in todo[w] /\ Loaded(w)
      BY <1>1, <2>1, <2>5 DEF ArchiveFails, MayCount, InHand, Loaded, Busy
    <3>2. PICK i \in ArchiveItem : i = item[w]
      BY <2>5 DEF ArchiveFails
    <3>3. u \in Units[i]
      BY <1>0, <3>1, <3>2 DEF HandsFit
    <3>4. pc'[w] = "lose" /\ item'[w] = i
      BY <1>0, <2>2, <2>5, <3>2 DEF ArchiveFails, FailOpening, Fail, Goto
    <3> QED
      BY <3>3, <3>4 DEF Accounted, GivenUp
  <2>7. CASE ArchiveFailed(w)
    BY <1>1, <2>1, <2>7 DEF ArchiveFailed, MayCount, Loaded, Busy
  <2>6. CASE PassOver(w) \/ Open(w) \/ ParseEbook(w)
    <3>1. Busy(w) /\ UNCHANGED <<item, todo, unit>>
      BY <2>6 DEF PassOver, Open, ParseEbook, Parse, Commit, Count, UnitFailed, Busy
    <3>2. pc'[w] = "next"
      <4>1. pc'[w] \in {"next", "parse", "commit", "count", "fail"}
        BY <1>0, <2>6 DEF PassOver, Open, ParseEbook, Parse, Commit, Count, UnitFailed, Fail,
           FailOpening, Goto
      <4>2. Busy(w)' => MayCount(w, u)'
        BY <2>1, <3>1 DEF MayCount, InHand, Loaded, Busy
      <4> QED
        BY <1>2, <4>1, <4>2 DEF Busy
    <3>3. u = unit[w]
      BY <1>1, <1>2, <2>1, <3>1, <3>2 DEF MayCount, InHand, Loaded, Busy
    <3>4. Tally(u)' = Tally(u) + 1
      <4>1. CASE PassOver(w)
        BY <1>0, <3>3, <4>1, SkipRaises DEF PassOver
      <4>2. CASE Open(w)
        BY <1>0, <2>2, <3>2, <4>2 DEF Open, FailOpening, Fail, Goto
      <4>3. CASE Parse(w)
        <5>1. Skip(unit[w]) /\ UNCHANGED <<parsed, failed>>
          BY <1>0, <2>2, <3>2, <4>3 DEF Parse, Fail, Goto
        <5> QED
          BY <1>0, <3>3, <5>1, SkipRaises
      <4>4. CASE Commit(w)
        BY <1>0, <2>2, <3>2, <4>4 DEF Commit, Fail, Goto
      <4>5. CASE Count(w)
        BY <1>0, <3>3, <4>5, ParsedRaises DEF Count
      <4>6. CASE UnitFailed(w)
        BY <1>0, <3>3, <4>6, FailRaises DEF UnitFailed
      <4> QED
        BY <2>6, <4>1, <4>2, <4>3, <4>4, <4>5, <4>6 DEF ParseEbook
    <3> QED
      BY <3>4 DEF Accounted
  <2> QED
    BY <1>6, <2>3, <2>4, <2>5, <2>6, <2>7 DEF ProcessSource
<1>7. CASE EndQueue
  <2>1. UNCHANGED <<results, queue>>
    BY <1>7 DEF EndQueue
  <2>2. \A w \in Workers : pc'[w] = pc[w] \/ (pc[w] = "wait" /\ pc'[w] = "pop")
    BY <1>0, <1>1, <1>7 DEF EndQueue
  <2>3. \A w \in Workers : MayCount(w, u) => MayCount(w, u)'
    BY <1>7, <2>2 DEF EndQueue, MayCount, InHand, Loaded, Busy
  <2> QED
    BY <1>2, <2>1, <2>3 DEF AheadOf, Queued
<1>8. CASE UNCHANGED <<results, queue, pc, item, todo, unit>>
  BY <1>2, <1>8 DEF AheadOf, Queued, MayCount, InHand, Loaded, Busy
<1> QED
  BY <1>3, <1>4, <1>5, <1>6, <1>7, <1>8 DEF Next, Walk, Worker, ProcessSource, Process, OnError,
     DirFailed, Scanner!LoseDir, ScanReturns, Scanner!ScanReturns, Return, Cancel, Done, vars

(* The context stays done.                                                 *)
LEMMA ContextStep == TypeOK /\ [Next]_vars /\ ctx => ctx'
BY DEF TypeOK, Next, Walk, Worker, ProcessSource, ParseEbook, Process, OnResult, Scanner!Discover,
   OnError, DirFailed, Scanner!LoseDir, ScanReturns, Scanner!ScanReturns, Connect, Pop, Popped,
   NextUnit, ArchiveFails, ArchiveFailed, PassOver, Open, Parse, Commit, Count, UnitFailed,
   EndQueue, Return, Cancel, Done, vars, discoveryVars

(* A count of one stays, and so does the failure of an archive.            *)
LEMMA CountsStay ==
  ASSUME CountInv, CountInv', [Next]_vars, NEW s \in Subject
  PROVE  /\ Tally(s) = 1 => Tally(s)' = 1
         /\ failed[s] = 1 => failed'[s] = 1
<1>0. /\ parsed[s] \in Nat /\ failed[s] \in Nat /\ skipped[s] \in Nat
      /\ parsed'[s] \in Nat /\ failed'[s] \in Nat /\ skipped'[s] \in Nat
  BY DEF CountInv, OwnInv, TypeOK
<1>1. Tally(s)' <= 1
  BY DEF CountInv, CountedOnce
<1>2. Tally(s)' \in {Tally(s), Tally(s) + 1} /\ failed'[s] >= failed[s]
  <2>1. CASE UNCHANGED <<parsed, failed, skipped>>
    BY <1>0, <2>1 DEF Tally
  <2>2. ASSUME NEW t \in Subject, Raised(t)
        PROVE  Tally(s)' \in {Tally(s), Tally(s) + 1} /\ failed'[s] >= failed[s]
    BY <2>2 DEF Raised
  <2> QED
    BY <2>1, <2>2, CountsPending DEF CountInv
<1>3. Tally(s) \in Nat /\ failed'[s] <= Tally(s)'
  BY <1>0 DEF Tally
<1>4. Tally(s)' \in Nat
  BY <1>0 DEF Tally
<1> QED
  BY <1>0, <1>1, <1>2, <1>3, <1>4

(* A worker that gave an archive up counts its failure next.               *)
LEMMA LoseStays ==
  ASSUME OwnInv, [Next]_vars, NEW w \in Workers, pc[w] = "lose"
  PROVE  UNCHANGED <<pc[w], item[w]>> \/ ArchiveFailed(w)
<1>0. TypeOK /\ w # Main
  BY PipelineAssumption DEF OwnInv
<1>1. ASSUME NEW i \in Item, OnResult(i) PROVE UNCHANGED <<pc[w], item[w]>>
  BY <1>0, <1>1 DEF OnResult, Goto, TypeOK, workVars
<1>2. ASSUME NEW v \in Workers, Connect(v) \/ Pop(v) PROVE UNCHANGED <<pc[w], item[w]>>
  BY <1>0, <1>2 DEF Connect, Pop, Goto, TypeOK, workVars
<1>3. ASSUME NEW v \in Workers, Popped(v) \/ ProcessSource(v), ~ArchiveFailed(w)
      PROVE  UNCHANGED <<pc[w], item[w]>>
  <2>1. v # w
    BY <1>3 DEF Popped, ProcessSource, NextUnit, ArchiveFails, PassOver, Open, ParseEbook, Parse,
       Commit, Count, UnitFailed
  <2> QED
    BY <1>0, <1>3, <2>1, WorkerKeeps
<1>4. ASSUME EndQueue \/ Return PROVE UNCHANGED <<pc[w], item[w]>>
  BY <1>0, <1>4 DEF EndQueue, Return, Goto, TypeOK, workVars
<1>5. CASE UNCHANGED <<pc, item>>
  BY <1>5
<1> QED
  BY <1>1, <1>2, <1>3, <1>4, <1>5 DEF Next, Walk, Worker, Process, OnError, DirFailed,
     ScanReturns, Cancel, Done, vars, workVars

(* Until the run is cancelled nothing is lost: see LossStep.               *)
LEMMA NothingLostStep ==
  ASSUME CountInv, CountInv', Ending, NothingLostYet, ~NetTimeouts, [Next]_vars
  PROVE  NothingLostYet'
<1> SUFFICES ASSUME ~ctx'
             PROVE  /\ \A i \in Item : \/ i \in ArchiveItem /\ (failed'[i] = 1 \/ GivenUp(i)')
                                       \/ \A u \in Units[i] : Pending(u)' \/ Tally(u)' = 1
                    /\ \A d \in unreadable' : failed'[d] = 1 \/ d \in losing'
  BY DEF NothingLostYet
<1>0. OwnInv /\ TypeOK /\ CountType /\ PendingUncounted /\ ~ctx
  BY ContextStep, TypeParts DEF CountInv, OwnInv
<1>1. ASSUME NEW i \in ArchiveItem, failed[i] = 1 PROVE failed'[i] = 1
  BY <1>1, CountsStay DEF Subject
<1>5. ASSUME NEW s \in Subject, failed'[s] = failed[s] + 1 PROVE failed'[s] = 1
  <2>2. /\ failed[s] \in Nat /\ failed'[s] \in Nat /\ parsed'[s] \in Nat /\ skipped'[s] \in Nat
    BY DEF CountInv, OwnInv, TypeOK
  <2>3. parsed'[s] + failed'[s] + skipped'[s] <= 1
    BY DEF CountInv, CountedOnce, Tally
  <2> QED
    BY <1>5, <2>2, <2>3
<1>2. ASSUME NEW i \in ArchiveItem, GivenUp(i) PROVE failed'[i] = 1 \/ GivenUp(i)'
  <2>1. PICK w \in Workers : pc[w] = "lose" /\ item[w] = i
    BY <1>2 DEF GivenUp
  <2>2. CASE UNCHANGED <<pc[w], item[w]>>
    BY <2>1, <2>2 DEF GivenUp
  <2>3. CASE ArchiveFailed(w)
    <3>1. i \in Subject /\ UNCHANGED <<parsed, skipped>> /\ AddFailure(i)
      BY <2>1, <2>3 DEF ArchiveFailed, Subject
    <3> QED
      BY <1>0, <1>5, <3>1, FailRaises
  <2>4. UNCHANGED <<pc[w], item[w]>> \/ ArchiveFailed(w)
    BY <1>0, <2>1, LoseStays
  <2> QED
    BY <2>2, <2>3, <2>4
<1>3. ASSUME NEW i \in Item, ~(i \in ArchiveItem /\ (failed'[i] = 1 \/ GivenUp(i)')),
             NEW u \in Units[i]
      PROVE  Pending(u)' \/ Tally(u)' = 1
  <2>1. u \in Unit /\ u \in Subject
    BY PipelineAssumption DEF Subject
  <2>2. Pending(u) \/ Tally(u) = 1
    BY <1>0, <1>1, <1>2, <1>3 DEF NothingLostYet
  <2>3. CASE Tally(u) = 1
    BY <2>1, <2>3, CountsStay
  <2>4. CASE Pending(u) /\ ~Pending(u)'
    <3>1. Tally(u) = 0
      BY <1>0, <2>1, <2>4 DEF PendingUncounted
    <3>2. Accounted(u)
      BY <1>0, <2>1, <2>4, LossStep
    <3>3. \A j \in ArchiveItem : u \in Units[j] => j = i
      BY PipelineAssumption
    <3> QED
      BY <1>3, <3>1, <3>2, <3>3 DEF Accounted
  <2> QED
    BY <2>2, <2>3, <2>4
<1>4. ASSUME NEW d \in unreadable' PROVE failed'[d] = 1 \/ d \in losing'
  <2>1. d \in Dir /\ d \in Subject
    BY DEF CountInv, OwnInv, TypeOK, Subject
  <2>2. CASE d \in unreadable /\ failed[d] = 1
    BY <2>1, <2>2, CountsStay
  <2>3. CASE d \in losing /\ d \notin losing'
    <3>1. DirFailed(d)
      BY <2>3 DEF Next, Walk, Worker, ProcessSource, ParseEbook, Process, OnResult, OnError,
         DirFailed, ScanReturns, Connect, Pop, Popped, NextUnit, ArchiveFails, ArchiveFailed,
         PassOver, Open, Parse, Commit, Count, UnitFailed, EndQueue, Return, Cancel, Done, vars
    <3>2. failed'[d] = failed[d] + 1
      BY <1>0, <2>1, <3>1, FailRaises DEF DirFailed
    <3> QED
      BY <1>5, <2>1, <3>2
  <2>4. CASE d \notin unreadable
    <3>1. OnError(d)
      BY <1>4, <2>4 DEF Next, Walk, Worker, ProcessSource, ParseEbook, Process, OnResult,
         Scanner!Discover, OnError, DirFailed, Scanner!LoseDir, ScanReturns,
         Scanner!ScanReturns, Connect, Pop, Popped, NextUnit, ArchiveFails, ArchiveFailed,
         PassOver, Open, Parse, Commit, Count, UnitFailed, EndQueue, Return, Cancel, Done, vars,
         discoveryVars
    <3> QED
      BY <1>0, <3>1 DEF OnError
  <2> QED
    BY <1>0, <2>2, <2>3, <2>4 DEF NothingLostYet
<1> QED
  BY <1>3, <1>4

(* When the workers have left and nobody cancelled, nothing is pending.    *)
LEMMA DroppedStep ==
  ASSUME CountInv, CountInv', Ending, NothingLostYet, NothingDropped, [Next]_vars
  PROVE  NothingDropped'
<1>0. TypeOK
  BY DEF CountInv, OwnInv
<1>1. CASE outcome = "running" /\ outcome' = "ok"
  <2>1. Return
    BY <1>1 DEF Next, Walk, Worker, ProcessSource, ParseEbook, Process, OnResult, OnError,
       DirFailed, ScanReturns, Connect, Pop, Popped, NextUnit, ArchiveFails, ArchiveFailed,
       PassOver, Open, Parse, Commit, Count, UnitFailed, EndQueue, Cancel, Done, vars
  <2>2. pc[Main] = "join" /\ (\A w \in Workers : pc[w] = "exited") /\ ~fatal /\ scan # "fatal"
        /\ ~(scan = "ok" /\ ctx)
    BY <1>0, <1>1, <2>1 DEF Return, TypeOK
  <2>3. scan = "ok" /\ ~ctx /\ losing = {}
    BY <1>0, <2>2 DEF Ending, TypeOK
  <2>4. queue = <<>> /\ Item \subseteq results \cup Scanner!Lost
    BY <2>2, <2>3, PipelineAssumption DEF Ending
  <2>5. Queued = {}
    BY <2>4 DEF Queued
  <2>6. ASSUME NEW i \in Item \ Scanner!Lost, NEW u \in Units[i] PROVE ~Pending(u)
    <3>1. i \in results /\ u \in Unit
      BY <2>4, PipelineAssumption
    <3>2. u \notin Dir /\ u \notin ArchiveItem
      BY <3>1, PipelineAssumption
    <3>3. \A j \in Item : u \in Units[j] => j = i
      BY PipelineAssumption
    <3>4. ~AheadOf(u)
      BY <2>5, <3>1, <3>2, <3>3 DEF AheadOf
    <3>5. \A w \in Workers : ~MayCount(w, u)
      BY <2>2 DEF MayCount, InHand, Loaded, Busy
    <3> QED
      BY <2>3, <3>2, <3>4, <3>5 DEF Pending
  <2>7. UNCHANGED <<unreadable, parsed, failed, skipped>>
    BY <2>1 DEF Return, countVars
  <2>8. Scanner!Lost' = Scanner!Lost
    BY <2>7 DEF Scanner!Lost
  <2>9. ASSUME NEW i \in Item \ Scanner!Lost
        PROVE  (i \in ArchiveItem /\ failed[i] = 1) \/ \A u \in Units[i] : Tally(u) = 1
    BY <2>2, <2>3, <2>6 DEF NothingLostYet, GivenUp
  <2>10. \A d \in unreadable : failed[d] = 1
    BY <2>3 DEF NothingLostYet
  <2> QED
    BY <2>7, <2>8, <2>9, <2>10 DEF NothingDropped, Tally
<1>2. CASE outcome # "running"
  <2>1. UNCHANGED <<unreadable, parsed, failed, skipped, outcome>>
    <3>1. /\ pc[Main] = "returned" /\ (\A w \in Workers : pc[w] = "exited")
          /\ scan # "running" /\ losing = {}
      BY <1>2 DEF Ending
    <3> QED
      BY <3>1 DEF Next, Walk, Worker, ProcessSource, ParseEbook, Process, OnResult,
         Scanner!Discover, OnError, DirFailed, Scanner!LoseDir, ScanReturns, Scanner!ScanReturns,
         Connect, Pop, Popped, NextUnit, ArchiveFails, ArchiveFailed, PassOver, Open, Parse,
         Commit, Count, UnitFailed, EndQueue, Return, Cancel, Done, vars, countVars
  <2> QED
    BY <2>1 DEF NothingDropped, Tally, Scanner!Lost
<1>3. CASE outcome' # "ok"
  BY <1>3 DEF NothingDropped
<1> QED
  BY <1>1, <1>2, <1>3

(* The invariant of a complete run, for trees that are not on a server     *)
(* whose time-outs Fail overlooks.                                         *)
THEOREM LosslessInvAlways ==
  ASSUME ~NetTimeouts
  PROVE  Spec => []LosslessInv
<1>1. Init => LosslessInv
  <2> SUFFICES ASSUME Init PROVE LosslessInv
    OBVIOUS
  <2>1. CountInv
    BY CountInit
  <2>2. Ending
    BY PipelineAssumption DEF Init, Ending
  <2>3. NothingLostYet
    <3>1. \A i \in Item : \A u \in Units[i] : Pending(u)
      BY DEF Init, Pending, AheadOf
    <3> QED
      BY <3>1 DEF Init, NothingLostYet
  <2>4. NothingDropped
    BY DEF Init, NothingDropped
  <2> QED
    BY <2>1, <2>2, <2>3, <2>4 DEF LosslessInv
<1>2. LosslessInv /\ [Next]_vars => LosslessInv'
  <2> SUFFICES ASSUME LosslessInv, [Next]_vars PROVE LosslessInv'
    OBVIOUS
  <2>1. CountInv'
    BY CountStep DEF LosslessInv
  <2>2. Ending'
    BY EndingStep DEF LosslessInv, CountInv, OwnInv
  <2>3. NothingLostYet'
    BY <2>1, NothingLostStep DEF LosslessInv
  <2>4. NothingDropped'
    BY <2>1, DroppedStep DEF LosslessInv
  <2> QED
    BY <2>1, <2>2, <2>3, <2>4 DEF LosslessInv
<1> QED
  BY <1>1, <1>2, PTL DEF Spec

(* A run that ends normally has counted everything it was shown.           *)
THEOREM NothingIsDropped ==
  ASSUME ~NetTimeouts
  PROVE  Spec => []NothingDropped
<1>1. LosslessInv => NothingDropped
  BY DEF LosslessInv
<1> QED
  BY <1>1, LosslessInvAlways, PTL
=============================================================================
