--------------------------- MODULE DirWalkProofs ---------------------------
(***************************************************************************)
(* Proofs about DirWalk, for every tree and every number of walkers.       *)
(***************************************************************************)
EXTENDS DirWalkRefinement, FiniteSetTheorems, WellFoundedInduction, TLAPS

(* Nothing is in the queue or in a walker's hands before Scan has          *)
(* dispatched the root, so no walker can take an empty walk for a finished *)
(* one.                                                                    *)
RootFirst ==
  /\ pc[Main] \in {"root", "check", "add", "push"} => items = <<>> /\ Holding = {}
  /\ pc[Main] = "root" => ~ctx /\ \A w \in Walkers : pc[w] = "none"

(* Once a walker has decided that the walk is over, and until the context  *)
(* is done, the counter stays at zero and the root has been dispatched.    *)
OverIsOver ==
  ~ctx /\ (closed \/ \E w \in Walkers : pc[w] = "close") =>
    remaining = 0 /\ pc[Main] \in {"join", "returned"}

(* The inductive invariant of the termination test.                        *)
CountInv == TypeOK /\ RemainingExact /\ RootFirst /\ OverIsOver

----------------------------------------------------------------------------
(* The counters of a report are natural numbers: they are cardinalities of *)
(* subsets of the finite tree.                                             *)
LEMMA CountersType == TypeOK => Counters \in CounterRecords
<1> SUFFICES ASSUME TypeOK PROVE Counters \in CounterRecords
  OBVIOUS
<1>1. /\ visited \in SUBSET Dirs /\ seen \in SUBSET File
      /\ results \cap Ebook \in SUBSET File
  BY DEF TypeOK
<1>2. IsFiniteSet(visited) /\ IsFiniteSet(seen) /\ IsFiniteSet(results \cap Ebook)
  BY <1>1, FS_Subset, DirsAssumption
<1>3. /\ Cardinality(visited) \in Nat /\ Cardinality(seen) \in Nat
      /\ Cardinality(results \cap Ebook) \in Nat
  BY <1>2, FS_CardinalityType
<1> QED
  BY <1>3 DEF Counters, CounterRecords

(* The two sets the counter is compared with are finite.                   *)
LEMMA FiniteParties ==
  /\ IsFiniteSet(Holding) /\ Cardinality(Holding) \in Nat
  /\ IsFiniteSet(Pushing) /\ Cardinality(Pushing) \in Nat
<1>1. IsFiniteSet(Dispatchers)
  BY WalkersAssumption, FS_AddElement DEF Dispatchers
<1>2. Holding \in SUBSET Walkers /\ Pushing \in SUBSET Dispatchers
  BY DEF Holding, Pushing
<1>3. IsFiniteSet(Holding) /\ IsFiniteSet(Pushing)
  BY <1>1, <1>2, WalkersAssumption, FS_Subset
<1> QED
  BY <1>3, FS_CardinalityType

(* At zero, the counter says that nothing is outstanding, and conversely a *)
(* walker that holds a directory keeps it positive.                        *)
LEMMA ZeroMeansNothing ==
  ASSUME TypeOK, RemainingExact
  PROVE  /\ remaining = 0 => items = <<>> /\ Holding = {} /\ Pushing = {}
         /\ Holding # {} \/ Pushing # {} \/ items # <<>> => remaining > 0
<1>1. Len(items) \in Nat /\ (Len(items) = 0 <=> items = <<>>)
  BY DEF TypeOK
<1>2. (Cardinality(Holding) = 0 <=> Holding = {}) /\ (Cardinality(Pushing) = 0 <=> Pushing = {})
  BY FiniteParties, FS_EmptySet
<1> QED
  BY <1>1, <1>2, FiniteParties DEF RemainingExact, TypeOK

(* The invariant holds when Scan is called.                                *)
LEMMA CountInit == Init => CountInv
<1> SUFFICES ASSUME Init PROVE CountInv
  OBVIOUS
<1>1. TypeOK
  <2>1. NoCounters \in CounterRecords
    BY DEF NoCounters, CounterRecords
  <2>2. PcType
    BY WalkersAssumption DEF Init, PcType, WalkerStates, MainStates, CloserStates
  <2>3. /\ dir \in [Walkers -> Dirs \cup {NoDir}]
        /\ left \in [Walkers -> SUBSET (Dirs \cup File)]
        /\ sub \in [Dispatchers -> Dirs]
        /\ snap \in [Walkers -> CounterRecords]
    BY <2>1, DirsAssumption DEF Init
  <2>4. items \in Seq(Dirs) /\ remaining \in Nat
    BY DEF Init
  <2>5. /\ closed \in BOOLEAN /\ cancelled \in BOOLEAN /\ ctx \in BOOLEAN /\ fatal \in BOOLEAN
        /\ visited \in SUBSET Dirs /\ unreadable \in SUBSET Dirs
        /\ seen \in SUBSET File /\ results \in SUBSET File
        /\ progress \in CounterRecords
    BY <2>1 DEF Init
  <2>6. HolderType
    BY WalkersAssumption DEF Init, HolderType, Holding
  <2> QED
    BY <2>2, <2>3, <2>4, <2>5, <2>6 DEF TypeOK
<1>2. Holding = {} /\ Pushing = {}
  BY WalkersAssumption DEF Init, Holding, Pushing, Dispatchers
<1>3. RemainingExact
  BY <1>2, FS_EmptySet DEF Init, RemainingExact
<1>4. RootFirst /\ OverIsOver
  BY <1>2, WalkersAssumption DEF Init, RootFirst, OverIsOver
<1> QED
  BY <1>1, <1>3, <1>4 DEF CountInv

----------------------------------------------------------------------------
(* Waking the waiters keeps every goroutine at a state of its own kind.    *)
LEMMA WakeAllType ==
  ASSUME TypeOK, NEW p \in Walkers \cup {Closer}, NEW next,
         p \in Walkers => next \in WalkerStates, p = Closer => next \in CloserStates,
         WakeAll(p, next)
  PROVE  PcType'
<1>1. pc[Main] # "wait" /\ pc[Closer] # "wait"
  BY DEF TypeOK, PcType, MainStates, CloserStates
<1> QED
  BY <1>1, WalkersAssumption DEF TypeOK, PcType, WakeAll, WalkerStates, CloserStates

(* A walker keeps its directory for as long as it holds one.               *)
LEMMA HolderStep ==
  ASSUME TypeOK, [Next]_vars
  PROVE  HolderType'
<1> USE DEF queueVars, ctxVars, walkVars, reportVars, HolderType, Holding
<1>1. ASSUME NEW w \in Walkers, Connect(w) \/ CancelWalk(w) PROVE HolderType'
  BY <1>1 DEF Connect, CancelWalk, TypeOK, PcType
<1>2. ASSUME NEW w \in Walkers, Pop(w) PROVE HolderType'
  <2>1. items # <<>> => Head(items) \in Dirs
    BY DEF TypeOK
  <2> QED
    BY <1>2, <2>1 DEF Pop, TypeOK, PcType
<1>3. ASSUME NEW w \in Walkers, Popped(w) \/ ListDir(w) PROVE HolderType'
  BY <1>3 DEF Popped, ListDir, TypeOK, PcType
<1>4. ASSUME NEW w \in Walkers, DirEntry(w) \/ FileEntry(w) \/ LoadProgress(w) \/ Report(w)
      PROVE HolderType'
  BY <1>4 DEF DirEntry, FileEntry, LoadProgress, Report, TypeOK, PcType
<1>5. ASSUME NEW w \in Walkers, Finish(w) PROVE HolderType'
  BY <1>5 DEF Finish, TypeOK, PcType
<1>6. ASSUME NEW w \in Walkers, WalkerClose(w) PROVE HolderType'
  BY <1>6 DEF WalkerClose, CloseQueue, WakeAll, TypeOK, PcType
<1>7. ASSUME NEW p \in Dispatchers, DispatchCheck(p) \/ DispatchAdd(p) PROVE HolderType'
  BY <1>7 DEF DispatchCheck, DispatchAdd, TypeOK, PcType
<1>8. ASSUME NEW p \in Dispatchers, DispatchPush(p) PROVE HolderType'
  <2>1. ASSUME NEW g \in Walkers, pc' = [pc EXCEPT ![p] = AfterDispatch(p), ![g] = "pop"],
               dir' = dir, pc[p] = "push"
        PROVE  HolderType'
    BY <2>1 DEF TypeOK, PcType
  <2>2. ASSUME pc' = [pc EXCEPT ![p] = AfterDispatch(p)], dir' = dir, pc[p] = "push"
        PROVE  HolderType'
    BY <2>2 DEF TypeOK, PcType
  <2> QED
    BY <1>8, <2>1, <2>2 DEF DispatchPush, Enqueue, WakeOne
<1>9. ASSUME Scan /\ ~Dispatch(Main) PROVE HolderType'
  BY <1>9, WalkersAssumption DEF Scan, RootError, Start, Return, TypeOK, PcType
<1>10. ASSUME CloseOnDone PROVE HolderType'
  BY <1>10, WalkersAssumption DEF CloseOnDone, CloseQueue, WakeAll, TypeOK, PcType
<1>11. ASSUME Cancel \/ UNCHANGED vars PROVE HolderType'
  BY <1>11 DEF Cancel, vars, TypeOK
<1> QED
  BY <1>1, <1>2, <1>3, <1>4, <1>5, <1>6, <1>7, <1>8, <1>9, <1>10, <1>11
     DEF Next, Walker, ScanDir, Scan, Done, Dispatch, Dispatchers

(* Every step keeps the types; the only subtraction is safe because the    *)
(* walker that counts a directory off is itself counted.                   *)
LEMMA TypeStep ==
  ASSUME TypeOK, RemainingExact, [Next]_vars
  PROVE  TypeOK'
<1> USE DEF queueVars, ctxVars, walkVars, reportVars
<1>0. HolderType'
  BY HolderStep
<1>1. ASSUME NEW w \in Walkers, Connect(w) PROVE TypeOK'
  <2>1. PcType'
    BY <1>1, WalkersAssumption DEF Connect, TypeOK, PcType, WalkerStates
  <2> QED
    BY <1>0, <1>1, <2>1 DEF Connect, TypeOK
<1>2. ASSUME NEW w \in Walkers, CancelWalk(w) PROVE TypeOK'
  <2>1. PcType'
    BY <1>2, WalkersAssumption DEF CancelWalk, TypeOK, PcType, WalkerStates
  <2> QED
    BY <1>0, <1>2, <2>1 DEF CancelWalk, TypeOK
<1>3. ASSUME NEW w \in Walkers, Pop(w) PROVE TypeOK'
  <2>1. PcType'
    BY <1>3, WalkersAssumption DEF Pop, TypeOK, PcType, WalkerStates
  <2>2. items # <<>> => Head(items) \in Dirs /\ Tail(items) \in Seq(Dirs)
    BY DEF TypeOK
  <2> QED
    BY <1>0, <1>3, <2>1, <2>2 DEF Pop, TypeOK
<1>4. ASSUME NEW w \in Walkers, Popped(w) PROVE TypeOK'
  <2>1. PcType'
    BY <1>4, WalkersAssumption DEF Popped, TypeOK, PcType, WalkerStates
  <2> QED
    BY <1>0, <1>4, <2>1 DEF Popped, TypeOK
<1>5. ASSUME NEW w \in Walkers, ListDir(w) PROVE TypeOK'
  <2>1. PcType'
    BY <1>5, WalkersAssumption DEF ListDir, TypeOK, PcType, WalkerStates
  <2>2. dir[w] \in Dirs
    BY <1>5 DEF ListDir, TypeOK, HolderType, Holding
  <2>3. /\ visited' \in SUBSET Dirs /\ unreadable' \in SUBSET Dirs
        /\ left' \in [Walkers -> SUBSET (Dirs \cup File)]
    <3>1. Children[dir[w]] \cup Contents[dir[w]] \in SUBSET (Dirs \cup File)
      BY <2>2, DirsAssumption
    <3> QED
      BY <1>5, <2>2, <3>1 DEF ListDir, TypeOK
  <2> QED
    BY <1>0, <1>5, <2>1, <2>3 DEF ListDir, TypeOK
<1>6. ASSUME NEW w \in Walkers, DirEntry(w) PROVE TypeOK'
  <2>1. PcType'
    BY <1>6, WalkersAssumption DEF DirEntry, TypeOK, PcType, WalkerStates
  <2>2. PICK d \in left[w] \cap Dirs : /\ left' = [left EXCEPT ![w] = @ \ {d}]
                                        /\ sub' = [sub EXCEPT ![w] = d]
    BY <1>6 DEF DirEntry
  <2>3. left' \in [Walkers -> SUBSET (Dirs \cup File)]
    BY <2>2 DEF TypeOK
  <2>4. sub' \in [Dispatchers -> Dirs]
    BY <2>2 DEF TypeOK
  <2> QED
    BY <1>0, <1>6, <2>1, <2>3, <2>4 DEF DirEntry, TypeOK
<1>7. ASSUME NEW w \in Walkers, FileEntry(w) PROVE TypeOK'
  BY <1>0, <1>7 DEF FileEntry, TypeOK, PcType
<1>8. ASSUME NEW w \in Walkers, LoadProgress(w) PROVE TypeOK'
  <2>1. PcType'
    BY <1>8, WalkersAssumption DEF LoadProgress, TypeOK, PcType, WalkerStates
  <2> QED
    BY <1>0, <1>8, <2>1, CountersType DEF LoadProgress, TypeOK
<1>9. ASSUME NEW w \in Walkers, Report(w) PROVE TypeOK'
  <2>1. PcType'
    BY <1>9, WalkersAssumption DEF Report, TypeOK, PcType, WalkerStates
  <2> QED
    BY <1>0, <1>9, <2>1 DEF Report, TypeOK
<1>10. ASSUME NEW w \in Walkers, Finish(w) PROVE TypeOK'
  <2>1. PcType'
    BY <1>10, WalkersAssumption DEF Finish, TypeOK, PcType, WalkerStates
  <2>2. w \in Holding
    BY <1>10 DEF Finish, Holding
  <2>3. remaining - 1 \in Nat
    BY <2>2, ZeroMeansNothing DEF TypeOK
  <2> QED
    BY <1>0, <1>10, <2>1, <2>3 DEF Finish, TypeOK
<1>11. ASSUME NEW w \in Walkers, WalkerClose(w) PROVE TypeOK'
  <2>1. PcType'
    BY <1>11, WakeAllType, WalkersAssumption DEF WalkerClose, CloseQueue, WalkerStates
  <2> QED
    BY <1>0, <1>11, <2>1 DEF WalkerClose, CloseQueue, TypeOK
<1>12. ASSUME NEW p \in Dispatchers, Dispatch(p) PROVE TypeOK'
  <2>1. /\ p \in Walkers => AfterDispatch(p) \in WalkerStates
        /\ p = Main => AfterDispatch(p) \in MainStates
        /\ p \in Walkers \cup {Main}
    BY <1>12, WalkersAssumption DEF AfterDispatch, WalkerStates, MainStates, Dispatchers
  <2>2. CASE DispatchCheck(p)
    <3>1. PcType'
      BY <2>1, <2>2, WalkersAssumption DEF DispatchCheck, TypeOK, PcType, WalkerStates, MainStates
    <3> QED
      BY <1>0, <2>2, <3>1 DEF DispatchCheck, TypeOK
  <2>3. CASE DispatchAdd(p)
    <3>1. PcType'
      BY <2>1, <2>3, WalkersAssumption DEF DispatchAdd, TypeOK, PcType, WalkerStates, MainStates
    <3> QED
      BY <1>0, <2>3, <3>1 DEF DispatchAdd, TypeOK
  <2>4. CASE DispatchPush(p)
    <3>1. PcType'
      <4>1. ASSUME NEW g \in Walkers, pc' = [pc EXCEPT ![p] = AfterDispatch(p), ![g] = "pop"], p # g
            PROVE  PcType'
        BY <2>1, <4>1, WalkersAssumption DEF TypeOK, PcType, WalkerStates
      <4>2. ASSUME pc' = [pc EXCEPT ![p] = AfterDispatch(p)]
            PROVE  PcType'
        BY <2>1, <4>2, WalkersAssumption DEF TypeOK, PcType, WalkerStates
      <4> QED
        BY <2>4, <4>1, <4>2 DEF DispatchPush, Enqueue, WakeOne
    <3>2. Append(items, sub[p]) \in Seq(Dirs)
      BY <1>12 DEF TypeOK
    <3> QED
      BY <1>0, <2>4, <3>1, <3>2 DEF DispatchPush, Enqueue, TypeOK
  <2> QED
    BY <1>12, <2>2, <2>3, <2>4 DEF Dispatch
<1>13. ASSUME RootError PROVE TypeOK'
  <2>1. PcType'
    BY <1>13, WalkersAssumption DEF RootError, TypeOK, PcType, MainStates
  <2> QED
    BY <1>0, <1>13, <2>1 DEF RootError, TypeOK
<1>14. ASSUME Start PROVE TypeOK'
  <2>1. PcType'
    BY <1>14, WalkersAssumption DEF Start, TypeOK, PcType, WalkerStates, MainStates, CloserStates
  <2> QED
    BY <1>0, <1>14, <2>1 DEF Start, TypeOK
<1>15. ASSUME Return PROVE TypeOK'
  <2>1. PcType'
    BY <1>15, WalkersAssumption DEF Return, TypeOK, PcType, MainStates
  <2> QED
    BY <1>0, <1>15, <2>1 DEF Return, TypeOK
<1>16. ASSUME CloseOnDone PROVE TypeOK'
  <2>1. PcType'
    BY <1>16, WakeAllType, WalkersAssumption DEF CloseOnDone, CloseQueue, CloserStates
  <2> QED
    BY <1>0, <1>16, <2>1 DEF CloseOnDone, CloseQueue, TypeOK
<1>17. ASSUME Cancel PROVE TypeOK'
  BY <1>0, <1>17 DEF Cancel, TypeOK, PcType
<1>18. ASSUME UNCHANGED vars PROVE TypeOK'
  BY <1>0, <1>18 DEF vars, TypeOK, PcType
<1> QED
  BY <1>1, <1>2, <1>3, <1>4, <1>5, <1>6, <1>7, <1>8, <1>9, <1>10, <1>11, <1>12, <1>13,
     <1>14, <1>15, <1>16, <1>17, <1>18
     DEF Next, Walker, ScanDir, Scan, Done, Dispatchers
----------------------------------------------------------------------------
(* How many parties there are after one joins or leaves.                   *)
LEMMA PartiesChange ==
  ASSUME NEW S, IsFiniteSet(S), NEW x
  PROVE  /\ x \notin S => Cardinality(S \cup {x}) = Cardinality(S) + 1
         /\ x \in S => Cardinality(S \ {x}) = Cardinality(S) - 1
BY FS_AddElement, FS_RemoveElement

(* A step that leaves the queue alone and moves nobody in or out of a      *)
(* counted position keeps the equation.                                    *)
LEMMA CountKept ==
  ASSUME RemainingExact, Holding' = Holding, Pushing' = Pushing,
         Len(items') = Len(items), remaining' = remaining
  PROVE  RemainingExact'
BY DEF RemainingExact

(* Every step keeps the termination counter exact.                         *)
LEMMA CountStep ==
  ASSUME TypeOK, RemainingExact, RootFirst, [Next]_vars
  PROVE  RemainingExact'
<1> USE DEF queueVars, ctxVars, walkVars, reportVars
<1>0. /\ IsFiniteSet(Holding) /\ Cardinality(Holding) \in Nat
      /\ IsFiniteSet(Pushing) /\ Cardinality(Pushing) \in Nat
      /\ remaining \in Nat /\ items \in Seq(Dirs) /\ Len(items) \in Nat
  BY FiniteParties DEF TypeOK
<1>1. ASSUME NEW w \in Walkers,
             \/ Connect(w) \/ CancelWalk(w) \/ Popped(w) \/ ListDir(w) \/ DirEntry(w)
             \/ FileEntry(w) \/ LoadProgress(w) \/ Report(w)
      PROVE  RemainingExact'
  <2>1. /\ items' = items /\ remaining' = remaining
        /\ pc[w] # "push" /\ pc'[w] # "push"
        /\ w \in Holding <=> w \in Holding'
        /\ \A g \in DOMAIN pc : g # w => pc'[g] = pc[g]
    BY <1>1 DEF Connect, CancelWalk, Popped, ListDir, DirEntry, FileEntry, LoadProgress,
                Report, TypeOK, PcType, Holding
  <2>2. Holding' = Holding /\ Pushing' = Pushing
    BY <2>1 DEF Holding, Pushing, TypeOK, PcType, Dispatchers
  <2> QED
    BY <2>1, <2>2, CountKept
<1>2. ASSUME NEW w \in Walkers, Pop(w) PROVE RemainingExact'
  <2>1. CASE items = <<>>
    <3>1. items' = items /\ remaining' = remaining /\ Holding' = Holding /\ Pushing' = Pushing
      BY <1>2, <2>1 DEF Pop, Holding, Pushing, TypeOK, PcType, Dispatchers
    <3> QED
      BY <3>1, CountKept
  <2>2. CASE items # <<>>
    <3>1. /\ Len(items') = Len(items) - 1 /\ remaining' = remaining
          /\ w \notin Holding /\ Holding' = Holding \cup {w} /\ Pushing' = Pushing
      BY <1>2, <2>2, <1>0 DEF Pop, Holding, Pushing, TypeOK, PcType, Dispatchers
    <3>2. Cardinality(Holding') = Cardinality(Holding) + 1
      BY <3>1, <1>0, PartiesChange
    <3> QED
      BY <3>1, <3>2, <1>0 DEF RemainingExact
  <2> QED
    BY <2>1, <2>2
<1>3. ASSUME NEW w \in Walkers, Finish(w) PROVE RemainingExact'
  <2>1. /\ items' = items /\ remaining' = remaining - 1
        /\ w \in Holding /\ Holding' = Holding \ {w} /\ Pushing' = Pushing
    BY <1>3 DEF Finish, Holding, Pushing, TypeOK, PcType, Dispatchers
  <2>2. Cardinality(Holding') = Cardinality(Holding) - 1
    BY <2>1, <1>0, PartiesChange
  <2> QED
    BY <2>1, <2>2, <1>0 DEF RemainingExact
<1>4. ASSUME NEW w \in Walkers, WalkerClose(w) PROVE RemainingExact'
  <2>1. items' = items /\ remaining' = remaining /\ Holding' = Holding /\ Pushing' = Pushing
    BY <1>4 DEF WalkerClose, CloseQueue, WakeAll, Holding, Pushing, TypeOK, PcType, Dispatchers
  <2> QED
    BY <2>1, CountKept
<1>5. ASSUME NEW p \in Dispatchers, DispatchCheck(p) PROVE RemainingExact'
  <2>1. items' = items /\ remaining' = remaining /\ Holding' = Holding /\ Pushing' = Pushing
    BY <1>5, WalkersAssumption DEF DispatchCheck, AfterDispatch, Holding, Pushing, TypeOK, PcType, Dispatchers
  <2> QED
    BY <2>1, CountKept
<1>6. ASSUME NEW p \in Dispatchers, DispatchAdd(p) PROVE RemainingExact'
  <2>1. /\ items' = items /\ remaining' = remaining + 1 /\ Holding' = Holding
        /\ p \notin Pushing /\ Pushing' = Pushing \cup {p}
    BY <1>6, WalkersAssumption DEF DispatchAdd, Holding, Pushing, TypeOK, PcType, Dispatchers
  <2>2. Cardinality(Pushing') = Cardinality(Pushing) + 1
    BY <2>1, <1>0, PartiesChange
  <2> QED
    BY <2>1, <2>2, <1>0 DEF RemainingExact
<1>7. ASSUME NEW p \in Dispatchers, DispatchPush(p) PROVE RemainingExact'
  <2>1. /\ Len(items') = Len(items) + 1 /\ remaining' = remaining
        /\ p \in Pushing /\ AfterDispatch(p) \in {"join", "entries"}
        /\ p \in Walkers => AfterDispatch(p) = "entries"
    BY <1>7, <1>0, WalkersAssumption
       DEF DispatchPush, Enqueue, AfterDispatch, Pushing, Dispatchers, TypeOK
  <2>2. Holding' = Holding /\ Pushing' = Pushing \ {p}
    <3>1. ASSUME NEW g \in Walkers, pc[g] = "wait",
                 pc' = [pc EXCEPT ![p] = AfterDispatch(p), ![g] = "pop"], pc[p] = "push"
          PROVE  Holding' = Holding /\ Pushing' = Pushing \ {p}
      BY <2>1, <3>1, WalkersAssumption DEF Holding, Pushing, TypeOK, PcType, Dispatchers
    <3>2. ASSUME pc' = [pc EXCEPT ![p] = AfterDispatch(p)], pc[p] = "push"
          PROVE  Holding' = Holding /\ Pushing' = Pushing \ {p}
      BY <2>1, <3>2, WalkersAssumption DEF Holding, Pushing, TypeOK, PcType, Dispatchers
    <3> QED
      BY <1>7, <3>1, <3>2 DEF DispatchPush, Enqueue, WakeOne
  <2>3. Cardinality(Pushing') = Cardinality(Pushing) - 1
    BY <2>1, <2>2, <1>0, PartiesChange
  <2> QED
    BY <2>1, <2>2, <2>3, <1>0 DEF RemainingExact
<1>8. ASSUME RootError \/ Return PROVE RemainingExact'
  <2>1. items' = items /\ remaining' = remaining /\ Holding' = Holding /\ Pushing' = Pushing
    BY <1>8, WalkersAssumption DEF RootError, Return, Holding, Pushing, TypeOK, PcType, Dispatchers
  <2> QED
    BY <2>1, CountKept
<1>9. ASSUME CloseOnDone PROVE RemainingExact'
  <2>1. items' = items /\ remaining' = remaining /\ Holding' = Holding /\ Pushing' = Pushing
    BY <1>9, WalkersAssumption
       DEF CloseOnDone, CloseQueue, WakeAll, Holding, Pushing, TypeOK, PcType, Dispatchers
  <2> QED
    BY <2>1, CountKept
<1>10. ASSUME Cancel \/ UNCHANGED vars PROVE RemainingExact'
  <2>1. items' = items /\ remaining' = remaining /\ Holding' = Holding /\ Pushing' = Pushing
    BY <1>10 DEF Cancel, vars, Holding, Pushing
  <2> QED
    BY <2>1, CountKept
<1>11. ASSUME Start PROVE RemainingExact'
  <2>1. items' = items /\ remaining' = remaining /\ Holding' = Holding /\ Pushing' = Pushing
    BY <1>11, WalkersAssumption DEF Start, RootFirst, Holding, Pushing, TypeOK, PcType, Dispatchers
  <2> QED
    BY <2>1, CountKept
<1> QED
  BY <1>1, <1>2, <1>3, <1>4, <1>5, <1>6, <1>7, <1>8, <1>9, <1>10, <1>11
     DEF Next, Walker, ScanDir, Scan, Dispatch, Done, Dispatchers

(* Every step keeps the walk empty-handed until the root is dispatched.    *)
LEMMA RootStep ==
  ASSUME TypeOK, RootFirst, [Next]_vars
  PROVE  RootFirst'
<1> USE DEF queueVars, ctxVars, walkVars, reportVars
<1>1. ASSUME NEW w \in Walkers,
             \/ Connect(w) \/ CancelWalk(w) \/ Popped(w) \/ ListDir(w) \/ DirEntry(w)
             \/ FileEntry(w) \/ LoadProgress(w) \/ Report(w) \/ Finish(w) \/ Pop(w)
             \/ WalkerClose(w)
      PROVE  RootFirst'
  <2>1. pc'[Main] = pc[Main]
    BY <1>1, WalkersAssumption
       DEF Connect, CancelWalk, Popped, ListDir, DirEntry, FileEntry, LoadProgress, Report,
           Finish, Pop, WalkerClose, CloseQueue, WakeAll, TypeOK, PcType, MainStates
  <2>2. pc[w] # "none" /\ pc[Main] # "root"
    BY <1>1 DEF Connect, CancelWalk, Popped, ListDir, DirEntry, FileEntry, LoadProgress, Report,
                Finish, Pop, WalkerClose, RootFirst
  <2>3. CASE pc[Main] \in {"check", "add", "push"}
    <3>1. w \notin Holding /\ items = <<>>
      BY <2>3 DEF RootFirst
    <3>2. Connect(w) \/ CancelWalk(w) \/ Pop(w) \/ WalkerClose(w)
      BY <1>1, <3>1
         DEF Popped, ListDir, DirEntry, FileEntry, LoadProgress, Report, Finish, Holding
    <3>3. items' = <<>> /\ Holding' = {}
      BY <2>3, <3>1, <3>2
         DEF Connect, CancelWalk, Pop, WalkerClose, CloseQueue, WakeAll, Holding, RootFirst,
             TypeOK, PcType
    <3> QED
      BY <2>1, <2>2, <3>3 DEF RootFirst
  <2> QED
    BY <2>1, <2>2, <2>3 DEF RootFirst
<1>2. ASSUME NEW w \in Walkers, Dispatch(w) PROVE RootFirst'
  <2>1. w \in Holding
    BY <1>2 DEF Dispatch, DispatchCheck, DispatchAdd, DispatchPush, Holding
  <2>2. pc[Main] \notin {"root", "check", "add", "push"}
    BY <2>1 DEF RootFirst
  <2>3. pc'[Main] = pc[Main]
    BY <1>2, WalkersAssumption
       DEF Dispatch, DispatchCheck, DispatchAdd, DispatchPush, Enqueue, WakeOne, TypeOK, PcType
  <2> QED
    BY <2>2, <2>3 DEF RootFirst
<1>3. ASSUME Dispatch(Main) PROVE RootFirst'
  <2>1. CASE DispatchPush(Main)
    <3>1. pc'[Main] = "join"
      BY <2>1, WalkersAssumption
         DEF DispatchPush, Enqueue, WakeOne, AfterDispatch, TypeOK, PcType
    <3> QED
      BY <3>1 DEF RootFirst
  <2>2. CASE DispatchCheck(Main) \/ DispatchAdd(Main)
    <3>1. /\ items' = items /\ pc'[Main] # "root"
          /\ \A w \in Walkers : pc'[w] = pc[w]
          /\ pc[Main] \in {"check", "add"}
      BY <2>2, WalkersAssumption DEF DispatchCheck, DispatchAdd, AfterDispatch, TypeOK, PcType
    <3> QED
      BY <3>1 DEF RootFirst, Holding
  <2> QED
    BY <1>3, <2>1, <2>2 DEF Dispatch
<1>4. ASSUME RootError \/ Start \/ Return PROVE RootFirst'
  BY <1>4, WalkersAssumption DEF RootError, Start, Return, RootFirst, Holding, TypeOK, PcType
<1>5. ASSUME CloseOnDone PROVE RootFirst'
  BY <1>5, WalkersAssumption
     DEF CloseOnDone, CloseQueue, WakeAll, RootFirst, Holding, TypeOK, PcType, MainStates
<1>6. ASSUME Cancel PROVE RootFirst'
  <2>1. /\ pc' = pc /\ items' = items /\ Holding' = Holding
        /\ pc[Main] = "root" /\ ~ctx => ~ctx'
    BY <1>6 DEF Cancel, Holding
  <2> QED
    BY <2>1 DEF RootFirst
<1>7. ASSUME UNCHANGED vars PROVE RootFirst'
  BY <1>7 DEF vars, RootFirst, Holding
<1> QED
  BY <1>1, <1>2, <1>3, <1>4, <1>5, <1>6, <1>7
     DEF Next, Walker, ScanDir, Scan, Done

(* Every step of a walk that nobody cancelled keeps an ended walk ended:   *)
(* counting a directory takes a walker that holds one, or Main.            *)
LEMMA OverStep ==
  ASSUME TypeOK, RemainingExact, RootFirst, OverIsOver, [Next]_vars
  PROVE  OverIsOver'
<1> USE DEF queueVars, ctxVars, walkVars, reportVars
<1>0. /\ Holding # {} => remaining > 0
      /\ remaining \in Nat
  BY ZeroMeansNothing DEF TypeOK
<1>1. ASSUME NEW w \in Walkers,
             \/ Connect(w) \/ CancelWalk(w) \/ Popped(w) \/ ListDir(w) \/ DirEntry(w)
             \/ FileEntry(w) \/ LoadProgress(w) \/ Report(w) \/ Pop(w) \/ WalkerClose(w)
      PROVE  OverIsOver'
  <2>1. /\ pc'[Main] = pc[Main] /\ remaining' = remaining
        /\ (ctx' = ctx \/ ctx')
        /\ closed' => closed \/ pc[w] = "close"
        /\ \A v \in Walkers : pc'[v] = "close" => pc[v] = "close"
    BY <1>1, WalkersAssumption
       DEF Connect, CancelWalk, Popped, ListDir, DirEntry, FileEntry, LoadProgress, Report,
           Pop, WalkerClose, CloseQueue, WakeAll, TypeOK, PcType, MainStates
  <2> QED
    BY <2>1 DEF OverIsOver
<1>2. ASSUME NEW w \in Walkers, Finish(w) PROVE OverIsOver'
  <2>1. w \in Holding
    BY <1>2 DEF Finish, Holding
  <2>2. pc[Main] \in {"join", "returned"}
    BY <2>1 DEF RootFirst, TypeOK, PcType, MainStates
  <2>3. CASE ctx
    BY <1>2, <2>3 DEF Finish, OverIsOver
  <2>4. CASE ~ctx
    <3>1. ~closed /\ \A v \in Walkers : pc[v] # "close"
      BY <1>0, <2>1, <2>4 DEF OverIsOver
    <3>2. /\ pc'[Main] = pc[Main] /\ ~closed'
          /\ \A v \in Walkers : pc'[v] = "close" => remaining' = 0
      BY <1>0, <1>2, <3>1, WalkersAssumption DEF Finish, TypeOK, PcType
    <3> QED
      BY <2>2, <3>2 DEF OverIsOver
  <2> QED
    BY <2>3, <2>4
<1>3. ASSUME NEW w \in Walkers, Dispatch(w) PROVE OverIsOver'
  <2>1. w \in Holding
    BY <1>3 DEF Dispatch, DispatchCheck, DispatchAdd, DispatchPush, Holding
  <2>2. ~ctx => ~closed /\ \A v \in Walkers : pc[v] # "close"
    BY <1>0, <2>1 DEF OverIsOver
  <2>3. /\ ctx' = ctx /\ closed' = closed
        /\ \A v \in Walkers : pc'[v] = "close" => pc[v] = "close"
    BY <1>3, WalkersAssumption
       DEF Dispatch, DispatchCheck, DispatchAdd, DispatchPush, Enqueue, WakeOne, AfterDispatch,
           TypeOK, PcType
  <2> QED
    BY <2>2, <2>3 DEF OverIsOver
<1>4. ASSUME Dispatch(Main) PROVE OverIsOver'
  <2>1. pc[Main] \in {"check", "add", "push"}
    BY <1>4 DEF Dispatch, DispatchCheck, DispatchAdd, DispatchPush
  <2>2. ~ctx => ~closed /\ \A v \in Walkers : pc[v] # "close"
    BY <2>1 DEF OverIsOver
  <2>3. /\ ctx' = ctx /\ closed' = closed
        /\ \A v \in Walkers : pc'[v] = "close" => pc[v] = "close"
    BY <1>4, WalkersAssumption
       DEF Dispatch, DispatchCheck, DispatchAdd, DispatchPush, Enqueue, WakeOne, AfterDispatch,
           TypeOK, PcType
  <2> QED
    BY <2>2, <2>3 DEF OverIsOver
<1>5. ASSUME Scan /\ ~Dispatch(Main) PROVE OverIsOver'
  BY <1>5, WalkersAssumption
     DEF Scan, RootError, Start, Return, RootFirst, OverIsOver, TypeOK, PcType
<1>6. ASSUME CloseOnDone PROVE OverIsOver'
  BY <1>6 DEF CloseOnDone, OverIsOver
<1>7. ASSUME Cancel \/ UNCHANGED vars PROVE OverIsOver'
  BY <1>7 DEF Cancel, vars, OverIsOver, TypeOK
<1> QED
  BY <1>1, <1>2, <1>3, <1>4, <1>5, <1>6, <1>7
     DEF Next, Walker, ScanDir, Scan, Done

----------------------------------------------------------------------------
(* For every tree and every number of walkers, the walk keeps its types,   *)
(* its termination counter is exact and an ended walk stays ended.         *)
THEOREM CountSafe == Spec => []CountInv
<1>1. CountInv /\ [Next]_vars => CountInv'
  BY TypeStep, CountStep, RootStep, OverStep DEF CountInv
<1> QED
  BY <1>1, CountInit, PTL DEF Spec

(* Types are kept: in particular the counter never goes below zero, so     *)
(* `remaining.Add(-1) == 0` cannot be stepped over.                        *)
THEOREM TypeSafe == Spec => []TypeOK
BY CountSafe, PTL DEF CountInv

(* The termination counter of Scan is exact in every reachable state.      *)
THEOREM CounterExact == Spec => []RemainingExact
BY CountSafe, PTL DEF CountInv

(* The queue is never closed under a walk that still has work, unless the  *)
(* context is done.                                                        *)
THEOREM NeverClosedEarly == Spec => []NoEarlyClose
<1>1. CountInv => NoEarlyClose
  BY ZeroMeansNothing DEF CountInv, OverIsOver, NoEarlyClose
<1> QED
  BY <1>1, CountSafe, PTL

----------------------------------------------------------------------------
(* Where a walker goes through entries, a goroutine has a directory to     *)
(* dispatch, and a walker one to list.                                     *)
InEntries == {"entries", "check", "add", "push"}
InSend    == {"check", "add", "push"}
InList    == {"popped", "list"}

(* A directory the walk has met is visited, queued, in the hands of a      *)
(* goroutine that dispatches or lists it, or an entry still to handle.     *)
Queued(d)  == \E k \in DOMAIN items : items[k] = d
Sending(d) == \E p \in Dispatchers : pc[p] \in InSend /\ sub[p] = d
Listing(d) == \E w \in Walkers : pc[w] \in InList /\ dir[w] = d
Entry(e)   == \E w \in Walkers : e \in left[w]
Met(d)      == d \in visited \/ Queued(d) \/ Sending(d) \/ Listing(d) \/ Entry(d)
Reported(f) == f \in results \/ Entry(f)

(* Entries are left only while a walker goes through them.                 *)
AtWork == \A w \in Walkers : left[w] # {} => pc[w] \in InEntries

(* Why the context is done, a walker has exited, and Scan has returned.    *)
Reasons ==
  /\ ctx => fatal \/ cancelled \/ pc[Main] = "returned"
  /\ \A w \in Walkers : pc[w] = "cancel" => fatal
  /\ \A w \in Walkers : pc[w] = "exited" => closed \/ ctx
  /\ pc[Main] = "returned" => \A w \in Walkers : pc[w] \in {"none", "exited"}
  /\ sub[Main] = Root

(* Until the context is done nothing the walk has met gets lost.           *)
Covered ==
  ~ctx /\ ~fatal =>
    /\ pc[Main] # "root" => Met(Root)
    /\ \A d \in visited \ unreadable :
         /\ \A c \in Children[d] : Met(c)
         /\ \A f \in Contents[d] \cap Supported : Reported(f)

(* The inductive invariant of a complete walk.                             *)
WalkInv == CountInv /\ AtWork /\ Reasons /\ Covered /\ CompleteWalk

(* The steps that hand on no directory and no entry.                       *)
HandsStill ==
  \/ (\E w \in Walkers : \/ Connect(w) \/ CancelWalk(w) \/ Popped(w) \/ LoadProgress(w) \/ Report(w)
                         \/ Finish(w) \/ WalkerClose(w))
  \/ (\E p \in Dispatchers : DispatchCheck(p) \/ DispatchAdd(p))
  \/ RootError \/ Start \/ Return \/ CloseOnDone \/ Cancel \/ UNCHANGED vars

(* A step hands something on, or does not.                                 *)
LEMMA WalkCases ==
  ASSUME [Next]_vars
  PROVE  \/ HandsStill
         \/ \E w \in Walkers : Pop(w) \/ ListDir(w) \/ DirEntry(w) \/ FileEntry(w)
         \/ \E p \in Dispatchers : DispatchPush(p)
BY DEF Next, Walker, ScanDir, Scan, Dispatch, Done, HandsStill, Dispatchers

(* What those that do not leave as it was.                                 *)
KeepsHands ==
  /\ UNCHANGED <<items, left, sub, visited, unreadable, results>>
  /\ \A w \in Walkers : left[w] # {} /\ pc[w] \in InEntries => pc'[w] \in InEntries
  /\ ~ctx' => /\ ~ctx
              /\ \A p \in Dispatchers : pc[p] \in InSend => pc'[p] \in InSend
              /\ \A w \in Walkers : pc[w] \in InList => pc'[w] \in InList /\ dir'[w] = dir[w]

(* The steps that hand nothing on keep what is in hand there.              *)
LEMMA StillHands ==
  ASSUME TypeOK, RootFirst, HandsStill
  PROVE  KeepsHands
<1> USE DEF queueVars, ctxVars, walkVars, reportVars, KeepsHands, InEntries, InSend, InList
<1>0. /\ pc \in [Walkers \cup {Main, Closer} -> WalkerStates \cup MainStates \cup CloserStates]
      /\ Dispatchers \subseteq Walkers \cup {Main, Closer}
      /\ dir \in [Walkers -> Dirs \cup {NoDir}]
  BY DEF TypeOK, PcType, Dispatchers
<1>1. ASSUME NEW w \in Walkers,
             Connect(w) \/ CancelWalk(w) \/ Popped(w) \/ LoadProgress(w) \/ Report(w) \/ Finish(w)
      PROVE  KeepsHands
  BY <1>0, <1>1 DEF Connect, CancelWalk, Popped, LoadProgress, Report, Finish
<1>2. ASSUME NEW w \in Walkers, WalkerClose(w) PROVE KeepsHands
  BY <1>0, <1>2 DEF WalkerClose, CloseQueue, WakeAll
<1>3. ASSUME NEW p \in Dispatchers, DispatchCheck(p) \/ DispatchAdd(p) PROVE KeepsHands
  <2>1. p \in Walkers => AfterDispatch(p) = "entries"
    BY WalkersAssumption DEF AfterDispatch
  <2>2. p = Main => p \notin Walkers
    BY WalkersAssumption
  <2> QED
    BY <1>0, <1>3, <2>1, <2>2 DEF DispatchCheck, DispatchAdd, Dispatchers
<1>4. CASE RootError \/ Return
  BY <1>0, <1>4, WalkersAssumption DEF RootError, Return
<1>5. CASE Start
  <2>1. ~ctx /\ pc[Main] = "root" /\ \A w \in Walkers : pc[w] = "none"
    BY <1>5 DEF Start, RootFirst
  <2> QED
    BY <1>0, <1>5, <2>1 DEF Start, Dispatchers
<1>6. CASE CloseOnDone
  BY <1>0, <1>6, WalkersAssumption DEF CloseOnDone, CloseQueue, WakeAll
<1>7. CASE Cancel \/ UNCHANGED vars
  BY <1>7 DEF Cancel, vars, TypeOK
<1> QED
  BY <1>1, <1>2, <1>3, <1>4, <1>5, <1>6, <1>7 DEF HandsStill

(* Pushing a directory wakes a walker at most.                             *)
LEMMA PushMoves ==
  ASSUME TypeOK, NEW p \in Dispatchers, DispatchPush(p)
  PROVE  /\ pc[p] = "push" /\ items' = Append(items, sub[p]) /\ sub[p] \in Dirs
         /\ UNCHANGED <<left, sub, dir, visited, unreadable, results, ctx, fatal, cancelled, closed>>
         /\ pc'[p] = AfterDispatch(p)
         /\ \A g \in Walkers \cup {Main} : g # p =>
              pc'[g] = pc[g] \/ (g \in Walkers /\ pc[g] = "wait" /\ pc'[g] = "pop")
<1> USE DEF queueVars, ctxVars, walkVars, reportVars
<1>1. /\ pc[p] = "push" /\ items' = Append(items, sub[p]) /\ sub[p] \in Dirs
      /\ UNCHANGED <<left, sub, dir, visited, unreadable, results, ctx, fatal, cancelled, closed>>
      /\ WakeOne(p, AfterDispatch(p))
  BY DEF DispatchPush, Enqueue, TypeOK
<1>2. /\ pc \in [Walkers \cup {Main, Closer} -> WalkerStates \cup MainStates \cup CloserStates]
      /\ p \in Walkers \cup {Main, Closer}
  BY DEF TypeOK, PcType, Dispatchers
<1>3. ASSUME NEW g \in Walkers, pc[g] = "wait",
             pc' = [pc EXCEPT ![p] = AfterDispatch(p), ![g] = "pop"]
      PROVE  /\ pc'[p] = AfterDispatch(p)
             /\ \A h \in Walkers \cup {Main} : h # p =>
                  pc'[h] = pc[h] \/ (h \in Walkers /\ pc[h] = "wait" /\ pc'[h] = "pop")
  BY <1>1, <1>2, <1>3
<1>4. ASSUME pc' = [pc EXCEPT ![p] = AfterDispatch(p)]
      PROVE  /\ pc'[p] = AfterDispatch(p)
             /\ \A h \in Walkers \cup {Main} : h # p => pc'[h] = pc[h]
  BY <1>2, <1>4
<1> QED
  BY <1>1, <1>3, <1>4 DEF WakeOne

(* What the walk has met it has met from then on, and a file on its way to *)
(* be reported stays so.                                                   *)
LEMMA MetKept ==
  ASSUME TypeOK, RootFirst, AtWork, [Next]_vars, ~ctx'
  PROVE  /\ ~ctx
         /\ \A d \in Dirs : Met(d) => Met(d)'
         /\ \A f \in Supported : Reported(f) => Reported(f)'
<1> USE DEF queueVars, ctxVars, walkVars, reportVars
<1> DEFINE Goal == /\ ~ctx
                   /\ \A d \in Dirs : Met(d) => Met(d)'
                   /\ \A f \in Supported : Reported(f) => Reported(f)'
<1>0. /\ pc \in [Walkers \cup {Main, Closer} -> WalkerStates \cup MainStates \cup CloserStates]
      /\ dir \in [Walkers -> Dirs \cup {NoDir}] /\ left \in [Walkers -> SUBSET (Dirs \cup File)]
      /\ sub \in [Dispatchers -> Dirs] /\ items \in Seq(Dirs)
      /\ Dispatchers = Walkers \cup {Main} /\ Main \notin Walkers
      /\ Supported \subseteq File /\ Dirs \cap File = {}
  BY DirsAssumption, WalkersAssumption DEF TypeOK, PcType, Dispatchers, Supported
<1>1. CASE HandsStill
  <2>1. /\ UNCHANGED <<items, left, sub, visited, results>> /\ ~ctx
        /\ \A p \in Dispatchers : pc[p] \in InSend => pc'[p] \in InSend
        /\ \A w \in Walkers : pc[w] \in InList => pc'[w] \in InList /\ dir'[w] = dir[w]
    BY <1>1, StillHands DEF KeepsHands
  <2> QED
    BY <2>1 DEF Met, Reported, Queued, Sending, Listing, Entry
<1>2. ASSUME NEW w \in Walkers, Pop(w) PROVE Goal
  <2>1. /\ UNCHANGED <<left, sub, visited, results, ctx>>
        /\ pc[w] = "pop" /\ \A g \in Dispatchers : g # w => pc'[g] = pc[g] /\ (g \in Walkers => dir'[g] = dir[g])
    BY <1>0, <1>2 DEF Pop
  <2>2. \A d : Queued(d) => Queued(d)' \/ Listing(d)'
    <3>1. CASE items = <<>>
      BY <1>2, <3>1 DEF Pop, Queued
    <3>2. CASE items # <<>>
      <4>1. pc'[w] = "popped" /\ dir'[w] = items[1] /\ items' = Tail(items)
        BY <1>0, <1>2, <3>2 DEF Pop
      <4>2. \A k \in DOMAIN items : k = 1 \/ (k - 1 \in DOMAIN items' /\ items'[k - 1] = items[k])
        BY <1>0, <3>2, <4>1
      <4> QED
        BY <4>1, <4>2 DEF Queued, Listing, InList
    <3> QED
      BY <3>1, <3>2
  <2>3. /\ \A d : Sending(d) => Sending(d)'
        /\ \A d : Listing(d) => Listing(d)'
        /\ \A e : Entry(e) => Entry(e)'
    BY <1>0, <2>1 DEF Sending, Listing, Entry, InSend, InList
  <2> QED
    BY <2>1, <2>2, <2>3 DEF Met, Reported
<1>3. ASSUME NEW w \in Walkers, ListDir(w) PROVE Goal
  <2>1. /\ UNCHANGED <<items, dir, sub, results, ctx>> /\ visited' = visited \cup {dir[w]}
        /\ pc[w] = "list" /\ \A g \in Dispatchers : g # w => pc'[g] = pc[g]
        /\ \A g \in Walkers : g # w => left'[g] = left[g]
    BY <1>0, <1>3 DEF ListDir
  <2>2. left[w] = {}
    BY <2>1 DEF AtWork, InEntries
  <2>3. /\ \A d : Sending(d) => Sending(d)'
        /\ \A d : Listing(d) => Listing(d)' \/ d \in visited'
        /\ \A e : Entry(e) => Entry(e)'
        /\ \A d : Queued(d) => Queued(d)'
    BY <1>0, <2>1, <2>2 DEF Sending, Listing, Entry, Queued, InSend, InList
  <2> QED
    BY <2>1, <2>3 DEF Met, Reported
<1>4. ASSUME NEW w \in Walkers, DirEntry(w) PROVE Goal
  <2>1. PICK d \in left[w] \cap Dirs : left' = [left EXCEPT ![w] = @ \ {d}] /\ sub' = [sub EXCEPT ![w] = d]
    BY <1>4 DEF DirEntry
  <2>2. /\ UNCHANGED <<items, dir, visited, results, ctx>>
        /\ pc[w] = "entries" /\ pc'[w] = "check"
        /\ \A g \in Dispatchers : g # w => pc'[g] = pc[g] /\ sub'[g] = sub[g]
        /\ \A g \in Walkers : g # w => left'[g] = left[g]
        /\ sub'[w] = d /\ left'[w] = left[w] \ {d}
    BY <1>0, <1>4, <2>1 DEF DirEntry
  <2>3. /\ \A e : Sending(e) => Sending(e)'
        /\ \A e : Listing(e) => Listing(e)'
        /\ Sending(d)'
        /\ \A e : e # d /\ Entry(e) => Entry(e)'
        /\ \A e : Queued(e) => Queued(e)'
    BY <1>0, <2>2 DEF Sending, Listing, Entry, Queued, InSend, InList
  <2> QED
    BY <1>0, <2>1, <2>2, <2>3 DEF Met, Reported
<1>5. ASSUME NEW w \in Walkers, FileEntry(w) PROVE Goal
  <2>1. PICK f \in left[w] \cap File : /\ left' = [left EXCEPT ![w] = @ \ {f}]
                                       /\ results' = IF f \in Supported THEN results \cup {f} ELSE results
    BY <1>5 DEF FileEntry
  <2>2. /\ UNCHANGED <<items, dir, sub, pc, visited, ctx>>
        /\ \A g \in Walkers : g # w => left'[g] = left[g]
        /\ left'[w] = left[w] \ {f}
    BY <1>0, <1>5, <2>1 DEF FileEntry
  <2>3. /\ \A e : Sending(e) => Sending(e)'
        /\ \A e : Listing(e) => Listing(e)'
        /\ \A e : e # f /\ Entry(e) => Entry(e)'
        /\ \A e : Queued(e) => Queued(e)'
    BY <1>0, <2>2 DEF Sending, Listing, Entry, Queued, InSend, InList
  <2> QED
    BY <1>0, <2>1, <2>2, <2>3 DEF Met, Reported
<1>6. ASSUME NEW p \in Dispatchers, DispatchPush(p) PROVE Goal
  <2>1. /\ pc[p] = "push" /\ items' = Append(items, sub[p]) /\ sub[p] \in Dirs
        /\ UNCHANGED <<left, sub, dir, visited, results, ctx>>
        /\ \A g \in Dispatchers : g # p => pc'[g] = pc[g] \/ pc[g] = "wait"
    BY <1>0, <1>6, PushMoves
  <2>2. \A d : Queued(d) \/ d = sub[p] => Queued(d)'
    <3>1. /\ \A k \in DOMAIN items : k \in DOMAIN items' /\ items'[k] = items[k]
          /\ Len(items) + 1 \in DOMAIN items' /\ items'[Len(items) + 1] = sub[p]
      BY <1>0, <2>1
    <3> QED
      BY <3>1 DEF Queued
  <2>3. /\ \A d : Sending(d) => Sending(d)' \/ d = sub[p]
        /\ \A d : Listing(d) => Listing(d)'
        /\ \A e : Entry(e) => Entry(e)'
    BY <1>0, <2>1 DEF Sending, Listing, Entry, InSend, InList
  <2> QED
    BY <2>1, <2>2, <2>3 DEF Met, Reported
<1> QED
  BY <1>1, <1>2, <1>3, <1>4, <1>5, <1>6, WalkCases

(* A walker that is through with its entries has none left.                *)
LEMMA AtWorkStep ==
  ASSUME TypeOK, RootFirst, AtWork, [Next]_vars
  PROVE  AtWork'
<1> USE DEF queueVars, ctxVars, walkVars, reportVars, InEntries
<1>0. /\ pc \in [Walkers \cup {Main, Closer} -> WalkerStates \cup MainStates \cup CloserStates]
      /\ left \in [Walkers -> SUBSET (Dirs \cup File)] /\ Main \notin Walkers
  BY WalkersAssumption DEF TypeOK, PcType
<1>1. CASE HandsStill
  <2>1. left' = left /\ \A w \in Walkers : left[w] # {} /\ pc[w] \in InEntries => pc'[w] \in InEntries
    BY <1>1, StillHands DEF KeepsHands
  <2> QED
    BY <2>1 DEF AtWork
<1>2. ASSUME NEW w \in Walkers, Pop(w) \/ ListDir(w) \/ DirEntry(w) \/ FileEntry(w) PROVE AtWork'
  <2>1. left[w] # {} => pc[w] \in InEntries
    BY DEF AtWork
  <2>2. \A g \in Walkers : g # w => pc'[g] = pc[g] /\ left'[g] = left[g]
    BY <1>0, <1>2 DEF Pop, ListDir, DirEntry, FileEntry
  <2>3. left'[w] # {} => pc'[w] \in InEntries
    BY <1>0, <1>2, <2>1 DEF Pop, ListDir, DirEntry, FileEntry
  <2> QED
    BY <2>2, <2>3 DEF AtWork
<1>3. ASSUME NEW p \in Dispatchers, DispatchPush(p) PROVE AtWork'
  <2>1. p \in Walkers => pc'[p] = "entries"
    BY <1>0, <1>3, PushMoves DEF AfterDispatch
  <2>2. left' = left /\ \A g \in Walkers : g # p => pc'[g] = pc[g] \/ pc[g] = "wait"
    BY <1>3, PushMoves
  <2> QED
    BY <2>1, <2>2 DEF AtWork
<1> QED
  BY <1>1, <1>2, <1>3, WalkCases

(* Every step gives the same reasons for the end of the context, of a      *)
(* walker and of Scan.                                                     *)
LEMMA ReasonsStep ==
  ASSUME TypeOK, RootFirst, Reasons, [Next]_vars
  PROVE  Reasons'
<1> USE DEF queueVars, ctxVars, walkVars, reportVars
<1>0. /\ pc \in [Walkers \cup {Main, Closer} -> WalkerStates \cup MainStates \cup CloserStates]
      /\ pc[Main] \in MainStates /\ pc[Closer] \in CloserStates
      /\ sub \in [Dispatchers -> Dirs] /\ Dispatchers = Walkers \cup {Main}
      /\ Main \notin Walkers /\ Closer \notin Walkers /\ Main # Closer /\ ctx \in BOOLEAN
  BY WalkersAssumption DEF TypeOK, PcType, Dispatchers
<1>1. ASSUME NEW w \in Walkers,
             \/ Connect(w) \/ CancelWalk(w) \/ Popped(w) \/ ListDir(w) \/ DirEntry(w) \/ FileEntry(w)
             \/ LoadProgress(w) \/ Report(w) \/ Pop(w) \/ Finish(w) \/ DispatchCheck(w) \/ DispatchAdd(w)
      PROVE  Reasons'
  <2>1. /\ pc'[Main] = pc[Main] /\ sub'[Main] = sub[Main]
        /\ \A g \in Walkers : g # w => pc'[g] = pc[g]
        /\ pc[w] \notin {"none", "exited"}
        /\ closed' = closed /\ cancelled' = cancelled
    BY <1>0, <1>1 DEF Connect, CancelWalk, Popped, ListDir, DirEntry, FileEntry, LoadProgress, Report,
                      Pop, Finish, DispatchCheck, DispatchAdd
  <2>2. /\ fatal => fatal'
        /\ ctx => ctx'
        /\ ctx' => ctx \/ fatal'
        /\ pc'[w] = "cancel" => fatal'
        /\ pc'[w] = "exited" => closed \/ ctx'
    BY <1>0, <1>1 DEF Connect, CancelWalk, Popped, ListDir, DirEntry, FileEntry, LoadProgress, Report,
                      Pop, Finish, DispatchCheck, DispatchAdd, AfterDispatch, Reasons
  <2> QED
    BY <2>1, <2>2 DEF Reasons
<1>2. ASSUME NEW p \in Walkers \cup {Closer}, NEW next, next \notin {"cancel", "exited"} \/ p = Closer,
             pc[p] \notin {"none", "exited"},
             CloseQueue(p, next), UNCHANGED <<ctxVars, walkVars>>
      PROVE  Reasons'
  <2>1. /\ closed' /\ pc'[Main] = pc[Main] /\ UNCHANGED <<ctx, cancelled, fatal, sub>>
        /\ \A g \in Walkers : g # p => pc'[g] = pc[g] \/ (pc[g] = "wait" /\ pc'[g] = "pop")
        /\ p \in Walkers => pc'[p] = next
    BY <1>0, <1>2 DEF CloseQueue, WakeAll, MainStates
  <2> QED
    BY <1>0, <1>2, <2>1 DEF Reasons
<1>3. ASSUME NEW w \in Walkers, WalkerClose(w) PROVE Reasons'
  BY <1>2, <1>3 DEF WalkerClose
<1>4. CASE CloseOnDone
  BY <1>2, <1>4 DEF CloseOnDone
<1>5. ASSUME NEW p \in Dispatchers, DispatchPush(p) PROVE Reasons'
  <2>1. /\ UNCHANGED <<ctx, fatal, cancelled, closed, sub>> /\ pc[p] = "push"
        /\ pc'[p] = AfterDispatch(p)
        /\ \A g \in Walkers \cup {Main} : g # p =>
              pc'[g] = pc[g] \/ (g \in Walkers /\ pc[g] = "wait" /\ pc'[g] = "pop")
    BY <1>5, PushMoves
  <2>2. pc'[p] = IF p = Main THEN "join" ELSE "entries"
    BY <2>1 DEF AfterDispatch
  <2> QED
    BY <1>0, <2>1, <2>2 DEF Reasons
<1>6. CASE DispatchCheck(Main) \/ DispatchAdd(Main)
  <2>1. /\ UNCHANGED <<ctx, fatal, cancelled, closed, sub>> /\ pc'[Main] # "returned"
        /\ pc[Main] # "returned"
        /\ \A g \in Walkers : pc'[g] = pc[g]
    BY <1>0, <1>6 DEF DispatchCheck, DispatchAdd, AfterDispatch
  <2> QED
    BY <2>1 DEF Reasons
<1>7. CASE RootError \/ Start \/ Return
  BY <1>0, <1>7 DEF RootError, Start, Return, RootFirst, Reasons
<1>8. CASE Cancel
  BY <1>8 DEF Cancel, Reasons
<1>9. CASE UNCHANGED vars
  BY <1>9 DEF vars, Reasons
<1> QED
  BY <1>1, <1>3, <1>4, <1>5, <1>6, <1>7, <1>8, <1>9
     DEF Next, Walker, ScanDir, Scan, Dispatch, Done, Dispatchers

(* A listed directory is covered by the entries it leaves, and everything  *)
(* else stays met.                                                         *)
LEMMA CoveredStep ==
  ASSUME TypeOK, RootFirst, AtWork, Reasons, Covered, [Next]_vars
  PROVE  Covered'
<1> USE DEF queueVars, ctxVars, walkVars, reportVars
<1> SUFFICES ASSUME ~ctx', ~fatal'
             PROVE  /\ pc'[Main] # "root" => Met(Root)'
                    /\ \A d \in visited' \ unreadable' :
                         /\ \A c \in Children[d] : Met(c)'
                         /\ \A f \in Contents[d] \cap Supported : Reported(f)'
  BY DEF Covered
<1>0. /\ ~ctx
      /\ \A d \in Dirs : Met(d) => Met(d)'
      /\ \A f \in Supported : Reported(f) => Reported(f)'
  BY MetKept
<1>1. ~fatal
  BY DEF Next, Walker, Connect, CancelWalk, Pop, Popped, ScanDir, ListDir, DirEntry, FileEntry,
         LoadProgress, Report, Dispatch, DispatchCheck, DispatchAdd, DispatchPush, Finish, WalkerClose,
         Scan, RootError, Start, Return, CloseOnDone, Cancel, Done, vars
<1>2. /\ pc[Main] # "root" => Met(Root)
      /\ \A d \in visited \ unreadable : /\ \A c \in Children[d] : Met(c)
                                         /\ \A f \in Contents[d] \cap Supported : Reported(f)
  BY <1>0, <1>1 DEF Covered
<1>3. visited \subseteq Dirs /\ Root \in Dirs /\ \A d \in Dirs : Children[d] \subseteq Dirs
  BY DirsAssumption DEF TypeOK
<1>4. pc[Main] = "root" /\ pc'[Main] # "root" => Met(Root)'
  <2> SUFFICES ASSUME pc[Main] = "root", pc'[Main] # "root" PROVE Met(Root)'
    OBVIOUS
  <2>1. \A w \in Walkers : pc[w] = "none"
    BY DEF RootFirst
  <2>2. Start \/ CloseOnDone \/ Cancel \/ UNCHANGED vars
    BY <2>1 DEF Next, Walker, Connect, CancelWalk, Pop, Popped, ScanDir, ListDir, DirEntry, FileEntry,
         LoadProgress, Report, Dispatch, DispatchCheck, DispatchAdd, DispatchPush, Finish, WalkerClose,
         Scan, RootError, Return, Done
  <2>3. Start
    BY <1>0, <2>2 DEF CloseOnDone, Cancel, vars
  <2>4. pc'[Main] = "check" /\ sub'[Main] = Root
    BY <2>3, WalkersAssumption DEF Start, Reasons, TypeOK, PcType
  <2> QED
    BY <2>4 DEF Met, Sending, InSend, Dispatchers
<1>5. ASSUME NEW d \in visited' \ unreadable', d \notin visited \ unreadable
      PROVE  /\ \A c \in Children[d] : Met(c)'
             /\ \A f \in Contents[d] \cap Supported : Reported(f)'
  <2>1. PICK w \in Walkers : ListDir(w)
    <3>1. ~HandsStill /\ \A p \in Dispatchers : ~DispatchPush(p)
      BY <1>5, StillHands, PushMoves DEF KeepsHands
    <3>2. \A w \in Walkers : ~Pop(w) /\ ~DirEntry(w) /\ ~FileEntry(w)
      BY <1>5 DEF Pop, DirEntry, FileEntry
    <3> QED
      BY <3>1, <3>2, WalkCases
  <2>2. d = dir[w] /\ left'[w] = Children[dir[w]] \cup Contents[dir[w]]
    BY <1>5, <2>1 DEF ListDir, TypeOK
  <2> QED
    BY <2>2 DEF Met, Reported, Entry
<1> QED
  BY <1>0, <1>2, <1>3, <1>4, <1>5

(* When every walker has left and the context is not done, nothing is      *)
(* outstanding: what was met was visited and reported.                     *)
LEMMA ReturnIsComplete ==
  ASSUME CountInv, AtWork, Reasons, Covered, Return, ~fatal, ~cancelled
  PROVE  CompleteWalk'
<1>1. /\ ~ctx /\ pc[Main] = "join" /\ \A w \in Walkers : pc[w] = "exited"
      /\ UNCHANGED <<visited, unreadable, results, fatal, cancelled>>
  BY DEF Return, Reasons, queueVars, ctxVars, walkVars, reportVars
<1>2. closed
  BY <1>1, WalkersAssumption DEF Reasons
<1>3. items = <<>>
  BY <1>1, <1>2, ZeroMeansNothing DEF CountInv, OverIsOver
<1>4. \A w \in Walkers : left[w] = {}
  BY <1>1 DEF AtWork, InEntries
<1>5. /\ \A d : ~Queued(d) /\ ~Sending(d) /\ ~Listing(d) /\ ~Entry(d)
  BY <1>1, <1>3, <1>4 DEF Queued, Sending, Listing, Entry, InSend, InList, Dispatchers
<1>6. /\ Root \in visited
      /\ \A d \in visited \ unreadable : Children[d] \subseteq visited
                                          /\ Contents[d] \cap Supported \subseteq results
  BY <1>1, <1>5 DEF Covered, Met, Reported
<1> QED
  BY <1>1, <1>6 DEF CompleteWalk

(* Once Scan has returned only the closer and the caller go on.            *)
LEMMA AfterReturn ==
  ASSUME TypeOK, Reasons, [Next]_vars, pc[Main] = "returned"
  PROVE  CloseOnDone \/ Cancel \/ UNCHANGED vars
<1>1. \A w \in Walkers : pc[w] \in {"none", "exited"}
  BY DEF Reasons
<1> QED
  BY <1>1 DEF Next, Walker, Connect, CancelWalk, Pop, Popped, ScanDir, ListDir, DirEntry, FileEntry,
     LoadProgress, Report, Dispatch, DispatchCheck, DispatchAdd, DispatchPush, Finish, WalkerClose,
     Scan, RootError, Start, Return, Done

(* Every step keeps the promise of a walk that has ended.                  *)
LEMMA CompleteStep ==
  ASSUME WalkInv, [Next]_vars
  PROVE  CompleteWalk'
<1> USE DEF queueVars, ctxVars, walkVars, reportVars
<1>0. TypeOK /\ RootFirst /\ AtWork /\ Reasons /\ Covered /\ CompleteWalk /\ CountInv
  BY DEF WalkInv, CountInv
<1>1. CASE pc[Main] = "returned"
  <2>1. /\ UNCHANGED <<visited, unreadable, results, fatal>>
        /\ cancelled => cancelled'
    <3>1. CloseOnDone \/ Cancel \/ UNCHANGED vars
      BY <1>0, <1>1, AfterReturn
    <3> QED
      BY <3>1 DEF CloseOnDone, CloseQueue, Cancel, vars
  <2> QED
    BY <1>0, <1>1, <2>1 DEF CompleteWalk
<1>2. CASE pc[Main] # "returned" /\ pc'[Main] = "returned"
  <2>1. RootError \/ Return
    <3>0. /\ pc \in [Walkers \cup {Main, Closer} -> WalkerStates \cup MainStates \cup CloserStates]
          /\ Main \notin Walkers /\ Main # Closer
      BY <1>0, WalkersAssumption DEF TypeOK, PcType
    <3>1. ASSUME NEW p \in Dispatchers, DispatchPush(p) PROVE FALSE
      BY <1>0, <1>2, <3>1, PushMoves DEF AfterDispatch, Dispatchers
    <3>2. ASSUME NEW w \in Walkers, Pop(w) \/ ListDir(w) \/ DirEntry(w) \/ FileEntry(w) PROVE FALSE
      BY <1>2, <3>0, <3>2 DEF Pop, ListDir, DirEntry, FileEntry
    <3>3. ASSUME NEW w \in Walkers,
                 Connect(w) \/ CancelWalk(w) \/ Popped(w) \/ LoadProgress(w) \/ Report(w) \/ Finish(w)
          PROVE  FALSE
      BY <1>2, <3>0, <3>3 DEF Connect, CancelWalk, Popped, LoadProgress, Report, Finish
    <3>4. ASSUME NEW p \in Dispatchers, DispatchCheck(p) \/ DispatchAdd(p) PROVE FALSE
      BY <1>2, <3>0, <3>4 DEF DispatchCheck, DispatchAdd, AfterDispatch
    <3>5. ASSUME (\E w \in Walkers : WalkerClose(w)) \/ CloseOnDone \/ Start \/ Cancel \/ UNCHANGED vars
          PROVE  FALSE
      BY <1>2, <3>0, <3>5 DEF WalkerClose, CloseOnDone, CloseQueue, WakeAll, Start, Cancel, vars
    <3> QED
      BY <3>1, <3>2, <3>3, <3>4, <3>5, WalkCases DEF HandsStill
  <2>2. CASE RootError
    BY <2>2 DEF RootError, CompleteWalk
  <2>3. CASE Return
    <3>1. fatal \/ cancelled => CompleteWalk'
      BY <2>3 DEF Return, CompleteWalk
    <3> QED
      BY <1>0, <2>3, <3>1, ReturnIsComplete
  <2> QED
    BY <2>1, <2>2, <2>3
<1>3. CASE pc'[Main] # "returned"
  BY <1>3 DEF CompleteWalk
<1> QED
  BY <1>1, <1>2, <1>3

(* The invariant of a complete walk holds of every walk.                   *)
THEOREM WalkInvAlways == Spec => []WalkInv
<1>1. Init => WalkInv
  <2> SUFFICES ASSUME Init PROVE AtWork /\ Reasons /\ Covered /\ CompleteWalk
    BY CountInit DEF WalkInv
  <2>1. AtWork /\ Reasons
    BY WalkersAssumption DEF Init, AtWork, Reasons, Dispatchers
  <2>2. pc[Main] = "root" /\ visited = {}
    BY DEF Init
  <2> QED
    BY <2>1, <2>2 DEF Covered, CompleteWalk
<1>2. WalkInv /\ [Next]_vars => WalkInv'
  <2> SUFFICES ASSUME WalkInv, [Next]_vars PROVE WalkInv'
    OBVIOUS
  <2>1. TypeOK /\ RemainingExact /\ RootFirst /\ OverIsOver /\ AtWork /\ Reasons /\ Covered
    BY DEF WalkInv, CountInv
  <2>2. CountInv'
    BY <2>1, TypeStep, CountStep, RootStep, OverStep DEF CountInv
  <2> QED
    BY <2>1, <2>2, AtWorkStep, ReasonsStep, CoveredStep, CompleteStep DEF WalkInv
<1> QED
  BY <1>1, <1>2, PTL DEF Spec

(* A Scan that returns without an error, and was not cancelled, has        *)
(* visited every directory it could reach and reported every ebook and     *)
(* archive in them.                                                        *)
THEOREM WalkIsComplete == Spec => []CompleteWalk
<1>1. WalkInv => CompleteWalk
  BY DEF WalkInv
<1> QED
  BY <1>1, WalkInvAlways, PTL

----------------------------------------------------------------------------
(* A directory has one parent, and the root none.                          *)
IsTree ==
  /\ \A d, e \in Dirs : \A c \in Children[d] \cap Children[e] : d = e
  /\ \A d \in Dirs : Root \notin Children[d]

(* What a goroutine has of directories to come.                            *)
Handed(g, d) ==
  \/ pc[g] \in InSend /\ sub[g] = d
  \/ g \in Walkers /\ pc[g] \in InList /\ dir[g] = d
  \/ g \in Walkers /\ d \in left[g]

(* A directory is in one place at most, and in none after its visit.       *)
OnePlace ==
  /\ \A i, j \in DOMAIN items : items[i] = items[j] => i = j
  /\ \A g, h \in Dispatchers, d \in Dirs : Handed(g, d) /\ Handed(h, d) => g = h
  /\ \A g \in Dispatchers, i \in DOMAIN items : ~Handed(g, items[i])
  /\ \A d \in visited : ~Queued(d) /\ \A g \in Dispatchers : ~Handed(g, d)
  /\ \A w \in Walkers : pc[w] \in InSend => sub[w] \notin left[w]

(* It comes from the listing of its parent.                                *)
ParentFirst ==
  /\ pc[Main] = "root" => visited = {}
  /\ \A d \in Dirs \ {Root} : Queued(d) \/ d \in visited \/ (\E g \in Dispatchers : Handed(g, d))
                                => \E p \in visited : d \in Children[p]

(* The steps that hand nothing on give nobody a directory, but for the     *)
(* root.                                                                   *)
LEMMA NothingNew ==
  ASSUME TypeOK, HandsStill, ~Start, NEW g \in Dispatchers, NEW d, Handed(g, d)'
  PROVE  Handed(g, d)
<1> USE DEF queueVars, ctxVars, walkVars, reportVars, InSend, InList, Handed
<1>0. /\ pc \in [Walkers \cup {Main, Closer} -> WalkerStates \cup MainStates \cup CloserStates]
      /\ dir \in [Walkers -> Dirs \cup {NoDir}]
      /\ Dispatchers = Walkers \cup {Main} /\ Main \notin Walkers /\ Closer \notin Dispatchers
  BY WalkersAssumption DEF TypeOK, PcType, Dispatchers
<1>1. ASSUME NEW w \in Walkers, Connect(w) \/ CancelWalk(w) \/ LoadProgress(w) \/ Report(w)
      PROVE  Handed(g, d)
  BY <1>0, <1>1 DEF Connect, CancelWalk, LoadProgress, Report
<1>2. ASSUME NEW w \in Walkers, Popped(w) \/ Finish(w) PROVE Handed(g, d)
  BY <1>0, <1>2 DEF Popped, Finish
<1>3. ASSUME NEW w \in Walkers, WalkerClose(w) PROVE Handed(g, d)
  BY <1>0, <1>3 DEF WalkerClose, CloseQueue, WakeAll
<1>4. ASSUME NEW p \in Dispatchers, DispatchCheck(p) \/ DispatchAdd(p) PROVE Handed(g, d)
  BY <1>0, <1>4 DEF DispatchCheck, DispatchAdd, AfterDispatch
<1>5. CASE RootError \/ Return \/ Cancel \/ UNCHANGED vars
  BY <1>0, <1>5 DEF RootError, Return, Cancel, vars
<1>6. CASE CloseOnDone
  BY <1>0, <1>6 DEF CloseOnDone, CloseQueue, WakeAll
<1> QED
  BY <1>1, <1>2, <1>3, <1>4, <1>5, <1>6 DEF HandsStill

(* Every step keeps a directory in one place: a listing finds only         *)
(* directories that nobody has met, for their parent was not listed yet.   *)
LEMMA OnceStep ==
  ASSUME IsTree, TypeOK, RootFirst, AtWork, Reasons, OnePlace, ParentFirst, [Next]_vars
  PROVE  OnePlace' /\ ParentFirst'
<1> USE DEF queueVars, ctxVars, walkVars, reportVars
<1>0. /\ pc \in [Walkers \cup {Main, Closer} -> WalkerStates \cup MainStates \cup CloserStates]
      /\ dir \in [Walkers -> Dirs \cup {NoDir}] /\ left \in [Walkers -> SUBSET (Dirs \cup File)]
      /\ sub \in [Dispatchers -> Dirs] /\ items \in Seq(Dirs) /\ visited \subseteq Dirs
      /\ Dispatchers = Walkers \cup {Main} /\ Main \notin Walkers
      /\ Dirs \cap File = {} /\ \A d \in Dirs : Children[d] \subseteq Dirs /\ Contents[d] \subseteq File
  BY DirsAssumption, WalkersAssumption DEF TypeOK, PcType, Dispatchers
<1>1. CASE HandsStill /\ ~Start
  <2>1. UNCHANGED <<items, left, sub, visited>> /\ \A g \in Dispatchers : \A d : Handed(g, d)' => Handed(g, d)
    BY <1>1, StillHands, NothingNew DEF KeepsHands
  <2>2. /\ pc'[Main] = "root" => pc[Main] = "root"
        /\ \A w \in Walkers : pc'[w] \in InSend => pc[w] \in InSend
    BY <1>0, <1>1, WalkersAssumption DEF HandsStill, Connect, CancelWalk, Popped, LoadProgress, Report,
       Finish, WalkerClose, CloseQueue, WakeAll, DispatchCheck, DispatchAdd, AfterDispatch, RootError,
       Return, CloseOnDone, Cancel, vars, InSend
  <2>3. \A d : Queued(d)' <=> Queued(d)
    BY <2>1 DEF Queued
  <2> QED
    BY <2>1, <2>2, <2>3 DEF OnePlace, ParentFirst
<1>2. CASE Start
  <2>1. /\ pc[Main] = "root" /\ items = <<>> /\ visited = {} /\ sub[Main] = Root
        /\ \A w \in Walkers : pc[w] = "none"
    BY <1>2 DEF Start, RootFirst, ParentFirst, Reasons
  <2>2. \A w \in Walkers : left[w] = {} /\ pc'[w] = "connect"
    BY <1>0, <1>2, <2>1, WalkersAssumption DEF Start, AtWork, InEntries
  <2>3. UNCHANGED <<items, left, sub, visited>> /\ pc'[Main] = "check"
    <3>1. UNCHANGED <<items, left, sub, visited>>
      BY <1>2 DEF Start
    <3>2. Main \in DOMAIN pc
      BY <1>0
    <3> QED
      BY <1>2, <3>1, <3>2, WalkersAssumption DEF Start
  <2>4. \A g \in Dispatchers : \A d : Handed(g, d)' => g = Main /\ d = Root
    BY <1>0, <2>1, <2>2, <2>3 DEF Handed, InSend, InList
  <2>5. \A d : ~Queued(d)'
    BY <2>1, <2>3 DEF Queued
  <2> QED
    BY <1>0, <2>1, <2>2, <2>3, <2>4, <2>5 DEF OnePlace, ParentFirst, InSend
<1>3. ASSUME NEW w \in Walkers, Pop(w) PROVE OnePlace' /\ ParentFirst'
  <2>1. /\ UNCHANGED <<left, sub, visited>>
        /\ \A g \in Dispatchers : g # w => pc'[g] = pc[g] /\ (g \in Walkers => dir'[g] = dir[g])
        /\ pc[w] = "pop" /\ left[w] = {}
    BY <1>0, <1>3 DEF Pop, AtWork, InEntries
  <2>2. \A g \in Dispatchers : \A d : g # w => (Handed(g, d)' <=> Handed(g, d))
    BY <1>0, <2>1 DEF Handed
  <2>3. CASE items = <<>>
    <3>1. items' = items /\ pc'[w] \in {"exited", "wait"}
      BY <1>0, <1>3, <2>3 DEF Pop
    <3>2. \A d : ~Handed(w, d)' /\ (Queued(d)' <=> Queued(d))
      BY <1>0, <2>1, <3>1 DEF Handed, InSend, InList, Queued
    <3> QED
      BY <1>0, <2>1, <2>2, <3>1, <3>2 DEF OnePlace, ParentFirst, InSend
  <2>4. CASE items # <<>>
    <3>1. items' = Tail(items) /\ pc'[w] = "popped" /\ dir'[w] = items[1] /\ 1 \in DOMAIN items
      BY <1>0, <1>3, <2>4 DEF Pop
    <3>2. \A d : Handed(w, d)' <=> d = items[1]
      BY <1>0, <2>1, <3>1 DEF Handed, InSend, InList
    <3>3. \A k \in DOMAIN items' : k + 1 \in DOMAIN items /\ items'[k] = items[k + 1] /\ k + 1 # 1 /\ k \in Nat
      BY <1>0, <2>4, <3>1
    <3>4. /\ \A i, j \in DOMAIN items' : items'[i] = items'[j] => i = j
          /\ \A i \in DOMAIN items' : items'[i] # items[1]
      BY <3>1, <3>3 DEF OnePlace
    <3>5. \A d : Queued(d)' => Queued(d)
      BY <3>3 DEF Queued
    <3>6. Queued(items[1]) /\ items[1] \in Dirs
      BY <1>0, <3>1 DEF Queued
    <3>7. \A g \in Dispatchers, i \in DOMAIN items' : \A d : d = items'[i] => ~Handed(g, d)'
      BY <2>2, <3>2, <3>3, <3>4 DEF OnePlace
    <3>8. \A g, h \in Dispatchers, d \in Dirs : Handed(g, d)' /\ Handed(h, d)' => g = h
      BY <2>2, <3>1, <3>2 DEF OnePlace
    <3>9. \A d \in visited : ~Queued(d)' /\ \A g \in Dispatchers : ~Handed(g, d)'
      BY <2>2, <3>2, <3>5, <3>6 DEF OnePlace
    <3>10. OnePlace'
      BY <1>0, <2>1, <3>1, <3>4, <3>7, <3>8, <3>9 DEF OnePlace, InSend
    <3> QED
      BY <1>0, <2>1, <2>2, <3>2, <3>5, <3>6, <3>10 DEF ParentFirst
  <2> QED
    BY <2>3, <2>4
<1>4. ASSUME NEW w \in Walkers, ListDir(w) PROVE OnePlace' /\ ParentFirst'
  <2>1. PICK d0 \in Dirs : d0 = dir[w] /\ pc[w] = "list"
    BY <1>4 DEF ListDir, TypeOK, HolderType, Holding
  <2>2. /\ UNCHANGED <<items, dir, sub>> /\ visited' = visited \cup {d0}
        /\ left[w] = {} /\ pc'[w] \in {"finish", "entries"} /\ pc'[Main] = pc[Main]
        /\ \A g \in Dispatchers : g # w => pc'[g] = pc[g] /\ (g \in Walkers => left'[g] = left[g])
        /\ left'[w] = {} \/ left'[w] = Children[d0] \cup Contents[d0]
    BY <1>0, <1>4, <2>1 DEF ListDir, AtWork, InEntries
  <2>3. Handed(w, d0) /\ d0 \notin visited /\ ~Queued(d0)
    <3>1. w \in Dispatchers /\ Handed(w, d0)
      BY <1>0, <2>1 DEF Handed, InList
    <3> QED
      BY <3>1 DEF OnePlace, Queued
  <2>4. \A g \in Dispatchers : \A d : g # w => (Handed(g, d)' <=> Handed(g, d))
    BY <1>0, <2>2 DEF Handed
  <2>5. \A d \in Dirs : Handed(w, d)' => d \in Children[d0]
    BY <1>0, <2>1, <2>2 DEF Handed, InSend, InList
  <2>6. ASSUME NEW c \in Children[d0]
        PROVE  c # Root /\ ~Queued(c) /\ c \notin visited /\ \A g \in Dispatchers : ~Handed(g, c)
    <3>1. c \in Dirs \ {Root}
      BY <1>0 DEF IsTree
    <3>2. \A p \in visited : c \notin Children[p]
      BY <1>0, <2>3 DEF IsTree
    <3> QED
      BY <3>1, <3>2 DEF ParentFirst
  <2>7. d0 \notin Children[d0]
    BY <1>0, <2>3, <2>6
  <2>8. \A d : Queued(d)' <=> Queued(d)
    BY <2>2 DEF Queued
  <2>9. \A g \in Dispatchers, i \in DOMAIN items' : \A d : d = items'[i] => ~Handed(g, d)'
    <3>1. \A i \in DOMAIN items : items[i] \in Dirs /\ Queued(items[i])
      BY <1>0 DEF Queued
    <3> QED
      BY <2>2, <2>4, <2>5, <2>6, <3>1 DEF OnePlace
  <2>10. \A g, h \in Dispatchers, d \in Dirs : Handed(g, d)' /\ Handed(h, d)' => g = h
    BY <2>4, <2>5, <2>6 DEF OnePlace
  <2>11. \A d \in visited' : ~Queued(d)' /\ \A g \in Dispatchers : ~Handed(g, d)'
    BY <1>0, <2>1, <2>2, <2>3, <2>4, <2>5, <2>6, <2>7, <2>8 DEF OnePlace
  <2>12. OnePlace'
    BY <1>0, <2>2, <2>9, <2>10, <2>11 DEF OnePlace, InSend
  <2>13. ParentFirst'
    <3>1. pc'[Main] # "root"
      BY <2>1, <2>2 DEF RootFirst
    <3>2. d0 # Root => \E p \in visited : d0 \in Children[p]
      BY <1>0, <2>1, <2>3 DEF ParentFirst
    <3>3. ASSUME NEW d \in Dirs \ {Root},
                 Queued(d)' \/ d \in visited' \/ (\E g \in Dispatchers : Handed(g, d)')
          PROVE  \E p \in visited' : d \in Children[p]
      BY <2>2, <2>4, <2>5, <2>8, <3>2, <3>3 DEF ParentFirst
    <3> QED
      BY <3>1, <3>3 DEF ParentFirst
  <2> QED
    BY <2>12, <2>13
<1>5. ASSUME NEW w \in Walkers, DirEntry(w) \/ FileEntry(w) PROVE OnePlace' /\ ParentFirst'
  <2>1. /\ UNCHANGED <<items, visited, dir>> /\ pc[w] = "entries" /\ pc'[w] \in {"entries", "check"}
        /\ \A g \in Dispatchers : g # w => pc'[g] = pc[g] /\ sub'[g] = sub[g]
                                              /\ (g \in Walkers => left'[g] = left[g])
    BY <1>0, <1>5 DEF DirEntry, FileEntry
  <2>2. \/ \E d \in left[w] \cap Dirs : left'[w] = left[w] \ {d} /\ sub'[w] = d
        \/ \E f \in left[w] \cap File : left'[w] = left[w] \ {f} /\ pc'[w] = "entries"
    BY <1>0, <1>5 DEF DirEntry, FileEntry
  <2>3. \A g \in Dispatchers, d \in Dirs : Handed(g, d)' => Handed(g, d)
    <3>1. \A d \in Dirs : Handed(w, d)' => Handed(w, d)
      BY <1>0, <2>1, <2>2 DEF Handed, InSend, InList
    <3>2. \A g \in Dispatchers, d \in Dirs : g # w => (Handed(g, d)' => Handed(g, d))
      BY <1>0, <2>1 DEF Handed
    <3> QED
      BY <3>1, <3>2
  <2>4. \A d : Queued(d)' <=> Queued(d)
    BY <2>1 DEF Queued
  <2>5. \A v \in Walkers : pc'[v] \in InSend => sub'[v] \notin left'[v]
    BY <1>0, <2>1, <2>2 DEF OnePlace, InSend
  <2>6. \A i \in DOMAIN items : items[i] \in Dirs
    BY <1>0
  <2> QED
    BY <1>0, <2>1, <2>3, <2>4, <2>5, <2>6 DEF OnePlace, ParentFirst
<1>6. ASSUME NEW p \in Dispatchers, DispatchPush(p) PROVE OnePlace' /\ ParentFirst'
  <2>1. PICK d0 \in Dirs : d0 = sub[p] /\ pc[p] = "push"
    BY <1>6, PushMoves
  <2>2. /\ items' = Append(items, d0) /\ UNCHANGED <<left, sub, dir, visited>>
        /\ pc'[p] \in {"join", "entries"}
        /\ \A g \in Dispatchers : g # p => pc'[g] = pc[g] \/ (pc[g] = "wait" /\ pc'[g] = "pop")
    BY <1>0, <1>6, <2>1, PushMoves DEF AfterDispatch
  <2>3. Handed(p, d0) /\ \A g \in Dispatchers : \A d : Handed(g, d)' => Handed(g, d)
    BY <1>0, <2>1, <2>2 DEF Handed, InSend, InList
  <2>4. \A g \in Dispatchers : ~Handed(g, d0)'
    <3>1. ~Handed(p, d0)'
      BY <1>0, <2>1, <2>2 DEF Handed, OnePlace, InSend, InList
    <3> QED
      BY <2>3, <3>1 DEF OnePlace
  <2>5. /\ DOMAIN items' = DOMAIN items \cup {Len(items) + 1} /\ items'[Len(items) + 1] = d0
        /\ \A i \in DOMAIN items : items'[i] = items[i] /\ items[i] \in Dirs
    BY <1>0, <2>1, <2>2
  <2>6. \A i \in DOMAIN items : items[i] # d0
    BY <2>3 DEF OnePlace
  <2>7. \A d : Queued(d)' <=> Queued(d) \/ d = d0
    BY <2>5 DEF Queued
  <2>8. \A w \in Walkers : pc'[w] \in InSend => pc[w] \in InSend
    BY <1>0, <2>2 DEF InSend
  <2>9. pc'[Main] = "root" => pc[Main] = "root"
    BY <1>0, <2>1, <2>2
  <2>10. \A d \in visited : d # d0
    BY <2>3 DEF OnePlace
  <2> QED
    BY <2>2, <2>3, <2>4, <2>5, <2>6, <2>7, <2>8, <2>9, <2>10 DEF OnePlace, ParentFirst
<1> QED
  BY <1>1, <1>2, <1>3, <1>4, <1>5, <1>6, WalkCases

(* In a tree no directory is listed twice, by whatever walkers.            *)
THEOREM DirsListedOnce ==
  ASSUME IsTree
  PROVE  Spec => ListedOnce
<1> DEFINE Inv == WalkInv /\ OnePlace /\ ParentFirst
<1>1. Init => OnePlace /\ ParentFirst
  <2> SUFFICES ASSUME Init PROVE OnePlace /\ ParentFirst
    OBVIOUS
  <2>1. /\ items = <<>> /\ visited = {} /\ \A w \in Walkers : left[w] = {}
        /\ \A g \in Dispatchers : pc[g] \in {"root", "none"}
    BY WalkersAssumption DEF Init, Dispatchers
  <2>2. \A d : ~Queued(d) /\ \A g \in Dispatchers : ~Handed(g, d)
    BY <2>1 DEF Queued, Handed, InSend, InList
  <2> QED
    <3>1. DOMAIN items = {}
      BY <2>1
    <3>2. \A w \in Walkers : pc[w] \notin InSend
      BY <2>1 DEF InSend, Dispatchers
    <3> QED
      BY <2>1, <2>2, <3>1, <3>2 DEF OnePlace, ParentFirst
<1>2. WalkInv /\ OnePlace /\ ParentFirst /\ [Next]_vars => OnePlace' /\ ParentFirst'
  BY OnceStep DEF WalkInv, CountInv
<1>3. WalkInv /\ OnePlace => \A w \in Walkers : ListDir(w) => dir[w] \notin visited
  BY DEF OnePlace, Handed, InList, ListDir, Dispatchers
<1> QED
  BY <1>1, <1>2, <1>3, WalkInvAlways, PTL DEF Spec, ListedOnce

----------------------------------------------------------------------------
(* No directory is above itself: each has a height.                        *)
Grounded == \E Height \in [Dirs -> Nat] : \A d \in Dirs, c \in Dirs :
              c \in Children[d] => Height[c] < Height[d]

(* What is under a directory.                                              *)
LEMMA UnderDir ==
  ASSUME NEW d \in Dirs
  PROVE  /\ Contents[d] \cap Supported \subseteq Under[d]
         /\ \A c \in Children[d] : Under[c] \subseteq Under[d]
         /\ \A f \in Under[d] : f \in Contents[d] \cap Supported \/ \E c \in Children[d] : f \in Under[c]
<1>1. Under[d] = (Contents[d] \cap Supported) \cup UNION {Under[e] : e \in Children[d]}
  BY UnderAssumption
<1> QED
  BY <1>1

(* When all readable directories that were visited had their entries       *)
(* visited and reported, only what lies under an unreadable one is         *)
(* missing: a lowest directory with something else missing has none.       *)
LEMMA OnlyLostIsMissing ==
  ASSUME Grounded, TypeOK, Root \in visited,
         \A d \in visited \ unreadable :
           Children[d] \subseteq visited /\ Contents[d] \cap Supported \subseteq results
  PROVE  Under[Root] \subseteq results \cup UNION {Under[d] : d \in unreadable}
<1> SUFFICES ASSUME NEW f \in Under[Root], f \notin results, \A d \in unreadable : f \notin Under[d]
             PROVE  FALSE
  OBVIOUS
<1>1. PICK Height \in [Dirs -> Nat] : \A d \in Dirs, c \in Dirs : c \in Children[d] => Height[c] < Height[d]
  BY DEF Grounded
<1> DEFINE S == {n \in Nat : \E d \in visited : f \in Under[d] /\ Height[d] = n}
<1>2. visited \subseteq Dirs
  BY DEF TypeOK
<1>3. Height[Root] \in S /\ S \subseteq Nat
  BY <1>1, <1>2
<1>4. \E n \in S : \A m \in S : ~(<<m, n>> \in OpToRel(<, Nat))
  BY <1>3, NatLessThanWellFounded, WFMin
<1>5. PICK n \in S : \A m \in S : ~(m < n)
  BY <1>3, <1>4 DEF OpToRel
<1>6. PICK d \in visited : f \in Under[d] /\ Height[d] = n
  BY <1>5
<1>7. d \in visited \ unreadable /\ d \in Dirs
  BY <1>2, <1>6
<1>8. PICK c \in Children[d] : f \in Under[c]
  BY <1>6, <1>7, UnderDir
<1>9. c \in visited /\ c \in Dirs /\ Height[c] < n /\ Height[c] \in Nat
  BY <1>1, <1>2, <1>6, <1>7, <1>8
<1> QED
  BY <1>5, <1>8, <1>9

(* The walk stays under its root.                                          *)
InReach(d) == Under[d] \subseteq Under[Root]
StaysBelow ==
  /\ \A k \in DOMAIN items : InReach(items[k])
  /\ \A p \in Dispatchers : InReach(sub[p])
  /\ \A w \in Walkers : dir[w] \in Dirs => InReach(dir[w])
  /\ \A w \in Walkers : /\ \A d \in left[w] \cap Dirs : InReach(d)
                        /\ left[w] \cap Supported \subseteq Under[Root]

(* Every step of the walk stays under the root.                            *)
LEMMA BelowStep ==
  ASSUME TypeOK, RootFirst, AtWork, StaysBelow, [Next]_vars
  PROVE  StaysBelow'
<1> USE DEF queueVars, ctxVars, walkVars, reportVars
<1>0. /\ dir \in [Walkers -> Dirs \cup {NoDir}] /\ left \in [Walkers -> SUBSET (Dirs \cup File)]
      /\ sub \in [Dispatchers -> Dirs] /\ items \in Seq(Dirs)
      /\ Walkers \subseteq Dispatchers /\ Dirs \cap File = {} /\ NoDir \notin Dirs
  BY DirsAssumption DEF TypeOK, Dispatchers
<1>1. CASE HandsStill
  <2>1. UNCHANGED <<items, left, sub>>
    BY <1>1, StillHands DEF KeepsHands
  <2>2. \A w \in Walkers : dir'[w] \in Dirs => dir'[w] = dir[w]
    BY <1>0, <1>1 DEF HandsStill, Connect, CancelWalk, Popped, LoadProgress, Report, Finish, WalkerClose,
       DispatchCheck, DispatchAdd, RootError, Start, Return, CloseOnDone, Cancel, vars
  <2> QED
    BY <2>1, <2>2 DEF StaysBelow, InReach
<1>2. ASSUME NEW w \in Walkers, Pop(w) PROVE StaysBelow'
  <2>1. UNCHANGED <<left, sub>>
    BY <1>2 DEF Pop
  <2>2. CASE items # <<>>
    <3>1. items' = Tail(items) /\ dir' = [dir EXCEPT ![w] = items[1]] /\ 1 \in DOMAIN items
      BY <1>0, <1>2, <2>2 DEF Pop
    <3>2. \A k \in DOMAIN items' : k + 1 \in DOMAIN items /\ items'[k] = items[k + 1]
      BY <1>0, <2>2, <3>1
    <3>3. \A v \in Walkers : dir'[v] = dir[v] \/ dir'[v] = items[1]
      BY <1>0, <3>1
    <3> QED
      BY <2>1, <3>1, <3>2, <3>3 DEF StaysBelow, InReach
  <2>3. CASE items = <<>>
    BY <1>2, <2>1, <2>3 DEF Pop, StaysBelow, InReach
  <2> QED
    BY <2>2, <2>3
<1>3. ASSUME NEW w \in Walkers, ListDir(w) PROVE StaysBelow'
  <2>1. dir[w] \in Dirs /\ UNCHANGED <<items, sub, dir>>
    BY <1>3 DEF ListDir, TypeOK, HolderType, Holding
  <2>2. PICK d \in Dirs : d = dir[w] /\ InReach(d)
    BY <2>1 DEF StaysBelow
  <2>3. \A v \in Walkers : left'[v] = left[v] \/ left'[v] = Children[d] \cup Contents[d]
    BY <1>0, <1>3, <2>2 DEF ListDir
  <2>4. /\ \A c \in Children[d] : InReach(c) /\ c \in Dirs
        /\ Contents[d] \cap Supported \subseteq Under[Root] /\ Contents[d] \cap Dirs = {}
        /\ Children[d] \cap Supported = {}
    BY <1>0, <2>2, UnderDir, DirsAssumption DEF InReach, Supported
  <2> QED
    BY <2>1, <2>3, <2>4 DEF StaysBelow, InReach
<1>4. ASSUME NEW w \in Walkers, DirEntry(w) \/ FileEntry(w) PROVE StaysBelow'
  <2>1. UNCHANGED <<items, dir>> /\ \A v \in Walkers : left'[v] \subseteq left[v]
    BY <1>0, <1>4 DEF DirEntry, FileEntry
  <2>2. \A p \in Dispatchers : sub'[p] = sub[p] \/ sub'[p] \in left[w] \cap Dirs
    BY <1>0, <1>4 DEF DirEntry, FileEntry
  <2> QED
    BY <2>1, <2>2 DEF StaysBelow, InReach
<1>5. ASSUME NEW p \in Dispatchers, DispatchPush(p) PROVE StaysBelow'
  <2>1. items' = Append(items, sub[p]) /\ sub[p] \in Dirs /\ UNCHANGED <<left, sub, dir>>
    BY <1>5, PushMoves
  <2>2. \A k \in DOMAIN items' : (k \in DOMAIN items /\ items'[k] = items[k]) \/ items'[k] = sub[p]
    BY <1>0, <2>1
  <2> QED
    BY <2>1, <2>2 DEF StaysBelow, InReach
<1> QED
  BY <1>1, <1>2, <1>3, <1>4, <1>5, WalkCases

(* Every step of the walk is one of Discovery or none.                     *)
LEMMA DiscoveryStep ==
  ASSUME Grounded, WalkInv, WalkInv', StaysBelow, [Next]_vars
  PROVE  Promise!DiscoveryNext \/ UNCHANGED Promise!discoveryVars
<1> USE DEF queueVars, ctxVars, walkVars, reportVars
<1> DEFINE Goal == Promise!DiscoveryNext \/ UNCHANGED <<results, unreadable, cancelled, ScanResult>>
<1> SUFFICES Goal
  BY DEF Promise!discoveryVars
<1>0. TypeOK /\ RootFirst /\ AtWork /\ Reasons /\ TypeOK' /\ CompleteWalk'
  BY DEF WalkInv, CountInv
<1>1. /\ pc \in [Walkers \cup {Main, Closer} -> WalkerStates \cup MainStates \cup CloserStates]
      /\ Main \notin Walkers /\ Main # Closer /\ \A w \in Walkers : dir[w] \in Dirs \cup {NoDir}
  BY <1>0, WalkersAssumption DEF TypeOK, PcType
<1>2. ASSUME pc'[Main] # "returned", pc[Main] # "returned",
             UNCHANGED <<results, unreadable, cancelled>>
      PROVE  Goal
  BY <1>2 DEF ScanResult
<1>3. CASE pc[Main] = "returned"
  <2>1. CloseOnDone \/ Cancel \/ UNCHANGED vars
    BY <1>0, <1>3, AfterReturn
  <2>2. pc'[Main] = pc[Main] /\ UNCHANGED <<results, unreadable, fatal>>
    BY <1>1, <1>3, <2>1 DEF CloseOnDone, CloseQueue, WakeAll, Cancel, vars
  <2>3. ScanResult' = ScanResult
    BY <2>2 DEF ScanResult
  <2>4. UNCHANGED cancelled \/ (~cancelled /\ cancelled')
    BY <2>1 DEF CloseOnDone, Cancel, vars
  <2>5. ~cancelled /\ cancelled' => Promise!CallerCancels
    <3>1. Cancel => cancelled' = TRUE
      BY DEF Cancel
    <3> QED
      BY <2>1, <2>2, <2>3, <3>1 DEF Promise!CallerCancels, CloseOnDone, vars
  <2> QED
    BY <2>2, <2>3, <2>4, <2>5 DEF Promise!DiscoveryNext
<1>4. ASSUME NEW w \in Walkers, FileEntry(w), pc[Main] # "returned" PROVE Goal
  <2>1. PICK f \in left[w] \cap File : results' = IF f \in Supported THEN results \cup {f} ELSE results
    BY <1>4 DEF FileEntry
  <2>2. pc' = pc /\ UNCHANGED <<unreadable, cancelled>>
    BY <1>4 DEF FileEntry
  <2>3. ScanResult = "running" /\ ScanResult' = "running"
    BY <1>4, <2>2 DEF ScanResult
  <2>4. CASE f \in Supported /\ f \notin results
    <3>1. f \in Under[Root]
      BY <2>4 DEF StaysBelow
    <3>2. Promise!Discover(f)
      BY <2>1, <2>2, <2>3, <2>4 DEF Promise!Discover
    <3> QED
      BY <3>1, <3>2 DEF Promise!DiscoveryNext
  <2>5. CASE ~(f \in Supported /\ f \notin results)
    BY <2>1, <2>2, <2>3, <2>5
  <2> QED
    BY <2>4, <2>5
<1>5. ASSUME NEW w \in Walkers, ListDir(w), pc[Main] # "returned" PROVE Goal
  <2>1. /\ unreadable' = unreadable \/ unreadable' = unreadable \cup {dir[w]}
        /\ UNCHANGED <<results, cancelled>> /\ pc'[Main] = pc[Main] /\ dir[w] \in Dirs
    BY <1>0, <1>1, <1>5 DEF ListDir, TypeOK, HolderType, Holding
  <2>2. ScanResult = "running" /\ ScanResult' = "running"
    BY <1>5, <2>1 DEF ScanResult
  <2>3. CASE unreadable' = unreadable
    BY <2>1, <2>2, <2>3
  <2>4. CASE unreadable' # unreadable
    <3>1. Promise!LoseDir(dir[w])
      BY <2>1, <2>2, <2>4 DEF Promise!LoseDir
    <3> QED
      BY <2>1, <3>1 DEF Promise!DiscoveryNext
  <2> QED
    BY <2>3, <2>4
<1>6. CASE RootError
  <2>1. ScanResult = "running" /\ ScanResult' = "fatal" /\ UNCHANGED <<results, unreadable, cancelled>>
    BY <1>1, <1>6 DEF RootError, ScanResult
  <2> QED
    BY <2>1 DEF Promise!DiscoveryNext, Promise!ScanReturns
<1>7. CASE Return
  <2>1. /\ ScanResult = "running" /\ ScanResult' = (IF fatal THEN "fatal" ELSE "ok")
        /\ UNCHANGED <<results, unreadable, cancelled, visited, fatal>> /\ pc'[Main] = "returned"
    BY <1>1, <1>7 DEF Return, ScanResult
  <2>2. ~fatal => cancelled \/ Under[Root] \subseteq results \cup UNION {Under[d] : d \in unreadable}
    <3> SUFFICES ASSUME ~fatal, ~cancelled
                 PROVE  Under[Root] \subseteq results \cup UNION {Under[d] : d \in unreadable}
      OBVIOUS
    <3>1. /\ Root \in visited
          /\ \A d \in visited \ unreadable :
               Children[d] \subseteq visited /\ Contents[d] \cap Supported \subseteq results
      BY <1>0, <2>1 DEF CompleteWalk
    <3> QED
      BY <1>0, <3>1, OnlyLostIsMissing
  <2> QED
    BY <2>1, <2>2 DEF Promise!DiscoveryNext, Promise!ScanReturns, Promise!Lost
<1>8. CASE Cancel /\ pc[Main] # "returned"
  <2>1. ~cancelled /\ cancelled' = TRUE /\ UNCHANGED <<results, unreadable, pc>>
    BY <1>8 DEF Cancel
  <2>2. ScanResult' = ScanResult
    BY <1>8, <2>1 DEF ScanResult
  <2> QED
    BY <2>1, <2>2 DEF Promise!DiscoveryNext, Promise!CallerCancels
<1>9. ASSUME pc[Main] # "returned",
             \/ \E w \in Walkers : \/ Connect(w) \/ CancelWalk(w) \/ Popped(w) \/ LoadProgress(w)
                                   \/ Report(w) \/ Finish(w) \/ Pop(w) \/ DirEntry(w)
             \/ UNCHANGED vars
      PROVE  Goal
  <2>1. UNCHANGED <<results, unreadable, cancelled>> /\ pc'[Main] = pc[Main]
    BY <1>1, <1>9 DEF Connect, CancelWalk, Popped, LoadProgress, Report, Finish, Pop, DirEntry, vars
  <2> QED
    BY <1>2, <1>9, <2>1
<1>10. ASSUME pc[Main] # "returned",
              (\E w \in Walkers : WalkerClose(w)) \/ CloseOnDone \/ Start
       PROVE  Goal
  <2>1. UNCHANGED <<results, unreadable, cancelled>> /\ pc'[Main] # "returned"
    BY <1>1, <1>10 DEF WalkerClose, CloseOnDone, CloseQueue, WakeAll, Start
  <2> QED
    BY <1>2, <1>10, <2>1
<1>11. ASSUME pc[Main] # "returned", NEW p \in Dispatchers, DispatchCheck(p) \/ DispatchAdd(p)
       PROVE  Goal
  <2>1. UNCHANGED <<results, unreadable, cancelled>> /\ pc'[Main] # "returned"
    BY <1>1, <1>11 DEF DispatchCheck, DispatchAdd, AfterDispatch
  <2> QED
    BY <1>2, <1>11, <2>1
<1>12. ASSUME pc[Main] # "returned", NEW p \in Dispatchers, DispatchPush(p) PROVE Goal
  <2>1. UNCHANGED <<results, unreadable, cancelled>> /\ pc'[Main] # "returned"
    BY <1>0, <1>1, <1>12, PushMoves DEF AfterDispatch, Dispatchers
  <2> QED
    BY <1>2, <1>12, <2>1
<1> QED
  BY <1>3, <1>4, <1>5, <1>6, <1>7, <1>8, <1>9, <1>10, <1>11, <1>12, WalkCases DEF HandsStill

(* Scan keeps its promise: results of the tree only, until it returns, and *)
(* all but what lies under unreadable directories when it returns without  *)
(* an error and was not cancelled.                                         *)
THEOREM WalkImplementsDiscovery ==
  ASSUME Grounded
  PROVE  Spec => ImplementsDiscovery
<1>1. Init => StaysBelow /\ Promise!DiscoveryInit
  <2> SUFFICES ASSUME Init PROVE StaysBelow /\ Promise!DiscoveryInit
    OBVIOUS
  <2>1. /\ items = <<>> /\ \A w \in Walkers : left[w] = {} /\ dir[w] = NoDir
        /\ \A p \in Dispatchers : sub[p] = Root
        /\ pc[Main] = "root" /\ results = {} /\ unreadable = {} /\ cancelled = FALSE
    BY DEF Init
  <2>2. DOMAIN items = {} /\ NoDir \notin Dirs
    BY <2>1, DirsAssumption
  <2> QED
    BY <2>1, <2>2 DEF StaysBelow, InReach, Promise!DiscoveryInit, ScanResult
<1>2. WalkInv /\ StaysBelow /\ [Next]_vars => StaysBelow'
  BY BelowStep DEF WalkInv, CountInv
<1>3. WalkInv /\ WalkInv' /\ StaysBelow /\ [Next]_vars => [Promise!DiscoveryNext]_(Promise!discoveryVars)
  BY DiscoveryStep
<1> QED
  BY <1>1, <1>2, <1>3, WalkInvAlways, PTL DEF Spec, ImplementsDiscovery, Promise!DiscoverySpec
=============================================================================
