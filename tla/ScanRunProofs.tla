--------------------------- MODULE ScanRunProofs ---------------------------
(***************************************************************************)
(* Proofs about ScanRun, for any trees and any number of scans, each of    *)
(* which may be canceled or die between any two of its statements.         *)
(***************************************************************************)
EXTENDS ScanRun, TLAPS

(* What the history says last.                                             *)
Last == runs[Len(runs)]
Completed == runs # <<>> /\ Last.status = "completed"

(* While a run is under way the history ends with it.                      *)
UnderWay ==
  pc \in {"process", "returned", "consolidate", "status", "finish"} =>
    runs # <<>> /\ Last.root = args.root /\ Last.status = "running"

(* A scan that is about to call itself completed was consolidated, and one *)
(* that recorded so and found nothing wrong is.                            *)
AboutToComplete ==
  /\ pc = "status" /\ ~canceled /\ ~err => described = rows
  /\ pc = "finish" => /\ status = "completed" <=> ~canceled /\ ~err
                      /\ status = "completed" => described = rows
  /\ pc = "reports" /\ ~canceled /\ ~err /\ ~finErr => Completed

(* The inductive invariant.                                                *)
RunInv == TypeOK /\ UnderWay /\ AboutToComplete /\ HistoryCoversContent /\ CompletedIsDescribed

(* The process is at the wipe only for --fresh, with a terminal, or with   *)
(* nothing to wipe.                                                        *)
WipeAllowed == pc = "clear" => args.flag = "fresh" \/ args.tty \/ rows = {}

-----------------------------------------------------------------------------
(* Appending a run keeps the runs before it and is the last one.           *)
LEMMA AppendRun ==
  ASSUME NEW s \in Seq(RunRows), NEW r \in RunRows
  PROVE  /\ Append(s, r) \in Seq(RunRows) /\ Append(s, r) # <<>>
         /\ Len(Append(s, r)) = Len(s) + 1 /\ Append(s, r)[Len(s) + 1] = r
         /\ DOMAIN s \subseteq DOMAIN Append(s, r)
         /\ \A i \in DOMAIN s : Append(s, r)[i] = s[i]
OBVIOUS

(* Finishing the last run changes its status only.                         *)
LEMMA FinishLast ==
  ASSUME NEW s \in Seq(RunRows), s # <<>>, NEW v \in {"completed", "canceled", "failed"},
         NEW t, t = [s EXCEPT ![Len(s)].status = v]
  PROVE  /\ t \in Seq(RunRows) /\ t # <<>> /\ Len(t) = Len(s) /\ DOMAIN t = DOMAIN s
         /\ t[Len(s)].status = v
         /\ \A i \in DOMAIN s : t[i].root = s[i].root
<1>1. Len(s) \in 1..Len(s) /\ Len(s) \in Nat /\ DOMAIN s = 1..Len(s)
      /\ \A i \in DOMAIN s : s[i] \in RunRows
  OBVIOUS
<1> DEFINE r == [s[Len(s)] EXCEPT !.status = v]
<1>2. r = [root |-> s[Len(s)].root, mode |-> s[Len(s)].mode, status |-> v]
  BY <1>1 DEF RunRows
<1>3. r \in RunRows /\ r.status = v /\ r.root = s[Len(s)].root
  BY <1>1, <1>2 DEF RunRows
<1>4. t = [s EXCEPT ![Len(s)] = r]
  OBVIOUS
<1> HIDE DEF r
<1>5. DOMAIN t = 1..Len(s) /\ \A i \in 1..Len(s) : t[i] = IF i = Len(s) THEN r ELSE s[i]
  BY <1>1, <1>4
<1>6. t \in [1..Len(s) -> RunRows]
  BY <1>1, <1>3, <1>4
<1>7. t \in Seq(RunRows) /\ Len(t) = Len(s)
  BY <1>1, <1>6
<1> QED
  BY <1>1, <1>3, <1>5, <1>7

-----------------------------------------------------------------------------
(* Every step keeps the types: a run is only finished when there is one.   *)
LEMMA TypeStep == TypeOK /\ UnderWay /\ [Next]_vars => TypeOK'
<1> SUFFICES ASSUME TypeOK, UnderWay, [Next]_vars PROVE TypeOK'
  OBVIOUS
<1> USE DEF TypeOK, dbVars, cmdVars, endVars
<1>1. CASE Start
  <2>1. started' \in 0..MaxRuns
    BY <1>1, ScanRunAssumption DEF Start
  <2>2. {ctx', canceled', err', finErr'} \subseteq BOOLEAN
    BY <1>1 DEF Start
  <2> QED
    BY <1>1, <2>1, <2>2 DEF Start
<1>2. CASE Resolve
  BY <1>2 DEF Resolve, ResumeChecked, Resolved, Refused, Prompt, ExitOnError, Exit
<1>3. CASE Clear
  <2>1. <<>> \in Seq(RunRows)
    OBVIOUS
  <2> QED
    BY <1>3, <2>1 DEF Clear, Exit
<1>4. CASE CreateRun
  <2>1. CASE runs' = Append(runs, [root |-> args.root, mode |-> mode, status |-> "running"])
    <3>1. [root |-> args.root, mode |-> mode, status |-> "running"] \in RunRows
      BY DEF RunRows, Args
    <3>2. runs' \in Seq(RunRows)
      BY <2>1, <3>1, AppendRun
    <3> QED
      BY <1>4, <3>2 DEF CreateRun, ExitOnError, Exit
  <2>2. CASE UNCHANGED runs
    BY <1>4, <2>2 DEF CreateRun, ExitOnError, Exit
  <2> QED
    BY <1>4, <2>1, <2>2 DEF CreateRun
<1>5. CASE Commit
  BY <1>5 DEF Commit, Args
<1>6. CASE ProcessReturns \/ AfterProcess \/ Consolidate
  BY <1>6 DEF ProcessReturns, AfterProcess, Consolidate
<1>7. CASE SetStatus
  BY <1>7 DEF SetStatus
<1>8. CASE FinishRun
  <2>1. runs' \in Seq(RunRows)
    <3>1. runs # <<>>
      BY <1>8 DEF FinishRun, UnderWay
    <3>2. CASE runs' = [runs EXCEPT ![Len(runs)].status = status]
      BY <3>1, <3>2, FinishLast
    <3>3. CASE UNCHANGED runs
      BY <3>3
    <3> QED
      BY <1>8, <3>2, <3>3 DEF FinishRun
  <2> QED
    BY <1>8, <2>1 DEF FinishRun
<1>9. CASE Reports \/ Die
  BY <1>9 DEF Reports, Die, ExitOnError, Exit
<1>10. CASE Interrupt \/ Done \/ UNCHANGED vars
  BY <1>10 DEF Interrupt, Done, vars
<1> QED
  BY <1>1, <1>2, <1>3, <1>4, <1>5, <1>6, <1>7, <1>8, <1>9, <1>10 DEF Next, RunScan

(* The history ends with the run under way from CreateRun to FinishRun.    *)
LEMMA UnderWayStep == TypeOK /\ UnderWay /\ [Next]_vars => UnderWay'
<1> SUFFICES ASSUME TypeOK, UnderWay, [Next]_vars PROVE UnderWay'
  OBVIOUS
<1> USE DEF UnderWay, Last, dbVars, cmdVars, endVars
<1>1. CASE Start
  BY <1>1 DEF Start
<1>2. CASE Resolve
  BY <1>2 DEF Resolve, ResumeChecked, Resolved, Refused, Prompt, ExitOnError, Exit
<1>3. CASE Clear
  BY <1>3 DEF Clear, Exit
<1>4. CASE CreateRun
  <2> DEFINE r == [root |-> args.root, mode |-> mode, status |-> "running"]
  <2>1. CASE runs' = Append(runs, r)
    <3>1. r \in RunRows /\ r.root = args.root /\ r.status = "running"
      BY DEF RunRows, Args, TypeOK
    <3> HIDE DEF r
    <3>2. runs' # <<>> /\ runs'[Len(runs')] = r
      BY <2>1, <3>1, AppendRun DEF TypeOK
    <3> QED
      BY <1>4, <3>1, <3>2 DEF CreateRun
  <2>2. CASE pc' = "idle"
    BY <2>2
  <2> QED
    BY <1>4, <2>1, <2>2 DEF CreateRun, ExitOnError, Exit
<1>5. CASE Commit \/ ProcessReturns \/ AfterProcess \/ Consolidate \/ SetStatus
  BY <1>5 DEF Commit, ProcessReturns, AfterProcess, Consolidate, SetStatus
<1>6. CASE FinishRun \/ Reports \/ Die
  BY <1>6 DEF FinishRun, Reports, Die, ExitOnError, Exit
<1>7. CASE Interrupt \/ Done \/ UNCHANGED vars
  BY <1>7 DEF Interrupt, Done, vars
<1> QED
  BY <1>1, <1>2, <1>3, <1>4, <1>5, <1>6, <1>7 DEF Next, RunScan

(* Content is only added under a run of its tree, and history only goes    *)
(* with the content.                                                       *)
LEMMA CoverStep == TypeOK /\ UnderWay /\ HistoryCoversContent /\ [Next]_vars
                     => HistoryCoversContent'
<1> SUFFICES ASSUME TypeOK, UnderWay, HistoryCoversContent, [Next]_vars
             PROVE  HistoryCoversContent'
  OBVIOUS
<1> USE DEF dbVars, cmdVars, endVars
<1>1. CASE UNCHANGED <<rows, runs>>
  BY <1>1 DEF HistoryCoversContent
<1>2. CASE Clear /\ rows' = {}
  BY <1>2 DEF HistoryCoversContent
<1>3. CASE CreateRun /\ runs' # runs
  <2> DEFINE r == [root |-> args.root, mode |-> mode, status |-> "running"]
  <2>1. r \in RunRows
    BY DEF RunRows, Args, TypeOK
  <2>2. runs' = Append(runs, r) /\ rows' = rows
    BY <1>3 DEF CreateRun
  <2> HIDE DEF r
  <2>3. \A i \in DOMAIN runs : i \in DOMAIN runs' /\ runs'[i] = runs[i]
    BY <2>1, <2>2, AppendRun DEF TypeOK
  <2> QED
    BY <2>2, <2>3 DEF HistoryCoversContent
<1>4. CASE Commit
  <2>1. PICK i \in Item : rows' = rows \cup {<<args.root, i>>}
    BY <1>4 DEF Commit
  <2>2. runs' = runs /\ runs # <<>> /\ runs[Len(runs)].root = args.root
    BY <1>4 DEF Commit, UnderWay, Last
  <2>3. Len(runs) \in DOMAIN runs
    BY <2>2 DEF TypeOK
  <2> QED
    BY <2>1, <2>2, <2>3 DEF HistoryCoversContent
<1>5. CASE FinishRun /\ runs' # runs
  <2>1. runs # <<>> /\ rows' = rows
    BY <1>5 DEF FinishRun, UnderWay
  <2>2. runs' = [runs EXCEPT ![Len(runs)].status = status]
    BY <1>5 DEF FinishRun
  <2>3. DOMAIN runs' = DOMAIN runs /\ \A i \in DOMAIN runs : runs'[i].root = runs[i].root
    BY <2>1, <2>2, FinishLast DEF TypeOK
  <2> QED
    BY <2>1, <2>3 DEF HistoryCoversContent
<1> QED
  BY <1>1, <1>2, <1>3, <1>4, <1>5 DEF Next, RunScan, Start, Resolve, Clear, CreateRun,
     ProcessReturns, AfterProcess, Consolidate, SetStatus, FinishRun, Reports, Interrupt, Die,
     Done, vars

(* The status of the run and the books it describes agree at the end.      *)
LEMMA DescribedStep == RunInv /\ [Next]_vars => AboutToComplete' /\ CompletedIsDescribed'
<1> SUFFICES ASSUME RunInv, [Next]_vars PROVE AboutToComplete' /\ CompletedIsDescribed'
  OBVIOUS
<1> USE DEF RunInv, dbVars, cmdVars, endVars, AboutToComplete, CompletedIsDescribed, Completed,
            Last
<1>1. CASE Start
  BY <1>1 DEF Start, TypeOK
<1>2. CASE Resolve
  BY <1>2 DEF Resolve, ResumeChecked, Resolved, Refused, Prompt, ExitOnError, Exit
<1>3. CASE Clear
  BY <1>3 DEF Clear, Exit
<1>4. CASE CreateRun
  <2> DEFINE r == [root |-> args.root, mode |-> mode, status |-> "running"]
  <2>1. CASE runs' = Append(runs, r) /\ pc' = "process"
    <3>1. r \in RunRows /\ r.status = "running"
      BY DEF RunRows, Args, TypeOK
    <3> HIDE DEF r
    <3>2. runs' # <<>> /\ runs'[Len(runs')].status = "running"
      BY <2>1, <3>1, AppendRun DEF TypeOK
    <3> QED
      BY <2>1, <3>2
  <2>2. CASE UNCHANGED runs /\ pc' = "idle" /\ exit' \in {1, 130}
    BY <1>4, <2>2 DEF CreateRun
  <2> QED
    BY <1>4, <2>1, <2>2 DEF CreateRun, ExitOnError, Exit
<1>5. CASE Commit
  BY <1>5 DEF Commit, UnderWay
<1>6. CASE ProcessReturns
  BY <1>6 DEF ProcessReturns, UnderWay
<1>7. CASE AfterProcess
  <2>1. pc' = "status" => ctx \/ err
    BY <1>7 DEF AfterProcess, TypeOK
  <2> QED
    BY <1>7, <2>1 DEF AfterProcess, UnderWay
<1>8. CASE Consolidate
  BY <1>8 DEF Consolidate, UnderWay
<1>9. CASE SetStatus
  <2>1. pc' = "finish" /\ err' = err /\ UNCHANGED dbVars /\ canceled' \in BOOLEAN
    BY <1>9 DEF SetStatus, TypeOK
  <2>2. status' = "completed" <=> ~canceled' /\ ~err'
    BY <1>9, <2>1 DEF SetStatus, TypeOK
  <2>3. ~canceled' /\ ~err' => described = rows
    BY <1>9, <2>1 DEF SetStatus, TypeOK
  <2> QED
    BY <1>9, <2>1, <2>2, <2>3 DEF UnderWay
<1>10. CASE FinishRun
  <2>1. runs # <<>> /\ runs \in Seq(RunRows) /\ runs[Len(runs)].status = "running"
    BY <1>10 DEF FinishRun, UnderWay, TypeOK
  <2>2. UNCHANGED <<rows, described, canceled, err, status>> /\ pc' = "reports"
    BY <1>10 DEF FinishRun
  <2>3. CASE runs' = [runs EXCEPT ![Len(runs)].status = status]
    <3>1. runs' # <<>> /\ runs'[Len(runs')].status = status
      BY <2>1, <2>3, FinishLast DEF TypeOK
    <3> QED
      BY <1>10, <2>2, <3>1 DEF FinishRun
  <2>4. CASE finErr' = TRUE /\ UNCHANGED runs
    BY <2>1, <2>2, <2>4
  <2> QED
    BY <1>10, <2>3, <2>4 DEF FinishRun
<1>11. CASE Reports
  BY <1>11 DEF Reports, ExitOnError, Exit, TypeOK
<1>12. CASE Die
  BY <1>12 DEF Die, Exit
<1>13. CASE Interrupt \/ Done \/ UNCHANGED vars
  BY <1>13 DEF Interrupt, Done, vars
<1> QED
  BY <1>1, <1>2, <1>3, <1>4, <1>5, <1>6, <1>7, <1>8, <1>9, <1>10, <1>11, <1>12, <1>13
     DEF Next, RunScan

(* The invariant holds of every database a series of scans can leave.      *)
THEOREM RunInvAlways == Spec => []RunInv
<1>1. Init => RunInv
  <2> SUFFICES ASSUME Init PROVE RunInv
    OBVIOUS
  <2>1. runs \in Seq(RunRows) /\ started \in 0..MaxRuns
    BY ScanRunAssumption DEF Init
  <2>2. {ctx, canceled, err, finErr} \subseteq BOOLEAN
    BY DEF Init
  <2>3. TypeOK
    BY <2>1, <2>2 DEF Init, TypeOK, Args
  <2>4. ~(runs # <<>>)
    BY DEF Init
  <2> QED
    BY <2>3, <2>4 DEF Init, RunInv, UnderWay, AboutToComplete, HistoryCoversContent,
       CompletedIsDescribed
<1>2. RunInv /\ [Next]_vars => RunInv'
  BY TypeStep, UnderWayStep, CoverStep, DescribedStep DEF RunInv
<1> QED
  BY <1>1, <1>2, PTL DEF Spec

(* Whatever is canceled, fails or dies, every tree with an ebook in the    *)
(* database is in the history that resolveScanMode compares.               *)
THEOREM ContentIsCovered == Spec => []HistoryCoversContent
<1>1. RunInv => HistoryCoversContent
  BY DEF RunInv
<1> QED
  BY <1>1, RunInvAlways, PTL

(* A run recorded as completed describes exactly the content, and exit     *)
(* code 0 is only given to such a run.                                     *)
THEOREM CompletedRunsAreTrue == Spec => []CompletedIsDescribed
<1>1. RunInv => CompletedIsDescribed
  BY DEF RunInv
<1> QED
  BY <1>1, RunInvAlways, PTL

(* Content is only wiped with --fresh or at a terminal.                    *)
THEOREM WipedKnowingly == Spec => NeverWipedSilently
<1>1. Init => WipeAllowed
  BY DEF Init, WipeAllowed
<1>2. WipeAllowed /\ [Next]_vars => WipeAllowed'
  <2> SUFFICES ASSUME WipeAllowed, [Next]_vars PROVE WipeAllowed'
    OBVIOUS
  <2> USE DEF WipeAllowed, dbVars, cmdVars, endVars
  <2>1. CASE Resolve
    BY <2>1 DEF Resolve, ResumeChecked, Resolved, Refused, Prompt, ExitOnError, Exit
  <2>2. CASE Interrupt \/ Done \/ UNCHANGED vars
    BY <2>2 DEF Interrupt, Done, vars
  <2>3. CASE pc' # "clear"
    BY <2>3
  <2> QED
    BY <2>1, <2>2, <2>3 DEF Next, RunScan, Start, Clear, CreateRun, Commit, ProcessReturns,
       AfterProcess, Consolidate, SetStatus, FinishRun, Reports, Die, ExitOnError, Exit
<1>3. WipeAllowed /\ [Next]_vars => [rows' = {} /\ rows # {} => args.flag = "fresh" \/ args.tty]_vars
  <2> SUFFICES ASSUME WipeAllowed, [Next]_vars, rows' = {}, rows # {}
               PROVE  args.flag = "fresh" \/ args.tty
    OBVIOUS
  <2>1. CASE Clear
    BY <2>1 DEF Clear, WipeAllowed
  <2>2. CASE Commit
    BY <2>2 DEF Commit
  <2>3. CASE UNCHANGED rows
    BY <2>3
  <2> QED
    BY <2>1, <2>2, <2>3 DEF Next, RunScan, Start, Resolve, CreateRun, ProcessReturns,
       AfterProcess, Consolidate, SetStatus, FinishRun, Reports, Interrupt, Die, Done, vars,
       dbVars
<1> QED
  BY <1>1, <1>2, <1>3, PTL DEF Spec, NeverWipedSilently
=============================================================================
