------------------------------ MODULE ScanRun ------------------------------
(***************************************************************************)
(* `margaret scan`, one process after the other over one database file:    *)
(* runScan of internal/cli/scan.go and resolveScanMode of                  *)
(* internal/cli/resume.go.  Every statement that reaches the database is a *)
(* step of its own, for Ctrl-C cancels the context, and a crash or a       *)
(* second Ctrl-C ends the process, between any two of them.                *)
(*                                                                         *)
(* The scanned content is only what each root contributed to it: how       *)
(* Process records it is Pipeline's and Catalog's subject.                 *)
(***************************************************************************)
EXTENDS Naturals, Sequences, FiniteSets

CONSTANTS
  Root,    (* the trees that are scanned                                   *)
  Item,    (* the ebooks of each tree                                      *)
  MaxRuns  (* bound: processes started                                     *)

ASSUME ScanRunAssumption == MaxRuns \in Nat

VARIABLES
  rows,      (* scanned content: <<root, item>>                            *)
  runs,      (* scan_runs                                                  *)
  described, (* the content the book-level values were consolidated from   *)
  pc,        (* where the process is; "idle" between two processes         *)
  args,      (* its command line and terminal: root, flag, tty             *)
  mode,      (* what resolveScanMode returned                              *)
  ctx,       (* Ctrl-C was pressed: the context is done                    *)
  canceled, err, finErr, (* runScan's variables                            *)
  status,    (* the status it gives the run                                *)
  exit,      (* the exit code of the last process                          *)
  started    (* processes started                                          *)

dbVars  == <<rows, runs, described>>
cmdVars == <<args, mode>>
endVars == <<canceled, err, finErr, status>>
vars == <<rows, runs, described, pc, args, mode, ctx, canceled, err, finErr, status,
          exit, started>>

Args == [root : Root, flag : {"none", "fresh", "resume", "both"}, tty : BOOLEAN]

(* Execute: a canceled command exits with 130, any other error with 1.     *)
Exit(code) == pc' = "idle" /\ exit' = code

(* A statement fails: under a done context with its error.                 *)
ExitOnError == Exit(IF ctx THEN 130 ELSE 1)

Start ==
  /\ pc = "idle" /\ started < MaxRuns
  /\ args' \in Args
  /\ pc' = "resolve" /\ started' = started + 1
  /\ ctx' = FALSE /\ canceled' = FALSE /\ err' = FALSE /\ finErr' = FALSE
  /\ status' = "completed"
  /\ UNCHANGED <<dbVars, mode, exit>>

(***************************************************************************)
(* resolveScanMode.                                                        *)
(***************************************************************************)
Resolved(m) == mode' = m /\ pc' = (IF m = "fresh" THEN "clear" ELSE "create") /\ UNCHANGED exit
Refused == Exit(1) /\ UNCHANGED mode

(* checkSameRoot: only the latest run's root is compared.                  *)
SameRoot == runs = <<>> \/ runs[Len(runs)].root = args.root

ResumeChecked ==
  \/ (SameRoot \/ args.tty) /\ Resolved("resume")
  \/ ~SameRoot /\ ~args.tty /\ Refused

(* Mutant of Prompt: a scan without terminal takes the prompt's default.   *)
PromptDefault == Resolved("fresh")

(* The prompt: resume is the default, an answer may make no sense, and the *)
(* interrupt is not lost while it waits.                                   *)
Prompt ==
  \/ ~args.tty /\ Refused
  \/ args.tty /\ (ResumeChecked \/ Resolved("fresh") \/ Refused)

Resolve ==
  /\ pc = "resolve"
  /\ \/ args.flag = "both" /\ Refused
     \/ /\ args.flag # "both" /\ rows = {}
        /\ Resolved(IF args.flag = "resume" THEN "resume" ELSE "fresh")
     \/ args.flag = "fresh" /\ rows # {} /\ Resolved("fresh")
     \/ args.flag = "resume" /\ rows # {} /\ ResumeChecked
     \/ args.flag = "none" /\ rows # {} /\ Prompt
     \/ ExitOnError /\ UNCHANGED mode
  /\ UNCHANGED <<dbVars, args, ctx, endVars, started>>

(***************************************************************************)
(* runScan.                                                                *)
(***************************************************************************)
(* database.Clear: one transaction, not bound to the context; the history  *)
(* of runs goes with the content.                                          *)
Clear ==
  /\ pc = "clear"
  /\ \/ /\ rows' = {} /\ runs' = <<>> /\ described' = {}
        /\ pc' = "create" /\ UNCHANGED exit
     \/ Exit(1) /\ UNCHANGED dbVars
  /\ UNCHANGED <<cmdVars, ctx, endVars, started>>

(* Mutant of CreateRun: the run is only recorded when it ends.             *)
CreateRunLater ==
  /\ pc = "create" /\ pc' = "process"
  /\ UNCHANGED <<dbVars, cmdVars, ctx, endVars, exit, started>>

CreateRun ==
  /\ pc = "create"
  /\ \/ /\ ~ctx
        /\ runs' = Append(runs, [root |-> args.root, mode |-> mode, status |-> "running"])
        /\ pc' = "process" /\ UNCHANGED exit
     \/ ExitOnError /\ UNCHANGED runs
  /\ UNCHANGED <<rows, described, cmdVars, ctx, endVars, started>>

(* Process commits an ebook of the tree.                                   *)
Commit ==
  /\ pc = "process" /\ ~ctx
  /\ \E i \in Item : <<args.root, i>> \notin rows /\ rows' = rows \cup {<<args.root, i>>}
  /\ UNCHANGED <<runs, described, pc, cmdVars, ctx, endVars, exit, started>>

(* Process returns: nil, a fatal error, or context.Canceled.               *)
ProcessReturns ==
  /\ pc = "process"
  /\ err' \in {ctx, TRUE}
  /\ pc' = "returned"
  /\ UNCHANGED <<dbVars, cmdVars, ctx, canceled, finErr, status, exit, started>>

AfterProcess ==
  /\ pc = "returned"
  /\ canceled' = ctx
  /\ pc' = IF ~ctx /\ ~err THEN "consolidate" ELSE "status"
  /\ UNCHANGED <<dbVars, cmdVars, ctx, err, finErr, status, exit, started>>

(* Mutant of Consolidate: its error is dropped.                            *)
ConsolidateQuietly ==
  /\ pc = "consolidate"
  /\ \/ ~ctx /\ described' = rows
     \/ UNCHANGED described
  /\ pc' = "status"
  /\ UNCHANGED <<rows, runs, cmdVars, ctx, canceled, err, finErr, status, exit, started>>

Consolidate ==
  /\ pc = "consolidate"
  /\ \/ ~ctx /\ described' = rows /\ UNCHANGED <<canceled, err>>
     \/ ctx /\ canceled' = TRUE /\ UNCHANGED <<described, err>>
     \/ ~ctx /\ err' = TRUE /\ UNCHANGED <<described, canceled>>
  /\ pc' = "status"
  /\ UNCHANGED <<rows, runs, cmdVars, ctx, finErr, status, exit, started>>

SetStatus ==
  /\ pc = "status"
  /\ canceled' = (canceled \/ ctx)
  /\ status' = CASE canceled'         -> "canceled"
                 [] ~canceled' /\ err -> "failed"
                 [] OTHER             -> "completed"
  /\ pc' = "finish"
  /\ UNCHANGED <<dbVars, cmdVars, ctx, err, finErr, exit, started>>

(* FinishScanRun, under a context that outlives the cancellation.          *)
FinishRun ==
  /\ pc = "finish"
  /\ \/ runs' = [runs EXCEPT ![Len(runs)].status = status] /\ UNCHANGED finErr
     \/ finErr' = TRUE /\ UNCHANGED runs
  /\ pc' = "reports"
  /\ UNCHANGED <<rows, described, cmdVars, ctx, canceled, err, status, exit, started>>

(* The failures report, the cancellation, finErr, and the other reports,   *)
(* any of which may fail to be written.                                    *)
Reports ==
  /\ pc = "reports"
  /\ \/ Exit(IF canceled THEN 130 ELSE IF err \/ finErr THEN 1 ELSE 0)
     \/ Exit(1)
     \/ ExitOnError
  /\ UNCHANGED <<dbVars, cmdVars, ctx, endVars, started>>

(* The first Ctrl-C.                                                       *)
Interrupt ==
  /\ pc # "idle" /\ ~ctx
  /\ ctx' = TRUE
  /\ UNCHANGED <<dbVars, pc, cmdVars, endVars, exit, started>>

(* The second one, a crash, a power cut: the database keeps what is        *)
(* committed.                                                              *)
Die ==
  /\ pc # "idle"
  /\ Exit(130)
  /\ UNCHANGED <<dbVars, cmdVars, ctx, endVars, started>>

Done == pc = "idle" /\ started = MaxRuns /\ UNCHANGED vars

----------------------------------------------------------------------------
Init ==
  /\ rows = {} /\ runs = <<>> /\ described = {}
  /\ pc = "idle" /\ args \in [root : Root, flag : {"none"}, tty : {FALSE}]
  /\ mode = "fresh" /\ ctx = FALSE
  /\ canceled = FALSE /\ err = FALSE /\ finErr = FALSE /\ status = "completed"
  /\ exit = 0 /\ started = 0

RunScan ==
  \/ Resolve \/ Clear \/ CreateRun \/ Commit \/ ProcessReturns \/ AfterProcess
  \/ Consolidate \/ SetStatus \/ FinishRun \/ Reports

Next == Start \/ RunScan \/ Interrupt \/ Die \/ Done

Spec == Init /\ [][Next]_vars

----------------------------------------------------------------------------
RunRows == [root : Root, mode : {"fresh", "resume"},
            status : {"running", "completed", "canceled", "failed"}]

TypeOK ==
  /\ rows \subseteq Root \X Item /\ described \subseteq Root \X Item
  /\ runs \in Seq(RunRows)
  /\ pc \in {"idle", "resolve", "clear", "create", "process", "returned", "consolidate",
             "status", "finish", "reports"}
  /\ args \in Args /\ mode \in {"fresh", "resume"}
  /\ {ctx, canceled, err, finErr} \subseteq BOOLEAN
  /\ status \in {"completed", "canceled", "failed"}
  /\ exit \in {0, 1, 130} /\ started \in 0..MaxRuns

(* Wherever a process dies, the history covers the content: the trees      *)
(* whose ebooks are in the database each have a run, so the next scan can  *)
(* warn about a different tree.                                            *)
HistoryCoversContent ==
  \A r \in rows : \E i \in DOMAIN runs : runs[i].root = r[1]

(* A run recorded as completed is the whole truth about the database: the  *)
(* book-level values were consolidated from exactly the present content;   *)
(* and exit code 0 is only given to such a run.                            *)
CompletedIsDescribed ==
  LET completed == runs # <<>> /\ runs[Len(runs)].status = "completed" IN
  /\ completed => described = rows
  /\ pc = "idle" /\ exit = 0 /\ started > 0 => completed

(* README.md:343-344: "so automation can never silently wipe or mix data". *)
(* The first half: content is only wiped for somebody who passed --fresh   *)
(* or answered at a terminal.                                              *)
NeverWipedSilently == [][rows' = {} /\ rows # {} => args.flag = "fresh" \/ args.tty]_vars

(* The second half: the first ebook of a tree only joins those of others   *)
(* in a run with a terminal.                                               *)
NeverMixedSilently ==
  [][\A r \in rows' \ rows : rows # {} /\ (\A q \in rows : q[1] # r[1]) => args.tty]_vars
=============================================================================
