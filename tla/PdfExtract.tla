----------------------------- MODULE PdfExtract -----------------------------
(***************************************************************************)
(* PDFParser.Parse (internal/parser/pdf): pdftotext as a process that is   *)
(* fed through one pipe by a goroutine of its own, which hashes what it    *)
(* reads of the file, while the parser reads the text from another pipe    *)
(* through the HeadGate (internal/parser/textdoc/headgate.go).             *)
(*                                                                         *)
(* The file is Size blocks; its text is a sequence of chunks, "blank" or   *)
(* "text".  What the metadata says is left out.                            *)
(***************************************************************************)
EXTENDS Integers, Sequences, SequencesExt

CONSTANTS
  Size,      (* blocks of the file                                         *)
  Texts,     (* what pdftotext may make of it                              *)
  HeadLimit, (* the chunks that make up a head                             *)
  MinText,   (* MinSize, in chunks                                         *)
  PipeSize   (* chunks or blocks in a pipe                                 *)

ASSUME PdfAssumption ==
  /\ {Size, HeadLimit, PipeSize} \subseteq Nat \ {0} /\ MinText \in Nat
  /\ \A t \in Texts : t \in Seq({"blank", "text"})

VARIABLES
  text,     (* the text of this file                                       *)
  canceled, (* ctx.Err() # nil                                             *)
  at,       (* where Parse is                                              *)
  verdict,  (* what it returned                                            *)
  tool,     (* pdftotext: "none", "running", "ok" or "failed"              *)
  stdin,    (* blocks in its input                                         *)
  written,  (* chunks it has written                                       *)
  stdout,   (* chunks in its output                                        *)
  open,     (* the end the parser reads is open                            *)
  feeder,   (* the goroutine of exec.Cmd: "none", "read", "write", "done"  *)
  feedErr,  (* its reading failed                                          *)
  sum,      (* hashingReader: the blocks hashed, in order                  *)
  head, checked, (* HeadGate: buf, checked                                 *)
  counted   (* countingReader.n                                            *)

pdfVars == <<text, canceled, at, verdict, tool, stdin, written, stdout, open, feeder, feedErr,
             sum, head, checked, counted>>
pipes == <<tool, stdin, written, stdout, open>>
feed == <<feeder, feedErr, sum>>
gate == <<head, checked, counted>>

Go(next) == at' = next /\ UNCHANGED verdict
Return(v) == at' = "done" /\ verdict' = v

(* ContextError: the error of a cancelled context goes first.              *)
Fail == Return(IF canceled THEN "canceled" ELSE "failed")

(***************************************************************************)
(* Before the text: size, header and tools; pdfinfo, whose failure is not  *)
(* fatal unless the file is encrypted; the start of pdftotext.             *)
(***************************************************************************)
Gates ==
  /\ at = "gates"
  /\ IF canceled THEN Return("canceled")
     ELSE Return("not a book") \/ Return("failed") \/ Go("info")
  /\ UNCHANGED <<text, canceled, pipes, feed, gate>>

ReadMetadata ==
  /\ at = "info"
  /\ Fail \/ Go("start")
  /\ UNCHANGED <<text, canceled, pipes, feed, gate>>

StartTextExtraction ==
  /\ at = "start"
  /\ \/ Fail /\ UNCHANGED <<tool, feeder>>
     \/ ~canceled /\ Go("read") /\ tool' = "running" /\ feeder' = "read"
  /\ UNCHANGED <<text, canceled, stdin, written, stdout, open, feedErr, sum, gate>>

(***************************************************************************)
(* The feeder.  A pipe nobody reads any more ends it without an error.     *)
(***************************************************************************)
FeederReads ==
  /\ feeder = "read"
  /\ \/ feeder' = "done" /\ feedErr' = TRUE /\ UNCHANGED sum
     \/ /\ ~canceled /\ UNCHANGED feedErr
        /\ IF Len(sum) = Size THEN feeder' = "done" /\ UNCHANGED sum
           ELSE feeder' = "write" /\ sum' = Append(sum, Len(sum) + 1)
  /\ UNCHANGED <<text, canceled, at, verdict, pipes, gate>>

FeederWrites ==
  /\ feeder = "write"
  /\ IF tool = "running"
     THEN stdin < PipeSize /\ stdin' = stdin + 1 /\ feeder' = "read"
     ELSE feeder' = "done" /\ UNCHANGED stdin
  /\ UNCHANGED <<text, canceled, at, verdict, tool, written, stdout, open, feedErr, sum, gate>>

(***************************************************************************)
(* pdftotext: it may leave input unread, and dies when it writes to a pipe *)
(* that was closed.                                                        *)
(***************************************************************************)
ToolReads ==
  /\ tool = "running" /\ stdin > 0
  /\ stdin' = stdin - 1
  /\ UNCHANGED <<text, canceled, at, verdict, tool, written, stdout, open, feed, gate>>

ToolWrites ==
  /\ tool = "running" /\ written < Len(text)
  /\ IF ~open THEN tool' = "failed" /\ UNCHANGED <<written, stdout>>
     ELSE /\ Len(stdout) < PipeSize /\ UNCHANGED tool
          /\ stdout' = Append(stdout, text[written + 1]) /\ written' = written + 1
  /\ UNCHANGED <<text, canceled, at, verdict, stdin, open, feed, gate>>

ToolExits ==
  /\ tool = "running" /\ written = Len(text)
  /\ tool' = "ok"
  /\ UNCHANGED <<text, canceled, at, verdict, stdin, written, stdout, open, feed, gate>>

(* It gives up, or is killed for the context was cancelled.                *)
ToolFails ==
  /\ tool = "running" /\ tool' = "failed"
  /\ UNCHANGED <<text, canceled, at, verdict, stdin, written, stdout, open, feed, gate>>

Kill == canceled /\ ToolFails

Cancel ==
  /\ ~canceled /\ at # "done" /\ canceled' = TRUE
  /\ UNCHANGED <<text, at, verdict, pipes, feed, gate>>

(***************************************************************************)
(* The parser: the text through the gate, the end of the tool, the verdict *)
(* and what of the file was not fed.                                       *)
(***************************************************************************)
Blank(chunks) == \A k \in DOMAIN chunks : chunks[k] = "blank"

ReadText ==
  /\ at = "read" /\ stdout # <<>>
  /\ stdout' = Tail(stdout) /\ counted' = counted + 1
  /\ LET kept == IF checked THEN head ELSE Append(head, Head(stdout))
         full == Len(kept) >= HeadLimit
     IN /\ head' = kept /\ checked' = full
        /\ IF full /\ ~checked /\ Blank(kept) THEN Go("close") ELSE Go("read")
  /\ UNCHANGED <<text, canceled, tool, stdin, written, open, feed>>

EndOfText ==
  /\ at = "read" /\ stdout = <<>> /\ tool # "running"
  /\ Go("wait")
  /\ UNCHANGED <<text, canceled, pipes, feed, gate>>

(* Mutant of CloseText: the tool is waited for with its output open.       *)
CloseTextNot ==
  /\ at = "close"
  /\ UNCHANGED <<open, stdout>> /\ Go("wait")
  /\ UNCHANGED <<text, canceled, tool, stdin, written, feed, gate>>

CloseText ==
  /\ at = "close"
  /\ open' = FALSE /\ stdout' = <<>> /\ Go("wait")
  /\ UNCHANGED <<text, canceled, tool, stdin, written, feed, gate>>

(* Wait returns when the tool and the feeder have ended.                   *)
(* Mutant of Wait: the feeder is not waited for.                           *)
WaitForTool ==
  /\ at = "wait" /\ tool # "running"
  /\ IF tool = "failed" \/ feedErr THEN Fail
     ELSE IF open THEN Go("finish") ELSE Return("not a book")
  /\ UNCHANGED <<text, canceled, pipes, feed, gate>>

Wait ==
  /\ at = "wait" /\ tool # "running" /\ feeder = "done"
  /\ IF tool = "failed" \/ feedErr THEN Fail
     ELSE IF open THEN Go("finish") ELSE Return("not a book")
  /\ UNCHANGED <<text, canceled, pipes, feed, gate>>

Finish ==
  /\ at = "finish" /\ checked' = TRUE
  /\ IF ~checked /\ Blank(head) THEN Return("not a book")
     ELSE IF canceled THEN Return("canceled")
     ELSE IF counted < MinText THEN Return("not a book")
     ELSE Go("hash")
  /\ UNCHANGED <<text, canceled, pipes, feed, head, counted>>

(* Mutant of FinishHash: what the tool left unread stays unhashed.         *)
FinishHashNot ==
  /\ at = "hash" /\ UNCHANGED sum /\ Return("ok")
  /\ UNCHANGED <<text, canceled, pipes, feeder, feedErr, gate>>

FinishHash ==
  /\ at = "hash"
  /\ \/ Len(sum) < Size /\ Fail /\ UNCHANGED sum
     \/ /\ ~canceled \/ Len(sum) = Size
        /\ sum' = sum \o [k \in 1..Size - Len(sum) |-> Len(sum) + k] /\ Return("ok")
  /\ UNCHANGED <<text, canceled, pipes, feeder, feedErr, gate>>

PdfInit ==
  /\ text \in Texts /\ canceled = FALSE /\ at = "gates" /\ verdict = ""
  /\ tool = "none" /\ stdin = 0 /\ written = 0 /\ stdout = <<>> /\ open = TRUE
  /\ feeder = "none" /\ feedErr = FALSE /\ sum = <<>>
  /\ head = <<>> /\ checked = FALSE /\ counted = 0

Parse ==
  \/ Gates \/ ReadMetadata \/ StartTextExtraction \/ ReadText \/ EndOfText \/ CloseText
  \/ Wait \/ Finish \/ FinishHash
Feeder == FeederReads \/ FeederWrites
Tool == ToolReads \/ ToolWrites \/ ToolExits

PdfNext == Parse \/ Feeder \/ Tool \/ ToolFails \/ Cancel

-----------------------------------------------------------------------------
(* "The resulting digest is always over the complete raw blob": whatever   *)
(* the tool read, a parsed file was hashed whole, each block once and in   *)
(* order, all of its text was read, and the head had some.  A file is not  *)
(* a book for want of text only, and canceled only when it was.            *)
PdfVerdictRight ==
  /\ verdict = "ok" =>
       /\ sum = [k \in 1..Size |-> k]
       /\ tool = "ok" /\ counted = Len(text) /\ Len(text) >= MinText
       /\ \E k \in 1..HeadLimit : k \in DOMAIN text /\ text[k] = "text"
  /\ verdict = "not a book" /\ tool # "none" =>
       Len(text) < MinText \/ \A k \in DOMAIN text : k <= HeadLimit => text[k] = "blank"
  /\ verdict = "canceled" => canceled

(* Nobody reads the file or runs for it when Parse has returned: its       *)
(* caller closes the file then.                                            *)
NothingLeftBehind == at = "done" => tool # "running" /\ feeder \in {"none", "done"}
=============================================================================
