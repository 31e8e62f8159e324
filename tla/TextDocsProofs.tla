--------------------------- MODULE TextDocsProofs ---------------------------
(***************************************************************************)
(* Proofs about TextDocs: about PdfExtract, for a file of any size, any    *)
(* text pdftotext makes of it, and pipes of any size, and about Encoding,  *)
(* for any results of the detector, in any order.                          *)
(***************************************************************************)
EXTENDS TextDocs, SequenceTheorems, FiniteSetTheorems, WellFoundedInduction, TLAPS

Chunk == {"blank", "text"}

PdfType ==
  /\ text \in Seq(Chunk) /\ stdout \in Seq(Chunk) /\ head \in Seq(Chunk) /\ sum \in Seq(Nat)
  /\ canceled \in BOOLEAN /\ open \in BOOLEAN /\ checked \in BOOLEAN
  /\ at \in {"gates", "info", "start", "read", "close", "wait", "finish", "hash", "done"}
  /\ verdict \in {"", "ok", "not a book", "failed", "canceled"}
  /\ tool \in {"none", "running", "ok", "failed"}
  /\ feeder \in {"none", "read", "write", "done"}
  /\ written \in Nat /\ counted \in Nat

(* Who runs when: pdftotext and the feeder begin with the reading, and     *)
(* both have ended once they were waited for.                              *)
Processes ==
  /\ at \in {"gates", "info", "start"} => tool = "none" /\ feeder = "none"
  /\ at \in {"read", "close", "wait"} => tool # "none" /\ feeder # "none"
  /\ at \in {"finish", "hash"} => tool = "ok" /\ feeder = "done"
  /\ at = "done" => tool # "running" /\ feeder \in {"none", "done"}
  /\ ~open => at \in {"wait", "done"}
  /\ (verdict = "") <=> (at # "done")

(* The text on its way: what was written and not read is in the pipe.      *)
Flow ==
  /\ written <= Len(text) /\ counted <= written
  /\ tool = "ok" => written = Len(text)
  /\ tool = "none" => written = 0
  /\ open => /\ written = counted + Len(stdout)
             /\ \A k \in 1..Len(stdout) : stdout[k] = text[counted + k]
  /\ open /\ at \in {"wait", "finish", "hash"} => stdout = <<>> /\ tool # "running"

(* The gate holds the beginning of the text, up to a head, and has checked *)
(* it as soon as it is whole.                                              *)
Gate ==
  /\ Len(head) = IF counted < HeadLimit THEN counted ELSE HeadLimit
  /\ \A k \in 1..Len(head) : head[k] = text[k]
  /\ at \notin {"hash", "done"} => (checked <=> counted >= HeadLimit)
  /\ at \in {"read", "wait", "finish"} /\ checked /\ open => ~Blank(head)
  /\ at = "close" => checked
  /\ at = "close" \/ ~open => counted >= HeadLimit /\ Blank(head)
  /\ at = "hash" => ~Blank(head) /\ counted >= MinText

(* The blocks hashed so far, in order.                                     *)
Hashed == Len(sum) <= Size /\ \A k \in 1..Len(sum) : sum[k] = k

PdfInv == PdfType /\ Processes /\ Flow /\ Gate /\ Hashed /\ PdfVerdictRight

----------------------------------------------------------------------------
(* The limits are numbers.                                                 *)
LEMMA PdfLimits ==
  /\ Size \in Nat /\ Size > 0 /\ HeadLimit \in Nat /\ HeadLimit > 0 /\ MinText \in Nat
  /\ \A t \in Texts : t \in Seq(Chunk)
<1>1. Size \in Nat \ {0} /\ HeadLimit \in Nat \ {0}
  BY PdfAssumption, Zenon
<1>2. MinText \in Nat /\ \A t \in Texts : t \in Seq(Chunk)
  BY PdfAssumption, Zenon DEF Chunk
<1> QED
  BY <1>1, <1>2

(* Where every file begins.                                                *)
LEMMA PdfBegins == PdfInit => PdfInv
<1> SUFFICES ASSUME PdfInit PROVE PdfInv
  OBVIOUS
<1>0. text \in Texts
  BY DEF PdfInit
<1>1. /\ Len(<<>>) = 0 /\ <<>> \in Seq(Chunk) /\ <<>> \in Seq(Nat) /\ text \in Seq(Chunk)
      /\ Len(text) \in Nat /\ Size \in Nat /\ HeadLimit \in Nat /\ HeadLimit > 0 /\ MinText \in Nat
  BY <1>0, PdfLimits
<1>2. PdfType
  BY <1>1 DEF PdfInit, PdfType
<1>3. Processes
  BY DEF PdfInit, Processes
<1>4. /\ stdout = <<>> /\ head = <<>> /\ sum = <<>> /\ written = 0 /\ counted = 0 /\ open = TRUE
      /\ checked = FALSE /\ at = "gates" /\ tool = "none"
  BY DEF PdfInit
<1>5. 1..0 = {} /\ Len(stdout) = 0 /\ Len(head) = 0 /\ Len(sum) = 0
  BY <1>1, <1>4
<1>6. Flow /\ Hashed
  BY <1>1, <1>4, <1>5 DEF Flow, Hashed
<1>7. Gate
  BY <1>1, <1>4, <1>5 DEF Gate
<1>8. PdfVerdictRight
  BY DEF PdfInit, PdfVerdictRight
<1> QED
  BY <1>2, <1>3, <1>6, <1>7, <1>8 DEF PdfInv

(* The lengths are numbers.                                                *)
LEMMA PdfLengths ==
  ASSUME PdfInv
  PROVE  /\ Len(text) \in Nat /\ Len(stdout) \in Nat /\ Len(head) \in Nat /\ Len(sum) \in Nat
         /\ Size \in Nat /\ HeadLimit \in Nat /\ HeadLimit > 0 /\ MinText \in Nat
         /\ written \in Nat /\ counted \in Nat
<1>1. /\ text \in Seq(Chunk) /\ stdout \in Seq(Chunk) /\ head \in Seq(Chunk) /\ sum \in Seq(Nat)
      /\ written \in Nat /\ counted \in Nat
  BY DEF PdfInv, PdfType
<1>2. Size \in Nat /\ HeadLimit \in Nat /\ HeadLimit > 0 /\ MinText \in Nat
  BY PdfLimits
<1> QED
  BY <1>1, <1>2

(* Before the text.                                                        *)
LEMMA BeforeText ==
  ASSUME PdfInv, Gates \/ ReadMetadata \/ StartTextExtraction
  PROVE  PdfInv'
<1>0. /\ UNCHANGED <<text, canceled, stdin, written, stdout, open, feedErr, sum, head, checked, counted>>
      /\ at \in {"gates", "info", "start"}
      /\ \/ tool' = tool /\ feeder' = feeder /\ at' \in {"info", "start"} /\ verdict' = verdict
         \/ /\ tool' = tool /\ feeder' = feeder /\ at' = "done"
            /\ verdict' \in {"failed", "canceled", "not a book"}
         \/ tool' = "running" /\ feeder' = "read" /\ at' = "read" /\ verdict' = verdict
      /\ verdict' = "canceled" => canceled
  BY DEF Gates, ReadMetadata, StartTextExtraction, Go, Return, Fail, pipes, feed, gate,
         PdfInv, Processes
<1>1. tool = "none" /\ feeder = "none" /\ open /\ verdict = ""
  BY <1>0 DEF PdfInv, Processes, PdfType
<1>2. PdfType'
  BY <1>0, <1>1 DEF PdfInv, PdfType
<1>3. Processes'
  BY <1>0, <1>1 DEF PdfInv, Processes
<1>4. Flow'
  BY <1>0, <1>1 DEF PdfInv, Flow
<1>5. Gate'
  <2>1. ~checked
    <3>1. written = 0 /\ counted <= written /\ (checked => counted >= HeadLimit)
      BY <1>0, <1>1 DEF PdfInv, Flow, Gate
    <3> QED
      BY <3>1, PdfLengths
  <2> QED
    BY <1>0, <1>1, <2>1 DEF PdfInv, Gate, Blank
<1>6. Hashed'
  BY <1>0 DEF PdfInv, Hashed
<1>7. PdfVerdictRight'
  BY <1>0, <1>1 DEF PdfInv, PdfVerdictRight
<1> QED
  BY <1>2, <1>3, <1>4, <1>5, <1>6, <1>7 DEF PdfInv

(* The feeder hashes the blocks it reads, in order.                        *)
LEMMA FeederStep == ASSUME PdfInv, Feeder PROVE PdfInv'
<1>0. /\ UNCHANGED <<text, canceled, at, verdict, tool, written, stdout, open, head, checked, counted>>
      /\ feeder \in {"read", "write"} /\ feeder' \in {"read", "write", "done"}
      /\ sum' = sum \/ (Len(sum) # Size /\ sum' = Append(sum, Len(sum) + 1))
  BY DEF Feeder, FeederReads, FeederWrites, pipes, feed, gate
<1>1. at \in {"read", "close", "wait"} /\ verdict = ""
  BY <1>0 DEF PdfInv, Processes, PdfType
<1>2. Hashed' /\ sum' \in Seq(Nat)
  <2>1. CASE sum' = sum
    BY <2>1 DEF PdfInv, Hashed, PdfType
  <2>2. CASE Len(sum) # Size /\ sum' = Append(sum, Len(sum) + 1)
    <3>1. sum \in Seq(Nat) /\ Len(sum) \in Nat /\ Size \in Nat /\ Len(sum) <= Size
      BY PdfLengths DEF PdfInv, PdfType, Hashed
    <3>2. /\ sum' \in Seq(Nat) /\ Len(sum') = Len(sum) + 1
          /\ \A k \in 1..Len(sum') : sum'[k] = IF k <= Len(sum) THEN sum[k] ELSE Len(sum) + 1
      BY <2>2, <3>1, AppendProperties
    <3>3. Len(sum') <= Size
      BY <2>2, <3>1, <3>2
    <3>4. ASSUME NEW k \in 1..Len(sum') PROVE sum'[k] = k
      <4>1. k \in Int /\ (k \in 1..Len(sum) \/ k = Len(sum) + 1)
        BY <3>1, <3>2, <3>4
      <4> QED
        BY <3>1, <3>2, <3>4, <4>1 DEF PdfInv, Hashed
    <3> QED
      BY <3>2, <3>3, <3>4 DEF Hashed
  <2> QED
    BY <1>0, <2>1, <2>2
<1>3. PdfType'
  BY <1>0, <1>2 DEF PdfInv, PdfType
<1>4. Processes'
  BY <1>0, <1>1 DEF PdfInv, Processes
<1>5. Flow' /\ Gate'
  BY <1>0 DEF PdfInv, Flow, Gate, Blank
<1>6. PdfVerdictRight'
  BY <1>0, <1>1 DEF PdfInv, PdfVerdictRight
<1> QED
  BY <1>2, <1>3, <1>4, <1>5, <1>6 DEF PdfInv

(* A chunk put behind others, in a pipe or in the head.                    *)
LEMMA Appended ==
  ASSUME NEW c \in Seq(Chunk), NEW e \in Chunk
  PROVE  /\ Append(c, e) \in Seq(Chunk) /\ Len(Append(c, e)) = Len(c) + 1
         /\ \A k \in 1..Len(c) : Append(c, e)[k] = c[k]
         /\ Append(c, e)[Len(c) + 1] = e
OBVIOUS

(* The positions after one was added.                                      *)
LEMMA OneMore ==
  ASSUME NEW n \in Nat, NEW k \in 1..(n + 1)
  PROVE  k \in 1..n \/ k = n + 1
OBVIOUS

(* pdftotext while it runs: what it writes goes into the pipe, in order.   *)
LEMMA ToolStep == ASSUME PdfInv, Tool \/ ToolFails PROVE PdfInv'
<1>0. /\ UNCHANGED <<text, canceled, at, verdict, open, sum, feeder, head, checked, counted>>
      /\ tool = "running"
  BY DEF Tool, ToolReads, ToolWrites, ToolExits, ToolFails, feed, gate
<1>1. \/ tool' = tool /\ stdout' = stdout /\ written' = written
      \/ tool' = "failed" /\ stdout' = stdout /\ written' = written
      \/ tool' = "ok" /\ stdout' = stdout /\ written' = written /\ written = Len(text)
      \/ /\ tool' = tool /\ open /\ written < Len(text)
         /\ stdout' = Append(stdout, text[written + 1]) /\ written' = written + 1
  BY DEF Tool, ToolReads, ToolWrites, ToolExits, ToolFails
<1>2. at \in {"read", "close", "wait"} /\ verdict = "" /\ (open => at # "wait")
  BY <1>0 DEF PdfInv, Processes, PdfType, Flow
<1>3. stdout' \in Seq(Chunk) /\ written' \in Nat /\ Flow'
  <2>1. CASE stdout' = stdout /\ written' = written /\ (tool' = "ok" => written = Len(text)) /\ tool' # "none"
    BY <1>0, <1>2, <2>1 DEF PdfInv, PdfType, Flow
  <2>2. CASE /\ tool' = tool /\ open /\ written < Len(text)
             /\ stdout' = Append(stdout, text[written + 1]) /\ written' = written + 1
    <3>1. /\ written \in Nat /\ counted \in Nat /\ Len(stdout) \in Nat /\ Len(text) \in Nat
          /\ stdout \in Seq(Chunk) /\ text \in Seq(Chunk) /\ counted <= written
          /\ written = counted + Len(stdout)
          /\ \A k \in 1..Len(stdout) : stdout[k] = text[counted + k]
      BY <2>2, PdfLengths DEF PdfInv, PdfType, Flow
    <3>2. written + 1 \in 1..Len(text)
      BY <2>2, <3>1
    <3>3. text[written + 1] \in Chunk
      BY <3>1, <3>2
    <3>4. /\ stdout' \in Seq(Chunk) /\ Len(stdout') = Len(stdout) + 1
          /\ \A k \in 1..Len(stdout) : stdout'[k] = stdout[k]
          /\ stdout'[Len(stdout) + 1] = text[written + 1]
      BY <2>2, <3>1, <3>3, Appended
    <3>5. ASSUME NEW k \in 1..Len(stdout') PROVE stdout'[k] = text[counted + k]
      <4>1. k \in 1..Len(stdout) \/ k = Len(stdout) + 1
        BY <3>1, <3>4, <3>5, OneMore
      <4>2. counted + (Len(stdout) + 1) = written + 1
        BY <3>1
      <4> QED
        BY <3>1, <3>4, <4>1, <4>2
    <3>6. /\ written' <= Len(text) /\ counted <= written' /\ written' = counted + Len(stdout')
          /\ written' \in Nat
      BY <2>2, <3>1, <3>4
    <3> QED
      BY <1>0, <1>2, <2>2, <3>4, <3>5, <3>6 DEF Flow
  <2> QED
    BY <1>0, <1>1, <2>1, <2>2
<1>4. PdfType'
  BY <1>0, <1>1, <1>3 DEF PdfInv, PdfType
<1>5. Processes'
  BY <1>0, <1>1, <1>2 DEF PdfInv, Processes
<1>6. Gate' /\ Hashed'
  BY <1>0 DEF PdfInv, Gate, Hashed, Blank
<1>7. PdfVerdictRight'
  BY <1>0, <1>2 DEF PdfInv, PdfVerdictRight
<1> QED
  BY <1>3, <1>4, <1>5, <1>6, <1>7 DEF PdfInv

(* A cancellation, before Parse has returned.                              *)
LEMMA CancelStep == ASSUME PdfInv, Cancel PROVE PdfInv'
<1>0. /\ UNCHANGED <<text, at, verdict, tool, written, stdout, open, sum, feeder, head, checked, counted>>
      /\ canceled' = TRUE
  BY DEF Cancel, pipes, feed, gate
<1>1. PdfType' /\ Processes' /\ Flow' /\ Gate' /\ Hashed'
  BY <1>0 DEF PdfInv, PdfType, Processes, Flow, Gate, Hashed, Blank
<1>2. PdfVerdictRight'
  BY <1>0 DEF PdfInv, PdfVerdictRight
<1> QED
  BY <1>1, <1>2 DEF PdfInv

(* The parser takes a chunk through the gate.                              *)
LEMMA ReadTextStep == ASSUME PdfInv, ReadText PROVE PdfInv'
<1>0. /\ UNCHANGED <<text, canceled, tool, written, open, sum, feeder, verdict>>
      /\ at = "read" /\ stdout # <<>> /\ stdout' = Tail(stdout) /\ counted' = counted + 1
  BY DEF ReadText, feed, Go
<1>1. PICK chunk, kept : chunk = Head(stdout) /\ kept = IF checked THEN head ELSE Append(head, chunk)
  OBVIOUS
<1>2. /\ head' = kept /\ checked' = (Len(kept) >= HeadLimit)
      /\ at' = IF Len(kept) >= HeadLimit /\ ~checked /\ Blank(kept) THEN "close" ELSE "read"
  BY <1>1 DEF ReadText, Go
<1>3. /\ stdout \in Seq(Chunk) /\ head \in Seq(Chunk) /\ text \in Seq(Chunk)
      /\ Len(stdout) \in Nat /\ Len(head) \in Nat /\ Len(text) \in Nat /\ written \in Nat /\ counted \in Nat
      /\ HeadLimit \in Nat /\ HeadLimit > 0
  BY PdfLengths DEF PdfInv, PdfType
<1>o. open /\ verdict = "" /\ tool # "none" /\ feeder # "none"
  BY <1>0 DEF PdfInv, PdfType, Processes
<1>4. /\ written <= Len(text) /\ written = counted + Len(stdout)
      /\ \A k \in 1..Len(stdout) : stdout[k] = text[counted + k]
  BY <1>o DEF PdfInv, Flow
<1>5. /\ Len(stdout) > 0 /\ chunk \in Chunk /\ chunk = text[counted + 1]
      /\ stdout' \in Seq(Chunk) /\ Len(stdout') = Len(stdout) - 1
      /\ \A k \in 1..Len(stdout') : stdout'[k] = stdout[k + 1]
  <2>1. /\ Len(stdout) > 0 /\ 1 \in 1..Len(stdout) /\ chunk = stdout[1]
    <3>1. stdout # <<>> /\ chunk = Head(stdout) /\ stdout \in Seq(Chunk)
      BY <1>0, <1>1, <1>3
    <3> QED
      BY <3>1
  <2>2. chunk \in Chunk /\ chunk = text[counted + 1]
    BY <1>3, <1>4, <2>1
  <2>3. /\ stdout' \in Seq(Chunk) /\ Len(stdout') = Len(stdout) - 1
        /\ \A k \in 1..Len(stdout') : stdout'[k] = stdout[k + 1]
    BY <1>0, <1>3, HeadTailProperties
  <2> QED
    BY <2>1, <2>2, <2>3
<1>6. /\ Len(head) = IF counted < HeadLimit THEN counted ELSE HeadLimit
      /\ \A k \in 1..Len(head) : head[k] = text[k]
  BY DEF PdfInv, Gate
<1>b. (checked <=> counted >= HeadLimit) /\ (checked => ~Blank(head))
  BY <1>0, <1>o DEF PdfInv, Gate
<1>7. /\ kept \in Seq(Chunk) /\ Len(kept) = (IF counted + 1 < HeadLimit THEN counted + 1 ELSE HeadLimit)
      /\ \A k \in 1..Len(kept) : kept[k] = text[k]
      /\ checked => kept = head
  <2>1. CASE checked
    <3>1. kept = head /\ counted >= HeadLimit
      BY <1>1, <1>b, <2>1
    <3>2. Len(head) = HeadLimit /\ HeadLimit = IF counted + 1 < HeadLimit THEN counted + 1 ELSE HeadLimit
      BY <1>3, <1>6, <3>1
    <3> QED
      BY <1>3, <1>6, <3>1, <3>2
  <2>2. CASE ~checked
    <3>0. kept = Append(head, chunk) /\ ~(counted >= HeadLimit)
      BY <1>1, <1>b, <2>2
    <3>1. Len(head) = counted /\ counted < HeadLimit
      BY <1>3, <1>6, <3>0
    <3>2. /\ kept \in Seq(Chunk) /\ Len(kept) = Len(head) + 1
          /\ \A k \in 1..Len(head) : kept[k] = head[k]
          /\ kept[Len(head) + 1] = chunk
      BY <1>3, <1>5, <3>0, Appended
    <3>3. ASSUME NEW k \in 1..Len(kept) PROVE kept[k] = text[k]
      <4>1. k \in 1..Len(head) \/ k = Len(head) + 1
        BY <1>3, <3>2, <3>3, OneMore
      <4> QED
        BY <1>5, <1>6, <3>1, <3>2, <4>1
    <3>4. Len(kept) = (IF counted + 1 < HeadLimit THEN counted + 1 ELSE HeadLimit)
      BY <1>3, <3>1, <3>2
    <3> QED
      BY <2>2, <3>2, <3>3, <3>4
  <2> QED
    BY <2>1, <2>2
<1>8. (Len(kept) >= HeadLimit) <=> (counted + 1 >= HeadLimit)
  BY <1>3, <1>7
<1>9. PdfType'
  <2>1. checked' \in BOOLEAN /\ at' \in {"close", "read"} /\ head' \in Seq(Chunk)
    BY <1>2, <1>7
  <2>2. counted' \in Nat /\ stdout' \in Seq(Chunk)
    BY <1>0, <1>3, <1>5
  <2>3. UNCHANGED <<text, canceled, tool, written, open, sum, feeder, verdict>>
    BY <1>0
  <2> QED
    BY <2>1, <2>2, <2>3 DEF PdfInv, PdfType
<1>10. Processes'
  BY <1>0, <1>2, <1>o DEF PdfInv, Processes
<1>11. Flow'
  <2>1. counted' <= written /\ written = counted' + Len(stdout')
    BY <1>0, <1>3, <1>4, <1>5
  <2>2. ASSUME NEW k \in 1..Len(stdout') PROVE stdout'[k] = text[counted' + k]
    <3>1. k + 1 \in 1..Len(stdout) /\ counted + (k + 1) = counted' + k
      BY <1>0, <1>3, <1>5, <2>2
    <3> QED
      BY <1>4, <1>5, <2>2, <3>1
  <2>3. at' \notin {"wait", "finish", "hash"}
    BY <1>2
  <2> QED
    BY <1>0, <1>o, <1>4, <2>1, <2>2, <2>3 DEF PdfInv, Flow
<1>12. Gate'
  <2>1. checked' <=> counted' >= HeadLimit
    BY <1>0, <1>2, <1>8
  <2>2. at' = "read" /\ checked' => ~Blank(kept)
    BY <1>2, <1>b, <1>7
  <2>3. at' = "close" => checked' /\ Blank(kept) /\ counted' >= HeadLimit
    BY <1>2, <2>1
  <2>4. at' \in {"read", "close"} /\ open'
    BY <1>0, <1>2, <1>o
  <2>5. (Blank(head))' <=> Blank(kept)
    BY <1>2 DEF Blank
  <2> QED
    BY <1>0, <1>2, <1>7, <2>1, <2>2, <2>3, <2>4, <2>5 DEF Gate
<1>13. Hashed'
  BY <1>0 DEF PdfInv, Hashed
<1>14. PdfVerdictRight'
  BY <1>0, <1>o DEF PdfInv, PdfVerdictRight
<1> QED
  BY <1>9, <1>10, <1>11, <1>12, <1>13, <1>14 DEF PdfInv

(* The end of the text, and the end of the reading for want of text.       *)
LEMMA EndsStep == ASSUME PdfInv, EndOfText \/ CloseText PROVE PdfInv'
<1>0. /\ UNCHANGED <<text, canceled, tool, written, sum, feeder, verdict, head, checked, counted>>
      /\ at' = "wait"
      /\ \/ at = "read" /\ open' = open /\ stdout' = stdout /\ stdout = <<>> /\ tool # "running"
         \/ at = "close" /\ open' = FALSE /\ stdout' = <<>>
  BY DEF EndOfText, CloseText, Go, feed, gate, pipes
<1>1. verdict = "" /\ tool # "none" /\ feeder # "none" /\ <<>> \in Seq(Chunk)
  <2>1. at \in {"read", "close"}
    BY <1>0
  <2>2. <<>> \in Seq(Chunk)
    OBVIOUS
  <2>3. verdict = "" /\ tool # "none" /\ feeder # "none"
    BY <2>1 DEF PdfInv, Processes
  <2> QED
    BY <2>2, <2>3
<1>2. PdfType'
  BY <1>0, <1>1 DEF PdfInv, PdfType
<1>3. Processes'
  BY <1>0, <1>1 DEF PdfInv, Processes
<1>4. Flow'
  BY <1>0 DEF PdfInv, Flow
<1>5. Gate'
  <2>1. checked <=> counted >= HeadLimit
    BY <1>0 DEF PdfInv, Gate
  <2>2. open' /\ checked => ~Blank(head)
    BY <1>0 DEF PdfInv, Gate
  <2>3. ~open' => counted >= HeadLimit /\ Blank(head)
    BY <1>0 DEF PdfInv, PdfType, Gate
  <2>4. (Blank(head))' <=> Blank(head)
    BY <1>0 DEF Blank
  <2> QED
    BY <1>0, <2>1, <2>2, <2>3, <2>4 DEF PdfInv, Gate
<1>6. Hashed' /\ PdfVerdictRight'
  BY <1>0, <1>1 DEF PdfInv, Hashed, PdfVerdictRight
<1> QED
  BY <1>2, <1>3, <1>4, <1>5, <1>6 DEF PdfInv

(* A file whose head has no text is not a book for want of it.             *)
LEMMA NoTextAhead ==
  ASSUME PdfInv, Blank(head), Len(head) = HeadLimit \/ Len(head) = Len(text)
  PROVE  \A k \in DOMAIN text : k <= HeadLimit => text[k] = "blank"
<1>1. /\ text \in Seq(Chunk) /\ head \in Seq(Chunk) /\ Len(text) \in Nat /\ Len(head) \in Nat
      /\ HeadLimit \in Nat /\ \A k \in 1..Len(head) : head[k] = text[k]
  BY PdfLengths DEF PdfInv, PdfType, Gate
<1> SUFFICES ASSUME NEW k \in DOMAIN text, k <= HeadLimit PROVE text[k] = "blank"
  OBVIOUS
<1>2. k \in 1..Len(head)
  BY <1>1
<1>3. k \in DOMAIN head
  BY <1>1, <1>2
<1>4. head[k] = "blank"
  BY <1>3 DEF Blank
<1> QED
  BY <1>1, <1>2, <1>4

(* The tool and the feeder have ended.                                     *)
LEMMA WaitStep == ASSUME PdfInv, Wait PROVE PdfInv'
<1>0. /\ UNCHANGED <<text, canceled, tool, written, stdout, open, sum, feeder, head, checked, counted>>
      /\ at = "wait" /\ tool # "running" /\ feeder = "done"
      /\ \/ /\ at' = "done" /\ verdict' \in {"canceled", "failed"}
            /\ (verdict' = "canceled" => canceled)
         \/ tool # "failed" /\ open /\ at' = "finish" /\ verdict' = verdict
         \/ tool # "failed" /\ ~open /\ at' = "done" /\ verdict' = "not a book"
  BY DEF Wait, Fail, Return, Go, pipes, feed, gate
<1>1. verdict = "" /\ tool # "none" /\ tool \in {"none", "running", "ok", "failed"}
  BY <1>0 DEF PdfInv, PdfType, Processes
<1>2. PdfType'
  BY <1>0, <1>1 DEF PdfInv, PdfType
<1>3. Processes'
  BY <1>0, <1>1 DEF PdfInv, Processes
<1>4. Flow'
  BY <1>0 DEF PdfInv, Flow
<1>5. Gate' /\ Hashed'
  BY <1>0 DEF PdfInv, Gate, Hashed, Blank
<1>6. PdfVerdictRight'
  <2>1. CASE verdict' \in {"canceled", "failed", ""}
    <3>1. verdict' = "canceled" => canceled'
      BY <1>0, <1>1
    <3> QED
      BY <2>1, <3>1 DEF PdfVerdictRight
  <2>2. CASE verdict' = "not a book"
    <3>1. ~open
      BY <1>0, <1>1, <2>2
    <3>2. Blank(head) /\ counted >= HeadLimit
      BY <3>1 DEF PdfInv, Gate
    <3>3. Len(head) = HeadLimit
      <4>1. Len(head) = IF counted < HeadLimit THEN counted ELSE HeadLimit
        BY DEF PdfInv, Gate
      <4> QED
        BY <3>2, <4>1, PdfLengths
    <3>4. \A k \in DOMAIN text : k <= HeadLimit => text[k] = "blank"
      BY <3>2, <3>3, NoTextAhead
    <3> QED
      BY <1>0, <2>2, <3>4 DEF PdfVerdictRight
  <2> QED
    BY <1>0, <1>1, <2>1, <2>2
<1> QED
  BY <1>2, <1>3, <1>4, <1>5, <1>6 DEF PdfInv

(* All of the text was read when the tool has ended well.                  *)
LEMMA AllRead ==
  ASSUME PdfInv, at \in {"finish", "hash"}
  PROVE  counted = Len(text)
<1>1. open /\ tool = "ok"
  BY DEF PdfInv, Processes
<1>2. written = Len(text) /\ written = counted + Len(stdout) /\ stdout = <<>>
  BY <1>1 DEF PdfInv, Flow
<1> QED
  BY <1>2, PdfLengths

(* The gate at the end of the text, and the length of it.                  *)
LEMMA FinishStep == ASSUME PdfInv, Finish PROVE PdfInv'
<1>0. /\ UNCHANGED <<text, canceled, tool, written, stdout, open, sum, feeder, head, counted>>
      /\ at = "finish" /\ checked' = TRUE
      /\ \/ ~checked /\ Blank(head) /\ at' = "done" /\ verdict' = "not a book"
         \/ canceled /\ at' = "done" /\ verdict' = "canceled"
         \/ counted < MinText /\ at' = "done" /\ verdict' = "not a book"
         \/ ~(~checked /\ Blank(head)) /\ ~(counted < MinText) /\ at' = "hash" /\ verdict' = verdict
  BY DEF Finish, Return, Go, pipes, feed
<1>1. verdict = "" /\ tool = "ok" /\ feeder = "done" /\ open
  BY <1>0 DEF PdfInv, PdfType, Processes
<1>2. PdfType'
  BY <1>0, <1>1 DEF PdfInv, PdfType
<1>3. Processes'
  BY <1>0, <1>1 DEF PdfInv, Processes
<1>4. Flow'
  BY <1>0 DEF PdfInv, Flow
<1>5. Gate'
  <2>1. at' \in {"hash", "done"}
    BY <1>0
  <2>2. at' = "hash" => ~Blank(head) /\ counted >= MinText
    <3>1. at' = "hash" => ~(~checked /\ Blank(head)) /\ ~(counted < MinText)
      BY <1>0
    <3>2. checked => ~Blank(head)
      BY <1>0, <1>1 DEF PdfInv, Gate
    <3>3. ~(counted < MinText) => counted >= MinText
      BY PdfLengths
    <3> QED
      BY <3>1, <3>2, <3>3
  <2>3. (Blank(head))' <=> Blank(head)
    BY <1>0 DEF Blank
  <2> QED
    BY <1>0, <1>1, <2>1, <2>2, <2>3 DEF PdfInv, Gate
<1>6. Hashed'
  BY <1>0 DEF PdfInv, Hashed
<1>7. PdfVerdictRight'
  <2>1. counted = Len(text)
    BY <1>0, AllRead
  <2>2. CASE ~checked /\ Blank(head) /\ at' = "done" /\ verdict' = "not a book"
    <3>1. Len(head) = Len(text)
      <4>1. (checked <=> counted >= HeadLimit) /\ Len(head) = IF counted < HeadLimit THEN counted ELSE HeadLimit
        BY <1>0 DEF PdfInv, Gate
      <4>2. ~(counted >= HeadLimit)
        BY <2>2, <4>1
      <4> QED
        BY <2>1, <4>1, <4>2, PdfLengths
    <3>2. \A k \in DOMAIN text : k <= HeadLimit => text[k] = "blank"
      BY <2>2, <3>1, NoTextAhead
    <3> QED
      BY <1>0, <2>2, <3>2 DEF PdfVerdictRight
  <2>3. CASE canceled /\ at' = "done" /\ verdict' = "canceled"
    BY <1>0, <2>3 DEF PdfVerdictRight
  <2>4. CASE counted < MinText /\ at' = "done" /\ verdict' = "not a book"
    BY <1>0, <2>1, <2>4 DEF PdfVerdictRight
  <2>5. CASE at' = "hash" /\ verdict' = verdict
    BY <1>1, <2>5 DEF PdfVerdictRight
  <2> QED
    BY <1>0, <2>2, <2>3, <2>4, <2>5
<1> QED
  BY <1>2, <1>3, <1>4, <1>5, <1>6, <1>7 DEF PdfInv

(* What the tool left unread is hashed behind what was fed to it.          *)
LEMMA FinishHashStep == ASSUME PdfInv, FinishHash PROVE PdfInv'
<1>0. /\ UNCHANGED <<text, canceled, tool, written, stdout, open, feeder, head, checked, counted>>
      /\ at = "hash" /\ at' = "done"
      /\ \/ sum' = sum /\ verdict' \in {"canceled", "failed"} /\ (verdict' = "canceled" => canceled)
         \/ sum' = sum \o [k \in 1..Size - Len(sum) |-> Len(sum) + k] /\ verdict' = "ok"
  BY DEF FinishHash, Fail, Return, pipes, feed, gate
<1>1. verdict = "" /\ tool = "ok" /\ feeder = "done" /\ open
  BY <1>0 DEF PdfInv, PdfType, Processes
<1>2. verdict' = "ok" => sum' \in Seq(Nat) /\ Len(sum') = Size /\ \A k \in 1..Size : sum'[k] = k
  <2> SUFFICES ASSUME verdict' = "ok"
               PROVE  sum' \in Seq(Nat) /\ Len(sum') = Size /\ \A k \in 1..Size : sum'[k] = k
    OBVIOUS
  <2>1. /\ sum \in Seq(Nat) /\ Len(sum) \in Nat /\ Size \in Nat /\ Len(sum) <= Size
        /\ \A k \in 1..Len(sum) : sum[k] = k
    BY PdfLengths DEF PdfInv, PdfType, Hashed
  <2>2. PICK n, more : n = Size - Len(sum) /\ more = [k \in 1..n |-> Len(sum) + k]
    OBVIOUS
  <2>3. n \in Nat /\ more \in Seq(Nat) /\ Len(more) = n /\ \A k \in 1..n : more[k] = Len(sum) + k
    BY <2>1, <2>2
  <2>4. sum' = sum \o more
    BY <1>0, <2>2
  <2>5. /\ sum' \in Seq(Nat) /\ Len(sum') = Len(sum) + n
        /\ \A k \in 1..(Len(sum) + n) : sum'[k] = IF k <= Len(sum) THEN sum[k] ELSE more[k - Len(sum)]
    BY <2>1, <2>3, <2>4, ConcatProperties
  <2>6. Len(sum) + n = Size
    BY <2>1, <2>2
  <2>7. ASSUME NEW k \in 1..Size PROVE sum'[k] = k
    <3>1. k \in Nat /\ k \in 1..(Len(sum) + n)
      BY <2>1, <2>6
    <3>2. CASE k <= Len(sum)
      <4>1. k \in 1..Len(sum)
        BY <2>1, <3>1, <3>2
      <4> QED
        BY <2>1, <2>5, <3>1, <3>2, <4>1
    <3>3. CASE ~(k <= Len(sum))
      <4>1. k - Len(sum) \in 1..n /\ Len(sum) + (k - Len(sum)) = k
        BY <2>1, <2>3, <3>1, <3>3
      <4>2. sum'[k] = more[k - Len(sum)]
        BY <2>5, <3>1, <3>3
      <4> QED
        BY <2>3, <4>1, <4>2
    <3> QED
      BY <3>2, <3>3
  <2> QED
    BY <2>5, <2>6, <2>7
<1>3. PdfType'
  <2>1. sum' \in Seq(Nat)
    BY <1>0, <1>2 DEF PdfInv, PdfType
  <2> QED
    BY <1>0, <2>1 DEF PdfInv, PdfType
<1>4. Processes'
  BY <1>0, <1>1 DEF PdfInv, Processes
<1>5. Flow'
  BY <1>0 DEF PdfInv, Flow
<1>6. Gate'
  BY <1>0, <1>1 DEF PdfInv, Gate, Blank
<1>7. Hashed'
  <2>1. CASE verdict' = "ok"
    <3>1. Size <= Size /\ Len(sum') = Size
      BY <1>2, <2>1, PdfLengths
    <3> QED
      BY <1>2, <2>1, <3>1 DEF Hashed
  <2>2. CASE verdict' # "ok"
    BY <1>0, <2>2 DEF PdfInv, Hashed
  <2> QED
    BY <2>1, <2>2
<1>8. PdfVerdictRight'
  <2>1. CASE verdict' = "ok"
    <3>1. sum' = [k \in 1..Size |-> k]
      <4>1. sum' \in Seq(Nat) /\ Len(sum') = Size /\ \A k \in 1..Size : sum'[k] = k
        BY <1>2, <2>1
      <4>2. sum' = [k \in 1..Len(sum') |-> sum'[k]]
        BY <4>1
      <4> QED
        BY <4>1, <4>2
    <3>2. counted = Len(text)
      BY <1>0, AllRead
    <3>3. ~Blank(head) /\ counted >= MinText
      BY <1>0 DEF PdfInv, Gate
    <3>4. PICK k \in DOMAIN head : head[k] # "blank"
      BY <3>3 DEF Blank
    <3>5. /\ k \in 1..Len(head) /\ head[k] = "text" /\ head[k] = text[k]
          /\ Len(head) = IF counted < HeadLimit THEN counted ELSE HeadLimit
      <4>1. head \in Seq(Chunk)
        BY DEF PdfInv, PdfType
      <4>2. k \in 1..Len(head) /\ head[k] \in Chunk
        BY <4>1
      <4>3. \A j \in 1..Len(head) : head[j] = text[j]
        BY DEF PdfInv, Gate
      <4>4. Len(head) = IF counted < HeadLimit THEN counted ELSE HeadLimit
        BY DEF PdfInv, Gate
      <4> QED
        BY <3>4, <4>2, <4>3, <4>4 DEF Chunk
    <3>6. k \in 1..HeadLimit /\ k \in 1..Len(text)
      BY <3>2, <3>5, PdfLengths
    <3>7. k \in DOMAIN text
      <4>1. text \in Seq(Chunk)
        BY DEF PdfInv, PdfType
      <4> QED
        BY <3>6, <4>1
    <3> QED
      BY <1>0, <1>1, <2>1, <3>1, <3>2, <3>3, <3>5, <3>6, <3>7 DEF PdfVerdictRight
  <2>2. CASE verdict' # "ok"
    BY <1>0, <2>2 DEF PdfVerdictRight
  <2> QED
    BY <2>1, <2>2
<1> QED
  BY <1>3, <1>4, <1>5, <1>6, <1>7, <1>8 DEF PdfInv

----------------------------------------------------------------------------
(* Every step of the parser, the tool and the feeder keeps the invariant.  *)
LEMMA PdfSteps == PdfInv /\ PdfNext => PdfInv'
BY BeforeText, FeederStep, ToolStep, CancelStep, ReadTextStep, EndsStep, WaitStep, FinishStep,
   FinishHashStep
   DEF PdfNext, Parse

(* A step of another format, or none.                                      *)
LEMMA PdfIdle == PdfInv /\ UNCHANGED pdfVars => PdfInv'
<1> SUFFICES ASSUME PdfInv, UNCHANGED pdfVars PROVE PdfInv'
  OBVIOUS
<1>0. UNCHANGED <<text, canceled, at, verdict, tool, written, stdout, open, feeder, sum,
                  head, checked, counted>>
  BY DEF pdfVars
<1>1. PdfType' /\ Processes' /\ Flow'
  BY <1>0 DEF PdfInv, PdfType, Processes, Flow
<1>2. Gate' /\ Hashed'
  BY <1>0 DEF PdfInv, Gate, Hashed, Blank
<1>3. PdfVerdictRight'
  BY <1>0 DEF PdfInv, PdfVerdictRight
<1> QED
  BY <1>1, <1>2, <1>3 DEF PdfInv

(* What is in the pipes, in the head and in the hash, and who runs, fits   *)
(* where Parse is.                                                         *)
THEOREM PdfInvAlways == Spec => []PdfInv
<1>1. Init => PdfInv
  BY PdfBegins DEF Init
<1>2. PdfInv /\ [Next]_docVars => PdfInv'
  <2> SUFFICES ASSUME PdfInv, [Next]_docVars PROVE PdfInv'
    OBVIOUS
  <2>1. PdfNext \/ UNCHANGED pdfVars
    BY DEF Next, RtfStep, TxtStep, PdfStep, docVars
  <2> QED
    BY <2>1, PdfSteps, PdfIdle
<1> QED
  BY <1>1, <1>2, PTL DEF Spec

(* PdfVerdictRight, for files, texts and pipes of any size: a parsed file  *)
(* was hashed whole, in order, and read to the end of its text, however    *)
(* the tool, the feeder and the parser interleave; a file is not a book    *)
(* for want of text only, and canceled only when it was.                   *)
THEOREM PdfVerdictsRight == Spec => []PdfVerdictRight
<1>1. PdfInv => PdfVerdictRight
  BY DEF PdfInv
<1> QED
  BY <1>1, PdfInvAlways, PTL

(* NothingLeftBehind: neither pdftotext nor the goroutine that feeds it    *)
(* runs when Parse has returned.                                           *)
THEOREM NobodyLeftBehind == Spec => []NothingLeftBehind
<1>1. PdfInv => NothingLeftBehind
  BY DEF PdfInv, Processes, NothingLeftBehind
<1> QED
  BY <1>1, PdfInvAlways, PTL

-----------------------------------------------------------------------------
FitsIn(rs, k) ==
  /\ rs[k].label \notin UnknownLabels /\ decodeCandidate(rs[k])
  /\ \A j \in 1..k-1 : rs[j].label # rs[k].label

ContendsIn(rs, k) ==
  FitsIn(rs, k) /\ Cardinality({j \in 1..k-1 : FitsIn(rs, j)}) < CandidateLimit

(* What EncodingRight chooses of the first k results, and what the fold of *)
(* pickCandidate has for a set of positions, as equations.                 *)
Chooses(rs, b) ==
  b = [k \in 0..Len(rs) |->
         IF k = 0 THEN <<>>
         ELSE IF ContendsIn(rs, k) /\ (b[k-1] = <<>> \/ betterCandidate(rs[k], b[k-1][1]))
           THEN <<rs[k]>> ELSE b[k-1]]

Folds(list, F) ==
  F = [s \in SUBSET DOMAIN list |->
         IF s = {} THEN list[1]
         ELSE IF betterCandidate(list[Max(s)], F[s \ {Max(s)}]) THEN list[Max(s)]
         ELSE F[s \ {Max(s)}]]

Chosen(rs, first) ==
  /\ \E b : Chooses(rs, b)
  /\ \A b : Chooses(rs, b) => b[Len(rs)] = first

Picked(list, first) ==
  /\ \E F : Folds(list, F)
  /\ \A F : Folds(list, F) => first = IF list = <<>> THEN <<>> ELSE <<F[DOMAIN list]>>

(* What the loop has looked at.                                            *)
Part == SubSeq(results, 1, looked)

EncType ==
  /\ results \in Seq(Results) /\ candidates \in Seq(Results) /\ looked \in 0..Len(results)
  /\ \A i, j \in DOMAIN results : i < j => results[i].confidence >= results[j].confidence
  /\ leader = <<>> \/ \E r \in Results : leader = <<r>>
  /\ seen = {results[k].label : k \in 1..looked}
  /\ accepted = Cardinality({j \in 1..looked : FitsIn(results, j)})
  /\ leader # <<>> => looked > 0 /\ results[looked].confidence <= leader[1].confidence

(* The leader is the best of the candidates and the best of all that fit.  *)
EncInv == EncType /\ Chosen(Part, leader) /\ Picked(candidates, leader) /\ EncodingRight

(* The largest number of a set of the first n + 1 that has n + 1.          *)
LEMMA MaxOfSuccessor ==
  ASSUME NEW n \in Nat, NEW s \in SUBSET (1..n+1), n + 1 \in s
  PROVE  Max(s) = n + 1
<1>1. \A x \in s : x \in Nat /\ n + 1 >= x
  OBVIOUS
<1>2. \A x \in s : (\A y \in s : x >= y) <=> x = n + 1
  BY <1>1
<1> QED
  BY <1>2, Zenon DEF Max

(* A set that has zero, and the successor of each of its numbers, has all. *)
LEMMA Induct ==
  ASSUME NEW T, 0 \in T, \A k \in Nat : k \in T => k + 1 \in T
  PROVE  \A n \in Nat : n \in T
<1> DEFINE Missing == {n \in Nat : n \notin T}
<1> SUFFICES ASSUME Missing # {} PROVE FALSE
  OBVIOUS
<1>1. PICK n \in Missing : \A j \in Missing : ~(j < n)
  <2>1. \E n \in Missing : \A j \in Missing : ~(<<j, n>> \in OpToRel(<, Nat))
    <3>1. Missing \subseteq Nat
      OBVIOUS
    <3> HIDE DEF Missing
    <3> QED
      BY <3>1, NatLessThanWellFounded, WFMin
  <2> QED
    BY <2>1 DEF OpToRel
<1>2. n # 0 /\ n - 1 \in Nat /\ n - 1 < n
  BY <1>1
<1>3. n - 1 \in T
  BY <1>1, <1>2
<1> QED
  BY <1>1, <1>2, <1>3

(* A set of numbers up to n that is not empty has its largest number.      *)
LEMMA MaxInside ==
  ASSUME NEW n \in Nat
  PROVE  \A s \in SUBSET (1..n) : s # {} => Max(s) \in s
<1> DEFINE T == {k \in Nat : \A s \in SUBSET (1..k) : s # {} => Max(s) \in s}
<1>1. 0 \in T
  <2>1. 1..0 = {}
    OBVIOUS
  <2> QED
    BY <2>1
<1>2. ASSUME NEW k \in Nat, k \in T PROVE k + 1 \in T
  <2> SUFFICES ASSUME NEW s \in SUBSET (1..k+1), s # {} PROVE Max(s) \in s
    OBVIOUS
  <2>1. CASE k + 1 \in s
    BY <2>1, MaxOfSuccessor
  <2>2. CASE k + 1 \notin s
    BY <1>2, <2>2
  <2> QED
    BY <2>1, <2>2
<1> HIDE DEF T
<1>3. n \in T
  BY <1>1, <1>2, Induct
<1> QED
  BY <1>3 DEF T

(* Where a result stands among those before it is all that matters.        *)
LEMMA SameContend ==
  ASSUME NEW rs, NEW qs, NEW n \in Nat, \A k \in 1..n : qs[k] = rs[k]
  PROVE  \A k \in 1..n : /\ FitsIn(qs, k) <=> FitsIn(rs, k)
                        /\ ContendsIn(qs, k) <=> ContendsIn(rs, k)
<1>1. \A k \in 1..n : FitsIn(qs, k) <=> FitsIn(rs, k)
  BY DEF FitsIn
<1> TAKE k \in 1..n
<1>2. {j \in 1..k-1 : FitsIn(qs, j)} = {j \in 1..k-1 : FitsIn(rs, j)}
  BY <1>1
<1> QED
  BY <1>1, <1>2 DEF ContendsIn

(* The choice among one result more.                                       *)
LEMMA ChosenStep ==
  ASSUME NEW rs \in Seq(Results), NEW r \in Results, NEW first, Chosen(rs, first)
  PROVE  Chosen(Append(rs, r),
           IF ContendsIn(Append(rs, r), Len(rs) + 1) /\ (first = <<>> \/ betterCandidate(r, first[1]))
           THEN <<r>> ELSE first)
<1> DEFINE more == Append(rs, r)  n == Len(rs)
           One(b, k) == IF k = 0 THEN <<>>
             ELSE IF ContendsIn(more, k) /\ (b[k-1] = <<>> \/ betterCandidate(more[k], b[k-1][1]))
               THEN <<more[k]>> ELSE b[k-1]
           Old(b, k) == IF k = 0 THEN <<>>
             ELSE IF ContendsIn(rs, k) /\ (b[k-1] = <<>> \/ betterCandidate(rs[k], b[k-1][1]))
               THEN <<rs[k]>> ELSE b[k-1]
           last == IF ContendsIn(more, n + 1) /\ (first = <<>> \/ betterCandidate(r, first[1]))
                   THEN <<r>> ELSE first
<1>1. /\ n \in Nat /\ Len(more) = n + 1 /\ more[n+1] = r
      /\ \A k \in 1..n : more[k] = rs[k]
  OBVIOUS
<1>2. \A k \in 1..n : ContendsIn(more, k) <=> ContendsIn(rs, k)
  BY <1>1, SameContend
<1>3. ASSUME NEW b, NEW k \in 0..n PROVE One(b, k) = Old(b, k)
  <2>1. CASE k = 0
    BY <2>1
  <2>2. CASE k # 0
    BY <1>1, <1>2, <2>2
  <2> QED
    BY <2>1, <2>2
<1>4. ASSUME NEW b, Chooses(more, b) PROVE b[n+1] = last
  <2> DEFINE c == [k \in 0..n |-> b[k]]
  <2>1. b = [k \in 0..n+1 |-> One(b, k)]
    <3>1. b = [k \in 0..Len(more) |-> One(b, k)]
      BY <1>4 DEF Chooses
    <3> QED
      BY <1>1, <3>1, Zenon
  <2>2. \A k \in 0..n : b[k] = Old(b, k)
    <3>1. \A k \in 0..n : k \in 0..n+1
      BY <1>1
    <3>2. \A k \in 0..n : b[k] = One(b, k)
      BY <2>1, <3>1, Zenon
    <3> QED
      BY <1>3, <3>2, Zenon
  <2>3. \A k \in 0..n : Old(b, k) = Old(c, k)
    BY <1>1
  <2>4. c = [k \in 0..n |-> Old(c, k)]
    BY <2>2, <2>3
  <2>5. c[n] = first
    BY <2>4 DEF Chooses, Chosen
  <2>6. b[n] = first
    BY <1>1, <2>5
  <2>7. b[n+1] = One(b, n+1)
    BY <1>1, <2>1
  <2>8. n + 1 # 0 /\ (n + 1) - 1 = n
    BY <1>1
  <2> QED
    BY <1>1, <2>6, <2>7, <2>8
<1>5. \E b : Chooses(more, b)
  <2>1. PICK c : Chooses(rs, c)
    BY DEF Chosen
  <2> DEFINE b == [k \in 0..n+1 |-> IF k = n + 1 THEN last ELSE c[k]]
  <2>2. c = [k \in 0..n |-> Old(c, k)]
    BY <2>1 DEF Chooses
  <2>3. c[n] = first
    BY <2>1 DEF Chosen
  <2>4. ASSUME NEW k \in 0..n+1 PROVE b[k] = One(b, k)
    <3>1. CASE k = n + 1
      <4>1. b[n] = first /\ b[n+1] = last /\ n + 1 # 0 /\ (n + 1) - 1 = n
        BY <1>1, <2>3
      <4> QED
        BY <1>1, <3>1, <4>1
    <3>2. CASE k \in 0..n
      <4>1. b[k] = Old(c, k)
        <5>1. b[k] = c[k]
          BY <1>1, <3>2
        <5>2. c[k] = Old(c, k)
          <6> HIDE DEF Old, n
          <6> QED
            BY <2>2, <3>2
        <5> QED
          BY <5>1, <5>2
      <4>2. k # 0 => b[k-1] = c[k-1]
        BY <1>1, <3>2
      <4>3. Old(b, k) = Old(c, k)
        BY <4>2
      <4> QED
        BY <1>3, <3>2, <4>1, <4>3
    <3> QED
      BY <1>1, <3>1, <3>2
  <2>5. b = [k \in 0..n+1 |-> One(b, k)]
    BY <2>4
  <2> QED
    BY <1>1, <2>5 DEF Chooses
<1> QED
  BY <1>1, <1>4, <1>5 DEF Chosen

(* Results that cannot contend leave the choice as it is.                  *)
LEMMA NoMoreChosen ==
  ASSUME NEW rs \in Seq(Results), NEW p \in 0..Len(rs), NEW first, Chosen(SubSeq(rs, 1, p), first),
         \A k \in p+1..Len(rs) : ~ContendsIn(rs, k)
  PROVE  Chosen(rs, first)
<1> DEFINE n == Len(rs)
           T == {q \in Nat : p <= q /\ q <= n => Chosen(SubSeq(rs, 1, q), first)}
<1>1. n \in Nat /\ p \in Nat /\ p <= n
  OBVIOUS
<1>2. 0 \in T
  BY <1>1
<1>3. ASSUME NEW q \in Nat, q \in T PROVE q + 1 \in T
  <2> SUFFICES ASSUME p <= q + 1, q + 1 <= n PROVE Chosen(SubSeq(rs, 1, q + 1), first)
    OBVIOUS
  <2>1. CASE p = q + 1
    BY <2>1
  <2>2. CASE p <= q
    <3> DEFINE qs == SubSeq(rs, 1, q)  r == rs[q+1]
    <3>1. Chosen(qs, first)
      BY <1>3, <1>1, <2>2
    <3>2. qs \in Seq(Results) /\ Len(qs) = q /\ r \in Results
      BY <1>1
    <3>3. SubSeq(rs, 1, q + 1) = Append(qs, r)
      BY <1>1
    <3>4. \A k \in 1..q+1 : Append(qs, r)[k] = rs[k]
      BY <1>1
    <3> HIDE DEF qs, r
    <3>5. ~ContendsIn(Append(qs, r), q + 1)
      <4>1. q + 1 \in Nat /\ q + 1 \in 1..q+1 /\ q + 1 \in p+1..n
        BY <1>1, <2>2
      <4> DEFINE u == q + 1
      <4>2. u \in Nat /\ u \in 1..u /\ \A k \in 1..u : Append(qs, r)[k] = rs[k]
        BY <3>4, <4>1
      <4> HIDE DEF u
      <4>3. ContendsIn(Append(qs, r), u) <=> ContendsIn(rs, u)
        BY <4>2, SameContend
      <4> QED
        BY <4>1, <4>3 DEF u
    <3>6. Chosen(Append(qs, r),
            IF ContendsIn(Append(qs, r), Len(qs) + 1) /\ (first = <<>> \/ betterCandidate(r, first[1]))
            THEN <<r>> ELSE first)
      BY <3>1, <3>2, ChosenStep
    <3> QED
      BY <3>2, <3>3, <3>5, <3>6
  <2> QED
    BY <1>1, <2>1, <2>2
<1> HIDE DEF T
<1>4. n \in T
  BY <1>1, <1>2, <1>3, Induct
<1>5. SubSeq(rs, 1, n) = rs
  OBVIOUS
<1> QED
  <2>1. Chosen(SubSeq(rs, 1, n), first)
    BY <1>1, <1>4 DEF T
  <2> QED
    BY <1>5, <2>1

(* The best of the candidates and one more.                                *)
LEMMA PickedStep ==
  ASSUME NEW list \in Seq(Results), NEW r \in Results, NEW first, Picked(list, first)
  PROVE  Picked(Append(list, r),
           IF first = <<>> \/ betterCandidate(r, first[1]) THEN <<r>> ELSE first)
<1> DEFINE more == Append(list, r)  n == Len(list)
           Better(x, w) == IF betterCandidate(x, w) THEN x ELSE w
           One(F, s) == IF s = {} THEN more[1] ELSE Better(more[Max(s)], F[s \ {Max(s)}])
           Old(F, s) == IF s = {} THEN list[1] ELSE Better(list[Max(s)], F[s \ {Max(s)}])
           last == IF first = <<>> \/ betterCandidate(r, first[1]) THEN <<r>> ELSE first
<1>1. /\ n \in Nat /\ Len(more) = n + 1 /\ more[n+1] = r
      /\ DOMAIN list = 1..n /\ DOMAIN more = 1..n+1
      /\ \A k \in 1..n : more[k] = list[k]
  OBVIOUS
<1>2. \A s \in SUBSET (1..n) : s # {} => Max(s) \in s
  BY <1>1, MaxInside
<1>3. ASSUME n # 0, NEW F, NEW s \in SUBSET (1..n) PROVE One(F, s) = Old(F, s)
  <2>1. more[1] = list[1]
    BY <1>1, <1>3
  <2>2. s # {} => more[Max(s)] = list[Max(s)]
    BY <1>1, <1>2
  <2> QED
    BY <2>1, <2>2
<1>4. ASSUME NEW F, Folds(more, F) PROVE last = <<F[1..n+1]>>
  <2>1. \A s \in SUBSET (1..n+1) : F[s] = One(F, s)
    BY <1>1, <1>4 DEF Folds
  <2>2. F[1..n+1] = Better(r, F[1..n])
    <3>1. Max(1..n+1) = n + 1 /\ (1..n+1) \ {n + 1} = 1..n /\ 1..n+1 # {}
      BY <1>1, MaxOfSuccessor
    <3>2. 1..n+1 \in SUBSET (1..n+1)
      OBVIOUS
    <3> QED
      BY <1>1, <2>1, <3>1, <3>2
  <2>3. CASE n = 0
    <3>1. 1..n = {} /\ list = <<>>
      BY <2>3
    <3>2. F[1..n] = r
      <4>1. {} \in SUBSET (1..n+1)
        OBVIOUS
      <4>2. F[{}] = One(F, {})
        BY <2>1, <4>1, Zenon
      <4> QED
        BY <1>1, <2>3, <3>1, <4>2
    <3>3. first = <<>>
      BY <3>1 DEF Picked
    <3> QED
      BY <2>2, <3>2, <3>3
  <2>4. CASE n # 0
    <3> DEFINE G == [s \in SUBSET (1..n) |-> F[s]]
    <3>1. \A s \in SUBSET (1..n) : G[s] = Old(F, s)
      <4> SUFFICES ASSUME NEW s \in SUBSET (1..n) PROVE F[s] = Old(F, s)
        OBVIOUS
      <4>1. s \in SUBSET (1..n+1)
        BY <1>1
      <4>2. F[s] = One(F, s)
        BY <2>1, <4>1, Zenon
      <4>3. One(F, s) = Old(F, s)
        BY <1>3, <2>4
      <4> QED
        BY <4>2, <4>3, Zenon
    <3>2. ASSUME NEW s \in SUBSET (1..n) PROVE Old(F, s) = Old(G, s)
      <4>1. s \ {Max(s)} \in SUBSET (1..n)
        OBVIOUS
      <4>2. G[s \ {Max(s)}] = F[s \ {Max(s)}]
        BY <4>1
      <4> QED
        BY <4>2
    <3>3. G = [s \in SUBSET (1..n) |-> Old(G, s)]
      BY <3>1, <3>2
    <3>4. Folds(list, G)
      BY <1>1, <3>3 DEF Folds
    <3>5. list # <<>> /\ G[1..n] = F[1..n]
      BY <1>1, <2>4
    <3>6. first = <<F[1..n]>>
      BY <1>1, <3>4, <3>5 DEF Picked
    <3> QED
      BY <2>2, <3>6
  <2> QED
    BY <2>3, <2>4
<1>5. \E F : Folds(more, F)
  <2>1. PICK G : Folds(list, G)
    BY DEF Picked
  <2> DEFINE F == [s \in SUBSET (1..n+1) |->
                     IF n = 0 THEN r
                     ELSE IF n + 1 \in s THEN Better(r, G[s \ {n+1}]) ELSE G[s]]
  <2>2. ASSUME NEW s \in SUBSET (1..n+1) PROVE F[s] = One(F, s)
    <3>1. CASE n = 0
      <4>1. s \ {Max(s)} \in SUBSET (1..n+1)
        OBVIOUS
      <4>2. more[1] = r /\ F[s] = r /\ F[s \ {Max(s)}] = r
        BY <1>1, <3>1, <4>1
      <4>3. s # {} => Max(s) = 1
        <5>1. s # {} => n + 1 \in s
          <6>1. \A x \in s : x = n + 1
            BY <3>1
          <6> QED
            BY <6>1
        <5> QED
          BY <1>1, <3>1, <5>1, MaxOfSuccessor
      <4> QED
        BY <4>2, <4>3
    <3>2. CASE n # 0 /\ n + 1 \in s
      <4>1. Max(s) = n + 1
        BY <1>1, <3>2, MaxOfSuccessor
      <4>2. s \ {n+1} \in SUBSET (1..n+1) /\ n + 1 \notin s \ {n+1}
        OBVIOUS
      <4>3. F[s \ {n+1}] = G[s \ {n+1}] /\ F[s] = Better(r, G[s \ {n+1}])
        BY <3>2, <4>2
      <4> QED
        BY <1>1, <3>2, <4>1, <4>3
    <3>3. CASE n # 0 /\ n + 1 \notin s
      <4>1. s \in SUBSET (1..n) /\ s \ {Max(s)} \in SUBSET (1..n+1) /\ n + 1 \notin s \ {Max(s)}
        <5>1. \A x \in s : x \in 1..n
          BY <1>1, <3>3
        <5> QED
          BY <3>3, <5>1
      <4>2. F[s] = G[s] /\ F[s \ {Max(s)}] = G[s \ {Max(s)}]
        BY <3>3, <4>1
      <4>3. G[s] = Old(G, s)
        BY <1>1, <2>1, <4>1 DEF Folds
      <4>4. One(F, s) = Old(F, s)
        BY <1>3, <3>3, <4>1
      <4> QED
        BY <4>2, <4>3, <4>4
    <3> QED
      BY <3>1, <3>2, <3>3
  <2>3. F = [s \in SUBSET (1..n+1) |-> One(F, s)]
    BY <2>2
  <2> QED
    BY <1>1, <2>3 DEF Folds
<1>6. more # <<>>
  BY <1>1
<1> QED
  BY <1>1, <1>4, <1>5, <1>6 DEF Picked

(* EncodingRight, in the words of Chooses.                                 *)
LEMMA RightIs ==
  EncodingRight <=>
    ((encoding # "" /\ Legacy) =>
       LET chosen == (CHOOSE b : Chooses(results, b))[Len(results)]
       IN encoding = IF chosen = <<>> THEN "cp1252" ELSE chosen[1].label)
BY DEF EncodingRight, Chooses, ContendsIn, Contends, FitsIn, Fits

(* The same at the next state.                                             *)
LEMMA RightIsNext ==
  EncodingRight' <=>
    ((encoding' # "" /\ Legacy') =>
       LET chosen == (CHOOSE b : Chooses(results', b))[Len(results')]
       IN encoding' = IF chosen = <<>> THEN "cp1252" ELSE chosen[1].label)
BY DEF EncodingRight, Chooses, ContendsIn, Contends, FitsIn, Fits

(* Where every file begins.                                                *)
LEMMA EncBegins == EncInit => EncInv
<1> SUFFICES ASSUME EncInit PROVE EncInv
  OBVIOUS
<1>1. /\ looked = 0 /\ candidates = <<>> /\ leader = <<>> /\ seen = {} /\ encoding = ""
      /\ accepted = 0 /\ (results \in Rankings \/ results = <<>>)
  BY DEF EncInit
<1>0. Len(<<>>) = 0 /\ <<>> \in Seq(Results) /\ DOMAIN <<>> = {}
  BY 1..0 = {}
<1>6. /\ results \in Seq(Results)
      /\ \A i, j \in DOMAIN results : i < j => results[i].confidence >= results[j].confidence
  <2>1. CASE results = <<>>
    BY <1>0, <2>1
  <2>2. CASE results \in Rankings
    <3>1. PICK n \in 0..MaxResults : results \in [1..n -> Results]
      BY <2>2 DEF Rankings
    <3>2. n \in Nat
      BY EncodingAssumption
    <3> QED
      BY <2>2, <3>1, <3>2 DEF Rankings
  <2> QED
    BY <1>1, <2>1, <2>2
<1>7. Part = <<>>
  <2>1. SubSeq(results, 1, 0) \in Seq(Results) /\ Len(SubSeq(results, 1, 0)) = 0
    BY <1>6
  <2>2. SubSeq(results, 1, 0) = <<>>
    BY <2>1
  <2> QED
    BY <1>1, <2>2 DEF Part
<1>2. EncType
  <2>1. 1..0 = {}
    OBVIOUS
  <2>2. {j \in 1..0 : FitsIn(results, j)} = {} /\ {results[k].label : k \in 1..0} = {}
    BY <2>1
  <2>3. Len(results) \in Nat
    BY <1>6
  <2> QED
    <3>1. 0 = Cardinality({j \in 1..0 : FitsIn(results, j)})
      BY <2>2, FS_EmptySet
    <3>2. looked \in 0..Len(results) /\ candidates \in Seq(Results)
      <4>1. 0 \in 0..Len(results)
        BY <2>3
      <4>2. looked = 0 /\ candidates = <<>>
        BY <1>1
      <4> QED
        BY <1>0, <4>1, <4>2
    <3> QED
      BY <1>1, <1>6, <2>2, <3>1, <3>2 DEF EncType
<1>3. Chosen(<<>>, <<>>)
  <2> DEFINE c == [k \in 0..0 |-> <<>>]
             One(b, k) == IF k = 0 THEN <<>>
               ELSE IF ContendsIn(<<>>, k) /\ (b[k-1] = <<>> \/ betterCandidate(<<>>[k], b[k-1][1]))
                 THEN <<<<>>[k]>> ELSE b[k-1]
  <2>1. \A b : b = [k \in 0..0 |-> One(b, k)] => b[0] = <<>>
    OBVIOUS
  <2>2. c = [k \in 0..0 |-> One(c, k)]
    OBVIOUS
  <2> QED
    BY <1>0, <2>1, <2>2 DEF Chosen, Chooses
<1>4. Picked(<<>>, <<>>)
  <2> DEFINE G == [s \in SUBSET {} |-> <<>>[1]]
             One(F, s) == IF s = {} THEN <<>>[1]
               ELSE IF betterCandidate(<<>>[Max(s)], F[s \ {Max(s)}]) THEN <<>>[Max(s)]
               ELSE F[s \ {Max(s)}]
  <2>1. G = [s \in SUBSET {} |-> One(G, s)]
    OBVIOUS
  <2> QED
    BY <1>0, <2>1 DEF Picked, Folds
<1>5. EncodingRight
  BY <1>1 DEF EncodingRight
<1> QED
  BY <1>1, <1>2, <1>3, <1>4, <1>5, <1>7 DEF EncInv

(* A candidate that is dominated does not beat the leader.                 *)
LEMMA DominatedLoses ==
  ASSUME NEW r \in Results, NEW first, first = <<>> \/ \E x \in Results : first = <<x>>,
         dominated(r, first), r.confidence <= first[1].confidence
  PROVE  first # <<>> /\ ~betterCandidate(r, first[1])
<1>1. PICK x \in Results : first = <<x>>
  BY DEF dominated
<1>2. x.lang = 100 /\ r.quality <= x.quality /\ r.confidence <= x.confidence /\ first # <<>>
  BY <1>1 DEF dominated
<1>3. /\ r.quality \in Int /\ x.quality \in Int /\ r.confidence \in Int /\ x.confidence \in Int
      /\ r.lang \in 0..100
  BY EncodingAssumption
<1> QED
  BY <1>1, <1>2, <1>3 DEF betterCandidate

(* The results that fit are finitely many.                                 *)
LEMMA FittingFinite ==
  ASSUME NEW rs, NEW n \in Nat
  PROVE  IsFiniteSet({j \in 1..n : FitsIn(rs, j)})
<1>1. IsFiniteSet(1..n)
  BY FS_Interval
<1> QED
  BY <1>1, FS_Subset

(* One result more.                                                        *)
LEMMA DetectStep ==
  ASSUME EncInv, DetectLegacy
  PROVE  EncInv'
<1> DEFINE n == looked  r == results[looked + 1]  part == SubSeq(results, 1, looked)
           more == SubSeq(results, 1, looked + 1)
<1>0. results' = results /\ looked' = n + 1 /\ results[looked'] = r
  BY DEF DetectLegacy
<1>1. /\ results \in Seq(Results) /\ candidates \in Seq(Results) /\ n \in Nat /\ n + 1 \in 1..Len(results)
      /\ leader = <<>> \/ \E x \in Results : leader = <<x>>
      /\ seen = {results[k].label : k \in 1..n} /\ accepted < CandidateLimit
  <2>1. EncType /\ looked < Len(results) /\ accepted < CandidateLimit
    BY DEF EncInv, DetectLegacy
  <2>2. /\ results \in Seq(Results) /\ candidates \in Seq(Results) /\ looked \in 0..Len(results)
        /\ leader = <<>> \/ \E x \in Results : leader = <<x>>
        /\ seen = {results[k].label : k \in 1..n}
    BY <2>1 DEF EncType
  <2>3. Len(results) \in Nat
    BY <2>2
  <2> HIDE DEF EncType
  <2>4. n \in Nat /\ n + 1 \in 1..Len(results)
    BY <2>1, <2>2, <2>3
  <2> QED
    BY <2>1, <2>2, <2>4
<1>2. /\ r \in Results /\ part \in Seq(Results) /\ Len(part) = n /\ more = Append(part, r) /\ Part' = more
      /\ \A k \in 1..n+1 : more[k] = results[k]
  BY <1>0, <1>1 DEF Part
<1>3. leader # <<>> => r.confidence <= leader[1].confidence
  <2> SUFFICES ASSUME leader # <<>> PROVE r.confidence <= leader[1].confidence
    OBVIOUS
  <2>1. n > 0 /\ results[n].confidence <= leader[1].confidence
    BY DEF EncInv, EncType
  <2>2. PICK x \in Results : leader = <<x>>
    BY <1>1
  <2>3. results[n] \in Results /\ n \in DOMAIN results /\ n + 1 \in DOMAIN results
    BY <1>1, <2>1
  <2>4. results[n].confidence >= r.confidence
    BY <1>1, <2>3 DEF EncInv, EncType
  <2>5. leader[1].confidence \in Int /\ r.confidence \in Int /\ results[n].confidence \in Int
    BY <1>2, <2>2, <2>3, EncodingAssumption
  <2> QED
    BY <2>1, <2>4, <2>5
<1>4. FitsIn(results, n + 1) <=> r.label \notin seen \cup UnknownLabels /\ decodeCandidate(r)
  <2>1. (n + 1) - 1 = n
    BY <1>1
  <2>2. FitsIn(results, n + 1) <=>
          /\ r.label \notin UnknownLabels /\ decodeCandidate(r)
          /\ \A j \in 1..n : results[j].label # r.label
    BY <2>1 DEF FitsIn
  <2>3. r.label \in seen <=> \E j \in 1..n : results[j].label = r.label
    BY <1>1
  <2> QED
    BY <2>2, <2>3
<1>10. ContendsIn(more, n + 1) <=> r.label \notin seen \cup UnknownLabels /\ decodeCandidate(r)
  <2> DEFINE u == n + 1
  <2>1. u \in Nat /\ u \in 1..u /\ u - 1 = n
    BY <1>1
  <2>2. \A k \in 1..u : more[k] = results[k]
    BY <1>2
  <2>3. accepted = Cardinality({j \in 1..n : FitsIn(results, j)})
    BY DEF EncInv, EncType
  <2> HIDE DEF u, more
  <2>4. ContendsIn(more, u) <=> ContendsIn(results, u)
    BY <2>1, <2>2, SameContend
  <2>5. ContendsIn(results, u) <=> FitsIn(results, u)
    BY <1>1, <2>1, <2>3 DEF ContendsIn
  <2> QED
    BY <1>4, <2>4, <2>5 DEF u
<1>5. /\ leader' = IF ContendsIn(more, n + 1) /\ (leader = <<>> \/ betterCandidate(r, leader[1]))
                   THEN <<r>> ELSE leader
      /\ \/ candidates' = candidates /\ leader' = leader
         \/ /\ candidates' = Append(candidates, r)
            /\ leader' = IF leader = <<>> \/ betterCandidate(r, leader[1]) THEN <<r>> ELSE leader
  <2>1. CASE r.label \in seen \cup UnknownLabels \/ ~decodeCandidate(r)
    BY <1>0, <1>10, <2>1 DEF DetectLegacy
  <2>2. CASE ~(r.label \in seen \cup UnknownLabels \/ ~decodeCandidate(r)) /\ dominated(r, leader)
    <3>1. leader # <<>> /\ ~betterCandidate(r, leader[1])
      <4>1. leader # <<>>
        BY <2>2 DEF dominated
      <4> QED
        BY <1>1, <1>2, <1>3, <2>2, <4>1, DominatedLoses
    <3>2. candidates' = candidates /\ leader' = leader
      BY <1>0, <2>2 DEF DetectLegacy
    <3> QED
      BY <3>1, <3>2
  <2>3. CASE ~(r.label \in seen \cup UnknownLabels \/ ~decodeCandidate(r)) /\ ~dominated(r, leader)
    BY <1>0, <1>10, <2>3 DEF DetectLegacy
  <2> QED
    BY <2>1, <2>2, <2>3
<1>6. Chosen(Part', leader')
  <2>1. Chosen(part, leader)
    BY DEF EncInv, Part
  <2> HIDE DEF part, more, r
  <2>2. Chosen(more, IF ContendsIn(more, n + 1) /\ (leader = <<>> \/ betterCandidate(r, leader[1]))
                     THEN <<r>> ELSE leader)
    BY <1>1, <1>2, <2>1, ChosenStep
  <2> QED
    BY <1>2, <1>5, <2>2
<1>7. Picked(candidates', leader')
  <2>1. Picked(candidates, leader)
    BY DEF EncInv
  <2> QED
    BY <1>1, <1>2, <1>5, <2>1, PickedStep
<1>8. EncType'
  <2> HIDE DEF part, more, r
  <2>1. candidates' \in Seq(Results)
    <3>1. candidates' = candidates \/ candidates' = Append(candidates, r)
      BY <1>5
    <3>2. candidates \in Seq(Results) /\ r \in Results
      BY <1>1, <1>2
    <3> QED
      BY <3>1, <3>2
  <2>2. leader' = <<>> \/ \E x \in Results : leader' = <<x>>
    BY <1>1, <1>2, <1>5
  <2>3. seen' = {results[k].label : k \in 1..n+1}
    <3>1. seen' = seen \cup {r.label}
      BY <1>0 DEF DetectLegacy
    <3>2. 1..n+1 = (1..n) \cup {n+1}
      BY <1>1
    <3> QED
      BY <1>1, <3>1, <3>2 DEF r
  <2>4. leader' # <<>> => r.confidence <= leader'[1].confidence
    <3>1. CASE leader' = <<r>>
      <4>1. r.confidence \in Int
        BY <1>2, EncodingAssumption
      <4> QED
        BY <3>1, <4>1
    <3>2. CASE leader' = leader
      BY <1>3, <3>2
    <3> QED
      BY <1>5, <3>1, <3>2
  <2>5. accepted' = Cardinality({j \in 1..n+1 : FitsIn(results, j)})
    <3> DEFINE F == {j \in 1..n : FitsIn(results, j)}  G == {j \in 1..n+1 : FitsIn(results, j)}
    <3>1. G = IF FitsIn(results, n + 1) THEN F \cup {n+1} ELSE F
      BY <1>1
    <3>2. n + 1 \notin F
      BY <1>1
    <3>3. IsFiniteSet(F)
      BY <1>1, FittingFinite
    <3>4. Cardinality(F \cup {n+1}) = Cardinality(F) + 1
      <4> HIDE DEF F
      <4> QED
        BY <3>2, <3>3, FS_AddElement
    <3>5. accepted = Cardinality(F)
      BY DEF EncInv, EncType
    <3>6. accepted' = IF FitsIn(results, n + 1) THEN accepted + 1 ELSE accepted
      BY <1>0, <1>4 DEF DetectLegacy
    <3> HIDE DEF F, G
    <3> QED
      BY <3>1, <3>4, <3>5, <3>6 DEF G
  <2>6. n + 1 \in 0..Len(results) /\ n + 1 > 0
    BY <1>1
  <2>7. \A i, j \in DOMAIN results : i < j => results[i].confidence >= results[j].confidence
    BY DEF EncInv, EncType
  <2>8. /\ results \in Seq(Results) /\ candidates' \in Seq(Results) /\ looked' \in 0..Len(results)
        /\ seen' = {results[k].label : k \in 1..looked'}
        /\ accepted' = Cardinality({j \in 1..looked' : FitsIn(results, j)})
        /\ leader' # <<>> => looked' > 0 /\ results[looked'].confidence <= leader'[1].confidence
    BY <1>0, <1>1, <2>1, <2>3, <2>4, <2>5, <2>6
  <2> HIDE DEF n, r
  <2> QED
    BY <1>0, <2>2, <2>7, <2>8 DEF EncType
<1>9. EncodingRight'
  <2>1. encoding' = ""
    BY DEF DetectLegacy
  <2> QED
    BY <2>1 DEF EncodingRight
<1> QED
  BY <1>6, <1>7, <1>8, <1>9 DEF EncInv

(* The encoding is chosen.                                                 *)
LEMMA DetectedStep ==
  ASSUME EncInv, Detected
  PROVE  EncInv'
<1>1. /\ UNCHANGED <<sample, longer, results, looked, seen, candidates, accepted, leader>>
      /\ encoding' = IF candidates = <<>> THEN "cp1252" ELSE pickCandidate(candidates).label
  BY DEF Detected
<1>2. EncType' /\ Chosen(Part, leader)' /\ Picked(candidates, leader)'
  BY <1>1 DEF EncInv, EncType, Part
<1> DEFINE chosen == (CHOOSE b : Chooses(results, b))[Len(results)]  n == Len(results)
<1>6. results \in Seq(Results) /\ n \in Nat /\ looked \in 0..n /\ looked \in Nat
  BY DEF EncInv, EncType
<1>7. ASSUME NEW k \in looked+1..n PROVE ~ContendsIn(results, k)
  <2> DEFINE F == {j \in 1..looked : FitsIn(results, j)}  G == {j \in 1..k-1 : FitsIn(results, j)}
  <2>0. looked = n \/ accepted = CandidateLimit
    BY DEF Detected
  <2>1. accepted = CandidateLimit
    <3> HIDE DEF n
    <3> QED
      BY <1>6, <1>7, <2>0
  <2>2. accepted = Cardinality(F)
    BY DEF EncInv, EncType
  <2>3. F \subseteq G /\ k - 1 \in Nat
    BY <1>6, <1>7
  <2>4. IsFiniteSet(G)
    BY <2>3, FittingFinite
  <2> HIDE DEF F, G
  <2>5. Cardinality(F) <= Cardinality(G) /\ Cardinality(F) \in Nat /\ Cardinality(G) \in Nat
    BY <2>3, <2>4, FS_Subset, FS_CardinalityType
  <2> QED
    BY <2>1, <2>2, <2>5 DEF ContendsIn, G
<1>8. Chosen(results, leader)
  <2>1. Chosen(SubSeq(results, 1, looked), leader)
    BY DEF EncInv, Part
  <2> QED
    BY <1>6, <1>7, <2>1, NoMoreChosen
<1>3. chosen = leader
  BY <1>8 DEF Chosen
<1>4. pickCandidate(candidates) = (CHOOSE F : Folds(candidates, F))[DOMAIN candidates]
  BY DEF pickCandidate, FoldLeft, MapThenFoldSet, Folds
<1>5. leader = IF candidates = <<>> THEN <<>> ELSE <<pickCandidate(candidates)>>
  BY <1>4 DEF EncInv, Picked
<1>9. encoding' = IF chosen = <<>> THEN "cp1252" ELSE chosen[1].label
  BY <1>1, <1>3, <1>5
<1>10. EncodingRight'
  BY <1>1, <1>9, RightIsNext
<1> QED
  BY <1>2, <1>10 DEF EncInv

(* Every step of the detection keeps the invariant.                        *)
LEMMA EncSteps == EncInv /\ EncNext => EncInv'
<1> SUFFICES ASSUME EncInv, EncNext PROVE EncInv'
  OBVIOUS
<1>1. CASE Ladder
  <2>1. UNCHANGED <<sample, longer, results, looked, seen, candidates, accepted, leader>>
    BY <1>1 DEF Ladder
  <2>2. ~Legacy'
    <3>1. sample # "legacy" /\ (sample = "cut" => longer)
      BY <1>1 DEF Ladder
    <3>2. sample' = sample /\ longer' = longer
      BY <2>1
    <3> QED
      BY <3>1, <3>2, Zenon DEF Legacy
  <2> QED
    BY <2>1, <2>2 DEF EncInv, EncType, EncodingRight, Part
<1>2. CASE Detected
  BY <1>2, DetectedStep
<1>3. CASE DetectLegacy
  BY <1>3, DetectStep
<1> QED
  BY <1>1, <1>2, <1>3 DEF EncNext

(* A step of another format, or none.                                      *)
LEMMA EncIdle == EncInv /\ UNCHANGED encVars => EncInv'
<1> SUFFICES ASSUME EncInv, UNCHANGED encVars PROVE EncInv'
  OBVIOUS
<1>1. UNCHANGED <<sample, longer, results, looked, seen, candidates, accepted, leader, encoding>>
  BY DEF encVars
<1>2. EncType' /\ Chosen(Part, leader)' /\ Picked(candidates, leader)'
  BY <1>1 DEF EncInv, EncType, Part
<1>3. EncodingRight'
  <2>1. Legacy' <=> Legacy
    BY <1>1 DEF Legacy
  <2> QED
    BY <1>1, <2>1, RightIs, RightIsNext, Zenon DEF EncInv
<1> QED
  BY <1>2, <1>3 DEF EncInv

(* The leader of the loop is the best of its candidates and the best of    *)
(* all results that fit.                                                   *)
THEOREM EncInvAlways == Spec => []EncInv
<1>1. Init => EncInv
  BY EncBegins DEF Init
<1>2. EncInv /\ [Next]_docVars => EncInv'
  <2> SUFFICES ASSUME EncInv, [Next]_docVars PROVE EncInv'
    OBVIOUS
  <2>1. EncNext \/ UNCHANGED encVars
    BY DEF Next, RtfStep, TxtStep, PdfStep, docVars
  <2> QED
    BY <2>1, EncSteps, EncIdle
<1> QED
  BY <1>1, <1>2, PTL DEF Spec

(* EncodingRight, for any results of the detector in falling confidence    *)
(* and any limit: a plain text is read as the best of the first results    *)
(* that fit, up to the limit, though the language of those the leader      *)
(* dominates was never looked at; none but a known label that decodes.     *)
THEOREM EncodingsRight == Spec => []EncodingRight
<1>1. EncInv => EncodingRight
  BY DEF EncInv
<1> QED
  BY <1>1, EncInvAlways, PTL
=============================================================================
