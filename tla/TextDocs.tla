------------------------------ MODULE TextDocs ------------------------------
(***************************************************************************)
(* The parsers of the three formats that bring no structure of a book with *)
(* them: RTF, plain text and PDF.  A file takes the way of its format; the *)
(* state of the other two stays as it began.                               *)
(***************************************************************************)
EXTENDS Rtf, Encoding, PdfExtract

VARIABLE format (* the format of this file *)

docVars == <<format, rtfVars, encVars, pdfVars>>

RtfStep(step) == format = "rtf" /\ step /\ UNCHANGED <<format, encVars, pdfVars>>
TxtStep(step) == format = "txt" /\ step /\ UNCHANGED <<format, rtfVars, pdfVars>>
PdfStep(step) == format = "pdf" /\ step /\ UNCHANGED <<format, rtfVars, encVars>>

Init ==
  /\ format \in {"rtf", "txt", "pdf"}
  /\ RtfInit /\ EncInit /\ PdfInit
  /\ format # "rtf" => beginning = CHOOSE b \in Beginnings : TRUE
  /\ format # "txt" => sample = "valid" /\ ~longer
  /\ format # "pdf" => text = <<>>

Next == RtfStep(RtfNext) \/ TxtStep(EncNext) \/ PdfStep(PdfNext)

(* Every goroutine goes on, reads of the file return, a killed process     *)
(* dies, and pdftotext goes on as long as it can.                          *)
Fairness ==
  /\ WF_docVars(PdfStep(Parse)) /\ WF_docVars(PdfStep(Feeder)) /\ WF_docVars(PdfStep(Kill))
  /\ WF_docVars(PdfStep(ToolWrites)) /\ WF_docVars(PdfStep(ToolExits))

Spec == Init /\ [][Next]_docVars /\ Fairness

-----------------------------------------------------------------------------
(* No end of the two pipes of pdftotext waits for the other for ever, with *)
(* the text cut off early, the input left unread, or the scan cancelled:   *)
(* PDFParser.Parse returns.                                                *)
PdfReturns == format = "pdf" ~> at = "done"
=============================================================================
