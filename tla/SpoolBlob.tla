----------------------------- MODULE SpoolBlob -----------------------------
(***************************************************************************)
(* spoolBlob of internal/processor/spool.go: a stream is pulled on demand, *)
(* its first bytes kept in memory and the rest in a temporary file.        *)
(*                                                                         *)
(* A mutex is held for the whole of every call, so calls never interleave: *)
(* at most one is under way, and its steps are the iterations of its       *)
(* loops.  The callers close a blob when they are done with it.            *)
(***************************************************************************)
EXTENDS Integers, Sequences

CONSTANTS
  Content,  (* the bytes the source delivers                               *)
  RamCap,   (* --spool-mem-limit                                           *)
  Chunk,    (* bytes one Read of the source delivers at most               *)
  Sizes,    (* the sizes it may be announced with, -1 for unknown          *)
  MaxLen,   (* bound: the longest read, and the largest offset past it     *)
  SpillMayBreak (* the temporary file may become unreadable                *)

ASSUME SpoolAssumption ==
  /\ Content \in Seq(Int) /\ RamCap \in Nat \ {0} /\ Chunk \in Nat \ {0}
  /\ Sizes \subseteq Int /\ MaxLen \in Nat /\ SpillMayBreak \in BOOLEAN

VARIABLES
  ram, spill,   (* what was pulled: in memory, and in the temporary file   *)
  spillFile,    (* the temporary file exists                               *)
  spillBroken,  (* it cannot be read any more                              *)
  eof, srcErr,  (* how the source ended                                    *)
  size,         (* -1 until it is known                                    *)
  pos,          (* the cursor                                              *)
  closed,
  call,         (* the call under way                                      *)
  wanted,       (* the furthest byte any call has asked for                *)
  reply         (* the result of the last call                             *)

srcVars  == <<ram, spill, spillFile, eof, srcErr>>
vars == <<ram, spill, spillFile, spillBroken, eof, srcErr, size, pos, closed, call,
          wanted, reply>>

All  == Len(Content) + MaxLen + Chunk (* more than there is: math.MaxInt64 *)
Least(m, n) == IF m <= n THEN m ELSE n
Most(m, n)  == IF m >= n THEN m ELSE n

Length == Len(ram) + Len(spill)
Idle   == [op |-> "none", at |-> 0, len |-> 0, need |-> 0, step |-> "none", data |-> <<>>]

(* A call that must pull up to byte `need` first.                          *)
Call(op, at, len, need) ==
  [op |-> op, at |-> at, len |-> len, need |-> need, step |-> "ensure", data |-> <<>>]

Reply(op, data, err) == reply' = [op |-> op, data |-> data, err |-> err] /\ call' = Idle

Begin(c) ==
  /\ call' = c
  /\ wanted' = Most(wanted, c.need)
  /\ UNCHANGED <<srcVars, spillBroken, size, pos, closed, reply>>

Ready == call = Idle /\ ~closed

(***************************************************************************)
(* The calls.                                                              *)
(***************************************************************************)
ReadAt == Ready /\ \E off \in 0..(Len(Content) + MaxLen), len \in 1..MaxLen :
            Begin(Call("ReadAt", off, len, off + len))

Read == Ready /\ \E len \in 1..MaxLen : Begin(Call("Read", pos, len, pos + len))

(* Size and Seek to the end read everything only if the size is unknown,   *)
(* which newSpoolBlob has seen to.                                         *)
Size ==
  /\ Ready
  /\ Reply("Size", <<size>>, "none")
  /\ UNCHANGED <<srcVars, spillBroken, size, pos, closed, wanted>>

Seek ==
  /\ Ready
  /\ \E base \in {0, pos, size}, d \in (-MaxLen)..MaxLen :
       /\ base + d <= Len(Content) + MaxLen
       /\ IF base + d < 0 THEN UNCHANGED pos /\ Reply("Seek", <<>>, "negative")
          ELSE pos' = base + d /\ Reply("Seek", <<base + d>>, "none")
  /\ UNCHANGED <<srcVars, spillBroken, size, closed, wanted>>

(* Safe to call more than once: the second does nothing.                   *)
Close ==
  /\ call = Idle
  /\ closed' = TRUE /\ spillFile' = FALSE
  /\ UNCHANGED <<ram, spill, eof, srcErr, spillBroken, size, pos, call, wanted, reply>>

(***************************************************************************)
(* ensure: pull until the call has what it needs, or the source ends.      *)
(***************************************************************************)
Pulling == call.step = "ensure" /\ Length < call.need /\ ~eof /\ ~srcErr

(* Mutant of Keep: a chunk goes to memory if there is any space left.      *)
KeepAllInRam(data) ==
  IF Len(ram) < RamCap
  THEN ram' = ram \o data /\ UNCHANGED <<spill, spillFile>>
  ELSE spill' = spill \o data /\ spillFile' = TRUE /\ UNCHANGED ram

(* append: memory up to the cap, the rest to the temporary file.           *)
Keep(data) ==
  LET fits == Least(Len(data), RamCap - Len(ram)) IN
  /\ ram' = ram \o SubSeq(data, 1, fits)
  /\ IF fits = Len(data) THEN UNCHANGED <<spill, spillFile>>
     ELSE spill' = spill \o SubSeq(data, fits + 1, Len(data)) /\ spillFile' = TRUE

(* The file cannot be created or written: what fits in memory stays there. *)
KeepFails(data) ==
  LET fits == Least(Len(data), RamCap - Len(ram)) IN
  /\ fits < Len(data)
  /\ ram' = ram \o SubSeq(data, 1, fits)
  /\ spillFile' \in {spillFile, TRUE} /\ UNCHANGED spill

(* One Read of the source: bytes, alone or with the end or an error.       *)
Pull ==
  /\ Pulling
  /\ \E m \in 0..Least(Chunk, Len(Content) - Length) :
       LET data == SubSeq(Content, Length + 1, Length + m) IN
       \/ m > 0 /\ Keep(data) /\ UNCHANGED <<eof, srcErr>>
       \/ Length + m = Len(Content) /\ Keep(data) /\ eof' = TRUE /\ UNCHANGED srcErr
       \/ Keep(data) /\ srcErr' = TRUE /\ UNCHANGED eof
       \/ KeepFails(data) /\ srcErr' = TRUE /\ UNCHANGED eof
  /\ UNCHANGED <<spillBroken, size, pos, closed, call, wanted, reply>>

Pulled ==
  /\ call.step = "ensure" /\ ~Pulling
  /\ call' = [call EXCEPT !.step = "copy"]
  /\ UNCHANGED <<srcVars, spillBroken, size, pos, closed, wanted, reply>>

(***************************************************************************)
(* copyFrom: from memory, then from the file.                              *)
(***************************************************************************)
Missing == call.len - Len(call.data)
From    == call.at + Len(call.data)

(* Mutant of Copying: the loop does not stop where what was pulled ends.   *)
CopyingOn == call.step = "copy" /\ Missing > 0

Copying == call.step = "copy" /\ Missing > 0 /\ From < Length

Got(bytes) == call' = [call EXCEPT !.data = @ \o bytes]

CopyRam ==
  /\ Copying /\ From < Len(ram)
  /\ Got(SubSeq(ram, From + 1, Least(Len(ram), From + Missing)))
  /\ UNCHANGED <<srcVars, spillBroken, size, pos, closed, wanted, reply>>

CopySpill ==
  /\ Copying /\ From >= Len(ram) /\ ~spillBroken
  /\ LET so == From - Len(ram) IN Got(SubSeq(spill, so + 1, Least(Len(spill), so + Missing)))
  /\ UNCHANGED <<srcVars, spillBroken, size, pos, closed, wanted, reply>>

(* The error of spill.ReadAt is ignored: when nothing can be read, the     *)
(* loop goes round and nothing changes.                                    *)
CopyNothing ==
  /\ Copying /\ From >= Len(ram) /\ spillBroken
  /\ UNCHANGED vars

(* Mutant of Return: only the bytes in memory, and no error.               *)
ReturnHalf ==
  /\ call.step = "copy" /\ ~Copying /\ call.op # "New"
  /\ LET half == SubSeq(call.data, 1, Least(Len(call.data), Most(0, Len(ram) - call.at))) IN
     /\ Reply(call.op, half, IF half # <<>> \/ Missing = 0 THEN "none"
                             ELSE IF srcErr THEN "source" ELSE "eof")
     /\ pos' = IF call.op = "Read" THEN pos + Len(half) ELSE pos
  /\ UNCHANGED <<srcVars, spillBroken, size, closed, wanted>>

(* The call returns: io.EOF if the source ended before it broke.           *)
Return ==
  /\ call.step = "copy" /\ ~Copying /\ call.op # "New"
  /\ Reply(call.op, call.data, IF Missing = 0 THEN "none"
                               ELSE IF srcErr THEN "source" ELSE "eof")
  /\ pos' = IF call.op = "Read" THEN pos + Len(call.data) ELSE pos
  /\ UNCHANGED <<srcVars, spillBroken, size, closed, wanted>>

(* newSpoolBlob of unknown size returns: the size is what was pulled; a    *)
(* broken source makes it close the blob and fail.                         *)
ReturnNew ==
  /\ call.op = "New" /\ call.step = "copy"
  /\ Reply("New", <<>>, IF srcErr THEN "source" ELSE "none")
  /\ IF srcErr THEN closed' = TRUE /\ spillFile' = FALSE /\ UNCHANGED size
     ELSE size' = Length /\ UNCHANGED <<closed, spillFile>>
  /\ UNCHANGED <<ram, spill, eof, srcErr, spillBroken, pos, wanted>>

SpillBreaks ==
  /\ SpillMayBreak /\ spillFile /\ ~spillBroken
  /\ spillBroken' = TRUE
  /\ UNCHANGED <<srcVars, size, pos, closed, call, wanted, reply>>

----------------------------------------------------------------------------
Init ==
  /\ ram = <<>> /\ spill = <<>> /\ spillFile = FALSE /\ spillBroken = FALSE
  /\ eof = FALSE /\ srcErr = FALSE /\ pos = 0 /\ closed = FALSE
  /\ size \in Sizes
  /\ call = IF size = -1 THEN Call("New", 0, 0, All) ELSE Idle
  /\ wanted = IF size = -1 THEN All ELSE 0
  /\ reply = [op |-> "none", data |-> <<>>, err |-> "none"]

Step == Pull \/ Pulled \/ CopyRam \/ CopySpill \/ CopyNothing \/ Return \/ ReturnNew

Next == ReadAt \/ Read \/ Size \/ Seek \/ Close \/ Step \/ SpillBreaks

Spec == Init /\ [][Next]_vars

(* A call that has begun goes on: the source answers every Read.           *)
FairSpec == Spec /\ WF_vars(Step)

----------------------------------------------------------------------------
TypeOK ==
  /\ ram \in Seq(Int) /\ spill \in Seq(Int)
  /\ {spillFile, spillBroken, eof, srcErr, closed} \subseteq BOOLEAN
  /\ size \in Int /\ pos \in Nat /\ wanted \in Nat
  /\ call.step \in {"none", "ensure", "copy"} /\ call.data \in Seq(Int)
  /\ reply.err \in {"none", "eof", "source", "negative"}

(* Memory is bounded: a member is kept in memory up to --spool-mem-limit,  *)
(* only what is beyond is spilled, the bytes counted as spilled can be     *)
(* read as long as the blob is open, and no temporary file outlives it,    *)
(* also when its construction failed.  And it is read only as far as its   *)
(* reader has asked, and less than a chunk of the source further, so that  *)
(* metadata at the start of a large member does not cost the rest of it.   *)
MemoryBound ==
  /\ Len(ram) <= RamCap
  /\ spillFile => Len(ram) = RamCap /\ ~closed
  /\ spill # <<>> /\ ~closed => spillFile
  /\ Length < wanted + Chunk

(* Every call of a blob whose temporary file can be read returns, whatever *)
(* the source does and wherever it ends (the loops of ensure and copyFrom).*)
(* Once that file breaks a call need not: copyFrom drops the error of      *)
(* spill.ReadAt and goes round for ever (CopyNothing, spool.go:140).       *)
ReadableReturns == call.op # "none" ~> call.op = "none" \/ spillBroken

(* What was pulled in pieces, half of it spilled, answers like the whole   *)
(* content: each read with the bytes at the offset it asked for, all of    *)
(* them if they were pulled, fewer only at the real end, with io.EOF, or   *)
(* after a broken source, with its error.  An unknown size becomes the     *)
(* real one, and a Read starts where the last Seek or Read left off.       *)
Promise == INSTANCE Blob WITH
  pulled <- Length,
  failed <- srcErr,
  asked  <- [op |-> call.op, at |-> call.at, len |-> call.len]
ImplementsBlob == Promise!BlobSpec
=============================================================================
