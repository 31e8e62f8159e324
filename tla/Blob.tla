-------------------------------- MODULE Blob --------------------------------
(***************************************************************************)
(* What the readers of an archive member are promised (book.Blob, and the  *)
(* io.ReaderAt, io.Reader and io.Seeker that zip and 7z ask for): random   *)
(* access to the bytes of a stream that can only be read once, forwards,   *)
(* and that may break off.                                                 *)
(***************************************************************************)
EXTENDS Integers, Sequences

CONSTANTS
  Content,  (* the bytes the stream would deliver                          *)
  MaxLen    (* bound: the longest read, and the largest offset past it     *)

VARIABLES
  pulled,  (* how many of its bytes the stream has delivered               *)
  failed,  (* it broke off: from then on it stays so                       *)
  size,    (* its size as announced, -1 until it is known                  *)
  pos,     (* the cursor                                                   *)
  asked,   (* the call that waits for its answer                           *)
  reply    (* the result of the last call                                  *)

blobVars == <<pulled, failed, size, pos, asked, reply>>

Request(op, at, len) == [op |-> op, at |-> at, len |-> len]
NoRequest == Request("none", 0, 0)
Result(op, data, err) == [op |-> op, data |-> data, err |-> err]

Offsets == 0..(Len(Content) + MaxLen)

(* A caller asks for len bytes, at an offset or at the cursor.             *)
Ask ==
  /\ asked = NoRequest
  /\ \E len \in 1..MaxLen :
       \/ \E off \in Offsets : asked' = Request("ReadAt", off, len)
       \/ asked' = Request("Read", pos, len)
  /\ UNCHANGED <<pulled, failed, size, pos, reply>>

(* The stream is pulled only for a call, and never after it broke.         *)
Pulls ==
  /\ asked # NoRequest /\ ~failed
  /\ pulled' \in pulled..Len(Content) /\ failed' \in BOOLEAN
  /\ UNCHANGED <<size, pos, asked, reply>>

(* The bytes at that offset, as many as were asked for if the stream has   *)
(* delivered them.  Less only at the real end, with io.EOF, or when it     *)
(* broke, with its error.                                                  *)
Bytes == SubSeq(Content, asked.at + 1,
                IF asked.at + asked.len <= pulled THEN asked.at + asked.len ELSE pulled)

Answer ==
  /\ asked.op \in {"ReadAt", "Read"}
  /\ reply' = Result(asked.op, Bytes, IF Len(Bytes) = asked.len THEN "none"
                                      ELSE IF failed THEN "source" ELSE "eof")
  /\ reply'.err = "eof" => pulled = Len(Content)
  /\ pos' = IF asked.op = "Read" THEN pos + Len(Bytes) ELSE pos
  /\ asked' = NoRequest
  /\ UNCHANGED <<pulled, failed, size>>

(* newSpoolBlob: a stream whose size nobody announced is read to its end,  *)
(* and what broke has no blob.                                             *)
Create ==
  /\ asked.op = "New"
  /\ reply' = Result("New", <<>>, IF failed THEN "source" ELSE "none")
  /\ size' = IF failed THEN size ELSE Len(Content)
  /\ asked' = NoRequest
  /\ UNCHANGED <<pulled, failed, pos>>

Size ==
  /\ asked = NoRequest /\ size # -1
  /\ reply' = Result("Size", <<size>>, "none")
  /\ UNCHANGED <<pulled, failed, size, pos, asked>>

(* The next Read starts where Seek says it does.                           *)
Seek ==
  /\ asked = NoRequest
  /\ \/ pos' \in Nat /\ reply' = Result("Seek", <<pos'>>, "none")
     \/ UNCHANGED pos /\ reply' = Result("Seek", <<>>, "negative")
  /\ UNCHANGED <<pulled, failed, size, asked>>

BlobInit ==
  /\ pulled = 0 /\ failed = FALSE /\ size \in Int /\ pos = 0
  /\ asked = IF size = -1 THEN Request("New", 0, 0) ELSE NoRequest
  /\ reply = Result("none", <<>>, "none")

BlobNext == Ask \/ Pulls \/ Answer \/ Create \/ Size \/ Seek

BlobSpec == BlobInit /\ [][BlobNext]_blobVars
=============================================================================
