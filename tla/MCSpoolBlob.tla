---------------------------- MODULE MCSpoolBlob ----------------------------
(* A stream of four bytes read in chunks of up to two, two of them kept in *)
(* memory; its size is announced wrongly, or not at all.                   *)
EXTENDS SpoolBlob

MCContent == <<11, 12, 13, 14>>
MCSizes   == {-1, 5}
=============================================================================
