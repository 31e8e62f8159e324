----------------------------- MODULE MCArchive -----------------------------
(* Two archives.  One zip holds an ebook, the compressed x.epub.gz and a   *)
(* 7z with a pdf and another zip; one tgz holds a file of no known format, *)
(* a small and an ordinary text, and compressed: a zip, a pdf and a file   *)
(* of no known format.                                                     *)
EXTENDS Archive, TLC

CONSTANTS zip1, e, gz, x, sz, p, zip2, y, tgz, o, s, t, bz, w, v, pgz, q, ogz, r

Nodes == {zip1, e, gz, x, sz, p, zip2, y, tgz, o, s, t, bz, w, v, pgz, q, ogz, r}

Formats ==
  zip1 :> "zip" @@ e :> "epub" @@ gz :> "gz" @@ x :> "epub" @@ sz :> "7z" @@
  p :> "pdf" @@ zip2 :> "zip" @@ y :> "epub" @@
  tgz :> "tgz" @@ o :> "none" @@ s :> "txt" @@ t :> "txt" @@ bz :> "bz2" @@
  w :> "zip" @@ v :> "epub" @@ pgz :> "gz" @@ q :> "pdf" @@ ogz :> "gz" @@ r :> "none"

Holds ==
  zip1 :> <<e, gz, sz>> @@ gz :> <<x>> @@ sz :> <<p, zip2>> @@ zip2 :> <<y>> @@
  tgz :> <<o, s, t, bz, pgz, ogz>> @@ bz :> <<w>> @@ w :> <<v>> @@
  pgz :> <<q>> @@ ogz :> <<r>>

MembersOf == [n \in Nodes |-> IF n \in DOMAIN Holds THEN Holds[n] ELSE <<>>]

(* Every name is one of its own, also without its suffix.                  *)
Names == [n \in Nodes |-> n]
Stems == gz :> x @@ bz :> w @@ pgz :> q @@ ogz :> r
=============================================================================
