----------------------------- MODULE MCDirWalk -----------------------------
(* A small tree for DirWalk: the root with two subdirectories, one of      *)
(* which holds a third; an ebook, an archive and a file of no known        *)
(* format.                                                                 *)
EXTENDS DirWalkRefinement, TLC

CONSTANTS r, a, b, c, book, zip, other

MCDirs     == {r, a, b, c}
MCChildren == (r :> {a, b}) @@ (a :> {c}) @@ (b :> {}) @@ (c :> {})
MCContents == (r :> {}) @@ (a :> {book}) @@ (b :> {zip}) @@ (c :> {other})
MCUnder    == (r :> {book, zip}) @@ (a :> {book}) @@ (b :> {zip}) @@ (c :> {})
=============================================================================
