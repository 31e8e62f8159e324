----------------------------- MODULE MCPipeline -----------------------------
(* A tree of two directories: top holds an archive of two members, sub     *)
(* (under top) an ebook.                                                   *)
EXTENDS Pipeline, TLC

CONSTANTS top, sub, b, zip, m1, m2

MCUnits == (b :> {b}) @@ (zip :> {m1, m2})
MCUnder == (top :> {b, zip}) @@ (sub :> {b})
=============================================================================
