----------------------------- MODULE MCCatalog -----------------------------
(***************************************************************************)
(* Small libraries for Catalog.  a and A are spellings of one name, "u" is *)
(* the "Unknown" of a converter.                                           *)
(***************************************************************************)
EXTENDS Catalog, TLC

CONSTANTS u1, u2, u3, a, A, b, u, s, S, t, w1, w2

Units == {u1, u2, u3}
Hashes == 1..5
Names == {a, A, b, u}
Topics == {s, S, t}

(* Hash 4 is a content that lists an author twice, and cannot be inserted, *)
(* 5 one that names nobody.                                                *)
Authors == 1 :> <<a>> @@ 2 :> <<b>> @@ 3 :> <<A, u>> @@ 4 :> <<b, b>> @@ 5 :> <<u>>
Credits == 1 :> {a} @@ 2 :> {b} @@ 3 :> {A} @@ 4 :> {b} @@ 5 :> {}
Ballot == 1 :> "a" @@ 2 :> "b" @@ 3 :> "a" @@ 4 :> "b b" @@ 5 :> ""
Preference == [h \in Hashes |-> 1]

(* Only the first path names an author.                                    *)
FromPath(rows, copies) ==
  IF (\E r \in rows : r[1] = 1) \/ \E d \in copies : d[2] = 1 THEN {b} ELSE {}

Keys == s :> "s" @@ S :> "s" @@ t :> "t"
Topic == 1 :> <<s>> @@ 2 :> <<S, t, s>> @@ 3 :> <<t>> @@ 4 :> <<>> @@ 5 :> <<S>>

(* A run may pass over what is recorded elsewhere, and over what may be    *)
(* recorded by the next run.                                               *)
SkipSome == {<<u2, 1>>, <<u3, 2>>}

(* 1 and 2 are similar, and 2 and 3, but not 1 and 3; 3 and 2 share band   *)
(* y, 1 and 3 share x without being similar.  5 is similar to 2.           *)
BandsOf == 1 :> {"x"} @@ 2 :> {"x", "y"} @@ 3 :> {"x", "y"} @@ 4 :> {} @@ 5 :> {"y"}
Similar == [p \in Hashes \X Hashes |->
              CASE p[1] = p[2] -> 100
                [] {p[1], p[2]} = {1, 2} -> 80
                [] {p[1], p[2]} = {2, 3} -> 90
                [] {p[1], p[2]} = {2, 5} -> 85
                [] OTHER -> 40]

(* Two copies of one content, and a third file.                            *)
Distinct == u1 :> 1 @@ u2 :> 2 @@ u3 :> 3
Copies == u1 :> 2 @@ u2 :> 1 @@ u3 :> 2

(* book.epub.gz has the display path of the book.epub beside it.           *)
Colliding == u1 :> 1 @@ u2 :> 2 @@ u3 :> 1
ThreeContents == u1 :> 1 @@ u2 :> 2 @@ u3 :> 2

Symmetric == Permutations(Workers)
=============================================================================
