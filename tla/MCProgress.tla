----------------------------- MODULE MCProgress -----------------------------
(* Two walkers, one with a directory of an archive of one ebook, the other *)
(* with one of a file; one worker.                                         *)
EXTENDS Progress

CONSTANTS a, b

MCListing == [w \in {a, b} |-> IF w = a THEN <<<<"archive">>>> ELSE <<<<"file">>>>]
=============================================================================
