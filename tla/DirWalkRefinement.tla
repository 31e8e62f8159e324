------------------------- MODULE DirWalkRefinement -------------------------
(***************************************************************************)
(* DirWalk implements Discovery: the walkers, the queue and the counter    *)
(* are invisible, Scan's callbacks and its return are the steps.           *)
(***************************************************************************)
EXTENDS DirWalk

CONSTANT Under  (* the supported files in and under each directory         *)

ASSUME UnderAssumption ==
  \A d \in Dirs : Under[d] = (Contents[d] \cap Supported)
                               \cup UNION {Under[e] : e \in Children[d]}

(* The value Scan returns with: its fatal error, or none.                  *)
ScanResult == IF pc[Main] # "returned" THEN "running"
              ELSE IF fatal THEN "fatal" ELSE "ok"

Promise == INSTANCE Discovery WITH
             Item <- Under[Root], Dir <- Dirs, Under <- Under, scan <- ScanResult

(* Every behaviour of the walk is one of Discovery: no result is reported  *)
(* twice or after Scan returned, and a normal return is complete.          *)
ImplementsDiscovery == Promise!DiscoverySpec
=============================================================================
