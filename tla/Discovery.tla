----------------------------- MODULE Discovery -----------------------------
(***************************************************************************)
(* What Scanner.Scan promises its caller, with no queue and no walkers:    *)
(* results are reported one by one and none of them twice, unreadable      *)
(* directories are reported as errors, and a Scan that returns normally    *)
(* while its caller has not cancelled has reported everything but what     *)
(* lies under the unreadable directories.                                  *)
(* DirWalk implements it (DirWalkRefinement); Pipeline builds on it.       *)
(***************************************************************************)
EXTENDS FiniteSets

CONSTANTS
  Item,   (* the ebooks and archives of the tree                           *)
  Dir,    (* its directories                                               *)
  Under   (* the items in each directory and in the directories under it   *)

VARIABLES
  results,    (* the items reported through onResult                       *)
  unreadable, (* the directories reported through onError                  *)
  cancelled,  (* the caller's context is done                              *)
  scan        (* "running", or how Scan returned                           *)

discoveryVars == <<results, unreadable, cancelled, scan>>

Lost == UNION {Under[d] : d \in unreadable}

DiscoveryInit ==
  results = {} /\ unreadable = {} /\ cancelled = FALSE /\ scan = "running"

Discover(i) ==
  /\ scan = "running" /\ i \notin results
  /\ results' = results \cup {i}
  /\ UNCHANGED <<unreadable, cancelled, scan>>

LoseDir(d) ==
  /\ scan = "running" /\ d \notin unreadable
  /\ unreadable' = unreadable \cup {d}
  /\ UNCHANGED <<results, cancelled, scan>>

ScanReturns ==
  /\ scan = "running"
  /\ \/ scan' = "ok" /\ (cancelled \/ Item \subseteq results \cup Lost)
     \/ scan' = "fatal"
  /\ UNCHANGED <<results, unreadable, cancelled>>

CallerCancels ==
  /\ ~cancelled
  /\ cancelled' = TRUE
  /\ UNCHANGED <<results, unreadable, scan>>

DiscoveryNext ==
  \/ \E i \in Item : Discover(i)
  \/ \E d \in Dir : LoseDir(d)
  \/ ScanReturns
  \/ CallerCancels

DiscoverySpec == DiscoveryInit /\ [][DiscoveryNext]_discoveryVars
=============================================================================
