----------------------------- MODULE MCScanRun -----------------------------
(* Two trees of two ebooks each; the trees and the ebooks are alike.       *)
EXTENDS ScanRun, TLC

Symmetric == Permutations(Root) \cup Permutations(Item)
=============================================================================
