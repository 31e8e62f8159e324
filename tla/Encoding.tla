------------------------------ MODULE Encoding ------------------------------
(***************************************************************************)
(* The encoding of a plain text (internal/parser/txt/encoding.go): a byte  *)
(* order mark, valid UTF-8, or the best of what a statistical detector     *)
(* (external) proposes, one candidate after the other.                     *)
(*                                                                         *)
(* A result of the detector is its label with its confidence, and what     *)
(* decoding the sample by it shows: its text quality (-1000 when it fails) *)
(* and the confidence of its language in percent, or 0 for none.           *)
(***************************************************************************)
EXTENDS Integers, Sequences, SequencesExt, FiniteSets

CONSTANTS
  Samples,       (* how a sample begins: "utf8BOM", "utf16LEBOM",          *)
                 (* "utf16BEBOM", "valid", "cut" (valid but for its end)   *)
                 (* or "legacy"; or "unread", when reading it fails        *)
  Results,       (* what the detector may find                             *)
  UnknownLabels, (* the labels no encoding is known for                    *)
  CandidateLimit, (* candidateLimit                                        *)
  MaxResults     (* bound on the detector's results                        *)

(* textQuality and the detector's confidence are integers, the confidence  *)
(* of a language is a probability.                                         *)
ASSUME EncodingAssumption ==
  /\ \A r \in Results : r.quality \in Int /\ r.confidence \in Int /\ r.lang \in 0..100
  /\ CandidateLimit \in Nat \ {0} /\ MaxResults \in Nat

MinTextQuality == -20

VARIABLES
  sample,   (* the beginning of the file                                   *)
  longer,   (* the file is longer than the sample                          *)
  results,  (* what DetectAll returned, none when it failed                *)
  looked,   (* how many of them the loop has looked at                     *)
  seen, candidates, accepted, leader, (* detectLegacy                      *)
  encoding  (* what detectEncoding returned: "" for not yet                *)

encVars == <<sample, longer, results, looked, seen, candidates, accepted, leader, encoding>>

(* One candidate is better than another.  Languages that are five percent  *)
(* apart or less are alike, so this is no order.                           *)
betterCandidate(a, b) ==
  LET diff == a.lang - b.lang IN
  IF (a.lang = 0) # (b.lang = 0) THEN a.lang # 0
  ELSE IF diff > 5 THEN TRUE
  ELSE IF diff < -5 THEN FALSE
  ELSE IF a.quality # b.quality THEN a.quality > b.quality
  ELSE a.confidence > b.confidence

(* Mutant of dominated: any leader with a language will do.                *)
dominatedSoon(candidate, first) ==
  first # <<>> /\ first[1].lang > 0 /\ candidate.quality <= first[1].quality

(* A candidate that cannot beat the leader, whatever its language is.      *)
dominated(candidate, first) ==
  first # <<>> /\ first[1].lang = 100 /\ candidate.quality <= first[1].quality

decodeCandidate(r) == r.quality >= MinTextQuality

pickCandidate(list) ==
  FoldLeft(LAMBDA best, c : IF betterCandidate(c, best) THEN c ELSE best, list[1], list)

(***************************************************************************)
(* detectEncoding: the ladder, then detectLegacy.                          *)
(***************************************************************************)
Ladder ==
  /\ encoding = "" /\ sample # "legacy"
  /\ \/ sample = "unread" /\ encoding' = "error"
     \/ sample \in {"utf8BOM", "utf16LEBOM", "utf16BEBOM"} /\ encoding' = sample
     \/ sample = "valid" /\ encoding' = "utf8"
     \/ sample = "cut" /\ longer /\ encoding' = "utf8"
  /\ UNCHANGED <<sample, longer, results, looked, seen, candidates, accepted, leader>>

Legacy == sample = "legacy" \/ (sample = "cut" /\ ~longer)

(* The loop over the results.                                              *)
DetectLegacy ==
  /\ encoding = "" /\ Legacy /\ looked < Len(results) /\ accepted < CandidateLimit
  /\ looked' = looked + 1
  /\ LET r == results[looked'] IN
     /\ seen' = seen \cup {r.label}
     /\ IF r.label \in seen \cup UnknownLabels \/ ~decodeCandidate(r)
        THEN UNCHANGED <<candidates, accepted, leader>>
        ELSE /\ accepted' = accepted + 1
             /\ IF dominated(r, leader) THEN UNCHANGED <<candidates, leader>>
                ELSE /\ candidates' = Append(candidates, r)
                     /\ leader' = IF leader = <<>> \/ betterCandidate(r, leader[1])
                                  THEN <<r>> ELSE leader
  /\ UNCHANGED <<sample, longer, results, encoding>>

(* No more results, or enough of them.                                     *)
Detected ==
  /\ encoding = "" /\ Legacy /\ (looked = Len(results) \/ accepted = CandidateLimit)
  /\ encoding' = IF candidates = <<>> THEN "cp1252" ELSE pickCandidate(candidates).label
  /\ UNCHANGED <<sample, longer, results, looked, seen, candidates, accepted, leader>>

(* The detector lists what it finds by falling confidence.                 *)
Rankings ==
  {s \in UNION {[1..n -> Results] : n \in 0..MaxResults} :
     \A i, j \in DOMAIN s : i < j => s[i].confidence >= s[j].confidence}

EncInit ==
  /\ sample \in Samples /\ longer \in BOOLEAN
  /\ IF Legacy THEN results \in Rankings ELSE results = <<>>
  /\ looked = 0 /\ seen = {} /\ candidates = <<>>
  /\ accepted = 0 /\ leader = <<>> /\ encoding = ""

EncNext == Ladder \/ DetectLegacy \/ Detected

-----------------------------------------------------------------------------
(* A label that is known, decodes and reads as text, for the first time.   *)
Fits(k) ==
  /\ results[k].label \notin UnknownLabels /\ decodeCandidate(results[k])
  /\ \A j \in 1..k-1 : results[j].label # results[k].label

(* One of the first candidateLimit of those.                               *)
Contends(k) == Fits(k) /\ Cardinality({j \in 1..k-1 : Fits(j)}) < CandidateLimit

(* "It cannot beat leader whatever its language turns out to be": leaving  *)
(* out the language pass for dominated candidates never changes the        *)
(* encoding chosen.  Of all that the detector found, it is the best of the *)
(* first candidateLimit results that fit, each compared with the best      *)
(* before it; no other result is ever chosen, and none that fits passed    *)
(* over for Windows-1252.                                                  *)
EncodingRight ==
  (encoding # "" /\ Legacy) =>
    LET best[k \in 0..Len(results)] ==
          IF k = 0 THEN <<>>
          ELSE IF Contends(k) /\ (best[k-1] = <<>> \/ betterCandidate(results[k], best[k-1][1]))
            THEN <<results[k]>> ELSE best[k-1]
        chosen == best[Len(results)]
    IN encoding = IF chosen = <<>> THEN "cp1252" ELSE chosen[1].label
=============================================================================
