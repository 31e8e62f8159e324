--------------------------- MODULE CatalogProofs ---------------------------
(***************************************************************************)
(* Proofs about Catalog, for any library, any contents and similarities,   *)
(* and any series of runs, interrupted or not.                             *)
(***************************************************************************)
EXTENDS Catalog, WellFoundedInduction, FiniteSetTheorems, TLAPS

FileRows == [hash : Hash, path : Nat]

(* The part of the types the arguments need.                               *)
RowsType == /\ files \in Seq(FileRows) /\ dups \subseteq Hash \X Nat
RunType ==
  /\ disk \in [Unit -> Hash] /\ phase \in {"idle", "scan", "consolidate"}
  /\ mode \in {"fresh", "resume"} /\ todo \subseteq Unit
  /\ pc \in [Workers -> {"idle", "lookup", "record"}]
  /\ unit \in [Workers -> Unit \cup {AnyUnit}]

(* A unit is in the hands of one worker at most, and of none outside a     *)
(* scan.                                                                   *)
HandsOnce ==
  /\ phase # "scan" => \A w \in Workers : pc[w] = "idle"
  /\ \A w \in Workers : pc[w] # "idle" => unit[w] \in Unit \ todo
  /\ \A w, v \in Workers : w # v /\ pc[w] # "idle" /\ pc[v] # "idle" => unit[w] # unit[v]

(* Each content has one row, and a duplicate has the row it duplicates.    *)
HashOnce ==
  /\ \A i, j \in FileIds : files[i].hash = files[j].hash => i = j
  /\ \A d \in dups : \E i \in FileIds : files[i].hash = d[1]

(* The invariant of the rows.                                              *)
RowsInv == RowsType /\ RunType /\ HandsOnce /\ HashOnce

(* No unit is lost between the tree, the workers and the tables.           *)
InHand(u) == \E w \in Workers : pc[w] # "idle" /\ unit[w] = u
NothingLostYet ==
  /\ phase = "scan" =>
       \A u \in Unit \ (failed \cup skipped) : u \in todo \/ InHand(u) \/ Recorded(PathOf[u])
  /\ phase = "consolidate" => \A u \in Unit \ (failed \cup skipped) : Recorded(PathOf[u])

(* With distinct display paths, what a worker is about to record is not    *)
(* recorded, for a fresh scan started from nothing and a resumed one has   *)
(* looked.                                                                 *)
Distinct == \A u, v \in Unit : PathOf[u] = PathOf[v] => u = v
Unrecorded ==
  /\ phase = "scan" /\ mode = "fresh" =>
       \A u \in Unit : u \in todo \/ InHand(u) => ~Recorded(PathOf[u])
  /\ \A w \in Workers : pc[w] = "record" => ~Recorded(PathOf[unit[w]])

(* Every file is in a book, the first of a book or similar to an earlier   *)
(* one.                                                                    *)
Similar(g, h) == Similarity[g, h] >= Threshold
Grown(b) == \A i \in FilesOf(b) : \/ \A j \in FilesOf(b) : i <= j
                                  \/ \E j \in FilesOf(b) : j < i /\ Similar(files[i].hash, files[j].hash)
BooksInv ==
  /\ books \in Seq({books[b] : b \in BookIds})
  /\ bookFiles \subseteq BookIds \X FileIds
  /\ \A e \in buckets : e[2] \in FileIds
  /\ \A i \in FileIds : \E b \in BookIds : \A c \in BookIds : <<c, i>> \in bookFiles <=> c = b
  /\ \A b \in BookIds : FilesOf(b) # {} /\ Grown(b)

-----------------------------------------------------------------------------
(* The smallest of the paths of a content's duplicates.                    *)
LEMMA SmallestPath ==
  ASSUME RowsType, NEW h, DupPaths(h) # {}
  PROVE  /\ Smallest(h) \in DupPaths(h) /\ Smallest(h) \in Nat
         /\ \A p \in DupPaths(h) : Smallest(h) <= p
<1>1. DupPaths(h) \subseteq Nat
  BY DEF DupPaths, RowsType
<1>2. \E p \in DupPaths(h) : \A q \in DupPaths(h) : ~(<<q, p>> \in OpToRel(<, Nat))
  BY <1>1, NatLessThanWellFounded, WFMin
<1>3. PICK p \in DupPaths(h) : \A q \in DupPaths(h) : ~(q < p)
  BY <1>1, <1>2 DEF OpToRel
<1>4. \A q \in DupPaths(h) : p <= q
  BY <1>1, <1>3
<1>5. Smallest(h) \in DupPaths(h) /\ \A q \in DupPaths(h) : Smallest(h) <= q
  BY <1>4 DEF Smallest
<1> QED
  BY <1>1, <1>5

(* DupPaths lists the second members of a content's duplicates.            *)
LEMMA DupPathsMember ==
  ASSUME RowsType, NEW h, NEW p
  PROVE  p \in DupPaths(h) <=> <<h, p>> \in dups
<1>1. \A d \in dups : d = <<d[1], d[2]>>
  BY DEF RowsType
<1> QED
  BY <1>1 DEF DupPaths

(* Appending a row keeps the rows before it and is the last one.           *)
LEMMA AppendFile ==
  ASSUME NEW s \in Seq(FileRows), NEW r \in FileRows
  PROVE  /\ Append(s, r) \in Seq(FileRows) /\ Len(s) \in Nat
         /\ DOMAIN Append(s, r) = DOMAIN s \cup {Len(s) + 1} /\ Len(s) + 1 \notin DOMAIN s
         /\ Append(s, r)[Len(s) + 1] = r
         /\ \A i \in DOMAIN s : Append(s, r)[i] = s[i] /\ i < Len(s) + 1
OBVIOUS

-----------------------------------------------------------------------------
(* What a transaction of Record adds: a duplicate of a content that has a  *)
(* row, or the row of a new content under a new path.                      *)
LEMMA RecordAdds ==
  ASSUME RowsType, RunType, HandsOnce, NEW w \in Workers, Record(w),
         NEW h, h = disk[unit[w]], NEW p, p = PathOf[unit[w]]
  PROVE  /\ h \in Hash /\ p \in Nat /\ unit[w] \in Unit /\ pc[w] = "record" /\ phase = "scan"
         /\ pc' = [pc EXCEPT ![w] = "idle"]
         /\ UNCHANGED <<disk, phase, mode, status, todo, unit, failed, skipped>>
         /\ \/ /\ dups' = dups \cup {<<h, p>>} /\ files' = files
               /\ \E i \in FileIds : files[i].hash = h
            \/ /\ dups' = dups /\ files' = Append(files, [hash |-> h, path |-> p])
               /\ \A i \in FileIds : files[i].hash # h /\ files[i].path # p
<1>1. unit[w] \in Unit /\ pc[w] = "record" /\ phase = "scan"
  BY DEF Record, HandsOnce
<1>2. h \in Hash /\ p \in Nat
  BY <1>1, CatalogAssumption DEF RunType
<1>3. UNCHANGED <<disk, phase, mode, status, todo, unit, failed, skipped>> /\ pc' = [pc EXCEPT ![w] = "idle"]
  BY DEF Record, Goto, runVars
<1>4. RecordDuplicate(h, p) \/ RecordFile(h, p)
  BY DEF Record
<1> QED
  BY <1>1, <1>2, <1>3, <1>4 DEF RecordDuplicate, RecordFile, Violates

(* A recorded path stays recorded, and Record records exactly the worker's.*)
LEMMA RecordRecords ==
  ASSUME RowsType, RunType, HandsOnce, NEW w \in Workers, Record(w), NEW q
  PROVE  Recorded(q)' <=> Recorded(q) \/ q = PathOf[unit[w]]
<1>0. PICK h, p : h = disk[unit[w]] /\ p = PathOf[unit[w]]
  OBVIOUS
<1>1. CASE dups' = dups \cup {<<h, p>>} /\ files' = files
  <2>1. \A d : d \in dups' <=> d \in dups \/ d = <<h, p>>
    BY <1>1
  <2>2. <<h, p>>[2] = p
    OBVIOUS
  <2> QED
    BY <1>0, <1>1, <2>1, <2>2 DEF Recorded, FileIds
<1>2. CASE dups' = dups /\ files' = Append(files, [hash |-> h, path |-> p])
  <2>1. [hash |-> h, path |-> p] \in FileRows /\ [hash |-> h, path |-> p].path = p
    BY <1>0, RecordAdds DEF FileRows
  <2>2. /\ DOMAIN files' = DOMAIN files \cup {Len(files) + 1} /\ files'[Len(files) + 1].path = p
        /\ \A i \in DOMAIN files : files'[i] = files[i]
    BY <1>2, <2>1, AppendFile DEF RowsType
  <2> QED
    BY <1>0, <1>2, <2>2 DEF Recorded, FileIds
<1> QED
  BY <1>0, <1>1, <1>2, RecordAdds

(* What canonicalizeBookFiles does to each row.                            *)
LEMMA CanonicalRows ==
  ASSUME RowsType, Canonicalize
  PROVE  /\ RowsType' /\ FileIds' = FileIds
         /\ \A i \in FileIds :
              /\ files'[i].hash = files[i].hash
              /\ i \notin ToPromote => files'[i].path = files[i].path
              /\ i \in ToPromote =>
                   /\ files'[i].path = Smallest(files[i].hash)
                   /\ <<files[i].hash, files'[i].path>> \in dups
                   /\ files'[i].path < files[i].path
                   /\ \A d \in dups : d[1] = files[i].hash => files'[i].path <= d[2]
         /\ \A d : d \in dups' <=>
              \/ d \in dups /\ ~\E i \in ToPromote : d = <<files[i].hash, files'[i].path>>
              \/ \E i \in ToPromote : d = <<files[i].hash, files[i].path>>
<1>0. FileIds = 1..Len(files) /\ Len(files) \in Nat /\ \A i \in FileIds : files[i] \in FileRows
  BY DEF RowsType, FileIds
<1>1. ASSUME NEW i \in ToPromote
      PROVE  /\ i \in FileIds /\ Smallest(files[i].hash) \in Nat
             /\ <<files[i].hash, Smallest(files[i].hash)>> \in dups
             /\ Smallest(files[i].hash) < files[i].path
             /\ \A d \in dups : d[1] = files[i].hash => Smallest(files[i].hash) <= d[2]
  <2>1. i \in FileIds /\ DupPaths(files[i].hash) # {} /\ Smallest(files[i].hash) < files[i].path
    BY DEF ToPromote
  <2>2. PICK h : h = files[i].hash
    OBVIOUS
  <2>3. /\ Smallest(h) \in DupPaths(h) /\ Smallest(h) \in Nat
        /\ \A p \in DupPaths(h) : Smallest(h) <= p
    BY <2>1, <2>2, SmallestPath
  <2>4. <<h, Smallest(h)>> \in dups
    BY <2>3, DupPathsMember
  <2>5. ASSUME NEW d \in dups, d[1] = h PROVE Smallest(h) <= d[2]
    <3>1. d[2] \in DupPaths(h)
      BY <2>5 DEF DupPaths
    <3> QED
      BY <2>3, <3>1
  <2> QED
    BY <2>1, <2>2, <2>3, <2>4, <2>5
<1>2. DOMAIN files' = FileIds
  BY DEF Canonicalize
<1>3. ASSUME NEW i \in FileIds
      PROVE  /\ files'[i] \in FileRows /\ files'[i].hash = files[i].hash
             /\ i \notin ToPromote => files'[i] = files[i]
             /\ i \in ToPromote => files'[i].path = Smallest(files[i].hash)
  <2>1. CASE i \notin ToPromote
    BY <1>0, <2>1 DEF Canonicalize
  <2>2. CASE i \in ToPromote
    <3>1. PICK n \in Nat : n = Smallest(files[i].hash)
      BY <1>1, <2>2
    <3>2. files'[i] = [files[i] EXCEPT !.path = n]
      BY <2>2, <3>1 DEF Canonicalize
    <3>3. files[i] = [hash |-> files[i].hash, path |-> files[i].path] /\ files[i].hash \in Hash
      BY <1>0 DEF FileRows
    <3>4. files'[i] = [hash |-> files[i].hash, path |-> n]
      BY <3>2, <3>3
    <3> QED
      BY <2>2, <3>1, <3>3, <3>4 DEF FileRows
  <2> QED
    BY <2>1, <2>2
<1>4. files' \in Seq(FileRows)
  <2>1. files' = [i \in 1..Len(files) |-> files'[i]]
    BY <1>0 DEF Canonicalize
  <2>2. files' \in [1..Len(files) -> FileRows]
    BY <1>0, <1>3, <2>1
  <2> QED
    BY <1>0, <2>2
<1>5. \A d : d \in dups' <=>
        \/ d \in dups /\ ~\E i \in ToPromote : d = <<files[i].hash, files'[i].path>>
        \/ \E i \in ToPromote : d = <<files[i].hash, files[i].path>>
  <2>1. \A i \in ToPromote : i \in FileIds /\ files'[i].path = Smallest(files[i].hash)
    BY <1>1, <1>3
  <2> QED
    BY <2>1 DEF Canonicalize
<1>6. dups' \subseteq Hash \X Nat
  <2>1. \A i \in ToPromote : files[i].hash \in Hash /\ files[i].path \in Nat
    BY <1>0, <1>1 DEF FileRows
  <2> QED
    BY <1>5, <2>1 DEF RowsType
<1> QED
  BY <1>1, <1>2, <1>3, <1>4, <1>5, <1>6 DEF RowsType, FileIds

(* Consolidation moves paths between the tables and loses none.            *)
LEMMA ConsolidateKeeps ==
  ASSUME RowsType, Canonicalize, NEW q
  PROVE  Recorded(q)' <=> Recorded(q)
<1>1. ASSUME NEW i \in FileIds, files[i].path = q PROVE Recorded(q)'
  <2>1. CASE i \in ToPromote
    <3>1. <<files[i].hash, q>> \in dups'
      BY <1>1, <2>1, CanonicalRows
    <3> QED
      BY <3>1 DEF Recorded
  <2>2. CASE i \notin ToPromote
    <3>1. i \in FileIds' /\ files'[i].path = q
      BY <1>1, <2>2, CanonicalRows
    <3> QED
      BY <3>1 DEF Recorded
  <2> QED
    BY <2>1, <2>2
<1>2. ASSUME NEW d \in dups, d[2] = q PROVE Recorded(q)'
  <2>1. CASE d \in dups'
    BY <1>2, <2>1 DEF Recorded
  <2>2. CASE d \notin dups'
    <3>1. PICK i \in ToPromote : d = <<files[i].hash, files'[i].path>>
      BY <2>2, CanonicalRows
    <3>2. i \in FileIds' /\ files'[i].path = q
      BY <1>2, <3>1, CanonicalRows DEF ToPromote
    <3> QED
      BY <3>2 DEF Recorded
  <2> QED
    BY <2>1, <2>2
<1>3. ASSUME NEW i \in FileIds', files'[i].path = q PROVE Recorded(q)
  <2>0. i \in FileIds
    BY CanonicalRows
  <2>1. CASE i \in ToPromote
    <3>1. <<files[i].hash, q>> \in dups
      BY <1>3, <2>0, <2>1, CanonicalRows
    <3> QED
      BY <3>1 DEF Recorded
  <2>2. CASE i \notin ToPromote
    BY <1>3, <2>0, <2>2, CanonicalRows DEF Recorded
  <2> QED
    BY <2>1, <2>2
<1>4. ASSUME NEW d \in dups', d[2] = q PROVE Recorded(q)
  <2>1. CASE d \in dups
    BY <1>4, <2>1 DEF Recorded
  <2>2. CASE d \notin dups
    <3>1. PICK i \in ToPromote : d = <<files[i].hash, files[i].path>>
      BY <2>2, CanonicalRows
    <3> QED
      BY <1>4, <3>1 DEF Recorded, ToPromote
  <2> QED
    BY <2>1, <2>2
<1> QED
  BY <1>1, <1>2, <1>3, <1>4 DEF Recorded

-----------------------------------------------------------------------------
(* A worker leaves its unit unrecorded.                                    *)
GivesUp(w) == PassOver(w) \/ NotABook(w) \/ Fail(w)

(* The steps that touch no row.                                            *)
Elsewhere ==
  \/ BeginResume \/ (\E w \in Workers : Take(w) \/ Lookup(w) \/ GivesUp(w))
  \/ EndScan \/ ConsolidateFails \/ Interrupt \/ ChangeFile \/ Done \/ UNCHANGED vars

(* The steps that touch rows, and the others.                              *)
LEMMA StepCases ==
  ASSUME [Next]_vars
  PROVE  BeginFresh \/ (\E w \in Workers : Record(w)) \/ Consolidate \/ Elsewhere
BY DEF Next, Work, GivesUp, Elsewhere

(* The others leave the tables alone.                                      *)
LEMMA ElsewhereKeeps == Elsewhere => UNCHANGED tables
BY DEF Elsewhere, BeginResume, Take, Lookup, GivesUp, PassOver, NotABook, Skip, Fail, EndScan,
   ConsolidateFails, Interrupt, ChangeFile, Done, vars, tables

(* Every step keeps the types of the run and its workers.                  *)
LEMMA RunTypeStep == RunType /\ [Next]_vars => RunType'
<1> SUFFICES ASSUME RunType, [Next]_vars PROVE RunType'
  OBVIOUS
<1> USE DEF RunType, runVars, workVars
<1>1. CASE BeginFresh \/ BeginResume
  BY <1>1 DEF BeginFresh, BeginResume, Begin
<1>2. ASSUME NEW w \in Workers, Work(w) PROVE RunType'
  BY <1>2 DEF Work, Take, Lookup, GivesUp, PassOver, NotABook, Skip, Fail, Record, Goto
<1>3. CASE EndScan \/ Consolidate \/ ConsolidateFails
  BY <1>3 DEF EndScan, Consolidate, ConsolidateFails
<1>4. CASE Interrupt
  BY <1>4 DEF Interrupt
<1>5. CASE ChangeFile
  BY <1>5 DEF ChangeFile
<1>6. CASE Done \/ UNCHANGED vars
  BY <1>6 DEF Done, vars
<1> QED
  BY <1>1, <1>2, <1>3, <1>4, <1>5, <1>6 DEF Next

(* Every step keeps a unit in one hand: it is handed out once, and the     *)
(* workers are idle when a scan ends or breaks off.                        *)
LEMMA HandsStep == RunType /\ HandsOnce /\ [Next]_vars => HandsOnce'
<1> SUFFICES ASSUME RunType, HandsOnce, [Next]_vars PROVE HandsOnce'
  OBVIOUS
<1> USE DEF RunType, HandsOnce, runVars, workVars
<1>1. CASE BeginFresh \/ BeginResume
  BY <1>1 DEF BeginFresh, BeginResume, Begin
<1>2. ASSUME NEW w \in Workers, Take(w) PROVE HandsOnce'
  <2>1. PICK u \in todo : todo' = todo \ {u} /\ unit' = [unit EXCEPT ![w] = u]
    BY <1>2 DEF Take
  <2>2. phase = "scan" /\ phase' = phase /\ pc' = [pc EXCEPT ![w] = "lookup"] /\ pc[w] = "idle"
    BY <1>2 DEF Take, Goto
  <2>3. u \in Unit /\ u \notin todo' /\ unit'[w] = u /\ todo' \subseteq todo
        /\ \A v \in Workers \ {w} : unit'[v] = unit[v] /\ pc'[v] = pc[v]
    BY <2>1, <2>2
  <2> QED
    BY <2>1, <2>2, <2>3
<1>3. ASSUME NEW w \in Workers, Lookup(w) \/ GivesUp(w) \/ Record(w) PROVE HandsOnce'
  <2>1. UNCHANGED <<phase, todo, unit>> /\ pc[w] # "idle"
        /\ \A v \in Workers \ {w} : pc'[v] = pc[v]
    BY <1>3 DEF Lookup, GivesUp, PassOver, NotABook, Skip, Fail, Record, Goto
  <2> QED
    BY <2>1
<1>4. CASE EndScan \/ Consolidate \/ ConsolidateFails
  BY <1>4 DEF EndScan, Consolidate, ConsolidateFails
<1>5. CASE Interrupt
  BY <1>5 DEF Interrupt
<1>6. CASE ChangeFile \/ Done \/ UNCHANGED vars
  BY <1>6 DEF ChangeFile, Done, vars
<1> QED
  BY <1>1, <1>2, <1>3, <1>4, <1>5, <1>6 DEF Next, Work, GivesUp

(* A content never gets a second row.                                      *)
LEMMA RowsStep == RowsInv /\ [Next]_vars => RowsType' /\ HashOnce'
<1> SUFFICES ASSUME RowsInv, [Next]_vars PROVE RowsType' /\ HashOnce'
  OBVIOUS
<1>0. RowsType /\ RunType /\ HandsOnce /\ HashOnce
  BY DEF RowsInv
<1>1. CASE BeginFresh
  <2>1. files' = <<>> /\ dups' = {} /\ <<>> \in Seq(FileRows)
    BY <1>1 DEF BeginFresh
  <2> QED
    BY <2>1 DEF RowsType, HashOnce, FileIds
<1>2. ASSUME NEW w \in Workers, Record(w) PROVE RowsType' /\ HashOnce'
  <2>0. PICK h, p : h = disk[unit[w]] /\ p = PathOf[unit[w]]
    OBVIOUS
  <2>1. h \in Hash /\ p \in Nat
    BY <1>0, <1>2, <2>0, RecordAdds
  <2>2. CASE /\ dups' = dups \cup {<<h, p>>} /\ files' = files
             /\ \E i \in FileIds : files[i].hash = h
    BY <1>0, <2>1, <2>2 DEF RowsType, HashOnce, FileIds
  <2>3. CASE /\ dups' = dups /\ files' = Append(files, [hash |-> h, path |-> p])
             /\ \A i \in FileIds : files[i].hash # h /\ files[i].path # p
    <3>1. [hash |-> h, path |-> p] \in FileRows /\ [hash |-> h, path |-> p].hash = h
      BY <2>1 DEF FileRows
    <3>2. /\ files' \in Seq(FileRows) /\ DOMAIN files' = DOMAIN files \cup {Len(files) + 1}
          /\ files'[Len(files) + 1].hash = h /\ \A i \in DOMAIN files : files'[i] = files[i]
      BY <1>0, <2>3, <3>1, AppendFile DEF RowsType
    <3> QED
      BY <1>0, <2>3, <3>2 DEF RowsType, HashOnce, FileIds
  <2> QED
    BY <1>0, <1>2, <2>0, <2>2, <2>3, RecordAdds
<1>3. CASE Consolidate
  <2>1. Canonicalize
    BY <1>3 DEF Consolidate
  <2>2. RowsType' /\ FileIds' = FileIds /\ \A i \in FileIds : files'[i].hash = files[i].hash
    BY <1>0, <2>1, CanonicalRows
  <2>3. \A d \in dups' : d \in dups \/ \E i \in FileIds : d[1] = files[i].hash
    <3>1. \A i : i \in ToPromote => i \in FileIds
      BY DEF ToPromote
    <3> QED
      BY <1>0, <2>1, <3>1, CanonicalRows
  <2> QED
    BY <1>0, <2>2, <2>3 DEF HashOnce
<1>4. CASE Elsewhere
  BY <1>0, <1>4, ElsewhereKeeps DEF tables, RowsType, HashOnce, FileIds
<1> QED
  BY <1>1, <1>2, <1>3, <1>4, StepCases

(* The invariant of the rows, whatever paths the units have.               *)
LEMMA RowsInvStep == RowsInv /\ [Next]_vars => RowsInv'
BY RowsStep, RunTypeStep, HandsStep DEF RowsInv

(* The database is empty before the first run.                             *)
LEMMA RowsInit == Init => RowsInv
<1> SUFFICES ASSUME Init PROVE RowsInv
  OBVIOUS
<1>1. <<>> \in Seq(FileRows)
  OBVIOUS
<1>2. RowsType /\ HashOnce
  BY <1>1 DEF Init, RowsType, HashOnce, FileIds
<1>3. RunType /\ HandsOnce
  BY CatalogAssumption DEF Init, RunType, HandsOnce
<1> QED
  BY <1>2, <1>3 DEF RowsInv

-----------------------------------------------------------------------------
(* No file of the tree is lost.                                            *)
LossInv == RowsInv /\ NothingLostYet /\ NothingLost

(* Every step keeps each unit with the walk, a worker or the tables, or    *)
(* counted as failed or passed over.                                       *)
LEMMA LossStep ==
  ASSUME ~NetTimeouts
  PROVE  LossInv /\ [Next]_vars => NothingLostYet' /\ NothingLost'
<1> SUFFICES ASSUME LossInv, [Next]_vars PROVE NothingLostYet' /\ NothingLost'
  OBVIOUS
<1>0. RowsType /\ RunType /\ HandsOnce /\ NothingLostYet /\ NothingLost
  BY DEF LossInv, RowsInv
<1> USE DEF NothingLostYet, NothingLost, runVars, workVars
<1>1. CASE BeginFresh \/ BeginResume
  BY <1>1 DEF BeginFresh, BeginResume, Begin
<1>2. ASSUME NEW w \in Workers, Record(w) PROVE NothingLostYet' /\ NothingLost'
  <2>1. phase = "scan" /\ UNCHANGED <<phase, todo, unit, failed, skipped>> /\ pc' = [pc EXCEPT ![w] = "idle"]
    BY <1>0, <1>2, RecordAdds
  <2>2. \A u : InHand(u) => InHand(u)' \/ u = unit[w]
    BY <1>0, <2>1 DEF InHand, RunType
  <2>3. \A u \in Unit : Recorded(PathOf[u])' <=> Recorded(PathOf[u]) \/ PathOf[u] = PathOf[unit[w]]
    BY <1>0, <1>2, RecordRecords
  <2> QED
    BY <1>0, <2>1, <2>2, <2>3
<1>3. CASE Consolidate
  <2>1. phase = "consolidate" /\ phase' = "idle" /\ Canonicalize /\ UNCHANGED <<failed, skipped>>
    BY <1>3 DEF Consolidate
  <2>2. \A u \in Unit : Recorded(PathOf[u])' <=> Recorded(PathOf[u])
    BY <1>0, <2>1, ConsolidateKeeps
  <2> QED
    BY <1>0, <2>1, <2>2
<1>4. CASE Elsewhere
  <2>0. \A u \in Unit : Recorded(PathOf[u])' <=> Recorded(PathOf[u])
    BY <1>4, ElsewhereKeeps DEF tables, Recorded, FileIds
  <2>1. ASSUME NEW w \in Workers, Take(w) PROVE NothingLostYet' /\ NothingLost'
    <3>1. PICK v \in todo : todo' = todo \ {v} /\ unit' = [unit EXCEPT ![w] = v]
      BY <2>1 DEF Take
    <3>2. phase = "scan" /\ UNCHANGED <<phase, failed, skipped>> /\ pc' = [pc EXCEPT ![w] = "lookup"]
          /\ pc[w] = "idle"
      BY <2>1 DEF Take, Goto
    <3>3. InHand(v)' /\ \A u : InHand(u) => InHand(u)'
      BY <1>0, <3>1, <3>2 DEF InHand, RunType
    <3> QED
      BY <1>0, <2>0, <3>1, <3>2, <3>3
  <2>2. ASSUME NEW w \in Workers, Lookup(w) PROVE NothingLostYet' /\ NothingLost'
    <3>1. UNCHANGED <<phase, failed, skipped, todo, unit>> /\ pc[w] = "lookup"
      BY <2>2 DEF Lookup
    <3>2. phase = "scan"
      BY <1>0, <3>1 DEF HandsOnce
    <3>3. \/ pc' = [pc EXCEPT ![w] = "record"]
          \/ pc' = [pc EXCEPT ![w] = "idle"] /\ Recorded(PathOf[unit[w]])
      BY <2>2 DEF Lookup, Goto
    <3>4. \A u : InHand(u) => InHand(u)' \/ (u = unit[w] /\ Recorded(PathOf[unit[w]]))
      BY <1>0, <3>1, <3>3 DEF InHand, RunType
    <3> QED
      BY <1>0, <2>0, <3>1, <3>2, <3>4
  <2>3. ASSUME NEW w \in Workers, GivesUp(w) PROVE NothingLostYet' /\ NothingLost'
    <3>1. UNCHANGED <<phase, todo, unit>> /\ pc[w] # "idle" /\ pc' = [pc EXCEPT ![w] = "idle"]
          /\ failed' \cup skipped' = failed \cup skipped \cup {unit[w]}
      BY <2>3 DEF GivesUp, PassOver, NotABook, Skip, Fail, Goto
    <3>2. phase = "scan"
      BY <1>0, <3>1 DEF HandsOnce
    <3>3. \A u : InHand(u) => InHand(u)' \/ u = unit[w]
      BY <1>0, <3>1 DEF InHand, RunType
    <3> QED
      BY <1>0, <2>0, <3>1, <3>2, <3>3
  <2>4. CASE EndScan
    <3>1. phase = "scan" /\ phase' = "consolidate" /\ todo = {} /\ UNCHANGED <<failed, skipped>>
          /\ \A w \in Workers : pc[w] = "idle"
      BY <2>4 DEF EndScan
    <3>2. \A u : ~InHand(u)
      BY <3>1 DEF InHand
    <3> QED
      BY <1>0, <2>0, <3>1, <3>2
  <2>5. CASE ConsolidateFails \/ Interrupt
    BY <2>5 DEF ConsolidateFails, Interrupt
  <2>6. CASE ChangeFile \/ Done \/ UNCHANGED vars
    <3>1. UNCHANGED <<phase, status, todo, pc, unit, failed, skipped>>
      BY <2>6 DEF ChangeFile, Done, vars
    <3> QED
      BY <1>0, <2>0, <3>1 DEF InHand
  <2> QED
    BY <1>1, <1>4, <2>1, <2>2, <2>3, <2>4, <2>5, <2>6 DEF Elsewhere
<1> QED
  BY <1>1, <1>2, <1>3, <1>4, StepCases

(* A run that ends well has recorded every file, but those it counts as    *)
(* failed or has passed over, unless a file system times out.              *)
THEOREM NothingIsLost ==
  ASSUME ~NetTimeouts
  PROVE  Spec => []NothingLost
<1>1. Init => LossInv
  BY RowsInit DEF Init, LossInv, NothingLostYet, NothingLost
<1>2. LossInv /\ [Next]_vars => LossInv'
  BY LossStep, RowsInvStep DEF LossInv
<1>3. LossInv => NothingLost
  BY DEF LossInv
<1> QED
  BY <1>1, <1>2, <1>3, PTL DEF Spec

-----------------------------------------------------------------------------
(* With distinct display paths a path is recorded once.                    *)
LEMMA UnrecordedStep ==
  ASSUME Distinct
  PROVE  RowsInv /\ Unrecorded /\ [Next]_vars => Unrecorded'
<1> SUFFICES ASSUME RowsInv, Unrecorded, [Next]_vars PROVE Unrecorded'
  OBVIOUS
<1>0. RowsType /\ RunType /\ HandsOnce
  BY DEF RowsInv
<1> USE DEF Unrecorded, runVars, workVars
<1>1. CASE BeginFresh
  <2>1. files' = <<>> /\ dups' = {} /\ \A w \in Workers : pc'[w] = "idle"
    BY <1>1 DEF BeginFresh, Begin
  <2>2. \A q : ~Recorded(q)'
    BY <2>1 DEF Recorded, FileIds
  <2> QED
    BY <2>2
<1>2. ASSUME NEW w \in Workers, Record(w) PROVE Unrecorded'
  <2>1. phase = "scan" /\ UNCHANGED <<phase, mode, todo, unit>> /\ pc' = [pc EXCEPT ![w] = "idle"]
        /\ unit[w] \in Unit /\ pc[w] = "record"
    BY <1>0, <1>2, RecordAdds
  <2>2. \A u \in Unit : Recorded(PathOf[u])' <=> Recorded(PathOf[u]) \/ PathOf[u] = PathOf[unit[w]]
    BY <1>0, <1>2, RecordRecords
  <2>3. \A u \in Unit : Recorded(PathOf[u])' => Recorded(PathOf[u]) \/ u = unit[w]
    BY <2>1, <2>2 DEF Distinct
  <2>4. pc'[w] = "idle" /\ \A v \in Workers \ {w} : pc'[v] = pc[v]
    BY <1>0, <2>1 DEF RunType
  <2>5. \A u : InHand(u)' => InHand(u) /\ u # unit[w]
    BY <1>0, <2>1, <2>4 DEF InHand, HandsOnce
  <2>6. unit[w] \notin todo
    BY <1>0, <2>1 DEF HandsOnce
  <2>7. \A v \in Workers : pc'[v] = "record" => pc[v] = "record" /\ unit[v] # unit[w] /\ unit[v] \in Unit
    BY <1>0, <2>1, <2>4 DEF HandsOnce
  <2> QED
    BY <2>1, <2>3, <2>5, <2>6, <2>7
<1>3. CASE Consolidate
  <2>1. phase' = "idle" /\ \A w \in Workers : pc'[w] = "idle"
    BY <1>0, <1>3 DEF Consolidate, HandsOnce
  <2> QED
    BY <2>1
<1>4. CASE Elsewhere
  <2>0. (\A u \in Unit : Recorded(PathOf[u])' <=> Recorded(PathOf[u]))
        /\ \A w \in Workers : Recorded(PathOf[unit[w]])' => unit'[w] # unit[w] \/ Recorded(PathOf[unit[w]])
    BY <1>4, ElsewhereKeeps DEF tables, Recorded, FileIds
  <2>1. ASSUME NEW w \in Workers, Take(w) PROVE Unrecorded'
    <3>1. PICK v \in todo : todo' = todo \ {v} /\ unit' = [unit EXCEPT ![w] = v]
      BY <2>1 DEF Take
    <3>2. UNCHANGED <<phase, mode>> /\ pc' = [pc EXCEPT ![w] = "lookup"] /\ pc[w] = "idle"
      BY <2>1 DEF Take, Goto
    <3>3. \A u : u \in todo' \/ InHand(u)' => u \in todo \/ InHand(u)
      BY <1>0, <3>1, <3>2 DEF InHand, RunType
    <3>4. \A x \in Workers : pc'[x] = "record" => pc[x] = "record" /\ unit'[x] = unit[x] /\ unit[x] \in Unit
      BY <1>0, <3>1, <3>2 DEF RunType, HandsOnce
    <3> QED
      BY <2>0, <3>2, <3>3, <3>4
  <2>2. ASSUME NEW w \in Workers, Lookup(w) PROVE Unrecorded'
    <3>1. UNCHANGED <<phase, mode, todo, unit>> /\ pc[w] = "lookup" /\ unit[w] \in Unit /\ InHand(unit[w])
      BY <1>0, <2>2 DEF Lookup, HandsOnce, InHand
    <3>2. phase = "scan"
      BY <1>0, <3>1 DEF HandsOnce
    <3>3. \/ pc' = [pc EXCEPT ![w] = "record"] /\ ~Recorded(PathOf[unit[w]])
          \/ pc' = [pc EXCEPT ![w] = "idle"]
      BY <1>0, <2>2, <3>1, <3>2 DEF Lookup, Goto, RunType
    <3>4. \A u : InHand(u)' => InHand(u)
      BY <1>0, <3>1, <3>3 DEF InHand, RunType
    <3>5. \A x \in Workers : pc'[x] = "record" => ~Recorded(PathOf[unit[x]]) /\ unit[x] \in Unit
      BY <1>0, <3>1, <3>3 DEF RunType, HandsOnce
    <3> QED
      BY <2>0, <3>1, <3>4, <3>5
  <2>3. ASSUME NEW w \in Workers, GivesUp(w) PROVE Unrecorded'
    <3>1. UNCHANGED <<phase, mode, todo, unit>> /\ pc' = [pc EXCEPT ![w] = "idle"] /\ pc[w] # "idle"
      BY <2>3 DEF GivesUp, PassOver, NotABook, Skip, Fail, Goto
    <3>2. (\A u : InHand(u)' => InHand(u))
          /\ \A x \in Workers : pc'[x] = "record" => pc[x] = "record" /\ unit[x] \in Unit
      BY <1>0, <3>1 DEF InHand, RunType, HandsOnce
    <3> QED
      BY <2>0, <3>1, <3>2
  <2>4. CASE BeginResume \/ EndScan \/ ConsolidateFails \/ Interrupt
    <3>1. ~(phase' = "scan" /\ mode' = "fresh") /\ \A w \in Workers : pc'[w] = "idle"
      BY <1>0, <2>4 DEF BeginResume, Begin, EndScan, ConsolidateFails, Interrupt, HandsOnce, RunType
    <3> QED
      BY <3>1
  <2>5. CASE ChangeFile \/ Done \/ UNCHANGED vars
    <3>1. UNCHANGED <<phase, mode, todo, pc, unit>>
      BY <2>5 DEF ChangeFile, Done, vars
    <3>2. \A x \in Workers : pc[x] = "record" => unit[x] \in Unit
      BY <1>0 DEF HandsOnce
    <3> QED
      BY <2>0, <3>1, <3>2 DEF InHand
  <2> QED
    BY <1>4, <2>1, <2>2, <2>3, <2>4, <2>5 DEF Elsewhere
<1> QED
  BY <1>1, <1>2, <1>3, <1>4, StepCases

(* Promotion exchanges the paths of a row and its duplicate, so paths stay *)
(* distinct.                                                               *)
LEMMA PromotionKeepsOnce ==
  ASSUME RowsType, RecordedOnce, Canonicalize
  PROVE  RecordedOnce'
<1> USE DEF RecordedOnce
<1>0. RowsType' /\ FileIds' = FileIds /\ \A i : i \in ToPromote => i \in FileIds
  BY CanonicalRows DEF ToPromote
<1>1. ASSUME NEW i \in FileIds, NEW j \in FileIds,
             files'[i].hash = files'[j].hash \/ files'[i].path = files'[j].path
      PROVE  i = j
  <2>1. files'[i].hash = files[i].hash /\ files'[j].hash = files[j].hash
    BY CanonicalRows
  <2>2. CASE files'[i].hash = files'[j].hash
    BY <2>1, <2>2
  <2>3. CASE files'[i].path = files'[j].path
    <3>1. CASE i \in ToPromote /\ j \in ToPromote
      <4>1. /\ <<files[i].hash, files'[i].path>> \in dups /\ <<files[j].hash, files'[j].path>> \in dups
        BY <3>1, CanonicalRows
      <4>2. <<files[i].hash, files'[i].path>> = <<files[j].hash, files'[j].path>>
        BY <2>3, <4>1
      <4> QED
        BY <4>2
    <3>2. CASE i \in ToPromote /\ j \notin ToPromote
      <4>1. <<files[i].hash, files'[i].path>> \in dups /\ files'[j].path = files[j].path
        BY <3>2, CanonicalRows
      <4> QED
        BY <2>3, <4>1
    <3>3. CASE i \notin ToPromote /\ j \in ToPromote
      <4>1. <<files[j].hash, files'[j].path>> \in dups /\ files'[i].path = files[i].path
        BY <3>3, CanonicalRows
      <4> QED
        BY <2>3, <4>1
    <3>4. CASE i \notin ToPromote /\ j \notin ToPromote
      <4>1. files'[i].path = files[i].path /\ files'[j].path = files[j].path
        BY <3>4, CanonicalRows
      <4> QED
        BY <2>3, <4>1
    <3> QED
      BY <3>1, <3>2, <3>3, <3>4
  <2> QED
    BY <1>1, <2>2, <2>3
<1>2. ASSUME NEW d \in dups' PROVE \E i \in FileIds : files'[i].hash = d[1]
  <2>1. d \in dups \/ \E i \in ToPromote : d[1] = files[i].hash
    BY CanonicalRows
  <2>2. PICK i \in FileIds : files[i].hash = d[1]
    BY <1>0, <2>1
  <2> QED
    BY <2>2, CanonicalRows
<1>3. \A d \in dups' : \/ d \in dups
                       \/ \E i \in ToPromote : d = <<files[i].hash, files[i].path>>
  BY CanonicalRows
<1>4. ASSUME NEW d \in dups', NEW e \in dups', d[2] = e[2] PROVE d = e
  <2>1. CASE d \in dups /\ e \in dups
    BY <1>4, <2>1
  <2>2. ASSUME NEW i \in ToPromote, NEW j \in ToPromote,
               d = <<files[i].hash, files[i].path>>, e = <<files[j].hash, files[j].path>>
        PROVE  d = e
    <3>1. files[i].path = files[j].path
      BY <1>4, <2>2
    <3> QED
      BY <1>0, <2>2, <3>1
  <2>3. ASSUME NEW i \in ToPromote, d = <<files[i].hash, files[i].path>>, e \in dups PROVE FALSE
    BY <1>0, <1>4, <2>3
  <2>4. ASSUME NEW i \in ToPromote, e = <<files[i].hash, files[i].path>>, d \in dups PROVE FALSE
    BY <1>0, <1>4, <2>4
  <2> QED
    BY <1>3, <2>1, <2>2, <2>3, <2>4
<1>5. ASSUME NEW i \in FileIds, NEW d \in dups', files'[i].path = d[2] PROVE FALSE
  <2>1. ASSUME NEW j \in ToPromote, d = <<files[j].hash, files[j].path>> PROVE FALSE
    <3>1. d[2] = files[j].path /\ j \in FileIds
      BY <1>0, <2>1
    <3>2. CASE i \in ToPromote
      <4>1. <<files[i].hash, files'[i].path>> \in dups
        BY <3>2, CanonicalRows
      <4> QED
        BY <1>5, <3>1, <4>1
    <3>3. CASE i \notin ToPromote
      <4>1. files'[i].path = files[i].path
        BY <3>3, CanonicalRows
      <4>2. i = j
        BY <1>5, <3>1, <4>1
      <4> QED
        BY <3>3, <4>2
    <3> QED
      BY <3>2, <3>3
  <2>2. CASE /\ d \in dups
             /\ ~\E j \in ToPromote : d = <<files[j].hash, files'[j].path>>
    <3>1. CASE i \in ToPromote
      <4>1. <<files[i].hash, files'[i].path>> \in dups
        BY <3>1, CanonicalRows
      <4>2. d = <<files[i].hash, files'[i].path>>
        BY <1>5, <2>2, <4>1
      <4> QED
        BY <2>2, <3>1, <4>2
    <3>2. CASE i \notin ToPromote
      <4>1. files'[i].path = files[i].path
        BY <3>2, CanonicalRows
      <4> QED
        BY <1>5, <2>2, <4>1
    <3> QED
      BY <3>1, <3>2
  <2> QED
    BY <2>1, <2>2, CanonicalRows
<1> QED
  BY <1>0, <1>1, <1>2, <1>4, <1>5

(* Every step keeps paths recorded once: a row is added only for a path no *)
(* table has.                                                              *)
LEMMA OnceStep ==
  RowsInv /\ Unrecorded /\ RecordedOnce /\ [Next]_vars => RecordedOnce'
<1> SUFFICES ASSUME RowsInv, Unrecorded, RecordedOnce, [Next]_vars PROVE RecordedOnce'
  OBVIOUS
<1>0. RowsType /\ RunType /\ HandsOnce
  BY DEF RowsInv
<1>1. CASE BeginFresh
  BY <1>1 DEF BeginFresh, RecordedOnce, FileIds
<1>2. ASSUME NEW w \in Workers, Record(w) PROVE RecordedOnce'
  <2>0. PICK h, p : h = disk[unit[w]] /\ p = PathOf[unit[w]]
    OBVIOUS
  <2>1. h \in Hash /\ p \in Nat /\ ~Recorded(p)
    BY <1>0, <1>2, <2>0, RecordAdds DEF Unrecorded
  <2>2. (\A i \in FileIds : files[i].path # p) /\ \A d \in dups : d[2] # p
    BY <2>1 DEF Recorded
  <2>3. CASE /\ dups' = dups \cup {<<h, p>>} /\ files' = files
             /\ \E i \in FileIds : files[i].hash = h
    BY <2>2, <2>3 DEF RecordedOnce, FileIds
  <2>4. CASE /\ dups' = dups /\ files' = Append(files, [hash |-> h, path |-> p])
             /\ \A i \in FileIds : files[i].hash # h /\ files[i].path # p
    <3>1. [hash |-> h, path |-> p] \in FileRows /\ [hash |-> h, path |-> p].hash = h
          /\ [hash |-> h, path |-> p].path = p
      BY <2>1 DEF FileRows
    <3>2. /\ DOMAIN files' = DOMAIN files \cup {Len(files) + 1}
          /\ files'[Len(files) + 1].hash = h /\ files'[Len(files) + 1].path = p
          /\ \A i \in DOMAIN files : files'[i] = files[i]
      BY <1>0, <2>4, <3>1, AppendFile DEF RowsType
    <3> QED
      BY <2>2, <2>4, <3>2 DEF RecordedOnce, FileIds
  <2> QED
    BY <1>0, <1>2, <2>0, <2>3, <2>4, RecordAdds
<1>3. CASE Consolidate
  BY <1>0, <1>3, PromotionKeepsOnce DEF Consolidate
<1>4. CASE Elsewhere
  BY <1>4, ElsewhereKeeps DEF tables, RecordedOnce, FileIds
<1> QED
  BY <1>1, <1>2, <1>3, <1>4, StepCases

(* The invariant of a library with distinct display paths.                 *)
OnceInv == RowsInv /\ Unrecorded /\ RecordedOnce

(* The strengthened invariant of a library with distinct display paths.    *)
THEOREM OnceInvAlways ==
  ASSUME Distinct
  PROVE  Spec => []OnceInv
<1>1. Init => OnceInv
  <2> SUFFICES ASSUME Init PROVE OnceInv
    OBVIOUS
  <2>1. Unrecorded
    BY CatalogAssumption DEF Init, Unrecorded
  <2>2. RecordedOnce
    BY DEF Init, RecordedOnce, FileIds
  <2> QED
    BY <2>1, <2>2, RowsInit DEF OnceInv
<1>2. OnceInv /\ [Next]_vars => OnceInv'
  BY RowsInvStep, UnrecordedStep, OnceStep DEF OnceInv
<1> QED
  BY <1>1, <1>2, PTL DEF Spec

(* One row per content and one record per path, through every promotion.   *)
THEOREM PathsRecordedOnce ==
  ASSUME Distinct
  PROVE  Spec => []RecordedOnce
<1>1. OnceInv => RecordedOnce
  BY DEF OnceInv
<1> QED
  BY <1>1, OnceInvAlways, PTL

(* canonicalizeBookFiles can always promote: a collision of display paths  *)
(* is the only way to make it fail.                                        *)
THEOREM PromotionAlwaysPossible ==
  ASSUME Distinct
  PROVE  Spec => []PromotionPossible
<1>1. OnceInv => PromotionPossible
  <2> SUFFICES ASSUME OnceInv, NEW i \in ToPromote, NEW j \in FileIds \ {i},
                      PathBefore(j, i) = Smallest(files[i].hash)
               PROVE  FALSE
    BY DEF PromotionPossible, PathConflict
  <2>0. RowsType /\ RecordedOnce
    BY DEF OnceInv, RowsInv
  <2>1. \A k \in ToPromote : k \in FileIds /\ <<files[k].hash, Smallest(files[k].hash)>> \in dups
    <3> SUFFICES ASSUME NEW k \in ToPromote
                 PROVE  k \in FileIds /\ <<files[k].hash, Smallest(files[k].hash)>> \in dups
      OBVIOUS
    <3>1. k \in FileIds /\ DupPaths(files[k].hash) # {}
      BY DEF ToPromote
    <3>2. PICK h : h = files[k].hash
      OBVIOUS
    <3>3. Smallest(h) \in DupPaths(h)
      BY <2>0, <3>1, <3>2, SmallestPath
    <3> QED
      BY <2>0, <3>1, <3>2, <3>3, DupPathsMember
  <2>2. CASE j \in ToPromote /\ PathBefore(j, i) = Smallest(files[j].hash)
    <3>1. PICK g, h, p, q : /\ g = files[i].hash /\ p = Smallest(files[i].hash)
                            /\ h = files[j].hash /\ q = Smallest(files[j].hash)
      OBVIOUS
    <3>2. <<g, p>> \in dups /\ <<h, q>> \in dups /\ p = q
      BY <2>1, <2>2, <3>1
    <3>3. <<g, p>> = <<h, q>>
      BY <2>0, <3>2 DEF RecordedOnce
    <3>4. i \in FileIds /\ j \in FileIds /\ files[i].hash = files[j].hash
      BY <2>1, <3>1, <3>3
    <3> QED
      BY <2>0, <3>4 DEF RecordedOnce
  <2>3. CASE PathBefore(j, i) = files[j].path
    BY <2>0, <2>1, <2>3 DEF RecordedOnce
  <2> QED
    BY <2>2, <2>3 DEF PathBefore
<1> QED
  BY <1>1, OnceInvAlways, PTL

-----------------------------------------------------------------------------
(* A consolidation leaves every content its smallest path: a promotion     *)
(* gives the smallest, and the path it replaces, now a duplicate's, is     *)
(* larger.                                                                 *)
LEMMA PromotionFindsSmallest ==
  ASSUME RowsType, HashOnce, Canonicalize,
         NEW i \in FileIds', NEW d \in dups', d[1] = files'[i].hash
  PROVE  files'[i].path <= d[2]
<1>0. /\ i \in FileIds /\ files'[i].hash = files[i].hash /\ files'[i].path \in Nat
      /\ files[i].path \in Nat
  <2>1. RowsType /\ RowsType' /\ i \in FileIds /\ files'[i].hash = files[i].hash
    BY CanonicalRows
  <2>2. files[i] \in FileRows /\ files'[i] \in FileRows
    BY <2>1 DEF RowsType, FileIds
  <2> QED
    BY <2>1, <2>2 DEF FileRows
<1>1. CASE d \in dups
  <2>1. CASE i \in ToPromote
    BY <1>0, <1>1, <2>1, CanonicalRows
  <2>2. CASE i \notin ToPromote
    <3>1. PICK h : h = files[i].hash
      OBVIOUS
    <3>2. d[2] \in DupPaths(h)
      BY <1>0, <1>1, <3>1 DEF DupPaths
    <3>3. Smallest(h) \in Nat /\ Smallest(h) <= d[2]
      BY <3>2, SmallestPath
    <3>4. ~(Smallest(h) < files[i].path)
      BY <1>0, <2>2, <3>1, <3>2 DEF ToPromote
    <3>5. files'[i].path = files[i].path /\ d[2] \in Nat
      BY <1>0, <1>1, <2>2, CanonicalRows DEF RowsType
    <3> QED
      BY <1>0, <3>3, <3>4, <3>5
  <2> QED
    BY <2>1, <2>2
<1>2. ASSUME NEW j \in ToPromote, d = <<files[j].hash, files[j].path>>
      PROVE  files'[i].path <= d[2]
  <2>1. j \in FileIds /\ files[j].hash = files[i].hash
    BY <1>0, <1>2 DEF ToPromote
  <2>2. i = j
    BY <1>0, <2>1 DEF HashOnce
  <2>3. files'[i].path < files[i].path
    BY <1>0, <1>2, <2>2, CanonicalRows
  <2> QED
    BY <1>0, <1>2, <2>2, <2>3
<1> QED
  BY <1>1, <1>2, CanonicalRows

(* Whatever paths the units have, a run that ends well leaves every        *)
(* content the smallest of its paths; the tables do not change again       *)
(* before the next run.                                                    *)
THEOREM CanonicalPathsRight == Spec => []CanonicalIsSmallest
<1>1. Init => RowsInv /\ CanonicalIsSmallest
  BY RowsInit DEF Init, CanonicalIsSmallest
<1>2. RowsInv /\ CanonicalIsSmallest /\ [Next]_vars => RowsInv' /\ CanonicalIsSmallest'
  <2> SUFFICES ASSUME RowsInv, CanonicalIsSmallest, [Next]_vars PROVE CanonicalIsSmallest'
    BY RowsInvStep
  <2>0. RowsType /\ RunType /\ HandsOnce /\ HashOnce
    BY DEF RowsInv
  <2>1. CASE BeginFresh
    BY <2>1 DEF BeginFresh, Begin, CanonicalIsSmallest
  <2>2. ASSUME NEW w \in Workers, Record(w) PROVE CanonicalIsSmallest'
    BY <2>0, <2>2, RecordAdds DEF CanonicalIsSmallest
  <2>3. CASE Consolidate
    <3>1. Canonicalize
      BY <2>3 DEF Consolidate
    <3> QED
      BY <2>0, <3>1, PromotionFindsSmallest DEF CanonicalIsSmallest
  <2>4. CASE Elsewhere
    <3>1. UNCHANGED <<files, dups>>
      BY <2>4, ElsewhereKeeps DEF tables
    <3>2. phase' = "idle" /\ status' = "ok" => phase = "idle" /\ status = "ok"
      BY <2>4 DEF Elsewhere, BeginResume, Begin, Take, Lookup, GivesUp, PassOver, NotABook, Skip,
                  Fail, EndScan, ConsolidateFails, Interrupt, ChangeFile, Done, vars, runVars
    <3> QED
      BY <3>1, <3>2 DEF CanonicalIsSmallest, FileIds
  <2> QED
    BY <2>1, <2>2, <2>3, <2>4, StepCases
<1> QED
  BY <1>1, <1>2, PTL DEF Spec

-----------------------------------------------------------------------------
(* A book grows by files similar to one it has.                            *)
LEMMA BooksAreGroups == BooksInv => GroupsAreSimilar
<1> SUFFICES ASSUME BooksInv PROVE GroupsAreSimilar
  OBVIOUS
<1>1. \A b \in BookIds : \A i \in FilesOf(b) :
        \/ \A j \in FilesOf(b) : i <= j
        \/ \E j \in FilesOf(b) : j < i /\ Similarity[files[i].hash, files[j].hash] >= Threshold
  BY Zenon DEF BooksInv, Grown, Similar
<1> QED
  BY <1>1, Zenon DEF BooksInv, GroupsAreSimilar

(* A match is a file of an earlier row, similar to the content.            *)
LEMMA MatchIsSimilar ==
  ASSUME NEW h, NEW i \in Matches(h), \A e \in buckets : e[2] \in FileIds
  PROVE  i \in FileIds /\ Similar(h, files[i].hash)
<1>1. i \in Candidates(h) /\ Similarity[h, files[i].hash] >= Threshold
  BY Zenon DEF Matches
<1> QED
  BY <1>1, Zenon DEF Candidates, Similar

(* Appending a book adds the next id and keeps the others.                 *)
LEMMA AppendBook ==
  ASSUME NEW s, s \in Seq({s[b] : b \in DOMAIN s}), NEW r
  PROVE  /\ Append(s, r) \in Seq({Append(s, r)[b] : b \in DOMAIN Append(s, r)}) /\ Len(s) \in Nat
         /\ DOMAIN Append(s, r) = DOMAIN s \cup {Len(s) + 1} /\ Len(s) + 1 \notin DOMAIN s
<1> DEFINE T == {s[b] : b \in DOMAIN s} \cup {r}
<1>1. s \in Seq(T) /\ r \in T /\ Len(s) \in Nat /\ DOMAIN s = 1..Len(s)
  OBVIOUS
<1>2. Append(s, r) \in Seq(T) /\ DOMAIN Append(s, r) = 1..(Len(s) + 1)
  BY <1>1
<1>3. ASSUME NEW t, t \in Seq(T), Len(t) = Len(s) + 1, DOMAIN t = 1..(Len(s) + 1)
      PROVE  t \in Seq({t[b] : b \in DOMAIN t})
  <2>1. t = [b \in 1..(Len(s) + 1) |-> t[b]]
    BY <1>1, <1>3
  <2>2. t \in [1..(Len(s) + 1) -> {t[b] : b \in DOMAIN t}]
    BY <1>3, <2>1
  <2> QED
    BY <1>1, <2>2
<1>4. Len(Append(s, r)) = Len(s) + 1
  BY <1>1
<1> QED
  BY <1>1, <1>2, <1>3, <1>4

(* The tables when a file has a new row: it has a home, and the others     *)
(* keep theirs.                                                            *)
LEMMA FileFindsHome ==
  ASSUME RowsType, BooksInv, NEW h \in Hash, NEW p \in Nat, RecordFile(h, p)
  PROVE  BooksInv'
<1> DEFINE n == Len(files) + 1
<1>1. /\ FileIds' = FileIds \cup {n} /\ n \notin FileIds /\ n \in Nat /\ FileIds \subseteq Nat
      /\ files'[n].hash = h /\ \A i \in FileIds : files'[i] = files[i] /\ i < n
  <2>1. [hash |-> h, path |-> p] \in FileRows /\ [hash |-> h, path |-> p].hash = h
    BY DEF FileRows
  <2>2. files' = Append(files, [hash |-> h, path |-> p]) /\ DOMAIN files = 1..Len(files)
    BY DEF RecordFile, RowsType
  <2> QED
    BY <2>1, <2>2, AppendFile DEF RowsType, FileIds
<1>2. \A e \in buckets' : e[2] \in FileIds'
  <2>1. buckets' = buckets \cup {<<band, n>> : band \in Bands[h]}
    BY DEF RecordFile
  <2> QED
    BY <1>1, <2>1 DEF BooksInv
<1> HIDE DEF n
<1>3. ASSUME NEW b \in BookIds, NEW i \in FileIds, <<b, i>> \in bookFiles, Similar(h, files[i].hash),
             BookIds' = BookIds, books' \in Seq({books'[c] : c \in DOMAIN books'}),
             bookFiles' = bookFiles \cup {<<b, n>>}
      PROVE  BooksInv'
  <2>1. \A c, j : <<c, j>> \in bookFiles' <=> <<c, j>> \in bookFiles \/ (c = b /\ j = n)
    BY <1>3
  <2>2. \A j : <<b, j>> \in bookFiles => j \in FileIds
    BY DEF BooksInv
  <2>3. bookFiles' \subseteq BookIds' \X FileIds'
    BY <1>1, <1>3 DEF BooksInv
  <2>4. \A j \in FileIds' : \E a \in BookIds' : \A c \in BookIds' : <<c, j>> \in bookFiles' <=> c = a
    <3>1. ASSUME NEW j \in FileIds
          PROVE  \E a \in BookIds' : \A c \in BookIds' : <<c, j>> \in bookFiles' <=> c = a
      <4>1. PICK a \in BookIds : \A c \in BookIds : <<c, j>> \in bookFiles <=> c = a
        BY DEF BooksInv
      <4> QED
        BY <1>1, <1>3, <2>1, <4>1
    <3>2. \A c \in BookIds' : <<c, n>> \in bookFiles' <=> c = b
      <4>1. \A c : <<c, n>> \notin bookFiles
        BY <1>1 DEF BooksInv
      <4> QED
        BY <2>1, <4>1
    <3> QED
      BY <1>1, <1>3, <3>1, <3>2
  <2>5. \A c \in BookIds \ {b} : FilesOf(c)' = FilesOf(c)
    BY <1>1, <2>1 DEF FilesOf, BooksInv
  <2>6. FilesOf(b)' = FilesOf(b) \cup {n} /\ i \in FilesOf(b)
    BY <1>1, <1>3, <2>1 DEF FilesOf
  <2>7. ASSUME NEW c \in BookIds PROVE (FilesOf(c) # {} /\ Grown(c))'
    <3>1. FilesOf(c) # {} /\ Grown(c) /\ FilesOf(c) \subseteq FileIds
      BY DEF BooksInv, FilesOf
    <3>2. CASE c = b
      <4>0. FilesOf(c)' = FilesOf(c) \cup {n} /\ i \in FilesOf(c)
        BY <2>6, <3>2
      <4>1. ASSUME NEW j \in FilesOf(c)
            PROVE  \/ \A k \in FilesOf(c)' : j <= k
                   \/ \E k \in FilesOf(c)' : k < j /\ Similar(files'[j].hash, files'[k].hash)
        <5>1. j \in FileIds /\ files'[j] = files[j] /\ j <= n
          <6>1. j \in FileIds /\ j \in Nat
            BY <1>1, <3>1
          <6>2. j < n /\ n \in Nat
            BY <1>1, <6>1
          <6> QED
            BY <1>1, <6>1, <6>2
        <5>2. CASE \A k \in FilesOf(c) : j <= k
          BY <4>0, <5>1, <5>2
        <5>3. ASSUME NEW k \in FilesOf(c), k < j, Similar(files[j].hash, files[k].hash)
              PROVE  k \in FilesOf(c)' /\ Similar(files'[j].hash, files'[k].hash)
          BY <1>1, <3>1, <4>0, <5>1, <5>3
        <5> QED
          BY <3>1, <5>2, <5>3 DEF Grown
      <4>2. i < n /\ Similar(files'[n].hash, files'[i].hash)
        BY <1>1, <1>3
      <4>3. Grown(c)'
        BY <4>0, <4>1, <4>2 DEF Grown
      <4> QED
        BY <4>0, <4>3
    <3>3. CASE c # b
      BY <1>1, <2>5, <3>1, <3>3 DEF Grown
    <3> QED
      BY <3>2, <3>3
  <2> QED
    BY <1>2, <1>3, <2>3, <2>4, <2>7 DEF BooksInv, BookIds
<1>4. ASSUME CreateBook(h) PROVE BooksInv'
  <2>0. PICK m : m = Len(books) + 1
    OBVIOUS
  <2>1. BookIds' = BookIds \cup {m} /\ m \notin BookIds /\ books' \in Seq({books'[c] : c \in DOMAIN books'})
    <3>1. PICK r : books' = Append(books, r)
      BY <1>4 DEF CreateBook
    <3>2. books \in Seq({books[b] : b \in DOMAIN books})
      BY DEF BooksInv, BookIds
    <3>3. /\ Append(books, r) \in Seq({Append(books, r)[b] : b \in DOMAIN Append(books, r)})
          /\ DOMAIN Append(books, r) = DOMAIN books \cup {Len(books) + 1} /\ Len(books) + 1 \notin DOMAIN books
      BY <3>2, AppendBook
    <3> QED
      BY <2>0, <3>1, <3>3, Zenon DEF BookIds
  <2>2. bookFiles' = bookFiles \cup {<<m, n>>}
    BY <1>4, <2>0 DEF CreateBook, n
  <2>3. \A c, j : <<c, j>> \in bookFiles' <=> <<c, j>> \in bookFiles \/ (c = m /\ j = n)
    BY <2>2
  <2>4. bookFiles' \subseteq BookIds' \X FileIds'
    BY <1>1, <2>1, <2>2 DEF BooksInv
  <2>5. \A c, j : <<c, j>> \in bookFiles => c \in BookIds /\ j \in FileIds
    BY DEF BooksInv
  <2>6. \A j \in FileIds' : \E a \in BookIds' : \A c \in BookIds' : <<c, j>> \in bookFiles' <=> c = a
    <3>1. \A c \in BookIds' : <<c, n>> \in bookFiles' <=> c = m
      BY <1>1, <2>3, <2>5
    <3>2. ASSUME NEW j \in FileIds
          PROVE  \E a \in BookIds' : \A c \in BookIds' : <<c, j>> \in bookFiles' <=> c = a
      <4>1. PICK a \in BookIds : \A c \in BookIds : <<c, j>> \in bookFiles <=> c = a
        BY DEF BooksInv
      <4>2. \A c \in BookIds' : <<c, j>> \in bookFiles' <=> c = a
        BY <1>1, <2>1, <2>3, <2>5, <4>1
      <4> QED
        BY <2>1, <4>2
    <3> QED
      BY <1>1, <2>1, <3>1, <3>2
  <2>7. (\A c \in BookIds : FilesOf(c)' = FilesOf(c)) /\ FilesOf(m)' = {n}
    <3>1. \A c, j : j \in FilesOf(c)' <=> j \in FileIds' /\ <<c, j>> \in bookFiles'
      BY DEF FilesOf
    <3>2. \A c, j : j \in FilesOf(c) <=> j \in FileIds /\ <<c, j>> \in bookFiles
      BY DEF FilesOf
    <3>3. \A c \in BookIds : \A j : j \in FilesOf(c)' <=> j \in FilesOf(c)
      BY <1>1, <2>1, <2>3, <2>5, <3>1, <3>2
    <3>4. \A j : j \in FilesOf(m)' <=> j = n
      BY <1>1, <2>1, <2>3, <2>5, <3>1
    <3> QED
      BY <3>3, <3>4
  <2>8. ASSUME NEW c \in BookIds' PROVE (FilesOf(c) # {} /\ Grown(c))'
    <3>1. CASE c = m
      <4>1. FilesOf(c)' = {n}
        BY <2>7, <3>1
      <4> QED
        BY <1>1, <4>1 DEF Grown
    <3>2. CASE c \in BookIds
      <4>1. FilesOf(c) # {} /\ Grown(c) /\ FilesOf(c) \subseteq FileIds
        BY <3>2 DEF BooksInv, FilesOf
      <4> QED
        BY <1>1, <2>7, <3>2, <4>1 DEF Grown
    <3> QED
      BY <2>1, <3>1, <3>2
  <2> QED
    BY <1>2, <2>1, <2>4, <2>6, <2>8 DEF BooksInv, BookIds
<1>5. ASSUME NEW i \in Best(h), NEW b \in BookIds, <<b, i>> \in bookFiles, JoinBook(b, h)
      PROVE  BooksInv'
  <2>1. i \in FileIds /\ Similar(h, files[i].hash)
    <3>1. i \in Matches(h)
      BY Zenon DEF Best
    <3> QED
      BY <3>1, MatchIsSimilar DEF BooksInv
  <2>2. BookIds' = BookIds /\ bookFiles' = bookFiles \cup {<<b, n>>}
    BY <1>5 DEF JoinBook, BookIds, n
  <2>3. books' \in Seq({books'[c] : c \in DOMAIN books'})
    <3>1. DOMAIN books = 1..Len(books) /\ Len(books) \in Nat
      BY DEF BooksInv, BookIds
    <3>2. books' \in [1..Len(books) -> {books'[c] : c \in DOMAIN books'}]
      <4>1. books' = [c \in 1..Len(books) |-> books'[c]]
        BY <1>5, <3>1 DEF JoinBook
      <4> QED
        BY <3>1, <4>1
    <3> QED
      BY <3>1, <3>2
  <2> QED
    BY <1>3, <1>5, <2>1, <2>2, <2>3
<1> QED
  BY <1>4, <1>5 DEF RecordFile

(* Steps that leave files and books alone.                                 *)
LEMMA SameBooks ==
  ASSUME BooksInv, UNCHANGED <<files, books, bookFiles, buckets>>
  PROVE  BooksInv'
<1>1. files' = files /\ books' = books /\ bookFiles' = bookFiles /\ buckets' = buckets
  OBVIOUS
<1>2. FileIds' = FileIds /\ BookIds' = BookIds
  BY <1>1 DEF FileIds, BookIds
<1>3. {books'[b] : b \in BookIds'} = {books[b] : b \in BookIds}
  BY <1>1, <1>2
<1>4. \A b : FilesOf(b)' = FilesOf(b)
  BY <1>1, <1>2 DEF FilesOf
<1>5. ASSUME NEW b \in BookIds PROVE Grown(b)'
  <2>1. Grown(b)
    BY DEF BooksInv
  <2> QED
    BY <1>1, <1>4, <2>1 DEF Grown
<1> QED
  BY <1>1, <1>2, <1>3, <1>4, <1>5 DEF BooksInv

(* Every step keeps the groups.                                            *)
LEMMA BooksStep == RowsInv /\ BooksInv /\ [Next]_vars => BooksInv'
<1> SUFFICES ASSUME RowsInv, BooksInv, [Next]_vars PROVE BooksInv'
  OBVIOUS
<1>0. RowsType /\ RunType /\ HandsOnce /\ HashOnce
  BY DEF RowsInv
<1>1. CASE BeginFresh
  <2>1. books' = <<>> /\ files' = <<>> /\ bookFiles' = {} /\ buckets' = {}
    BY <1>1 DEF BeginFresh
  <2> QED
    BY <2>1 DEF BooksInv, BookIds, FileIds
<1>2. ASSUME NEW w \in Workers, Record(w) PROVE BooksInv'
  <2>1. PICK h, p : h = disk[unit[w]] /\ p = PathOf[unit[w]]
    OBVIOUS
  <2>2. h \in Hash /\ p \in Nat
    BY <1>0, <1>2, <2>1, RecordAdds
  <2>3. RecordDuplicate(h, p) \/ RecordFile(h, p)
    BY <1>2, <2>1 DEF Record
  <2>4. CASE RecordDuplicate(h, p)
    BY <2>4, SameBooks DEF RecordDuplicate
  <2> QED
    BY <1>0, <2>2, <2>3, <2>4, FileFindsHome
<1>3. CASE Consolidate
  <2>1. UNCHANGED <<bookFiles, buckets>> /\ Canonicalize
    BY <1>3 DEF Consolidate
  <2>2. FileIds' = FileIds /\ \A i \in FileIds : files'[i].hash = files[i].hash
    BY <1>0, <2>1, CanonicalRows
  <2>3. DOMAIN books = 1..Len(books) /\ Len(books) \in Nat
    BY DEF BooksInv, BookIds
  <2>4. DOMAIN books' = DOMAIN books /\ books' = [c \in 1..Len(books) |-> books'[c]]
    BY <1>3, <2>3 DEF Consolidate, Persist, BookIds
  <2>5. books' \in [1..Len(books) -> {books'[c] : c \in DOMAIN books'}]
    BY <2>3, <2>4
  <2>6. BookIds' = BookIds /\ books' \in Seq({books'[c] : c \in BookIds'})
    BY <2>3, <2>4, <2>5 DEF BookIds
  <2>7. \A b : FilesOf(b)' = FilesOf(b)
    BY <2>1, <2>2 DEF FilesOf
  <2>8. ASSUME NEW b \in BookIds PROVE Grown(b)'
    <3>1. Grown(b) /\ FilesOf(b) \subseteq FileIds
      BY DEF BooksInv, FilesOf
    <3> QED
      BY <2>2, <2>7, <3>1 DEF Grown
  <2> QED
    BY <2>1, <2>2, <2>6, <2>7, <2>8 DEF BooksInv
<1>4. CASE Elsewhere
  BY <1>4, ElsewhereKeeps, SameBooks DEF tables
<1> QED
  BY <1>1, <1>2, <1>3, <1>4, StepCases

(* README.md:549: every file belongs to exactly one book, which grew from  *)
(* its first file by matches above the threshold.                          *)
THEOREM FilesAreGrouped == Spec => []GroupsAreSimilar
<1>1. Init => RowsInv /\ BooksInv
  <2> SUFFICES ASSUME Init PROVE BooksInv
    BY RowsInit
  <2>1. books = <<>> /\ files = <<>> /\ bookFiles = {} /\ buckets = {}
    BY DEF Init
  <2> QED
    BY <2>1 DEF BooksInv, BookIds, FileIds
<1>2. RowsInv /\ BooksInv /\ [Next]_vars => RowsInv' /\ BooksInv'
  BY RowsInvStep, BooksStep
<1> QED
  BY <1>1, <1>2, BooksAreGroups, PTL DEF Spec

-----------------------------------------------------------------------------
(* What a consolidation leaves: no path to promote, the books described by *)
(* their files, and of the authors those somebody refers to.               *)
Paths == [i \in FileIds |-> files[i].path]
Referred(a) == (\E b \in BookIds : a \in books[b].authors) \/ \E i \in FileIds : a \in FileAuthors(i)
Consolidated ==
  /\ ToPromote = {}
  /\ books = [b \in BookIds |-> [authors |-> PickAuthors(b, Paths, dups), subjects |-> MergeSubjects(b)]]
  /\ \A b \in BookIds : books[b].authors \subseteq authors
  /\ \A a \in authors : Referred(a)

(* The tables are as a consolidation left them until something is recorded.*)
CleanInv == RowsInv /\ BooksInv /\ (~dirty /\ good # <<>> => Consolidated)

(* One of a set of ids is not below any other, in an order in which any    *)
(* two compare.                                                            *)
LEMMA BestOne ==
  ASSUME NEW R, NEW n \in Nat, NEW S \in SUBSET (1..n), S # {},
         \A i, j \in S : <<i, j>> \in R \/ <<j, i>> \in R,
         \A i, j, k \in S : <<i, j>> \in R /\ <<j, k>> \in R => <<i, k>> \in R
  PROVE  \E i \in S : \A j \in S : <<i, j>> \in R
<1> DEFINE HasBest(T) == \E i \in T : \A j \in T : <<i, j>> \in R
           Bad == {k \in Nat : \E T \in SUBSET S : T # {} /\ T \subseteq 1..k /\ ~HasBest(T)}
<1>1. ASSUME Bad # {} PROVE FALSE
  <2>1. PICK k \in Bad : \A j \in Bad : ~(j < k)
    <3>1. \E k \in Bad : \A j \in Bad : ~(<<j, k>> \in OpToRel(<, Nat))
      <4>1. Bad \subseteq Nat
        OBVIOUS
      <4> HIDE DEF Bad
      <4> QED
        BY <1>1, <4>1, NatLessThanWellFounded, WFMin
    <3> QED
      BY <3>1 DEF OpToRel
  <2>2. PICK T \in SUBSET S : T # {} /\ T \subseteq 1..k /\ ~HasBest(T)
    BY <2>1
  <2>3. k \in Nat /\ k # 0
    <3>1. PICK t \in T : t \in 1..k
      BY <2>2
    <3> QED
      BY <2>1, <3>1
  <2>4. k \in T
    <3> SUFFICES ASSUME k \notin T PROVE FALSE
      OBVIOUS
    <3>1. k - 1 \in Nat /\ T \subseteq 1..(k - 1) /\ k - 1 < k
      BY <2>2, <2>3
    <3> QED
      BY <2>1, <2>2, <3>1
  <2>5. <<k, k>> \in R /\ k \in S
    BY <2>2, <2>4
  <2>6. CASE T = {k}
    BY <2>2, <2>5, <2>6
  <2>7. CASE T \ {k} # {}
    <3>1. k - 1 \in Nat /\ T \ {k} \subseteq 1..(k - 1) /\ k - 1 < k /\ T \ {k} \in SUBSET S
      BY <2>2, <2>3
    <3>2. HasBest(T \ {k})
      <4>1. k - 1 \notin Bad
        BY <2>1, <3>1
      <4> QED
        BY <2>7, <3>1, <4>1
    <3>3. PICK i \in T \ {k} : \A j \in T \ {k} : <<i, j>> \in R
      BY <3>2
    <3>4. CASE <<i, k>> \in R
      BY <2>2, <3>3, <3>4
    <3>5. CASE <<k, i>> \in R
      <4>1. \A j \in T : <<k, j>> \in R
        BY <2>2, <2>5, <3>3, <3>5
      <4> QED
        BY <2>2, <2>4, <4>1
    <3> QED
      BY <2>2, <2>5, <3>3, <3>4, <3>5
  <2> QED
    BY <2>4, <2>6, <2>7
<1>2. n \notin Bad
  BY <1>1
<1> QED
  BY <1>2

(* What pickAuthors compares are numbers.                                  *)
LEMMA VoteNumbers ==
  ASSUME RowsType, NEW b, NEW i \in FileIds
  PROVE  Votes(b, i) \in Nat /\ Preferred[files[i].hash] \in Nat
<1>1. files[i] \in FileRows /\ FileIds = 1..Len(files) /\ Len(files) \in Nat
  BY DEF RowsType, FileIds
<1>2. IsFiniteSet(FileIds)
  BY <1>1, FS_Interval
<1>3. Votes(b, i) \in Nat
  <2>1. {j \in Voters(b) : Agree(i, j)} \subseteq FileIds
    BY DEF Voters, FilesOf
  <2> QED
    BY <1>2, <2>1, FS_Subset, FS_CardinalityType DEF Votes
<1>4. Preferred \in [Hash -> Nat]
  BY CatalogAssumption, Zenon
<1> QED
  BY <1>1, <1>3, <1>4 DEF FileRows

(* Where there are voters, one of them leads those that agree with it.     *)
LEMMA SomeoneLeads ==
  ASSUME RowsType, NEW b, Voters(b) # {}, NEW P, \A i \in FileIds : P[i] \in Nat
  PROVE  Heads(b, P) # {}
<1>1. PICK S : S = Voters(b)
  OBVIOUS
<1>2. PICK n \in Nat : n = Len(files) /\ FileIds = 1..n
  BY DEF RowsType, FileIds
<1>3. S \in SUBSET (1..n) /\ S # {} /\ S \subseteq FileIds
  BY <1>1, <1>2 DEF Voters, FilesOf
<1>4. PICK R : R = {r \in S \X S : P[r[1]] <= P[r[2]]}
  OBVIOUS
<1>5. \A i, j \in S : <<i, j>> \in R <=> P[i] <= P[j]
  BY <1>4
<1>6. \A i \in S : P[i] \in Nat
  BY <1>3
<1>7. /\ \A i, j \in S : <<i, j>> \in R \/ <<j, i>> \in R
      /\ \A i, j, k \in S : <<i, j>> \in R /\ <<j, k>> \in R => <<i, k>> \in R
  BY <1>5, <1>6
<1>8. \E i \in S : \A j \in S : <<i, j>> \in R
  BY <1>2, <1>3, <1>7, BestOne
<1> QED
  BY <1>1, <1>5, <1>8 DEF Heads

(* And one of the leaders wins the vote.                                   *)
LEMMA SomeoneWins ==
  ASSUME RowsType, NEW b, Voters(b) # {}, NEW P, \A i \in FileIds : P[i] \in Nat
  PROVE  Winner(b, P) \in Heads(b, P)
<1>1. PICK S : S = Heads(b, P)
  OBVIOUS
<1>2. PICK n \in Nat : n = Len(files) /\ FileIds = 1..n
  BY DEF RowsType, FileIds
<1>3. S \in SUBSET (1..n) /\ S # {} /\ S \subseteq FileIds
  <2>1. Heads(b, P) \subseteq FileIds
    BY DEF Heads, Voters, FilesOf
  <2>2. Heads(b, P) # {}
    BY SomeoneLeads
  <2> QED
    BY <1>1, <1>2, <2>1, <2>2
<1>4. PICK R : R = {r \in S \X S : Wins(b, r[1], r[2], P)}
  OBVIOUS
<1>5. \A i, j \in S : <<i, j>> \in R <=> Wins(b, i, j, P)
  BY <1>4
<1>6. \A i \in S : Votes(b, i) \in Nat /\ Preferred[files[i].hash] \in Nat /\ P[i] \in Nat
  BY <1>3, VoteNumbers
<1>7. \A i, j \in S : Wins(b, i, j, P) \/ Wins(b, j, i, P)
  BY <1>6 DEF Wins
<1>8. \A i, j, k \in S : Wins(b, i, j, P) /\ Wins(b, j, k, P) => Wins(b, i, k, P)
  BY <1>6 DEF Wins
<1>9. \A i, j \in S : <<i, j>> \in R \/ <<j, i>> \in R
  BY <1>5, <1>7
<1>10. \A i, j, k \in S : <<i, j>> \in R /\ <<j, k>> \in R => <<i, k>> \in R
  BY <1>5, <1>8
<1>11. \E i \in S : \A j \in S : <<i, j>> \in R
  BY <1>2, <1>3, <1>9, <1>10, BestOne
<1>12. \E i \in S : \A j \in S : Wins(b, i, j, P)
  BY <1>5, <1>11
<1> QED
  BY <1>1, <1>12 DEF Winner

(* The description of a book depends on its files' contents and the paths  *)
(* it is given, not on those in the tables.                                *)
LEMMA SameDescription ==
  ASSUME RowsType, bookFiles' = bookFiles, FileIds' = FileIds,
         \A i \in FileIds : files'[i].hash = files[i].hash,
         NEW b, NEW P, \A i \in FileIds : P[i] \in Nat, NEW D
  PROVE  PickAuthors(b, P, D)' = PickAuthors(b, P, D) /\ MergeSubjects(b)' = MergeSubjects(b)
<1>1. FilesOf(b)' = FilesOf(b) /\ FilesOf(b) \subseteq FileIds
  BY DEF FilesOf
<1>2. Voters(b)' = Voters(b) /\ Voters(b) \subseteq FilesOf(b)
  BY <1>1 DEF Voters
<1>3. \A i, j \in FilesOf(b) : Agree(i, j)' <=> Agree(i, j)
  BY <1>1 DEF Agree
<1>4. \A i \in FilesOf(b) : Votes(b, i)' = Votes(b, i)
  <2> SUFFICES ASSUME NEW i \in FilesOf(b) PROVE Votes(b, i)' = Votes(b, i)
    OBVIOUS
  <2>1. {j \in Voters(b)' : Agree(i, j)'} = {j \in Voters(b) : Agree(i, j)}
    BY <1>2, <1>3
  <2> QED
    BY <2>1, Zenon DEF Votes
<1>5. Heads(b, P)' = Heads(b, P) /\ Heads(b, P) \subseteq Voters(b)
  BY <1>2, <1>3 DEF Heads
<1>6. \A i, j \in FilesOf(b) : Wins(b, i, j, P)' <=> Wins(b, i, j, P)
  BY <1>1, <1>4 DEF Wins
<1>7. Winner(b, P)' = Winner(b, P)
  <2>1. \A i : (i \in Heads(b, P)' /\ \A j \in Heads(b, P)' : Wins(b, i, j, P)')
                 <=> (i \in Heads(b, P) /\ \A j \in Heads(b, P) : Wins(b, i, j, P))
    BY <1>2, <1>5, <1>6
  <2> QED
    BY <2>1, Zenon DEF Winner
<1>8. Recover(b, P, D)' = Recover(b, P, D)
  <2>1. {<<P[i], files'[i].hash>> : i \in FilesOf(b)'} = {<<P[i], files[i].hash>> : i \in FilesOf(b)}
    BY <1>1
  <2>2. {d \in D : \E i \in FilesOf(b)' : files'[i].hash = d[1]}
          = {d \in D : \E i \in FilesOf(b) : files[i].hash = d[1]}
    BY <1>1
  <2> QED
    BY <2>1, <2>2, Zenon DEF Recover
<1>9. PickAuthors(b, P, D)' = PickAuthors(b, P, D)
  <2>1. CASE Voters(b) = {}
    BY <1>2, <1>8, <2>1 DEF PickAuthors
  <2>2. CASE Voters(b) # {}
    <3>1. Winner(b, P) \in FileIds
      BY <1>1, <1>2, <1>5, <2>2, SomeoneWins
    <3> QED
      BY <1>2, <1>7, <2>2, <3>1 DEF PickAuthors
  <2> QED
    BY <2>1, <2>2
<1>10. MergeSubjects(b)' = MergeSubjects(b)
  <2>1. \A i \in FilesOf(b) : FileSubjects(i)' = FileSubjects(i)
    BY <1>1 DEF FileSubjects
  <2> QED
    BY <1>1, <2>1 DEF MergeSubjects
<1> QED
  BY <1>9, <1>10

(* The smallest of a content's paths, as a fact of every state.            *)
LEMMA SmallestAlways ==
  RowsType => \A h : DupPaths(h) # {} => Smallest(h) \in DupPaths(h)
BY SmallestPath

(* It holds after every step.                                              *)
LEMMA SmallestNext ==
  RowsType' => (\A h : DupPaths(h) # {} => Smallest(h) \in DupPaths(h))'
BY SmallestAlways, PTL

(* A consolidation leaves nothing that a second one would do.              *)
LEMMA ConsolidateSettles ==
  ASSUME RowsType, HashOnce, BooksInv, Consolidate
  PROVE  Consolidated'
<1>1. Canonicalize /\ bookFiles' = bookFiles
  BY DEF Consolidate
<1>2. RowsType' /\ FileIds' = FileIds /\ \A i \in FileIds : files'[i].hash = files[i].hash
  BY <1>1, CanonicalRows
<1>3. PICK P, D : P = [i \in FileIds |-> files'[i].path] /\ D = dups'
  OBVIOUS
<1>4. Paths' = P /\ \A i \in FileIds : P[i] \in Nat
  <2>1. \A i \in FileIds : files'[i] \in FileRows
    BY <1>2 DEF RowsType, FileIds
  <2> QED
    BY <1>2, <1>3, <2>1 DEF Paths, FileRows
<1>5. ToPromote' = {}
  <2> SUFFICES ASSUME NEW i \in FileIds', NEW h, h = files'[i].hash,
                      DupPaths(h)' # {}, Smallest(h)' < files'[i].path
               PROVE  FALSE
    BY DEF ToPromote
  <2>1. Smallest(h)' \in DupPaths(h)'
    BY <1>2, SmallestNext
  <2>2. PICK d \in dups' : d[1] = h /\ d[2] = Smallest(h)'
    BY <2>1 DEF DupPaths
  <2>3. files'[i].path <= d[2]
    BY <1>1, <2>2, PromotionFindsSmallest
  <2>4. files'[i].path \in Nat /\ d[2] \in Nat
    <3>1. files'[i] \in FileRows
      BY <1>2 DEF RowsType, FileIds
    <3> QED
      BY <1>2, <3>1 DEF FileRows, RowsType
  <2> QED
    BY <2>2, <2>3, <2>4
<1>6. /\ books' = [b \in BookIds |-> [authors |-> PickAuthors(b, P, D), subjects |-> MergeSubjects(b)]]
      /\ BookIds' = BookIds
  BY <1>3 DEF Consolidate, Persist, BookIds
<1>7. \A b \in BookIds : PickAuthors(b, P, D)' = PickAuthors(b, P, D) /\ MergeSubjects(b)' = MergeSubjects(b)
  BY <1>1, <1>2, <1>4, SameDescription
<1>8. books' = [b \in BookIds' |-> [authors |-> PickAuthors(b, Paths, dups)', subjects |-> MergeSubjects(b)']]
  BY <1>3, <1>4, <1>6, <1>7
<1>9. \A a : a \in authors' <=> /\ a \in authors \/ \E b \in BookIds : a \in books'[b].authors
                               /\ \/ \E b \in BookIds : a \in books'[b].authors
                                  \/ \E i \in FileIds : a \in FileAuthors(i)
  BY DEF Consolidate, KeepAuthors
<1>10. \A b \in BookIds' : books'[b].authors \subseteq authors'
  BY <1>6, <1>9
<1>11. \A a \in authors' : Referred(a)'
  BY <1>2, <1>6, <1>9 DEF Referred, FileAuthors
<1> QED
  BY <1>5, <1>8, <1>10, <1>11 DEF Consolidated

(* And where it left nothing to do, it does nothing.                       *)
LEMMA SecondChangesNothing ==
  ASSUME RowsType, Consolidated, Consolidate
  PROVE  UNCHANGED tables
<1>1. ToPromote = {} /\ DOMAIN files = FileIds /\ files = [i \in FileIds |-> files[i]]
  BY DEF Consolidated, RowsType, FileIds
<1>2. files' = files /\ dups' = dups
  BY <1>1 DEF Consolidate, Canonicalize
<1>3. books' = books
  <2>1. [i \in FileIds |-> files'[i].path] = Paths
    BY <1>2 DEF Paths
  <2> QED
    BY <1>2, <2>1 DEF Consolidate, Persist, Consolidated
<1>4. authors' = authors
  <2>1. authors' = {a \in authors \cup UNION {books'[b].authors : b \in BookIds} :
                      \/ \E b \in BookIds : a \in books'[b].authors
                      \/ \E i \in FileIds : a \in FileAuthors(i)}
    BY DEF Consolidate, KeepAuthors
  <2> QED
    BY <1>3, <2>1 DEF Consolidated, Referred
<1> QED
  BY <1>2, <1>3, <1>4 DEF Consolidate, tables

(* The tables stay as a consolidation left them while nothing is recorded. *)
LEMMA CleanStep == CleanInv /\ [Next]_vars => CleanInv'
<1> SUFFICES ASSUME RowsInv, BooksInv, ~dirty /\ good # <<>> => Consolidated, [Next]_vars,
                    ~dirty', good' # <<>>
             PROVE  Consolidated'
  BY RowsInvStep, BooksStep DEF CleanInv
<1>1. CASE BeginFresh
  BY <1>1 DEF BeginFresh
<1>2. ASSUME NEW w \in Workers, Record(w) PROVE FALSE
  BY <1>2 DEF Record
<1>3. CASE Consolidate
  BY <1>3, ConsolidateSettles DEF RowsInv
<1>4. CASE Elsewhere
  <2>1. UNCHANGED <<dirty, good>>
    BY <1>4 DEF Elsewhere, BeginResume, Take, Lookup, GivesUp, PassOver, NotABook, Skip, Fail,
       EndScan, ConsolidateFails, Interrupt, ChangeFile, Done, vars
  <2>2. files' = files /\ books' = books /\ bookFiles' = bookFiles /\ authors' = authors /\ dups' = dups
    BY <1>4, ElsewhereKeeps DEF tables
  <2>3. Consolidated
    BY <2>1
  <2>4. FileIds' = FileIds /\ BookIds' = BookIds /\ Paths' = Paths /\ \A i : FileAuthors(i)' = FileAuthors(i)
    BY <2>2 DEF FileIds, BookIds, Paths, FileAuthors
  <2>5. ToPromote' = ToPromote
    <3>1. \A h : DupPaths(h)' = DupPaths(h)
      BY <2>2 DEF DupPaths
    <3>2. \A h : Smallest(h)' = Smallest(h)
      BY <3>1 DEF Smallest
    <3> QED
      BY <2>2, <2>4, <3>1, <3>2 DEF ToPromote
  <2>6. PICK P, D : P = Paths /\ D = dups
    OBVIOUS
  <2>7. \A i \in FileIds : P[i] \in Nat
    <3>1. \A i \in FileIds : files[i] \in FileRows
      BY DEF RowsInv, RowsType, FileIds
    <3> QED
      BY <2>6, <3>1 DEF Paths, FileRows
  <2>8. \A b \in BookIds : PickAuthors(b, P, D)' = PickAuthors(b, P, D) /\ MergeSubjects(b)' = MergeSubjects(b)
    BY <2>2, <2>4, <2>7, SameDescription DEF RowsInv
  <2>9. books' = [b \in BookIds' |-> [authors |-> PickAuthors(b, Paths, dups)', subjects |-> MergeSubjects(b)']]
    BY <2>2, <2>3, <2>4, <2>6, <2>8 DEF Consolidated
  <2> QED
    BY <2>2, <2>3, <2>4, <2>5, <2>9 DEF Consolidated, Referred
<1> QED
  BY <1>1, <1>2, <1>3, <1>4, StepCases

(* books.go:61, "The pass is idempotent": a consolidation after which      *)
(* nothing was recorded is followed by none that changes a table, whatever *)
(* was interrupted, resumed or changed on disk between the two.            *)
THEOREM ConsolidationIsIdempotent == Spec => Idempotent
<1>1. Init => CleanInv
  <2> SUFFICES ASSUME Init PROVE BooksInv /\ good = <<>>
    BY RowsInit DEF CleanInv
  <2>1. books = <<>> /\ files = <<>> /\ bookFiles = {} /\ buckets = {} /\ good = <<>>
    BY DEF Init
  <2> QED
    BY <2>1 DEF BooksInv, BookIds, FileIds
<1>2. CleanInv /\ [Next]_vars => [Consolidate /\ ~dirty /\ good # <<>> => UNCHANGED tables]_vars
  BY SecondChangesNothing DEF CleanInv, RowsInv
<1> QED
  BY <1>1, <1>2, CleanStep, PTL DEF Spec, Idempotent
=============================================================================
