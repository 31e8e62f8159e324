---------------------------- MODULE SpoolProofs ----------------------------
(***************************************************************************)
(* Proofs about SpoolBlob, for any content, any memory limit, any size of  *)
(* the reads of the source, and any calls.                                 *)
(***************************************************************************)
EXTENDS SpoolBlob, SequenceTheorems, TLAPS

Calls == [op : {"none", "New", "ReadAt", "Read"}, at : Nat, len : Nat, need : Nat,
          step : {"none", "ensure", "copy"}, data : Seq(Int)]

SpoolType ==
  /\ ram \in Seq(Int) /\ spill \in Seq(Int)
  /\ spillFile \in BOOLEAN /\ eof \in BOOLEAN /\ srcErr \in BOOLEAN /\ closed \in BOOLEAN
  /\ size \in Int /\ pos \in Nat /\ wanted \in Nat /\ call \in Calls

(* A piece of the content: what follows its first off bytes.               *)
Part(data, off) ==
  off + Len(data) <= Len(Content) /\ \A i \in 1..Len(data) : data[i] = Content[off + i]

(* Memory and temporary file hold what was pulled, in order, memory first. *)
Pieces ==
  /\ Part(ram, 0) /\ Part(spill, Len(ram))
  /\ Len(ram) <= RamCap
  /\ spill # <<>> => Len(ram) = RamCap
  /\ eof => Length = Len(Content)

(* The temporary file is there when it is needed, and not after Close.     *)
FileThere ==
  /\ spillFile => Len(ram) = RamCap /\ ~closed
  /\ spill # <<>> /\ ~closed => spillFile

(* Nothing is pulled that no call has asked for, but for the end of a      *)
(* chunk.                                                                  *)
OnDemand == Length < wanted + Chunk /\ call.need <= wanted

(* The call under way: what it was asked, and what it has copied so far.   *)
CallInv ==
  /\ call.step = "none" => call = Idle
  /\ closed \/ call.op = "none" => call.step = "none"
  /\ call.op \in {"Read", "ReadAt"} => call.need = call.at + call.len /\ call.len \in 1..MaxLen
  /\ call.op = "ReadAt" => call.at \in 0..(Len(Content) + MaxLen)
  /\ call.op = "Read" => call.at = pos
  /\ call.step = "ensure" => call.data = <<>>
  /\ call.step = "copy" => Length >= call.need \/ eof \/ srcErr
  /\ Len(call.data) <= call.len
  /\ call.data # <<>> => Part(call.data, call.at) /\ call.at + Len(call.data) <= Length

SpoolInv == SpoolType /\ Pieces /\ FileThere /\ OnDemand /\ CallInv

----------------------------------------------------------------------------
(* The bytes from a + 1 to b of a sequence.                                *)
LEMMA Cut ==
  ASSUME NEW s \in Seq(Int), NEW a \in Nat, NEW b \in Nat, a <= b, b <= Len(s)
  PROVE  /\ SubSeq(s, a + 1, b) \in Seq(Int) /\ Len(SubSeq(s, a + 1, b)) = b - a
         /\ \A i \in 1..(b - a) : SubSeq(s, a + 1, b)[i] = s[a + i]
<1>1. a + 1 \in Int /\ b \in Int /\ \A i \in (a + 1)..b : s[i] \in Int
  OBVIOUS
<1>2. /\ SubSeq(s, a + 1, b) \in Seq(Int)
      /\ Len(SubSeq(s, a + 1, b)) = IF a + 1 <= b THEN b - (a + 1) + 1 ELSE 0
      /\ \A i \in 1..(b - (a + 1) + 1) : SubSeq(s, a + 1, b)[i] = s[a + 1 + i - 1]
  BY <1>1, SubSeqProperties
<1>3. b - (a + 1) + 1 = b - a /\ \A i \in Int : a + 1 + i - 1 = a + i
  OBVIOUS
<1> QED
  BY <1>2, <1>3

(* A sequence cut in two.                                                  *)
LEMMA Halves ==
  ASSUME NEW d \in Seq(Int), NEW n \in Nat, Len(d) = n, NEW f \in 0..n
  PROVE  /\ SubSeq(d, 1, f) \in Seq(Int) /\ Len(SubSeq(d, 1, f)) = f
         /\ \A i \in 1..f : SubSeq(d, 1, f)[i] = d[i]
         /\ SubSeq(d, f + 1, n) \in Seq(Int) /\ Len(SubSeq(d, f + 1, n)) = n - f
         /\ \A i \in 1..(n - f) : SubSeq(d, f + 1, n)[i] = d[f + i]
<1>1. 0 \in Nat /\ f \in Nat /\ 0 <= f /\ f <= n /\ 0 + 1 = 1 /\ f - 0 = f /\ \A i \in 1..f : 0 + i = i
  OBVIOUS
<1>2. /\ SubSeq(d, 0 + 1, f) \in Seq(Int) /\ Len(SubSeq(d, 0 + 1, f)) = f - 0
      /\ \A i \in 1..(f - 0) : SubSeq(d, 0 + 1, f)[i] = d[0 + i]
  BY <1>1, Cut
<1>3. /\ SubSeq(d, f + 1, n) \in Seq(Int) /\ Len(SubSeq(d, f + 1, n)) = n - f
      /\ \A i \in 1..(n - f) : SubSeq(d, f + 1, n)[i] = d[f + i]
  BY <1>1, Cut
<1> QED
  BY <1>1, <1>2, <1>3

(* Positions of the two halves.                                            *)
LEMMA Positions ==
  ASSUME NEW n \in Nat, NEW f \in 0..n
  PROVE  /\ f \in Nat /\ n - f \in Nat /\ f <= n /\ (f = 0 \/ f > 0)
         /\ \A i \in 1..f : i \in 1..n /\ f > 0
         /\ \A i \in 1..(n - f) : i \in Nat /\ f + i \in 1..n
OBVIOUS

(* Bytes put after bytes.                                                  *)
LEMMA Joined ==
  ASSUME NEW s \in Seq(Int), NEW t \in Seq(Int)
  PROVE  /\ s \o t \in Seq(Int) /\ Len(s \o t) = Len(s) + Len(t)
         /\ \A i \in 1..(Len(s) + Len(t)) : (s \o t)[i] = IF i <= Len(s) THEN s[i] ELSE t[i - Len(s)]
BY ConcatProperties

(* The lengths are numbers.                                                *)
LEMMA Lengths ==
  ASSUME SpoolType
  PROVE  Len(ram) \in Nat /\ Len(spill) \in Nat /\ Length \in Nat /\ Len(Content) \in Nat
BY SpoolAssumption DEF SpoolType, Length

(* A piece that follows a piece makes a longer one.                        *)
LEMMA PartsJoin ==
  ASSUME NEW s \in Seq(Int), NEW t \in Seq(Int), NEW off \in Nat, Part(s, off), Part(t, off + Len(s))
  PROVE  Part(s \o t, off)
<1>0. Len(s) \in Nat /\ Len(t) \in Nat /\ Len(Content) \in Nat
  BY SpoolAssumption
<1>1. Len(s \o t) = Len(s) + Len(t)
  BY Joined
<1>2. off + Len(s \o t) <= Len(Content)
  BY <1>0, <1>1 DEF Part
<1>3. ASSUME NEW i \in 1..Len(s \o t) PROVE (s \o t)[i] = Content[off + i]
  <2>1. i \in 1..(Len(s) + Len(t)) /\ i \in Nat
    BY <1>0, <1>1, <1>3
  <2>2. CASE i <= Len(s)
    <3>1. (s \o t)[i] = s[i] /\ i \in 1..Len(s)
      BY <1>0, <2>1, <2>2, Joined
    <3> QED
      BY <3>1 DEF Part
  <2>3. CASE ~(i <= Len(s))
    <3>1. (s \o t)[i] = t[i - Len(s)] /\ i - Len(s) \in 1..Len(t)
      BY <1>0, <2>1, <2>3, Joined
    <3>2. t[i - Len(s)] = Content[off + Len(s) + (i - Len(s))]
      BY <3>1 DEF Part
    <3>3. off + Len(s) + (i - Len(s)) = off + i
      BY <1>0, <2>1
    <3> QED
      BY <3>1, <3>2, <3>3
  <2> QED
    BY <2>2, <2>3
<1> QED
  BY <1>2, <1>3 DEF Part

(* The next m bytes of the source.                                         *)
Ahead(m, data) ==
  /\ m \in Nat /\ Length + m <= Len(Content)
  /\ data \in Seq(Int) /\ Len(data) = m /\ \A i \in 1..m : data[i] = Content[Length + i]

(* What of them fits in memory, and what does not.                         *)
Split(data, fits, first, rest) ==
  /\ fits = Least(Len(data), RamCap - Len(ram))
  /\ first = SubSeq(data, 1, fits) /\ rest = SubSeq(data, fits + 1, Len(data))

(* A Read of the source delivers the next bytes.                           *)
LEMMA SourceRead ==
  ASSUME SpoolInv, NEW m \in Nat, Length + m <= Len(Content)
  PROVE  Ahead(m, SubSeq(Content, Length + 1, Length + m))
<1>1. Length \in Nat /\ Len(Content) \in Nat /\ Content \in Seq(Int)
  BY Lengths, SpoolAssumption DEF SpoolInv
<1>2. Length + m \in Nat /\ Length <= Length + m /\ (Length + m) - Length = m
  BY <1>1
<1>3. LET d == SubSeq(Content, Length + 1, Length + m) IN
      /\ d \in Seq(Int) /\ Len(d) = (Length + m) - Length
      /\ \A i \in 1..((Length + m) - Length) : d[i] = Content[Length + i]
  BY <1>1, <1>2, Cut
<1> QED
  BY <1>2, <1>3 DEF Ahead

(* Those bytes cut at the memory limit continue the pieces.                *)
LEMMA Delivered ==
  ASSUME SpoolInv, NEW m, NEW data, NEW fits, NEW first, NEW rest,
         Ahead(m, data), Split(data, fits, first, rest)
  PROVE  /\ m \in Nat /\ Len(data) = m /\ fits \in 0..m /\ Len(ram) + fits <= RamCap
         /\ fits < m => Len(ram) + fits = RamCap
         /\ first \in Seq(Int) /\ Len(first) = fits /\ rest \in Seq(Int) /\ Len(rest) = m - fits
         /\ ram \o first \in Seq(Int) /\ Len(ram \o first) = Len(ram) + fits
         /\ Part(ram \o first, 0)
         /\ Part(spill, Len(ram) + fits)
         /\ fits < m => /\ spill \o rest \in Seq(Int) /\ Len(spill \o rest) = Len(spill) + (m - fits)
                        /\ Part(spill \o rest, Len(ram) + fits)
<1>0. /\ ram \in Seq(Int) /\ spill \in Seq(Int) /\ Content \in Seq(Int)
      /\ Len(ram) \in Nat /\ Len(spill) \in Nat /\ Len(Content) \in Nat /\ Length \in Nat
      /\ Length = Len(ram) + Len(spill) /\ RamCap \in Nat /\ Len(ram) <= RamCap
      /\ Part(ram, 0) /\ Part(spill, Len(ram)) /\ (spill # <<>> => Len(ram) = RamCap)
  BY Lengths, SpoolAssumption DEF SpoolInv, SpoolType, Pieces, Length
<1>1. /\ m \in Nat /\ Length + m <= Len(Content) /\ data \in Seq(Int) /\ Len(data) = m
      /\ \A i \in 1..m : data[i] = Content[Length + i]
  BY DEF Ahead
<1>2. /\ fits \in 0..m /\ Len(ram) + fits <= RamCap /\ (fits < m => Len(ram) + fits = RamCap)
      /\ (fits > 0 => Len(ram) < RamCap)
  <2>1. fits = Least(m, RamCap - Len(ram))
    BY <1>1 DEF Split
  <2> QED
    BY <1>0, <1>1, <2>1, SMTT(30) DEF Least
<1>n. /\ fits \in Nat /\ m - fits \in Nat /\ fits <= m
      /\ \A i \in 1..fits : i \in 1..m /\ fits > 0
      /\ \A i \in 1..(m - fits) : i \in Nat /\ fits + i \in 1..m
      /\ (fits = 0 \/ fits > 0)
  BY <1>1, <1>2, Positions
<1>3. fits > 0 => Len(spill) = 0 /\ Length = Len(ram)
  BY <1>0, <1>2
<1>4. /\ first \in Seq(Int) /\ Len(first) = fits
      /\ \A i \in 1..fits : first[i] = data[i]
  <2>1. first = SubSeq(data, 1, fits)
    BY DEF Split
  <2> QED
    BY <1>1, <1>2, <2>1, Halves
<1>5. /\ rest \in Seq(Int) /\ Len(rest) = m - fits
      /\ \A i \in 1..(m - fits) : rest[i] = data[fits + i]
  <2>1. rest = SubSeq(data, fits + 1, m)
    BY <1>1 DEF Split
  <2> QED
    BY <1>1, <1>2, <2>1, Halves
<1>6. ram \o first \in Seq(Int) /\ Len(ram \o first) = Len(ram) + fits
  BY <1>0, <1>4, Joined
<1>7. Part(first, Len(ram))
  <2>1. Len(ram) + Len(first) <= Len(Content)
    BY <1>0, <1>1, <1>2, <1>n, <1>4
  <2>2. ASSUME NEW i \in 1..Len(first) PROVE first[i] = Content[Len(ram) + i]
    <3>1. i \in 1..fits
      BY <1>4, <2>2
    <3>2. i \in 1..m /\ fits > 0
      BY <1>n, <3>1
    <3> QED
      BY <1>1, <1>3, <1>4, <3>1, <3>2
  <2> QED
    BY <2>1, <2>2 DEF Part
<1>8. Part(ram \o first, 0)
  <2>1. 0 + Len(ram) = Len(ram) /\ 0 \in Nat
    BY <1>0
  <2> QED
    BY <1>0, <1>4, <1>7, <2>1, PartsJoin
<1>9. Part(spill, Len(ram) + fits)
  <2>1. CASE fits = 0
    <3>1. Len(ram) + fits = Len(ram)
      BY <1>0, <2>1
    <3> QED
      BY <1>0, <3>1
  <2>2. CASE fits > 0
    <3>1. Len(spill) = 0 /\ Len(ram) + fits + Len(spill) <= Len(Content) /\ 1..Len(spill) = {}
      BY <1>0, <1>1, <1>2, <1>3, <2>2
    <3> QED
      BY <3>1 DEF Part
  <2>3. fits = 0 \/ fits > 0
    BY <1>n
  <2> QED
    BY <2>1, <2>2, <2>3
<1>10. ASSUME fits < m
       PROVE  /\ spill \o rest \in Seq(Int) /\ Len(spill \o rest) = Len(spill) + (m - fits)
              /\ Part(spill \o rest, Len(ram) + fits)
  <2>1. Length + fits = Len(ram) + fits + Len(spill)
    BY <1>0, <1>2
  <2>2. Part(rest, Len(ram) + fits + Len(spill))
    <3>1. Len(ram) + fits + Len(spill) + Len(rest) <= Len(Content)
      BY <1>0, <1>1, <1>2, <1>n, <1>5
    <3>2. ASSUME NEW i \in 1..Len(rest) PROVE rest[i] = Content[Len(ram) + fits + Len(spill) + i]
      <4>0. i \in 1..(m - fits)
        BY <1>5, <3>2
      <4>1. i \in Nat /\ fits + i \in 1..m
        BY <1>n, <4>0
      <4>2. Length + (fits + i) = Len(ram) + fits + Len(spill) + i
        BY <1>0, <1>n, <4>1
      <4> QED
        BY <1>1, <1>5, <4>0, <4>1, <4>2
    <3> QED
      BY <3>1, <3>2 DEF Part
  <2>3. Len(ram) + fits \in Nat
    BY <1>0, <1>2
  <2> QED
    BY <1>0, <1>5, <1>9, <2>2, <2>3, Joined, PartsJoin
<1> QED
  BY <1>1, <1>2, <1>4, <1>5, <1>6, <1>8, <1>9, <1>10

(* What a step leaves of the pieces when it pulls nothing.                 *)
LEMMA PiecesKept ==
  ASSUME SpoolInv, UNCHANGED <<ram, spill, eof>>
  PROVE  Pieces' /\ Length' = Length
BY DEF SpoolInv, Pieces, Part, Length

(* Keep and KeepFails: order and limits are kept, and what was delivered   *)
(* is kept whole unless the temporary file fails.                          *)
LEMMA Kept ==
  ASSUME SpoolInv, NEW m, NEW data, Ahead(m, data), ~closed,
         Keep(data) \/ KeepFails(data)
  PROVE  /\ ram' \in Seq(Int) /\ spill' \in Seq(Int) /\ spillFile' \in BOOLEAN
         /\ Part(ram, 0)' /\ Part(spill, Len(ram))'
         /\ Len(ram') <= RamCap /\ (spill' # <<>> => Len(ram') = RamCap)
         /\ (spillFile' => Len(ram') = RamCap) /\ (spill' # <<>> => spillFile')
         /\ Length' \in Nat /\ Length' \in Length..(Length + m)
         /\ (Keep(data) => Length' = Length + m)
<1>a. PICK fits, first, rest : Split(data, fits, first, rest)
  BY DEF Split
<1>1. /\ m \in Nat /\ Len(data) = m /\ fits \in 0..m /\ Len(ram) + fits <= RamCap
      /\ fits < m => Len(ram) + fits = RamCap
      /\ first \in Seq(Int) /\ Len(first) = fits /\ rest \in Seq(Int) /\ Len(rest) = m - fits
      /\ ram \o first \in Seq(Int) /\ Len(ram \o first) = Len(ram) + fits
      /\ Part(ram \o first, 0)
      /\ Part(spill, Len(ram) + fits)
      /\ fits < m => /\ spill \o rest \in Seq(Int) /\ Len(spill \o rest) = Len(spill) + (m - fits)
                     /\ Part(spill \o rest, Len(ram) + fits)
  BY <1>a, Delivered
<1>2. \/ ram' = ram \o first /\ fits = m /\ UNCHANGED <<spill, spillFile>>
      \/ ram' = ram \o first /\ fits # m /\ spill' = spill \o rest /\ spillFile' = TRUE
      \/ /\ ~Keep(data) /\ ram' = ram \o first /\ fits < m
         /\ (spillFile' = spillFile \/ spillFile' = TRUE) /\ UNCHANGED spill
  BY <1>1, <1>a DEF Split, Keep, KeepFails
<1>3. /\ m \in Nat /\ ram \in Seq(Int) /\ spill \in Seq(Int) /\ spillFile \in BOOLEAN
      /\ Len(ram) \in Nat /\ Len(spill) \in Nat /\ Length = Len(ram) + Len(spill) /\ RamCap \in Nat
      /\ (spill # <<>> => Len(ram) = RamCap /\ spillFile) /\ (spillFile => Len(ram) = RamCap)
  BY <1>1, Lengths, SpoolAssumption DEF SpoolInv, SpoolType, Pieces, FileThere, Length
<1> SUFFICES /\ ram' \in Seq(Int) /\ spill' \in Seq(Int) /\ spillFile' \in BOOLEAN
              /\ Part(ram', 0) /\ Part(spill', Len(ram'))
              /\ Len(ram') <= RamCap /\ (spill' # <<>> => Len(ram') = RamCap)
              /\ (spillFile' => Len(ram') = RamCap) /\ (spill' # <<>> => spillFile')
              /\ Length' \in Nat /\ Length' \in Length..(Length + m)
              /\ (Keep(data) => Length' = Length + m)
  BY DEF Part
<1>4. CASE ram' = ram \o first /\ fits = m /\ UNCHANGED <<spill, spillFile>>
  <2>1. /\ Len(ram') = Len(ram) + m /\ Len(ram') \in Nat /\ Len(ram') <= RamCap /\ Part(ram', 0)
        /\ ram' \in Seq(Int)
    BY <1>1, <1>3, <1>4
  <2>2. spillFile => m = 0
    BY <1>1, <1>3, <1>4
  <2>3. Length' = Length + m
    BY <1>3, <1>4, <2>1 DEF Length
  <2>4. Part(spill', Len(ram'))
    BY <1>1, <1>4, <2>1
  <2>5. Length' \in Nat /\ Length' \in Length..(Length + m)
    BY <1>3, <2>3
  <2>6. spill' # <<>> => Len(ram') = RamCap
    <3>1. Len(ram) = RamCap => Len(ram') = RamCap
      BY <1>1, <1>3, <2>1
    <3>2. spill' # <<>> => Len(ram) = RamCap
      BY <1>3, <1>4
    <3> QED
      BY <3>1, <3>2
  <2> QED
    BY <1>3, <1>4, <2>1, <2>2, <2>3, <2>4, <2>5, <2>6
<1>5. CASE ram' = ram \o first /\ fits # m /\ spill' = spill \o rest /\ spillFile' = TRUE
  <2>1. /\ fits < m /\ ram' \in Seq(Int) /\ Len(ram') = RamCap /\ Len(ram') = Len(ram) + fits
        /\ Part(ram', 0)
    BY <1>1, <1>5
  <2>2. spill' \in Seq(Int) /\ Len(spill') = Len(spill) + (m - fits) /\ Part(spill', Len(ram'))
    BY <1>1, <1>5, <2>1
  <2>3. Length' = Length + m
    BY <1>1, <1>3, <2>1, <2>2 DEF Length
  <2>4. Length' \in Nat /\ Length' \in Length..(Length + m)
    BY <1>3, <2>3
  <2> QED
    BY <1>3, <1>5, <2>1, <2>2, <2>3, <2>4
<1>6. CASE /\ ~Keep(data) /\ ram' = ram \o first /\ fits < m
           /\ (spillFile' = spillFile \/ spillFile' = TRUE) /\ UNCHANGED spill
  <2>1. ram' = ram \o first /\ fits < m /\ spill' = spill
    BY <1>6, Zenon
  <2>2. spillFile' = spillFile \/ spillFile' = TRUE
    BY <1>6, Zenon
  <2>3. /\ ram' \in Seq(Int) /\ Len(ram') = RamCap /\ Len(ram') = Len(ram) + fits
        /\ Part(ram', 0)
    BY <1>1, <2>1
  <2>4. Part(spill', Len(ram'))
    BY <1>1, <2>1, <2>3
  <2>5. (spill' # <<>> => spillFile') /\ spillFile' \in BOOLEAN
    BY <1>3, <2>1, <2>2
  <2>6. Length' \in Nat /\ Length' \in Length..(Length + m)
    <3>1. Length' = Len(ram) + fits + Len(spill) /\ fits \in 0..m
      BY <1>1, <2>1, <2>3 DEF Length
    <3> QED
      BY <1>3, <3>1
  <2>7. Len(ram') <= RamCap /\ spill' \in Seq(Int)
    BY <1>3, <2>1, <2>3
  <2> QED
    BY <1>6, <2>3, <2>4, <2>5, <2>6, <2>7, Zenon
<1> QED
  BY <1>2, <1>4, <1>5, <1>6

(* One Read of the source keeps the invariant.                             *)
LEMMA PullStep == ASSUME SpoolInv, Pull PROVE SpoolInv' /\ Length' >= Length
<1>1. PICK m \in 0..Least(Chunk, Len(Content) - Length) :
        LET data == SubSeq(Content, Length + 1, Length + m) IN
        \/ m > 0 /\ Keep(data) /\ UNCHANGED <<eof, srcErr>>
        \/ Length + m = Len(Content) /\ Keep(data) /\ eof' = TRUE /\ UNCHANGED srcErr
        \/ Keep(data) /\ srcErr' = TRUE /\ UNCHANGED eof
        \/ KeepFails(data) /\ srcErr' = TRUE /\ UNCHANGED eof
  BY DEF Pull
<1>2. PICK data : data = SubSeq(Content, Length + 1, Length + m)
  OBVIOUS
<1>3. /\ Keep(data) \/ KeepFails(data)
      /\ eof' \in BOOLEAN /\ srcErr' \in BOOLEAN
      /\ eof' => eof \/ (Length + m = Len(Content) /\ Keep(data))
  <2>1. eof \in BOOLEAN /\ srcErr \in BOOLEAN
    BY DEF SpoolInv, SpoolType
  <2>2. \/ Keep(data) /\ eof' = eof /\ srcErr' = srcErr
        \/ Length + m = Len(Content) /\ Keep(data) /\ eof' = TRUE /\ srcErr' = srcErr
        \/ Keep(data) /\ srcErr' = TRUE /\ eof' = eof
        \/ KeepFails(data) /\ srcErr' = TRUE /\ eof' = eof
    BY <1>1, <1>2, Zenon
  <2>3. Keep(data) \/ KeepFails(data)
    BY <2>2, Zenon
  <2>6. eof' = eof \/ (Length + m = Len(Content) /\ Keep(data))
    BY <2>2, Zenon
  <2>4. (eof' = eof \/ eof' = TRUE) /\ (srcErr' = srcErr \/ srcErr' = TRUE)
    BY <2>2, Zenon
  <2>5. eof' \in BOOLEAN /\ srcErr' \in BOOLEAN
    BY <2>1, <2>4
  <2> QED
    BY <2>3, <2>5, <2>6, Zenon
<1>4. /\ Pulling /\ UNCHANGED <<spillBroken, size, pos, closed, call, wanted, reply>>
      /\ call.step = "ensure" /\ Length < call.need /\ ~eof /\ ~closed
  BY DEF Pull, Pulling, SpoolInv, CallInv
<1>5. /\ m \in Nat /\ m <= Chunk /\ Length + m <= Len(Content) /\ Length \in Nat
      /\ Chunk \in Nat /\ Len(Content) \in Nat /\ wanted \in Nat /\ call.need \in Nat
      /\ call.need <= wanted
  <2>1. /\ Length \in Nat /\ Chunk \in Nat /\ Len(Content) \in Nat /\ Length <= Len(Content)
        /\ wanted \in Nat /\ call.need \in Nat /\ call.need <= wanted
    BY Lengths, SpoolAssumption DEF SpoolInv, SpoolType, Pieces, Part, Length, Calls, OnDemand
  <2>2. m \in 0..Least(Chunk, Len(Content) - Length)
    OBVIOUS
  <2> QED
    BY <2>1, <2>2 DEF Least
<1>6. /\ ram' \in Seq(Int) /\ spill' \in Seq(Int) /\ spillFile' \in BOOLEAN
      /\ Part(ram, 0)' /\ Part(spill, Len(ram))'
      /\ Len(ram') <= RamCap /\ (spill' # <<>> => Len(ram') = RamCap)
      /\ (spillFile' => Len(ram') = RamCap) /\ (spill' # <<>> => spillFile')
      /\ Length' \in Nat /\ Length' \in Length..(Length + m)
      /\ (Keep(data) => Length' = Length + m)
  <2>1. Ahead(m, data)
    BY <1>2, <1>5, SourceRead
  <2> QED
    BY <1>3, <1>4, <2>1, Kept
<1>7. SpoolType'
  BY <1>3, <1>4, <1>6 DEF SpoolInv, SpoolType
<1>8. Pieces'
  BY <1>3, <1>4, <1>6 DEF Pieces
<1>9. FileThere'
  BY <1>4, <1>6 DEF FileThere
<1>10. OnDemand'
  <2>1. Length' < wanted + Chunk
    BY <1>4, <1>5, <1>6
  <2> QED
    BY <1>4, <1>5, <2>1 DEF OnDemand
<1>11. CallInv'
  BY <1>4 DEF SpoolInv, CallInv
<1>12. Length' >= Length
  BY <1>5, <1>6
<1> QED
  BY <1>12, <1>7, <1>8, <1>9, <1>10, <1>11 DEF SpoolInv

(* Asking for more does no harm.                                           *)
LEMMA FurtherStill ==
  ASSUME NEW l \in Nat, NEW a \in Nat, NEW b \in Nat, NEW c \in Nat, l < a + c, a <= b
  PROVE  l < b + c
OBVIOUS

(* A call that reads begins.                                               *)
LEMMA BeginStep ==
  ASSUME SpoolInv, Ready, NEW op \in {"Read", "ReadAt"}, NEW at \in Nat, NEW len \in 1..MaxLen,
         op = "Read" => at = pos, op = "ReadAt" => at \in 0..(Len(Content) + MaxLen),
         Begin(Call(op, at, len, at + len))
  PROVE  SpoolInv'
<1>1. PICK c : c = [op |-> op, at |-> at, len |-> len, need |-> at + len,
                    step |-> "ensure", data |-> <<>>]
  OBVIOUS
<1>2. /\ c \in Calls /\ c.op = op /\ c.at = at /\ c.len = len /\ c.need = at + len
      /\ c.step = "ensure" /\ c.data = <<>> /\ Len(c.data) = 0
  <2>1. MaxLen \in Nat /\ <<>> \in Seq(Int) /\ Len(<<>>) = 0
    BY SpoolAssumption
  <2> QED
    BY <1>1, <2>1 DEF Calls
<1>3. /\ call' = c /\ wanted' = Most(wanted, c.need)
      /\ UNCHANGED <<ram, spill, spillFile, eof, srcErr, size, pos, closed>> /\ ~closed
  BY <1>1 DEF Begin, Call, Ready, srcVars
<1>4. wanted \in Nat /\ c.need \in Nat /\ wanted' \in Nat /\ wanted' >= wanted /\ c.need <= wanted'
  BY <1>2, <1>3 DEF SpoolInv, SpoolType, Calls, Most
<1>5. SpoolType'
  BY <1>2, <1>3, <1>4 DEF SpoolInv, SpoolType
<1>6. Pieces' /\ Length' = Length
  BY <1>3, PiecesKept
<1>7. FileThere'
  BY <1>3 DEF SpoolInv, FileThere
<1>8. OnDemand'
  <2>1. Length < wanted + Chunk /\ Length \in Nat /\ Chunk \in Nat
    BY Lengths, SpoolAssumption DEF SpoolInv, OnDemand
  <2>2. Length < wanted' + Chunk
    <3>1. wanted \in Nat /\ wanted' \in Nat /\ wanted <= wanted'
      BY <1>4
    <3> QED
      BY <2>1, <3>1, FurtherStill
  <2> QED
    BY <1>3, <1>4, <1>6, <2>2 DEF OnDemand
<1>9. CallInv'
  <2>1. Len(c.data) <= c.len
    BY <1>2, SpoolAssumption
  <2> QED
    BY <1>2, <1>3, <2>1 DEF CallInv
<1> QED
  BY <1>5, <1>6, <1>7, <1>8, <1>9 DEF SpoolInv

(* A call ends, or the blob is closed.                                     *)
LEMMA EndStep ==
  ASSUME SpoolInv, call' = Idle, UNCHANGED <<ram, spill, eof, srcErr, wanted>>,
         size' \in Int, pos' \in Nat,
         \/ UNCHANGED <<spillFile, closed>>
         \/ spillFile' = FALSE /\ closed' = TRUE
  PROVE  SpoolInv'
<1>1. /\ Idle \in Calls /\ Idle.op = "none" /\ Idle.step = "none" /\ Idle.data = <<>>
      /\ Idle.need = 0 /\ Idle.len = 0 /\ Len(Idle.data) = 0
  <2>1. <<>> \in Seq(Int) /\ Len(<<>>) = 0
    OBVIOUS
  <2> QED
    BY <2>1 DEF Idle, Calls
<1>2. SpoolType'
  BY <1>1 DEF SpoolInv, SpoolType
<1>3. Pieces' /\ Length' = Length
  BY PiecesKept
<1>4. FileThere'
  BY DEF SpoolInv, FileThere
<1>5. OnDemand'
  BY <1>1, <1>3 DEF SpoolInv, SpoolType, OnDemand
<1>6. CallInv'
  <2> HIDE DEF Idle
  <2> QED
    BY <1>1 DEF CallInv
<1> QED
  BY <1>2, <1>3, <1>4, <1>5, <1>6 DEF SpoolInv

(* copyFrom: what it copies continues what the call has.                   *)
LEMMA GotStep ==
  ASSUME SpoolInv, Copying, NEW bytes \in Seq(Int), Part(bytes, From),
         Len(bytes) <= Missing, From + Len(bytes) <= Length, Got(bytes),
         UNCHANGED <<ram, spill, spillFile, eof, srcErr, size, pos, closed, wanted>>
  PROVE  SpoolInv'
<1>1. /\ call \in Calls /\ call.data \in Seq(Int) /\ call.at \in Nat /\ call.len \in Nat
      /\ Len(call.data) \in Nat /\ Len(bytes) \in Nat /\ call.need \in Nat
      /\ Length \in Nat /\ Length <= Len(Content) /\ Len(Content) \in Nat
  BY Lengths, SpoolAssumption DEF SpoolInv, SpoolType, Calls, Pieces, Part, Length
<1>2. call.step = "copy" /\ call.len - Len(call.data) > 0 /\ call.at + Len(call.data) < Length
  BY DEF Copying, Missing, From
<1>3. PICK d : d = call.data \o bytes
  OBVIOUS
<1>4. d \in Seq(Int) /\ Len(d) = Len(call.data) + Len(bytes)
  BY <1>1, <1>3, Joined
<1>5. /\ call' \in Calls /\ call'.data = d /\ call'.op = call.op /\ call'.at = call.at
      /\ call'.len = call.len /\ call'.need = call.need /\ call'.step = "copy"
  BY <1>1, <1>2, <1>3, <1>4 DEF Got, Calls
<1>6. Part(call.data, call.at)
  <2>1. CASE call.data = <<>>
    <3>1. Len(call.data) = 0 /\ call.at + Len(call.data) <= Len(Content) /\ 1..Len(call.data) = {}
      BY <1>1, <1>2, <2>1
    <3> QED
      BY <3>1 DEF Part
  <2>2. CASE call.data # <<>>
    BY <2>2 DEF SpoolInv, CallInv
  <2> QED
    BY <2>1, <2>2
<1>7. Part(d, call.at)
  <2>1. Part(bytes, call.at + Len(call.data))
    BY DEF From
  <2> QED
    BY <1>1, <1>3, <1>6, <2>1, PartsJoin
<1>8. Len(d) <= call.len /\ call.at + Len(d) <= Length
  <2>1. Len(bytes) <= call.len - Len(call.data) /\ call.at + Len(call.data) + Len(bytes) <= Length
    BY DEF Missing, From
  <2> QED
    BY <1>1, <1>4, <2>1
<1>9. SpoolType'
  BY <1>5 DEF SpoolInv, SpoolType
<1>10. Pieces' /\ Length' = Length
  BY PiecesKept
<1>11. FileThere'
  BY DEF SpoolInv, FileThere
<1>12. OnDemand'
  BY <1>5, <1>10 DEF SpoolInv, OnDemand
<1>13. CallInv'
  <2>1. /\ ~closed /\ call.op # "none" /\ (Length >= call.need \/ eof \/ srcErr)
        /\ call.op \in {"Read", "ReadAt"} => call.need = call.at + call.len /\ call.len \in 1..MaxLen
        /\ call.op = "ReadAt" => call.at \in 0..(Len(Content) + MaxLen)
        /\ call.op = "Read" => call.at = pos
    BY <1>2 DEF SpoolInv, CallInv
  <2>2. /\ call'.step = "copy" /\ ~closed' /\ call'.op # "none" /\ (Length' >= call'.need \/ eof' \/ srcErr')
        /\ call'.op \in {"Read", "ReadAt"} => call'.need = call'.at + call'.len /\ call'.len \in 1..MaxLen
        /\ call'.op = "ReadAt" => call'.at \in 0..(Len(Content) + MaxLen)
        /\ call'.op = "Read" => call'.at = pos'
    BY <1>5, <1>10, <2>1
  <2>3. Len(call'.data) <= call'.len /\ call'.at + Len(call'.data) <= Length'
    BY <1>5, <1>8, <1>10
  <2>4. Part(call.data, call.at)'
    BY <1>5, <1>7 DEF Part
  <2> QED
    BY <2>2, <2>3, <2>4 DEF CallInv
<1> QED
  BY <1>9, <1>10, <1>11, <1>12, <1>13 DEF SpoolInv

(* Copying from memory.                                                    *)
LEMMA CopyRamStep == ASSUME SpoolInv, CopyRam PROVE SpoolInv'
<1>1. /\ call.data \in Seq(Int) /\ call.at \in Nat /\ call.len \in Nat /\ ram \in Seq(Int)
      /\ Len(call.data) \in Nat /\ Len(ram) \in Nat /\ Len(spill) \in Nat
      /\ Length = Len(ram) + Len(spill) /\ Part(ram, 0)
  BY Lengths, SpoolAssumption DEF SpoolInv, SpoolType, Calls, Pieces, Length
<1>2. From \in Nat /\ Missing \in Int /\ Missing > 0 /\ From < Len(ram)
  BY <1>1 DEF CopyRam, Copying, From, Missing
<1>3. PICK b : b = Least(Len(ram), From + Missing)
  OBVIOUS
<1>4. b \in Nat /\ From <= b /\ b <= Len(ram) /\ b - From <= Missing
  BY <1>1, <1>2, <1>3 DEF Least
<1>5. PICK bytes : bytes = SubSeq(ram, From + 1, b)
  OBVIOUS
<1>6. /\ bytes \in Seq(Int) /\ Len(bytes) = b - From
      /\ \A i \in 1..(b - From) : bytes[i] = ram[From + i]
  BY <1>1, <1>2, <1>4, <1>5, Cut
<1>7. Part(bytes, From)
  <2>1. From + Len(bytes) <= Len(Content)
    BY <1>1, <1>2, <1>4, <1>6, SpoolAssumption DEF Part
  <2>2. ASSUME NEW i \in 1..Len(bytes) PROVE bytes[i] = Content[From + i]
    <3>1. i \in 1..(b - From) /\ From + i \in 1..Len(ram) /\ 0 + (From + i) = From + i
      BY <1>1, <1>2, <1>4, <1>6, <2>2
    <3>2. ram[From + i] = Content[0 + (From + i)]
      BY <1>1, <3>1 DEF Part
    <3> QED
      BY <1>6, <3>1, <3>2
  <2> QED
    BY <2>1, <2>2 DEF Part
<1>8. Len(bytes) <= Missing /\ From + Len(bytes) <= Length
  BY <1>1, <1>2, <1>4, <1>6
<1>9. /\ Copying /\ Got(bytes)
      /\ UNCHANGED <<ram, spill, spillFile, eof, srcErr, size, pos, closed, wanted>>
  BY <1>3, <1>5 DEF CopyRam, srcVars
<1> QED
  BY <1>6, <1>7, <1>8, <1>9, GotStep

(* Copying from the temporary file.                                        *)
LEMMA CopySpillStep == ASSUME SpoolInv, CopySpill PROVE SpoolInv'
<1>1. /\ call.data \in Seq(Int) /\ call.at \in Nat /\ call.len \in Nat /\ spill \in Seq(Int)
      /\ Len(call.data) \in Nat /\ Len(ram) \in Nat /\ Len(spill) \in Nat
      /\ Length = Len(ram) + Len(spill) /\ Part(spill, Len(ram))
  BY Lengths, SpoolAssumption DEF SpoolInv, SpoolType, Calls, Pieces, Length
<1>2. From \in Nat /\ Missing \in Int /\ Missing > 0 /\ From >= Len(ram) /\ From < Length
  BY <1>1 DEF CopySpill, Copying, From, Missing
<1>3. PICK so, b : so = From - Len(ram) /\ b = Least(Len(spill), so + Missing)
  OBVIOUS
<1>4. /\ so \in Nat /\ b \in Nat /\ so <= b /\ b <= Len(spill) /\ b - so <= Missing
      /\ From = Len(ram) + so
  <2>1. so \in Nat /\ From = Len(ram) + so /\ so < Len(spill)
    BY <1>1, <1>2, <1>3
  <2> QED
    BY <1>1, <1>2, <1>3, <2>1 DEF Least
<1>5. PICK bytes : bytes = SubSeq(spill, so + 1, b)
  OBVIOUS
<1>6. /\ bytes \in Seq(Int) /\ Len(bytes) = b - so
      /\ \A i \in 1..(b - so) : bytes[i] = spill[so + i]
  BY <1>1, <1>4, <1>5, Cut
<1>7. Part(bytes, From)
  <2>1. From + Len(bytes) <= Len(Content)
    BY <1>1, <1>2, <1>4, <1>6, SpoolAssumption DEF Part
  <2>2. ASSUME NEW i \in 1..Len(bytes) PROVE bytes[i] = Content[From + i]
    <3>1. i \in 1..(b - so) /\ so + i \in 1..Len(spill) /\ Len(ram) + (so + i) = From + i
      BY <1>1, <1>2, <1>4, <1>6, <2>2
    <3>2. spill[so + i] = Content[Len(ram) + (so + i)]
      BY <1>1, <3>1 DEF Part
    <3> QED
      BY <1>6, <3>1, <3>2
  <2> QED
    BY <2>1, <2>2 DEF Part
<1>8. Len(bytes) <= Missing /\ From + Len(bytes) <= Length
  BY <1>1, <1>2, <1>4, <1>6
<1>9. /\ Copying /\ Got(bytes)
      /\ UNCHANGED <<ram, spill, spillFile, eof, srcErr, size, pos, closed, wanted>>
  BY <1>3, <1>5 DEF CopySpill, srcVars
<1> QED
  BY <1>6, <1>7, <1>8, <1>9, GotStep

(* Where a blob begins, its size known or not.                             *)
LEMMA SpoolInit == Init => SpoolInv
<1> SUFFICES ASSUME Init PROVE SpoolInv
  OBVIOUS
<1>1. /\ Len(<<>>) = 0 /\ <<>> \in Seq(Int) /\ 0 \in Nat /\ Chunk \in Nat \ {0} /\ RamCap \in Nat
      /\ Len(Content) \in Nat /\ MaxLen \in Nat /\ All \in Nat
  BY SpoolAssumption DEF All
<1>2. /\ ram = <<>> /\ spill = <<>> /\ spillFile = FALSE /\ eof = FALSE /\ srcErr = FALSE
      /\ pos = 0 /\ closed = FALSE /\ size \in Int
  BY SpoolAssumption DEF Init
<1>3. \/ /\ wanted = All
         /\ call = [op |-> "New", at |-> 0, len |-> 0, need |-> All, step |-> "ensure", data |-> <<>>]
      \/ wanted = 0 /\ call = Idle
  BY DEF Init, Call
<1>4. /\ call \in Calls /\ wanted \in Nat /\ call.need <= wanted /\ call.data = <<>> /\ call.len = 0
      /\ call.op \in {"New", "none"} /\ (call.step = "none" => call = Idle) /\ call.step # "copy"
      /\ call.op = "none" => call.step = "none"
  <2>1. All <= All /\ 0 <= 0 /\ 0 \in Nat /\ All \in Nat /\ <<>> \in Seq(Int)
    BY <1>1
  <2>2. CASE /\ wanted = All
             /\ call = [op |-> "New", at |-> 0, len |-> 0, need |-> All, step |-> "ensure", data |-> <<>>]
    BY <2>1, <2>2 DEF Calls
  <2>3. CASE wanted = 0 /\ call = Idle
    BY <2>1, <2>3 DEF Idle, Calls
  <2> QED
    BY <1>3, <2>2, <2>3
<1>5. SpoolType
  BY <1>1, <1>2, <1>4 DEF SpoolType
<1>6. Length = 0 /\ Length < wanted + Chunk
  BY <1>1, <1>2, <1>4 DEF Length
<1>7. Pieces /\ FileThere /\ OnDemand
  <2>1. Part(ram, 0) /\ Part(spill, Len(ram))
    BY <1>1, <1>2 DEF Part
  <2> QED
    BY <1>1, <1>2, <1>4, <1>6, <2>1 DEF Pieces, FileThere, OnDemand
<1>8. CallInv
  BY <1>1, <1>2, <1>4 DEF CallInv
<1> QED
  BY <1>5, <1>7, <1>8 DEF SpoolInv

(* Every step keeps it.                                                    *)
LEMMA SpoolNext == SpoolInv /\ [Next]_vars => SpoolInv'
<1> SUFFICES ASSUME SpoolInv, [Next]_vars PROVE SpoolInv'
  OBVIOUS
<1>0. pos \in Nat /\ size \in Int /\ MaxLen \in Nat /\ Len(Content) \in Nat /\ call \in Calls
  BY SpoolAssumption DEF SpoolInv, SpoolType
<1>1. CASE ReadAt
  <2>1. PICK off \in 0..(Len(Content) + MaxLen), len \in 1..MaxLen :
          Begin(Call("ReadAt", off, len, off + len))
    BY <1>1 DEF ReadAt
  <2>2. Ready /\ off \in Nat
    BY <1>1 DEF ReadAt
  <2> QED
    BY <2>1, <2>2, BeginStep
<1>2. CASE Read
  <2>1. PICK len \in 1..MaxLen : Begin(Call("Read", pos, len, pos + len))
    BY <1>2 DEF Read
  <2>2. Ready /\ pos \in Nat
    BY <1>0, <1>2 DEF Read
  <2> QED
    BY <2>1, <2>2, BeginStep
<1>3. CASE Size
  <2>1. /\ call' = Idle
        /\ UNCHANGED <<ram, spill, eof, srcErr, wanted, spillFile, closed, size, pos>>
    BY <1>3 DEF Size, Reply, srcVars
  <2> QED
    BY <1>0, <2>1, EndStep
<1>4. CASE Seek
  <2>1. /\ call' = Idle
        /\ UNCHANGED <<ram, spill, eof, srcErr, wanted, spillFile, closed, size>>
    BY <1>4 DEF Seek, Reply, srcVars
  <2>2. pos' \in Nat
    <3>1. PICK base \in {0, pos, size}, d \in (-MaxLen)..MaxLen :
            IF base + d < 0 THEN UNCHANGED pos ELSE pos' = base + d
      BY <1>4 DEF Seek
    <3>2. base + d \in Int
      BY <1>0
    <3> QED
      BY <1>0, <3>1, <3>2
  <2> QED
    BY <1>0, <2>1, <2>2, EndStep
<1>5. CASE Close
  <2>1. /\ call' = Idle /\ UNCHANGED <<ram, spill, eof, srcErr, wanted, size, pos>>
        /\ spillFile' = FALSE /\ closed' = TRUE
    BY <1>5 DEF Close
  <2> QED
    BY <1>0, <2>1, EndStep
<1>6. CASE Pull
  BY <1>6, PullStep
<1>7. CASE Pulled
  <2>1. /\ call.step = "ensure" /\ ~Pulling
        /\ UNCHANGED <<ram, spill, spillFile, eof, srcErr, size, pos, closed, wanted>>
    BY <1>7 DEF Pulled, srcVars
  <2>2. /\ call' \in Calls /\ call'.step = "copy" /\ call'.op = call.op /\ call'.at = call.at
        /\ call'.len = call.len /\ call'.need = call.need /\ call'.data = call.data
    BY <1>0, <1>7 DEF Pulled, Calls
  <2>3. Length >= call.need \/ eof \/ srcErr
    <3>1. Length \in Nat /\ call.need \in Nat
      BY <1>0, Lengths DEF SpoolInv, Calls
    <3> QED
      BY <2>1, <3>1 DEF Pulling
  <2>4. SpoolType'
    BY <2>1, <2>2 DEF SpoolInv, SpoolType
  <2>5. Pieces' /\ Length' = Length
    BY <2>1, PiecesKept
  <2>6. FileThere' /\ OnDemand'
    BY <2>1, <2>2, <2>5 DEF SpoolInv, FileThere, OnDemand
  <2>7. CallInv'
    BY <2>1, <2>2, <2>3, <2>5 DEF SpoolInv, CallInv
  <2> QED
    BY <2>4, <2>5, <2>6, <2>7 DEF SpoolInv
<1>8. CASE CopyRam
  BY <1>8, CopyRamStep
<1>9. CASE CopySpill
  BY <1>9, CopySpillStep
<1>10. CASE Return
  <2>1. /\ call' = Idle
        /\ UNCHANGED <<ram, spill, eof, srcErr, wanted, spillFile, closed, size>>
    BY <1>10 DEF Return, Reply, srcVars
  <2>2. pos' \in Nat
    <3>1. Len(call.data) \in Nat
      BY <1>0 DEF Calls
    <3> QED
      BY <1>0, <1>10, <3>1 DEF Return
  <2> QED
    BY <1>0, <2>1, <2>2, EndStep
<1>11. CASE ReturnNew
  <2>1. /\ call' = Idle /\ UNCHANGED <<ram, spill, eof, srcErr, wanted, pos>>
        /\ (UNCHANGED <<spillFile, closed>> \/ (spillFile' = FALSE /\ closed' = TRUE))
        /\ size' \in {size, Length}
    BY <1>11 DEF ReturnNew, Reply
  <2>2. size' \in Int
    BY <1>0, <2>1, Lengths DEF SpoolInv
  <2> QED
    BY <1>0, <2>1, <2>2, EndStep
<1>12. CASE SpillBreaks \/ CopyNothing \/ UNCHANGED vars
  <2>1. UNCHANGED <<ram, spill, spillFile, eof, srcErr, size, pos, closed, call, wanted>>
    BY <1>12 DEF SpillBreaks, CopyNothing, vars, srcVars
  <2>2. SpoolType' /\ FileThere'
    BY <2>1 DEF SpoolInv, SpoolType, FileThere
  <2>3. Pieces' /\ Length' = Length
    BY <2>1, PiecesKept
  <2>4. OnDemand' /\ CallInv'
    BY <2>1, <2>3 DEF SpoolInv, OnDemand, CallInv, Part
  <2> QED
    BY <2>2, <2>3, <2>4 DEF SpoolInv
<1> QED
  BY <1>1, <1>2, <1>3, <1>4, <1>5, <1>6, <1>7, <1>8, <1>9, <1>10, <1>11, <1>12 DEF Next, Step

(* The blob holds a piece of the content in order, memory first, and the   *)
(* call under way has copied the right bytes of it, in every state.        *)
THEOREM SpoolInvAlways == Spec => []SpoolInv
BY SpoolInit, SpoolNext, PTL DEF Spec

(* MemoryBound, for any content, memory limit and chunk: memory holds at   *)
(* most --spool-mem-limit bytes, a temporary file exists only when that is *)
(* full and the blob open, and less than a chunk is pulled beyond what was *)
(* asked for.                                                              *)
THEOREM MemoryIsBounded == Spec => []MemoryBound
<1>1. SpoolInv => MemoryBound
  BY DEF SpoolInv, Pieces, FileThere, OnDemand, MemoryBound
<1> QED
  BY <1>1, SpoolInvAlways, PTL

----------------------------------------------------------------------------
(* An unknown size is found before anything else is asked of a blob.       *)
SizeInv ==
  /\ call.op = "New" => call.at = 0 /\ call.len = 0 /\ call.need = All
  /\ size = -1 => call.op = "New" \/ closed

(* Every step keeps that.                                                  *)
LEMMA SizeStep == SpoolInv /\ SizeInv /\ [Next]_vars => SizeInv'
<1> SUFFICES ASSUME SpoolInv, SizeInv, [Next]_vars PROVE SizeInv'
  OBVIOUS
<1> USE DEF SizeInv
<1>1. CASE ReadAt \/ Read
  BY <1>1 DEF ReadAt, Read, Ready, Begin, Call, Idle
<1>2. CASE Size \/ Seek \/ Close
  BY <1>2 DEF Size, Seek, Close, Ready, Reply, Idle
<1>3. CASE Pull \/ SpillBreaks \/ CopyNothing \/ UNCHANGED vars
  BY <1>3 DEF Pull, SpillBreaks, CopyNothing, vars
<1>4. CASE Pulled \/ CopyRam \/ CopySpill
  <2>1. UNCHANGED <<size, closed>> /\ call \in Calls
    BY <1>4 DEF Pulled, CopyRam, CopySpill, SpoolInv, SpoolType
  <2>2. call'.op = call.op /\ call'.at = call.at /\ call'.len = call.len /\ call'.need = call.need
    BY <1>4, <2>1 DEF Pulled, CopyRam, CopySpill, Got, Calls
  <2> QED
    BY <2>1, <2>2
<1>5. CASE Return
  BY <1>5 DEF Return, Reply, Idle
<1>6. CASE ReturnNew
  <2>1. Length # -1
    <3>1. Length \in Nat
      BY Lengths DEF SpoolInv
    <3> QED
      BY <3>1
  <2> QED
    BY <1>6, <2>1 DEF ReturnNew, Reply, Idle
<1> QED
  BY <1>1, <1>2, <1>3, <1>4, <1>5, <1>6 DEF Next, Step

(* What a call has copied when its loop ends are the bytes it asked for,   *)
(* as far as they were pulled.                                             *)
LEMMA BytesRight ==
  ASSUME SpoolInv, call.step = "copy", ~Copying, call.op \in {"Read", "ReadAt"}
  PROVE  /\ call.data = Promise!Bytes
         /\ Missing = 0 <=> Len(call.data) = call.len
         /\ Missing # 0 /\ ~srcErr => Length = Len(Content)
<1>1. /\ call.data \in Seq(Int) /\ call.at \in Nat /\ call.len \in Nat /\ call.need \in Nat
      /\ Len(call.data) \in Nat /\ Len(call.data) <= call.len /\ call.need = call.at + call.len
      /\ Length \in Nat /\ Length <= Len(Content) /\ Len(Content) \in Nat /\ Content \in Seq(Int)
      /\ (eof => Length = Len(Content)) /\ (Length >= call.need \/ eof \/ srcErr)
  BY Lengths, SpoolAssumption DEF SpoolInv, SpoolType, Calls, Pieces, Part, Length, CallInv
<1>2. Missing = call.len - Len(call.data) /\ From = call.at + Len(call.data)
  BY DEF Missing, From
<1>3. (Missing = 0) <=> (Len(call.data) = call.len)
  BY <1>1, <1>2
<1>4. Missing # 0 => From >= Length /\ Len(call.data) < call.len
  <2>1. ~(Missing > 0 /\ From < Length)
    BY DEF Copying
  <2> QED
    BY <1>1, <1>2, <2>1
<1>5. Missing # 0 /\ ~srcErr => Length = Len(Content)
  <2> SUFFICES ASSUME Missing # 0, ~srcErr, ~eof PROVE FALSE
    BY <1>1
  <2>1. Length >= call.need /\ From >= Length /\ Len(call.data) < call.len
    BY <1>1, <1>4
  <2> QED
    BY <1>1, <1>2, <2>1
<1>6. PICK e : e = IF call.at + call.len <= Length THEN call.at + call.len ELSE Length
  OBVIOUS
<1>7. e \in Nat /\ e <= Len(Content) /\ Promise!Bytes = SubSeq(Content, call.at + 1, e)
  <2>1. call.at + call.len \in Nat
    BY <1>1
  <2>2. e \in Nat /\ e <= Len(Content)
    BY <1>1, <1>6, <2>1
  <2>3. Promise!Bytes = SubSeq(Content, call.at + 1, e)
    BY <1>6, Zenon DEF Promise!Bytes
  <2> QED
    BY <2>2, <2>3
<1>8. CASE call.data = <<>>
  <2>1. e <= call.at
    <3>1. Len(call.data) = 0 /\ From = call.at
      BY <1>1, <1>2, <1>8
    <3>2. call.len # 0
      BY SpoolAssumption DEF SpoolInv, CallInv
    <3> QED
      BY <1>1, <1>2, <1>3, <1>4, <1>6, <3>1, <3>2
  <2>2. SubSeq(Content, call.at + 1, e) = <<>>
    BY <1>1, <1>7, <2>1
  <2> QED
    BY <1>3, <1>5, <1>7, <1>8, <2>2
<1>9. CASE call.data # <<>>
  <2>1. /\ call.at + Len(call.data) <= Length
        /\ \A i \in 1..Len(call.data) : call.data[i] = Content[call.at + i]
    BY <1>9 DEF SpoolInv, CallInv, Part
  <2>2. e = call.at + Len(call.data)
    BY <1>1, <1>2, <1>3, <1>4, <1>6, <2>1
  <2>3. PICK a, d : a = call.at /\ d = call.data
    OBVIOUS
  <2>4. a \in Nat /\ e \in Nat /\ a <= e /\ e <= Len(Content) /\ e - a = Len(d) /\ d \in Seq(Int)
    BY <1>1, <1>7, <2>2, <2>3
  <2>5. PICK t : t = SubSeq(Content, a + 1, e)
    OBVIOUS
  <2>6. t \in Seq(Int) /\ Len(t) = e - a /\ \A i \in 1..(e - a) : t[i] = Content[a + i]
    BY <1>1, <2>4, <2>5, Cut
  <2>7. d = t
    <3>1. Len(d) = Len(t) /\ \A i \in 1..Len(d) : d[i] = t[i]
      BY <2>1, <2>3, <2>4, <2>6
    <3> QED
      BY <2>4, <2>6, <3>1, SeqEqual
  <2> QED
    BY <1>3, <1>5, <1>7, <2>3, <2>5, <2>7
<1> QED
  BY <1>8, <1>9

(* Every step is one the promise allows, or changes nothing it speaks of.  *)
LEMMA BlobStep == SpoolInv /\ SizeInv /\ [Next]_vars => [Promise!BlobNext]_(Promise!blobVars)
<1> SUFFICES ASSUME SpoolInv, SizeInv, Next PROVE [Promise!BlobNext]_(Promise!blobVars)
  BY DEF vars, Promise!blobVars, Length
<1>0. /\ pos \in Nat /\ size \in Int /\ MaxLen \in Nat /\ Len(Content) \in Nat /\ call \in Calls
      /\ call.at \in Nat /\ call.len \in Nat /\ Len(call.data) \in Nat /\ Length \in Nat
      /\ srcErr \in BOOLEAN
  BY Lengths, SpoolAssumption DEF SpoolInv, SpoolType, Calls
<1> USE DEF Promise!Request, Promise!NoRequest, Promise!Result
<1>1. CASE ReadAt \/ Read
  <2>1. UNCHANGED <<ram, spill, srcErr, size, pos, reply>> /\ call = Idle
    BY <1>1 DEF ReadAt, Read, Ready, Begin, srcVars
  <2>2. \E len \in 1..MaxLen :
          \/ \E off \in 0..(Len(Content) + MaxLen) :
               call'.op = "ReadAt" /\ call'.at = off /\ call'.len = len
          \/ call'.op = "Read" /\ call'.at = pos /\ call'.len = len
    BY <1>1 DEF ReadAt, Read, Begin, Call
  <2>3. Promise!Ask
    BY <2>1, <2>2 DEF Promise!Ask, Promise!Offsets, Idle, Length
  <2> QED
    BY <2>3 DEF Promise!BlobNext
<1>2. CASE Size
  <2>1. size # -1 /\ call = Idle /\ UNCHANGED <<ram, spill, srcErr, size, pos, call>>
        /\ reply' = [op |-> "Size", data |-> <<size>>, err |-> "none"]
    BY <1>2 DEF Size, Ready, Reply, SizeInv, srcVars, Idle
  <2>2. Promise!Size
    BY <2>1 DEF Promise!Size, Idle, Length
  <2> QED
    BY <2>2 DEF Promise!BlobNext
<1>3. CASE Seek
  <2>1. PICK base \in {0, pos, size}, d \in (-MaxLen)..MaxLen :
          IF base + d < 0 THEN UNCHANGED pos /\ Reply("Seek", <<>>, "negative")
          ELSE pos' = base + d /\ Reply("Seek", <<base + d>>, "none")
    BY <1>3 DEF Seek
  <2>2. base + d \in Int
    BY <1>0
  <2>3. UNCHANGED <<ram, spill, srcErr, size, call>> /\ call = Idle
    BY <1>3, <2>1 DEF Seek, Ready, Reply, srcVars
  <2>4. \/ pos' \in Nat /\ reply' = [op |-> "Seek", data |-> <<pos'>>, err |-> "none"]
        \/ UNCHANGED pos /\ reply' = [op |-> "Seek", data |-> <<>>, err |-> "negative"]
    <3>1. CASE base + d < 0
      BY <2>1, <3>1 DEF Reply
    <3>2. CASE ~(base + d < 0)
      <4>1. pos' = base + d /\ pos' \in Nat
        BY <2>1, <2>2, <3>2
      <4> QED
        BY <2>1, <3>2, <4>1 DEF Reply
    <3> QED
      BY <3>1, <3>2
  <2>5. Promise!Seek
    BY <2>3, <2>4 DEF Promise!Seek, Idle, Length
  <2> QED
    BY <2>5 DEF Promise!BlobNext
<1>4. CASE Pull
  <2>1. UNCHANGED <<size, pos, call, reply>> /\ call.step = "ensure" /\ ~srcErr
    BY <1>4 DEF Pull, Pulling
  <2>2. call.op # "none"
    BY <2>1 DEF SpoolInv, CallInv
  <2>3. SpoolInv' /\ Length' >= Length
    BY <1>4, PullStep
  <2>4. Length' \in Length..Len(Content)
    <3>1. Len(ram') \in Nat /\ Len(spill') \in Nat /\ Length' = Len(ram') + Len(spill')
          /\ Length' <= Len(Content)
      BY <2>3 DEF SpoolInv, SpoolType, Pieces, Part, Length
    <3> QED
      BY <1>0, <2>3, <3>1
  <2>5. srcErr' \in BOOLEAN
    BY <2>3 DEF SpoolInv, SpoolType
  <2>6. Promise!Pulls
    BY <2>1, <2>2, <2>4, <2>5 DEF Promise!Pulls
  <2> QED
    BY <2>6 DEF Promise!BlobNext
<1>5. CASE Return
  <2>1. /\ call.step = "copy" /\ ~Copying /\ call' = Idle
        /\ reply' = [op |-> call.op, data |-> call.data,
                     err |-> IF Missing = 0 THEN "none" ELSE IF srcErr THEN "source" ELSE "eof"]
        /\ pos' = IF call.op = "Read" THEN pos + Len(call.data) ELSE pos
        /\ UNCHANGED <<ram, spill, srcErr, size>>
    BY <1>5 DEF Return, Reply, srcVars
  <2>2. call.op \in {"Read", "ReadAt"}
    BY <1>0, <1>5 DEF Return, SpoolInv, CallInv, Calls
  <2>3. /\ call.data = Promise!Bytes /\ (Missing = 0 <=> Len(call.data) = call.len)
        /\ (Missing # 0 /\ ~srcErr => Length = Len(Content))
    BY <2>1, <2>2, BytesRight
  <2>4. Length' = Length
    BY <2>1 DEF Length
  <2>5. Promise!Answer
    BY <2>1, <2>2, <2>3, <2>4 DEF Promise!Answer, Idle
  <2> QED
    BY <2>5 DEF Promise!BlobNext
<1>6. CASE ReturnNew
  <2>1. /\ call.step = "copy" /\ call.op = "New" /\ call' = Idle
        /\ reply' = [op |-> "New", data |-> <<>>, err |-> IF srcErr THEN "source" ELSE "none"]
        /\ size' = IF srcErr THEN size ELSE Length
        /\ UNCHANGED <<ram, spill, srcErr, pos>>
    BY <1>6 DEF ReturnNew, Reply
  <2>2. ~srcErr => Length = Len(Content)
    <3> SUFFICES ASSUME ~srcErr, ~eof PROVE FALSE
      BY DEF SpoolInv, Pieces
    <3>1. Length >= All
      BY <2>1 DEF SpoolInv, CallInv, SizeInv
    <3>2. Length <= Len(Content) /\ Chunk \in Nat \ {0}
      BY <1>0, SpoolAssumption, Lengths DEF SpoolInv, SpoolType, Pieces, Part, Length
    <3> QED
      BY <1>0, <3>1, <3>2 DEF All
  <2>3. Length' = Length
    BY <2>1 DEF Length
  <2>4. Promise!Create
    BY <2>1, <2>2, <2>3 DEF Promise!Create, Idle
  <2> QED
    BY <2>4 DEF Promise!BlobNext
<1>7. CASE Close \/ Pulled \/ CopyRam \/ CopySpill \/ CopyNothing \/ SpillBreaks
  <2>1. UNCHANGED <<ram, spill, srcErr, size, pos, reply>>
    BY <1>7 DEF Close, Pulled, CopyRam, CopySpill, CopyNothing, SpillBreaks, srcVars, vars
  <2>2. call'.op = call.op /\ call'.at = call.at /\ call'.len = call.len
    BY <1>0, <1>7 DEF Close, Pulled, CopyRam, CopySpill, CopyNothing, SpillBreaks, Got, vars, Calls
  <2> QED
    BY <2>1, <2>2 DEF Promise!blobVars, Length
<1> QED
  BY <1>1, <1>2, <1>3, <1>4, <1>5, <1>6, <1>7 DEF Next, Step

(* ImplementsBlob, for any content, memory limit, chunk and calls, also    *)
(* with a temporary file that breaks: what was pulled in pieces answers    *)
(* every read with the bytes at the offset asked for, fewer than asked     *)
(* for only at the real end or after a broken source, and each with its    *)
(* own error.                                                              *)
THEOREM SpoolImplementsBlob == Spec => ImplementsBlob
<1>1. Init => Promise!BlobInit /\ SizeInv
  <2> SUFFICES ASSUME Init PROVE Promise!BlobInit /\ SizeInv
    OBVIOUS
  <2>1. ram = <<>> /\ spill = <<>> /\ size \in Int /\ ~srcErr /\ srcErr \in BOOLEAN /\ pos = 0
        /\ reply = [op |-> "none", data |-> <<>>, err |-> "none"]
        /\ call = IF size = -1 THEN Call("New", 0, 0, All) ELSE Idle
    BY SpoolAssumption DEF Init
  <2>2. Length = 0
    BY <2>1 DEF Length
  <2>3. /\ size = -1 => call.op = "New" /\ call.at = 0 /\ call.len = 0 /\ call.need = All
        /\ size # -1 => call.op = "none" /\ call.at = 0 /\ call.len = 0
    BY <2>1 DEF Call, Idle
  <2> QED
    BY <2>1, <2>2, <2>3 DEF Promise!BlobInit, Promise!Request, Promise!NoRequest, Promise!Result, SizeInv
<1>2. Spec => []SizeInv
  BY <1>1, SizeStep, SpoolInvAlways, PTL DEF Spec
<1> QED
  BY <1>1, <1>2, BlobStep, SpoolInvAlways, PTL DEF Spec, ImplementsBlob, Promise!BlobSpec
=============================================================================
