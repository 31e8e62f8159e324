--------------------------- MODULE ArchiveProofs ---------------------------
(***************************************************************************)
(* Proofs about Archive, for any tree of archives, of any size and depth,  *)
(* any formats, any --archive-depth and any number of runs.                *)
(*                                                                         *)
(* What the argument turns on is what is still to be read: the members     *)
(* left in the archives on the stack, and the node the worker is at.  The  *)
(* subtrees they stand for do not meet, so what is counted at one leaves   *)
(* the others untouched; and every ebook that is not counted yet, and in   *)
(* nothing that was given up, lies in one of them.                         *)
(***************************************************************************)
EXTENDS Archive, SequenceTheorems, FiniteSetTheorems, TLAPS

(* A node is one occurrence: a top, or a member of one archive, once; an   *)
(* archive is not inside itself.                                           *)
Nested ==
  /\ \A a, b \in Node : \A i \in DOMAIN Members[a], j \in DOMAIN Members[b] :
       Members[a][i] = Members[b][j] => a = b /\ i = j
  /\ \A n \in Node : n \in Tops <=> \A a \in Node : n \notin Range(Members[a])
  /\ \E Level \in [Node -> Nat] :
       \A a \in Node : \A m \in Range(Members[a]) : Level[a] < Level[m]

(* An archive, or ebook, and what lies around it.                          *)
Line(n) == {n} \cup Above[n]

(* No node comes twice in a sequence.                                      *)
Once(s) == \A i, j \in DOMAIN s : s[i] = s[j] => i = j

(* What is still to be read, and where the worker is.                      *)
Looking == pc \in {"enter", "member", "parse", "commit"}
Left(i) == Range(stack[i].left)

(* FormatOf goes by the name, which is the last part of the display path.  *)
NamesTell ==
  \A m, n \in Node : Display[m] = Display[n] /\ Format[m] \in Ebooks => Format[n] \in Ebooks

(* The part of the types the arguments need.                               *)
PlaceType ==
  /\ top \in Tops /\ at \in Node /\ depth \in Nat /\ ctx \in BOOLEAN /\ run \in Nat
  /\ pc \in {"idle", "enter", "next", "member", "parse", "commit", "returned"}
  /\ stack \in Seq([node : Archives, depth : Nat, left : Seq(Node)])
CountType ==
  /\ found \in [Node -> Nat] /\ parsed \in [Node -> Nat]
  /\ failed \in [Node -> Nat] /\ skipped \in [Node -> Nat]

(* The archives being walked lie in each other, and what is left of one is *)
(* neither a later one nor around it.                                      *)
Nesting ==
  /\ \A i \in DOMAIN stack : Left(i) \subseteq Range(Members[stack[i].node]) /\ Once(stack[i].left)
  /\ \A i, j \in DOMAIN stack : i < j =>
       stack[i].node \in Above[stack[j].node] /\ Left(i) \cap Line(stack[j].node) = {}

(* A node lies in all the archives being walked and in nothing that is     *)
(* left.                                                                   *)
Clear(n) == \A i \in DOMAIN stack : stack[i].node \in Above[n] /\ Left(i) \cap Line(n) = {}

LookedAt ==
  /\ pc \in {"idle", "returned"} => stack = <<>>
  /\ Looking => Clear(at)
  /\ pc = "enter" => at \in Archives
  /\ pc \in {"parse", "commit"} => Format[at] \in Ebooks

PlaceInv == PlaceType /\ Nesting /\ LookedAt

(* The depths handed down count the archives around a node.                *)
DepthOf(n, k) == IsFiniteSet(Above[n]) /\ k = Cardinality(Above[n])
Deep ==
  /\ \A i \in DOMAIN stack : DepthOf(stack[i].node, stack[i].depth) /\ stack[i].depth < MaxDepth
  /\ Looking => DepthOf(at, depth)
  /\ pc \in {"member", "parse", "commit"} => depth \in 1..MaxDepth

(* Nothing in what is still to be read is counted, and nothing around it   *)
(* was given up.                                                           *)
Fresh(r) == \A n \in Node : r \in Line(n) => Settled(n) = 0
Whole(r) == \A a \in Above[r] : failed[a] = 0
Untouched ==
  /\ \A i \in DOMAIN stack : /\ Settled(stack[i].node) = 0 /\ Whole(stack[i].node)
                             /\ \A r \in Left(i) : Fresh(r)
  /\ Looking => Fresh(at) /\ Whole(at)
  /\ pc = "idle" => \A n \in Node : Settled(n) = 0
CountedOnce == \A n \in Node : Settled(n) <= 1

(* What is recorded are ebooks, and those of this run are counted.         *)
Recorded ==
  /\ recorded \subseteq {n \in Node : Format[n] \in Ebooks}
  /\ run >= 1 /\ (run = 1 => \A n \in recorded : parsed[n] = 1)

ReadInv == PlaceInv /\ CountType /\ Untouched /\ CountedOnce /\ Recorded

(* Until the run is cancelled, every ebook is counted, given up with an    *)
(* archive around it, or still ahead.                                      *)
Ahead(n) ==
  \/ pc = "idle"
  \/ Looking /\ at \in Line(n)
  \/ \E i \in DOMAIN stack : \E r \in Left(i) : r \in Line(n)
Counted(n) == Settled(n) = 1 \/ \E a \in Above[n] : failed[a] = 1
NothingMissed ==
  ~ctx => \A n \in Node : Format[n] \in Ebooks /\ top \in Above[n] => Counted(n) \/ Ahead(n)

-----------------------------------------------------------------------------
(* A set of numbers has a least one.                                       *)
LEMMA LeastOne ==
  ASSUME NEW S \in SUBSET Nat, S # {}
  PROVE  \E x \in S : \A y \in S : x <= y
<1> DEFINE R == OpToRel(<, Nat)
<1>1. \E x \in S : \A y \in S : <<y, x>> \notin R
  <2>1. IsWellFoundedOn(R, Nat)
    BY NatLessThanWellFounded, Zenon
  <2> HIDE DEF R
  <2> QED
    BY <2>1, WFMin
<1>2. \A x, y \in Nat : <<y, x>> \notin R => x <= y
  BY DEF OpToRel
<1> QED
  BY <1>1, <1>2

(* A member has the archive it is in for its parent.                       *)
LEMMA MemberOf ==
  ASSUME Nested, NEW a \in Node, NEW m \in Range(Members[a])
  PROVE  m \in Node \ Tops /\ Parent[m] = a /\ a \in Archives
<1>1. Members[a] \in Seq(Node) /\ m \in Node
  BY ArchiveAssumption DEF Range
<1>2. m \notin Tops
  BY <1>1 DEF Nested
<1>3. \A b \in Node : m \in Range(Members[b]) => b = a
  <2> SUFFICES ASSUME NEW b \in Node, m \in Range(Members[b]) PROVE b = a
    OBVIOUS
  <2>1. PICK i \in DOMAIN Members[a], j \in DOMAIN Members[b] :
          Members[a][i] = m /\ Members[b][j] = m
    BY DEF Range
  <2> QED
    BY <2>1 DEF Nested
<1>4. Parent[m] = a
  BY <1>1, <1>2, <1>3 DEF Parent
<1>5. Members[a] # <<>>
  BY DEF Range
<1> QED
  BY <1>1, <1>2, <1>4, <1>5, ArchiveAssumption DEF Archives

(* A node that is no top lies in its parent.                               *)
LEMMA InParent ==
  ASSUME Nested, NEW n \in Node \ Tops
  PROVE  Parent[n] \in Node /\ n \in Range(Members[Parent[n]])
BY DEF Nested, Parent

(* Above has the meaning its recursion gives it.                           *)
LEMMA AboveSolves ==
  ASSUME Nested
  PROVE  Above = [n \in Node |-> IF n \in Tops THEN {} ELSE {Parent[n]} \cup Above[Parent[n]]]
<1> DEFINE Path(p, a, n) == /\ p \in Seq(Node) /\ Len(p) >= 2 /\ p[1] = a /\ p[Len(p)] = n
                            /\ \A i \in 1..(Len(p) - 1) : p[i + 1] \notin Tops /\ p[i] = Parent[p[i + 1]]
           f == [n \in Node |-> {a \in Node : \E p : Path(p, a, n)}]
<1>1. ASSUME NEW n \in Tops PROVE f[n] = {}
  <2> SUFFICES ASSUME NEW p, NEW a \in Node, Path(p, a, n) PROVE FALSE
    BY <1>1, ArchiveAssumption
  <2>1. Len(p) \in Nat /\ Len(p) - 1 \in 1..(Len(p) - 1) /\ Len(p) - 1 + 1 = Len(p)
    BY LenProperties
  <2> QED
    BY <1>1, <2>1
<1>2. ASSUME NEW n \in Node \ Tops, NEW a \in f[n] PROVE a = Parent[n] \/ a \in f[Parent[n]]
  <2>1. PICK p : Path(p, a, n)
    OBVIOUS
  <2>2. Len(p) \in Nat /\ Len(p) - 1 \in 1..(Len(p) - 1) /\ Len(p) - 1 + 1 = Len(p)
    BY <2>1
  <2>3. p[Len(p) - 1] = Parent[n]
    BY <2>1, <2>2
  <2>4. CASE Len(p) = 2
    BY <2>1, <2>3, <2>4
  <2>5. CASE Len(p) > 2
    <3> DEFINE q == [i \in 1..(Len(p) - 1) |-> p[i]]
    <3>1. q \in Seq(Node) /\ Len(q) = Len(p) - 1
      BY <2>1, <2>2
    <3>2. \A i \in 1..(Len(p) - 1) : q[i] = p[i]
      OBVIOUS
    <3> HIDE DEF q
    <3>3. \A i \in 1..(Len(q) - 1) : i \in 1..(Len(p) - 1) /\ i + 1 \in 1..(Len(p) - 1)
      BY <3>1, <2>2, <2>5
    <3>4. Path(q, a, Parent[n])
      BY <2>1, <2>2, <2>3, <2>5, <3>1, <3>2, <3>3
    <3> QED
      BY <3>4, InParent
  <2> QED
    BY <2>1, <2>2, <2>4, <2>5
<1>3. ASSUME NEW n \in Node \ Tops PROVE Parent[n] \in f[n]
  <2>1. Parent[n] \in Node
    BY InParent
  <2>2. <<Parent[n], n>> \in Seq(Node)
    BY <2>1
  <2>3. Path(<<Parent[n], n>>, Parent[n], n)
    BY <2>1, <2>2
  <2> QED
    BY <2>1, <2>3
<1>4. ASSUME NEW n \in Node \ Tops, NEW a \in f[Parent[n]] PROVE a \in f[n]
  <2>1. Parent[n] \in Node
    BY InParent
  <2>2. PICK p : Path(p, a, Parent[n])
    BY <2>1
  <2> DEFINE q == Append(p, n)
  <2>3. /\ q \in Seq(Node) /\ Len(q) = Len(p) + 1 /\ Len(p) \in Nat /\ q[Len(p) + 1] = n
        /\ \A i \in 1..Len(p) : q[i] = p[i]
    BY <2>2, AppendProperties
  <2> HIDE DEF q
  <2>4. \A i \in 1..Len(p) : q[i + 1] \notin Tops /\ q[i] = Parent[q[i + 1]]
    <3> SUFFICES ASSUME NEW i \in 1..Len(p) PROVE q[i + 1] \notin Tops /\ q[i] = Parent[q[i + 1]]
      OBVIOUS
    <3>1. CASE i = Len(p)
      BY <2>2, <2>3, <3>1
    <3>2. CASE i # Len(p)
      <4>1. i \in 1..(Len(p) - 1) /\ i + 1 \in 1..Len(p)
        BY <2>3, <3>2
      <4> QED
        BY <2>2, <2>3, <4>1
    <3> QED
      BY <3>1, <3>2
  <2>5. q[1] = a /\ Len(q) >= 2 /\ q[Len(q)] = n /\ Len(q) - 1 = Len(p)
    <3>1. 1 \in 1..Len(p) /\ Len(p) >= 2 /\ p[1] = a
      BY <2>2, <2>3
    <3> QED
      BY <2>3, <3>1
  <2>6. Path(q, a, n)
    BY <2>3, <2>4, <2>5
  <2> QED
    BY <2>6, <2>1
<1> HIDE DEF f
<1>5. f = [n \in Node |-> IF n \in Tops THEN {} ELSE {Parent[n]} \cup f[Parent[n]]]
  <2>1. \A n \in Node : f[n] = IF n \in Tops THEN {} ELSE {Parent[n]} \cup f[Parent[n]]
    <3> SUFFICES ASSUME NEW n \in Node, n \notin Tops PROVE f[n] = {Parent[n]} \cup f[Parent[n]]
      BY <1>1
    <3> QED
      BY <1>2, <1>3, <1>4
  <2>2. f = [n \in Node |-> f[n]]
    BY DEF f
  <2> QED
    BY <2>1, <2>2
<1> QED
  BY <1>5 DEF Above

(* Around a member lies its archive, and what lies around that.            *)
LEMMA AroundMember ==
  ASSUME Nested
  PROVE  /\ \A n \in Tops : Above[n] = {}
         /\ \A a \in Node : \A m \in Range(Members[a]) : m \in Node /\ Above[m] = Line(a)
<1>1. \A n \in Tops : Above[n] = {}
  BY AboveSolves, ArchiveAssumption
<1>2. ASSUME NEW a \in Node, NEW m \in Range(Members[a]) PROVE m \in Node /\ Above[m] = Line(a)
  <2>1. m \in Node \ Tops /\ Parent[m] = a
    BY MemberOf
  <2> QED
    BY <2>1, AboveSolves DEF Line
<1> QED
  BY <1>1, <1>2

(* An archive around a node is another one, what lies around it lies       *)
(* around the node too, and on the way to the node is one of its members.  *)
Inside(n, a) == /\ a \in Archives /\ a # n /\ n \notin Above[a] /\ Above[a] \subseteq Above[n]
                /\ \E m \in Range(Members[a]) : m \in Line(n)

(* That is so of all that the recursion puts around a node.                *)
LEMMA Up ==
  ASSUME Nested
  PROVE  \A n \in Node : n \notin Above[n] /\ \A a \in Above[n] : Inside(n, a)
<1>1. PICK Level \in [Node -> Nat] :
        \A a \in Node : \A m \in Range(Members[a]) : Level[a] < Level[m]
  BY DEF Nested
<1> DEFINE Good(n, a) == /\ a \in Archives /\ Level[a] < Level[n] /\ Above[a] \subseteq Above[n]
                         /\ \E m \in Range(Members[a]) : m \in Line(n)
           S == {k \in Nat : \E n \in Node : Level[n] = k /\ \E a \in Above[n] : ~Good(n, a)}
<1>2. ASSUME S # {} PROVE FALSE
  <2>1. PICK k \in S : \A j \in S : k <= j
    <3>1. S \in SUBSET Nat
      OBVIOUS
    <3> HIDE DEF S
    <3> QED
      BY <1>2, <3>1, LeastOne
  <2>2. PICK n \in Node : Level[n] = k /\ \E a \in Above[n] : ~Good(n, a)
    BY <2>1
  <2>3. n \notin Tops
    BY <2>2, AroundMember
  <2>4. PICK p \in Node : p = Parent[n] /\ n \in Range(Members[p])
    BY <2>3, InParent
  <2>5. Above[n] = {p} \cup Above[p] /\ p \in Archives /\ Level[p] < Level[n]
    BY <1>1, <2>4, AroundMember, MemberOf DEF Line
  <2>6. \A a \in Above[p] : Good(p, a)
    <3>1. Level[p] \in Nat /\ ~(Level[n] <= Level[p])
      BY <2>5, <1>1
    <3>2. Level[p] \notin S
      BY <2>1, <2>2, <3>1
    <3> QED
      BY <3>1, <3>2
  <2>7. Good(n, p)
    BY <2>4, <2>5 DEF Line
  <2>8. ASSUME NEW a \in Above[p] PROVE Good(n, a)
    <3>1. a \in Archives /\ Level[a] < Level[p] /\ Above[a] \subseteq Above[p]
      BY <2>6
    <3>2. PICK m \in Range(Members[a]) : m \in Line(p)
      BY <2>6
    <3>3. m \in Line(n)
      BY <2>5, <3>2 DEF Line
    <3>4. Level[a] \in Nat /\ Level[p] \in Nat /\ Level[n] \in Nat
      BY <1>1, <3>1 DEF Archives
    <3> QED
      BY <2>5, <3>1, <3>3, <3>4
  <2> QED
    BY <2>2, <2>5, <2>7, <2>8
<1>3. \A n \in Node : \A a \in Above[n] : Good(n, a)
  BY <1>1, <1>2
<1>4. \A n \in Node : \A a \in Above[n] : Inside(n, a)
  <2> SUFFICES ASSUME NEW n \in Node, NEW a \in Above[n], n \in Above[a] \/ a = n PROVE FALSE
    BY <1>3 DEF Inside
  <2>1. a \in Node /\ Level[a] < Level[n] /\ Level[a] \in Nat /\ Level[n] \in Nat
    BY <1>1, <1>3 DEF Archives
  <2>2. n \in Above[a] => Level[n] < Level[a]
    BY <1>3, <2>1
  <2> QED
    BY <2>1, <2>2
<1> QED
  BY <1>4 DEF Inside

(* What lies around a node lies around what is in it.                      *)
LEMMA LineUp ==
  ASSUME Nested, NEW n \in Node, NEW r \in Line(n)
  PROVE  r \in Node /\ Above[r] \subseteq Above[n] /\ Line(r) \subseteq Line(n)
<1>1. CASE r = n
  BY <1>1
<1>2. CASE r \in Above[n]
  BY <1>2, Up DEF Inside, Line, Archives
<1> QED
  BY <1>1, <1>2 DEF Line

(* The first of a sequence without repetitions, and its rest.              *)
LEMMA TakeOne ==
  ASSUME NEW s \in Seq(Node), s # <<>>, Once(s)
  PROVE  /\ Head(s) \in Range(s) /\ Tail(s) \in Seq(Node) /\ Once(Tail(s))
         /\ Range(Tail(s)) = Range(s) \ {Head(s)}
<1>1. /\ Len(s) \in Nat \ {0} /\ DOMAIN s = 1..Len(s) /\ Head(s) = s[1]
      /\ Tail(s) \in Seq(Node) /\ Len(Tail(s)) = Len(s) - 1 /\ DOMAIN Tail(s) = 1..(Len(s) - 1)
      /\ \A i \in 1..(Len(s) - 1) : Tail(s)[i] = s[i + 1]
  BY HeadTailProperties
<1>2. Once(Tail(s))
  BY <1>1 DEF Once
<1>3. 1 \in DOMAIN s
  BY <1>1
<1>4. \A r \in Range(Tail(s)) : r \in Range(s) \ {Head(s)}
  BY <1>1, <1>3 DEF Once, Range
<1>5. ASSUME NEW r \in Range(s) \ {Head(s)} PROVE r \in Range(Tail(s))
  <2>1. PICK i \in 1..Len(s) : s[i] = r /\ i # 1
    BY <1>1 DEF Range
  <2>2. i - 1 \in 1..(Len(s) - 1) /\ i - 1 + 1 = i
    BY <1>1, <2>1
  <2> QED
    BY <1>1, <2>1, <2>2 DEF Range
<1> QED
  BY <1>1, <1>2, <1>3, <1>4, <1>5 DEF Range

-----------------------------------------------------------------------------
(* The archives being walked, as the stack keeps them.                     *)
Frames == [node : Archives, depth : Nat, left : Seq(Node)]

(* The stack with another archive on top.                                  *)
LEMMA PushOne ==
  ASSUME NEW s \in Seq(Frames), NEW f \in Frames
  PROVE  /\ Append(s, f) \in Seq(Frames) /\ DOMAIN Append(s, f) = DOMAIN s \cup {Len(s) + 1}
         /\ Append(s, f)[Len(s) + 1] = f /\ \A i \in DOMAIN s : i < Len(s) + 1 /\ Append(s, f)[i] = s[i]
         /\ DOMAIN s \subseteq Nat /\ Len(s) \in Nat
BY AppendProperties

(* The stack without the last one.                                         *)
LEMMA PopOne ==
  ASSUME NEW s \in Seq(Frames), s # <<>>
  PROVE  LET p == SubSeq(s, 1, Len(s) - 1) IN
         /\ p \in Seq(Frames) /\ DOMAIN p = DOMAIN s \ {Len(s)} /\ \A i \in DOMAIN p : p[i] = s[i]
         /\ DOMAIN s \subseteq Nat /\ Len(s) \in DOMAIN s /\ \A i \in DOMAIN p : i < Len(s)
<1>1. Len(s) \in Nat /\ Len(s) >= 1 /\ DOMAIN s = 1..Len(s)
  BY EmptySeq
<1>2. Len(s) - 1 \in Int /\ \A i \in 1..(Len(s) - 1) : s[i] \in Frames
  BY <1>1
<1> DEFINE p == SubSeq(s, 1, Len(s) - 1)
<1>3. /\ p \in Seq(Frames) /\ Len(p) = IF 1 <= Len(s) - 1 THEN Len(s) - 1 - 1 + 1 ELSE 0
      /\ \A i \in 1..(Len(s) - 1 - 1 + 1) : p[i] = s[1 + i - 1]
  BY <1>2, SubSeqProperties
<1>4. Len(p) = Len(s) - 1 /\ Len(s) - 1 - 1 + 1 = Len(s) - 1 /\ \A i \in Int : 1 + i - 1 = i
  BY <1>1, <1>3
<1> QED
  BY <1>1, <1>3, <1>4

(* The stack with a member taken from the last one.                        *)
LEMMA TakeFrom ==
  ASSUME NEW s \in Seq(Frames), s # <<>>, s[Len(s)].left # <<>>
  PROVE  LET t == [s EXCEPT ![Len(s)].left = Tail(@)] IN
         /\ t \in Seq(Frames) /\ DOMAIN t = DOMAIN s /\ DOMAIN s \subseteq Nat /\ Len(s) \in DOMAIN s
         /\ \A i \in DOMAIN s : t[i].node = s[i].node /\ t[i].depth = s[i].depth /\ i <= Len(s)
         /\ \A i \in DOMAIN s \ {Len(s)} : t[i] = s[i]
         /\ t[Len(s)].left = Tail(s[Len(s)].left)
<1>1. Len(s) \in Nat /\ Len(s) >= 1 /\ DOMAIN s = 1..Len(s) /\ \A i \in DOMAIN s : s[i] \in Frames
  BY EmptySeq
<1>2. Tail(s[Len(s)].left) \in Seq(Node)
  BY <1>1, HeadTailProperties DEF Frames
<1> DEFINE t == [s EXCEPT ![Len(s)].left = Tail(@)]
<1>3. /\ \A i \in DOMAIN s \ {Len(s)} : t[i] = s[i]
      /\ t[Len(s)] = [s[Len(s)] EXCEPT !.left = Tail(@)] /\ DOMAIN t = DOMAIN s
  BY <1>1
<1>4. /\ t[Len(s)] \in Frames /\ t[Len(s)].left = Tail(s[Len(s)].left)
      /\ t[Len(s)].node = s[Len(s)].node /\ t[Len(s)].depth = s[Len(s)].depth
  <2>1. PICK f \in Frames : f = s[Len(s)]
    BY <1>1
  <2>2. t[Len(s)] = [f EXCEPT !.left = Tail(f.left)] /\ Tail(f.left) \in Seq(Node)
    BY <1>2, <1>3, <2>1
  <2> HIDE DEF t
  <2> QED
    BY <2>1, <2>2 DEF Frames
<1>5. t \in Seq(Frames)
  <2>1. t = [i \in 1..Len(s) |-> t[i]] /\ \A i \in 1..Len(s) : t[i] \in Frames
    BY <1>1, <1>3, <1>4
  <2> HIDE DEF t
  <2> QED
    BY <1>1, <2>1
<1> QED
  BY <1>1, <1>3, <1>4, <1>5

(* A member of a node that is clear of what is left is clear of it too.    *)
LEMMA ClearMember ==
  ASSUME Nested, PlaceType, Nesting, NEW a \in Node, NEW m \in Range(Members[a]), Clear(a)
  PROVE  Clear(m)
<1>1. m \in Node /\ Above[m] = Line(a) /\ Parent[m] = a
  BY AroundMember, MemberOf
<1>2. ASSUME NEW i \in DOMAIN stack
      PROVE  stack[i].node \in Above[m] /\ Left(i) \cap Line(m) = {}
  <2>1. stack[i].node \in Above[a] /\ Left(i) \cap Line(a) = {}
    BY DEF Clear
  <2>2. stack[i].node \in Node /\ stack[i].node # a
    BY <2>1, Up DEF Inside, Archives
  <2>3. m \notin Left(i)
    BY <1>1, <2>2, MemberOf DEF Nesting
  <2> QED
    BY <1>1, <2>1, <2>3 DEF Line
<1> QED
  BY <1>2 DEF Clear

(* The member that is taken from the last archive is clear of what is left *)
(* then.                                                                   *)
LEMMA Taken ==
  ASSUME Nested, PlaceType, Nesting, NextMember
  PROVE  /\ stack' \in Seq(Frames) /\ DOMAIN stack' = DOMAIN stack /\ Len(stack) \in DOMAIN stack
         /\ at' \in Range(Members[Frame.node]) /\ at' \in Left(Len(stack)) /\ at' \in Node
         /\ \A i \in DOMAIN stack : /\ stack'[i].node = stack[i].node /\ stack'[i].depth = stack[i].depth
                                    /\ Range(stack'[i].left) \subseteq Left(i) /\ Once(stack'[i].left)
                                    /\ Left(i) \subseteq Range(stack'[i].left) \cup {at'}
         /\ Clear(at)'
<1> DEFINE k == Len(stack)
           h == Head(Frame.left)
<1>1. stack \in Seq(Frames) /\ stack # <<>> /\ stack[k].left # <<>> /\ h = at'
  BY DEF NextMember, PlaceType, Frames, Frame
<1>2. /\ stack' \in Seq(Frames) /\ DOMAIN stack' = DOMAIN stack /\ DOMAIN stack \subseteq Nat /\ k \in DOMAIN stack
      /\ \A i \in DOMAIN stack : stack'[i].node = stack[i].node /\ stack'[i].depth = stack[i].depth /\ i <= k
      /\ \A i \in DOMAIN stack \ {k} : stack'[i] = stack[i]
      /\ stack'[k].left = Tail(stack[k].left)
  BY <1>1, TakeFrom DEF NextMember, Frame
<1>3. stack[k].left \in Seq(Node) /\ stack[k].node \in Node /\ Once(stack[k].left)
      /\ Left(k) \subseteq Range(Members[stack[k].node])
  <2>1. stack[k] \in Frames
    BY <1>1, <1>2
  <2>2. stack[k].left \in Seq(Node) /\ stack[k].node \in Node
    BY <2>1 DEF Frames, Archives
  <2>3. Once(stack[k].left) /\ Left(k) \subseteq Range(Members[stack[k].node])
    BY <1>2 DEF Nesting
  <2> QED
    BY <2>2, <2>3
<1>4. /\ h \in Left(k) /\ Once(stack'[k].left)
      /\ Range(stack'[k].left) = Left(k) \ {h}
  BY <1>1, <1>2, <1>3, TakeOne DEF Left, Frame
<1>5. h \in Range(Members[Frame.node]) /\ h \in Node /\ Above[h] = Line(stack[k].node) /\ Parent[h] = stack[k].node
  BY <1>3, <1>4, AroundMember, MemberOf DEF Frame
<1>6. \A i \in DOMAIN stack : /\ Range(stack'[i].left) \subseteq Left(i) /\ Once(stack'[i].left)
                             /\ Left(i) \subseteq Range(stack'[i].left) \cup {h}
  BY <1>2, <1>4 DEF Nesting, Left
<1>7. ASSUME NEW i \in DOMAIN stack
      PROVE  stack'[i].node \in Above[h] /\ Range(stack'[i].left) \cap Line(h) = {}
  <2>1. CASE i = k
    <3>1. \A r \in Left(k) : r \notin Line(stack[k].node)
      <4> SUFFICES ASSUME NEW r \in Left(k), r \in Line(stack[k].node) PROVE FALSE
        OBVIOUS
      <4>1. r \in Node /\ Above[r] = Line(stack[k].node)
        BY <1>3, AroundMember
      <4> QED
        BY <4>1, Up
    <3> QED
      BY <1>2, <1>4, <1>5, <2>1, <3>1 DEF Line
  <2>2. CASE i # k
    <3>1. i < k
      BY <1>2, <2>2
    <3>2. stack[i].node \in Above[stack[k].node] /\ Left(i) \cap Line(stack[k].node) = {}
      BY <1>2, <3>1 DEF Nesting
    <3>3. stack[i].node \in Node /\ stack[i].node # stack[k].node
      BY <1>3, <3>2, Up DEF Inside, Archives
    <3>4. h \notin Left(i)
      BY <1>5, <3>3, MemberOf DEF Nesting
    <3> QED
      BY <1>2, <1>5, <2>2, <3>2, <3>4 DEF Line, Left
  <2> QED
    BY <2>1, <2>2
<1>8. Clear(at)'
  BY <1>1, <1>2, <1>7 DEF Clear, Left
<1> QED
  BY <1>1, <1>2, <1>4, <1>5, <1>6, <1>8

(* Every step keeps the nesting of what is being walked.                   *)
LEMMA PlaceStep ==
  ASSUME Nested, PlaceInv, [Next]_vars
  PROVE  PlaceInv'
<1>0. PlaceType /\ Nesting /\ LookedAt /\ stack \in Seq(Frames) /\ top \in Node
  BY ArchiveAssumption DEF PlaceInv, PlaceType, Frames
<1>1. ASSUME UNCHANGED <<top, stack, at, pc, depth>>, ctx' \in BOOLEAN, run' \in Nat PROVE PlaceInv'
  BY <1>0, <1>1 DEF PlaceInv, PlaceType, Nesting, LookedAt, Looking, Clear, Left
<1>2. ASSUME UNCHANGED <<top, stack>>, PlaceType', pc' \in {"enter", "next", "parse", "commit"},
             Looking' => Clear(at'),
             pc' = "enter" => at' \in Archives, pc' \in {"parse", "commit"} => Format[at'] \in Ebooks
      PROVE  PlaceInv'
  BY <1>0, <1>2 DEF PlaceInv, Nesting, LookedAt, Looking, Clear, Left
<1>3. CASE Open
  <2>1. stack = <<>>
    BY <1>0, <1>3 DEF LookedAt, Open
  <2>2. PlaceType' /\ at' = top /\ pc' \in {"enter", "next"} /\ UNCHANGED <<top, stack>>
    BY <1>0, <1>3 DEF Open, PlaceType
  <2>3. Clear(at')
    BY <2>1 DEF Clear
  <2> QED
    BY <1>2, <2>2, <2>3, ArchiveAssumption DEF PlaceType, Archives
<1>4. CASE Refuse
  <2>1. PlaceType' /\ pc' = "next" /\ UNCHANGED <<top, stack>>
    BY <1>0, <1>4 DEF Refuse, GiveUp, PlaceType
  <2> QED
    BY <1>2, <2>1 DEF Looking
<1>5. CASE Walk
  <2> DEFINE f == [node |-> at, depth |-> depth, left |-> Members[at]]
             k == Len(stack) + 1
  <2>1. f \in Frames /\ at \in Archives /\ at \in Node /\ Clear(at) /\ stack' = Append(stack, f)
    BY <1>0, <1>5, ArchiveAssumption DEF Walk, Frames, PlaceType, LookedAt, Looking
  <2>2. /\ stack' \in Seq(Frames) /\ DOMAIN stack' = DOMAIN stack \cup {k}
        /\ stack'[k] = f /\ \A i \in DOMAIN stack : i < k /\ stack'[i] = stack[i]
        /\ DOMAIN stack \subseteq Nat /\ k \in Nat
    BY <1>0, <2>1, PushOne
  <2>3. PlaceType' /\ pc' = "next"
    BY <1>0, <1>5, <2>2 DEF PlaceType, Walk, Frames
  <2>4. Once(Members[at])
    BY <2>1 DEF Once, Nested
  <2>5. \A i \in DOMAIN stack' : Left(i)' \subseteq Range(Members[stack'[i].node]) /\ Once(stack'[i].left)
    BY <1>0, <2>2, <2>4 DEF Nesting, Left
  <2>6. ASSUME NEW i \in DOMAIN stack', NEW j \in DOMAIN stack', i < j
        PROVE  stack'[i].node \in Above[stack'[j].node] /\ Left(i)' \cap Line(stack'[j].node) = {}
    <3>1. i \in DOMAIN stack
      BY <2>2, <2>6
    <3>2. CASE j = k
      BY <2>1, <2>2, <3>1, <3>2 DEF Clear, Left
    <3>3. CASE j \in DOMAIN stack
      BY <1>0, <2>2, <2>6, <3>1, <3>3 DEF Nesting, Left
    <3> QED
      BY <2>2, <3>2, <3>3
  <2> QED
    BY <2>3, <2>5, <2>6 DEF PlaceInv, Nesting, LookedAt, Looking
<1>6. CASE Decompress
  <2> DEFINE n == Members[at][1]
  <2>1. at \in Node /\ Clear(at) /\ n \in Range(Members[at])
    <3>1. Len(Members[at]) = 1 /\ Members[at] \in Seq(Node)
      BY <1>0, <1>6, ArchiveAssumption DEF Decompress, PlaceType
    <3> QED
      BY <1>0, <1>6, <3>1 DEF Decompress, PlaceType, LookedAt, Looking, Range
  <2>2. Clear(n) /\ n \in Node
    BY <1>0, <2>1, ClearMember, AroundMember
  <2>3. UNCHANGED <<top, stack, ctx, run>> /\ depth' = depth + 1
    BY <1>6 DEF Decompress
  <2>4. \/ pc' = "next" /\ at' = at
        \/ pc' = "enter" /\ at' = n /\ n \in Archives
        \/ pc' = "parse" /\ at' = n /\ Format[n] \in Ebooks
    BY <1>6 DEF Decompress, Accept
  <2> HIDE DEF n
  <2>5. PlaceType'
    BY <1>0, <2>2, <2>3, <2>4 DEF PlaceType
  <2> QED
    BY <1>2, <2>2, <2>3, <2>4, <2>5 DEF Looking
<1>7. CASE Broken \/ EndArchive
  <2>1. stack # <<>> /\ stack' = Pop /\ pc = "next" /\ UNCHANGED <<top, pc, at, depth, ctx, run>>
    BY <1>7 DEF Broken, EndArchive
  <2>2. /\ stack' \in Seq(Frames) /\ DOMAIN stack' \subseteq DOMAIN stack
        /\ \A i \in DOMAIN stack' : stack'[i] = stack[i]
    BY <1>0, <2>1, PopOne DEF Pop
  <2> QED
    BY <1>0, <2>1, <2>2 DEF PlaceInv, PlaceType, Nesting, LookedAt, Looking, Left, Frames
<1>8. CASE NextMember
  <2>1. /\ stack' \in Seq(Frames) /\ DOMAIN stack' = DOMAIN stack /\ at' \in Node /\ Clear(at)'
        /\ \A i \in DOMAIN stack : /\ stack'[i].node = stack[i].node
                                   /\ Range(stack'[i].left) \subseteq Left(i) /\ Once(stack'[i].left)
    BY <1>0, <1>8, Taken
  <2>2. pc' \in {"next", "member"} /\ UNCHANGED <<top, ctx, run>>
    BY <1>8 DEF NextMember
  <2>3. depth' \in Nat
    <3>1. Frame \in Frames
      BY <1>0, <1>8, PopOne DEF NextMember, Frame
    <3> QED
      BY <1>8, <3>1 DEF NextMember, Frames
  <2>4. PlaceType'
    BY <1>0, <2>1, <2>2, <2>3 DEF PlaceType, Frames
  <2>5. Nesting'
    <3>1. \A i \in DOMAIN stack' : stack'[i].node = stack[i].node /\ Left(i)' \subseteq Left(i)
      BY <2>1 DEF Left
    <3>2. \A i \in DOMAIN stack' : Left(i)' \subseteq Range(Members[stack'[i].node]) /\ Once(stack'[i].left)
      BY <1>0, <2>1, <3>1 DEF Nesting
    <3>3. \A i, j \in DOMAIN stack' : i < j =>
            stack'[i].node \in Above[stack'[j].node] /\ Left(i)' \cap Line(stack'[j].node) = {}
      BY <1>0, <2>1, <3>1 DEF Nesting
    <3> QED
      BY <3>2, <3>3 DEF Nesting
  <2> QED
    BY <2>1, <2>2, <2>4, <2>5 DEF PlaceInv, LookedAt, Looking
<1>9. CASE Member
  <2>1. pc = "member" /\ UNCHANGED <<top, stack, at, depth, ctx, run>>
    BY <1>9 DEF Member, Accept
  <2>2. \/ pc' = "next"
        \/ pc' = "enter" /\ at \in Archives
        \/ pc' = "parse" /\ Format[at] \in Ebooks
    BY <1>9 DEF Member, Accept
  <2> QED
    BY <1>0, <1>2, <2>1, <2>2 DEF PlaceType, LookedAt, Looking
<1>10. CASE Parse
  <2>1. pc = "parse" /\ UNCHANGED <<top, stack, at, depth, ctx, run>> /\ pc' \in {"next", "commit"}
    BY <1>10 DEF Parse
  <2> QED
    BY <1>0, <1>2, <2>1 DEF PlaceType, LookedAt, Looking
<1>11. CASE Commit
  <2>1. UNCHANGED <<top, stack, at, depth, ctx, run>> /\ pc' = "next"
    BY <1>11 DEF Commit
  <2> QED
    BY <1>0, <1>2, <2>1 DEF PlaceType, Looking
<1>12. CASE Return
  BY <1>0, <1>12 DEF Return, PlaceInv, PlaceType, Nesting, LookedAt, Looking, Left
<1>13. CASE Resume
  <2>1. stack' = <<>> /\ pc' = "idle" /\ UNCHANGED <<top, at, depth>> /\ ctx' = FALSE /\ run' = run + 1
    BY <1>13 DEF Resume
  <2> QED
    <3>1. DOMAIN stack' = {} /\ stack' \in Seq(Frames)
      BY <2>1
    <3>2. PlaceType'
      <4>1. run' \in Nat /\ depth' \in Nat
        BY <1>0, <2>1 DEF PlaceType
      <4>2. ctx' \in BOOLEAN
        BY <2>1, Zenon
      <4> QED
        BY <1>0, <2>1, <3>1, <4>1, <4>2 DEF PlaceType, Frames
    <3>3. Nesting'
      BY <3>1 DEF Nesting
    <3> QED
      BY <2>1, <3>2, <3>3 DEF PlaceInv, LookedAt, Looking
<1>14. CASE Cancel \/ Done \/ UNCHANGED vars
  <2>1. UNCHANGED <<top, stack, at, pc, depth>> /\ ctx' \in BOOLEAN /\ run' \in Nat
    BY <1>0, <1>14 DEF Cancel, Done, vars, PlaceType
  <2> QED
    BY <1>1, <2>1
<1> QED
  BY <1>3, <1>4, <1>5, <1>6, <1>7, <1>8, <1>9, <1>10, <1>11, <1>12, <1>13, <1>14 DEF Next

-----------------------------------------------------------------------------
(* A member lies one archive deeper than the archive it is in.             *)
LEMMA DepthMember ==
  ASSUME Nested, NEW a \in Node, NEW m \in Range(Members[a]), NEW k, DepthOf(a, k)
  PROVE  DepthOf(m, k + 1) /\ k \in Nat
<1>1. Above[m] = Above[a] \cup {a} /\ a \notin Above[a]
  BY AroundMember, Up DEF Line
<1>2. IsFiniteSet(Above[a]) /\ k = Cardinality(Above[a])
  BY DEF DepthOf
<1>3. /\ IsFiniteSet(Above[a] \cup {a}) /\ Cardinality(Above[a]) \in Nat
      /\ Cardinality(Above[a] \cup {a}) = Cardinality(Above[a]) + 1
  BY <1>1, <1>2, FS_AddElement, FS_CardinalityType
<1> QED
  BY <1>1, <1>2, <1>3 DEF DepthOf

(* Every step counts the depth right.                                      *)
LEMMA DeepStep ==
  ASSUME Nested, PlaceInv, Deep, [Next]_vars
  PROVE  Deep'
<1>0. PlaceType /\ LookedAt /\ stack \in Seq(Frames) /\ MaxDepth \in Nat
  BY ArchiveAssumption DEF PlaceInv, PlaceType, Frames
<1>1. ASSUME UNCHANGED stack, Looking' => DepthOf(at', depth'),
             pc' \in {"member", "parse", "commit"} => depth' \in 1..MaxDepth
      PROVE  Deep'
  BY <1>1 DEF Deep, Looking, DepthOf
<1>2. CASE Open
  <2>1. top \in Tops
    BY <1>0 DEF PlaceType
  <2>2. DepthOf(top, 0)
    BY <2>1, AroundMember, FS_EmptySet DEF DepthOf
  <2>3. UNCHANGED stack /\ at' = top /\ depth' = 0 /\ pc' \in {"enter", "next"}
    BY <1>2 DEF Open
  <2> QED
    BY <1>1, <2>2, <2>3
<1>3. CASE Refuse \/ Return \/ Commit
  <2>1. UNCHANGED stack /\ pc' \in {"next", "returned"}
    BY <1>3 DEF Refuse, GiveUp, Return, Commit
  <2> QED
    BY <1>1, <2>1 DEF Looking
<1>4. CASE Walk
  <2> DEFINE f == [node |-> at, depth |-> depth, left |-> Members[at]]
             k == Len(stack) + 1
  <2>1. f \in Frames /\ stack' = Append(stack, f) /\ DepthOf(at, depth) /\ depth < MaxDepth /\ pc' = "next"
    BY <1>0, <1>4, ArchiveAssumption DEF Walk, TooDeep, Frames, PlaceType, LookedAt, Looking, Deep
  <2>2. /\ stack' \in Seq(Frames) /\ DOMAIN stack' = DOMAIN stack \cup {k}
        /\ stack'[k] = f /\ \A i \in DOMAIN stack : stack'[i] = stack[i]
    BY <1>0, <2>1, PushOne
  <2>3. f.node = at /\ f.depth = depth
    OBVIOUS
  <2> HIDE DEF f
  <2>4. \A i \in DOMAIN stack' : DepthOf(stack'[i].node, stack'[i].depth) /\ stack'[i].depth < MaxDepth
    BY <2>1, <2>2, <2>3 DEF Deep
  <2> QED
    BY <2>1, <2>4 DEF Deep, Looking, DepthOf
<1>5. CASE Decompress
  <2> DEFINE n == Members[at][1]
  <2>1. at \in Node /\ DepthOf(at, depth) /\ n \in Range(Members[at])
    <3>1. Len(Members[at]) = 1 /\ Members[at] \in Seq(Node)
      BY <1>0, <1>5, ArchiveAssumption DEF Decompress, PlaceType
    <3> QED
      BY <1>0, <1>5, <3>1 DEF Decompress, PlaceType, Looking, Range, Deep
  <2>2. DepthOf(n, depth + 1) /\ depth \in Nat
    BY <2>1, DepthMember
  <2>3. UNCHANGED stack /\ depth' = depth + 1 /\ depth < MaxDepth
    BY <1>0, <1>5 DEF Decompress, TooDeep, PlaceType
  <2>4. \/ pc' = "next"
        \/ pc' = "enter" /\ at' = n
        \/ pc' = "parse" /\ at' = n
    BY <1>5 DEF Decompress, Accept
  <2>5. depth' \in 1..MaxDepth
    BY <1>0, <2>2, <2>3
  <2> QED
    BY <1>1, <2>2, <2>3, <2>4, <2>5 DEF Looking
<1>6. CASE Broken \/ EndArchive
  <2>1. stack # <<>> /\ stack' = Pop /\ pc = "next" /\ pc' = pc
    BY <1>6 DEF Broken, EndArchive
  <2>2. DOMAIN stack' \subseteq DOMAIN stack /\ \A i \in DOMAIN stack' : stack'[i] = stack[i]
    BY <1>0, <2>1, PopOne DEF Pop
  <2> QED
    BY <2>1, <2>2 DEF Deep, Looking, DepthOf
<1>7. CASE NextMember
  <2> DEFINE k == Len(stack)
  <2>1. /\ DOMAIN stack' = DOMAIN stack /\ k \in DOMAIN stack /\ at' \in Range(Members[stack[k].node])
        /\ \A i \in DOMAIN stack : stack'[i].node = stack[i].node /\ stack'[i].depth = stack[i].depth
    BY <1>0, <1>7, Taken DEF PlaceInv, Frame
  <2>2. stack[k].node \in Node /\ stack[k].depth \in Nat
    <3>1. stack[k] \in Frames
      BY <1>0, <2>1
    <3> QED
      BY <3>1 DEF Frames, Archives
  <2>3. DepthOf(stack[k].node, stack[k].depth) /\ stack[k].depth < MaxDepth
    BY <2>1 DEF Deep
  <2>4. depth' = stack[k].depth + 1
    BY <1>7 DEF NextMember, Frame
  <2>5. DepthOf(at', depth')
    BY <2>1, <2>2, <2>3, <2>4, DepthMember
  <2>6. depth' \in 1..MaxDepth
    BY <1>0, <2>2, <2>3, <2>4
  <2>7. \A i \in DOMAIN stack' : DepthOf(stack'[i].node, stack'[i].depth) /\ stack'[i].depth < MaxDepth
    BY <2>1 DEF Deep
  <2> QED
    BY <2>5, <2>6, <2>7 DEF Deep, DepthOf
<1>8. CASE Member \/ Parse
  <2>1. UNCHANGED <<stack, at, depth>> /\ pc \in {"member", "parse"}
    BY <1>8 DEF Member, Accept, Parse
  <2> QED
    BY <1>1, <2>1 DEF Deep, Looking
<1>9. CASE Resume
  <2>1. stack' = <<>> /\ pc' = "idle"
    BY <1>9 DEF Resume
  <2> QED
    BY <2>1 DEF Deep, Looking
<1>10. CASE Cancel \/ Done \/ UNCHANGED vars
  <2>1. UNCHANGED <<stack, at, pc, depth>>
    BY <1>10 DEF Cancel, Done, vars
  <2> QED
    BY <1>1, <2>1 DEF Deep, Looking
<1> QED
  BY <1>2, <1>3, <1>4, <1>5, <1>6, <1>7, <1>8, <1>9, <1>10 DEF Next

(* Every archive depth is counted right, in every reachable state.         *)
THEOREM DepthAlways ==
  ASSUME Nested
  PROVE  Spec => [](PlaceInv /\ Deep /\ WithinDepth)
<1>1. Init => PlaceInv /\ Deep /\ WithinDepth
  <2> SUFFICES ASSUME Init PROVE PlaceInv /\ Deep /\ WithinDepth
    OBVIOUS
  <2>1. stack = <<>> /\ pc = "idle" /\ at = top /\ top \in Tops /\ depth = 0 /\ run = 1 /\ recorded = {}
    BY DEF Init
  <2>2. ctx \in BOOLEAN
    BY Zenon DEF Init
  <2>3. top \in Node /\ stack \in Seq(Frames) /\ DOMAIN stack = {}
    BY <2>1, ArchiveAssumption
  <2>4. PlaceType
    BY <2>1, <2>2, <2>3 DEF PlaceType, Frames
  <2> QED
    BY <2>1, <2>3, <2>4 DEF PlaceInv, Nesting, LookedAt, Looking, Deep, WithinDepth
<1>2. PlaceInv /\ Deep /\ WithinDepth /\ [Next]_vars => (PlaceInv /\ Deep /\ WithinDepth)'
  <2> SUFFICES ASSUME PlaceInv, Deep, WithinDepth, [Next]_vars PROVE WithinDepth'
    BY PlaceStep, DeepStep
  <2>1. CASE Commit
    <3>1. Cardinality(Above[at]) \in 1..MaxDepth /\ recorded' \subseteq recorded \cup {at}
      BY <2>1 DEF Commit, Deep, DepthOf, Looking
    <3> QED
      BY <3>1 DEF WithinDepth
  <2>2. CASE ~Commit
    <3>1. recorded' = recorded
      BY <2>2 DEF Next, Open, Refuse, Walk, Decompress, Broken, EndArchive, NextMember, Member, Parse, Return,
         Cancel, Resume, Done, vars
    <3> QED
      BY <3>1 DEF WithinDepth
  <2> QED
    BY <2>1, <2>2
<1> QED
  BY <1>1, <1>2, PTL DEF Spec

(* WithinDepth: nothing is ever recorded that lies deeper than             *)
(* --archive-depth, compressed files counted, or not in an archive.        *)
THEOREM NothingTooDeep ==
  ASSUME Nested
  PROVE  Spec => []WithinDepth
BY DepthAlways, PTL

-----------------------------------------------------------------------------
(* A step counts nothing, or nothing but one node, once.                   *)
SameCounts == \A n \in Node : Settled(n)' = Settled(n) /\ failed'[n] = failed[n]
OnlyAt(m) == /\ \A n \in Node \ {m} : Settled(n)' = Settled(n) /\ failed'[n] = failed[n]
             /\ Settled(m)' <= Settled(m) + 1

(* A counter of one node goes up, and no other.                            *)
LEMMA BumpOne ==
  ASSUME CountType, NEW m \in Node,
         \/ Fail(m) /\ UNCHANGED <<parsed, skipped>>
         \/ Skip(m) /\ UNCHANGED <<parsed, failed>>
         \/ parsed' = [parsed EXCEPT ![m] = @ + 1] /\ UNCHANGED <<failed, skipped>>
  PROVE  /\ OnlyAt(m) /\ parsed' \in [Node -> Nat] /\ failed' \in [Node -> Nat] /\ skipped' \in [Node -> Nat]
<1>0. /\ parsed \in [Node -> Nat] /\ failed \in [Node -> Nat] /\ skipped \in [Node -> Nat]
  BY DEF CountType
<1>1. CASE Fail(m) /\ UNCHANGED <<parsed, skipped>>
  <2>1. failed' = failed \/ failed' = [failed EXCEPT ![m] = @ + 1]
    BY <1>1 DEF Fail
  <2> QED
    BY <1>0, <1>1, <2>1 DEF OnlyAt, Settled
<1>2. CASE Skip(m) /\ UNCHANGED <<parsed, failed>>
  BY <1>0, <1>2 DEF Skip, OnlyAt, Settled
<1>3. CASE parsed' = [parsed EXCEPT ![m] = @ + 1] /\ UNCHANGED <<failed, skipped>>
  BY <1>0, <1>3 DEF OnlyAt, Settled
<1> QED
  BY <1>1, <1>2, <1>3

(* What a step may count: the node the worker is at, has taken or unpacked *)
(* or the archive it gives up.  Nothing around it was given up, and it is  *)
(* clear of what is left.                                                  *)
Turn(m) == OnlyAt(m) /\ Clear(m)' /\ Settled(m) = 0 /\ Whole(m)

(* Every step of a run counts nothing, or one such node.                   *)
LEMMA CountsOne ==
  ASSUME Nested, ReadInv, [Next]_vars, run' = run
  PROVE  /\ CountType' /\ (SameCounts \/ \E m \in Node : Turn(m))
         /\ Looking' => SameCounts
<1>0. PlaceInv /\ PlaceType /\ Nesting /\ LookedAt /\ CountType /\ Untouched /\ stack \in Seq(Frames)
      /\ top \in Node /\ at \in Node
  BY ArchiveAssumption DEF ReadInv, PlaceInv, PlaceType, Frames
<1> DEFINE Counting(m) == \/ Fail(m) /\ UNCHANGED <<parsed, skipped>>
                          \/ Skip(m) /\ UNCHANGED <<parsed, failed>>
                          \/ parsed' = [parsed EXCEPT ![m] = @ + 1] /\ UNCHANGED <<failed, skipped>>
<1>1. ASSUME UNCHANGED <<parsed, failed, skipped>>, found' \in [Node -> Nat]
      PROVE  CountType' /\ SameCounts
  BY <1>0, <1>1 DEF CountType, SameCounts, Settled
<1>2. ASSUME NEW m \in Node, Counting(m), found' = found, ~Looking', Clear(m)', Settled(m) = 0, Whole(m)
      PROVE  CountType' /\ Turn(m) /\ ~Looking'
  <2>1. /\ OnlyAt(m) /\ parsed' \in [Node -> Nat] /\ failed' \in [Node -> Nat] /\ skipped' \in [Node -> Nat]
    BY <1>0, <1>2, BumpOne
  <2> QED
    BY <1>0, <1>2, <2>1 DEF CountType, Turn
<1> HIDE DEF Counting
<1>3. found \in [Node -> Nat]
  BY <1>0 DEF CountType
<1>4. CASE Open
  <2>1. PICK m \in Node : m = top
    BY <1>0
  <2>2. stack' = <<>> /\ Above[m] = {} /\ Settled(m) = 0 /\ found' = found
    BY <1>0, <1>4, <2>1, AroundMember DEF LookedAt, Open, PlaceType, Untouched
  <2>3. Clear(m)' /\ Whole(m)
    BY <2>2 DEF Clear, Whole
  <2>4. UNCHANGED <<parsed, failed, skipped>> \/ (pc' = "next" /\ Counting(m))
    BY <1>4, <2>1 DEF Open, Counting
  <2> QED
    BY <1>1, <1>2, <1>3, <2>2, <2>3, <2>4 DEF Looking
<1>5. ASSUME Looking, NEW m \in Node, m = at, Counting(m), found' = found, stack' = stack, pc' = "next"
      PROVE  CountType' /\ Turn(m) /\ ~Looking'
  <2>1. Clear(m) /\ Fresh(m) /\ Whole(m)
    BY <1>0, <1>5 DEF LookedAt, Untouched
  <2>2. Settled(m) = 0
    BY <2>1 DEF Fresh, Line
  <2>3. Clear(m)' /\ ~Looking'
    BY <1>5, <2>1 DEF Clear, Left, Looking
  <2> QED
    BY <1>2, <1>5, <2>1, <2>2, <2>3
<1>6. CASE Refuse
  <2>1. PICK m \in Node : m = at
    BY <1>0
  <2>2. Counting(m) /\ found' = found /\ stack' = stack /\ pc' = "next" /\ Looking
    BY <1>6, <2>1 DEF Refuse, GiveUp, Counting, Looking
  <2> QED
    BY <1>5, <2>1, <2>2
<1>7. CASE Walk \/ EndArchive \/ Return \/ Cancel \/ Done \/ UNCHANGED vars
  BY <1>1, <1>3, <1>7 DEF Walk, EndArchive, Return, Cancel, Done, vars, counters
<1>8. CASE Decompress
  <2>1. PICK m \in Node : m = Members[at][1] /\ m \in Range(Members[at])
    <3>1. Len(Members[at]) = 1 /\ Members[at] \in Seq(Node)
      BY <1>0, <1>8, ArchiveAssumption DEF Decompress
    <3> QED
      BY <3>1 DEF Range
  <2>2. Clear(at) /\ Fresh(at) /\ Whole(at)
    BY <1>0, <1>8 DEF Decompress, Looking, LookedAt, Untouched
  <2>3. Clear(m) /\ Above[m] = Line(at)
    BY <1>0, <2>1, <2>2, ClearMember, AroundMember
  <2>4. Settled(m) = 0 /\ Settled(at) = 0
    BY <1>0, <2>2, <2>3 DEF Fresh, Line
  <2>5. failed[at] = 0
    BY <1>0, <2>4 DEF Settled, CountType
  <2>6. Whole(m)
    BY <2>2, <2>3, <2>5 DEF Whole, Line
  <2>7. stack' = stack
    BY <1>8 DEF Decompress
  <2>8. Clear(m)'
    BY <2>3, <2>7 DEF Clear, Left
  <2>9. \/ UNCHANGED <<parsed, failed, skipped, found>>
        \/ UNCHANGED <<parsed, failed, skipped>> /\ found' = [found EXCEPT ![m] = @ + 1]
        \/ pc' = "next" /\ Counting(m) /\ found' = found
    BY <1>8, <2>1 DEF Decompress, Counting, Accept
  <2>10. [found EXCEPT ![m] = @ + 1] \in [Node -> Nat]
    BY <1>3
  <2> QED
    BY <1>1, <1>2, <1>3, <2>4, <2>6, <2>8, <2>9, <2>10 DEF Looking
<1>9. CASE Broken
  <2> DEFINE k == Len(stack)
  <2>1. /\ k \in DOMAIN stack /\ DOMAIN stack' = DOMAIN stack \ {k} /\ stack' \in Seq(Frames)
        /\ \A i \in DOMAIN stack' : stack'[i] = stack[i] /\ i < k
    BY <1>0, <1>9, PopOne DEF Broken, Pop
  <2>2. stack[k] \in Frames
    BY <1>0, <2>1
  <2>3. PICK m \in Node : m = stack[k].node
    BY <2>2 DEF Frames, Archives
  <2>4. Settled(m) = 0 /\ Whole(m)
    BY <1>0, <2>1, <2>3 DEF Untouched
  <2>5. \A i \in DOMAIN stack' : stack[i].node \in Above[m] /\ Left(i) \cap Line(m) = {}
    BY <1>0, <2>1, <2>3 DEF Nesting
  <2>6. Clear(m)'
    BY <2>1, <2>5 DEF Clear, Left
  <2>7. Counting(m) /\ found' = found /\ pc' = "next"
    BY <1>9, <2>3 DEF Broken, Counting, Frame
  <2> QED
    BY <1>2, <2>4, <2>6, <2>7 DEF Looking
<1>10. CASE NextMember
  <2>1. /\ at' \in Node /\ at' \in Left(Len(stack)) /\ Clear(at)' /\ Len(stack) \in DOMAIN stack
        /\ at' \in Range(Members[Frame.node])
    BY <1>0, <1>10, Taken
  <2>2. PICK m \in Node : m = at'
    BY <2>1
  <2>3. Frame.node \in Node /\ Settled(Frame.node) = 0 /\ Whole(Frame.node) /\ Fresh(m)
    <3>1. Frame \in Frames
      BY <1>0, <2>1 DEF Frame
    <3>2. Frame.node \in Node
      BY <3>1 DEF Frames, Archives
    <3> QED
      BY <1>0, <2>1, <2>2, <3>2 DEF Untouched, Frame
  <2>4. Settled(m) = 0 /\ failed[Frame.node] = 0
    <3>1. Settled(m) = 0
      BY <2>3 DEF Fresh, Line
    <3>2. PICK a \in Node : a = Frame.node
      BY <2>3
    <3>3. Settled(a) = 0
      BY <2>3, <3>2
    <3>4. failed[a] = 0
      BY <1>0, <3>3 DEF Settled, CountType
    <3> QED
      BY <3>1, <3>2, <3>4
  <2>5. Above[m] = Line(Frame.node)
    BY <2>1, <2>2, <2>3, AroundMember
  <2>6. Whole(m)
    BY <2>3, <2>4, <2>5 DEF Whole, Line
  <2>7. Clear(m)'
    BY <2>1, <2>2 DEF Clear
  <2>8. \/ UNCHANGED <<parsed, failed, skipped>> /\ found' = found
        \/ pc' = "next" /\ Counting(m) /\ found' = found
    BY <1>10, <2>2 DEF NextMember, Counting
  <2> QED
    BY <1>1, <1>2, <1>3, <2>4, <2>6, <2>7, <2>8 DEF Looking
<1>11. CASE Member
  <2>1. PICK m \in Node : m = at
    BY <1>0
  <2>2. Looking /\ stack' = stack
    BY <1>11 DEF Member, Looking
  <2>3. \/ UNCHANGED <<parsed, failed, skipped, found>>
        \/ UNCHANGED <<parsed, failed, skipped>> /\ found' = [found EXCEPT ![m] = @ + 1]
        \/ pc' = "next" /\ Counting(m) /\ found' = found
    BY <1>11, <2>1 DEF Member, Counting, Accept
  <2>4. [found EXCEPT ![m] = @ + 1] \in [Node -> Nat]
    BY <1>3
  <2> QED
    BY <1>1, <1>3, <1>5, <2>1, <2>2, <2>3, <2>4
<1>12. CASE Parse
  <2>1. PICK m \in Node : m = at
    BY <1>0
  <2>2. Looking /\ stack' = stack /\ found' = found
    BY <1>12 DEF Parse, Looking
  <2>3. UNCHANGED <<parsed, failed, skipped>> \/ (pc' = "next" /\ Counting(m))
    BY <1>12, <2>1 DEF Parse, Counting
  <2> QED
    BY <1>1, <1>3, <1>5, <2>1, <2>2, <2>3
<1>13. CASE Commit
  <2>1. PICK m \in Node : m = at
    BY <1>0
  <2>2. Looking /\ stack' = stack /\ found' = found /\ pc' = "next" /\ Counting(m)
    BY <1>13, <2>1 DEF Commit, Looking, Counting
  <2> QED
    BY <1>5, <2>1, <2>2
<1>14. ~Resume
  BY <1>0 DEF Resume, PlaceType
<1> QED
  BY <1>4, <1>6, <1>7, <1>8, <1>9, <1>10, <1>11, <1>12, <1>13, <1>14 DEF Next

(* Where a step leads, nothing was counted yet and nothing around it was   *)
(* given up.                                                               *)
LEMMA AheadUntouched ==
  ASSUME Nested, ReadInv, [Next]_vars, run' = run
  PROVE  /\ \A i \in DOMAIN stack' : /\ stack'[i].node \in Node /\ Settled(stack'[i].node) = 0
                                     /\ Whole(stack'[i].node) /\ \A r \in Range(stack'[i].left) : Fresh(r)
         /\ Looking' => Fresh(at') /\ Whole(at')
         /\ pc' = "idle" => pc = "idle"
<1>0. PlaceInv /\ PlaceType /\ Nesting /\ LookedAt /\ CountType /\ Untouched /\ stack \in Seq(Frames)
      /\ top \in Node /\ at \in Node
  BY ArchiveAssumption DEF ReadInv, PlaceInv, PlaceType, Frames
<1> DEFINE Part(i) == /\ stack'[i].node \in Node /\ Settled(stack'[i].node) = 0
                      /\ Whole(stack'[i].node) /\ \A r \in Range(stack'[i].left) : Fresh(r)
<1>1. \A i \in DOMAIN stack : /\ stack[i].node \in Node /\ Settled(stack[i].node) = 0 /\ Whole(stack[i].node)
                             /\ \A r \in Left(i) : Fresh(r)
  <2>1. \A i \in DOMAIN stack : stack[i] \in Frames
    BY <1>0
  <2>2. \A i \in DOMAIN stack : stack[i].node \in Node
    BY <2>1 DEF Frames, Archives
  <2> QED
    BY <1>0, <2>2 DEF Untouched
<1>2. ASSUME stack' = stack PROVE \A i \in DOMAIN stack' : Part(i)
  BY <1>1, <1>2 DEF Left
<1>3. \A n \in Node : Settled(n) = 0 => failed[n] = 0
  BY <1>0 DEF Settled, CountType
<1>4. ASSUME NEW a \in Node, NEW m \in Range(Members[a]), Fresh(a), Whole(a)
      PROVE  Fresh(m) /\ Whole(m)
  <2>1. m \in Node /\ Above[m] = Line(a) /\ Settled(a) = 0
    BY <1>4, AroundMember DEF Fresh, Line
  <2>2. \A n \in Node : m \in Line(n) => a \in Line(n)
    BY <2>1, LineUp DEF Line
  <2> QED
    BY <1>3, <1>4, <2>1, <2>2 DEF Fresh, Whole, Line
<1>5. CASE Open
  <2>1. stack' = stack /\ at' = top /\ pc' \in {"enter", "next"} /\ pc = "idle"
    BY <1>5 DEF Open
  <2>2. Fresh(top) /\ Above[top] = {}
    BY <1>0, <2>1, AroundMember DEF Untouched, Fresh, PlaceType
  <2> QED
    BY <1>2, <2>1, <2>2 DEF Whole
<1>6. CASE Walk
  <2> DEFINE f == [node |-> at, depth |-> depth, left |-> Members[at]]
  <2>1. f \in Frames /\ stack' = Append(stack, f) /\ pc' = "next"
    BY <1>0, <1>6, ArchiveAssumption DEF Walk, Frames, PlaceType, LookedAt
  <2>2. /\ DOMAIN stack' = DOMAIN stack \cup {Len(stack) + 1}
        /\ stack'[Len(stack) + 1] = f /\ \A i \in DOMAIN stack : stack'[i] = stack[i]
    BY <1>0, <2>1, PushOne
  <2>3. f.node = at /\ f.left = Members[at]
    OBVIOUS
  <2> HIDE DEF f
  <2>4. Fresh(at) /\ Whole(at) /\ Settled(at) = 0
    BY <1>0, <1>6 DEF Walk, Looking, Untouched, Fresh, Line
  <2>5. \A r \in Range(Members[at]) : Fresh(r)
    BY <1>0, <1>4, <2>4
  <2>6. \A i \in DOMAIN stack : Part(i)
    BY <1>1, <2>2 DEF Left
  <2>7. Part(Len(stack) + 1)
    BY <1>0, <2>2, <2>3, <2>4, <2>5
  <2> QED
    BY <2>1, <2>2, <2>6, <2>7 DEF Looking
<1>7. CASE Decompress
  <2>1. PICK m \in Node : m = Members[at][1] /\ m \in Range(Members[at])
    <3>1. Len(Members[at]) = 1 /\ Members[at] \in Seq(Node)
      BY <1>0, <1>7, ArchiveAssumption DEF Decompress
    <3> QED
      BY <3>1 DEF Range
  <2>2. Fresh(at) /\ Whole(at)
    BY <1>0, <1>7 DEF Decompress, Looking, Untouched
  <2>3. Fresh(m) /\ Whole(m)
    BY <1>0, <1>4, <2>1, <2>2
  <2>4. \/ pc' = "next"
        \/ pc' = "enter" /\ at' = m
        \/ pc' = "parse" /\ at' = m
    BY <1>7, <2>1 DEF Decompress, Accept
  <2>5. stack' = stack
    BY <1>7 DEF Decompress
  <2> QED
    BY <1>2, <2>3, <2>4, <2>5 DEF Looking
<1>8. CASE Broken \/ EndArchive
  <2>1. stack # <<>> /\ stack' = Pop /\ pc = "next" /\ pc' = pc
    BY <1>8 DEF Broken, EndArchive
  <2>2. DOMAIN stack' \subseteq DOMAIN stack /\ \A i \in DOMAIN stack' : stack'[i] = stack[i]
    BY <1>0, <2>1, PopOne DEF Pop
  <2>3. \A i \in DOMAIN stack' : Part(i)
    BY <1>1, <2>2 DEF Left
  <2> QED
    BY <2>1, <2>3 DEF Looking
<1>9. CASE NextMember
  <2> DEFINE k == Len(stack)
  <2>1. /\ DOMAIN stack' = DOMAIN stack /\ k \in DOMAIN stack /\ at' \in Range(Members[stack[k].node])
        /\ at' \in Left(k) /\ at' \in Node
        /\ \A i \in DOMAIN stack : stack'[i].node = stack[i].node /\ Range(stack'[i].left) \subseteq Left(i)
    BY <1>0, <1>9, Taken DEF Frame
  <2>2. \A i \in DOMAIN stack' : Part(i)
    BY <1>1, <2>1
  <2>3. PICK a \in Node : a = stack[k].node /\ Settled(a) = 0 /\ Whole(a)
    BY <1>1, <2>1
  <2>4. Above[at'] = Line(a)
    BY <2>1, <2>3, AroundMember
  <2>5. Fresh(at') /\ Whole(at')
    BY <1>1, <1>3, <2>1, <2>3, <2>4 DEF Whole, Line
  <2> QED
    BY <1>9, <2>2, <2>5 DEF NextMember
<1>10. CASE Refuse \/ Commit \/ Return
  <2>1. stack' = stack /\ pc' \in {"next", "returned"}
    BY <1>10 DEF Refuse, GiveUp, Commit, Return
  <2> QED
    BY <1>2, <2>1 DEF Looking
<1>11. CASE Member \/ Parse
  <2>1. stack' = stack /\ at' = at /\ Looking
    BY <1>11 DEF Member, Accept, Parse, Looking
  <2>2. pc' # "idle"
    BY <1>11 DEF Member, Accept, Parse
  <2> QED
    BY <1>0, <1>2, <2>1, <2>2 DEF Untouched
<1>12. CASE Cancel \/ Done \/ UNCHANGED vars
  <2>1. UNCHANGED <<stack, at, pc>>
    BY <1>12 DEF Cancel, Done, vars
  <2> QED
    BY <1>0, <1>2, <2>1 DEF Untouched, Looking
<1>13. ~Resume
  BY <1>0 DEF Resume, PlaceType
<1> QED
  BY <1>5, <1>6, <1>7, <1>8, <1>9, <1>10, <1>11, <1>12, <1>13 DEF Next

(* So it is after the step, which counts at most one node, clear of what   *)
(* is left.                                                                *)
LEMMA UntouchedStep ==
  ASSUME Nested, ReadInv, [Next]_vars, run' = run
  PROVE  Untouched' /\ CountedOnce'
<1>0. CountType /\ CountType' /\ CountedOnce /\ PlaceType'
  BY CountsOne, PlaceStep DEF ReadInv, PlaceInv
<1>1. CountedOnce'
  <2>1. CASE SameCounts
    BY <1>0, <2>1 DEF SameCounts, CountedOnce
  <2>2. ASSUME NEW m \in Node, Turn(m) PROVE CountedOnce'
    BY <1>0, <2>2 DEF Turn, OnlyAt, CountedOnce
  <2> QED
    BY <2>1, <2>2, CountsOne
<1>2. Looking' => Fresh(at)' /\ Whole(at)'
  <2> SUFFICES ASSUME Looking' PROVE Fresh(at)' /\ Whole(at)'
    OBVIOUS
  <2>1. SameCounts /\ Fresh(at') /\ Whole(at') /\ at' \in Node
    BY <1>0, CountsOne, AheadUntouched DEF PlaceType
  <2>2. \A a \in Above[at'] : a \in Node
    BY <2>1, Up DEF Inside, Archives
  <2> QED
    BY <2>1, <2>2 DEF Fresh, Whole, SameCounts
<1>3. ASSUME pc' = "idle" PROVE \A n \in Node : Settled(n)' = 0
  <2>1. pc = "idle" /\ \A n \in Node : Settled(n) = 0
    BY <1>3, AheadUntouched DEF ReadInv, Untouched
  <2>2. SameCounts
    <3>1. CASE Cancel \/ Done \/ UNCHANGED vars
      BY <3>1 DEF Cancel, Done, vars, counters, SameCounts, Settled
    <3>2. ~(Cancel \/ Done \/ UNCHANGED vars) => pc' # "idle" \/ Resume
      BY <2>1 DEF Next, Open, Refuse, Walk, Decompress, Broken, EndArchive, NextMember, Member, Parse, Commit, Return
    <3>3. ~Resume
      BY DEF Resume, ReadInv, PlaceInv, PlaceType
    <3> QED
      BY <1>3, <3>1, <3>2, <3>3
  <2> QED
    BY <2>1, <2>2 DEF SameCounts
<1>4. ASSUME NEW i \in DOMAIN stack'
      PROVE  (/\ Settled(stack[i].node) = 0 /\ Whole(stack[i].node)
              /\ \A r \in Left(i) : Fresh(r))'
  <2>1. PICK x \in Node : x = stack'[i].node /\ Settled(x) = 0 /\ Whole(x)
    BY AheadUntouched
  <2>2. \A r \in Range(stack'[i].left) : Fresh(r)
    BY AheadUntouched
  <2>3. x \notin Above[x] /\ \A a \in Above[x] : a \in Node
    BY Up DEF Inside, Archives
  <2>4. CASE SameCounts
    <3>1. Settled(x)' = 0 /\ Whole(x)'
      BY <2>1, <2>3, <2>4 DEF SameCounts, Whole
    <3>2. \A r \in Range(stack'[i].left) : Fresh(r)'
      BY <2>2, <2>4 DEF SameCounts, Fresh
    <3> QED
      BY <2>1, <3>1, <3>2 DEF Left
  <2>5. ASSUME NEW m \in Node, Turn(m) PROVE Settled(x)' = 0 /\ Whole(x)' /\ \A r \in Range(stack'[i].left) : Fresh(r)'
    <3>1. x \in Above[m] /\ Range(stack'[i].left) \cap Line(m) = {}
      BY <2>1, <2>5 DEF Turn, Clear, Left
    <3>2. x # m /\ m \notin Above[x]
      BY <3>1, Up DEF Inside
    <3>3. Settled(x)' = 0 /\ Whole(x)'
      BY <2>1, <2>3, <2>5, <3>2 DEF Turn, OnlyAt, Whole
    <3>4. ASSUME NEW r \in Range(stack'[i].left), NEW n \in Node, r \in Line(n) PROVE Settled(n)' = 0
      BY <2>2, <2>5, <3>1, <3>4 DEF Turn, OnlyAt, Fresh
    <3> QED
      BY <3>3, <3>4 DEF Fresh
  <2> QED
    BY <2>1, <2>4, <2>5, CountsOne DEF Left
<1> QED
  BY <1>1, <1>2, <1>3, <1>4 DEF Untouched

(* A run that begins has counted nothing.                                  *)
LEMMA ResumeStep ==
  ASSUME Nested, ReadInv, Resume
  PROVE  CountType' /\ Untouched' /\ CountedOnce' /\ (\A n \in Node : Settled(n)' = 0)
<1>1. stack' = <<>> /\ pc' = "idle" /\ found' = Zero /\ parsed' = Zero /\ failed' = Zero /\ skipped' = Zero
  BY DEF Resume
<1>2. CountType' /\ \A n \in Node : Settled(n)' = 0
  BY <1>1 DEF CountType, Settled, Zero
<1> QED
  BY <1>1, <1>2 DEF Untouched, CountedOnce, Looking

(* What is recorded are ebooks, and those of the first run are counted.    *)
LEMMA RecordedStep ==
  ASSUME Nested, ReadInv, [Next]_vars
  PROVE  Recorded'
<1>0. Recorded /\ run \in Nat /\ LookedAt /\ at \in Node /\ CountType /\ Untouched
  BY DEF ReadInv, PlaceInv, PlaceType
<1>1. CASE Commit
  <2>1. Format[at] \in Ebooks /\ Settled(at) = 0
    BY <1>0, <1>1 DEF Commit, LookedAt, Untouched, Looking, Fresh, Line
  <2>2. parsed[at] = 0
    BY <1>0, <2>1 DEF Settled, CountType
  <2>3. \/ UNCHANGED <<parsed, recorded>>
        \/ recorded' = recorded \cup {at} /\ parsed' = [parsed EXCEPT ![at] = @ + 1]
    BY <1>1 DEF Commit
  <2>4. run' = run
    BY <1>1 DEF Commit
  <2> QED
    BY <1>0, <2>1, <2>2, <2>3, <2>4 DEF Recorded, CountType
<1>2. CASE Resume
  <2>1. run' = run + 1 /\ recorded' = recorded
    BY <1>2 DEF Resume
  <2> QED
    BY <1>0, <2>1 DEF Recorded
<1>3. CASE ~Commit /\ ~Resume
  <2>1. UNCHANGED <<recorded, parsed, run>>
    BY <1>3 DEF Next, Open, Refuse, Walk, Decompress, Broken, EndArchive, NextMember, Member, Parse, Return,
       Cancel, Done, vars, counters
  <2> QED
    BY <1>0, <2>1 DEF Recorded
<1> QED
  BY <1>1, <1>2, <1>3

(* A step that is no Resume stays in its run.                              *)
LEMMA SameRun == [Next]_vars => Resume \/ run' = run
BY DEF Next, Open, Refuse, Walk, Decompress, Broken, EndArchive, NextMember, Member, Parse, Commit, Return,
   Cancel, Done, vars

(* The invariant of what is still to be read.                              *)
LEMMA ReadStep ==
  ASSUME Nested, ReadInv, [Next]_vars
  PROVE  ReadInv'
<1>1. PlaceInv' /\ Recorded'
  BY PlaceStep, RecordedStep DEF ReadInv
<1>2. CASE Resume
  BY <1>1, <1>2, ResumeStep DEF ReadInv
<1>3. CASE run' = run
  BY <1>1, <1>3, CountsOne, UntouchedStep DEF ReadInv
<1> QED
  BY <1>2, <1>3, SameRun

(* It holds before the first run.                                          *)
LEMMA ReadInit ==
  ASSUME Nested, Init
  PROVE  ReadInv
<1>1. stack = <<>> /\ pc = "idle" /\ at = top /\ top \in Tops /\ depth = 0 /\ run = 1 /\ recorded = {}
      /\ found = Zero /\ parsed = Zero /\ failed = Zero /\ skipped = Zero
  BY DEF Init
<1>2. ctx \in BOOLEAN
  BY Zenon DEF Init
<1>3. top \in Node /\ stack \in Seq(Frames) /\ DOMAIN stack = {}
  BY <1>1, ArchiveAssumption
<1>4. PlaceType
  BY <1>1, <1>2, <1>3 DEF PlaceType, Frames
<1>5. CountType /\ \A n \in Node : Settled(n) = 0
  BY <1>1 DEF CountType, Settled, Zero
<1> QED
  BY <1>1, <1>3, <1>4, <1>5 DEF ReadInv, PlaceInv, Nesting, LookedAt, Looking, Untouched, CountedOnce, Recorded

(* What is still to be read is untouched, in every reachable state.        *)
THEOREM ReadInvAlways ==
  ASSUME Nested
  PROVE  Spec => []ReadInv
<1>1. Init => ReadInv
  BY ReadInit
<1>2. ReadInv /\ [Next]_vars => ReadInv'
  BY ReadStep
<1> QED
  BY <1>1, <1>2, PTL DEF Spec

(* SettledForGood: whatever a step counts was not counted before, and      *)
(* nothing in an archive that was given up is.                             *)
THEOREM CountedForGood ==
  ASSUME Nested
  PROVE  Spec => SettledForGood
<1>1. ReadInv /\ [Next]_vars =>
        [run' = run => \A n \in Node :
           /\ Settled(n)' <= 1
           /\ (\E a \in Above[n] : failed[a] = 1) => Settled(n)' = Settled(n)]_vars
  <2> SUFFICES ASSUME ReadInv, [Next]_vars, run' = run, NEW n \in Node
               PROVE  /\ Settled(n)' <= 1
                      /\ (\E a \in Above[n] : failed[a] = 1) => Settled(n)' = Settled(n)
    OBVIOUS
  <2>1. Settled(n)' <= 1
    BY UntouchedStep DEF CountedOnce
  <2>2. CASE SameCounts
    BY <2>1, <2>2 DEF SameCounts
  <2>3. ASSUME NEW m \in Node, Turn(m) PROVE (\E a \in Above[n] : failed[a] = 1) => Settled(n)' = Settled(n)
    <3>1. CASE n = m
      BY <2>3, <3>1 DEF Turn, Whole
    <3>2. CASE n # m
      BY <2>3, <3>2 DEF Turn, OnlyAt
    <3> QED
      BY <3>1, <3>2
  <2> QED
    BY <2>1, <2>2, <2>3, CountsOne
<1> QED
  BY <1>1, ReadInvAlways, PTL DEF Spec, SettledForGood

(* ResumesAtTheGap: what is recorded is not parsed again, in the run that  *)
(* recorded it because it was read, in a later one because it is looked    *)
(* up.                                                                     *)
THEOREM NothingParsedAgain ==
  ASSUME Nested
  PROVE  Spec => ResumesAtTheGap
<1>1. ReadInv /\ [Next]_vars =>
        [\A n \in recorded : ~ctx => found'[n] <= found[n] \/ run' # run]_vars
  <2> SUFFICES ASSUME ReadInv, [Next]_vars, run' = run, ~ctx, NEW n \in recorded PROVE found'[n] <= found[n]
    OBVIOUS
  <2>0. PlaceInv /\ CountType /\ Recorded /\ n \in Node /\ at \in Node /\ Untouched
    BY DEF ReadInv, PlaceInv, PlaceType, Recorded
  <2>1. CASE UNCHANGED found
    BY <2>0, <2>1 DEF CountType
  <2>2. ASSUME NEW m \in Node, found' = [found EXCEPT ![m] = @ + 1], ~Skippable(m), Fresh(m)
        PROVE  found'[n] <= found[n]
    <3>1. CASE run > 1
      <4>1. n # m
        BY <2>2, <3>1 DEF Skippable
      <4> QED
        BY <2>0, <2>2, <4>1 DEF CountType
    <3>2. CASE run = 1
      <4>1. parsed[n] = 1 /\ Settled(m) = 0
        BY <2>0, <2>2, <3>2 DEF Recorded, Fresh, Line
      <4>2. parsed[m] = 0
        BY <2>0, <4>1 DEF Settled, CountType
      <4> QED
        BY <2>0, <2>2, <4>1, <4>2 DEF CountType
    <3> QED
      BY <2>0, <3>1, <3>2 DEF Recorded, PlaceInv, PlaceType
  <2>3. CASE Decompress
    <3>1. PICK m \in Node : m = Members[at][1]
      <4>1. Len(Members[at]) = 1 /\ Members[at] \in Seq(Node)
        BY <2>0, <2>3, ArchiveAssumption DEF Decompress
      <4> QED
        BY <4>1
    <3>2. \/ UNCHANGED found
          \/ found' = [found EXCEPT ![m] = @ + 1] /\ ~Skippable(m) /\ at' = m /\ pc' = "parse"
      BY <2>3, <3>1 DEF Decompress, Accept
    <3> QED
      BY <2>1, <2>2, <3>2, AheadUntouched DEF Looking
  <2>4. CASE Member
    <3>1. PICK m \in Node : m = at
      BY <2>0
    <3>2. UNCHANGED found \/ (found' = [found EXCEPT ![m] = @ + 1] /\ ~Skippable(m))
      BY <2>4, <3>1 DEF Member, Accept
    <3>3. Fresh(m)
      BY <2>0, <2>4, <3>1 DEF Member, Looking, Untouched
    <3> QED
      BY <2>1, <2>2, <3>2, <3>3
  <2>5. CASE ~Decompress /\ ~Member
    <3>1. ~Resume
      BY <2>0 DEF Resume, PlaceInv, PlaceType
    <3>2. UNCHANGED found
      BY <2>5, <3>1 DEF Next, Open, Refuse, GiveUp, Walk, Broken, EndArchive, NextMember, Parse, Commit, Return,
         Cancel, Done, vars, counters
    <3> QED
      BY <2>1, <3>2
  <2> QED
    BY <2>3, <2>4, <2>5
<1> QED
  BY <1>1, ReadInvAlways, PTL DEF Spec, ResumesAtTheGap

-----------------------------------------------------------------------------
(* While the run is not cancelled, what a step counts is counted.          *)
LEMMA CountsIt ==
  ASSUME CountType, ~ctx, NEW m \in Node, Settled(m) = 0
  PROVE  /\ Fail(m) /\ UNCHANGED <<parsed, skipped>> => Settled(m)' = 1 /\ failed'[m] = 1
         /\ Skip(m) /\ UNCHANGED <<parsed, failed>> => Settled(m)' = 1
         /\ parsed' = [parsed EXCEPT ![m] = @ + 1] /\ UNCHANGED <<failed, skipped>> => Settled(m)' = 1
<1>1. parsed \in [Node -> Nat] /\ failed \in [Node -> Nat] /\ skipped \in [Node -> Nat]
  BY DEF CountType
<1>2. parsed[m] = 0 /\ failed[m] = 0 /\ skipped[m] = 0
  BY <1>1 DEF Settled
<1> QED
  BY <1>1, <1>2 DEF Settled, Fail, Skip

(* What is counted stays counted to the end of the run.                    *)
LEMMA StaysCounted ==
  ASSUME Nested, ReadInv, [Next]_vars, run' = run, NEW n \in Node, Counted(n)
  PROVE  Counted(n)'
<1>0. CountType /\ \A a \in Above[n] : a \in Node
  BY Up DEF ReadInv, Inside, Archives
<1>1. CASE SameCounts
  BY <1>0, <1>1 DEF SameCounts, Counted
<1>2. ASSUME NEW m \in Node, Turn(m) PROVE Counted(n)'
  <2>1. Settled(m) = 0 /\ failed[m] = 0
    BY <1>0, <1>2 DEF Turn, Settled, CountType
  <2>2. CASE Settled(n) = 1
    BY <1>2, <2>1, <2>2 DEF Turn, OnlyAt, Counted
  <2>3. ASSUME NEW a \in Above[n], failed[a] = 1 PROVE Counted(n)'
    <3>1. a # m /\ a \in Node
      BY <1>0, <2>1, <2>3
    <3>2. failed'[a] = 1
      BY <1>2, <2>3, <3>1 DEF Turn, OnlyAt
    <3> QED
      BY <3>2 DEF Counted
  <2> QED
    BY <2>2, <2>3 DEF Counted
<1> QED
  BY <1>1, <1>2, CountsOne

(* An ebook that is ahead is counted by the step, given up with an archive *)
(* around it, or ahead of the next one.                                    *)
LEMMA StaysAhead ==
  ASSUME Nested, NamesTell, ReadInv, [Next]_vars, run' = run, ~ctx, ~ctx',
         NEW n \in Node, Format[n] \in Ebooks, top \in Above[n], Ahead(n)
  PROVE  Counted(n)' \/ Ahead(n)'
<1>0. PlaceInv /\ PlaceType /\ Nesting /\ LookedAt /\ CountType /\ Untouched /\ Recorded /\ stack \in Seq(Frames)
      /\ top \in Node /\ at \in Node
  BY ArchiveAssumption DEF ReadInv, PlaceInv, PlaceType, Frames
<1>1. n \notin Archives /\ Format[n] # "none" /\ \A a \in Above[n] : a \in Archives
  BY Up DEF Inside, Archives, Containers, Listed, Streamed, Extracted, Single, Ebooks
<1>2. ASSUME NEW r \in Line(n) PROVE r = n \/ (r \in Above[n] /\ r \in Archives /\ Format[r] \notin Ebooks \cup {"none"})
  BY <1>1, <1>2 DEF Line, Archives, Containers, Listed, Streamed, Extracted, Single, Ebooks
<1>3. Looking => Settled(at) = 0
  BY <1>0 DEF Untouched, Fresh, Line
<1>4. ASSUME NEW a \in Above[n], failed'[a] = 1 PROVE Counted(n)'
  BY <1>4 DEF Counted
<1>5. ASSUME NEW m \in Line(n), m \in Node, Settled(m) = 0, Fail(m), UNCHANGED <<parsed, skipped>> PROVE Counted(n)'
  BY <1>0, <1>2, <1>4, <1>5, CountsIt DEF Counted
<1>6. ASSUME Settled(n) = 0, Skip(n), UNCHANGED <<parsed, failed>> PROVE Counted(n)'
  BY <1>0, <1>6, CountsIt DEF Counted
<1>7. ASSUME Looking', at' \in Line(n) PROVE Ahead(n)'
  BY <1>7 DEF Ahead
<1>8. ASSUME NEW i \in DOMAIN stack, NEW r \in Left(i), r \in Line(n), stack' = stack PROVE Ahead(n)'
  BY <1>8 DEF Ahead, Left
<1>9. ASSUME Looking, ~(at \in Line(n)), stack' = stack PROVE Ahead(n)'
  BY <1>8, <1>9 DEF Ahead, Looking
<1>10. CASE Open
  <2>1. Settled(top) = 0 /\ at' = top /\ top \in Line(n)
    BY <1>0, <1>10 DEF Open, Untouched, Line
  <2>2. pc' = "enter" \/ (Fail(top) /\ UNCHANGED <<parsed, skipped>>)
    BY <1>10 DEF Open
  <2> QED
    BY <1>0, <1>5, <1>7, <2>1, <2>2 DEF Looking
<1>11. CASE Refuse
  <2>1. Looking /\ stack' = stack /\ Fail(at) /\ UNCHANGED <<parsed, skipped>>
    BY <1>11 DEF Refuse, GiveUp, Looking
  <2> QED
    BY <1>0, <1>3, <1>5, <1>9, <2>1
<1>12. CASE Walk
  <2> DEFINE f == [node |-> at, depth |-> depth, left |-> Members[at]]
  <2>1. f \in Frames /\ stack' = Append(stack, f) /\ Looking /\ at \in Archives
    BY <1>0, <1>12, ArchiveAssumption DEF Walk, Frames, PlaceType, LookedAt, Looking
  <2>2. /\ DOMAIN stack' = DOMAIN stack \cup {Len(stack) + 1}
        /\ stack'[Len(stack) + 1] = f /\ \A i \in DOMAIN stack : stack'[i] = stack[i]
    BY <1>0, <2>1, PushOne
  <2>3. f.left = Members[at]
    OBVIOUS
  <2> HIDE DEF f
  <2>4. CASE at \in Line(n)
    <3>1. at \in Above[n]
      BY <1>1, <1>2, <2>1, <2>4
    <3>2. PICK m \in Range(Members[at]) : m \in Line(n)
      BY <3>1, Up DEF Inside
    <3> QED
      BY <2>2, <2>3, <3>2 DEF Ahead, Left
  <2>5. CASE ~(at \in Line(n))
    <3>1. PICK i \in DOMAIN stack : \E r \in Left(i) : r \in Line(n)
      BY <2>1, <2>5 DEF Ahead, Looking
    <3> QED
      BY <2>2, <3>1 DEF Ahead, Left
  <2> QED
    BY <2>4, <2>5
<1>13. CASE Decompress
  <2>1. Looking /\ stack' = stack /\ at \in Archives /\ Fresh(at)
    BY <1>0, <1>13 DEF Decompress, Looking, LookedAt, Untouched
  <2>2. CASE at \in Line(n)
    <3>1. at \in Above[n]
      BY <1>1, <1>2, <2>1, <2>2
    <3>2. PICK m \in Range(Members[at]) : m \in Line(n)
      BY <3>1, Up DEF Inside
    <3>3. m = Members[at][1]
      <4>1. Len(Members[at]) = 1 /\ Members[at] \in Seq(Node)
        BY <1>0, <1>13, ArchiveAssumption DEF Decompress
      <4> QED
        BY <3>2, <4>1 DEF Range
    <3>4. Settled(n) = 0
      BY <2>1, <2>2 DEF Fresh
    <3>5. \/ Format[m] = "none"
          \/ pc' = "enter" /\ at' = m
          \/ Format[m] \in Ebooks /\ Skip(m) /\ UNCHANGED <<parsed, failed>>
          \/ pc' = "parse" /\ at' = m
      BY <1>13, <3>3 DEF Decompress, Accept
    <3>6. m = n \/ Format[m] \notin Ebooks \cup {"none"}
      BY <1>2, <3>2
    <3>7. Format[m] # "none"
      BY <1>1, <3>6
    <3>8. CASE Looking' /\ at' = m
      BY <1>7, <3>2, <3>8
    <3>9. CASE Format[m] \in Ebooks /\ Skip(m) /\ UNCHANGED <<parsed, failed>>
      BY <1>6, <3>4, <3>6, <3>9
    <3> QED
      BY <3>5, <3>7, <3>8, <3>9 DEF Looking
  <2> QED
    BY <1>9, <2>1, <2>2
<1>14. ASSUME pc = "next" PROVE \E i \in DOMAIN stack : \E r \in Left(i) : r \in Line(n)
  BY <1>14 DEF Ahead, Looking
<1>15. CASE Broken \/ EndArchive
  <2> DEFINE k == Len(stack)
  <2>1. stack # <<>> /\ stack' = Pop /\ pc = "next"
    BY <1>15 DEF Broken, EndArchive
  <2>2. /\ k \in DOMAIN stack /\ DOMAIN stack' = DOMAIN stack \ {k}
        /\ \A i \in DOMAIN stack' : stack'[i] = stack[i]
    BY <1>0, <2>1, PopOne DEF Pop
  <2>3. PICK i \in DOMAIN stack : \E r \in Left(i) : r \in Line(n)
    BY <1>14, <2>1
  <2>4. CASE i # k
    BY <2>2, <2>3, <2>4 DEF Ahead, Left
  <2>5. CASE i = k
    <3>1. PICK a \in Node : a = stack[k].node
      <4>1. stack[k] \in Frames
        BY <1>0, <2>2
      <4> QED
        BY <4>1 DEF Frames, Archives
    <3>2. PICK r \in Left(k) : r \in Line(n)
      BY <2>3, <2>5
    <3>3. r \in Range(Members[a]) /\ Settled(a) = 0
      BY <1>0, <2>2, <3>1, <3>2 DEF Nesting, Untouched
    <3>4. a \in Line(n)
      BY <3>1, <3>2, <3>3, AroundMember, LineUp DEF Line
    <3>5. ~EndArchive
      <4>1. Left(k) # {}
        BY <3>2
      <4> QED
        BY <4>1 DEF EndArchive, Frame, Left, Range
    <3>6. Fail(a) /\ UNCHANGED <<parsed, skipped>>
      BY <1>15, <3>1, <3>5 DEF Broken, Frame
    <3> QED
      BY <1>5, <3>1, <3>3, <3>4, <3>6
  <2> QED
    BY <2>4, <2>5
<1>16. CASE NextMember
  <2>1. /\ DOMAIN stack' = DOMAIN stack /\ at' \in Node /\ at' \in Left(Len(stack)) /\ Len(stack) \in DOMAIN stack
        /\ \A i \in DOMAIN stack : Left(i) \subseteq Range(stack'[i].left) \cup {at'}
    BY <1>0, <1>16, Taken
  <2>2. PICK i \in DOMAIN stack : \E r \in Left(i) : r \in Line(n)
    BY <1>14, <1>16 DEF NextMember
  <2>3. PICK r \in Left(i) : r \in Line(n)
    BY <2>2
  <2>4. CASE r # at'
    BY <2>1, <2>3, <2>4 DEF Ahead, Left
  <2>5. CASE r = at'
    <3>1. PICK m \in Node : m = at' /\ m \in Line(n)
      BY <2>1, <2>3, <2>5
    <3>2. Settled(m) = 0 /\ Fresh(m)
      BY <1>0, <2>1, <3>1 DEF Untouched, Fresh, Line
    <3>3. \/ Skippable(m) /\ Skip(m) /\ UNCHANGED <<parsed, failed>>
          \/ Fail(m) /\ UNCHANGED <<parsed, skipped>>
          \/ pc' = "member"
      BY <1>16, <3>1 DEF NextMember
    <3>4. Skippable(m) => m = n
      BY <1>0, <1>2, <3>1 DEF Skippable, Recorded, NamesTell
    <3> QED
      BY <1>5, <1>6, <1>7, <3>1, <3>2, <3>3, <3>4 DEF Looking
  <2> QED
    BY <2>4, <2>5
<1>17. CASE Member
  <2>1. PICK m \in Node : m = at
    BY <1>0
  <2>2. Looking /\ stack' = stack /\ Settled(m) = 0
    BY <1>3, <1>17, <2>1 DEF Member, Looking
  <2>3. \/ Format[m] = "none"
        \/ pc' \in {"enter", "parse"} /\ at' = m
        \/ Format[m] \in Ebooks /\ Skip(m) /\ UNCHANGED <<parsed, failed>>
    BY <1>17, <2>1 DEF Member, Accept
  <2>4. CASE m \in Line(n)
    <3>1. m = n \/ Format[m] \notin Ebooks \cup {"none"}
      BY <1>2, <2>4
    <3>2. Format[m] # "none"
      BY <1>1, <3>1
    <3>3. CASE Looking' /\ at' = m
      BY <1>7, <2>4, <3>3
    <3>4. CASE Format[m] \in Ebooks /\ Skip(m) /\ UNCHANGED <<parsed, failed>>
      BY <1>6, <2>2, <3>1, <3>4
    <3> QED
      BY <2>3, <3>2, <3>3, <3>4 DEF Looking
  <2> QED
    BY <1>9, <2>1, <2>2, <2>4
<1>18. CASE Parse
  <2>1. Looking /\ stack' = stack /\ at' = at /\ Settled(at) = 0 /\ Format[at] \in Ebooks
    BY <1>0, <1>3, <1>18 DEF Parse, Looking, LookedAt
  <2>2. \/ pc' = "commit"
        \/ Skip(at) /\ UNCHANGED <<parsed, failed>>
        \/ Fail(at) /\ UNCHANGED <<parsed, skipped>>
    BY <1>18 DEF Parse
  <2> QED
    BY <1>0, <1>2, <1>5, <1>6, <1>7, <1>9, <2>1, <2>2 DEF Looking
<1>19. CASE Commit
  <2>1. Looking /\ stack' = stack /\ Settled(at) = 0 /\ Format[at] \in Ebooks
    BY <1>0, <1>3, <1>19 DEF Commit, Looking, LookedAt
  <2>2. \/ parsed' = [parsed EXCEPT ![at] = @ + 1] /\ UNCHANGED <<failed, skipped>>
        \/ Fail(at) /\ UNCHANGED <<parsed, skipped>>
    BY <1>19 DEF Commit
  <2>3. PICK m \in Node : m = at
    BY <1>0
  <2>4. Settled(m)' = 1
    BY <1>0, <2>1, <2>2, <2>3, CountsIt
  <2>5. at \in Line(n) => m = n
    BY <1>2, <2>1, <2>3
  <2> QED
    BY <1>9, <2>1, <2>4, <2>5 DEF Counted
<1>20. CASE Return
  <2>1. \E i \in DOMAIN stack : \E r \in Left(i) : r \in Line(n)
    BY <1>14, <1>20 DEF Return
  <2> QED
    BY <1>20, <2>1 DEF Return
<1>21. CASE Done \/ UNCHANGED vars
  BY <1>21 DEF Done, vars, Ahead, Looking, Left
<1>22. ~Resume /\ ~Cancel
  BY <1>0 DEF Resume, Cancel, PlaceType
<1> QED
  BY <1>10, <1>11, <1>12, <1>13, <1>15, <1>16, <1>17, <1>18, <1>19, <1>20, <1>21, <1>22 DEF Next

(* Accounted: an archive that was read to its end, without an              *)
(* interruption, has lost no ebook, at any level of what it holds.         *)
THEOREM EveryEbookAccounted ==
  ASSUME Nested, NamesTell
  PROVE  Spec => []Accounted
<1>1. Init => NothingMissed
  BY DEF Init, NothingMissed, Ahead
<1>2. ReadInv /\ NothingMissed /\ [Next]_vars => NothingMissed'
  <2> SUFFICES ASSUME ReadInv, NothingMissed, [Next]_vars, ~ctx',
                      NEW n \in Node, Format[n] \in Ebooks, top' \in Above[n]
               PROVE  Counted(n)' \/ Ahead(n)'
    BY DEF NothingMissed
  <2>1. CASE Resume
    BY <2>1 DEF Resume, Ahead
  <2>2. CASE ~Resume
    <3>1. run' = run /\ top' = top /\ ~ctx
      BY <2>2, SameRun DEF Next, Open, Refuse, Walk, Decompress, Broken, EndArchive, NextMember, Member, Parse,
         Commit, Return, Cancel, Done, vars
    <3>2. Counted(n) \/ Ahead(n)
      BY <3>1 DEF NothingMissed
    <3> QED
      BY <3>1, <3>2, StaysCounted, StaysAhead
  <2> QED
    BY <2>1, <2>2
<1>3. ReadInv /\ NothingMissed => Accounted
  <2> SUFFICES ASSUME ReadInv, NothingMissed, pc = "returned", ~ctx,
                      NEW n \in Node, Format[n] \in Ebooks, top \in Above[n]
               PROVE  Counted(n)
    BY DEF Accounted, Counted
  <2>1. stack = <<>>
    BY DEF ReadInv, PlaceInv, LookedAt
  <2>2. ~Ahead(n)
    BY <2>1 DEF Ahead, Looking
  <2> QED
    BY <2>2 DEF NothingMissed
<1> QED
  BY <1>1, <1>2, <1>3, ReadInvAlways, PTL DEF Spec

=============================================================================
