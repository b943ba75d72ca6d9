------------------------ MODULE RpaRecordTreeProofs -------------------------
(***************************************************************************)
(* Proofs about RpaRecordTree, for any number of records: rparecord.c      *)
(* finds its way in every array that the machine builds, by counting START *)
(* and END records, because they are nested.                               *)
(***************************************************************************)
EXTENDS RpaRecordTree, SequenceTheorems, FiniteSetTheorems, TLAPS

Records == [type : {Start, End}, rule : {"A"}, top : Int, size : Int, loop : BOOLEAN]

RecordsTyped ==
  /\ recs \in Seq(Records) /\ Branches \subseteq Indices(recs)
  /\ parent \in [Branches -> Int] /\ end \in [Branches -> Int]
  /\ open \in Seq(Branches)

\* A record is the START record of a branch, or the END record of just one.
EndsPaired ==
  /\ \A i \in Indices(recs) :
       /\ recs[i + 1].type = Start <=> i \in Branches
       /\ i \notin Branches => \E b \in Branches : end[b] = i
  /\ \A b \in Branches :
       end[b] = -1 \/ (b < end[b] /\ end[b] < Len(recs) /\ end[b] \notin Branches)
  /\ \A b, c \in Branches : end[b] = end[c] /\ end[b] >= 0 => b = c

\* What begins in a branch ends in it.
BranchesNested ==
  \A b, k \in Branches :
    b < k /\ k < end[b] => end[k] >= 0 /\ end[k] < end[b]

OpenListed ==
  /\ \A p, q \in 1..Len(open) : p < q => open[p] < open[q]
  /\ \A b \in Branches : end[b] = -1 <=> \E p \in 1..Len(open) : open[p] = b

\* p is the innermost branch that has not been ended at k, or -1.
EndedBefore(b, k) == 0 <= end[b] /\ end[b] < k
Encloses(p, k) ==
  /\ p = -1 \/ (p \in Branches /\ p < k /\ ~EndedBefore(p, k))
  /\ \A q \in Branches : p < q /\ q < k => EndedBefore(q, k)

ParentsEnclose == \A k \in Branches : Encloses(parent[k], k)

TreeInv ==
  RecordsTyped /\ EndsPaired /\ BranchesNested /\ OpenListed /\ ParentsEnclose

-----------------------------------------------------------------------------
(* Least and greatest.                                                     *)

LEMMA MinIs ==
  ASSUME NEW S \in SUBSET Int, NEW m \in S, \A x \in S : m <= x
  PROVE  MinOf(S) = m
<1>1. Min(S) \in S /\ \A x \in S : Min(S) <= x
  BY Zenon DEF Min
<1>2. Min(S) = m
  <2>1. Min(S) \in Int /\ m \in Int /\ Min(S) <= m /\ m <= Min(S)
    BY <1>1
  <2> QED BY <2>1
<1> QED BY <1>2 DEF MinOf

LEMMA MaxIs ==
  ASSUME NEW S \in SUBSET Int, NEW m \in S, \A x \in S : x <= m
  PROVE  MaxOf(S) = m
<1>1. \A x \in S : m >= x
  OBVIOUS
<1>2. Max(S) \in S /\ \A x \in S : Max(S) >= x
  BY <1>1, Zenon DEF Max
<1>3. Max(S) = m
  <2>1. Max(S) \in Int /\ m \in Int /\ Max(S) >= m /\ Max(S) <= m
    BY <1>2
  <2> QED BY <2>1
<1> QED BY <1>3 DEF MaxOf

-----------------------------------------------------------------------------
(* Counting.                                                               *)

LEMMA BranchTyped ==
  ASSUME TreeInv, NEW b \in Branches
  PROVE  /\ b \in Nat /\ b < Len(recs) /\ Len(recs) \in Nat /\ end[b] \in Int
         /\ end[b] = -1 \/ (b < end[b] /\ end[b] < Len(recs) /\ end[b] \notin Branches)
         /\ parent[b] \in Int
<1>1. b \in Indices(recs) /\ end[b] \in Int /\ parent[b] \in Int /\ Len(recs) \in Nat
  BY DEF TreeInv, RecordsTyped
<1>2. b \in Nat /\ b < Len(recs)
  BY <1>1 DEF Indices
<1> QED BY <1>1, <1>2 DEF TreeInv, EndsPaired

LEMMA TypesTell ==
  ASSUME TreeInv, NEW i \in Nat, i < Len(recs)
  PROVE  /\ i \in Indices(recs)
         /\ Slot0(recs, i).type = Start <=> i \in Branches
         /\ Slot0(recs, i).type = End <=> i \notin Branches
<1>1. i \in Indices(recs) /\ i + 1 \in 1..Len(recs)
  BY DEF TreeInv, RecordsTyped, Indices
<1>2. recs[i + 1] \in Records
  BY <1>1 DEF TreeInv, RecordsTyped
<1>3. recs[i + 1].type \in {Start, End}
  BY <1>2 DEF Records
<1>4. recs[i + 1].type = Start <=> i \in Branches
  BY <1>1 DEF TreeInv, EndsPaired
<1> QED BY <1>1, <1>3, <1>4 DEF Slot0, Start, End

\* As many branches begin from i to j as there are STARTs, and as many END.
BeginIn(i, j) == {b \in Branches : b \in i..j}
EndIn(i, j) == {b \in Branches : end[b] \in i..j}

LEMMA OpensCount ==
  ASSUME TreeInv, NEW i \in Nat, NEW j \in Nat, j < Len(recs)
  PROVE  /\ IsFiniteSet(BeginIn(i, j))
         /\ Opens(recs, i, j) = Cardinality(BeginIn(i, j))
<1>1. ASSUME NEW k \in i..j
      PROVE  k \in Nat /\ k < Len(recs)
  BY DEF TreeInv, RecordsTyped
<1>2. {k \in i..j : Slot0(recs, k).type = Start} = BeginIn(i, j)
  BY <1>1, TypesTell DEF BeginIn
<1>3. IsFiniteSet(i..j)
  BY FS_Interval
<1>4. BeginIn(i, j) \in SUBSET (i..j)
  BY DEF BeginIn
<1>5. IsFiniteSet(BeginIn(i, j))
  BY <1>3, <1>4, FS_Subset
<1> QED BY <1>2, <1>5 DEF Opens

LEMMA ClosesCount ==
  ASSUME TreeInv, NEW i \in Nat, NEW j \in Nat, j < Len(recs)
  PROVE  /\ IsFiniteSet(EndIn(i, j))
         /\ Closes(recs, i, j) = Cardinality(EndIn(i, j))
<1> DEFINE E == {k \in i..j : Slot0(recs, k).type = End}
           f == [b \in EndIn(i, j) |-> end[b]]
<1>1. \A k \in i..j : k \in E <=> k \notin Branches
  <2>1. \A k \in i..j : k \in Nat /\ k < Len(recs)
    BY DEF TreeInv, RecordsTyped
  <2> QED BY <2>1, TypesTell
<1>2. IsFiniteSet(E)
  <2>1. IsFiniteSet(i..j)
    BY FS_Interval
  <2>2. E \in SUBSET (i..j)
    OBVIOUS
  <2> QED BY <2>1, <2>2, FS_Subset
<1>3. E \in SUBSET (i..j)
  OBVIOUS
<1> HIDE DEF E
<1>4. f \in [EndIn(i, j) -> E]
  <2>1. ASSUME NEW b \in EndIn(i, j)
        PROVE  end[b] \in E
    <3>1. b \in Branches /\ end[b] \in i..j
      BY DEF EndIn
    <3>2. end[b] \notin Branches
      BY <3>1, BranchTyped
    <3> QED BY <1>1, <3>1, <3>2
  <2> QED BY <2>1
<1>5. f \in Injection(EndIn(i, j), E)
  <2>1. \A b, c \in EndIn(i, j) : end[b] = end[c] => b = c
    BY DEF EndIn, TreeInv, EndsPaired
  <2> QED BY <1>4, <2>1 DEF Injection, IsInjective
<1>6. f \in Surjection(EndIn(i, j), E)
  <2>1. ASSUME NEW k \in E
        PROVE  \E b \in EndIn(i, j) : end[b] = k
    <3>1. k \in i..j /\ k \notin Branches /\ k \in Indices(recs)
      BY <1>1, <1>3 DEF Indices, TreeInv, RecordsTyped
    <3>2. PICK b \in Branches : end[b] = k
      BY <3>1 DEF TreeInv, EndsPaired
    <3> QED BY <3>1, <3>2 DEF EndIn
  <2> QED BY <1>4, <2>1 DEF Surjection
<1>7. IsFiniteSet(EndIn(i, j)) /\ Cardinality(EndIn(i, j)) = Cardinality(E)
  BY <1>2, <1>5, <1>6, FS_Injection
<1>8. Closes(recs, i, j) = Cardinality(E)
  BY DEF Closes, E
<1> QED BY <1>7, <1>8

\* Fewer END than begin, if one more begins.
LEMMA Fewer ==
  ASSUME NEW S, NEW T, IsFiniteSet(S), T \in SUBSET S, NEW x \in S, x \notin T
  PROVE  Cardinality(S) # Cardinality(T)
BY FS_Subset

-----------------------------------------------------------------------------
(* rpa_recordtree_get.                                                     *)

LEMMA GetEnd ==
  ASSUME TreeInv, NEW b \in Branches
  PROVE  TreeGet(recs, b, End) = end[b]
<1> DEFINE n == Len(recs)
           Found == {i \in b..(n - 1) : Opens(recs, b, i) = Closes(recs, b, i)}
<1>1. /\ b \in Nat /\ b < n /\ n \in Nat /\ end[b] \in Int
      /\ end[b] = -1 \/ (b < end[b] /\ end[b] < n /\ end[b] \notin Branches)
  BY BranchTyped
<1>2. TreeGet(recs, b, End) = MinOf(Found)
  BY <1>1, TypesTell DEF TreeGet, Start, End
<1>3. ASSUME NEW i \in b..(n - 1), end[b] = -1 \/ i < end[b]
      PROVE  i \notin Found
  <2>1. EndIn(b, i) \in SUBSET BeginIn(b, i) /\ b \notin EndIn(b, i)
    <3>1. ASSUME NEW c \in EndIn(b, i)
          PROVE  c \in BeginIn(b, i) /\ c # b
      <4>1. c \in Branches /\ b <= end[c] /\ end[c] <= i
        BY DEF EndIn
      <4>2. c \in Nat /\ end[c] \in Int /\ c < end[c] /\ end[c] \notin Branches
        BY <1>1, <4>1, BranchTyped
      <4>3. c # b
        BY <1>1, <1>3, <4>1, <4>2
      <4>4. ~(c < b)
        <5> SUFFICES ASSUME c < b PROVE FALSE
          OBVIOUS
        <5>1. b < end[c]
          <6>1. end[c] # b
            BY <4>2
          <6> QED BY <1>1, <4>1, <4>2, <6>1
        <5>2. end[b] >= 0 /\ end[b] < end[c]
          BY <4>1, <5>1 DEF TreeInv, BranchesNested
        <5> QED BY <1>1, <1>3, <4>1, <4>2, <5>2
      <4> QED BY <1>1, <4>1, <4>2, <4>3, <4>4 DEF BeginIn
    <3> QED BY <3>1
  <2>2. b \in BeginIn(b, i)
    BY <1>1 DEF BeginIn
  <2>3. i \in Nat /\ i < n
    BY <1>1
  <2>4. IsFiniteSet(BeginIn(b, i))
    BY <1>1, <2>3, OpensCount
  <2>5. Cardinality(BeginIn(b, i)) # Cardinality(EndIn(b, i))
    BY <2>1, <2>2, <2>4, Fewer
  <2> QED BY <1>1, <2>3, <2>5, OpensCount, ClosesCount
<1>4. CASE end[b] = -1
  <2>1. Found = {}
    BY <1>3, <1>4
  <2> HIDE DEF Found
  <2> QED BY <1>2, <1>4, <2>1 DEF MinOf
<1>5. CASE end[b] # -1
  <2> DEFINE e == end[b]
  <2>1. b < e /\ e < n /\ e \in Nat /\ e \notin Branches
    BY <1>1, <1>5
  <2>2. BeginIn(b, e) = EndIn(b, e)
    <3>1. ASSUME NEW c \in BeginIn(b, e)
          PROVE  c \in EndIn(b, e)
      <4>1. c \in Branches /\ b <= c /\ c < e
        <5>1. c \in Branches /\ c \in b..e
          BY DEF BeginIn
        <5>2. c # e
          BY <2>1, <5>1
        <5> QED BY <1>1, <2>1, <5>1, <5>2
      <4>2. CASE c = b
        BY <1>1, <2>1, <4>1, <4>2 DEF EndIn
      <4>3. CASE c # b
        <5>1. c \in Nat /\ end[c] \in Int /\ (end[c] = -1 \/ c < end[c])
          BY <4>1, BranchTyped
        <5>2. b < c
          BY <1>1, <4>1, <4>3, <5>1
        <5>3. end[c] >= 0 /\ end[c] < e
          BY <4>1, <5>2 DEF TreeInv, BranchesNested
        <5> QED BY <1>1, <2>1, <4>1, <5>1, <5>2, <5>3 DEF EndIn
      <4> QED BY <4>2, <4>3
    <3>2. ASSUME NEW c \in EndIn(b, e)
          PROVE  c \in BeginIn(b, e)
      <4>1. c \in Branches /\ b <= end[c] /\ end[c] <= e
        BY DEF EndIn
      <4>2. c \in Nat /\ end[c] \in Int /\ c < end[c] /\ end[c] \notin Branches
        BY <1>1, <4>1, BranchTyped
      <4>3. CASE c < b
        <5>1. end[c] # b
          BY <4>2
        <5>2. b < end[c]
          BY <1>1, <4>1, <4>2, <5>1
        <5>3. end[b] < end[c]
          BY <4>1, <4>3, <5>2 DEF TreeInv, BranchesNested
        <5> QED BY <1>1, <4>1, <4>2, <5>3
      <4>4. CASE ~(c < b)
        BY <1>1, <2>1, <4>1, <4>2, <4>4 DEF BeginIn
      <4> QED BY <4>3, <4>4
    <3> QED BY <3>1, <3>2
  <2>3. e \in Found
    BY <1>1, <2>1, <2>2, OpensCount, ClosesCount
  <2>4. \A i \in Found : e <= i
    <3>1. \A i \in Found : i \in Int /\ ~(i < e)
      BY <1>1, <1>3
    <3> QED BY <2>1, <3>1
  <2>5. Found \in SUBSET Int
    BY <1>1
  <2>6. MinOf(Found) = e
    <3> HIDE DEF Found, e
    <3> QED BY <2>3, <2>4, <2>5, MinIs
  <2> QED BY <1>2, <2>6
<1> QED BY <1>4, <1>5

LEMMA GetStart ==
  ASSUME TreeInv, NEW b \in Complete
  PROVE  TreeGet(recs, end[b], Start) = b
<1> DEFINE n == Len(recs)
           e == end[b]
           Found == {i \in 0..e : Opens(recs, i, e) = Closes(recs, i, e)}
<1>1. /\ b \in Branches /\ b \in Nat /\ n \in Nat /\ e \in Nat
      /\ b < e /\ e < n /\ e \notin Branches
  <2>1. b \in Branches /\ e >= 0
    BY DEF Complete
  <2> QED BY <2>1, BranchTyped
<1>2. TreeGet(recs, e, Start) = MaxOf(Found)
  BY <1>1, TypesTell DEF TreeGet, Start, End
<1>3. ASSUME NEW i \in 0..e, b <= i, NEW c \in BeginIn(i, e)
      PROVE  c \in EndIn(i, e)
  <2>1. c \in Branches /\ i <= c /\ c <= e
    BY DEF BeginIn
  <2>2. c \in Nat /\ end[c] \in Int /\ (end[c] = -1 \/ c < end[c]) /\ c # e
    BY <1>1, <2>1, BranchTyped
  <2>3. CASE c = b
    BY <1>1, <2>1, <2>2, <2>3 DEF EndIn
  <2>4. CASE c # b
    <3>1. b < c /\ c < e
      BY <1>1, <1>3, <2>1, <2>2, <2>4
    <3>2. end[c] >= 0 /\ end[c] < e
      BY <1>1, <2>1, <3>1 DEF TreeInv, BranchesNested
    <3> QED BY <1>1, <2>1, <2>2, <3>2 DEF EndIn
  <2> QED BY <2>3, <2>4
<1>4. ASSUME NEW i \in 0..e, b < i
      PROVE  i \notin Found
  <2>1. BeginIn(i, e) \in SUBSET EndIn(i, e)
    BY <1>1, <1>3, <1>4
  <2>2. b \in EndIn(i, e) /\ b \notin BeginIn(i, e)
    BY <1>1, <1>4 DEF EndIn, BeginIn
  <2>3. IsFiniteSet(EndIn(i, e))
    BY <1>1, ClosesCount
  <2>4. Cardinality(EndIn(i, e)) # Cardinality(BeginIn(i, e))
    BY <2>1, <2>2, <2>3, Fewer
  <2> QED BY <1>1, <2>4, OpensCount, ClosesCount
<1>5. b \in Found
  <2>1. EndIn(b, e) = BeginIn(b, e)
    <3>1. ASSUME NEW c \in EndIn(b, e)
          PROVE  c \in BeginIn(b, e)
      <4>1. c \in Branches /\ b <= end[c] /\ end[c] <= e
        BY DEF EndIn
      <4>2. c \in Nat /\ end[c] \in Int /\ c < end[c] /\ end[c] \notin Branches
        BY <1>1, <4>1, BranchTyped
      <4>3. ~(c < b)
        <5> SUFFICES ASSUME c < b PROVE FALSE
          OBVIOUS
        <5>1. end[c] # b
          BY <1>1, <4>2
        <5>2. b < end[c]
          BY <1>1, <4>1, <4>2, <5>1
        <5>3. e < end[c]
          BY <1>1, <4>1, <5>2 DEF TreeInv, BranchesNested
        <5> QED BY <1>1, <4>1, <4>2, <5>3
      <4> QED BY <1>1, <4>1, <4>2, <4>3 DEF BeginIn
    <3>2. b \in 0..e /\ b <= b
      BY <1>1
    <3>3. \A c \in BeginIn(b, e) : c \in EndIn(b, e)
      BY <1>3, <3>2
    <3> QED BY <3>1, <3>3
  <2> QED BY <1>1, <2>1, OpensCount, ClosesCount
<1>6. \A i \in Found : i <= b
  <2>1. \A i \in Found : i \in Int /\ ~(b < i)
    BY <1>1, <1>4
  <2> QED BY <1>1, <2>1
<1>7. Found \in SUBSET Int
  BY <1>1
<1>8. MaxOf(Found) = b
  <2> HIDE DEF Found, e
  <2> QED BY <1>5, <1>6, <1>7, MaxIs
<1> QED BY <1>2, <1>8

\* From the START record to either, and from the END record if there is one.
LEMMA GetFromStart ==
  ASSUME TreeInv, NEW b \in Branches, NEW type \in {Start, End}
  PROVE  TreeGet(recs, b, type) = Edge(b, type)
<1>1. b \in Nat /\ b < Len(recs)
  BY BranchTyped
<1>2. CASE type = Start
  BY <1>1, <1>2, TypesTell DEF TreeGet, Edge
<1>3. CASE type = End
  BY <1>1, <1>3, GetEnd DEF Edge, Start, End
<1> QED BY <1>2, <1>3

LEMMA GetFromEnd ==
  ASSUME TreeInv, NEW b \in Complete, NEW type \in {Start, End}
  PROVE  TreeGet(recs, end[b], type) = Edge(b, type)
<1>1. b \in Branches /\ end[b] >= 0
  BY DEF Complete
<1>2. end[b] \in Nat /\ end[b] < Len(recs) /\ end[b] \notin Branches /\ b \in Nat
  BY <1>1, BranchTyped
<1>3. CASE type = Start
  BY <1>3, GetStart DEF Edge
<1>4. CASE type = End
  BY <1>2, <1>4, TypesTell DEF TreeGet, Edge, Start, End
<1> QED BY <1>3, <1>4

-----------------------------------------------------------------------------
(* What encloses what.                                                     *)

LEMMA ParentIs ==
  ASSUME TreeInv, NEW k \in Branches, NEW p \in Int, Encloses(p, k)
  PROVE  parent[k] = p
<1> DEFINE q == parent[k]
<1>1. q \in Int /\ Encloses(q, k) /\ k \in Nat
  BY BranchTyped DEF TreeInv, ParentsEnclose
<1>2. p = -1 \/ (p \in Branches /\ p \in Nat /\ p < k /\ ~EndedBefore(p, k))
  BY BranchTyped DEF Encloses
<1>3. q = -1 \/ (q \in Branches /\ q \in Nat /\ q < k /\ ~EndedBefore(q, k))
  BY <1>1, BranchTyped DEF Encloses
<1>4. ~(p < q)
  BY <1>1, <1>2, <1>3 DEF Encloses
<1>5. ~(q < p)
  BY <1>1, <1>2, <1>3 DEF Encloses
<1> QED BY <1>1, <1>4, <1>5

\* What parent says, with -1 apart.
LEMMA ParentFacts ==
  ASSUME TreeInv, NEW k \in Branches
  PROVE  /\ parent[k] \in Int /\ parent[k] < k /\ parent[k] >= -1
         /\ parent[k] # -1 => parent[k] \in Branches /\ ~EndedBefore(parent[k], k)
         /\ \A q \in Branches : parent[k] < q /\ q < k => EndedBefore(q, k)
<1>1. Encloses(parent[k], k) /\ k \in Nat /\ parent[k] \in Int
  BY BranchTyped DEF TreeInv, ParentsEnclose
<1>2. parent[k] \in Branches => parent[k] \in Nat
  BY BranchTyped
<1> QED BY <1>1, <1>2 DEF Encloses

\* A branch that is open where another begins has it inside.
LEMMA InnerParent ==
  ASSUME TreeInv, NEW c \in Branches, NEW k \in Branches, c < k, ~EndedBefore(c, k)
  PROVE  parent[k] >= c
<1>1. c \in Nat /\ k \in Nat
  BY BranchTyped
<1> QED BY <1>1, ParentFacts

LEMMA CompleteTyped ==
  ASSUME TreeInv, NEW b \in Complete
  PROVE  /\ b \in Branches /\ b \in Nat /\ Len(recs) \in Nat /\ end[b] \in Nat
         /\ b < end[b] /\ end[b] < Len(recs) /\ end[b] \notin Branches
         /\ \A k \in Branches : b < k /\ k < end[b] =>
              k \in Complete /\ end[k] < end[b]
<1>1. b \in Branches /\ end[b] >= 0
  BY DEF Complete
<1>2. \A k \in Branches : b < k /\ k < end[b] => k \in Complete /\ end[k] < end[b]
  BY <1>1 DEF TreeInv, BranchesNested, Complete
<1> QED BY <1>1, <1>2, BranchTyped

LEMMA EndOf ==
  ASSUME TreeInv, NEW i \in Nat, i < Len(recs), i \notin Branches
  PROVE  \E c \in Complete : end[c] = i
<1>1. i \in Indices(recs)
  BY TypesTell
<1> QED BY <1>1 DEF TreeInv, EndsPaired, Complete

LEMMA KidsWithin ==
  ASSUME TreeInv, NEW b \in Complete, NEW k \in Kids(b)
  PROVE  k \in Branches /\ k \in Nat /\ b < k /\ k < end[b]
<1>1. k \in Branches /\ parent[k] = b
  BY DEF Kids
<1>2. k \in Nat
  BY <1>1, BranchTyped
<1>3. ~EndedBefore(b, k) /\ b < k
  BY <1>1, CompleteTyped, ParentFacts
<1>4. k # end[b]
  BY <1>1, CompleteTyped
<1> QED BY <1>1, <1>2, <1>3, <1>4, CompleteTyped DEF EndedBefore

-----------------------------------------------------------------------------
(* The records beside those of a branch.                                   *)

LEMMA AtStart ==
  ASSUME TreeInv, NEW i \in Int, NEW type \in {Start, End}
  PROVE  BranchAt(recs, i, Start, type) = IF i \in Branches THEN Edge(i, type) ELSE -1
<1>1. CASE i \in Branches
  <2>1. i \in Nat /\ i < Len(recs)
    BY <1>1, BranchTyped
  <2> QED BY <1>1, <2>1, TypesTell, GetFromStart DEF BranchAt
<1>2. CASE i \notin Branches
  <2>1. i \in Indices(recs) => i \in Nat /\ i < Len(recs)
    BY DEF Indices, TreeInv, RecordsTyped
  <2> QED BY <1>2, <2>1, TypesTell DEF BranchAt
<1> QED BY <1>1, <1>2

LEMMA AtEnd ==
  ASSUME TreeInv, NEW c \in Complete, NEW type \in {Start, End}
  PROVE  BranchAt(recs, end[c], End, type) = Edge(c, type)
<1>1. end[c] \in Nat /\ end[c] < Len(recs) /\ end[c] \notin Branches
  BY CompleteTyped
<1> QED BY <1>1, TypesTell, GetFromEnd DEF BranchAt

LEMMA NotAtEnd ==
  ASSUME TreeInv, NEW i \in Int, i < 0 \/ i \in Branches, NEW type \in {Start, End}
  PROVE  BranchAt(recs, i, End, type) = -1
<1>1. CASE i < 0
  <2>1. i \notin Indices(recs)
    BY <1>1 DEF Indices
  <2> QED BY <2>1 DEF BranchAt
<1>2. CASE i \in Branches
  <2>1. i \in Nat /\ i < Len(recs)
    BY <1>2, BranchTyped
  <2>2. Slot0(recs, i).type # End
    BY <1>2, <2>1, TypesTell
  <2> QED BY <2>2 DEF BranchAt
<1> QED BY <1>1, <1>2

LEMMA NoEdge ==
  ASSUME NEW S, S = {}, NEW type
  PROVE  Edge(MinOf(S), type) = -1 /\ Edge(MaxOf(S), type) = -1
BY DEF Edge, MinOf, MaxOf

LEMMA FirstChildIs ==
  ASSUME TreeInv, NEW b \in Complete, NEW type \in {Start, End}
  PROVE  BranchAt(recs, b + 1, Start, type) = Edge(MinOf(Kids(b)), type)
<1>1. b \in Branches /\ b \in Nat /\ end[b] \in Nat /\ b < end[b] /\ end[b] < Len(recs)
  BY CompleteTyped
<1> DEFINE k == b + 1
<1>2. k \in Nat /\ b < k /\ k < Len(recs) /\ k <= end[b] /\ \A i \in Int : b < i => k <= i
  BY <1>1, CompleteTyped
<1>3. BranchAt(recs, k, Start, type) = IF k \in Branches THEN Edge(k, type) ELSE -1
  <2>1. k \in Int
    BY <1>2
  <2> HIDE DEF k
  <2> QED BY <2>1, AtStart
<1> HIDE DEF k
<1>4. CASE k \in Branches
  <2>1. Encloses(b, k)
    <3>1. ~EndedBefore(b, k)
      BY <1>1, <1>2 DEF EndedBefore
    <3>2. \A q \in Branches : ~(b < q /\ q < k)
      <4>1. \A q \in Branches : q \in Int
        BY BranchTyped
      <4> QED BY <1>1, <1>2, <4>1
    <3> QED BY <1>1, <1>2, <3>1, <3>2 DEF Encloses
  <2>2. parent[k] = b
    BY <1>1, <1>4, <2>1, ParentIs
  <2>3. k \in Kids(b)
    BY <1>4, <2>2 DEF Kids
  <2>4. \A x \in Kids(b) : x \in Int /\ b < x
    BY KidsWithin
  <2>5. Kids(b) \in SUBSET Int /\ \A x \in Kids(b) : k <= x
    BY <1>2, <2>4
  <2>6. MinOf(Kids(b)) = k
    BY <2>3, <2>5, MinIs
  <2> QED BY <1>3, <1>4, <2>6 DEF k
<1>5. CASE k \notin Branches
  <2>1. PICK c \in Complete : end[c] = k
    BY <1>2, <1>5, EndOf
  <2>2. c \in Branches /\ c \in Nat /\ c < k
    BY <2>1, CompleteTyped
  <2>3. c = b
    <3>1. c <= b
      BY <1>1, <1>2, <2>2
    <3>2. c < b => end[b] < k
      BY <1>1, <1>2, <2>1, CompleteTyped
    <3> QED BY <1>1, <1>2, <2>2, <3>1, <3>2
  <2>4. Kids(b) = {}
    BY <1>1, <1>2, <2>1, <2>3, KidsWithin
  <2> QED BY <1>3, <1>5, <2>4, NoEdge DEF k
<1> QED BY <1>4, <1>5

LEMMA LastChildIs ==
  ASSUME TreeInv, NEW b \in Complete, NEW type \in {Start, End}
  PROVE  BranchAt(recs, end[b] + (-1), End, type) = Edge(MaxOf(Kids(b)), type)
<1> DEFINE e == end[b]
           i == e + (-1)
<1>1. b \in Branches /\ b \in Nat /\ e \in Nat /\ b < e /\ e < Len(recs) /\ Len(recs) \in Nat
  BY CompleteTyped
<1>2. i \in Nat /\ i < Len(recs) /\ b <= i /\ i < e /\ \A x \in Int : x < e => x <= i
  BY <1>1
<1> HIDE DEF i
<1>3. CASE i \in Branches
  <2>1. i = b
    <3>1. b < i => end[i] \in Nat /\ i < end[i] /\ end[i] < e
      BY <1>2, <1>3, CompleteTyped
    <3> QED BY <1>1, <1>2, <3>1
  <2>2. Kids(b) = {}
    BY <1>1, <1>2, <2>1, KidsWithin
  <2>3. BranchAt(recs, i, End, type) = -1
    BY <1>2, <1>3, NotAtEnd
  <2> QED BY <2>2, <2>3, NoEdge DEF i
<1>4. CASE i \notin Branches
  <2>1. PICK c \in Complete : end[c] = i
    BY <1>2, <1>4, EndOf
  <2>2. c \in Branches /\ c \in Nat /\ c < i /\ i # b
    BY <1>1, <1>4, <2>1, CompleteTyped
  <2>3. b < c
    <3>1. c # b
      BY <1>1, <1>2, <2>1
    <3>2. c < b => e < i
      BY <1>1, <1>2, <2>1, <2>2, CompleteTyped
    <3> QED BY <1>1, <1>2, <2>2, <3>1, <3>2
  <2>4. Encloses(b, c)
    <3>1. ~EndedBefore(b, c)
      BY <1>1, <1>2, <2>2 DEF EndedBefore
    <3>2. ASSUME NEW q \in Branches, b < q, q < c
          PROVE  EndedBefore(q, c)
      <4>1. q \in Nat
        BY BranchTyped
      <4>2. q < e
        BY <1>1, <1>2, <2>2, <3>2, <4>1
      <4>3. q \in Complete /\ end[q] < e
        BY <3>2, <4>2, CompleteTyped
      <4>4. end[q] \in Nat /\ end[q] # c
        BY <2>2, <4>3, CompleteTyped
      <4>5. c < end[q] => i < end[q]
        BY <2>1, <2>2, <3>2, <4>3, CompleteTyped
      <4> QED BY <1>1, <1>2, <2>2, <4>3, <4>4, <4>5 DEF EndedBefore
    <3> QED BY <1>1, <2>3, <3>1, <3>2 DEF Encloses
  <2>5. c \in Kids(b)
    BY <1>1, <2>2, <2>4, ParentIs DEF Kids
  <2>6. ASSUME NEW k \in Kids(b)
        PROVE  k \in Int /\ k <= c
    <3>1. k \in Branches /\ k \in Nat /\ b < k /\ k < e /\ parent[k] = b
      BY KidsWithin DEF Kids
    <3>2. k # i
      BY <1>4, <3>1
    <3>3. k < i
      BY <1>2, <3>1, <3>2
    <3>4. c < k => parent[k] >= c
      BY <1>2, <2>1, <2>2, <3>1, <3>3, InnerParent DEF EndedBefore
    <3> QED BY <1>1, <2>2, <2>3, <3>1, <3>4
  <2>7. MaxOf(Kids(b)) = c
    <3>1. Kids(b) \in SUBSET Int
      BY <2>6
    <3> QED BY <2>5, <2>6, <3>1, MaxIs
  <2>8. BranchAt(recs, i, End, type) = Edge(c, type)
    BY <2>1, AtEnd
  <2> QED BY <2>7, <2>8 DEF i
<1> QED BY <1>3, <1>4

Later(b) == {k \in Siblings(b) : k > b}

\* A branch later than a complete one begins behind its END.
LEMMA LaterBehind ==
  ASSUME TreeInv, NEW b \in Complete, NEW k \in Later(b)
  PROVE  k \in Branches /\ k \in Nat /\ parent[k] = parent[b] /\ b < k /\ end[b] < k
<1>1. b \in Branches /\ b \in Nat /\ end[b] \in Nat /\ end[b] \notin Branches
  BY CompleteTyped
<1>2. k \in Branches /\ parent[k] = parent[b] /\ b < k
  BY <1>1 DEF Later, Siblings
<1>3. k \in Nat
  BY <1>2, BranchTyped
<1>4. k # end[b]
  BY <1>1, <1>2
<1>5. ~(k < end[b])
  <2>1. k < end[b] => ~EndedBefore(b, k)
    BY <1>1, <1>3 DEF EndedBefore
  <2>2. k < end[b] => parent[k] >= b
    BY <1>1, <1>2, <2>1, InnerParent
  <2>3. parent[b] \in Int /\ parent[b] < b
    BY <1>1, ParentFacts
  <2> QED BY <1>1, <1>2, <2>2, <2>3
<1> QED BY <1>1, <1>2, <1>3, <1>4, <1>5

\* The next branch begins right behind the END, or there is none.
LEMMA NextIs ==
  ASSUME TreeInv, NEW b \in Complete
  PROVE  IF end[b] + 1 \in Branches
         THEN end[b] + 1 \in Later(b) /\ \A k \in Later(b) : end[b] + 1 <= k
         ELSE Later(b) = {}
<1> DEFINE e == end[b]
           j == e + 1
           p == parent[b]
<1>1. b \in Branches /\ b \in Nat /\ e \in Nat /\ b < e /\ e < Len(recs) /\ Len(recs) \in Nat
  BY CompleteTyped
<1>2. j \in Nat /\ e < j /\ j <= Len(recs) /\ \A x \in Int : e < x => j <= x
  BY <1>1
<1>3. /\ p \in Int /\ p < b /\ p >= -1
      /\ p # -1 => p \in Branches /\ ~EndedBefore(p, b)
      /\ \A q \in Branches : p < q /\ q < b => EndedBefore(q, b)
  BY <1>1, ParentFacts
<1>4. \A k \in Later(b) : k \in Branches /\ k \in Nat /\ parent[k] = p /\ j <= k
  BY <1>2, LaterBehind
<1> HIDE DEF j, p
<1>5. CASE j \in Branches
  <2>1. p # -1 => ~EndedBefore(p, j)
    <3> SUFFICES ASSUME p # -1, EndedBefore(p, j) PROVE FALSE
      OBVIOUS
    <3>1. p \in Complete /\ p < b
      BY <1>3 DEF Complete, EndedBefore
    <3>2. end[p] \in Nat /\ end[p] \notin Branches /\ end[p] < j /\ end[p] >= b
      BY <1>1, <1>3, <3>1, CompleteTyped DEF EndedBefore
    <3>3. b < end[p]
      <4>1. end[p] # b
        BY <1>1, <3>2
      <4> QED BY <1>1, <3>2, <4>1
    <3>4. e < end[p]
      BY <1>1, <3>1, <3>3, CompleteTyped
    <3> QED BY <1>1, <1>2, <3>2, <3>4
  <2>2. ASSUME NEW q \in Branches, p < q, q < j
        PROVE  EndedBefore(q, j)
    <3>1. q \in Nat /\ q # e
      BY CompleteTyped, BranchTyped
    <3>2. CASE q < b
      <4>1. EndedBefore(q, b)
        BY <1>3, <2>2, <3>2
      <4>2. end[q] \in Int
        BY BranchTyped
      <4> QED BY <1>1, <1>2, <4>1, <4>2 DEF EndedBefore
    <3>3. CASE q = b
      BY <1>1, <1>2, <3>3 DEF EndedBefore
    <3>4. CASE q > b
      <4>1. q < e
        BY <1>1, <1>2, <2>2, <3>1
      <4>2. q \in Complete /\ end[q] < e
        BY <3>4, <4>1, CompleteTyped
      <4>3. end[q] \in Nat
        BY <4>2, CompleteTyped
      <4> QED BY <1>1, <1>2, <4>2, <4>3 DEF EndedBefore
    <3> QED BY <1>1, <3>1, <3>2, <3>3, <3>4
  <2>3. Encloses(p, j)
    <3>1. p < j
      BY <1>1, <1>2, <1>3
    <3> QED BY <1>3, <2>1, <2>2, <3>1 DEF Encloses
  <2>4. parent[j] = p
    BY <1>3, <1>5, <2>3, ParentIs
  <2>5. j > b
    BY <1>1, <1>2
  <2>6. j \in Later(b)
    BY <1>5, <2>4, <2>5 DEF Later, Siblings, p
  <2> QED BY <1>4, <1>5, <2>6 DEF j
<1>6. CASE j \notin Branches
  <2> SUFFICES ASSUME NEW k \in Later(b) PROVE FALSE
    BY <1>6 DEF j
  <2>1. k \in Branches /\ k \in Nat /\ parent[k] = p /\ j < k /\ b < k
    <3>1. k # j
      BY <1>4, <1>6
    <3> QED BY <1>1, <1>2, <1>4, <3>1
  <2>2. k < Len(recs)
    BY <2>1, BranchTyped
  <2>3. PICK c \in Complete : end[c] = j
    BY <1>1, <1>2, <1>6, <2>1, <2>2, EndOf
  <2>4. c \in Branches /\ c \in Nat /\ c < j
    BY <2>3, CompleteTyped
  <2>5. c < b
    <3>1. c # b
      BY <1>1, <1>2, <2>3
    <3>2. c # e
      BY <2>4, CompleteTyped
    <3>3. b < c /\ c < e => j < e
      BY <2>3, <2>4, CompleteTyped
    <3> QED BY <1>1, <1>2, <2>4, <3>1, <3>2, <3>3
  <2>6. p >= c
    <3>1. ~EndedBefore(c, b)
      BY <1>1, <1>2, <2>3 DEF EndedBefore
    <3> QED BY <1>1, <2>4, <2>5, <3>1, InnerParent DEF p
  <2>7. p \in Branches /\ p \in Nat /\ ~EndedBefore(p, k)
    <3>1. p # -1
      BY <1>3, <2>4, <2>6
    <3> QED BY <1>3, <2>1, <2>4, <2>6, <3>1, ParentFacts
  <2>8. CASE p = c
    BY <1>2, <2>1, <2>3, <2>7, <2>8 DEF EndedBefore
  <2>9. CASE p # c
    <3>1. c < p /\ p < j
      BY <1>1, <1>2, <1>3, <2>4, <2>6, <2>9
    <3>2. p \in Complete /\ end[p] < j
      BY <2>3, <2>7, <3>1, CompleteTyped
    <3>3. end[p] \in Nat
      BY <3>2, CompleteTyped
    <3> QED BY <1>2, <2>1, <2>7, <3>2, <3>3 DEF EndedBefore
  <2> QED BY <2>8, <2>9
<1> QED BY <1>5, <1>6 DEF j

LEMMA NextSiblingIs ==
  ASSUME TreeInv, NEW b \in Complete, NEW type \in {Start, End}
  PROVE  BranchAt(recs, end[b] + 1, Start, type) = Edge(MinOf(Later(b)), type)
<1> DEFINE j == end[b] + 1
<1>1. j \in Int
  BY CompleteTyped
<1>2. IF j \in Branches THEN j \in Later(b) /\ \A k \in Later(b) : j <= k
      ELSE Later(b) = {}
  BY NextIs
<1>3. Later(b) \in SUBSET Int
  BY LaterBehind
<1> HIDE DEF j
<1>4. BranchAt(recs, j, Start, type) = IF j \in Branches THEN Edge(j, type) ELSE -1
  BY <1>1, AtStart
<1>5. CASE j \in Branches
  BY <1>2, <1>3, <1>4, <1>5, MinIs DEF j
<1>6. CASE j \notin Branches
  BY <1>2, <1>4, <1>6, NoEdge DEF j
<1> QED BY <1>5, <1>6

LEMMA PrevSiblingIs ==
  ASSUME TreeInv, NEW b \in Complete, NEW type \in {Start, End}
  PROVE  BranchAt(recs, b + (-1), End, type)
           = Edge(MaxOf({k \in Siblings(b) : k < b}), type)
<1> DEFINE i == b + (-1)
           p == parent[b]
           Earlier == {k \in Siblings(b) : k < b}
<1>1. b \in Branches /\ b \in Nat /\ Len(recs) \in Nat /\ b < Len(recs)
  <2>1. b \in Branches
    BY CompleteTyped
  <2> QED BY <2>1, BranchTyped
<1>2. i \in Int /\ i < b /\ i < Len(recs) /\ (\A x \in Int : x < b => x <= i)
      /\ (i \in Nat \/ i < 0)
  BY <1>1
<1>3. /\ p \in Int /\ p < b /\ p >= -1
      /\ p # -1 => p \in Branches /\ ~EndedBefore(p, b)
      /\ \A q \in Branches : p < q /\ q < b => EndedBefore(q, b)
  BY <1>1, ParentFacts
<1>4. \A k \in Earlier : k \in Branches /\ k \in Nat /\ parent[k] = p /\ k <= i /\ p < k
  <2> SUFFICES ASSUME NEW k \in Earlier
               PROVE  k \in Branches /\ k \in Nat /\ parent[k] = p /\ k <= i /\ p < k
    OBVIOUS
  <2>1. k \in Branches /\ parent[k] = p /\ k < b
    BY DEF Siblings
  <2>2. k \in Nat /\ p < k
    BY <2>1, BranchTyped, ParentFacts
  <2> QED BY <1>2, <2>1, <2>2
<1>5. Earlier \in SUBSET Int
  BY <1>4
<1> HIDE DEF i, p, Earlier
<1>6. CASE i < 0
  <2>1. Earlier = {}
    BY <1>2, <1>4, <1>6
  <2>2. BranchAt(recs, i, End, type) = -1
    BY <1>2, <1>6, NotAtEnd
  <2> QED BY <2>1, <2>2, NoEdge DEF i, Earlier
<1>7. CASE i \in Branches
  <2>1. i \in Nat /\ end[i] \in Int /\ (end[i] = -1 \/ i < end[i])
    BY <1>7, BranchTyped
  <2>2. ~EndedBefore(i, b)
    BY <1>1, <1>2, <2>1 DEF EndedBefore
  <2>3. p >= i
    BY <1>1, <1>2, <1>7, <2>2, InnerParent DEF p
  <2>4. Earlier = {}
    BY <1>2, <1>3, <1>4, <2>3
  <2>5. BranchAt(recs, i, End, type) = -1
    BY <1>2, <1>7, NotAtEnd
  <2> QED BY <2>4, <2>5, NoEdge DEF i, Earlier
<1>8. CASE i \in Nat /\ i \notin Branches
  <2>1. PICK c \in Complete : end[c] = i
    BY <1>2, <1>8, EndOf
  <2>2. c \in Branches /\ c \in Nat /\ c < i
    BY <2>1, CompleteTyped
  <2>3. EndedBefore(c, b)
    BY <1>2, <1>8, <2>1 DEF EndedBefore
  <2>4. p < c
    <3>1. p # c
      BY <1>3, <2>2, <2>3
    <3>2. ~(c < p)
      <4> SUFFICES ASSUME c < p PROVE FALSE
        OBVIOUS
      <4>1. p \in Branches /\ ~EndedBefore(p, b) /\ p # i
        BY <1>3, <1>8, <2>2
      <4>2. p < i
        BY <1>2, <1>3, <4>1
      <4>3. p \in Complete /\ end[p] < i
        BY <2>1, <4>1, <4>2, CompleteTyped
      <4>4. end[p] \in Nat
        BY <4>3, CompleteTyped
      <4> QED BY <1>1, <1>2, <4>1, <4>3, <4>4 DEF EndedBefore
    <3> QED BY <1>3, <2>2, <3>1, <3>2
  <2>5. Encloses(p, c)
    <3>1. p # -1 => ~EndedBefore(p, c)
      <4>1. p # -1 => end[p] \in Int
        BY <1>3, BranchTyped
      <4> QED BY <1>1, <1>2, <1>3, <2>2, <4>1 DEF EndedBefore
    <3>2. ASSUME NEW q \in Branches, p < q, q < c
          PROVE  EndedBefore(q, c)
      <4>1. q \in Nat /\ end[q] \in Int
        BY BranchTyped
      <4>2. q < b
        BY <1>1, <1>2, <2>2, <3>2, <4>1
      <4>3. 0 <= end[q] /\ end[q] < b
        BY <1>3, <3>2, <4>2 DEF EndedBefore
      <4>4. q \in Complete
        BY <4>3 DEF Complete
      <4>5. end[q] # c
        BY <2>2, <4>4, CompleteTyped
      <4>6. c < end[q] => i < end[q]
        BY <2>1, <2>2, <3>2, <4>4, CompleteTyped
      <4>7. end[q] <= i
        BY <1>2, <4>1, <4>3
      <4>8. end[q] < c
        BY <1>2, <2>2, <4>1, <4>5, <4>6, <4>7
      <4> QED BY <4>3, <4>8 DEF EndedBefore
    <3> QED BY <1>3, <2>4, <3>1, <3>2 DEF Encloses
  <2>6. parent[c] = p
    BY <1>3, <2>2, <2>5, ParentIs
  <2>7. c \in Earlier
    <3>1. c < b
      BY <1>1, <1>2, <2>2
    <3> QED BY <2>2, <2>6, <3>1 DEF Earlier, Siblings, p
  <2>8. ASSUME NEW k \in Earlier
        PROVE  k <= c
    <3>1. k \in Branches /\ k \in Nat /\ parent[k] = p /\ k <= i /\ k # i
      BY <1>4, <1>8
    <3>2. c < k => ~EndedBefore(c, k)
      BY <1>2, <2>1, <3>1 DEF EndedBefore
    <3>3. c < k => p >= c
      BY <2>2, <3>1, <3>2, InnerParent
    <3> QED BY <1>3, <2>2, <2>4, <3>1, <3>3
  <2>9. MaxOf(Earlier) = c
    BY <1>5, <2>7, <2>8, MaxIs
  <2>10. BranchAt(recs, i, End, type) = Edge(c, type)
    BY <2>1, AtEnd
  <2> QED BY <2>9, <2>10 DEF i, Earlier
<1> QED BY <1>2, <1>6, <1>7, <1>8

-----------------------------------------------------------------------------
(* The parent, which is found from the last sibling.                       *)

LEMMA GreatestOf ==
  ASSUME NEW n \in Nat, NEW I \in SUBSET (0..n), I # {}
  PROVE  \E m \in I : \A i \in I : i <= m
<1> DEFINE J == {n - i : i \in I}
<1>1. J \in SUBSET Nat /\ J # {}
  <2>1. \A i \in I : n - i \in Nat
    OBVIOUS
  <2> QED BY <2>1
<1>2. PICK j \in J : \A k \in J : ~(<<k, j>> \in OpToRel(<, Nat))
  <2> HIDE DEF J
  <2> QED BY <1>1, NatLessThanWellFounded, WFMin
<1>3. \A k \in J : ~(k < j)
  BY <1>1, <1>2, Zenon DEF OpToRel
<1>4. PICK m \in I : j = n - m
  OBVIOUS
<1>5. ASSUME NEW i \in I
      PROVE  i <= m
  <2>1. n - i \in J
    OBVIOUS
  <2>2. ~(n - i < n - m)
    BY <1>3, <1>4, <2>1
  <2>3. i \in Nat /\ m \in Nat
    OBVIOUS
  <2> HIDE DEF J
  <2> QED BY <2>2, <2>3
<1> QED BY <1>5

\* The branch that has a record at i, and the one it ends with.
Owner(i) == CHOOSE b \in Complete : i \in {b, end[b]}
LastOf(b) == CHOOSE k \in Siblings(b) : Later(k) = {}

LEMMA OwnerIs ==
  ASSUME TreeInv, NEW b \in Complete, NEW i \in {b, end[b]}
  PROVE  Owner(i) = b
<1>1. Owner(i) \in Complete /\ i \in {Owner(i), end[Owner(i)]}
  BY DEF Owner
<1> DEFINE c == Owner(i)
<1>2. \A x \in Complete : x \in Branches /\ end[x] \notin Branches /\ end[x] >= 0
  BY CompleteTyped DEF Complete
<1> HIDE DEF c
<1>3. c \in Complete /\ i \in {c, end[c]}
  BY <1>1 DEF c
<1>4. i = b => i = c
  BY <1>2, <1>3
<1>5. i = end[b] => end[b] = end[c]
  BY <1>2, <1>3
<1>6. end[b] = end[c] => b = c
  BY <1>2, <1>3 DEF TreeInv, EndsPaired
<1> QED BY <1>4, <1>5, <1>6 DEF c

\* Where rpa_recordtree_next goes from either record, to the END.
LEMMA NextEnd ==
  ASSUME TreeInv, NEW b \in Complete, NEW i \in {b, end[b]}
  PROVE  /\ TreeGet(recs, i, End) = end[b]
         /\ TreeNext(recs, i, End) = Edge(MinOf(Later(b)), End)
<1>1. b \in Branches /\ b \in Nat /\ end[b] \in Nat
  BY CompleteTyped
<1>2. End \in {Start, End}
  OBVIOUS
<1>3. TreeGet(recs, i, End) = end[b]
  <2>1. Edge(b, End) = end[b]
    BY <1>1 DEF Edge, Start, End
  <2> QED BY <1>1, <1>2, <2>1, GetFromStart, GetFromEnd
<1>4. Beyond(recs, end[b], 1) = end[b] + 1
  BY <1>1, CompleteTyped DEF Beyond
<1> QED BY <1>2, <1>3, <1>4, NextSiblingIs DEF TreeNext

\* When all branches have been ended, they go on to the last of the siblings.
LEMMA SiblingsSame ==
  ASSUME NEW b \in Branches, NEW k \in Siblings(b)
  PROVE  Siblings(k) = Siblings(b)
BY DEF Siblings

LEMMA NextOf ==
  ASSUME TreeInv, Branches = Complete, NEW b \in Complete, NEW i \in {b, end[b]}
  PROVE  \/ TreeNext(recs, i, End) < 0 /\ Later(b) = {}
         \/ \E k \in Later(b) : k \in Complete /\ TreeNext(recs, i, End) = end[k]
<1>1. CASE end[b] + 1 \in Branches
  <2> DEFINE k == end[b] + 1
  <2>1. k \in Later(b) /\ \A x \in Later(b) : k <= x
    BY <1>1, NextIs
  <2>2. Later(b) \in SUBSET Int
    BY LaterBehind
  <2>3. k \in Complete /\ k >= 0
    BY <1>1, CompleteTyped
  <2> HIDE DEF k
  <2>4. MinOf(Later(b)) = k
    BY <2>1, <2>2, MinIs
  <2>5. TreeNext(recs, i, End) = end[k]
    <3>1. Edge(k, End) = end[k]
      BY <2>3, CompleteTyped DEF Edge, Start, End
    <3> QED BY <2>4, <3>1, NextEnd
  <2> QED BY <2>1, <2>3, <2>5
<1>2. CASE end[b] + 1 \notin Branches
  <2>1. Later(b) = {}
    BY <1>2, NextIs
  <2>2. TreeNext(recs, i, End) = -1
    BY <2>1, NextEnd, NoEdge
  <2> QED BY <2>1, <2>2
<1> QED BY <1>1, <1>2

LEMMA LastOfIs ==
  ASSUME TreeInv, Branches = Complete, NEW b \in Complete
  PROVE  /\ Later(b) = {} => LastOf(b) = b
         /\ \A k \in Later(b) : LastOf(k) = LastOf(b)
<1>1. b \in Branches /\ b \in Siblings(b)
  BY CompleteTyped DEF Siblings
<1>2. ASSUME Later(b) = {}
      PROVE  LastOf(b) = b
  <2>1. LastOf(b) \in Siblings(b) /\ Later(LastOf(b)) = {}
    BY <1>1, <1>2 DEF LastOf
  <2> DEFINE k == LastOf(b)
  <2> HIDE DEF k
  <2>2. k \in Siblings(b) /\ Later(k) = {}
    BY <2>1 DEF k
  <2>3. k \in Branches /\ k \in Int /\ b \in Int
    BY <1>1, <2>2, BranchTyped DEF Siblings
  <2>4. ~(k > b)
    BY <1>2, <2>2 DEF Later
  <2>5. ~(b > k)
    <3>1. b \in Siblings(k)
      BY <1>1, <2>2, SiblingsSame
    <3> QED BY <2>2, <3>1 DEF Later
  <2> QED BY <2>3, <2>4, <2>5 DEF k
<1>3. ASSUME NEW k \in Later(b)
      PROVE  LastOf(k) = LastOf(b)
  <2>1. k \in Siblings(b)
    BY DEF Later
  <2> QED BY <1>1, <2>1, SiblingsSame DEF LastOf
<1> QED BY <1>2, <1>3

\* The function of which LastSibling is a value.
GoesOn(f) ==
  f = [i \in Int |-> IF TreeNext(recs, i, End) < 0
                     THEN TreeGet(recs, i, End) ELSE f[TreeNext(recs, i, End)]]

LEMMA GoesOnExists ==
  ASSUME TreeInv, Branches = Complete
  PROVE  \E f : GoesOn(f)
<1> DEFINE g == [i \in Int |-> IF \E b \in Complete : i \in {b, end[b]}
                               THEN end[LastOf(Owner(i))] ELSE -1]
<1>1. ASSUME NEW i \in Int
      PROVE  g[i] = IF TreeNext(recs, i, End) < 0
                    THEN TreeGet(recs, i, End) ELSE g[TreeNext(recs, i, End)]
  <2>1. CASE \E b \in Complete : i \in {b, end[b]}
    <3>1. PICK b \in Complete : i \in {b, end[b]}
      BY <2>1
    <3>2. g[i] = end[LastOf(b)]
      BY <3>1, OwnerIs
    <3>3. CASE TreeNext(recs, i, End) < 0 /\ Later(b) = {}
      BY <3>1, <3>2, <3>3, LastOfIs, NextEnd
    <3>4. CASE \E k \in Later(b) : k \in Complete /\ TreeNext(recs, i, End) = end[k]
      <4>1. PICK k \in Later(b) : k \in Complete /\ TreeNext(recs, i, End) = end[k]
        BY <3>4
      <4>2. end[k] \in Int /\ ~(end[k] < 0)
        BY <4>1, CompleteTyped
      <4>3. g[end[k]] = end[LastOf(k)]
        BY <4>1, <4>2, OwnerIs
      <4> QED BY <3>2, <4>1, <4>2, <4>3, LastOfIs
    <3> QED BY <3>1, <3>3, <3>4, NextOf
  <2>2. CASE ~\E b \in Complete : i \in {b, end[b]}
    <3>1. i \notin Indices(recs)
      <4> SUFFICES ASSUME i \in Indices(recs) PROVE FALSE
        OBVIOUS
      <4>1. i \in Nat /\ i < Len(recs)
        BY DEF Indices, TreeInv, RecordsTyped
      <4>2. i \notin Branches
        BY <2>2
      <4> QED BY <2>2, <4>1, <4>2, EndOf
    <3>2. TreeGet(recs, i, End) = -1
      BY <3>1 DEF TreeGet
    <3>3. TreeNext(recs, i, End) = -1
      <4>1. -1 \notin Indices(recs)
        BY DEF Indices
      <4> QED BY <3>2, <4>1 DEF TreeNext, Beyond, BranchAt
    <3> QED BY <2>2, <3>2, <3>3
  <2> QED BY <2>1, <2>2
<1>2. GoesOn(g)
  <2> DEFINE h == [i \in Int |-> IF TreeNext(recs, i, End) < 0
                                 THEN TreeGet(recs, i, End) ELSE g[TreeNext(recs, i, End)]]
  <2>1. g = h
    <3>1. \A i \in Int : g[i] = h[i]
      BY <1>1
    <3> QED BY <3>1
  <2> QED BY <2>1 DEF GoesOn
<1> QED BY <1>2

\* It comes to the END of a sibling without a later one.
LEMMA LastSiblingIs ==
  ASSUME TreeInv, Branches = Complete, NEW b \in Complete, NEW rec \in {b, end[b]}
  PROVE  \E k \in Siblings(b) : Later(k) = {} /\ LastSibling(recs, rec) = end[k]
<1> DEFINE f == CHOOSE f : GoesOn(f)
           Ends(c) == \A i \in {c, end[c]} :
                        \E k \in Siblings(c) : Later(k) = {} /\ f[i] = end[k]
           Bad == {c \in Complete : ~Ends(c)}
           n == Len(recs)
<1>1. GoesOn(f)
  BY GoesOnExists
<1>2. LastSibling(recs, rec) = f[rec]
  BY DEF LastSibling, GoesOn
<1> HIDE DEF f
<1>3. \A i \in Int : f[i] = IF TreeNext(recs, i, End) < 0
                            THEN TreeGet(recs, i, End) ELSE f[TreeNext(recs, i, End)]
  BY <1>1 DEF GoesOn
<1>4. Bad = {}
  <2> SUFFICES ASSUME Bad # {} PROVE FALSE
    OBVIOUS
  <2>1. PICK c \in Bad : \A x \in Bad : x <= c
    <3>1. Bad \in SUBSET (0..n) /\ n \in Nat
      <4>1. \A x \in Complete : x \in 0..n /\ n \in Nat
        BY CompleteTyped
      <4>2. n \in Nat
        BY DEF TreeInv, RecordsTyped
      <4> QED BY <4>1, <4>2
    <3> HIDE DEF Bad, n
    <3> QED BY <3>1, GreatestOf
  <2>2. c \in Complete /\ c \in Branches /\ c \in Siblings(c) /\ c \in Int /\ end[c] \in Int
    BY CompleteTyped DEF Siblings
  <2>3. ASSUME NEW i \in {c, end[c]}
        PROVE  \E k \in Siblings(c) : Later(k) = {} /\ f[i] = end[k]
    <3>1. i \in Int
      BY <2>2
    <3>2. CASE TreeNext(recs, i, End) < 0 /\ Later(c) = {}
      BY <1>3, <2>2, <3>1, <3>2, NextEnd
    <3>3. CASE \E k \in Later(c) : k \in Complete /\ TreeNext(recs, i, End) = end[k]
      <4>1. PICK k \in Later(c) : k \in Complete /\ TreeNext(recs, i, End) = end[k]
        BY <3>3
      <4>2. ~(end[k] < 0) /\ k > c /\ k \in Siblings(c) /\ k \in Int
        BY <4>1, CompleteTyped DEF Later
      <4>3. f[i] = f[end[k]]
        BY <1>3, <3>1, <4>1, <4>2
      <4>4. k \notin Bad
        BY <2>1, <2>2, <4>2
      <4>5. Ends(k)
        BY <4>1, <4>4
      <4>6. Siblings(k) = Siblings(c)
        BY <2>2, <4>2, SiblingsSame
      <4> QED BY <4>3, <4>5, <4>6
    <3> QED BY <2>2, <3>2, <3>3, NextOf
  <2> QED BY <2>3
<1> QED BY <1>2, <1>4

\* Behind the last sibling the parent ends.
LEMMA BehindLast ==
  ASSUME TreeInv, Branches = Complete, NEW k \in Complete, Later(k) = {}
  PROVE  IF parent[k] = -1 THEN end[k] + 1 = Len(recs) ELSE end[parent[k]] = end[k] + 1
<1> DEFINE e == end[k]
           j == e + 1
           p == parent[k]
<1>1. k \in Branches /\ k \in Nat /\ e \in Nat /\ k < e /\ e < Len(recs) /\ Len(recs) \in Nat
  BY CompleteTyped
<1>2. j \in Nat /\ e < j /\ j <= Len(recs) /\ \A x \in Int : e < x => j <= x
  BY <1>1
<1>3. /\ p \in Int /\ p < k /\ p >= -1
      /\ p # -1 => p \in Complete /\ ~EndedBefore(p, k)
      /\ \A q \in Branches : p < q /\ q < k => EndedBefore(q, k)
  BY <1>1, ParentFacts
<1>4. j \notin Branches
  BY NextIs
<1>5. p # -1 => end[p] \in Nat /\ end[p] < Len(recs) /\ e < end[p]
  <2> SUFFICES ASSUME p # -1 PROVE end[p] \in Nat /\ end[p] < Len(recs) /\ e < end[p]
    OBVIOUS
  <2>1. p \in Complete /\ end[p] \in Nat /\ end[p] < Len(recs) /\ end[p] \notin Branches
    BY <1>3, CompleteTyped
  <2>2. k < end[p]
    <3>1. end[p] # k
      BY <1>1, <2>1
    <3>2. end[p] >= k
      BY <1>1, <1>3, <2>1 DEF EndedBefore
    <3> QED BY <1>1, <2>1, <3>1, <3>2
  <2>3. e < end[p]
    BY <1>1, <1>3, <2>1, <2>2, CompleteTyped
  <2> QED BY <2>1, <2>3
<1> HIDE DEF j, p
<1>6. CASE j = Len(recs)
  <2>1. p = -1
    BY <1>1, <1>2, <1>5, <1>6
  <2> QED BY <1>6, <2>1 DEF j, p
<1>7. CASE j < Len(recs)
  <2>1. PICK c \in Complete : end[c] = j
    BY <1>2, <1>4, <1>7, EndOf
  <2>2. c \in Branches /\ c \in Nat /\ c < j
    BY <2>1, CompleteTyped
  <2>3. c < k
    <3>1. c # k
      BY <1>1, <1>2, <2>1
    <3>2. c # e
      BY <2>2, CompleteTyped
    <3>3. k < c /\ c < e => j < e
      BY <2>1, <2>2, CompleteTyped
    <3> QED BY <1>1, <1>2, <2>2, <3>1, <3>2, <3>3
  <2>4. p >= c
    <3>1. ~EndedBefore(c, k)
      BY <1>1, <1>2, <2>1 DEF EndedBefore
    <3> QED BY <1>1, <2>2, <2>3, <3>1, InnerParent DEF p
  <2>5. p # -1 /\ p \in Complete /\ p \in Branches
    <3>1. p # -1
      BY <1>3, <2>2, <2>4
    <3> QED BY <1>3, <3>1
  <2>6. p = c
    <3>1. c < p => end[p] < j
      <4>1. c < p => p < j
        BY <1>1, <1>2, <1>3
      <4> QED BY <2>1, <2>5, <4>1, CompleteTyped
    <3> QED BY <1>2, <1>3, <1>5, <2>2, <2>4, <2>5, <3>1
  <2>7. end[p] = j
    BY <2>1, <2>6
  <2> QED BY <2>5, <2>7 DEF j, p
<1> QED BY <1>1, <1>2, <1>6, <1>7

LEMMA ParentFound ==
  ASSUME TreeInv, Branches = Complete, NEW b \in Complete, NEW rec \in {b, end[b]},
         NEW type \in {Start, End}
  PROVE  TreeParent(recs, rec, type) = Edge(parent[b], type)
<1>1. PICK k \in Siblings(b) : Later(k) = {} /\ LastSibling(recs, rec) = end[k]
  BY LastSiblingIs
<1>2. k \in Complete /\ parent[k] = parent[b]
  BY <1>1 DEF Siblings
<1>3. rec \in Indices(recs)
  <2>1. rec \in Nat /\ rec < Len(recs)
    BY CompleteTyped, BranchTyped
  <2> QED BY <2>1, TypesTell
<1>4. TreeParent(recs, rec, type) = TreeGet(recs, end[k] + 1, type)
  BY <1>1, <1>3 DEF TreeParent
<1>5. CASE parent[k] = -1
  <2>1. end[k] + 1 = Len(recs)
    BY <1>1, <1>2, <1>5, BehindLast
  <2>2. end[k] + 1 \notin Indices(recs)
    BY <1>2, <2>1, CompleteTyped DEF Indices
  <2>3. TreeGet(recs, end[k] + 1, type) = -1
    BY <2>2 DEF TreeGet
  <2> QED BY <1>2, <1>4, <1>5, <2>3 DEF Edge
<1>6. CASE parent[k] # -1
  <2>1. end[parent[k]] = end[k] + 1
    BY <1>1, <1>2, <1>6, BehindLast
  <2>2. parent[k] \in Complete
    BY <1>2, <1>6, ParentFacts
  <2>3. TreeGet(recs, end[parent[k]], type) = Edge(parent[k], type)
    BY <2>2, GetFromEnd
  <2> QED BY <1>2, <1>4, <2>1, <2>3
<1> QED BY <1>5, <1>6

-----------------------------------------------------------------------------
(* All of it.                                                              *)

LEMMA InvNavigates ==
  ASSUME TreeInv
  PROVE  Navigates
<1> SUFFICES ASSUME NEW b \in Complete, NEW type \in {Start, End}, NEW rec \in {b, end[b]}
             PROVE  /\ TreeGet(recs, rec, type) = Edge(b, type)
                    /\ TreeFirstChild(recs, rec, type) = Edge(MinOf(Kids(b)), type)
                    /\ TreeLastChild(recs, rec, type) = Edge(MaxOf(Kids(b)), type)
                    /\ TreeNext(recs, rec, type)
                         = Edge(MinOf({k \in Siblings(b) : k > b}), type)
                    /\ TreePrev(recs, rec, type)
                         = Edge(MaxOf({k \in Siblings(b) : k < b}), type)
                    /\ TreeSize(recs, rec) = end[b] - b + 1
                    /\ open = <<>> => TreeParent(recs, rec, type) = Edge(parent[b], type)
  BY DEF Navigates
<1>1. b \in Branches /\ b \in Nat /\ end[b] \in Nat
  BY CompleteTyped
<1>2. \A t \in {Start, End} : TreeGet(recs, rec, t) = Edge(b, t)
  BY <1>1, GetFromStart, GetFromEnd
<1>3. TreeGet(recs, rec, Start) = b /\ TreeGet(recs, rec, End) = end[b]
  BY <1>1, <1>2 DEF Edge, Start, End
<1>4. TreeFirstChild(recs, rec, type) = Edge(MinOf(Kids(b)), type)
  <2>1. Beyond(recs, b, 1) = b + 1
    BY <1>1 DEF Beyond
  <2> QED BY <1>3, <2>1, FirstChildIs DEF TreeFirstChild
<1>5. TreeLastChild(recs, rec, type) = Edge(MaxOf(Kids(b)), type)
  <2>1. Beyond(recs, end[b], -1) = end[b] + (-1)
    BY <1>1 DEF Beyond
  <2> QED BY <1>3, <2>1, LastChildIs DEF TreeLastChild
<1>6. TreeNext(recs, rec, type) = Edge(MinOf({k \in Siblings(b) : k > b}), type)
  <2>1. Beyond(recs, end[b], 1) = end[b] + 1
    BY <1>1 DEF Beyond
  <2> QED BY <1>3, <2>1, NextSiblingIs DEF TreeNext, Later
<1>7. TreePrev(recs, rec, type) = Edge(MaxOf({k \in Siblings(b) : k < b}), type)
  <2>1. Beyond(recs, b, -1) = b + (-1)
    BY <1>1 DEF Beyond
  <2> QED BY <1>3, <2>1, PrevSiblingIs DEF TreePrev
<1>8. TreeSize(recs, rec) = end[b] - b + 1
  BY <1>1, <1>3 DEF TreeSize
<1>9. open = <<>> => TreeParent(recs, rec, type) = Edge(parent[b], type)
  <2> SUFFICES ASSUME open = <<>> PROVE TreeParent(recs, rec, type) = Edge(parent[b], type)
    OBVIOUS
  <2>1. Len(open) = 0
    OBVIOUS
  <2>2. \A k \in Branches : end[k] # -1
    BY <2>1 DEF TreeInv, OpenListed
  <2>3. \A k \in Branches : k \in Complete
    BY <2>2, BranchTyped DEF Complete
  <2>4. Branches = Complete
    BY <2>3 DEF Complete
  <2> QED BY <2>4, ParentFound
<1> QED BY <1>2, <1>4, <1>5, <1>6, <1>7, <1>8, <1>9

LEMMA InitTreeInv ==
  ASSUME TreeInit
  PROVE  TreeInv
<1>1. Branches = {} /\ DOMAIN end = {} /\ Len(recs) = 0 /\ Len(open) = 0
  BY DEF TreeInit, Branches
<1>2. RecordsTyped
  <2>1. parent \in [Branches -> Int] /\ end \in [Branches -> Int]
    BY <1>1 DEF TreeInit, Branches
  <2>2. recs \in Seq(Records) /\ open \in Seq(Branches)
    BY DEF TreeInit
  <2> QED BY <1>1, <2>1, <2>2 DEF RecordsTyped
<1>3. Indices(recs) = {}
  BY <1>1 DEF Indices
<1> QED
  BY <1>1, <1>2, <1>3
  DEF TreeInv, EndsPaired, BranchesNested, OpenListed, ParentsEnclose

\* A branch begins: behind all others, which have ended or not.
LEMMA StartsKeeps ==
  ASSUME TreeInv, StartsBranch
  PROVE  TreeInv'
<1> DEFINE n == Len(recs)
           rec == Record(Start, "A", n, 0, FALSE)
           p == IF open = <<>> THEN -1 ELSE Last(open)
<1>1. /\ n \in Nat /\ n \notin Branches /\ rec \in Records
      /\ Len(open) \in Nat
  <2>1. n \in Nat /\ Len(open) \in Nat
    BY DEF TreeInv, RecordsTyped
  <2>2. n \notin Branches
    BY <2>1, BranchTyped
  <2>3. rec \in Records
    BY <2>1 DEF Record, Records
  <2> QED BY <2>1, <2>2, <2>3
<1>2. /\ recs' = Append(recs, rec) /\ open' = Append(open, n)
      /\ parent' = [b \in Branches \cup {n} |-> IF b # n THEN parent[b] ELSE p]
      /\ end' = [b \in Branches \cup {n} |-> IF b # n THEN end[b] ELSE -1]
  BY DEF StartsBranch
<1>3. /\ recs' \in Seq(Records) /\ Len(recs') = n + 1
      /\ \A i \in 1..n : recs'[i] = recs[i]
      /\ recs'[n + 1].type = Start
  <2>1. recs \in Seq(Records)
    BY DEF TreeInv, RecordsTyped
  <2>2. rec.type = Start
    BY DEF Record
  <2> HIDE DEF rec
  <2> QED BY <1>1, <1>2, <2>1, <2>2, AppendProperties
<1>4. Branches' = Branches \cup {n}
  BY <1>2 DEF Branches
<1>5. /\ open' \in Seq(Branches') /\ Len(open') = Len(open) + 1
      /\ \A q \in 1..Len(open) : open'[q] = open[q] /\ open[q] \in Branches
      /\ open'[Len(open) + 1] = n
  <2>1. open \in Seq(Branches') /\ n \in Branches'
    BY <1>4 DEF TreeInv, RecordsTyped
  <2>2. \A q \in 1..Len(open) : open[q] \in Branches
    BY DEF TreeInv, RecordsTyped
  <2> QED BY <1>2, <2>1, <2>2, AppendProperties
<1>6. /\ \A b \in Branches : end'[b] = end[b] /\ parent'[b] = parent[b] /\ b \in Branches'
      /\ end'[n] = -1 /\ parent'[n] = p
  BY <1>1, <1>2, <1>4
<1>7. p \in Int /\ (p = -1 \/ (p \in Branches /\ end[p] = -1))
  <2>1. CASE open = <<>>
    BY <2>1
  <2>2. CASE open # <<>>
    <3>1. Len(open) \in 1..Len(open)
      BY <2>2 DEF TreeInv, RecordsTyped
    <3>2. p = open[Len(open)] /\ p \in Branches
      BY <1>5, <2>2, <3>1 DEF Last
    <3>3. end[p] = -1
      BY <3>1, <3>2 DEF TreeInv, OpenListed
    <3> QED BY <3>2, <3>3, BranchTyped
  <2> QED BY <2>1, <2>2
<1>8. \A b \in Branches : p < b => end[b] # -1
  <2> SUFFICES ASSUME NEW b \in Branches, end[b] = -1 PROVE ~(p < b)
    OBVIOUS
  <2>1. PICK q \in 1..Len(open) : open[q] = b
    BY DEF TreeInv, OpenListed
  <2>2. open # <<>>
    BY <2>1
  <2>3. p = open[Len(open)] /\ Len(open) \in 1..Len(open)
    BY <1>1, <2>1, <2>2 DEF Last
  <2>4. q = Len(open) \/ q < Len(open)
    BY <1>1, <2>1
  <2>5. b = p \/ b < p
    BY <2>1, <2>3, <2>4 DEF TreeInv, OpenListed
  <2>6. b \in Int
    BY BranchTyped
  <2> QED BY <1>7, <2>5, <2>6
<1> HIDE DEF rec, n, p
<1>9. \A b \in Branches : b \in Nat /\ b < n /\ end[b] \in Int /\ parent[b] \in Int
                          /\ end[b] < n /\ end[b] # n
  BY <1>1, BranchTyped DEF n
<1>10. RecordsTyped'
  <2>1. Branches' \subseteq Indices(recs')
    BY <1>1, <1>3, <1>4, <1>9 DEF Indices
  <2>2. parent' \in [Branches' -> Int] /\ end' \in [Branches' -> Int]
    BY <1>2, <1>4, <1>7, <1>9
  <2> QED BY <1>3, <1>5, <2>1, <2>2 DEF RecordsTyped
<1>11. EndsPaired'
  <2>1. ASSUME NEW i \in Indices(recs')
        PROVE  /\ recs'[i + 1].type = Start <=> i \in Branches'
               /\ i \notin Branches' => \E b \in Branches' : end'[b] = i
    <3>1. i \in 0..n
      BY <1>1, <1>3 DEF Indices
    <3>2. CASE i = n
      BY <1>3, <1>4, <3>2
    <3>3. CASE i # n
      <4>1. i \in Indices(recs) /\ i + 1 \in 1..n
        BY <1>1, <3>1, <3>3 DEF Indices, n
      <4>2. /\ recs[i + 1].type = Start <=> i \in Branches
            /\ i \notin Branches => \E b \in Branches : end[b] = i
        BY <4>1 DEF TreeInv, EndsPaired
      <4> QED BY <1>3, <1>4, <1>6, <3>3, <4>1, <4>2
    <3> QED BY <3>2, <3>3
  <2>2. ASSUME NEW b \in Branches'
        PROVE  end'[b] = -1 \/ (b < end'[b] /\ end'[b] < Len(recs') /\ end'[b] \notin Branches')
    <3>1. CASE b = n
      BY <1>6, <3>1
    <3>2. CASE b \in Branches
      <4>1. end[b] = -1 \/ (b < end[b] /\ end[b] < n /\ end[b] \notin Branches)
        BY <3>2, BranchTyped DEF n
      <4> QED BY <1>1, <1>3, <1>4, <1>6, <1>9, <3>2, <4>1
    <3> QED BY <1>4, <3>1, <3>2
  <2>3. ASSUME NEW b \in Branches', NEW c \in Branches', end'[b] = end'[c], end'[b] >= 0
        PROVE  b = c
    <3>1. b \in Branches /\ c \in Branches
      BY <1>4, <1>6, <2>3
    <3> QED BY <1>6, <2>3, <3>1 DEF TreeInv, EndsPaired
  <2> QED BY <2>1, <2>2, <2>3 DEF EndsPaired
<1>12. BranchesNested'
  <2> SUFFICES ASSUME NEW b \in Branches', NEW k \in Branches', b < k, k < end'[b]
               PROVE  end'[k] >= 0 /\ end'[k] < end'[b]
    BY DEF BranchesNested
  <2>1. b \in Branches
    <3>1. b # n
      <4>1. k \in Nat
        BY <1>1, <1>4, <1>9
      <4>2. b = n => k < -1
        BY <1>6
      <4> QED BY <4>1, <4>2
    <3> QED BY <1>4, <3>1
  <2>2. k \in Branches
    <3>1. k # n
      BY <1>1, <1>6, <1>9, <2>1
    <3> QED BY <1>4, <3>1
  <2> QED BY <1>6, <2>1, <2>2 DEF TreeInv, BranchesNested
<1>13. OpenListed'
  <2>1. ASSUME NEW x \in 1..Len(open'), NEW y \in 1..Len(open'), x < y
        PROVE  open'[x] < open'[y]
    <3>1. x \in 1..Len(open)
      BY <1>1, <1>5, <2>1
    <3>2. CASE y = Len(open) + 1
      BY <1>5, <1>9, <3>1, <3>2
    <3>3. CASE y # Len(open) + 1
      <4>1. y \in 1..Len(open)
        BY <1>1, <1>5, <3>3
      <4> QED BY <1>5, <2>1, <3>1, <4>1 DEF TreeInv, OpenListed
    <3> QED BY <3>2, <3>3
  <2>2. ASSUME NEW b \in Branches'
        PROVE  end'[b] = -1 <=> \E x \in 1..Len(open') : open'[x] = b
    <3>1. \A x \in 1..Len(open') : x \in 1..Len(open) \/ x = Len(open) + 1
      BY <1>1, <1>5
    <3>2. Len(open) + 1 \in 1..Len(open') /\ \A x \in 1..Len(open) : x \in 1..Len(open')
      BY <1>1, <1>5
    <3>3. CASE b = n
      BY <1>5, <1>6, <3>2, <3>3
    <3>4. CASE b \in Branches
      <4>1. end[b] = -1 <=> \E x \in 1..Len(open) : open[x] = b
        BY <3>4 DEF TreeInv, OpenListed
      <4>2. b # n
        BY <1>1, <3>4
      <4> QED BY <1>5, <1>6, <3>1, <3>2, <3>4, <4>1, <4>2
    <3> QED BY <1>4, <3>3, <3>4
  <2> QED BY <2>1, <2>2 DEF OpenListed
<1>14. ParentsEnclose'
  <2> SUFFICES ASSUME NEW k \in Branches'
               PROVE  /\ \/ parent'[k] = -1
                         \/ /\ parent'[k] \in Branches' /\ parent'[k] < k
                            /\ ~(0 <= end'[parent'[k]] /\ end'[parent'[k]] < k)
                      /\ \A q \in Branches' :
                           parent'[k] < q /\ q < k => 0 <= end'[q] /\ end'[q] < k
    BY DEF ParentsEnclose, Encloses, EndedBefore
  <2>1. CASE k = n
    <3>1. ASSUME NEW q \in Branches', p < q, q < n
          PROVE  0 <= end'[q] /\ end'[q] < n
      <4>1. q \in Branches
        BY <1>1, <1>4, <3>1
      <4>2. end[q] # -1
        BY <1>8, <3>1, <4>1
      <4>3. end[q] \in Int /\ (end[q] = -1 \/ q < end[q])
        BY <4>1, BranchTyped
      <4> QED BY <1>6, <1>9, <4>1, <4>2, <4>3
    <3>2. p # -1 => p \in Branches' /\ p < n /\ ~(0 <= end'[p])
      BY <1>6, <1>7, <1>9
    <3> QED BY <1>6, <2>1, <3>1, <3>2
  <2>2. CASE k \in Branches
    <3>1. Encloses(parent[k], k) /\ parent'[k] = parent[k]
      BY <1>6, <2>2 DEF TreeInv, ParentsEnclose
    <3>2. ASSUME NEW q \in Branches', parent'[k] < q, q < k
          PROVE  0 <= end'[q] /\ end'[q] < k
      <4>1. q \in Branches
        BY <1>1, <1>4, <1>9, <2>2, <3>2
      <4> QED BY <1>6, <3>1, <3>2, <4>1 DEF Encloses, EndedBefore
    <3> QED BY <1>6, <3>1, <3>2 DEF Encloses, EndedBefore
  <2> QED BY <1>4, <2>1, <2>2
<1> QED BY <1>10, <1>11, <1>12, <1>13, <1>14 DEF TreeInv

\* A branch ends: the last of those that have not.
LEMMA EndsKeeps ==
  ASSUME TreeInv, EndsBranch
  PROVE  TreeInv'
<1> DEFINE n == Len(recs)
           r == Last(open)
           size == n - r
           more == [recs EXCEPT ![r + 1].size = size]
           rec == Record(End, "A", r, size, FALSE)
           m == Len(open)
<1>1. /\ open # <<>> /\ open' = Front(open) /\ parent' = parent
      /\ recs' = Append(more, rec) /\ end' = [end EXCEPT ![r] = n]
  BY DEF EndsBranch
<1>2. /\ n \in Nat /\ m \in Nat /\ m \in 1..m /\ r = open[m]
      /\ r \in Branches /\ r \in Nat /\ r < n /\ end[r] = -1
  <2>1. n \in Nat /\ m \in Nat /\ m \in 1..m /\ r = open[m] /\ r \in Branches
    BY <1>1 DEF TreeInv, RecordsTyped, Last
  <2>2. end[r] = -1
    BY <2>1 DEF TreeInv, OpenListed
  <2> QED BY <2>1, <2>2, BranchTyped
<1>3. /\ more \in Seq(Records) /\ Len(more) = n
      /\ \A i \in 1..n : more[i].type = recs[i].type
  <2>1. recs \in Seq(Records) /\ recs[r + 1] \in Records /\ size \in Int
    BY <1>2 DEF TreeInv, RecordsTyped
  <2>2. [recs[r + 1] EXCEPT !.size = size] \in Records
        /\ [recs[r + 1] EXCEPT !.size = size].type = recs[r + 1].type
    BY <2>1 DEF Records
  <2>3. more = [recs EXCEPT ![r + 1] = [recs[r + 1] EXCEPT !.size = size]]
    OBVIOUS
  <2> QED BY <1>2, <2>1, <2>2, <2>3
<1>4. /\ recs' \in Seq(Records) /\ Len(recs') = n + 1
      /\ \A i \in 1..n : recs'[i].type = recs[i].type
      /\ recs'[n + 1].type = End
  <2>1. rec \in Records /\ rec.type = End
    BY <1>2 DEF Record, Records
  <2> HIDE DEF rec, more
  <2> QED BY <1>1, <1>2, <1>3, <2>1, AppendProperties
<1>5. Branches' = Branches
  BY <1>1 DEF Branches
<1>6. /\ \A b \in Branches : b # r => end'[b] = end[b]
      /\ end'[r] = n
  BY <1>1, <1>2 DEF TreeInv, RecordsTyped
<1>7. /\ open' \in Seq(Branches) /\ Len(open') = m - 1
      /\ \A q \in 1..(m - 1) : open'[q] = open[q]
  <2>1. open \in Seq(Branches) /\ \A q \in 1..(m - 1) : open[q] \in Branches
    BY <1>2 DEF TreeInv, RecordsTyped
  <2>2. open' = SubSeq(open, 1, m - 1)
    BY <1>1 DEF Front
  <2> HIDE DEF m
  <2>3. /\ open' \in Seq(Branches)
        /\ Len(open') = IF 1 <= m - 1 THEN m - 1 - 1 + 1 ELSE 0
        /\ \A q \in 1..(m - 1 - 1 + 1) : open'[q] = open[1 + q - 1]
    BY <1>2, <2>1, <2>2, SubSeqProperties
  <2>4. m - 1 - 1 + 1 = m - 1 /\ \A q \in 1..(m - 1) : 1 + q - 1 = q
    BY <1>2
  <2> QED BY <1>2, <2>3, <2>4
<1>8. \A b \in Branches : end[b] = -1 => b <= r
  <2> SUFFICES ASSUME NEW b \in Branches, end[b] = -1 PROVE b <= r
    OBVIOUS
  <2>1. PICK q \in 1..m : open[q] = b
    BY DEF TreeInv, OpenListed
  <2>2. q = m \/ q < m
    BY <1>2, <2>1
  <2>3. b = r \/ b < r
    BY <1>2, <2>1, <2>2 DEF TreeInv, OpenListed
  <2> QED BY <1>2, <2>3, BranchTyped
<1> HIDE DEF rec, n, r, more, m
<1>9. \A b \in Branches : b \in Nat /\ b < n /\ end[b] \in Int /\ parent[b] \in Int
                          /\ end[b] < n /\ end[b] # n
                          /\ (end[b] = -1 \/ (b < end[b] /\ end[b] < n /\ end[b] \notin Branches))
  BY <1>2, BranchTyped DEF n
<1>10. RecordsTyped'
  <2>1. Branches' \subseteq Indices(recs')
    BY <1>2, <1>4, <1>5, <1>9 DEF Indices
  <2>2. parent' \in [Branches' -> Int] /\ end' \in [Branches' -> Int]
    BY <1>1, <1>2, <1>5 DEF TreeInv, RecordsTyped
  <2> QED BY <1>4, <1>5, <1>7, <2>1, <2>2 DEF RecordsTyped
<1>11. EndsPaired'
  <2>1. ASSUME NEW i \in Indices(recs')
        PROVE  /\ recs'[i + 1].type = Start <=> i \in Branches
               /\ i \notin Branches => \E b \in Branches : end'[b] = i
    <3>1. i \in 0..n
      BY <1>2, <1>4 DEF Indices
    <3>2. CASE i = n
      <4>1. i \notin Branches
        BY <1>9, <3>2
      <4>2. recs'[i + 1].type # Start
        BY <1>4, <3>2 DEF Start, End
      <4> QED BY <1>2, <1>6, <3>2, <4>1, <4>2
    <3>3. CASE i # n
      <4>1. i \in Indices(recs) /\ i + 1 \in 1..n
        BY <1>2, <3>1, <3>3 DEF Indices, n
      <4>2. /\ recs[i + 1].type = Start <=> i \in Branches
            /\ i \notin Branches => \E b \in Branches : end[b] = i
        BY <4>1 DEF TreeInv, EndsPaired
      <4>3. i # -1
        BY <3>1
      <4> QED BY <1>2, <1>4, <1>6, <4>1, <4>2, <4>3
    <3> QED BY <3>2, <3>3
  <2>2. ASSUME NEW b \in Branches
        PROVE  end'[b] = -1 \/ (b < end'[b] /\ end'[b] < Len(recs') /\ end'[b] \notin Branches)
    <3>1. CASE b = r
      BY <1>2, <1>4, <1>6, <1>9, <3>1
    <3>2. CASE b # r
      BY <1>2, <1>4, <1>6, <1>9, <3>2
    <3> QED BY <3>1, <3>2
  <2>3. ASSUME NEW b \in Branches, NEW c \in Branches, end'[b] = end'[c], end'[b] >= 0
        PROVE  b = c
    <3>1. CASE b # r /\ c # r
      BY <1>6, <2>3, <3>1 DEF TreeInv, EndsPaired
    <3>2. CASE b = r \/ c = r
      BY <1>6, <1>9, <2>3, <3>2
    <3> QED BY <3>1, <3>2
  <2> QED BY <1>5, <2>1, <2>2, <2>3 DEF EndsPaired
<1>12. BranchesNested'
  <2> SUFFICES ASSUME NEW b \in Branches, NEW k \in Branches, b < k, k < end'[b]
               PROVE  end'[k] >= 0 /\ end'[k] < end'[b]
    BY <1>5 DEF BranchesNested
  <2>1. CASE b = r
    <3>1. k # r /\ ~(k <= r)
      BY <1>2, <1>9, <2>1
    <3>2. end[k] # -1
      BY <1>8, <3>1
    <3> QED BY <1>2, <1>6, <1>9, <2>1, <3>1, <3>2
  <2>2. CASE b # r
    <3>1. end[k] >= 0 /\ end[k] < end[b] /\ end'[b] = end[b]
      BY <1>6, <2>2 DEF TreeInv, BranchesNested
    <3>2. k # r
      BY <1>2, <3>1
    <3> QED BY <1>6, <3>1, <3>2
  <2> QED BY <2>1, <2>2
<1>13. OpenListed'
  <2>1. ASSUME NEW x \in 1..Len(open'), NEW y \in 1..Len(open'), x < y
        PROVE  open'[x] < open'[y]
    <3>1. x \in 1..(m - 1) /\ y \in 1..(m - 1) /\ x \in 1..m /\ y \in 1..m
      BY <1>2, <1>7
    <3> QED BY <1>7, <2>1, <3>1 DEF TreeInv, OpenListed, m
  <2>2. ASSUME NEW b \in Branches
        PROVE  end'[b] = -1 <=> \E x \in 1..Len(open') : open'[x] = b
    <3>1. \A x \in 1..m : x \in 1..(m - 1) \/ x = m
      BY <1>2
    <3>2. \A x \in 1..(m - 1) : x \in 1..m /\ x < m
      BY <1>2
    <3>3. end[b] = -1 <=> \E x \in 1..m : open[x] = b
      BY DEF TreeInv, OpenListed, m
    <3>4. CASE b = r
      <4>1. \A x \in 1..(m - 1) : open[x] < open[m]
        BY <1>2, <3>2 DEF TreeInv, OpenListed, m
      <4>2. \A x \in 1..(m - 1) : open[x] # r
        BY <1>2, <4>1
      <4>3. end'[b] # -1
        BY <1>2, <1>6, <3>4
      <4> QED BY <1>7, <3>4, <4>2, <4>3
    <3>5. CASE b # r
      BY <1>2, <1>6, <1>7, <3>1, <3>2, <3>3, <3>5
    <3> QED BY <3>4, <3>5
  <2> QED BY <1>5, <2>1, <2>2 DEF OpenListed
<1>14. ParentsEnclose'
  <2>1. ASSUME NEW b \in Branches, NEW k \in Branches
        PROVE  0 <= end'[b] /\ end'[b] < k <=> EndedBefore(b, k)
    <3> USE DEF EndedBefore
    <3>1. CASE b = r
      BY <1>2, <1>6, <1>9, <3>1
    <3>2. CASE b # r
      BY <1>6, <3>2
    <3> QED BY <3>1, <3>2
  <2> SUFFICES ASSUME NEW k \in Branches
               PROVE  /\ \/ parent[k] = -1
                         \/ /\ parent[k] \in Branches /\ parent[k] < k
                            /\ ~(0 <= end'[parent[k]] /\ end'[parent[k]] < k)
                      /\ \A q \in Branches :
                           parent[k] < q /\ q < k => 0 <= end'[q] /\ end'[q] < k
    BY <1>1, <1>5 DEF ParentsEnclose, Encloses, EndedBefore
  <2> QED BY <2>1 DEF TreeInv, ParentsEnclose, Encloses
<1> QED BY <1>10, <1>11, <1>12, <1>13, <1>14 DEF TreeInv

LEMMA StepTreeInv ==
  ASSUME TreeInv, [TreeStep]_<<recs, open, parent, end>>
  PROVE  TreeInv'
<1>1. CASE UNCHANGED <<recs, open, parent, end>>
  BY <1>1 DEF TreeInv, RecordsTyped, EndsPaired, BranchesNested, OpenListed, ParentsEnclose,
              Encloses, EndedBefore, Branches
<1> QED BY <1>1, StartsKeeps, EndsKeeps DEF TreeStep

\* In every array of records that emitstart and emitend build, finished or
\* not, rparecord.c finds from either record of a branch what the tree says
\* (src/rpa/rparecord.c:61).
THEOREM RecordsNavigate == TreeSpec => []Navigates
<1>1. TreeInit => TreeInv
  BY InitTreeInv
<1>2. TreeInv /\ [TreeStep]_<<recs, open, parent, end>> => TreeInv'
  BY StepTreeInv
<1>3. TreeInv => Navigates
  BY InvNavigates
<1> QED BY <1>1, <1>2, <1>3, PTL DEF TreeSpec
=============================================================================
