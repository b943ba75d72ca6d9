---------------------------- MODULE RArrayProofs ----------------------------
(***************************************************************************)
(* Lemmas about the arrays of RArrays, and about the operators on          *)
(* sequences and sets that the containers are written with.                *)
(***************************************************************************)
EXTENDS RArrayUse, SequenceTheorems, FiniteSetTheorems, WellFoundedInduction, TLAPS

-----------------------------------------------------------------------------
(* Sets of numbers, and removal from a sequence.                           *)

\* Min and Max of FiniteSetsExt on what a search in a sequence finds.
LEMMA MinOfPlaces ==
  ASSUME NEW I \in SUBSET Nat, I # {}
  PROVE  Min(I) \in I /\ \A i \in I : Min(I) <= i
<1>1. PICK m \in I : \A i \in I : ~(<<i, m>> \in OpToRel(<, Nat))
  BY NatLessThanWellFounded, WFMin
<1>2. \A i \in I : ~(i < m)
  BY <1>1, Zenon DEF OpToRel
<1>3. \A i \in I : m <= i
  BY <1>2
<1> QED BY <1>3 DEF Min

LEMMA MaxOfPlaces ==
  ASSUME NEW n \in Nat, NEW I \in SUBSET (0..n), I # {}
  PROVE  Max(I) \in I /\ \A i \in I : i <= Max(I)
<1> DEFINE J == {n - i : i \in I}
<1>1. J \in SUBSET Nat /\ J # {}
  <2>1. \A i \in I : n - i \in Nat
    OBVIOUS
  <2> QED BY <2>1
<1>2. PICK j \in J : \A k \in J : j <= k
  BY <1>1, MinOfPlaces
<1>3. PICK m \in I : j = n - m
  BY <1>2
<1>4. \A i \in I : i <= m
  BY SMTT(30), <1>2, <1>3
<1>5. \E x \in I : \A y \in I : x >= y
  BY <1>3, <1>4
<1> QED BY <1>5 DEF Max

LEMMA RemoveAtProperties ==
  ASSUME NEW S, NEW s \in Seq(S), NEW k \in 1..Len(s)
  PROVE  /\ RemoveAt(s, k) \in Seq(S)
         /\ Len(RemoveAt(s, k)) = Len(s) - 1
         /\ \A i \in 1..(Len(s) - 1) :
              RemoveAt(s, k)[i] = IF i < k THEN s[i] ELSE s[i + 1]
<1> DEFINE front == SubSeq(s, 1, k - 1)
           back == SubSeq(s, k + 1, Len(s))
<1>1. Len(s) \in Nat /\ \A i \in 1..Len(s) : s[i] \in S
  OBVIOUS
<1>2. front \in Seq(S) /\ Len(front) = k - 1 /\ \A i \in 1..(k - 1) : front[i] = s[i]
  <2>1. \A i \in 1..(k - 1) : s[i] \in S
    BY <1>1
  <2> QED BY <1>1, <2>1, SubSeqProperties
<1>3. /\ back \in Seq(S) /\ Len(back) = Len(s) - k
      /\ \A i \in 1..(Len(s) - k) : back[i] = s[i + k]
  <2>1. \A i \in (k + 1)..Len(s) : s[i] \in S
    BY <1>1
  <2> QED BY <1>1, <2>1, SubSeqProperties
<1>4. /\ RemoveAt(s, k) = front \o back
      /\ RemoveAt(s, k) \in Seq(S)
      /\ Len(RemoveAt(s, k)) = Len(front) + Len(back)
      /\ \A i \in 1..(Len(front) + Len(back)) :
           RemoveAt(s, k)[i] = IF i <= Len(front) THEN front[i] ELSE back[i - Len(front)]
  BY <1>2, <1>3, ConcatProperties DEF RemoveAt
<1> HIDE DEF front, back
<1> QED BY <1>1, <1>2, <1>3, <1>4

-----------------------------------------------------------------------------
(* What a program computes step by step from 0 to n.                       *)

\* What holds at 0, and at i if it holds at i - 1, holds everywhere.
LEMMA HoldsUpto ==
  ASSUME NEW n \in Nat, NEW P \in SUBSET (0..n), 0 \in P,
         \A i \in 1..n : i - 1 \in P => i \in P
  PROVE  P = 0..n
<1> DEFINE Bad == (0..n) \ P
<1> SUFFICES ASSUME Bad # {} PROVE FALSE
  OBVIOUS
<1>1. PICK m \in Bad : \A k \in Bad : m <= k
  <2>1. Bad \in SUBSET Nat
    OBVIOUS
  <2> HIDE DEF Bad
  <2> QED BY <2>1, MinOfPlaces
<1>2. m \in 1..n /\ m - 1 \in 0..n
  BY <1>1
<1>3. m - 1 \in P
  BY <1>1, <1>2
<1> QED BY <1>1, <1>2, <1>3

\* f starts with a and goes on as F says; and there is such a function.
Follows(f, n, a, F) == f[0] = a /\ \A i \in 1..n : f[i] = F[i][f[i - 1]]

LEMMA Iterates ==
  ASSUME NEW S, NEW n \in Nat, NEW a \in S, NEW F \in [1..n -> [S -> S]]
  PROVE  \E f \in [0..n -> S] : Follows(f, n, a, F)
<1> DEFINE Goes(f, k) == f[0] = a /\ \A i \in 1..n : i <= k => f[i] = F[i][f[i - 1]]
           P == {k \in 0..n : \E f \in [0..n -> S] : Goes(f, k)}
<1>1. 0 \in P
  <2> DEFINE f == [i \in 0..n |-> a]
  <2>1. f \in [0..n -> S] /\ f[0] = a
    OBVIOUS
  <2> HIDE DEF f
  <2>2. Goes(f, 0)
    BY <2>1
  <2> QED BY <2>1, <2>2
<1>2. ASSUME NEW m \in 1..n, m - 1 \in P
      PROVE  m \in P
  <2>1. PICK f \in [0..n -> S] : Goes(f, m - 1)
    BY <1>2
  <2> DEFINE g == [f EXCEPT ![m] = F[m][f[m - 1]]]
  <2>2. F[m][f[m - 1]] \in S
    OBVIOUS
  <2>3. g \in [0..n -> S] /\ \A i \in 0..n : g[i] = IF i = m THEN F[m][f[m - 1]] ELSE f[i]
    BY <2>2
  <2> HIDE DEF g
  <2>4. g[0] = a
    BY <2>1, <2>3
  <2>5. ASSUME NEW i \in 1..n, i <= m
        PROVE  g[i] = F[i][g[i - 1]]
    <3>1. i - 1 \in 0..n /\ i - 1 # m /\ g[i - 1] = f[i - 1]
      BY <2>3, <2>5
    <3>2. CASE i = m
      BY <2>3, <3>1, <3>2
    <3>3. CASE i # m
      <4>1. i <= m - 1
        BY <2>5, <3>3
      <4> QED BY <2>1, <2>3, <3>1, <3>3, <4>1
    <3> QED BY <3>2, <3>3
  <2>6. Goes(g, m)
    BY <2>4, <2>5
  <2> QED BY <2>3, <2>6
<1>3. P = 0..n
  <2>1. P \in SUBSET (0..n)
    OBVIOUS
  <2> HIDE DEF P
  <2> QED BY <1>1, <1>2, <2>1, HoldsUpto
<1>4. n \in P
  <2> HIDE DEF P
  <2> QED BY <1>3
<1>5. PICK f \in [0..n -> S] : Goes(f, n)
  BY <1>4
<1>6. Follows(f, n, a, F)
  BY <1>5 DEF Follows
<1> QED BY <1>6

-----------------------------------------------------------------------------
(* rcarray.c                                                               *)

\* Arrays of elements of S, with what is in the slots behind the length.
Chunk(S) == [0..(ChunkSize - 1) -> S]
CArrays(S) == {c \in [chunks : Seq(Chunk(S)), len : Nat] : c.len <= CAllocSize(c)}

\* So much memory is so many chunks.
LEMMA ChunksCancel ==
  ASSUME NEW m \in Nat, NEW n \in Nat, ChunkSize * m = ChunkSize * n
  PROVE  m = n
<1>1. ASSUME NEW u \in Nat, NEW v \in Nat, u < v
      PROVE  ChunkSize * u < ChunkSize * v
  <2>1. PICK d \in Nat \ {0} : v = u + d
    <3>1. v - u \in Nat \ {0} /\ v = u + (v - u)
      BY <1>1
    <3> QED BY <3>1
  <2>2. ChunkSize * (u + d) = ChunkSize * u + ChunkSize * d
    BY ChunkAssumption
  <2>3. ChunkSize * d > 0
    BY ChunkAssumption
  <2>4. ChunkSize * u \in Nat /\ ChunkSize * d \in Nat
    BY ChunkAssumption
  <2> QED BY <2>1, <2>2, <2>3, <2>4
<1>2. ChunkSize * m \in Nat
  BY ChunkAssumption
<1> QED BY <1>1, <1>2

\* Every place below the allocated size is in a chunk, at a place of its own.
LEMMA PlaceInChunks ==
  ASSUME NEW n \in Nat, NEW i \in Nat, i < ChunkSize * n
  PROVE  /\ i \div ChunkSize + 1 \in 1..n
         /\ i % ChunkSize \in 0..(ChunkSize - 1)
         /\ i = ChunkSize * (i \div ChunkSize) + (i % ChunkSize)
<1> DEFINE q == i \div ChunkSize
<1>1. q \in Nat /\ i % ChunkSize \in 0..(ChunkSize - 1) /\ i = ChunkSize * q + (i % ChunkSize)
  BY ChunkAssumption
<1>2. q < n
  <2> SUFFICES ASSUME n <= q PROVE FALSE
    BY <1>1
  <2>1. ChunkSize * n <= ChunkSize * q
    BY <1>1, ChunkAssumption
  <2> QED BY <1>1, <2>1, ChunkAssumption
<1> QED BY <1>1, <1>2

LEMMA AllocSizeNat ==
  ASSUME NEW S, NEW c \in CArrays(S)
  PROVE  /\ c.chunks \in Seq(Chunk(S)) /\ Len(c.chunks) \in Nat
         /\ c.len \in Nat /\ CAllocSize(c) \in Nat /\ c.len <= CAllocSize(c)
  BY ChunkAssumption DEF CArrays, CAllocSize

LEMMA SlotType ==
  ASSUME NEW S, NEW c \in CArrays(S), NEW i \in Nat, i < CAllocSize(c)
  PROVE  CSlot(c, i) \in S
<1>1. c.chunks \in Seq(Chunk(S)) /\ Len(c.chunks) \in Nat
  BY AllocSizeNat
<1>2. i \div ChunkSize + 1 \in 1..Len(c.chunks) /\ i % ChunkSize \in 0..(ChunkSize - 1)
  BY <1>1, PlaceInChunks DEF CAllocSize
<1>3. c.chunks[i \div ChunkSize + 1] \in Chunk(S)
  BY <1>1, <1>2
<1> QED BY <1>2, <1>3 DEF CSlot, Chunk

LEMMA AddChunksKeeps ==
  ASSUME NEW S, Zero \in S, NEW c \in CArrays(S), NEW n \in Nat
  PROVE  /\ AddChunks(c, n) \in CArrays(S)
         /\ AddChunks(c, n).len = c.len
         /\ CAllocSize(AddChunks(c, n)) = CAllocSize(c) + ChunkSize * n
         /\ \A i \in 0..(CAllocSize(c) - 1) : CSlot(AddChunks(c, n), i) = CSlot(c, i)
<1> DEFINE new == [i \in 1..n |-> Zeros(ChunkSize)]
           d == AddChunks(c, n)
<1>1. c.chunks \in Seq(Chunk(S)) /\ Len(c.chunks) \in Nat /\ c.len \in Nat
  BY AllocSizeNat
<1>2. new \in Seq(Chunk(S)) /\ Len(new) = n
  <2>1. Zeros(ChunkSize) \in Chunk(S)
    BY DEF Zeros, Chunk
  <2> QED BY <2>1
<1>3. d.chunks = c.chunks \o new /\ d.len = c.len
  BY DEF AddChunks, CArrays
<1>4. /\ d.chunks \in Seq(Chunk(S)) /\ Len(d.chunks) = Len(c.chunks) + n
      /\ \A k \in 1..Len(c.chunks) : d.chunks[k] = c.chunks[k]
  <2>1. /\ c.chunks \o new \in Seq(Chunk(S))
        /\ Len(c.chunks \o new) = Len(c.chunks) + Len(new)
        /\ \A k \in 1..(Len(c.chunks) + Len(new)) :
             (c.chunks \o new)[k] =
               IF k <= Len(c.chunks) THEN c.chunks[k] ELSE new[k - Len(c.chunks)]
    <3> HIDE DEF new
    <3> QED BY <1>1, <1>2, ConcatProperties
  <2> HIDE DEF new, d
  <2> QED BY <1>1, <1>2, <1>3, <2>1
<1>5. CAllocSize(d) = CAllocSize(c) + ChunkSize * n
  <2>1. \A k \in Nat : ChunkSize * (k + n) = ChunkSize * k + ChunkSize * n
    BY ChunkAssumption
  <2>2. ChunkSize * (Len(c.chunks) + n) = ChunkSize * Len(c.chunks) + ChunkSize * n
    BY <1>1, <2>1
  <2> HIDE DEF d
  <2> QED BY <1>4, <2>2 DEF CAllocSize
<1>6. d \in CArrays(S)
  <2>1. d.len <= CAllocSize(d)
    <3>1. ChunkSize * n \in Nat
      BY ChunkAssumption
    <3> HIDE DEF d
    <3> QED BY <1>1, <1>3, <1>5, <3>1, AllocSizeNat
  <2>2. c.chunks \o new \in Seq(Chunk(S))
    BY <1>3, <1>4
  <2>3. d \in [chunks : Seq(Chunk(S)), len : Nat]
    BY <2>2 DEF AddChunks, CArrays
  <2> HIDE DEF d
  <2> QED BY <2>1, <2>3 DEF CArrays
<1>7. ASSUME NEW i \in 0..(CAllocSize(c) - 1)
      PROVE  CSlot(d, i) = CSlot(c, i)
  <2>1. i \div ChunkSize + 1 \in 1..Len(c.chunks)
    BY <1>1, AllocSizeNat, PlaceInChunks DEF CAllocSize
  <2> HIDE DEF d
  <2> QED BY <1>4, <2>1 DEF CSlot
<1> QED BY <1>3, <1>5, <1>6, <1>7

LEMMA CreateEmpty ==
  ASSUME NEW S, Zero \in S
  PROVE  CArrayCreate \in CArrays(S) /\ CArrayCreate.len = 0
<1> DEFINE none == [chunks |-> <<>>, len |-> 0]
<1>1. none \in CArrays(S) /\ none.len = 0
  <2>1. none \in [chunks : Seq(Chunk(S)), len : Nat]
    OBVIOUS
  <2>2. none.len <= CAllocSize(none)
    BY ChunkAssumption DEF CAllocSize
  <2> QED BY <2>1, <2>2 DEF CArrays
<1> HIDE DEF none
<1>2. AddChunks(none, 1) \in CArrays(S) /\ AddChunks(none, 1).len = 0
  BY <1>1, AddChunksKeeps
<1> QED BY <1>2 DEF CArrayCreate, none

\* r_carray_checkexpand makes enough room, whatever the division drops.
LEMMA ExpandKeeps ==
  ASSUME NEW S, Zero \in S, NEW c \in CArrays(S), NEW size \in Nat
  PROVE  /\ CheckExpand(c, size) \in CArrays(S)
         /\ CheckExpand(c, size).len = c.len
         /\ size <= CAllocSize(CheckExpand(c, size))
         /\ CAllocSize(c) <= CAllocSize(CheckExpand(c, size))
         /\ \A i \in 0..(CAllocSize(c) - 1) : CSlot(CheckExpand(c, size), i) = CSlot(c, i)
<1>1. CAllocSize(c) \in Nat /\ ChunkSize \in Nat \ {0}
  BY AllocSizeNat, ChunkAssumption
<1>2. CASE CAllocSize(c) < size
  <2> DEFINE n == (size - CAllocSize(c) + ChunkSize) \div ChunkSize
  <2>1. n \in Nat /\ size - CAllocSize(c) <= ChunkSize * n
    <3> DEFINE more == size - CAllocSize(c) + ChunkSize
    <3>1. more \in Nat
      BY <1>1, <1>2
    <3> HIDE DEF more
    <3>2. /\ more \div ChunkSize \in Nat /\ more % ChunkSize < ChunkSize
          /\ more % ChunkSize \in Nat
          /\ more = ChunkSize * (more \div ChunkSize) + (more % ChunkSize)
      BY <1>1, <3>1
    <3>3. more - ChunkSize <= ChunkSize * (more \div ChunkSize)
      BY <1>1, <3>1, <3>2
    <3>4. size - CAllocSize(c) = more - ChunkSize
      BY <1>1 DEF more
    <3> QED BY <3>2, <3>3, <3>4 DEF more
  <2> HIDE DEF n
  <2>2. ChunkSize * n \in Nat
    BY <1>1, <2>1
  <2>3. CheckExpand(c, size) = AddChunks(c, n)
    BY <1>2 DEF CheckExpand, n
  <2>4. /\ AddChunks(c, n) \in CArrays(S)
        /\ AddChunks(c, n).len = c.len
        /\ CAllocSize(AddChunks(c, n)) = CAllocSize(c) + ChunkSize * n
        /\ \A i \in 0..(CAllocSize(c) - 1) : CSlot(AddChunks(c, n), i) = CSlot(c, i)
    BY <2>1, AddChunksKeeps
  <2>5. /\ size <= CAllocSize(AddChunks(c, n))
        /\ CAllocSize(c) <= CAllocSize(AddChunks(c, n))
    BY <1>1, <2>1, <2>2, <2>4
  <2> QED BY <2>3, <2>4, <2>5
<1>3. CASE ~(CAllocSize(c) < size)
  <2>1. CheckExpand(c, size) = c
    BY <1>3 DEF CheckExpand
  <2>2. size <= CAllocSize(c)
    BY <1>1, <1>3
  <2> QED BY <1>1, <2>1, <2>2
<1> QED BY <1>2, <1>3

\* The write of r_carray_replace.
Written(c, index, x) ==
  [c EXCEPT !.chunks[index \div ChunkSize + 1][index % ChunkSize] = x]

\* An element written within the allocated size is there, and nothing else is
\* changed: two places do not share a slot.
LEMMA WriteKeeps ==
  ASSUME NEW S, NEW c \in CArrays(S), NEW x \in S, NEW index \in Nat,
         index < CAllocSize(c)
  PROVE  /\ Written(c, index, x) \in CArrays(S)
         /\ Written(c, index, x).len = c.len
         /\ CAllocSize(Written(c, index, x)) = CAllocSize(c)
         /\ \A i \in 0..(CAllocSize(c) - 1) :
              CSlot(Written(c, index, x), i) = IF i = index THEN x ELSE CSlot(c, i)
<1> DEFINE d == [c EXCEPT !.chunks[index \div ChunkSize + 1][index % ChunkSize] = x]
           q == index \div ChunkSize + 1
           r == index % ChunkSize
           row == [c.chunks[q] EXCEPT ![r] = x]
<1>1. /\ c.chunks \in Seq(Chunk(S)) /\ Len(c.chunks) \in Nat /\ c.len \in Nat
      /\ c.len <= CAllocSize(c)
  BY AllocSizeNat
<1>2. q \in 1..Len(c.chunks) /\ r \in 0..(ChunkSize - 1)
  BY <1>1, PlaceInChunks DEF CAllocSize
<1>3. c.chunks[q] \in Chunk(S)
  BY <1>1, <1>2
<1>4. row \in Chunk(S) /\ \A j \in 0..(ChunkSize - 1) : row[j] = IF j = r THEN x ELSE c.chunks[q][j]
  BY <1>2, <1>3 DEF Chunk
<1>5. d.len = c.len /\ d.chunks = [c.chunks EXCEPT ![q] = row]
  BY DEF CArrays
<1>6. d \in [chunks : Seq(Chunk(S)), len : Nat]
  <2>1. [c.chunks EXCEPT ![q] = row] \in Seq(Chunk(S))
    <3> HIDE DEF q, row
    <3> QED BY <1>1, <1>2, <1>4, ExceptSeq
  <2>2. d = [c EXCEPT !.chunks = [c.chunks EXCEPT ![q] = row]]
    OBVIOUS
  <2>3. c \in [chunks : Seq(Chunk(S)), len : Nat]
    BY DEF CArrays
  <2> HIDE DEF d, row, q
  <2> QED BY <2>1, <2>2, <2>3
<1> HIDE DEF d, q, r, row
<1>7. /\ Len(d.chunks) = Len(c.chunks) /\ CAllocSize(d) = CAllocSize(c)
      /\ \A k \in 1..Len(c.chunks) : d.chunks[k] = IF k = q THEN row ELSE c.chunks[k]
  BY <1>1, <1>2, <1>4, <1>5, ExceptSeq DEF CAllocSize
<1>8. d \in CArrays(S)
  BY <1>1, <1>5, <1>6, <1>7 DEF CArrays
<1>9. ASSUME NEW i \in 0..(CAllocSize(c) - 1)
      PROVE  CSlot(d, i) = IF i = index THEN x ELSE CSlot(c, i)
  <2> DEFINE k == i \div ChunkSize + 1
             j == i % ChunkSize
  <2>1. /\ k \in 1..Len(c.chunks) /\ j \in 0..(ChunkSize - 1)
        /\ i = ChunkSize * (i \div ChunkSize) + j
    BY <1>1, AllocSizeNat, PlaceInChunks DEF CAllocSize
  <2>2. index = ChunkSize * (index \div ChunkSize) + r
    BY <1>1, PlaceInChunks DEF CAllocSize, r
  <2>3. i = index <=> k = q /\ j = r
    <3>1. CASE i = index
      BY <3>1 DEF q, r
    <3>2. ASSUME k = q, j = r PROVE i = index
      <4>1. i \div ChunkSize = index \div ChunkSize
        <5>1. i \div ChunkSize \in Int /\ index \div ChunkSize \in Int
          BY ChunkAssumption
        <5> QED BY <3>2, <5>1 DEF q
      <4> QED BY <2>1, <2>2, <3>2, <4>1
    <3> QED BY <3>1, <3>2
  <2>4. CSlot(d, i) = d.chunks[k][j] /\ CSlot(c, i) = c.chunks[k][j]
    BY DEF CSlot
  <2> HIDE DEF k, j
  <2> QED BY <1>4, <1>7, <2>1, <2>3, <2>4
<1> QED BY <1>5, <1>7, <1>8, <1>9 DEF d, Written

\* r_carray_replace.
LEMMA ReplaceKeeps ==
  ASSUME NEW S, Zero \in S, NEW c \in CArrays(S), NEW x \in S, NEW index \in Nat
  PROVE  /\ CReplace(c, index, x) \in CArrays(S)
         /\ CReplace(c, index, x).len = c.len
         /\ CSlot(CReplace(c, index, x), index) = x
         /\ CAllocSize(c) <= CAllocSize(CReplace(c, index, x))
         /\ \A i \in 0..(CAllocSize(c) - 1) :
              CSlot(CReplace(c, index, x), i) = IF i = index THEN x ELSE CSlot(c, i)
<1> DEFINE e == CheckExpand(c, index + 1)
           d == Written(e, index, x)
<1>1. CReplace(c, index, x) = d
  BY DEF CReplace, Written
<1>2. CAllocSize(c) \in Nat
  BY AllocSizeNat
<1>3. /\ e \in CArrays(S) /\ e.len = c.len
      /\ index + 1 <= CAllocSize(e) /\ CAllocSize(c) <= CAllocSize(e)
      /\ \A i \in 0..(CAllocSize(c) - 1) : CSlot(e, i) = CSlot(c, i)
  <2>1. index + 1 \in Nat
    OBVIOUS
  <2> HIDE DEF d
  <2> QED BY <2>1, ExpandKeeps
<1> HIDE DEF e
<1>4. CAllocSize(e) \in Nat /\ index < CAllocSize(e)
  BY <1>3, AllocSizeNat
<1>5. /\ d \in CArrays(S) /\ d.len = e.len /\ CAllocSize(d) = CAllocSize(e)
      /\ \A i \in 0..(CAllocSize(e) - 1) : CSlot(d, i) = IF i = index THEN x ELSE CSlot(e, i)
  BY <1>3, <1>4, WriteKeeps
<1> HIDE DEF d
<1> QED BY <1>1, <1>2, <1>3, <1>4, <1>5

\* r_carray_add.
LEMMA CArrayAddKeeps ==
  ASSUME NEW S, Zero \in S, NEW c \in CArrays(S), NEW x \in S
  PROVE  /\ CArrayAdd(c, x) \in CArrays(S)
         /\ CArrayAdd(c, x).len = c.len + 1
         /\ CSlot(CArrayAdd(c, x), c.len) = x
         /\ \A i \in 0..(c.len - 1) : CSlot(CArrayAdd(c, x), i) = CSlot(c, i)
<1> DEFINE e == CheckExpand(c, c.len + 1)
           l == [e EXCEPT !.len = @ + 1]
<1>1. c.len \in Nat /\ CAllocSize(c) \in Nat /\ c.len <= CAllocSize(c)
  BY AllocSizeNat
<1>2. /\ e \in CArrays(S) /\ e.len = c.len
      /\ c.len + 1 <= CAllocSize(e) /\ CAllocSize(c) <= CAllocSize(e)
      /\ \A i \in 0..(CAllocSize(c) - 1) : CSlot(e, i) = CSlot(c, i)
  <2>1. c.len + 1 \in Nat
    BY <1>1
  <2> HIDE DEF l
  <2> QED BY <2>1, ExpandKeeps
<1>3. CArrayAdd(c, x) = CReplace(l, c.len, x)
  BY DEF CArrayAdd
<1> HIDE DEF e
<1>4. /\ l.chunks = e.chunks /\ l.len = c.len + 1
      /\ l \in [chunks : Seq(Chunk(S)), len : Nat]
  BY <1>1, <1>2 DEF CArrays
<1> HIDE DEF l
<1>5. CAllocSize(l) = CAllocSize(e) /\ \A i \in Int : CSlot(l, i) = CSlot(e, i)
  BY <1>4 DEF CAllocSize, CSlot
<1>6. l \in CArrays(S)
  BY <1>2, <1>4, <1>5 DEF CArrays
<1>7. CAllocSize(l) \in Nat
  BY <1>6, AllocSizeNat
<1>8. /\ CReplace(l, c.len, x) \in CArrays(S)
      /\ CReplace(l, c.len, x).len = l.len
      /\ CSlot(CReplace(l, c.len, x), c.len) = x
      /\ \A i \in 0..(CAllocSize(l) - 1) :
           CSlot(CReplace(l, c.len, x), i) = IF i = c.len THEN x ELSE CSlot(l, i)
  <2> DEFINE n == c.len
  <2>1. n \in Nat
    BY <1>1
  <2> HIDE DEF n
  <2>2. /\ CReplace(l, n, x) \in CArrays(S)
        /\ CReplace(l, n, x).len = l.len
        /\ CSlot(CReplace(l, n, x), n) = x
        /\ \A i \in 0..(CAllocSize(l) - 1) :
             CSlot(CReplace(l, n, x), i) = IF i = n THEN x ELSE CSlot(l, i)
    BY <1>6, <2>1, ReplaceKeeps
  <2> QED BY <2>2 DEF n
<1>9. \A i \in 0..(c.len - 1) : CSlot(CReplace(l, c.len, x), i) = CSlot(c, i)
  BY <1>1, <1>2, <1>5, <1>7, <1>8
<1> QED BY <1>3, <1>4, <1>8, <1>9

\* r_carray_copy.
LEMMA CArrayCopyKeeps ==
  ASSUME NEW S, Zero \in S, NEW c \in CArrays(S)
  PROVE  /\ CArrayCopy(c) \in CArrays(S)
         /\ CArrayCopy(c).len = c.len
         /\ \A i \in 0..(CAllocSize(c) - 1) : CSlot(CArrayCopy(c), i) = CSlot(c, i)
<1> DEFINE n == Len(c.chunks)
           dst == AddChunks(CArrayCreate, n)
           extra == SubSeq(dst.chunks, n + 1, n + 1)
           d == CArrayCopy(c)
<1>1. c.chunks \in Seq(Chunk(S)) /\ n \in Nat /\ c.len \in Nat /\ c.len <= CAllocSize(c)
  BY AllocSizeNat
<1>2. dst \in CArrays(S) /\ CAllocSize(dst) = CAllocSize(CArrayCreate) + ChunkSize * n
  <2> HIDE DEF n
  <2> QED BY <1>1, CreateEmpty, AddChunksKeeps
<1>3. CAllocSize(CArrayCreate) = ChunkSize
  BY ChunkAssumption DEF CAllocSize, CArrayCreate, AddChunks
<1>4. d = [chunks |-> c.chunks \o extra, len |-> c.len]
  BY DEF CArrayCopy
<1> HIDE DEF dst, extra, d
<1>5. dst.chunks \in Seq(Chunk(S)) /\ Len(dst.chunks) \in Nat
  BY <1>2, AllocSizeNat
<1>6. Len(dst.chunks) = n + 1
  <2>1. ChunkSize * Len(dst.chunks) = ChunkSize * (n + 1)
    <3>1. CAllocSize(dst) = ChunkSize * Len(dst.chunks)
      BY DEF CAllocSize
    <3> HIDE DEF n
    <3>2. ChunkSize + ChunkSize * n = ChunkSize * (n + 1)
      BY <1>1, ChunkAssumption
    <3> QED BY <1>2, <1>3, <3>1, <3>2
  <2> HIDE DEF n
  <2> QED BY <1>1, <1>5, <2>1, ChunksCancel
<1>7. extra \in Seq(Chunk(S)) /\ Len(extra) = 1
  <2> DEFINE T == Chunk(S)
             s == dst.chunks
             m == n + 1
  <2>1. s \in Seq(T) /\ m \in 1..Len(s) /\ m \in Nat
    BY <1>1, <1>5, <1>6
  <2> HIDE DEF T, s, m
  <2>2. SubSeq(s, m, m) \in Seq(T) /\ Len(SubSeq(s, m, m)) = 1
    BY <2>1
  <2> QED BY <2>2 DEF extra, T, s, m
<1>8. /\ d.chunks \in Seq(Chunk(S)) /\ Len(d.chunks) = n + 1 /\ d.len = c.len
      /\ \A q \in 1..n : d.chunks[q] = c.chunks[q]
  <2> DEFINE T == Chunk(S)
             s == c.chunks
  <2>1. s \in Seq(T) /\ extra \in Seq(T)
    BY <1>1, <1>7
  <2> HIDE DEF T, s
  <2>2. /\ s \o extra \in Seq(T) /\ Len(s \o extra) = Len(s) + Len(extra)
        /\ \A q \in 1..Len(s) : (s \o extra)[q] = s[q]
    BY <2>1
  <2> QED BY <1>4, <1>7, <2>2 DEF T, s
<1>9. d \in [chunks : Seq(Chunk(S)), len : Nat]
  BY <1>1, <1>4, <1>8
<1>10. CAllocSize(d) = ChunkSize * (n + 1)
  BY <1>8 DEF CAllocSize
<1>11. d \in CArrays(S)
  <2>1. c.len <= ChunkSize * n
    BY <1>1 DEF CAllocSize
  <2> HIDE DEF n
  <2>2. ChunkSize * n <= ChunkSize * (n + 1)
    BY <1>1, ChunkAssumption
  <2>3. ChunkSize * n \in Nat /\ ChunkSize * (n + 1) \in Nat
    BY <1>1, ChunkAssumption
  <2>4. c.len <= ChunkSize * (n + 1)
    BY <1>1, <2>1, <2>2, <2>3
  <2> QED BY <1>8, <1>9, <1>10, <2>4 DEF CArrays
<1>12. ASSUME NEW i \in 0..(CAllocSize(c) - 1)
       PROVE  CSlot(d, i) = CSlot(c, i)
  <2>1. i \in Nat /\ i < ChunkSize * n
    BY <1>1, ChunkAssumption DEF CAllocSize
  <2> HIDE DEF n
  <2>2. i \div ChunkSize + 1 \in 1..n
    BY <1>1, <2>1, PlaceInChunks
  <2> QED BY <1>8, <2>2 DEF CSlot
<1> QED BY <1>8, <1>11, <1>12 DEF d

-----------------------------------------------------------------------------
(* rarray.c                                                                *)

\* What the size is doubled to is enough, and no less than it was.
LEMMA GrownEnough ==
  ASSUME NEW size \in Nat, NEW len \in Nat
  PROVE  Grown(size, len) \in Nat /\ size <= Grown(size, len) /\ len <= Grown(size, len)
<1> DEFINE Grows(f, n) == f[n] = IF n < len THEN f[2 * n + 1] ELSE n
           P == {k \in 0..len : \E f \in [Nat -> Nat] :
                                  \A n \in Nat : len - k <= n => Grows(f, n)}
<1>1. 0 \in P
  <2> DEFINE f == [n \in Nat |-> n]
  <2>1. f \in [Nat -> Nat] /\ \A n \in Nat : len - 0 <= n => Grows(f, n)
    OBVIOUS
  <2> HIDE DEF f
  <2> QED BY <2>1
<1>2. ASSUME NEW k \in 1..len, k - 1 \in P
      PROVE  k \in P
  <2>1. PICK f \in [Nat -> Nat] : \A n \in Nat : len - (k - 1) <= n => Grows(f, n)
    BY <1>2
  <2> DEFINE m == len - k
             g == [f EXCEPT ![m] = f[2 * m + 1]]
  <2>2. m \in Nat /\ m < len /\ 2 * m + 1 \in Nat /\ 2 * m + 1 # m
    OBVIOUS
  <2> HIDE DEF m
  <2>3. g \in [Nat -> Nat] /\ \A n \in Nat : g[n] = IF n = m THEN f[2 * m + 1] ELSE f[n]
    BY <2>2
  <2> HIDE DEF g
  <2>4. ASSUME NEW n \in Nat, m <= n
        PROVE  Grows(g, n)
    <3>1. 2 * n + 1 \in Nat /\ 2 * n + 1 # m /\ g[2 * n + 1] = f[2 * n + 1]
      BY <2>2, <2>3, <2>4
    <3>2. CASE n = m
      BY <2>2, <2>3, <3>1, <3>2
    <3>3. CASE n # m
      <4>1. len - (k - 1) <= n
        BY <2>2, <2>4, <3>3 DEF m
      <4> QED BY <2>1, <2>3, <3>1, <3>3, <4>1
    <3> QED BY <3>2, <3>3
  <2> QED BY <2>3, <2>4 DEF m
<1>3. P = 0..len
  <2>1. P \in SUBSET (0..len)
    OBVIOUS
  <2> HIDE DEF P
  <2> QED BY <1>1, <1>2, <2>1, HoldsUpto
<1>4. len \in P
  <2> HIDE DEF P
  <2> QED BY <1>3
<1>5. PICK f \in [Nat -> Nat] : \A n \in Nat : len - len <= n => Grows(f, n)
  BY <1>4
<1> DEFINE grown[n \in Nat] == IF n < len THEN grown[2 * n + 1] ELSE n
<1>6. f = [n \in Nat |-> IF n < len THEN f[2 * n + 1] ELSE n]
  <2>1. \A n \in Nat : f[n] = IF n < len THEN f[2 * n + 1] ELSE n
    BY <1>5
  <2> QED BY <2>1
<1>7. grown = [n \in Nat |-> IF n < len THEN grown[2 * n + 1] ELSE n]
  BY <1>6
<1>8. Grown(size, len) = grown[size]
  BY DEF Grown
<1> HIDE DEF grown
<1> DEFINE Enough(n) == grown[n] \in Nat /\ n <= grown[n] /\ len <= grown[n]
           Q == {k \in 0..len : \A n \in Nat : len - k <= n => Enough(n)}
<1>9. 0 \in Q
  BY <1>7
<1>10. ASSUME NEW k \in 1..len, k - 1 \in Q
       PROVE  k \in Q
  <2>1. \A n \in Nat : len - (k - 1) <= n => Enough(n)
    BY <1>10
  <2>2. ASSUME NEW n \in Nat, len - k <= n, n < len
        PROVE  Enough(n)
    <3>1. 2 * n + 1 \in Nat /\ n <= 2 * n + 1
      OBVIOUS
    <3>2. grown[n] = grown[2 * n + 1]
      BY <1>7, <2>2
    <3>3. CASE n = len - k
      <4>1. len - (k - 1) <= 2 * n + 1
        BY <3>3
      <4>2. Enough(2 * n + 1)
        BY <2>1, <3>1, <4>1
      <4> QED BY <3>1, <3>2, <4>2
    <3>4. CASE n # len - k
      <4>1. len - (k - 1) <= n
        BY <2>2, <3>4
      <4> QED BY <2>1, <4>1
    <3> QED BY <3>3, <3>4
  <2>3. ASSUME NEW n \in Nat, ~(n < len)
        PROVE  Enough(n)
    BY <1>7, <2>3
  <2> QED BY <2>2, <2>3
<1>11. Q = 0..len
  <2>1. Q \in SUBSET (0..len)
    OBVIOUS
  <2> HIDE DEF Q
  <2> QED BY <1>9, <1>10, <2>1, HoldsUpto
<1>12. len \in Q
  <2> HIDE DEF Q
  <2> QED BY <1>11
<1>13. Enough(size)
  BY <1>12
<1> QED BY <1>8, <1>13

\* An array of elements of S, those in the slots behind the length included.
Arrays(S) ==
  {a \in [slots : UNION {[0..(k - 1) -> S] : k \in Nat}, len : Nat] : a.len <= AllocSize(a)}

LEMMA ArrayRoom ==
  ASSUME NEW S, NEW a \in Arrays(S)
  PROVE  /\ a.slots \in [0..(AllocSize(a) - 1) -> S] /\ AllocSize(a) \in Nat
         /\ a.len \in Nat /\ a.len <= AllocSize(a)
<1>1. a.len \in Nat /\ a.len <= AllocSize(a)
  BY DEF Arrays
<1>2. PICK k \in Nat : a.slots \in [0..(k - 1) -> S]
  BY DEF Arrays
<1>3. DOMAIN a.slots = 0..(k - 1)
  BY <1>2
<1>4. AllocSize(a) = k
  <2>1. Cardinality(0..(k - 1)) = k
    BY <1>2, FS_Interval
  <2> QED BY <1>3, <2>1 DEF AllocSize
<1> QED BY <1>1, <1>2, <1>4

LEMMA ArrayMade ==
  ASSUME NEW S, NEW k \in Nat, NEW slots \in [0..(k - 1) -> S], NEW len \in 0..k,
         NEW a \in [slots : UNION {[0..(n - 1) -> S] : n \in Nat}, len : Nat],
         a.slots = slots, a.len = len
  PROVE  a \in Arrays(S) /\ AllocSize(a) = k
<1>1. DOMAIN a.slots = 0..(k - 1)
  OBVIOUS
<1>2. AllocSize(a) = k
  <2>1. Cardinality(0..(k - 1)) = k
    BY FS_Interval
  <2> QED BY <1>1, <2>1 DEF AllocSize
<1> QED BY <1>2 DEF Arrays

\* r_array_check_resize.
LEMMA CheckResizeKeeps ==
  ASSUME NEW S, Zero \in S, NEW a \in Arrays(S), NEW len \in Nat
  PROVE  /\ CheckResize(a, len) \in Arrays(S)
         /\ CheckResize(a, len).len = a.len
         /\ len <= AllocSize(CheckResize(a, len))
         /\ AllocSize(a) <= AllocSize(CheckResize(a, len))
         /\ \A i \in 0..(AllocSize(a) - 1) : CheckResize(a, len).slots[i] = a.slots[i]
<1> DEFINE k == AllocSize(a)
           m == Grown(k, len)
           d == CheckResize(a, len)
           more == [i \in 0..(m - 1) |-> IF i < k THEN a.slots[i] ELSE Zero]
<1>1. a.slots \in [0..(k - 1) -> S] /\ k \in Nat /\ a.len \in Nat /\ a.len <= k
  BY ArrayRoom
<1>2. m \in Nat /\ k <= m /\ len <= m
  <2> HIDE DEF k
  <2> QED BY <1>1, GrownEnough
<1> HIDE DEF k, m
<1>3. more \in [0..(m - 1) -> S] /\ \A i \in 0..(k - 1) : more[i] = a.slots[i]
  BY <1>1, <1>2
<1>4. d.slots = more /\ d.len = a.len
  BY DEF CheckResize, Arrays, m, k
<1>5. d \in [slots : UNION {[0..(n - 1) -> S] : n \in Nat}, len : Nat]
  <2>1. more \in UNION {[0..(n - 1) -> S] : n \in Nat}
    BY <1>2, <1>3
  <2>2. d = [a EXCEPT !.slots = more]
    BY DEF CheckResize, m, k
  <2>3. a \in [slots : UNION {[0..(n - 1) -> S] : n \in Nat}, len : Nat]
    BY DEF Arrays
  <2> HIDE DEF d, more
  <2> QED BY <2>1, <2>2, <2>3
<1> HIDE DEF d, more
<1>6. d \in Arrays(S) /\ AllocSize(d) = m
  <2>1. a.len \in 0..m
    BY <1>1, <1>2
  <2> QED BY <1>2, <1>3, <1>4, <1>5, <2>1, ArrayMade
<1> QED BY <1>2, <1>3, <1>4, <1>6 DEF d, k

\* r_array_setlength.
LEMMA SetLengthKeeps ==
  ASSUME NEW S, Zero \in S, NEW a \in Arrays(S), NEW len \in Nat
  PROVE  /\ SetLength(a, len) \in Arrays(S)
         /\ SetLength(a, len).len = len
         /\ \A i \in 0..(AllocSize(a) - 1) : SetLength(a, len).slots[i] = a.slots[i]
<1> DEFINE e == CheckResize(a, len)
           d == SetLength(a, len)
<1>1. /\ e \in Arrays(S) /\ len <= AllocSize(e)
      /\ \A i \in 0..(AllocSize(a) - 1) : e.slots[i] = a.slots[i]
  <2> HIDE DEF e
  <2> QED BY CheckResizeKeeps DEF e
<1>2. e.slots \in [0..(AllocSize(e) - 1) -> S] /\ AllocSize(e) \in Nat
  <2> HIDE DEF e
  <2> QED BY <1>1, ArrayRoom
<1>3. d = [e EXCEPT !.len = len]
  BY DEF SetLength
<1> HIDE DEF e, d
<1>4. /\ d.slots = e.slots /\ d.len = len
      /\ d \in [slots : UNION {[0..(n - 1) -> S] : n \in Nat}, len : Nat]
  BY <1>1, <1>3 DEF Arrays
<1>5. d \in Arrays(S)
  <2>1. len \in 0..AllocSize(e)
    BY <1>1, <1>2
  <2> QED BY <1>2, <1>4, <2>1, ArrayMade
<1> QED BY <1>1, <1>4, <1>5 DEF d

\* r_array_exist_replace.
LEMMA ExistReplaceKeeps ==
  ASSUME NEW S, NEW a \in Arrays(S), NEW x \in S, NEW index \in Nat, index < a.len
  PROVE  /\ ExistReplace(a, index, x) \in Arrays(S)
         /\ ExistReplace(a, index, x).len = a.len
         /\ \A i \in 0..(a.len - 1) :
              ExistReplace(a, index, x).slots[i] = IF i = index THEN x ELSE a.slots[i]
<1> DEFINE d == ExistReplace(a, index, x)
           new == [a.slots EXCEPT ![index] = x]
           k == AllocSize(a)
<1>1. a.slots \in [0..(k - 1) -> S] /\ k \in Nat /\ a.len \in Nat /\ a.len <= k
  BY ArrayRoom
<1> HIDE DEF k
<1>2. new \in [0..(k - 1) -> S] /\ \A i \in 0..(k - 1) : new[i] = IF i = index THEN x ELSE a.slots[i]
  BY <1>1
<1>3. d = [a EXCEPT !.slots = new]
  BY DEF ExistReplace
<1>4. a \in [slots : UNION {[0..(n - 1) -> S] : n \in Nat}, len : Nat]
  BY DEF Arrays
<1> HIDE DEF d, new
<1>5. new \in UNION {[0..(n - 1) -> S] : n \in Nat}
  BY <1>1, <1>2
<1>6. /\ d.slots = new /\ d.len = a.len
      /\ d \in [slots : UNION {[0..(n - 1) -> S] : n \in Nat}, len : Nat]
  BY <1>3, <1>4, <1>5
<1>7. d \in Arrays(S)
  <2>1. a.len \in 0..k
    BY <1>1
  <2> QED BY <1>1, <1>2, <1>6, <2>1, ArrayMade
<1> QED BY <1>1, <1>2, <1>6, <1>7 DEF d

\* An element that is put behind the last, whichever way it is put there.
LEMMA ArrayAddKeeps ==
  ASSUME NEW S, Zero \in S, NEW a \in Arrays(S), NEW x \in S
  PROVE  /\ ArrayAdd(a, x) \in Arrays(S)
         /\ ArrayAdd(a, x).len = a.len + 1
         /\ ArrayAdd(a, x).slots[a.len] = x
         /\ \A i \in 0..(a.len - 1) : ArrayAdd(a, x).slots[i] = a.slots[i]
<1> DEFINE n == a.len
           e == SetLength(a, n + 1)
<1>1. n \in Nat /\ n + 1 \in Nat /\ AllocSize(a) \in Nat /\ n <= AllocSize(a)
  BY ArrayRoom
<1> HIDE DEF n
<1>2. /\ e \in Arrays(S) /\ e.len = n + 1
      /\ \A i \in 0..(AllocSize(a) - 1) : e.slots[i] = a.slots[i]
  BY <1>1, SetLengthKeeps
<1> HIDE DEF e
<1>3. n < e.len
  BY <1>1, <1>2
<1>4. /\ ExistReplace(e, n, x) \in Arrays(S) /\ ExistReplace(e, n, x).len = e.len
      /\ \A i \in 0..(e.len - 1) :
           ExistReplace(e, n, x).slots[i] = IF i = n THEN x ELSE e.slots[i]
  BY <1>1, <1>2, <1>3, ExistReplaceKeeps
<1>5. ArrayAdd(a, x) = ExistReplace(e, n, x)
  BY DEF ArrayAdd, e, n
<1>6. /\ ExistReplace(e, n, x).len = n + 1 /\ ExistReplace(e, n, x).slots[n] = x
      /\ \A i \in 0..(n - 1) : ExistReplace(e, n, x).slots[i] = a.slots[i]
  BY <1>1, <1>2, <1>4
<1> QED BY <1>4, <1>5, <1>6 DEF n

\* r_array_replace, which behind the end inserts, and leaves a gap.
LEMMA ArrayReplaceKeeps ==
  ASSUME NEW S, Zero \in S, NEW a \in Arrays(S), NEW x \in S, NEW index \in Nat
  PROVE  /\ ArrayReplace(a, index, x) \in Arrays(S)
         /\ ArrayReplace(a, index, x).len = IF index < a.len THEN a.len ELSE index + 1
         /\ ArrayReplace(a, index, x).slots[index] = x
         /\ \A i \in 0..(a.len - 1) :
              i # index => ArrayReplace(a, index, x).slots[i] = a.slots[i]
<1> DEFINE n == a.len
           d == ArrayReplace(a, index, x)
<1>1. n \in Nat /\ AllocSize(a) \in Nat /\ n <= AllocSize(a)
  BY ArrayRoom
<1>2. CASE index < n
  <2>1. d = ExistReplace(a, index, x)
    BY <1>1, <1>2 DEF ArrayReplace
  <2>2. /\ ExistReplace(a, index, x) \in Arrays(S) /\ ExistReplace(a, index, x).len = a.len
        /\ \A i \in 0..(a.len - 1) :
             ExistReplace(a, index, x).slots[i] = IF i = index THEN x ELSE a.slots[i]
    BY <1>2, ExistReplaceKeeps
  <2> HIDE DEF d
  <2>3. d \in Arrays(S) /\ d.len = n /\ d.slots[index] = x
        /\ \A i \in 0..(n - 1) : i # index => d.slots[i] = a.slots[i]
    BY <1>1, <1>2, <2>1, <2>2
  <2> QED BY <1>2, <2>3 DEF d
<1>3. CASE ~(index < n)
  <2> DEFINE r == CheckResize(a, index + 1)
             e == SetLength(r, index + 1)
  <2>1. index + 1 \in Nat /\ n <= index
    BY <1>1, <1>3
  <2>2. /\ r \in Arrays(S) /\ r.len = n /\ AllocSize(a) <= AllocSize(r)
        /\ \A i \in 0..(AllocSize(a) - 1) : r.slots[i] = a.slots[i]
    <3> HIDE DEF e, d
    <3> QED BY <2>1, CheckResizeKeeps
  <2>3. d = ExistReplace(e, index, x)
    BY <1>1, <2>1, <2>2 DEF ArrayReplace, ArrayInsert
  <2> HIDE DEF r, d
  <2>4. AllocSize(r) \in Nat
    BY <2>2, ArrayRoom
  <2>5. /\ e \in Arrays(S) /\ e.len = index + 1
        /\ \A i \in 0..(AllocSize(r) - 1) : e.slots[i] = r.slots[i]
    BY <2>1, <2>2, SetLengthKeeps
  <2> HIDE DEF e
  <2>6. index < e.len
    BY <2>5
  <2>7. /\ ExistReplace(e, index, x) \in Arrays(S) /\ ExistReplace(e, index, x).len = e.len
        /\ \A i \in 0..(e.len - 1) :
             ExistReplace(e, index, x).slots[i] = IF i = index THEN x ELSE e.slots[i]
    BY <2>5, <2>6, ExistReplaceKeeps
  <2>8. d \in Arrays(S) /\ d.len = index + 1 /\ d.slots[index] = x
        /\ \A i \in 0..(n - 1) : d.slots[i] = a.slots[i]
    BY <1>1, <2>1, <2>2, <2>3, <2>4, <2>5, <2>7
  <2> QED BY <1>3, <2>8 DEF d
<1> QED BY <1>2, <1>3

LEMMA EmptyArray ==
  ASSUME NEW S, Zero \in S
  PROVE  ArrayCreate \in Arrays(S) /\ ArrayCreate.len = 0
<1>1. /\ ArrayCreate.slots = Zeros(2) /\ ArrayCreate.len = 0
      /\ Zeros(2) \in [0..(2 - 1) -> S]
  BY DEF ArrayCreate, Zeros
<1>2. ArrayCreate \in [slots : UNION {[0..(n - 1) -> S] : n \in Nat}, len : Nat]
  <2>1. Zeros(2) \in UNION {[0..(n - 1) -> S] : n \in Nat}
    BY <1>1
  <2> QED BY <2>1 DEF ArrayCreate
<1> QED BY <1>1, <1>2, ArrayMade

-----------------------------------------------------------------------------
(* The whole memory of an array: what is in its slots, and zero in those   *)
(* it does not have yet.                                                   *)

Slot(a, i) == IF i < AllocSize(a) THEN a.slots[i] ELSE Zero

LEMMA SlotIs ==
  ASSUME NEW S, Zero \in S, NEW a \in Arrays(S), NEW i \in Nat
  PROVE  /\ Slot(a, i) \in S
         /\ i < a.len => Slot(a, i) = a.slots[i]
         /\ i \in DOMAIN a.slots => Slot(a, i) = a.slots[i]
<1> DEFINE k == AllocSize(a)
<1>1. a.slots \in [0..(k - 1) -> S] /\ k \in Nat /\ a.len \in Nat /\ a.len <= k
  BY ArrayRoom
<1> HIDE DEF k
<1>2. Slot(a, i) = IF i < k THEN a.slots[i] ELSE Zero
  BY DEF Slot, k
<1> QED BY <1>1, <1>2

LEMMA CheckResizeSlots ==
  ASSUME NEW S, Zero \in S, NEW a \in Arrays(S), NEW len \in Nat, NEW i \in Nat
  PROVE  Slot(CheckResize(a, len), i) = Slot(a, i)
<1> DEFINE k == AllocSize(a)
           m == Grown(k, len)
           d == CheckResize(a, len)
<1>1. k \in Nat
  BY ArrayRoom
<1>2. m \in Nat /\ k <= m
  <2> HIDE DEF k
  <2> QED BY <1>1, GrownEnough
<1>3. d.slots = [j \in 0..(m - 1) |-> IF j < k THEN a.slots[j] ELSE Zero]
  BY DEF CheckResize, Arrays
<1>4. d \in Arrays(S)
  <2> HIDE DEF k, m
  <2> QED BY CheckResizeKeeps
<1>5. AllocSize(d) = m
  <2>1. DOMAIN d.slots = 0..(m - 1)
    BY <1>3
  <2> HIDE DEF d, m
  <2>2. Cardinality(0..(m - 1)) = m
    BY <1>2, FS_Interval
  <2> QED BY <2>1, <2>2 DEF AllocSize
<1> HIDE DEF d, k, m
<1>6. Slot(a, i) = IF i < k THEN a.slots[i] ELSE Zero
  BY DEF Slot, k
<1>7. Slot(d, i) = IF i < m THEN d.slots[i] ELSE Zero
  BY <1>5 DEF Slot
<1>8. i < m => d.slots[i] = IF i < k THEN a.slots[i] ELSE Zero
  BY <1>2, <1>3
<1> QED BY <1>1, <1>2, <1>6, <1>7, <1>8 DEF d

LEMMA SetLengthSlots ==
  ASSUME NEW S, Zero \in S, NEW a \in Arrays(S), NEW len \in Nat, NEW i \in Nat
  PROVE  Slot(SetLength(a, len), i) = Slot(a, i)
<1> DEFINE e == CheckResize(a, len)
<1>1. e \in Arrays(S)
  BY CheckResizeKeeps
<1>2. SetLength(a, len) = [e EXCEPT !.len = len]
  BY DEF SetLength
<1> HIDE DEF e
<1>3. SetLength(a, len).slots = e.slots
  BY <1>1, <1>2 DEF Arrays
<1>4. Slot(SetLength(a, len), i) = Slot(e, i)
  BY <1>3 DEF Slot, AllocSize
<1> QED BY <1>4, CheckResizeSlots DEF e

LEMMA ExistReplaceSlots ==
  ASSUME NEW S, Zero \in S, NEW a \in Arrays(S), NEW x \in S,
         NEW index \in Nat, index < a.len, NEW i \in Nat
  PROVE  Slot(ExistReplace(a, index, x), i) = IF i = index THEN x ELSE Slot(a, i)
<1> DEFINE new == [a.slots EXCEPT ![index] = x]
           d == ExistReplace(a, index, x)
           k == AllocSize(a)
<1>1. a.slots \in [0..(k - 1) -> S] /\ k \in Nat /\ a.len \in Nat /\ a.len <= k
  BY ArrayRoom
<1>2. d.slots = new
  BY DEF ExistReplace, Arrays
<1>3. AllocSize(d) = k
  BY <1>2 DEF AllocSize
<1> HIDE DEF k, d
<1>4. Slot(a, i) = IF i < k THEN a.slots[i] ELSE Zero
  BY DEF Slot, k
<1>5. Slot(d, i) = IF i < k THEN d.slots[i] ELSE Zero
  BY <1>3 DEF Slot
<1>6. i < k => new[i] = IF i = index THEN x ELSE a.slots[i]
  BY <1>1
<1> HIDE DEF new
<1> QED BY <1>1, <1>2, <1>4, <1>5, <1>6 DEF d

\* What is behind the place moves up by one, and the gap in front of a place
\* behind the end is what it was.
Inserted(a, index, x, i) ==
  IF i = index THEN x
  ELSE IF index < i /\ i <= a.len THEN Slot(a, i - 1) ELSE Slot(a, i)

LEMMA ArrayInsertSlots ==
  ASSUME NEW S, Zero \in S, NEW a \in Arrays(S), NEW x \in S, NEW index \in Nat
  PROVE  /\ ArrayInsert(a, index, x) \in Arrays(S)
         /\ ArrayInsert(a, index, x).len = IF index < a.len THEN a.len + 1 ELSE index + 1
         /\ \A i \in Nat : Slot(ArrayInsert(a, index, x), i) = Inserted(a, index, x, i)
<1> DEFINE n == a.len
           r == CheckResize(a, index + 1)
           d == ArrayInsert(a, index, x)
<1>1. n \in Nat /\ index + 1 \in Nat /\ n + 1 \in Nat
  BY ArrayRoom
<1>2. r \in Arrays(S) /\ r.len = n /\ \A i \in Nat : Slot(r, i) = Slot(a, i)
  <2> HIDE DEF r
  <2> QED BY <1>1, CheckResizeKeeps, CheckResizeSlots DEF r
<1>3. CASE index < n
  <2> DEFINE e == SetLength(r, r.len + 1)
             moved == [i \in DOMAIN e.slots |->
                         IF i \in (index + 1)..(r.len) THEN e.slots[i - 1] ELSE e.slots[i]]
             m == [e EXCEPT !.slots = moved]
             k == AllocSize(e)
  <2>1. d = ExistReplace(m, index, x)
    BY <1>2, <1>3 DEF ArrayInsert
  <2> HIDE DEF r, d
  <2>2. e \in Arrays(S) /\ e.len = n + 1 /\ \A i \in Nat : Slot(e, i) = Slot(r, i)
    <3>1. r.len + 1 \in Nat /\ r.len + 1 = n + 1
      BY <1>1, <1>2
    <3> QED BY <1>2, <3>1, SetLengthKeeps, SetLengthSlots
  <2> HIDE DEF e
  <2>3. e.slots \in [0..(k - 1) -> S] /\ k \in Nat /\ n + 1 <= k
    BY <2>2, ArrayRoom
  <2>4. \A i \in Nat : Slot(a, i) = IF i < k THEN e.slots[i] ELSE Zero
    BY <1>2, <2>2 DEF Slot
  <2> HIDE DEF k
  <2>5. moved = [i \in 0..(k - 1) |->
                   IF i \in (index + 1)..n THEN e.slots[i - 1] ELSE e.slots[i]]
    BY <1>2, <2>3
  <2> HIDE DEF moved
  <2>6. moved \in [0..(k - 1) -> S]
    <3>1. \A i \in 0..(k - 1) : i \in (index + 1)..n => i - 1 \in 0..(k - 1)
      BY <1>1, <2>3
    <3> QED BY <2>3, <2>5, <3>1
  <2>7. e \in [slots : UNION {[0..(j - 1) -> S] : j \in Nat}, len : Nat]
    BY <2>2 DEF Arrays
  <2>8. moved \in UNION {[0..(j - 1) -> S] : j \in Nat}
    BY <2>3, <2>6
  <2>9. /\ m.slots = moved /\ m.len = n + 1
        /\ m \in [slots : UNION {[0..(j - 1) -> S] : j \in Nat}, len : Nat]
    BY <2>2, <2>7, <2>8
  <2> HIDE DEF m
  <2>10. m \in Arrays(S) /\ AllocSize(m) = k
    <3>1. n + 1 \in 0..k /\ k \in Nat
      BY <1>1, <2>3
    <3> QED BY <2>6, <2>9, <3>1, ArrayMade
  <2>11. \A i \in Nat : Slot(m, i) = IF index < i /\ i <= n THEN Slot(a, i - 1) ELSE Slot(a, i)
    <3> SUFFICES ASSUME NEW i \in Nat
                 PROVE  Slot(m, i) = IF index < i /\ i <= n THEN Slot(a, i - 1) ELSE Slot(a, i)
      OBVIOUS
    <3>1. Slot(m, i) = IF i < k THEN moved[i] ELSE Zero
      BY <2>9, <2>10 DEF Slot
    <3>2. CASE index < i /\ i <= n
      <4>1. i - 1 \in Nat /\ i < k /\ i - 1 < k /\ i \in 0..(k - 1) /\ i \in (index + 1)..n
        BY <1>1, <2>3, <3>2
      <4>2. Slot(a, i - 1) = e.slots[i - 1] /\ moved[i] = e.slots[i - 1]
        BY <2>4, <2>5, <4>1
      <4> QED BY <3>1, <3>2, <4>1, <4>2
    <3>3. CASE ~(index < i /\ i <= n)
      <4>1. i < k => moved[i] = e.slots[i]
        BY <1>1, <2>3, <2>5, <3>3
      <4> QED BY <2>4, <3>1, <3>3, <4>1
    <3> QED BY <3>2, <3>3
  <2>12. index < m.len
    BY <1>1, <1>3, <2>9
  <2>13. d \in Arrays(S) /\ d.len = n + 1
    BY <2>1, <2>9, <2>10, <2>12, ExistReplaceKeeps
  <2>14. \A i \in Nat : Slot(d, i) = IF i = index THEN x ELSE Slot(m, i)
    BY <2>1, <2>10, <2>12, ExistReplaceSlots
  <2>15. \A i \in Nat : Slot(d, i) = Inserted(a, index, x, i)
    BY <2>11, <2>14 DEF Inserted
  <2> QED BY <1>3, <2>13, <2>15 DEF d
<1>4. CASE ~(index < n)
  <2> DEFINE e == SetLength(r, index + 1)
  <2>1. d = ExistReplace(e, index, x)
    BY <1>2, <1>4 DEF ArrayInsert
  <2> HIDE DEF r, d
  <2>2. e \in Arrays(S) /\ e.len = index + 1 /\ \A i \in Nat : Slot(e, i) = Slot(r, i)
    BY <1>1, <1>2, SetLengthKeeps, SetLengthSlots
  <2> HIDE DEF e
  <2>3. index < e.len
    BY <2>2
  <2>4. d \in Arrays(S) /\ d.len = index + 1
    BY <2>1, <2>2, <2>3, ExistReplaceKeeps
  <2>5. \A i \in Nat : Slot(d, i) = IF i = index THEN x ELSE Slot(e, i)
    BY <2>1, <2>2, <2>3, ExistReplaceSlots
  <2>6. \A i \in Nat : Slot(d, i) = Inserted(a, index, x, i)
    BY <1>1, <1>2, <1>4, <2>2, <2>5 DEF Inserted
  <2> QED BY <1>4, <2>4, <2>6 DEF d
<1> QED BY <1>3, <1>4

LEMMA ArrayReplaceSlots ==
  ASSUME NEW S, Zero \in S, NEW a \in Arrays(S), NEW x \in S, NEW index \in Nat, NEW i \in Nat
  PROVE  Slot(ArrayReplace(a, index, x), i) = IF i = index THEN x ELSE Slot(a, i)
<1>1. a.len \in Nat
  BY ArrayRoom
<1>2. CASE index < a.len
  <2>1. ArrayReplace(a, index, x) = ExistReplace(a, index, x)
    BY <1>1, <1>2 DEF ArrayReplace
  <2> QED BY <1>2, <2>1, ExistReplaceSlots
<1>3. CASE ~(index < a.len)
  <2>1. ArrayReplace(a, index, x) = ArrayInsert(a, index, x)
    BY <1>1, <1>3 DEF ArrayReplace
  <2>2. Slot(ArrayInsert(a, index, x), i) = Inserted(a, index, x, i)
    BY ArrayInsertSlots
  <2> QED BY <1>1, <1>3, <2>1, <2>2 DEF Inserted
<1> QED BY <1>2, <1>3

LEMMA ArrayAddSlots ==
  ASSUME NEW S, Zero \in S, NEW a \in Arrays(S), NEW x \in S, NEW i \in Nat
  PROVE  Slot(ArrayAdd(a, x), i) = IF i = a.len THEN x ELSE Slot(a, i)
<1> DEFINE n == a.len
           e == SetLength(a, n + 1)
<1>1. n \in Nat /\ n + 1 \in Nat
  BY ArrayRoom
<1> HIDE DEF n
<1>2. e \in Arrays(S) /\ e.len = n + 1 /\ Slot(e, i) = Slot(a, i)
  BY <1>1, SetLengthKeeps, SetLengthSlots
<1>3. ArrayAdd(a, x) = ExistReplace(e, n, x)
  BY DEF ArrayAdd, n
<1> HIDE DEF e
<1>4. n < e.len
  BY <1>1, <1>2
<1> QED BY <1>1, <1>2, <1>3, <1>4, ExistReplaceSlots DEF n

LEMMA RemoveLastSlots ==
  ASSUME NEW S, Zero \in S, NEW a \in Arrays(S)
  PROVE  /\ RemoveLast(a) \in Arrays(S)
         /\ RemoveLast(a).len = IF a.len > 0 THEN a.len - 1 ELSE 0
         /\ \A i \in Nat : Slot(RemoveLast(a), i) = Slot(a, i)
<1>1. a.len \in Nat
  BY ArrayRoom
<1>2. CASE a.len > 0
  <2>1. a.len - 1 \in Nat /\ RemoveLast(a) = SetLength(a, a.len - 1)
    BY <1>1, <1>2 DEF RemoveLast
  <2> QED BY <1>2, <2>1, SetLengthKeeps, SetLengthSlots
<1>3. CASE ~(a.len > 0)
  BY <1>1, <1>3 DEF RemoveLast
<1> QED BY <1>2, <1>3

\* r_array_move reads no slot that it has written: it starts at the end that is
\* not overwritten.
LEMMA ArrayMoveSlots ==
  ASSUME NEW S, Zero \in S, NEW a \in Arrays(S), NEW dst \in Nat, NEW src \in Nat,
         NEW size \in Nat, dst + size <= a.len, src + size <= a.len
  PROVE  /\ ArrayMove(a, dst, src, size) \in Arrays(S)
         /\ ArrayMove(a, dst, src, size).len = a.len
         /\ \A i \in Nat : Slot(ArrayMove(a, dst, src, size), i) =
                             IF i \in dst..(dst + size - 1) THEN Slot(a, i - dst + src)
                             ELSE Slot(a, i)
<1>1. a.len \in Nat /\ ~(dst + size > a.len)
  BY ArrayRoom
<1>2. CASE dst = src
  BY <1>1, <1>2 DEF ArrayMove
<1>3. CASE dst # src
  <2> DEFINE place(n) == IF dst < src THEN n - 1 ELSE size - n
             T == {b \in Arrays(S) : b.len = a.len}
             F == [n \in 1..size |->
                     [b \in T |-> ArrayReplace(b, dst + place(n), b.slots[src + place(n)])]]
             moved[n \in 0..size] ==
               IF n = 0 THEN a
               ELSE ArrayReplace(moved[n - 1], dst + place(n), moved[n - 1].slots[src + place(n)])
  <2>1. \A n \in 1..size :
          /\ place(n) \in 0..(size - 1) /\ dst + place(n) \in Nat /\ src + place(n) \in Nat
          /\ dst + place(n) < a.len /\ src + place(n) < a.len
    BY <1>1
  <2>2. ArrayMove(a, dst, src, size) = moved[size]
    BY <1>1, <1>3 DEF ArrayMove
  <2>3. ASSUME NEW n \in 1..size, NEW b \in T
        PROVE  /\ ArrayReplace(b, dst + place(n), b.slots[src + place(n)]) \in T
               /\ \A i \in Nat :
                    Slot(ArrayReplace(b, dst + place(n), b.slots[src + place(n)]), i)
                      = IF i = dst + place(n) THEN Slot(b, src + place(n)) ELSE Slot(b, i)
    <3> DEFINE to == dst + place(n)
               from == src + place(n)
               x == b.slots[from]
    <3>1. to \in Nat /\ from \in Nat /\ to < a.len /\ from < a.len
      BY <2>1
    <3>2. b \in Arrays(S) /\ b.len = a.len
      OBVIOUS
    <3> HIDE DEF to, from, T, F, moved
    <3>3. x \in S /\ x = Slot(b, from)
      BY <3>1, <3>2, SlotIs
    <3> HIDE DEF x
    <3>4. ArrayReplace(b, to, x) \in Arrays(S) /\ ArrayReplace(b, to, x).len = a.len
      <4>1. ArrayReplace(b, to, x).len = IF to < b.len THEN b.len ELSE to + 1
        BY <3>1, <3>2, <3>3, ArrayReplaceKeeps
      <4>2. ArrayReplace(b, to, x) \in Arrays(S)
        BY <3>1, <3>2, <3>3, ArrayReplaceKeeps
      <4> QED BY <3>1, <3>2, <4>1, <4>2
    <3>5. \A i \in Nat : Slot(ArrayReplace(b, to, x), i) = IF i = to THEN x ELSE Slot(b, i)
      BY <3>1, <3>2, <3>3, ArrayReplaceSlots
    <3> QED BY <3>3, <3>4, <3>5 DEF to, from, x, T
  <2>4. F \in [1..size -> [T -> T]]
    <3> HIDE DEF T, moved
    <3> QED BY <2>3
  <2>5. PICK f \in [0..size -> T] : f[0] = a /\ \A n \in 1..size : f[n] = F[n][f[n - 1]]
    <3>1. a \in T
      OBVIOUS
    <3> HIDE DEF F, T, moved
    <3>2. \E f \in [0..size -> T] : Follows(f, size, a, F)
      BY <2>4, <3>1, Iterates
    <3> QED BY <3>2 DEF Follows
  <2>6. f = [n \in 0..size |->
               IF n = 0 THEN a
               ELSE ArrayReplace(f[n - 1], dst + place(n), f[n - 1].slots[src + place(n)])]
    <3>1. \A n \in 1..size : n - 1 \in 0..size /\ f[n - 1] \in T
      <4> HIDE DEF T, F, moved
      <4> QED OBVIOUS
    <3>2. \A n \in 1..size :
            f[n] = ArrayReplace(f[n - 1], dst + place(n), f[n - 1].slots[src + place(n)])
      <4> HIDE DEF T, moved
      <4> QED BY <2>5, <3>1
    <3>3. \A n \in 0..size : n = 0 \/ n \in 1..size
      OBVIOUS
    <3> HIDE DEF F, T, moved, place
    <3> QED BY <2>5, <3>2, <3>3
  <2>7. moved = [n \in 0..size |->
                   IF n = 0 THEN a
                   ELSE ArrayReplace(moved[n - 1], dst + place(n),
                                     moved[n - 1].slots[src + place(n)])]
    <3> HIDE DEF F, T, place
    <3> QED BY <2>6
  <2> HIDE DEF moved, F
  <2> DEFINE Done(n, i) == /\ i \in dst..(dst + size - 1)
                           /\ IF dst < src THEN i < dst + n ELSE i >= dst + size - n
             Sofar(n) == /\ moved[n] \in T
                         /\ \A i \in Nat : Slot(moved[n], i) =
                              IF Done(n, i) THEN Slot(a, i - dst + src) ELSE Slot(a, i)
             P == {n \in 0..size : Sofar(n)}
  <2>8. 0 \in P
    <3>1. moved[0] = a
      BY <2>7
    <3>2. \A i \in Nat : ~Done(0, i)
      OBVIOUS
    <3> HIDE DEF Done
    <3> QED BY <3>1, <3>2
  <2>9. ASSUME NEW n \in 1..size, n - 1 \in P
        PROVE  n \in P
    <3> DEFINE k == n - 1
               b == moved[k]
               d == moved[n]
               p == place(n)
    <3>1. b \in T /\ \A i \in Nat : Slot(b, i) =
                        IF Done(k, i) THEN Slot(a, i - dst + src) ELSE Slot(a, i)
      BY <2>9
    <3>2. d = ArrayReplace(b, dst + p, b.slots[src + p])
      <4>1. n \in 0..size /\ n # 0
        OBVIOUS
      <4> HIDE DEF T, Done
      <4> QED BY <2>7, <4>1
    <3> HIDE DEF b, d, T, Done
    <3>3. d \in T /\ \A i \in Nat : Slot(d, i) = IF i = dst + p THEN Slot(b, src + p) ELSE Slot(b, i)
      BY <2>3, <3>1, <3>2
    <3>4. ~Done(k, src + p)
      BY <1>3 DEF Done
    <3>5. p \in Nat /\ src + p \in Nat
      BY <2>1
    <3>6. Slot(b, src + p) = Slot(a, src + p)
      BY <3>1, <3>4, <3>5
    <3>7. ASSUME NEW i \in Nat, i # dst + p
          PROVE  Done(n, i) <=> Done(k, i)
      BY <1>3, <3>7 DEF Done
    <3>8. Done(n, dst + p)
      BY <2>1 DEF Done
    <3> HIDE DEF p, k
    <3>9. \A i \in Nat : Slot(d, i) =
            IF Done(n, i) THEN Slot(a, i - dst + src) ELSE Slot(a, i)
      <4> SUFFICES ASSUME NEW i \in Nat
                   PROVE  Slot(d, i) =
                            IF Done(n, i) THEN Slot(a, i - dst + src) ELSE Slot(a, i)
        OBVIOUS
      <4>1. CASE i = dst + p
        <5>1. Done(n, i)
          BY <3>8, <4>1, Zenon
        <5>2. i - dst + src = src + p
          BY <3>5, <4>1
        <5>3. Slot(d, i) = Slot(a, src + p)
          BY <3>3, <3>6, <4>1
        <5> QED BY <5>1, <5>2, <5>3, Zenon
      <4>2. CASE i # dst + p
        BY <3>1, <3>3, <3>7, <4>2
      <4> QED BY <4>1, <4>2
    <3> QED BY <3>3, <3>9 DEF d
  <2>10. P = 0..size
    <3>1. P \in SUBSET (0..size)
      OBVIOUS
    <3> HIDE DEF P
    <3> QED BY <2>8, <2>9, <3>1, HoldsUpto
  <2>11. size \in P
    <3> HIDE DEF P
    <3> QED BY <2>10
  <2>12. Sofar(size)
    BY <2>11
  <2>13. \A i \in Nat : Done(size, i) <=> i \in dst..(dst + size - 1)
    OBVIOUS
  <2> HIDE DEF Done
  <2> QED BY <2>2, <2>12, <2>13
<1> QED BY <1>2, <1>3

LEMMA ArrayDeleteSlots ==
  ASSUME NEW S, Zero \in S, NEW a \in Arrays(S), NEW index \in Nat, index < a.len
  PROVE  /\ ArrayDelete(a, index) \in Arrays(S)
         /\ ArrayDelete(a, index).len = a.len - 1
         /\ \A i \in Nat : Slot(ArrayDelete(a, index), i) =
                             IF index <= i /\ i < a.len - 1 THEN Slot(a, i + 1) ELSE Slot(a, i)
<1> DEFINE n == a.len
           size == n - (index + 1)
           m == ArrayMove(a, index, index + 1, size)
           d == ArrayDelete(a, index)
<1>1. n \in Nat
  BY ArrayRoom
<1>2. d = RemoveLast(m)
  BY <1>1 DEF ArrayDelete
<1> HIDE DEF n
<1>3. size \in Nat /\ index + 1 \in Nat /\ index + size <= n /\ index + 1 + size <= n
  BY <1>1 DEF n
<1>4. index + size - 1 = n - 2
  BY <1>1
<1> HIDE DEF size, d
<1>5. m \in Arrays(S) /\ m.len = n
  BY <1>3, ArrayMoveSlots DEF n
<1>6. \A i \in Nat : Slot(m, i) = IF i \in index..(index + size - 1)
                                    THEN Slot(a, i - index + (index + 1)) ELSE Slot(a, i)
  <2> DEFINE src == index + 1
  <2>1. src \in Nat /\ index + size <= a.len /\ src + size <= a.len
    BY <1>3 DEF n
  <2> HIDE DEF src
  <2>2. \A i \in Nat : Slot(ArrayMove(a, index, src, size), i)
                         = IF i \in index..(index + size - 1) THEN Slot(a, i - index + src)
                           ELSE Slot(a, i)
    BY <1>3, <2>1, ArrayMoveSlots
  <2> QED BY <2>2 DEF src
<1> HIDE DEF m
<1>7. /\ d \in Arrays(S) /\ d.len = IF m.len > 0 THEN m.len - 1 ELSE 0
      /\ \A i \in Nat : Slot(d, i) = Slot(m, i)
  BY <1>2, <1>5, RemoveLastSlots
<1>8. d.len = n - 1
  BY <1>1, <1>5, <1>7 DEF n
<1>9. \A i \in Nat : i - index + (index + 1) = i + 1
  OBVIOUS
<1>10. \A i \in Nat : i \in index..(index + size - 1) <=> index <= i /\ i < n - 1
  BY <1>1, <1>4
<1>11. \A i \in Nat : Slot(d, i) = IF index <= i /\ i < n - 1 THEN Slot(a, i + 1) ELSE Slot(a, i)
  BY <1>6, <1>7, <1>9, <1>10
<1> QED BY <1>7, <1>8, <1>11 DEF d, n

\* The memory of a copy is its own, and zero behind what was copied.
LEMMA EmptySlots ==
  ASSUME NEW i \in Nat
  PROVE  Slot(ArrayCreate, i) = Zero
<1>1. ArrayCreate.slots = [j \in 0..(2 - 1) |-> Zero]
  BY DEF ArrayCreate, Zeros
<1>2. AllocSize(ArrayCreate) = 2
  <2>1. DOMAIN ArrayCreate.slots = 0..(2 - 1)
    BY <1>1
  <2>2. \A k \in Nat : Cardinality(0..(k - 1)) = k
    BY FS_Interval
  <2>3. 2 \in Nat
    OBVIOUS
  <2>4. Cardinality(0..(2 - 1)) = 2
    BY ONLY <2>2, <2>3, Zenon
  <2> QED BY <2>1, <2>4 DEF AllocSize
<1>3. Slot(ArrayCreate, i) = IF i < 2 THEN ArrayCreate.slots[i] ELSE Zero
  BY <1>2 DEF Slot
<1>4. i < 2 => ArrayCreate.slots[i] = Zero
  BY <1>1
<1> QED BY <1>3, <1>4

\* r_array_copy: element by element, into an array that grows.
LEMMA ArrayCopyKeeps ==
  ASSUME NEW S, Zero \in S, NEW a \in Arrays(S)
  PROVE  /\ ArrayCopy(a) \in Arrays(S)
         /\ ArrayCopy(a).len = a.len
         /\ \A i \in 0..(a.len - 1) : ArrayCopy(a).slots[i] = a.slots[i]
         /\ \A i \in Nat : Slot(ArrayCopy(a), i) = IF i < a.len THEN Slot(a, i) ELSE Zero
<1> DEFINE N == a.len
           F == [i \in 1..N |-> [b \in Arrays(S) |-> ArrayReplace(b, i - 1, a.slots[i - 1])]]
           copied[n \in 0..N] ==
             IF n = 0 THEN ArrayCreate ELSE ArrayReplace(copied[n - 1], n - 1, a.slots[n - 1])
<1>1. N \in Nat /\ \A i \in 1..N : i - 1 \in Nat /\ a.slots[i - 1] \in S
  BY ArrayRoom
<1> HIDE DEF N
<1>2. F \in [1..N -> [Arrays(S) -> Arrays(S)]]
  <2>1. ASSUME NEW i \in 1..N, NEW b \in Arrays(S)
        PROVE  ArrayReplace(b, i - 1, a.slots[i - 1]) \in Arrays(S)
    BY <1>1, ArrayReplaceKeeps
  <2> QED BY <2>1
<1>3. PICK f \in [0..N -> Arrays(S)] :
        f[0] = ArrayCreate /\ \A i \in 1..N : f[i] = F[i][f[i - 1]]
  <2> DEFINE T == Arrays(S)
             start == ArrayCreate
  <2>1. F \in [1..N -> [T -> T]]
    BY <1>2
  <2>2. start \in T
    BY EmptyArray
  <2>3. N \in Nat
    BY <1>1
  <2> HIDE DEF F, T, start, copied
  <2>4. \E f \in [0..N -> T] : Follows(f, N, start, F)
    BY <2>1, <2>2, <2>3, Iterates
  <2> QED BY <2>4 DEF T, start, Follows
<1>4. f = [n \in 0..N |-> IF n = 0 THEN ArrayCreate
                           ELSE ArrayReplace(f[n - 1], n - 1, a.slots[n - 1])]
  <2>1. \A i \in 1..N : i - 1 \in 0..N /\ f[i - 1] \in Arrays(S)
    BY <1>1
  <2>2. \A i \in 1..N : f[i] = ArrayReplace(f[i - 1], i - 1, a.slots[i - 1])
    BY <1>3, <2>1
  <2>3. \A n \in 0..N : n = 0 \/ n \in 1..N
    BY <1>1
  <2> HIDE DEF F
  <2> QED BY <1>3, <2>2, <2>3
<1>5. copied = [n \in 0..N |-> IF n = 0 THEN ArrayCreate
                                ELSE ArrayReplace(copied[n - 1], n - 1, a.slots[n - 1])]
  <2> HIDE DEF F
  <2> QED BY <1>4
<1>6. ArrayCopy(a) = copied[N]
  BY DEF ArrayCopy, N
<1> HIDE DEF copied, F
<1> DEFINE Copied(n) == /\ copied[n] \in Arrays(S) /\ copied[n].len = n
                        /\ \A i \in Nat :
                             Slot(copied[n], i) = IF i < n THEN Slot(a, i) ELSE Zero
           P == {n \in 0..N : Copied(n)}
<1>7. 0 \in P
  <2>1. copied[0] = ArrayCreate
    BY <1>1, <1>5
  <2>2. ArrayCreate \in Arrays(S) /\ ArrayCreate.len = 0
    BY EmptyArray
  <2>3. \A i \in Nat : Slot(ArrayCreate, i) = Zero /\ ~(i < 0)
    BY EmptySlots
  <2> QED BY <1>1, <2>1, <2>2, <2>3
<1>8. ASSUME NEW n \in 1..N, n - 1 \in P
      PROVE  n \in P
  <2> DEFINE k == n - 1
             x == a.slots[k]
             b == copied[k]
             d == copied[n]
  <2>1. k \in Nat /\ n = k + 1 /\ k < N
    BY <1>1
  <2>2. x \in S
    BY <1>1
  <2>3. /\ b \in Arrays(S) /\ b.len = k
        /\ \A i \in Nat : Slot(b, i) = IF i < k THEN Slot(a, i) ELSE Zero
    BY <1>8
  <2>4. d = ArrayReplace(b, k, x)
    BY <1>1, <1>5
  <2> HIDE DEF k, b, d
  <2>5. x = Slot(a, k)
    BY <2>1, SlotIs DEF N
  <2> HIDE DEF x
  <2>6. d \in Arrays(S) /\ d.len = k + 1
    <3>1. /\ ArrayReplace(b, k, x) \in Arrays(S)
          /\ ArrayReplace(b, k, x).len = IF k < b.len THEN b.len ELSE k + 1
      BY <2>1, <2>2, <2>3, ArrayReplaceKeeps
    <3> QED BY <2>1, <2>3, <2>4, <3>1
  <2>7. \A i \in Nat : Slot(ArrayReplace(b, k, x), i) = IF i = k THEN x ELSE Slot(b, i)
    BY <2>1, <2>2, <2>3, ArrayReplaceSlots
  <2>8. ASSUME NEW i \in Nat
        PROVE  Slot(d, i) = IF i < n THEN Slot(a, i) ELSE Zero
    <3>1. CASE i = k
      BY <2>1, <2>4, <2>5, <2>7, <3>1
    <3>2. CASE i # k
      BY <2>1, <2>3, <2>4, <2>7, <3>2
    <3> QED BY <3>1, <3>2
  <2> QED BY <2>1, <2>6, <2>8 DEF d
<1>9. P = 0..N
  <2>1. P \in SUBSET (0..N)
    OBVIOUS
  <2> HIDE DEF P
  <2> QED BY <1>1, <1>7, <1>8, <2>1, HoldsUpto
<1>10. N \in P
  <2> HIDE DEF P
  <2> QED BY <1>1, <1>9
<1>11. Copied(N)
  BY <1>10
<1>12. ASSUME NEW i \in 0..(N - 1)
       PROVE  copied[N].slots[i] = a.slots[i]
  <2>1. i \in Nat /\ i < N /\ i < copied[N].len
    BY <1>1, <1>11
  <2>2. Slot(a, i) = a.slots[i]
    BY <2>1, SlotIs DEF N
  <2>3. Slot(copied[N], i) = copied[N].slots[i]
    BY <1>11, <2>1, SlotIs
  <2> QED BY <1>11, <2>1, <2>2, <2>3
<1> QED BY <1>6, <1>11, <1>12 DEF N

-----------------------------------------------------------------------------
(* An array holds what was put into it.                                    *)

LEMMA InsertAtProperties ==
  ASSUME NEW S, NEW s \in Seq(S), NEW k \in 1..(Len(s) + 1), NEW e \in S
  PROVE  /\ InsertAt(s, k, e) \in Seq(S)
         /\ Len(InsertAt(s, k, e)) = Len(s) + 1
         /\ \A i \in 1..(Len(s) + 1) :
              InsertAt(s, k, e)[i] = IF i < k THEN s[i] ELSE IF i = k THEN e ELSE s[i - 1]
<1> DEFINE front == SubSeq(s, 1, k - 1)
           back == SubSeq(s, k, Len(s))
           first == front \o <<e>>
           t == InsertAt(s, k, e)
<1>1. Len(s) \in Nat /\ k \in Nat
  OBVIOUS
<1>2. front \in Seq(S) /\ Len(front) = k - 1 /\ \A i \in 1..(k - 1) : front[i] = s[i]
  OBVIOUS
<1>3. /\ back \in Seq(S) /\ Len(back) = Len(s) + 1 - k
      /\ \A i \in 1..(Len(s) + 1 - k) : back[i] = s[k + i - 1]
  OBVIOUS
<1>4. t = first \o back
  BY DEF InsertAt
<1> HIDE DEF front, back, t
<1>5. /\ first \in Seq(S) /\ Len(first) = k /\ first[k] = e
      /\ \A i \in 1..(k - 1) : first[i] = s[i]
  BY <1>1, <1>2
<1> HIDE DEF first
<1>6. /\ first \o back \in Seq(S) /\ Len(first \o back) = Len(s) + 1
      /\ \A i \in 1..(Len(s) + 1) :
           (first \o back)[i] = IF i <= k THEN first[i] ELSE back[i - k]
  BY <1>1, <1>3, <1>5, ConcatProperties
<1>7. ASSUME NEW i \in 1..(Len(s) + 1)
      PROVE  t[i] = IF i < k THEN s[i] ELSE IF i = k THEN e ELSE s[i - 1]
  <2>1. CASE i <= k
    BY <1>1, <1>4, <1>5, <1>6, <2>1
  <2>2. CASE ~(i <= k)
    <3>1. i - k \in 1..(Len(s) + 1 - k) /\ k + (i - k) - 1 = i - 1
      BY <1>1, <2>2
    <3>2. back[i - k] = s[i - 1]
      BY <1>3, <3>1
    <3> QED BY <1>1, <1>4, <1>6, <2>2, <3>2
  <2> QED BY <2>1, <2>2
<1> QED BY <1>4, <1>6, <1>7 DEF t

\* What is in memory, and what its user may know of it.
Memory == Elements \cup {Zero}
Known == Memory \cup {Unknown}

\* Slots, those behind the length included, are what the user knows them to be.
ArrayInv ==
  /\ array \in Arrays(Memory) /\ elements \in Seq(Known) /\ used \in Nat
  /\ array.len = Len(elements) /\ Len(elements) <= used
  /\ \A i \in 0..(Len(elements) - 1) :
       elements[i + 1] # Unknown => Slot(array, i) = elements[i + 1]
  /\ \A i \in Nat : i >= used => Slot(array, i) = Zero

LEMMA BecomesKeeps ==
  ASSUME ArrayInv, NEW new \in Arrays(Memory), NEW contents \in Seq(Known),
         new.len = Len(contents),
         \A i \in 0..(Len(contents) - 1) :
           contents[i + 1] # Unknown => Slot(new, i) = contents[i + 1],
         \A i \in Nat : i >= used /\ i >= Len(contents) => Slot(new, i) = Zero,
         Becomes(new, contents)
  PROVE  ArrayInv'
<1>1. array' = new /\ elements' = contents
  BY DEF Becomes
<1>2. used' \in Nat /\ used' >= used /\ used' >= Len(contents)
  BY DEF ArrayInv, Becomes
<1>3. \A i \in Nat : i >= used' => Slot(new, i) = Zero
  BY <1>2 DEF ArrayInv
<1> QED BY <1>1, <1>2, <1>3 DEF ArrayInv, Slot, AllocSize

LEMMA PaddedIs ==
  ASSUME ArrayInv, NEW n \in Nat
  PROVE  /\ Padded(n) \in Seq(Known)
         /\ Len(Padded(n)) = IF n > Len(elements) THEN n ELSE Len(elements)
         /\ \A i \in 1..Len(elements) : Padded(n)[i] = elements[i]
         /\ \A i \in 1..Len(Padded(n)) :
              Padded(n)[i] # Unknown => Slot(array, i - 1) = Padded(n)[i]
<1> DEFINE l == IF n > Len(elements) THEN n ELSE Len(elements)
           p == Padded(n)
<1>1. /\ elements \in Seq(Known) /\ Len(elements) \in Nat /\ used \in Nat /\ l \in Nat
      /\ Len(elements) <= l
  BY DEF ArrayInv
<1>2. p = [i \in 1..l |-> IF i <= Len(elements) THEN elements[i]
                          ELSE IF i > used THEN Zero ELSE Unknown]
  BY DEF Padded
<1> HIDE DEF p, l
<1>3. \A i \in 1..l : p[i] = IF i <= Len(elements) THEN elements[i]
                             ELSE IF i > used THEN Zero ELSE Unknown
  BY <1>2
<1>4. p \in Seq(Known) /\ Len(p) = l
  <2>1. \A i \in 1..l : p[i] \in Known
    BY <1>1, <1>3 DEF Known, Memory
  <2>2. p \in [1..l -> Known]
    BY <1>2, <2>1
  <2> QED BY <1>1, <2>2
<1>5. \A i \in 1..Len(elements) : p[i] = elements[i]
  BY <1>1, <1>3
<1>6. ASSUME NEW i \in 1..l, p[i] # Unknown
      PROVE  Slot(array, i - 1) = p[i]
  <2>1. CASE i <= Len(elements)
    <3>1. i - 1 \in 0..(Len(elements) - 1) /\ i - 1 + 1 = i
      BY <1>1, <2>1
    <3>2. elements[i - 1 + 1] # Unknown => Slot(array, i - 1) = elements[i - 1 + 1]
      BY <3>1 DEF ArrayInv
    <3> QED BY <1>3, <1>6, <2>1, <3>1, <3>2
  <2>2. CASE ~(i <= Len(elements))
    <3>1. i > used /\ p[i] = Zero
      BY <1>3, <1>6, <2>2
    <3>2. i - 1 \in Nat /\ i - 1 >= used
      BY <1>1, <3>1
    <3> QED BY <3>1, <3>2 DEF ArrayInv
  <2> QED BY <2>1, <2>2
<1> QED BY <1>4, <1>5, <1>6 DEF p, l

LEMMA AppendsKeeps ==
  ASSUME ArrayInv, NEW v \in Elements, Appends(v)
  PROVE  ArrayInv'
<1> DEFINE n == Len(elements)
           new == ArrayAdd(array, v)
           contents == Append(elements, v)
<1>1. /\ n \in Nat /\ array \in Arrays(Memory) /\ array.len = n /\ elements \in Seq(Known)
      /\ v \in Memory /\ v \in Known /\ Zero \in Memory
  BY DEF ArrayInv, Memory, Known
<1>2. /\ contents \in Seq(Known) /\ Len(contents) = n + 1 /\ contents[n + 1] = v
      /\ \A i \in 1..n : contents[i] = elements[i]
  BY <1>1
<1>3. Becomes(new, contents)
  BY DEF Appends
<1> HIDE DEF n, contents
<1>4. new \in Arrays(Memory) /\ new.len = n + 1
  BY <1>1, ArrayAddKeeps
<1>5. \A i \in Nat : Slot(new, i) = IF i = n THEN v ELSE Slot(array, i)
  BY <1>1, ArrayAddSlots
<1> HIDE DEF new
<1>6. ASSUME NEW i \in 0..n, contents[i + 1] # Unknown
      PROVE  Slot(new, i) = contents[i + 1]
  <2>1. CASE i = n
    BY <1>1, <1>2, <1>5, <2>1
  <2>2. CASE i # n
    <3>1. i \in 0..(n - 1) /\ i + 1 \in 1..n
      BY <1>1, <2>2
    <3> QED BY <1>2, <1>5, <1>6, <2>2, <3>1 DEF ArrayInv, n
  <2> QED BY <2>1, <2>2
<1>7. ASSUME NEW i \in Nat, i >= used, i >= n + 1
      PROVE  Slot(new, i) = Zero
  BY <1>1, <1>5, <1>7 DEF ArrayInv
<1>8. \A i \in 0..(Len(contents) - 1) :
        contents[i + 1] # Unknown => Slot(new, i) = contents[i + 1]
  BY <1>1, <1>2, <1>6
<1> QED BY <1>2, <1>3, <1>4, <1>7, <1>8, BecomesKeeps

LEMMA InsertsKeeps ==
  ASSUME ArrayInv, NEW v \in Elements, NEW index \in Nat, Inserts(index, v)
  PROVE  ArrayInv'
<1> DEFINE n == Len(elements)
           p == Padded(index)
           l == Len(p)
           new == ArrayInsert(array, index, v)
           contents == InsertAt(p, index + 1, v)
<1>1. /\ n \in Nat /\ array \in Arrays(Memory) /\ array.len = n
      /\ v \in Memory /\ v \in Known /\ Zero \in Memory
  BY DEF ArrayInv, Memory, Known
<1>2. /\ p \in Seq(Known) /\ l = (IF index > n THEN index ELSE n)
      /\ \A i \in 1..l : p[i] # Unknown => Slot(array, i - 1) = p[i]
  BY PaddedIs
<1>3. Becomes(new, contents)
  BY DEF Inserts
<1> HIDE DEF n, p
<1>4. index + 1 \in 1..(l + 1) /\ l \in Nat
  BY <1>1, <1>2
<1>5. /\ contents \in Seq(Known) /\ Len(contents) = l + 1
      /\ \A i \in 1..(l + 1) : contents[i] =
           IF i < index + 1 THEN p[i] ELSE IF i = index + 1 THEN v ELSE p[i - 1]
  <2> DEFINE k == index + 1
  <2>1. k \in 1..(Len(p) + 1) /\ contents = InsertAt(p, k, v)
    BY <1>4
  <2> HIDE DEF k, contents
  <2>2. /\ InsertAt(p, k, v) \in Seq(Known) /\ Len(InsertAt(p, k, v)) = Len(p) + 1
        /\ \A i \in 1..(Len(p) + 1) : InsertAt(p, k, v)[i] =
             IF i < k THEN p[i] ELSE IF i = k THEN v ELSE p[i - 1]
    <3> DEFINE T == Known
    <3>1. p \in Seq(T)
      BY <1>2
    <3>2. v \in T
      BY <1>1
    <3>3. k \in 1..(Len(p) + 1)
      BY <2>1
    <3> HIDE DEF T, l, new
    <3>4. /\ InsertAt(p, k, v) \in Seq(T) /\ Len(InsertAt(p, k, v)) = Len(p) + 1
          /\ \A i \in 1..(Len(p) + 1) : InsertAt(p, k, v)[i] =
               IF i < k THEN p[i] ELSE IF i = k THEN v ELSE p[i - 1]
      BY <3>1, <3>2, <3>3, InsertAtProperties
    <3> QED BY <3>4 DEF T
  <2> QED BY <2>1, <2>2 DEF k
<1>6. /\ new \in Arrays(Memory) /\ new.len = l + 1
      /\ \A i \in Nat : Slot(new, i) = Inserted(array, index, v, i)
  <2>1. /\ new \in Arrays(Memory)
        /\ new.len = IF index < array.len THEN array.len + 1 ELSE index + 1
        /\ \A i \in Nat : Slot(new, i) = Inserted(array, index, v, i)
    BY <1>1, ArrayInsertSlots
  <2> HIDE DEF new
  <2> QED BY <1>1, <1>2, <2>1
<1> HIDE DEF new, contents, l
<1>7. \A i \in Nat : Slot(new, i) =
        IF i = index THEN v
        ELSE IF index < i /\ i <= n THEN Slot(array, i - 1) ELSE Slot(array, i)
  BY <1>1, <1>6 DEF Inserted
<1>8. ASSUME NEW i \in 0..l, contents[i + 1] # Unknown
      PROVE  Slot(new, i) = contents[i + 1]
  <2>1. CASE i < index
    <3>1. i + 1 \in 1..l /\ contents[i + 1] = p[i + 1] /\ i + 1 - 1 = i
      <4>1. i + 1 \in 1..l /\ i + 1 \in 1..(l + 1) /\ i + 1 < index + 1
        BY <1>1, <1>2, <2>1
      <4> QED BY <1>5, <4>1
    <3>2. p[i + 1] # Unknown
      BY <1>8, <3>1
    <3> DEFINE j == i + 1
    <3>3. j \in 1..l /\ p[j] # Unknown /\ j - 1 = i
      BY <3>1, <3>2
    <3> HIDE DEF j
    <3>4. Slot(array, i) = p[j]
      BY <1>2, <3>3
    <3> QED BY <1>7, <2>1, <3>1, <3>4 DEF j
  <2>2. CASE i = index
    BY <1>4, <1>5, <1>7, <2>2
  <2>3. CASE i > index
    <3>1. i \in 1..l /\ i <= n /\ contents[i + 1] = p[i]
      <4>1. i + 1 \in 1..(l + 1) /\ i + 1 - 1 = i /\ ~(i + 1 < index + 1) /\ i + 1 # index + 1
        BY <1>4, <2>3
      <4>2. contents[i + 1] = p[i]
        BY <1>5, <4>1
      <4> QED BY <1>1, <1>2, <2>3, <4>1, <4>2
    <3>2. Slot(array, i - 1) = p[i]
      BY <1>2, <1>8, <3>1
    <3> QED BY <1>7, <2>3, <3>1, <3>2
  <2> QED BY <2>1, <2>2, <2>3
<1>9. ASSUME NEW i \in Nat, i >= used, i >= l + 1
      PROVE  Slot(new, i) = Zero
  BY <1>1, <1>2, <1>7, <1>9 DEF ArrayInv
<1>10. \A i \in 0..(Len(contents) - 1) :
         contents[i + 1] # Unknown => Slot(new, i) = contents[i + 1]
  BY <1>4, <1>5, <1>8
<1> QED BY <1>3, <1>5, <1>6, <1>9, <1>10, BecomesKeeps

LEMMA ReplacesKeeps ==
  ASSUME ArrayInv, NEW v \in Elements, NEW index \in Nat, Replaces(index, v)
  PROVE  ArrayInv'
<1> DEFINE n == Len(elements)
           k == index + 1
           p == Padded(k)
           l == Len(p)
           new == ArrayReplace(array, index, v)
           contents == [p EXCEPT ![k] = v]
<1>1. /\ n \in Nat /\ array \in Arrays(Memory) /\ array.len = n
      /\ v \in Memory /\ v \in Known /\ Zero \in Memory
  BY DEF ArrayInv, Memory, Known
<1>2. /\ p \in Seq(Known) /\ l = (IF k > n THEN k ELSE n)
      /\ \A i \in 1..l : p[i] # Unknown => Slot(array, i - 1) = p[i]
  <2>1. k \in Nat
    OBVIOUS
  <2> HIDE DEF k
  <2> QED BY <2>1, PaddedIs
<1>3. Becomes(new, contents)
  BY DEF Replaces
<1> HIDE DEF n, p
<1>4. k \in 1..l /\ l \in Nat
  BY <1>1, <1>2
<1>5. /\ contents \in Seq(Known) /\ Len(contents) = l
      /\ \A i \in 1..l : contents[i] = IF i = k THEN v ELSE p[i]
  <2> HIDE DEF k
  <2> QED BY <1>1, <1>2, <1>4
<1>6. new \in Arrays(Memory) /\ new.len = l
  <2>1. /\ new \in Arrays(Memory)
        /\ new.len = IF index < array.len THEN array.len ELSE index + 1
    BY <1>1, ArrayReplaceKeeps
  <2> HIDE DEF new
  <2> QED BY <1>1, <1>2, <2>1
<1>7. \A i \in Nat : Slot(new, i) = IF i = index THEN v ELSE Slot(array, i)
  BY <1>1, ArrayReplaceSlots
<1> HIDE DEF new, contents, l
<1>8. ASSUME NEW i \in 0..(l - 1), contents[i + 1] # Unknown
      PROVE  Slot(new, i) = contents[i + 1]
  <2>1. i \in Nat /\ i + 1 \in 1..l /\ i + 1 - 1 = i
    BY <1>4
  <2>2. CASE i = index
    BY <1>5, <1>7, <2>1, <2>2
  <2>3. CASE i # index
    <3>1. contents[i + 1] = p[i + 1]
      BY <1>5, <2>1, <2>3
    <3>2. Slot(array, i) = p[i + 1]
      BY <1>2, <1>8, <2>1, <3>1
    <3> QED BY <1>7, <2>1, <2>3, <3>1, <3>2
  <2> QED BY <2>2, <2>3
<1>9. ASSUME NEW i \in Nat, i >= used, i >= l
      PROVE  Slot(new, i) = Zero
  BY <1>1, <1>2, <1>7, <1>9 DEF ArrayInv
<1>10. \A i \in 0..(Len(contents) - 1) :
         contents[i + 1] # Unknown => Slot(new, i) = contents[i + 1]
  BY <1>5, <1>8
<1> QED BY <1>3, <1>5, <1>6, <1>9, <1>10, BecomesKeeps

LEMMA RemovesLastKeeps ==
  ASSUME ArrayInv, RemovesLast
  PROVE  ArrayInv'
<1> DEFINE n == Len(elements)
           new == RemoveLast(array)
           contents == IF elements = <<>> THEN <<>> ELSE Front(elements)
<1>1. /\ n \in Nat /\ array \in Arrays(Memory) /\ array.len = n /\ elements \in Seq(Known)
      /\ Zero \in Memory /\ n <= used /\ used \in Nat
  BY DEF ArrayInv, Memory
<1>2. /\ contents \in Seq(Known) /\ Len(contents) = (IF n > 0 THEN n - 1 ELSE 0)
      /\ \A i \in 1..Len(contents) : contents[i] = elements[i]
  <2>1. CASE elements = <<>>
    BY <2>1
  <2>2. CASE elements # <<>>
    <3>1. n > 0 /\ contents = SubSeq(elements, 1, n - 1)
      BY <1>1, <2>2 DEF Front
    <3> HIDE DEF contents
    <3>2. \A m \in 0..Len(elements) :
            /\ SubSeq(elements, 1, m) \in Seq(Known) /\ Len(SubSeq(elements, 1, m)) = m
            /\ \A i \in 1..m : SubSeq(elements, 1, m)[i] = elements[i]
      BY <1>1
    <3>3. n - 1 \in 0..Len(elements)
      BY <1>1, <3>1
    <3> HIDE DEF n
    <3>4. /\ SubSeq(elements, 1, n - 1) \in Seq(Known) /\ Len(SubSeq(elements, 1, n - 1)) = n - 1
          /\ \A i \in 1..(n - 1) : SubSeq(elements, 1, n - 1)[i] = elements[i]
      BY <3>2, <3>3
    <3> QED BY <1>1, <3>1, <3>4
  <2> QED BY <2>1, <2>2
<1>3. Becomes(new, contents)
  BY DEF RemovesLast
<1> HIDE DEF n, contents
<1>4. /\ new \in Arrays(Memory) /\ new.len = Len(contents)
      /\ \A i \in Nat : Slot(new, i) = Slot(array, i)
  BY <1>1, <1>2, RemoveLastSlots
<1> HIDE DEF new
<1>5. ASSUME NEW i \in 0..(Len(contents) - 1), contents[i + 1] # Unknown
      PROVE  Slot(new, i) = contents[i + 1]
  <2>1. i \in 0..(n - 1) /\ i + 1 \in 1..Len(contents) /\ i \in Nat
    BY <1>1, <1>2
  <2> QED BY <1>2, <1>4, <1>5, <2>1 DEF ArrayInv, n
<1>6. ASSUME NEW i \in Nat, i >= used, i >= Len(contents)
      PROVE  Slot(new, i) = Zero
  BY <1>4, <1>6 DEF ArrayInv
<1> QED BY <1>2, <1>3, <1>4, <1>5, <1>6, BecomesKeeps

LEMMA DeletesKeeps ==
  ASSUME ArrayInv, NEW index \in Nat, Deletes(index)
  PROVE  ArrayInv'
<1> DEFINE n == Len(elements)
           new == ArrayDelete(array, index)
           contents == IF index < n THEN RemoveAt(elements, index + 1) ELSE elements
<1>1. /\ n \in Nat /\ array \in Arrays(Memory) /\ array.len = n /\ elements \in Seq(Known)
      /\ Zero \in Memory /\ n <= used /\ used \in Nat
  BY DEF ArrayInv, Memory
<1>2. Becomes(new, contents)
  BY DEF Deletes
<1>3. CASE ~(index < n)
  <2>1. new = array /\ contents = elements
    BY <1>1, <1>3 DEF ArrayDelete
  <2>2. \A i \in Nat : i >= used => Slot(array, i) = Zero
    BY DEF ArrayInv
  <2>3. \A i \in 0..(n - 1) : elements[i + 1] # Unknown => Slot(array, i) = elements[i + 1]
    BY DEF ArrayInv
  <2> HIDE DEF new, contents
  <2>4. Becomes(array, elements)
    BY <1>2, <2>1
  <2> QED BY <1>1, <2>2, <2>3, <2>4, BecomesKeeps
<1>4. CASE index < n
  <2> DEFINE k == index + 1
  <2>1. k \in 1..n
    BY <1>1, <1>4
  <2>2. contents = RemoveAt(elements, k)
    BY <1>4
  <2> HIDE DEF k, contents
  <2>3. /\ contents \in Seq(Known) /\ Len(contents) = n - 1
        /\ \A i \in 1..(n - 1) : contents[i] = IF i < k THEN elements[i] ELSE elements[i + 1]
    BY <1>1, <2>1, <2>2, RemoveAtProperties
  <2> HIDE DEF n
  <2>4. /\ new \in Arrays(Memory) /\ new.len = n - 1
        /\ \A i \in Nat : Slot(new, i) =
             IF index <= i /\ i < n - 1 THEN Slot(array, i + 1) ELSE Slot(array, i)
    BY <1>1, <1>4, ArrayDeleteSlots
  <2> HIDE DEF new
  <2>5. \A i \in 0..(n - 1) : elements[i + 1] # Unknown => Slot(array, i) = elements[i + 1]
    BY DEF ArrayInv, n
  <2>6. ASSUME NEW i \in 0..(n - 2), contents[i + 1] # Unknown
        PROVE  Slot(new, i) = contents[i + 1]
    <3>1. i \in Nat /\ i \in 0..(n - 1) /\ i + 1 \in 1..(n - 1) /\ i + 1 \in 0..(n - 1)
      BY <1>1
    <3>2. CASE i < index
      <4>1. contents[i + 1] = elements[i + 1]
        BY <2>3, <3>1, <3>2 DEF k
      <4> QED BY <2>4, <2>5, <2>6, <3>1, <3>2, <4>1
    <3>3. CASE ~(i < index)
      <4>1. contents[i + 1] = elements[i + 1 + 1]
        BY <2>3, <3>1, <3>3 DEF k
      <4>2. Slot(array, i + 1) = elements[i + 1 + 1]
        BY <2>5, <2>6, <3>1, <4>1
      <4>3. Slot(new, i) = Slot(array, i + 1)
        <5>1. index <= i /\ i < n - 1
          BY <1>1, <3>1, <3>3
        <5> QED BY <2>4, <3>1, <5>1
      <4> QED BY <4>1, <4>2, <4>3
    <3> QED BY <3>2, <3>3
  <2>7. ASSUME NEW i \in Nat, i >= used, i >= Len(contents)
        PROVE  Slot(new, i) = Zero
    BY <1>1, <2>4, <2>7 DEF ArrayInv
  <2>8. \A i \in 0..(Len(contents) - 1) :
          contents[i + 1] # Unknown => Slot(new, i) = contents[i + 1]
    BY <1>1, <2>3, <2>6
  <2> QED BY <1>2, <2>3, <2>4, <2>7, <2>8, BecomesKeeps
<1> QED BY <1>3, <1>4

LEMMA SetsLengthKeeps ==
  ASSUME ArrayInv, NEW len \in Nat, SetsLength(len)
  PROVE  ArrayInv'
<1> DEFINE p == Padded(len)
           new == SetLength(array, len)
           contents == SubSeq(p, 1, len)
<1>1. array \in Arrays(Memory) /\ Len(elements) \in Nat /\ Zero \in Memory
  BY DEF ArrayInv, Memory
<1>2. /\ p \in Seq(Known) /\ Len(p) >= len /\ Len(p) \in Nat
      /\ \A i \in 1..Len(p) : p[i] # Unknown => Slot(array, i - 1) = p[i]
  <2> HIDE DEF contents, new
  <2>1. /\ p \in Seq(Known)
        /\ Len(p) = IF len > Len(elements) THEN len ELSE Len(elements)
        /\ \A i \in 1..Len(p) : p[i] # Unknown => Slot(array, i - 1) = p[i]
    BY PaddedIs
  <2> HIDE DEF p
  <2> QED BY <1>1, <2>1
<1>3. Becomes(new, contents)
  BY DEF SetsLength
<1> HIDE DEF p
<1>4. /\ contents \in Seq(Known) /\ Len(contents) = len
      /\ \A i \in 1..len : contents[i] = p[i]
  BY <1>2
<1> HIDE DEF contents
<1>5. new \in Arrays(Memory) /\ new.len = len /\ \A i \in Nat : Slot(new, i) = Slot(array, i)
  BY <1>1, SetLengthKeeps, SetLengthSlots
<1> HIDE DEF new
<1>6. ASSUME NEW i \in 0..(len - 1), contents[i + 1] # Unknown
      PROVE  Slot(new, i) = contents[i + 1]
  <2>1. i + 1 \in 1..len /\ i + 1 \in 1..Len(p) /\ i + 1 - 1 = i /\ i \in Nat
    BY <1>2
  <2>2. Slot(array, i) = p[i + 1]
    BY <1>2, <1>4, <1>6, <2>1
  <2> QED BY <1>4, <1>5, <2>1, <2>2
<1>7. ASSUME NEW i \in Nat, i >= used, i >= Len(contents)
      PROVE  Slot(new, i) = Zero
  BY <1>5, <1>7 DEF ArrayInv
<1>8. \A i \in 0..(Len(contents) - 1) :
        contents[i + 1] # Unknown => Slot(new, i) = contents[i + 1]
  BY <1>4, <1>6
<1> QED BY <1>3, <1>4, <1>5, <1>7, <1>8, BecomesKeeps

LEMMA MovesKeeps ==
  ASSUME ArrayInv, NEW dst \in Nat, NEW src \in Nat, NEW size \in Nat, Moves(dst, src, size)
  PROVE  ArrayInv'
<1> DEFINE n == Len(elements)
           new == ArrayMove(array, dst, src, size)
           contents == [i \in DOMAIN elements |->
                          IF i - 1 \in dst..(dst + size - 1) THEN elements[i - dst + src]
                          ELSE elements[i]]
<1>1. /\ n \in Nat /\ array \in Arrays(Memory) /\ array.len = n /\ elements \in Seq(Known)
      /\ Zero \in Memory /\ n <= used /\ used \in Nat /\ DOMAIN elements = 1..n
  BY DEF ArrayInv, Memory
<1>2. Becomes(new, contents) /\ src + size <= n /\ dst + size <= n
  BY <1>1 DEF Moves
<1>3. \A i \in 0..(n - 1) : elements[i + 1] # Unknown => Slot(array, i) = elements[i + 1]
  BY DEF ArrayInv
<1> HIDE DEF n
<1>4. \A i \in 1..n : contents[i] = IF i - 1 \in dst..(dst + size - 1)
                                      THEN elements[i - dst + src] ELSE elements[i]
  BY <1>1
<1>5. contents \in Seq(Known) /\ Len(contents) = n
  <2>1. \A i \in 1..n : elements[i] \in Known
    BY <1>1
  <2>2. \A i \in 1..n : i - 1 \in dst..(dst + size - 1) => i - dst + src \in 1..n
    BY <1>1, <1>2
  <2>3. \A i \in 1..n : contents[i] \in Known
    BY <1>4, <2>1, <2>2
  <2>4. contents \in [1..n -> Known]
    BY <1>1, <2>3
  <2> HIDE DEF contents
  <2> QED BY <1>1, <2>4
<1> HIDE DEF contents
<1>6. /\ new \in Arrays(Memory) /\ new.len = n
      /\ \A i \in Nat : Slot(new, i) =
           IF i \in dst..(dst + size - 1) THEN Slot(array, i - dst + src) ELSE Slot(array, i)
  <2>1. dst + size <= array.len /\ src + size <= array.len
    BY <1>1, <1>2
  <2>2. /\ new \in Arrays(Memory) /\ new.len = array.len
        /\ \A i \in Nat : Slot(new, i) =
             IF i \in dst..(dst + size - 1) THEN Slot(array, i - dst + src) ELSE Slot(array, i)
    <3> DEFINE T == Memory
    <3>1. array \in Arrays(T)
      BY <1>1
    <3>2. Zero \in T
      BY <1>1
    <3> HIDE DEF T, new
    <3>3. /\ ArrayMove(array, dst, src, size) \in Arrays(T)
          /\ ArrayMove(array, dst, src, size).len = array.len
          /\ \A i \in Nat : Slot(ArrayMove(array, dst, src, size), i) =
               IF i \in dst..(dst + size - 1) THEN Slot(array, i - dst + src) ELSE Slot(array, i)
      BY <2>1, <3>1, <3>2, ArrayMoveSlots
    <3> QED BY <3>3 DEF T, new
  <2> HIDE DEF new
  <2> QED BY <1>1, <2>2
<1> HIDE DEF new
<1>7. ASSUME NEW i \in 0..(n - 1), contents[i + 1] # Unknown
      PROVE  Slot(new, i) = contents[i + 1]
  <2>1. i \in Nat /\ i + 1 \in 1..n /\ i + 1 - 1 = i
    BY <1>1
  <2>2. CASE i \in dst..(dst + size - 1)
    <3> DEFINE j == i - dst + src
    <3>1. j \in 0..(n - 1) /\ i + 1 - dst + src = j + 1
      BY <1>1, <1>2, <2>2
    <3>2. contents[i + 1] = elements[j + 1]
      BY <1>4, <2>1, <2>2, <3>1
    <3>3. Slot(new, i) = Slot(array, j)
      BY <1>6, <2>1, <2>2
    <3> HIDE DEF j
    <3> QED BY <1>3, <1>7, <3>1, <3>2, <3>3
  <2>3. CASE i \notin dst..(dst + size - 1)
    <3>1. contents[i + 1] = elements[i + 1]
      BY <1>4, <2>1, <2>3
    <3> QED BY <1>3, <1>6, <1>7, <2>1, <2>3, <3>1
  <2> QED BY <2>2, <2>3
<1>8. ASSUME NEW i \in Nat, i >= used, i >= Len(contents)
      PROVE  Slot(new, i) = Zero
  <2>1. i \notin dst..(dst + size - 1)
    BY <1>1, <1>2, <1>5, <1>8
  <2> QED BY <1>6, <1>8, <2>1 DEF ArrayInv
<1>9. \A i \in 0..(Len(contents) - 1) :
        contents[i + 1] # Unknown => Slot(new, i) = contents[i + 1]
  BY <1>5, <1>7
<1> QED BY <1>2, <1>5, <1>6, <1>8, <1>9, BecomesKeeps

LEMMA CopiesKeeps ==
  ASSUME ArrayInv, Copies
  PROVE  ArrayInv'
<1> DEFINE n == Len(elements)
           new == ArrayCopy(array)
<1>1. /\ n \in Nat /\ array \in Arrays(Memory) /\ array.len = n /\ elements \in Seq(Known)
      /\ Zero \in Memory
  BY DEF ArrayInv, Memory
<1>2. array' = new /\ elements' = elements /\ used' = n
  BY DEF Copies
<1>3. \A i \in 0..(n - 1) : elements[i + 1] # Unknown => Slot(array, i) = elements[i + 1]
  BY DEF ArrayInv
<1> HIDE DEF n
<1>4. /\ new \in Arrays(Memory) /\ new.len = n
      /\ \A i \in Nat : Slot(new, i) = IF i < n THEN Slot(array, i) ELSE Zero
  BY <1>1, ArrayCopyKeeps
<1> HIDE DEF new
<1>5. \A i \in 0..(n - 1) : elements[i + 1] # Unknown => Slot(new, i) = elements[i + 1]
  BY <1>1, <1>3, <1>4
<1>6. \A i \in Nat : i >= n => Slot(new, i) = Zero
  BY <1>1, <1>4
<1> QED BY <1>1, <1>2, <1>4, <1>5, <1>6 DEF ArrayInv, Slot, AllocSize, n

\* An array holds the elements it was given and is zero where nothing was ever
\* written, for any elements, under any calls.
THEOREM ArrayHoldsElements == ArraySpec => []ArrayHolds
<1>1. ArrayInit => ArrayInv
  <2> SUFFICES ASSUME ArrayInit PROVE ArrayInv
    OBVIOUS
  <2>1. Zero \in Memory
    BY DEF Memory
  <2>2. ArrayCreate \in Arrays(Memory) /\ ArrayCreate.len = 0
    BY <2>1, EmptyArray
  <2>3. \A i \in Nat : Slot(array, i) = Zero
    BY EmptySlots DEF ArrayInit
  <2>4. array \in Arrays(Memory) /\ array.len = 0 /\ elements = <<>> /\ used = 0
    BY <2>2 DEF ArrayInit
  <2> QED BY <2>3, <2>4 DEF ArrayInv
<1>2. ArrayInv /\ [ArrayStep]_<<array, elements, used>> => ArrayInv'
  <2> SUFFICES ASSUME ArrayInv, [ArrayStep]_<<array, elements, used>> PROVE ArrayInv'
    OBVIOUS
  <2>1. array.len \in Nat /\ (0..MaxLen) \subseteq Nat /\ (0..array.len) \subseteq Nat
    BY LengthAssumption DEF ArrayInv
  <2>2. ASSUME NEW v \in Elements, Appends(v) PROVE ArrayInv'
    BY <2>2, AppendsKeeps
  <2>3. ASSUME NEW v \in Elements, NEW index \in 0..MaxLen, Inserts(index, v) PROVE ArrayInv'
    BY <2>1, <2>3, InsertsKeeps
  <2>4. ASSUME NEW v \in Elements, NEW index \in 0..MaxLen, Replaces(index, v) PROVE ArrayInv'
    BY <2>1, <2>4, ReplacesKeeps
  <2>5. CASE RemovesLast
    BY <2>5, RemovesLastKeeps
  <2>6. ASSUME NEW index \in 0..MaxLen, Deletes(index) PROVE ArrayInv'
    BY <2>1, <2>6, DeletesKeeps
  <2>7. ASSUME NEW len \in 0..MaxLen, SetsLength(len) PROVE ArrayInv'
    BY <2>1, <2>7, SetsLengthKeeps
  <2>8. ASSUME NEW dst \in 0..array.len, NEW src \in 0..array.len, NEW size \in 0..array.len,
               Moves(dst, src, size)
        PROVE  ArrayInv'
    BY <2>1, <2>8, MovesKeeps
  <2>9. CASE Copies
    BY <2>9, CopiesKeeps
  <2>10. CASE UNCHANGED <<array, elements, used>>
    BY <2>10 DEF ArrayInv, Slot, AllocSize
  <2> QED BY <2>2, <2>3, <2>4, <2>5, <2>6, <2>7, <2>8, <2>9, <2>10 DEF ArrayStep
<1>3. ArrayInv => ArrayHolds
  <2> SUFFICES ASSUME ArrayInv PROVE ArrayHolds
    OBVIOUS
  <2>1. /\ array \in Arrays(Memory) /\ Zero \in Memory /\ elements \in Seq(Known)
        /\ array.len = Len(elements) /\ Len(elements) \in Nat /\ used \in Nat
    BY DEF ArrayInv, Memory
  <2>2. /\ array.slots \in [0..(AllocSize(array) - 1) -> Memory]
        /\ AllocSize(array) \in Nat /\ array.len <= AllocSize(array)
    BY <2>1, ArrayRoom
  <2>3. ASSUME NEW i \in DOMAIN elements, elements[i] # Unknown
        PROVE  ArrayElements(array)[i] = elements[i]
    <3>1. i \in 1..array.len /\ i - 1 \in 0..(Len(elements) - 1) /\ i - 1 + 1 = i
      BY <2>1
    <3>2. i - 1 \in Nat /\ i - 1 < array.len
      BY <2>1, <3>1
    <3>3. Slot(array, i - 1) = array.slots[i - 1]
      BY <2>1, <3>2, SlotIs
    <3>4. elements[i - 1 + 1] # Unknown => Slot(array, i - 1) = elements[i - 1 + 1]
      BY <3>1 DEF ArrayInv
    <3> QED BY <2>3, <3>1, <3>3, <3>4 DEF ArrayElements
  <2>4. ASSUME NEW i \in DOMAIN array.slots, i >= used
        PROVE  array.slots[i] = Zero
    <3>1. i \in Nat
      BY <2>2
    <3>2. Slot(array, i) = array.slots[i]
      BY <2>1, <3>1, SlotIs
    <3> QED BY <2>4, <3>1, <3>2 DEF ArrayInv
  <2> QED BY <2>1, <2>2, <2>3, <2>4 DEF ArrayHolds
<1> QED BY <1>1, <1>2, <1>3, PTL DEF ArraySpec
=============================================================================
