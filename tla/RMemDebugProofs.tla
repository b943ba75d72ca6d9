--------------------------- MODULE RMemDebugProofs ---------------------------
(***************************************************************************)
(* Proofs about RMemDebug, for any threads, any finite set of addresses    *)
(* and any sizes: the counter is the number of bytes in blocks, the        *)
(* maximum is the most there have been, and a calloc has room for its      *)
(* size.                                                                   *)
(***************************************************************************)
EXTENDS RMemDebug, FiniteSetTheorems, TLAPS

\* What a block counts for, and the bytes of blocks that count for so much.
Weight == [b \in Blocks |-> IF Uncounted(b) THEN 0 ELSE header[b]]

BytesIn(w) == UNION {{b} \X (1..w[b]) : b \in Blocks}

Types ==
  /\ allocmem \in Int /\ maxmem \in Nat /\ peak \in Nat
  /\ lock \in {0, 1} /\ overtaken \in BOOLEAN
  /\ header \in [Blocks -> Nat]
  /\ pc \in [Threads -> {"idle", "reset"} \union Takes \union Gives]
  /\ block \in [Threads -> Blocks]
  /\ size \in [Threads -> Nat]
  /\ seen \in [Threads -> Nat]

Alone ==
  /\ \A t \in Threads : pc[t] \in Inside => lock = 1
  /\ \A t, u \in Threads : pc[t] \in Inside /\ pc[u] \in Inside => t = u

\* A thread in a call has a block to itself, and knows its size until it has
\* been added.
Own ==
  /\ \A t, u \in Threads :
       /\ pc[t] \in Takes \union Gives /\ pc[u] \in Takes \union Gives
       /\ block[t] = block[u]
       => t = u
  /\ \A t \in Threads :
       /\ pc[t] \in Takes \union Gives => header[block[t]] # 0
       /\ pc[t] \in Takes \union {"give", "giving"} => size[t] = header[block[t]]

IInv == Types /\ Alone /\ Own /\ Accounted /\ PeakKept /\ allocmem \in Nat

-----------------------------------------------------------------------------
(* Counting bytes.                                                         *)

LEMMA BlockBytes ==
  ASSUME NEW b, NEW n \in Nat
  PROVE  /\ IsFiniteSet({b} \X (1..n))
         /\ Cardinality({b} \X (1..n)) = n
<1> DEFINE f == [i \in 1..n |-> <<b, i>>]
<1>1. f \in Bijection(1..n, {b} \X (1..n))
  <2>1. f \in [1..n -> {b} \X (1..n)]
    OBVIOUS
  <2>2. \A i, j \in 1..n : f[i] = f[j] => i = j
    OBVIOUS
  <2>3. \A p \in {b} \X (1..n) : \E i \in 1..n : f[i] = p
    <3> TAKE p \in {b} \X (1..n)
    <3>1. p[2] \in 1..n /\ p = <<b, p[2]>>
      OBVIOUS
    <3> QED BY <3>1
  <2> QED BY <2>1, <2>2, <2>3 DEF Bijection, Injection, Surjection, IsInjective
<1>2. ExistsBijection(1..n, {b} \X (1..n))
  BY <1>1 DEF ExistsBijection
<1>3. IsFiniteSet(1..n) /\ Cardinality(1..n) = n
  BY FS_Interval
<1> QED BY <1>2, <1>3, FS_Bijection

LEMMA BytesFinite ==
  ASSUME NEW w \in [Blocks -> Nat]
  PROVE  IsFiniteSet(BytesIn(w)) /\ Cardinality(BytesIn(w)) \in Nat
<1> DEFINE S == {{b} \X (1..w[b]) : b \in Blocks}
<1>1. \A T \in S : IsFiniteSet(T)
  <2> TAKE T \in S
  <2>1. PICK b \in Blocks : T = {b} \X (1..w[b])
    OBVIOUS
  <2>2. w[b] \in Nat
    OBVIOUS
  <2> QED BY <2>1, <2>2, BlockBytes
<1>2. IsFiniteSet(S)
  <2> DEFINE f == [b \in Blocks |-> {b} \X (1..w[b])]
  <2>1. f \in Surjection(Blocks, S)
    BY DEF Surjection
  <2> QED BY <2>1, FS_Surjection, BlocksAssumption
<1>3. IsFiniteSet(UNION S)
  BY <1>1, <1>2, FS_UNION
<1> QED BY <1>3, FS_CardinalityType DEF BytesIn

\* A block that is taken out takes its bytes with it.
LEMMA TakenOut ==
  ASSUME NEW w \in [Blocks -> Nat], NEW b \in Blocks
  PROVE  Cardinality(BytesIn(w)) = Cardinality(BytesIn([w EXCEPT ![b] = 0])) + w[b]
<1> DEFINE v == [w EXCEPT ![b] = 0]
           S == {b} \X (1..w[b])
<1>1. v \in [Blocks -> Nat]
  OBVIOUS
<1>2. BytesIn(w) = BytesIn(v) \union S
  <2>1. \A c \in Blocks : c # b => {c} \X (1..w[c]) = {c} \X (1..v[c])
    OBVIOUS
  <2>2. {b} \X (1..v[b]) = {}
    OBVIOUS
  <2> QED BY <2>1, <2>2 DEF BytesIn
<1>3. BytesIn(v) \intersect S = {}
  <2>1. \A p \in BytesIn(v) : p[1] # b
    <3> SUFFICES ASSUME NEW c \in Blocks, NEW p \in {c} \X (1..v[c])
                 PROVE  p[1] # b
      BY DEF BytesIn
    <3>1. p[1] = c /\ p[2] \in 1..v[c]
      OBVIOUS
    <3>2. c = b => v[c] = 0
      OBVIOUS
    <3>3. 1..0 = {}
      OBVIOUS
    <3> QED BY <3>1, <3>2, <3>3
  <2>2. \A p \in S : p[1] = b
    OBVIOUS
  <2> QED BY <2>1, <2>2
<1>4. IsFiniteSet(BytesIn(v)) /\ Cardinality(BytesIn(v)) \in Nat
  BY <1>1, BytesFinite
<1>5. IsFiniteSet(S) /\ Cardinality(S) = w[b]
  BY BlockBytes
<1>6. Cardinality(BytesIn(w)) = Cardinality(BytesIn(v)) + Cardinality(S) - Cardinality({})
  <2> HIDE DEF v, S
  <2>1. Cardinality(BytesIn(v) \union S)
          = Cardinality(BytesIn(v)) + Cardinality(S) - Cardinality(BytesIn(v) \intersect S)
    BY <1>4, <1>5, FS_Union
  <2> QED BY <1>2, <1>3, <2>1
<1> QED BY <1>4, <1>5, <1>6, FS_EmptySet

\* The bytes that count are those of the weights, before and after a step.
LEMMA BytesOfSome ==
  ASSUME NEW h \in [Blocks -> Nat], NEW C \in SUBSET Blocks
  PROVE  UNION {{b} \X (1..h[b]) : b \in C}
           = BytesIn([b \in Blocks |-> IF b \in C THEN h[b] ELSE 0])
<1> DEFINE w == [b \in Blocks |-> IF b \in C THEN h[b] ELSE 0]
<1>1. \A b \in Blocks \ C : {b} \X (1..w[b]) = {}
  OBVIOUS
<1>2. \A b \in C : {b} \X (1..w[b]) = {b} \X (1..h[b])
  OBVIOUS
<1> QED BY <1>1, <1>2 DEF BytesIn

LEMMA CountedIsWeight ==
  /\ Types => Weight \in [Blocks -> Nat] /\ CountedBytes = BytesIn(Weight)
  /\ Types' => Weight' \in [Blocks -> Nat] /\ CountedBytes' = BytesIn(Weight')
<1>1. ASSUME Types
      PROVE  Weight \in [Blocks -> Nat] /\ CountedBytes = BytesIn(Weight)
  <2> DEFINE C == {b \in Blocks : ~Uncounted(b)}
  <2>1. Weight = [b \in Blocks |-> IF b \in C THEN header[b] ELSE 0]
    BY DEF Weight
  <2>2. header \in [Blocks -> Nat] /\ C \in SUBSET Blocks
    BY <1>1 DEF Types
  <2>3. CountedBytes = UNION {{b} \X (1..header[b]) : b \in C}
    BY DEF CountedBytes, BytesOf
  <2> HIDE DEF C
  <2> QED BY <2>1, <2>2, <2>3, BytesOfSome
<1>2. ASSUME Types'
      PROVE  Weight' \in [Blocks -> Nat] /\ CountedBytes' = BytesIn(Weight')
  <2> DEFINE C == {b \in Blocks : ~Uncounted(b)'}
  <2>1. Weight' = [b \in Blocks |-> IF b \in C THEN header'[b] ELSE 0]
    BY DEF Weight
  <2>2. header' \in [Blocks -> Nat] /\ C \in SUBSET Blocks
    BY <1>2 DEF Types
  <2>3. CountedBytes' = UNION {{b} \X (1..header'[b]) : b \in C}
    BY DEF CountedBytes, BytesOf
  <2> HIDE DEF C
  <2> QED BY <2>1, <2>2, <2>3, BytesOfSome
<1> QED BY <1>1, <1>2

-----------------------------------------------------------------------------
(* The count, from one weight to the next.                                 *)

LEMMA SameWeight ==
  ASSUME IInv, Types', Weight' = Weight, allocmem' = allocmem
  PROVE  Accounted' /\ allocmem' \in Nat
<1>1. CountedBytes = BytesIn(Weight) /\ CountedBytes' = BytesIn(Weight')
  BY CountedIsWeight DEF IInv
<1> QED BY <1>1 DEF IInv, Accounted

LEMMA LessWeight ==
  ASSUME IInv, Types', NEW b \in Blocks,
         Weight' = [Weight EXCEPT ![b] = 0], allocmem' = allocmem - Weight[b]
  PROVE  Accounted' /\ allocmem' \in Nat
<1>1. Weight \in [Blocks -> Nat] /\ CountedBytes = BytesIn(Weight)
  BY CountedIsWeight DEF IInv
<1>2. Weight' \in [Blocks -> Nat] /\ CountedBytes' = BytesIn(Weight')
  BY CountedIsWeight
<1>3. Cardinality(BytesIn(Weight)) = Cardinality(BytesIn(Weight')) + Weight[b]
  BY <1>1, TakenOut
<1>4. Cardinality(BytesIn(Weight')) \in Nat /\ Weight[b] \in Nat
  BY <1>1, <1>2, BytesFinite
<1> QED BY <1>1, <1>2, <1>3, <1>4 DEF IInv, Accounted

LEMMA MoreWeight ==
  ASSUME IInv, Types', NEW b \in Blocks,
         Weight = [Weight' EXCEPT ![b] = 0], allocmem' = allocmem + Weight'[b]
  PROVE  Accounted' /\ allocmem' \in Nat
<1>1. Weight \in [Blocks -> Nat] /\ CountedBytes = BytesIn(Weight)
  BY CountedIsWeight DEF IInv
<1>2. Weight' \in [Blocks -> Nat] /\ CountedBytes' = BytesIn(Weight')
  BY CountedIsWeight
<1>3. Cardinality(BytesIn(Weight')) = Cardinality(BytesIn(Weight)) + Weight'[b]
  BY <1>2, TakenOut
<1>4. Cardinality(BytesIn(Weight)) \in Nat /\ Weight'[b] \in Nat
  BY <1>1, <1>2, BytesFinite
<1> QED BY <1>1, <1>2, <1>3, <1>4 DEF IInv, Accounted

-----------------------------------------------------------------------------
(* The steps.                                                              *)

LEMMA InitIInv == Init => IInv
<1> SUFFICES ASSUME Init PROVE IInv
  OBVIOUS
<1>1. Types
  <2>1. PICK b \in Blocks : block = [t \in Threads |-> b]
    BY DEF Init
  <2>2. block \in [Threads -> Blocks]
    BY <2>1
  <2>3. /\ header \in [Blocks -> Nat] /\ size \in [Threads -> Nat]
        /\ seen \in [Threads -> Nat]
        /\ pc \in [Threads -> {"idle", "reset"} \union Takes \union Gives]
    BY DEF Init
  <2>4. /\ allocmem \in Int /\ maxmem \in Nat /\ peak \in Nat
        /\ lock \in {0, 1}
    BY DEF Init
  <2>5. overtaken \in BOOLEAN
    BY Zenon DEF Init
  <2> QED BY <2>2, <2>3, <2>4, <2>5 DEF Types
<1>2. Weight = [b \in Blocks |-> 0]
  BY DEF Init, Weight
<1>3. BytesIn(Weight) = {}
  BY <1>2 DEF BytesIn
<1>4. Accounted
  BY <1>1, <1>3, CountedIsWeight, FS_EmptySet DEF Init, Accounted
<1>5. Alone /\ Own /\ PeakKept
  BY DEF Init, Alone, Own, PeakKept, Inside, Takes, Gives
<1> QED BY <1>1, <1>4, <1>5 DEF IInv, Init

\* malloc and calloc: the block was free, so that no other thread has it.
LEMMA GetsKeeps ==
  ASSUME IInv, NEW t \in Threads, Goes(t, "idle", "give"),
         NEW b \in Blocks, NEW n \in Nat \ {0}, header[b] = 0, Gets(t, b, n),
         UNCHANGED <<allocmem, maxmem, lock, seen, peak, overtaken>>
  PROVE  IInv'
<1>1. Types'
  BY DEF IInv, Types, Goes, Gets, Gives
<1>2. Alone'
  BY DEF IInv, Types, Alone, Goes, Inside
<1>3. \A u \in Threads : pc[u] \in Takes \union Gives => block[u] # b
  BY DEF IInv, Own
<1>4. Own'
  BY <1>3 DEF IInv, Types, Own, Goes, Gets, Takes, Gives
<1>5. \A c \in Blocks : c # b => (Uncounted(c)' <=> Uncounted(c))
  BY <1>3 DEF IInv, Types, Uncounted, Goes, Gets
<1>6. Uncounted(b)'
  BY DEF IInv, Types, Uncounted, Goes, Gets
<1>7. Weight' = Weight
  BY <1>5, <1>6 DEF IInv, Types, Weight, Gets
<1>8. PeakKept'
  BY DEF IInv, Types, PeakKept, Goes
<1> QED BY <1>1, <1>2, <1>4, <1>7, <1>8, SameWeight DEF IInv

LEMMA MallocsKeeps == ASSUME IInv, NEW t \in Threads, Mallocs(t) PROVE IInv'
<1>1. PICK b \in Blocks, s \in Sizes : header[b] = 0 /\ Gets(t, b, MallocSize(s))
  BY DEF Mallocs
<1>2. MallocSize(s) \in Nat \ {0}
  BY SizesAssumption DEF MallocSize
<1> QED BY <1>1, <1>2, GetsKeeps DEF Mallocs

\* The word in front of a block of r_dbg_calloc is within what it asks for
\* (src/rlib/rmem.c:63).
THEOREM CallocRoom ==
  ASSUME NEW n \in Nat, NEW s \in Nat \ {0}
  PROVE  CallocSize(n, s) \in Nat /\ CallocSize(n, s) >= n * s + Word
<1>1. Word \in Nat \ {0}
  BY SizesAssumption
<1>2. n * s \in Nat /\ Word * s \in Nat
  BY <1>1
<1>3. CASE s < Word
  <2>1. CallocSize(n, s) = n * s + Word * s
    BY <1>1, <1>3 DEF CallocSize
  <2>2. Word * s >= Word
    BY <1>1
  <2> QED BY <1>1, <1>2, <2>1, <2>2
<1>4. CASE ~(s < Word)
  <2>1. CallocSize(n, s) = n * s + s
    BY <1>1, <1>4 DEF CallocSize
  <2> QED BY <1>1, <1>2, <1>4, <2>1
<1> QED BY <1>3, <1>4

LEMMA CallocsKeeps == ASSUME IInv, NEW t \in Threads, Callocs(t) PROVE IInv'
<1>1. PICK b \in Blocks, n \in Sizes, s \in Sizes \ {0} :
        header[b] = 0 /\ Gets(t, b, CallocSize(n, s))
  BY DEF Callocs
<1>2. n \in Nat /\ s \in Nat \ {0} /\ Word \in Nat \ {0}
  BY SizesAssumption
<1>3. CallocSize(n, s) \in Nat /\ CallocSize(n, s) >= n * s + Word /\ n * s \in Nat
  BY <1>2, CallocRoom
<1>4. CallocSize(n, s) \in Nat \ {0}
  BY <1>2, <1>3
<1> QED BY <1>1, <1>4, GetsKeeps DEF Callocs

\* free and realloc: the block was in nobody's hands.
LEMMA ReleasesKeeps == ASSUME IInv, NEW t \in Threads, Releases(t) PROVE IInv'
<1>1. PICK b \in Blocks :
        /\ header[b] # 0 /\ ~Busy(b)
        /\ block' = [block EXCEPT ![t] = b]
        /\ size' = [size EXCEPT ![t] = header[b]]
  BY DEF Releases
<1>2. pc[t] = "idle" /\ pc' = [pc EXCEPT ![t] = "take"]
      /\ UNCHANGED <<allocmem, maxmem, lock, header, seen, peak, overtaken>>
  BY DEF Releases, Goes
<1>3. Types'
  BY <1>1, <1>2 DEF IInv, Types, Takes
<1>4. Alone'
  BY <1>2 DEF IInv, Types, Alone, Inside
<1>5. Own'
  BY <1>1, <1>2 DEF IInv, Types, Own, Busy, Takes, Gives
<1>6. \A c \in Blocks : Uncounted(c)' <=> Uncounted(c)
  BY <1>1, <1>2 DEF IInv, Types, Uncounted
<1>7. Weight' = Weight
  BY <1>2, <1>6 DEF Weight
<1>8. PeakKept'
  BY <1>2 DEF IInv, Types, PeakKept
<1> QED BY <1>2, <1>3, <1>4, <1>5, <1>7, <1>8, SameWeight DEF IInv

LEMMA LocksKeeps == ASSUME IInv, NEW t \in Threads, Locks(t) PROVE IInv'
<1>1. /\ lock = 0 /\ lock' = 1
      /\ UNCHANGED <<allocmem, maxmem, header, block, size, seen, peak, overtaken>>
  BY DEF Locks
<1>2. \/ pc[t] = "take" /\ pc' = [pc EXCEPT ![t] = "taking"]
      \/ pc[t] = "give" /\ pc' = [pc EXCEPT ![t] = "giving"]
  BY DEF Locks, Goes
<1>3. Types'
  BY <1>1, <1>2 DEF IInv, Types, Takes, Gives
<1>4. Alone'
  BY <1>1, <1>2 DEF IInv, Types, Alone, Inside
<1>5. Own'
  BY <1>1, <1>2 DEF IInv, Types, Own, Takes, Gives
<1>6. \A c \in Blocks : Uncounted(c)' <=> Uncounted(c)
  BY <1>1, <1>2 DEF IInv, Types, Uncounted
<1>7. Weight' = Weight
  BY <1>1, <1>6 DEF Weight
<1>8. PeakKept'
  BY <1>1, <1>2 DEF IInv, Types, PeakKept
<1> QED BY <1>1, <1>3, <1>4, <1>5, <1>7, <1>8, SameWeight DEF IInv

\* The block was counted: nobody else has it in hand.
LEMMA SubtractsKeeps == ASSUME IInv, NEW t \in Threads, Subtracts(t) PROVE IInv'
<1> DEFINE b == block[t]
<1>1. /\ pc[t] = "taking" /\ pc' = [pc EXCEPT ![t] = "taken"]
      /\ allocmem' = allocmem - size[t]
      /\ UNCHANGED <<maxmem, lock, header, block, size, seen, peak, overtaken>>
  BY DEF Subtracts, Goes
<1>2. b \in Blocks /\ size[t] = header[b] /\ size[t] \in Nat
  BY <1>1 DEF IInv, Types, Own, Takes
<1>3. Types'
  BY <1>1, <1>2 DEF IInv, Types, Takes
<1>4. Alone'
  BY <1>1 DEF IInv, Types, Alone, Inside
<1>5. Own'
  BY <1>1 DEF IInv, Types, Own, Takes, Gives
<1>6. ~Uncounted(b) /\ Uncounted(b)'
  BY <1>1 DEF IInv, Types, Own, Uncounted, Takes, Gives
<1>7. \A c \in Blocks : c # b => (Uncounted(c)' <=> Uncounted(c))
  BY <1>1 DEF IInv, Types, Uncounted
<1>8. Weight' = [Weight EXCEPT ![b] = 0] /\ allocmem' = allocmem - Weight[b]
  BY <1>1, <1>2, <1>6, <1>7 DEF Weight
<1>9. PeakKept'
  <2>1. \A u \in Threads : pc[u] # "given" /\ pc'[u] # "given"
    BY <1>1 DEF IInv, Types, Alone, Inside
  <2> QED BY <1>1, <2>1 DEF IInv, PeakKept
<1> QED BY <1>2, <1>3, <1>4, <1>5, <1>8, <1>9, LessWeight DEF IInv

LEMMA AddsKeeps == ASSUME IInv, NEW t \in Threads, Adds(t) PROVE IInv'
<1> DEFINE b == block[t]
<1>1. /\ pc[t] = "giving" /\ pc' = [pc EXCEPT ![t] = "given"]
      /\ allocmem' = allocmem + size[t] /\ peak' = Max(peak, allocmem')
      /\ UNCHANGED <<maxmem, lock, header, block, size, seen, overtaken>>
  BY DEF Adds, Goes
<1>2. b \in Blocks /\ size[t] = header[b] /\ size[t] \in Nat
  BY <1>1 DEF IInv, Types, Own
<1>3. Types'
  BY <1>1, <1>2 DEF IInv, Types, Gives, Max
<1>4. Alone'
  BY <1>1 DEF IInv, Types, Alone, Inside
<1>5. Own'
  BY <1>1 DEF IInv, Types, Own, Takes, Gives
<1>6. Uncounted(b) /\ ~Uncounted(b)'
  BY <1>1 DEF IInv, Types, Own, Uncounted, Takes, Gives
<1>7. \A c \in Blocks : c # b => (Uncounted(c)' <=> Uncounted(c))
  BY <1>1 DEF IInv, Types, Uncounted
<1>8. Weight = [Weight' EXCEPT ![b] = 0] /\ allocmem' = allocmem + Weight'[b]
  BY <1>1, <1>2, <1>6, <1>7 DEF Weight
<1>9. PeakKept'
  <2>1. \A u \in Threads : pc[u] # "given"
    BY <1>1 DEF IInv, Types, Alone, Inside
  <2>2. pc'[t] = "given"
    BY <1>1 DEF IInv, Types
  <2>3. overtaken \/ peak = maxmem
    BY <2>1 DEF IInv, PeakKept
  <2> QED BY <1>1, <2>2, <2>3 DEF PeakKept
<1> QED BY <1>2, <1>3, <1>4, <1>5, <1>8, <1>9, MoreWeight DEF IInv

LEMMA TestsKeeps == ASSUME IInv, NEW t \in Threads, Tests(t) PROVE IInv'
<1>1. /\ pc[t] = "given" /\ pc' = [pc EXCEPT ![t] = "tested"]
      /\ maxmem' = Max(maxmem, allocmem)
      /\ overtaken' = (overtaken /\ maxmem' # peak)
      /\ UNCHANGED <<allocmem, lock, header, block, size, seen, peak>>
  BY DEF Tests, Goes
<1>2. Types'
  BY <1>1 DEF IInv, Types, Gives, Max
<1>3. Alone'
  BY <1>1 DEF IInv, Types, Alone, Inside
<1>4. Own'
  BY <1>1 DEF IInv, Types, Own, Takes, Gives
<1>5. \A c \in Blocks : Uncounted(c)' <=> Uncounted(c)
  BY <1>1 DEF IInv, Types, Uncounted
<1>6. Weight' = Weight
  BY <1>1, <1>5 DEF Weight
<1>7. PeakKept'
  <2>1. overtaken \/ peak = Max(maxmem, allocmem)
    BY <1>1 DEF IInv, PeakKept
  <2>2. \A u \in Threads : pc'[u] # "given"
    BY <1>1 DEF IInv, Types, Alone, Inside
  <2> QED BY <1>1, <2>1, <2>2 DEF PeakKept
<1> QED BY <1>1, <1>2, <1>3, <1>4, <1>6, <1>7, SameWeight DEF IInv

LEMMA UnlocksKeeps == ASSUME IInv, NEW t \in Threads, Unlocks(t) PROVE IInv'
<1>1. /\ lock' = 0
      /\ UNCHANGED <<allocmem, maxmem, header, block, size, seen, peak, overtaken>>
  BY DEF Unlocks
<1>2. \/ pc[t] = "taken" /\ pc' = [pc EXCEPT ![t] = "between"]
      \/ pc[t] = "tested" /\ pc' = [pc EXCEPT ![t] = "idle"]
  BY DEF Unlocks, Goes
<1>3. Types'
  BY <1>1, <1>2 DEF IInv, Types, Takes
<1>4. Alone'
  BY <1>1, <1>2 DEF IInv, Types, Alone, Inside
<1>5. Own'
  BY <1>1, <1>2 DEF IInv, Types, Own, Takes, Gives
<1>6. \A c \in Blocks : Uncounted(c)' <=> Uncounted(c)
  BY <1>1, <1>2 DEF IInv, Types, Uncounted
<1>7. Weight' = Weight
  BY <1>1, <1>6 DEF Weight
<1>8. PeakKept'
  BY <1>1, <1>2 DEF IInv, Types, PeakKept
<1> QED BY <1>1, <1>3, <1>4, <1>5, <1>7, <1>8, SameWeight DEF IInv

LEMMA FreesKeeps == ASSUME IInv, NEW t \in Threads, Frees(t) PROVE IInv'
<1> DEFINE b == block[t]
<1>1. /\ pc[t] = "between" /\ pc' = [pc EXCEPT ![t] = "idle"]
      /\ header' = [header EXCEPT ![b] = 0]
      /\ UNCHANGED <<allocmem, maxmem, lock, block, size, seen, peak, overtaken>>
  BY DEF Frees, Goes
<1>2. b \in Blocks
  BY DEF IInv, Types
<1>3. Types'
  BY <1>1 DEF IInv, Types
<1>4. Alone'
  BY <1>1 DEF IInv, Types, Alone, Inside
<1>5. Own'
  <2>1. \A u \in Threads : pc[u] \in Takes \union Gives /\ u # t => block[u] # b
    BY <1>1 DEF IInv, Own, Takes
  <2> QED BY <1>1, <2>1 DEF IInv, Types, Own, Takes, Gives
<1>6. Uncounted(b) /\ header'[b] = 0
  BY <1>1, <1>2 DEF IInv, Types, Uncounted
<1>7. \A c \in Blocks : c # b => (Uncounted(c)' <=> Uncounted(c)) /\ header'[c] = header[c]
  BY <1>1 DEF IInv, Types, Uncounted
<1>8. Weight' = Weight
  BY <1>6, <1>7 DEF Weight
<1>9. PeakKept'
  BY <1>1 DEF IInv, Types, PeakKept
<1> QED BY <1>1, <1>3, <1>4, <1>5, <1>8, <1>9, SameWeight DEF IInv

\* The block stays or moves to a free address; nobody else has either.
LEMMA ResizesKeeps == ASSUME IInv, NEW t \in Threads, Resizes(t) PROVE IInv'
<1> DEFINE a == block[t]
<1>1. PICK b \in Blocks, s \in Sizes :
        /\ b = a \/ header[b] = 0
        /\ header' = [[header EXCEPT ![a] = 0] EXCEPT ![b] = MallocSize(s)]
        /\ block' = [block EXCEPT ![t] = b]
        /\ size' = [size EXCEPT ![t] = MallocSize(s)]
  BY DEF Resizes
<1>2. /\ pc[t] = "between" /\ pc' = [pc EXCEPT ![t] = "give"]
      /\ UNCHANGED <<allocmem, maxmem, lock, seen, peak, overtaken>>
  BY DEF Resizes, Goes
<1>3. MallocSize(s) \in Nat \ {0}
  BY SizesAssumption DEF MallocSize
<1>4. Types'
  BY <1>1, <1>2, <1>3 DEF IInv, Types, Gives
<1>5. Alone'
  BY <1>2 DEF IInv, Types, Alone, Inside
<1>6. a \in Blocks
  BY DEF IInv, Types
<1>7. \A u \in Threads : pc[u] \in Takes \union Gives /\ u # t => block[u] \notin {a, b}
  BY <1>1, <1>2 DEF IInv, Own, Takes
<1>8. Own'
  <2>1. header'[b] = MallocSize(s) /\ block'[t] = b /\ size'[t] = MallocSize(s)
    BY <1>1, <1>4 DEF IInv, Types
  <2>2. \A u \in Threads : pc[u] \in Takes \union Gives /\ u # t
          => /\ header'[block[u]] = header[block[u]] /\ block'[u] = block[u]
             /\ size'[u] = size[u]
    BY <1>1, <1>7 DEF IInv, Types
  <2>3. \A u \in Threads : u # t => pc'[u] = pc[u]
    BY <1>2 DEF IInv, Types
  <2>4. pc'[t] = "give"
    BY <1>2 DEF IInv, Types
  <2>5. ASSUME NEW u \in Threads, NEW v \in Threads,
               pc'[u] \in Takes \union Gives, pc'[v] \in Takes \union Gives,
               block'[u] = block'[v]
        PROVE  u = v
    BY <1>7, <2>1, <2>2, <2>3, <2>5 DEF IInv, Own
  <2>6. ASSUME NEW u \in Threads
        PROVE  /\ pc'[u] \in Takes \union Gives => header'[block'[u]] # 0
               /\ pc'[u] \in Takes \union {"give", "giving"} => size'[u] = header'[block'[u]]
    <3>1. CASE u = t
      BY <1>3, <2>1, <3>1
    <3>2. CASE u # t
      BY <2>2, <2>3, <3>2 DEF IInv, Own, Gives
    <3> QED BY <3>1, <3>2
  <2> QED BY <2>5, <2>6 DEF Own
<1>9. Weight' = Weight
  <2>1. Uncounted(a)
    BY <1>2 DEF Uncounted
  <2>2. Uncounted(b)'
    BY <1>1, <1>2 DEF IInv, Types, Uncounted
  <2>3. \A c \in Blocks : c \notin {a, b} =>
          (Uncounted(c)' <=> Uncounted(c)) /\ header'[c] = header[c]
    BY <1>1, <1>2 DEF IInv, Types, Uncounted
  <2>4. a # b => header'[a] = 0
    BY <1>1, <1>6 DEF IInv, Types
  <2>5. a # b => header[b] = 0
    BY <1>1
  <2>6. \A c \in Blocks :
          (IF Uncounted(c)' THEN 0 ELSE header'[c]) = (IF Uncounted(c) THEN 0 ELSE header[c])
    BY <2>1, <2>2, <2>3, <2>4, <2>5
  <2> QED BY <2>6 DEF Weight
<1>10. PeakKept'
  BY <1>2 DEF IInv, Types, PeakKept
<1> QED BY <1>2, <1>4, <1>5, <1>8, <1>9, <1>10, SameWeight DEF IInv

LEMMA ResetsKeep ==
  ASSUME IInv, NEW t \in Threads, ResetReads(t) \/ ResetWrites(t)
  PROVE  IInv'
<1>1. /\ \/ pc[t] = "idle" /\ pc' = [pc EXCEPT ![t] = "reset"]
         \/ pc[t] = "reset" /\ pc' = [pc EXCEPT ![t] = "idle"]
      /\ UNCHANGED <<allocmem, lock, header, block, size>>
  BY DEF ResetReads, ResetWrites, Goes
<1>2. Types'
  <2>1. overtaken' \in BOOLEAN
    BY Zenon DEF IInv, Types, ResetReads, ResetWrites
  <2>2. /\ maxmem' \in Nat /\ peak' \in Nat /\ seen' \in [Threads -> Nat]
        /\ pc' \in [Threads -> {"idle", "reset"} \union Takes \union Gives]
    BY <1>1 DEF IInv, Types, ResetReads, ResetWrites
  <2> QED BY <1>1, <2>1, <2>2 DEF IInv, Types
<1>3. Alone'
  BY <1>1 DEF IInv, Types, Alone, Inside
<1>4. Own'
  BY <1>1 DEF IInv, Types, Own, Takes, Gives
<1>5. \A c \in Blocks : Uncounted(c)' <=> Uncounted(c)
  BY <1>1 DEF IInv, Types, Uncounted
<1>6. Weight' = Weight
  BY <1>1, <1>5 DEF Weight
<1>7. PeakKept'
  <2>1. (\E u \in Threads : pc'[u] = "given") <=> (\E u \in Threads : pc[u] = "given")
    BY <1>1 DEF IInv, Types
  <2>2. CASE ResetReads(t)
    BY <2>1, <2>2 DEF IInv, PeakKept, ResetReads
  <2>3. CASE ResetWrites(t)
    <3>1. overtaken' \/ maxmem' = allocmem'
      BY <2>3 DEF IInv, Types, ResetWrites
    <3>2. peak' = allocmem'
      BY <2>3 DEF ResetWrites
    <3> QED BY <3>1, <3>2 DEF PeakKept, Max
  <2> QED BY <2>2, <2>3
<1> QED BY <1>1, <1>2, <1>3, <1>4, <1>6, <1>7, SameWeight DEF IInv

LEMMA StepIInv == IInv /\ [Next]_vars => IInv'
<1> SUFFICES ASSUME IInv, [Next]_vars PROVE IInv'
  OBVIOUS
<1>1. ASSUME NEW t \in Threads, Step(t) PROVE IInv'
  BY <1>1, MallocsKeeps, CallocsKeeps, ReleasesKeeps, LocksKeeps, SubtractsKeeps,
     AddsKeeps, TestsKeeps, UnlocksKeeps, FreesKeeps, ResizesKeeps, ResetsKeep DEF Step
<1>2. ASSUME UNCHANGED vars PROVE IInv'
  <2>1. Types' /\ Alone' /\ Own' /\ PeakKept'
    BY <1>2 DEF IInv, Types, Alone, Own, PeakKept, vars
  <2>2. Weight' = Weight
    BY <1>2 DEF Weight, Uncounted, vars
  <2> QED BY <1>2, <2>1, <2>2, SameWeight DEF IInv, vars
<1> QED BY <1>1, <1>2 DEF Next

LEMMA Invariant == Spec => []IInv
  BY InitIInv, StepIInv, PTL DEF Spec

\* The counters stay natural numbers: no more is taken off than was added
\* (src/rlib/rmem.c:86).
THEOREM TypeCorrect == Spec => []TypeOK
<1>1. IInv => TypeOK
  BY DEF IInv, Types, TypeOK
<1> QED BY <1>1, Invariant, PTL

\* What r_debug_get_allocmem returns is what is in blocks, save for those that
\* a thread has in hand (src/rlib/rmem.c:208).
THEOREM Exact == Spec => []Accounted
<1>1. IInv => Accounted
  BY DEF IInv
<1> QED BY <1>1, Invariant, PTL

\* What r_debug_get_maxmem returns is the most there has been, unless a reset
\* was overtaken (src/rlib/rmem.c:214).
THEOREM Peak == Spec => []PeakKept
<1>1. IInv => PeakKept
  BY DEF IInv
<1> QED BY <1>1, Invariant, PTL
=============================================================================
