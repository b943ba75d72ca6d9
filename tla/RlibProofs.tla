----------------------------- MODULE RlibProofs -----------------------------
(***************************************************************************)
(* Proofs about what src/rlib gives its users: a hash of names, a count of *)
(* references, and characters as bytes.                                    *)
(*                                                                         *)
(* What has a hash of its names finds by name what was put in it, for every*)
(* set of names, of values and of buckets, and every hash.  First the map  *)
(* of RMap, which is what was put in it and not deleted, in order; then the*)
(* array with names of RHArray.                                            *)
(*                                                                         *)
(* The count of RRef, for any threads and any finite number of references, *)
(* is exact, the object is destroyed by the last call there is, a count of *)
(* 1 means a sole owner, and calls are atomic.                             *)
(*                                                                         *)
(* Every character comes back from its bytes, whatever bytes follow.       *)
(***************************************************************************)
EXTENDS RMap, RHArray, RRef, RUtf, RArrayProofs

-----------------------------------------------------------------------------
(* The map.                                                                *)

\* A hash is masked, to one of the buckets (r_map_hashmask).
HashesKeys == \A key \in Keys : MapHash(key) \in MapBuckets

\* An entry that was added without a value may have the one of a new node.
Stored == MapValues \cup {Zero}
MapNodes == [key : Keys \cup {None}, value : Stored, hashed : BOOLEAN] \cup {Zero}
Entries == [index : Nat, key : Keys, value : Stored]

MapTyped ==
  /\ data \in CArrays(MapNodes)
  /\ entries \in Seq(Entries)
  /\ active \in Seq(Nat) /\ inactive \in Seq(Nat)
  /\ bucket \in [MapBuckets -> Seq(Nat)]

\* The active list is the entries' indexes in the order they were added.
ActiveListed ==
  /\ Len(active) = Len(entries)
  /\ \A i \in 1..Len(entries) : active[i] = entries[i].index

\* Each entry has a node of its own, with what was put in it.
EntriesStored ==
  /\ \A i \in 1..Len(entries) :
       /\ entries[i].index < data.len
       /\ CSlot(data, entries[i].index) = MapNode(entries[i].key, entries[i].value, TRUE)
  /\ \A i, j \in 1..Len(entries) : entries[i].index = entries[j].index => i = j

\* An inactive node is in no bucket, has the value of an entry that was, and is
\* given out only once.
IsFree(node) == ~node.hashed /\ node.value \in Stored
InactiveFree ==
  /\ \A p \in 1..Len(inactive) :
       inactive[p] < data.len /\ IsFree(CSlot(data, inactive[p]))
  /\ \A p, q \in 1..Len(inactive) : inactive[p] = inactive[q] => p = q

\* A node that is no entry's is in no bucket.
RestUnhashed ==
  \A x \in Nat :
    x < data.len /\ (\A i \in 1..Len(entries) : entries[i].index # x)
      => ~CSlot(data, x).hashed

\* A bucket has the entries of its hash, in the order they were added.
BucketsTrue ==
  \A b \in MapBuckets : \A p \in 1..Len(bucket[b]) :
    \E i \in 1..Len(entries) :
      bucket[b][p] = entries[i].index /\ MapHash(entries[i].key) = b

BucketsFull ==
  \A i \in 1..Len(entries) :
    \E p \in 1..Len(bucket[MapHash(entries[i].key)]) :
      bucket[MapHash(entries[i].key)][p] = entries[i].index

BucketsOrdered ==
  \A b \in MapBuckets : \A p, q \in 1..Len(bucket[b]) :
    \A i, j \in 1..Len(entries) :
      p < q /\ bucket[b][p] = entries[i].index /\ bucket[b][q] = entries[j].index
        => i < j

MapInv ==
  /\ MapTyped /\ ActiveListed /\ EntriesStored /\ InactiveFree /\ RestUnhashed
  /\ BucketsTrue /\ BucketsFull /\ BucketsOrdered

-----------------------------------------------------------------------------
(* What the operators on lists find.                                       *)

LEMMA PlaceInFinds ==
  ASSUME NEW list, NEW i \in DOMAIN list,
         \A j \in DOMAIN list : list[j] = list[i] => j = i
  PROVE  PlaceIn(list, list[i]) = i
BY DEF PlaceIn

\* What MapInv says of one index of an entry.
LEMMA EntryTyped ==
  ASSUME MapTyped, NEW i \in 1..Len(entries)
  PROVE  entries[i] \in Entries /\ entries[i].index \in Nat
         /\ entries[i].key \in Keys /\ entries[i].value \in Stored
<1>1. entries[i] \in Entries
  BY DEF MapTyped
<1> QED BY <1>1 DEF Entries

LEMMA EntryNode ==
  ASSUME MapInv, NEW i \in 1..Len(entries)
  PROVE  /\ IsNode(entries[i].index)
         /\ Key(entries[i].index) = entries[i].key
         /\ Value(entries[i].index) = entries[i].value
<1>1. entries[i].index \in Nat /\ entries[i].index < data.len
  BY EntryTyped DEF MapInv, EntriesStored
<1>2. CSlot(data, entries[i].index) = MapNode(entries[i].key, entries[i].value, TRUE)
  BY DEF MapInv, EntriesStored
<1>3. IsNode(entries[i].index)
  BY <1>1, <1>2 DEF IsNode, MapNode, None
<1> QED BY <1>2, <1>3 DEF Key, Value, MapNode

\* A node is an entry's.
LEMMA NodeEntry ==
  ASSUME MapInv, NEW index \in Nat, IsNode(index)
  PROVE  \E i \in 1..Len(entries) : entries[i].index = index
BY DEF MapInv, RestUnhashed, IsNode

LEMMA EntryOfFinds ==
  ASSUME MapInv, NEW i \in 1..Len(entries)
  PROVE  EntryOf(entries[i].index) = i
<1> DEFINE I == {k \in 1..Len(entries) : entries[k].index = entries[i].index}
<1>1. I = {i}
  BY DEF MapInv, EntriesStored
<1>2. I \in SUBSET Nat /\ I # {}
  BY <1>1
<1>3. Min(I) \in I
  BY <1>2, MinOfPlaces
<1>4. EntryOf(entries[i].index) = IF I # {} THEN Min(I) ELSE 0
  BY DEF EntryOf, SelectInSeq
<1> QED BY <1>1, <1>3, <1>4

-----------------------------------------------------------------------------
(* Initially, and when an entry is added.                                  *)

LEMMA InitMapInv ==
  ASSUME MapInit
  PROVE  MapInv
<1>1. CArrayCreate \in CArrays(MapNodes) /\ CArrayCreate.len = 0
  BY CreateEmpty DEF MapNodes
<1>2. MapTyped
  BY <1>1 DEF MapInit, MapTyped
<1>3. /\ Len(entries) = 0 /\ Len(active) = 0 /\ Len(inactive) = 0 /\ data.len = 0
      /\ \A b \in MapBuckets : Len(bucket[b]) = 0
  BY <1>1 DEF MapInit
<1>4. ActiveListed /\ EntriesStored /\ InactiveFree
  BY <1>3 DEF ActiveListed, EntriesStored, InactiveFree
<1>5. RestUnhashed /\ BucketsTrue /\ BucketsFull /\ BucketsOrdered
  BY <1>3 DEF RestUnhashed, BucketsTrue, BucketsFull, BucketsOrdered
<1> QED BY <1>2, <1>4, <1>5 DEF MapInv

\* The node that is given out is below the new length and no entry's, and
\* is in the inactive list no more.
LEMMA FreeNode ==
  ASSUME MapInv
  PROVE  LET free == GetFreeNode
         IN  /\ free.data \in CArrays(MapNodes) /\ free.index \in Nat
             /\ free.index < free.data.len
             /\ free.inactive \in Seq(Nat)
             /\ data.len <= free.data.len
             /\ \A x \in Nat : x < free.data.len /\ x # free.index => x < data.len
             /\ \A x \in Nat : x < data.len => CSlot(free.data, x) = CSlot(data, x)
             /\ \A i \in 1..Len(entries) : entries[i].index # free.index
             /\ \A p \in 1..Len(free.inactive) :
                  free.inactive[p] # free.index
                  /\ \E q \in 1..Len(inactive) : free.inactive[p] = inactive[q]
             /\ \A p, q \in 1..Len(free.inactive) :
                  free.inactive[p] = free.inactive[q] => p = q
             /\ free.value \in Stored
<1>1. /\ data \in CArrays(MapNodes) /\ data.len \in Nat /\ inactive \in Seq(Nat)
  BY AllocSizeNat DEF MapInv, MapTyped
<1>2. CASE inactive = <<>>
  <2> DEFINE d == CArrayAdd(data, Zero)
  <2>1. /\ d \in CArrays(MapNodes) /\ d.len = data.len + 1
        /\ \A x \in 0..(data.len - 1) : CSlot(d, x) = CSlot(data, x)
    BY <1>1, CArrayAddKeeps DEF MapNodes
  <2> HIDE DEF d
  <2>2. GetFreeNode = [index |-> data.len, data |-> d, inactive |-> <<>>, value |-> Zero]
    BY <1>2 DEF GetFreeNode, d
  <2>3. \A i \in 1..Len(entries) : entries[i].index # data.len
    <3> SUFFICES ASSUME NEW i \in 1..Len(entries) PROVE entries[i].index # data.len
      OBVIOUS
    <3>1. entries[i].index \in Nat
      BY EntryTyped DEF MapInv
    <3>2. entries[i].index < data.len
      BY DEF MapInv, EntriesStored
    <3> QED BY <1>1, <3>1, <3>2
  <2>4. \A x \in Nat : x < data.len => CSlot(d, x) = CSlot(data, x)
    BY <1>1, <2>1
  <2> QED BY <1>1, <2>1, <2>2, <2>3, <2>4 DEF Stored
<1>3. CASE inactive # <<>>
  <2>1. GetFreeNode = [index |-> Head(inactive), data |-> data, inactive |-> Tail(inactive),
                       value |-> CSlot(data, Head(inactive)).value]
    BY <1>3 DEF GetFreeNode, ListFirst
  <2>2. /\ Len(inactive) \in Nat \ {0} /\ Head(inactive) = inactive[1]
        /\ Head(inactive) \in Nat /\ Tail(inactive) \in Seq(Nat)
        /\ Len(Tail(inactive)) = Len(inactive) - 1
        /\ \A p \in 1..(Len(inactive) - 1) : Tail(inactive)[p] = inactive[p + 1]
    BY <1>1, <1>3
  <2>3. /\ inactive[1] < data.len /\ ~CSlot(data, inactive[1]).hashed
        /\ CSlot(data, inactive[1]).value \in Stored
    BY <2>2 DEF MapInv, InactiveFree, IsFree
  <2>4. \A i \in 1..Len(entries) : entries[i].index # inactive[1]
    <3> SUFFICES ASSUME NEW i \in 1..Len(entries) PROVE entries[i].index # inactive[1]
      OBVIOUS
    <3>1. CSlot(data, entries[i].index).hashed
      BY EntryNode DEF IsNode
    <3> QED BY <2>3, <3>1
  <2>5. /\ \A p \in 1..Len(Tail(inactive)) :
             Tail(inactive)[p] # inactive[1]
             /\ \E q \in 1..Len(inactive) : Tail(inactive)[p] = inactive[q]
        /\ \A p, q \in 1..Len(Tail(inactive)) :
             Tail(inactive)[p] = Tail(inactive)[q] => p = q
    BY <2>2 DEF MapInv, InactiveFree
  <2> QED BY <1>1, <2>1, <2>2, <2>3, <2>4, <2>5
<1> QED BY <1>2, <1>3

LEMMA MapAddKeeps ==
  ASSUME HashesKeys, MapInv, NEW key \in Keys, NEW value \in MapValues \cup {None},
         MapAdd(key, value)
  PROVE  MapInv'
<1> DEFINE f == GetFreeNode.index
           e == GetFreeNode.data
           rest == GetFreeNode.inactive
           stored == IF value = None THEN GetFreeNode.value ELSE value
           node == MapNode(key, stored, TRUE)
           new == [index |-> f, key |-> key, value |-> stored]
           n == Len(entries)
           h == MapHash(key)
<1>1. /\ e \in CArrays(MapNodes) /\ f \in Nat /\ f < e.len /\ rest \in Seq(Nat)
      /\ data.len <= e.len
      /\ \A x \in Nat : x < e.len /\ x # f => x < data.len
      /\ \A x \in Nat : x < data.len => CSlot(e, x) = CSlot(data, x)
      /\ \A i \in 1..n : entries[i].index # f
      /\ \A p \in 1..Len(rest) :
           rest[p] # f /\ \E q \in 1..Len(inactive) : rest[p] = inactive[q]
      /\ \A p, q \in 1..Len(rest) : rest[p] = rest[q] => p = q
      /\ stored \in Stored
  BY FreeNode DEF Stored
<1>2. /\ data' = CReplace(e, f, node) /\ inactive' = rest
      /\ active' = Append(active, f)
      /\ bucket' = [bucket EXCEPT ![h] = Append(bucket[h], f)]
      /\ entries' = Append(entries, new)
  BY DEF MapAdd
<1>3. node \in MapNodes /\ node.hashed = TRUE /\ new \in Entries
  BY <1>1 DEF MapNode, MapNodes, Entries
<1>4. new.index = f /\ new.key = key /\ new.value = stored
  OBVIOUS
<1> HIDE DEF f, e, rest, new, stored
<1>5. /\ MapTyped /\ n \in Nat /\ data.len \in Nat /\ h \in MapBuckets
      /\ entries \in Seq(Entries) /\ active \in Seq(Nat) /\ Len(active) = n
      /\ bucket \in [MapBuckets -> Seq(Nat)]
  BY AllocSizeNat DEF MapInv, MapTyped, ActiveListed, HashesKeys
<1>6. /\ data' \in CArrays(MapNodes) /\ data'.len = e.len
      /\ CSlot(data', f) = node
      /\ \A x \in Nat : x < data.len /\ x # f => CSlot(data', x) = CSlot(data, x)
  <2>1. e.len \in Nat /\ CAllocSize(e) \in Nat /\ e.len <= CAllocSize(e)
    BY <1>1, AllocSizeNat
  <2>2. /\ CReplace(e, f, node) \in CArrays(MapNodes)
        /\ CReplace(e, f, node).len = e.len
        /\ CSlot(CReplace(e, f, node), f) = node
        /\ \A x \in 0..(CAllocSize(e) - 1) :
             CSlot(CReplace(e, f, node), x) = IF x = f THEN node ELSE CSlot(e, x)
    <3>1. Zero \in MapNodes
      BY DEF MapNodes
    <3>2. node \in MapNodes /\ e \in CArrays(MapNodes) /\ f \in Nat
      BY <1>1, <1>3
    <3> HIDE DEF node
    <3> QED BY <3>1, <3>2, ReplaceKeeps
  <2> HIDE DEF node
  <2> QED BY <1>1, <1>2, <1>5, <2>1, <2>2
<1>7. /\ entries' \in Seq(Entries) /\ Len(entries') = n + 1
      /\ \A i \in 1..n : entries'[i] = entries[i]
      /\ entries'[n + 1] = new
  BY <1>2, <1>3, <1>5, AppendProperties
<1>8. /\ active' \in Seq(Nat) /\ Len(active') = n + 1
      /\ \A i \in 1..n : active'[i] = active[i]
      /\ active'[n + 1] = f
  BY <1>1, <1>2, <1>5, AppendProperties
<1>9. /\ bucket' \in [MapBuckets -> Seq(Nat)]
      /\ \A b \in MapBuckets : b # h => bucket'[b] = bucket[b]
      /\ Len(bucket'[h]) = Len(bucket[h]) + 1 /\ Len(bucket[h]) \in Nat
      /\ \A p \in 1..Len(bucket[h]) : bucket'[h][p] = bucket[h][p]
      /\ bucket'[h][Len(bucket[h]) + 1] = f
  <2>1. bucket[h] \in Seq(Nat)
    BY <1>5
  <2>2. /\ Append(bucket[h], f) \in Seq(Nat)
        /\ Len(Append(bucket[h], f)) = Len(bucket[h]) + 1
        /\ \A p \in 1..Len(bucket[h]) : Append(bucket[h], f)[p] = bucket[h][p]
        /\ Append(bucket[h], f)[Len(bucket[h]) + 1] = f
    BY <1>1, <2>1, AppendProperties
  <2> HIDE DEF h
  <2> QED BY <1>2, <1>5, <2>1, <2>2
<1> HIDE DEF n, h, node
<1>10. MapTyped'
  BY <1>1, <1>2, <1>6, <1>7, <1>8, <1>9 DEF MapTyped
<1>11. ActiveListed'
  <2>1. \A i \in 1..n : active[i] = entries[i].index
    BY DEF MapInv, ActiveListed, n
  <2>2. \A i \in 1..(n + 1) : i \in 1..n \/ i = n + 1
    BY <1>5
  <2>3. \A i \in 1..(n + 1) : active'[i] = entries'[i].index
    BY <1>4, <1>7, <1>8, <2>1, <2>2
  <2> QED BY <1>7, <1>8, <2>3 DEF ActiveListed
<1>12. EntriesStored'
  <2>1. ASSUME NEW i \in 1..n
        PROVE  /\ entries'[i].index < data'.len
               /\ CSlot(data', entries'[i].index) = MapNode(entries'[i].key, entries'[i].value, TRUE)
    <3>1. entries[i].index \in Nat
      BY <1>5, EntryTyped DEF n
    <3>2. /\ entries[i].index < data.len
          /\ CSlot(data, entries[i].index) = MapNode(entries[i].key, entries[i].value, TRUE)
      BY DEF MapInv, EntriesStored, n
    <3>3. CSlot(data', entries[i].index) = CSlot(data, entries[i].index)
      BY <1>1, <1>6, <3>1, <3>2
    <3>4. entries[i].index < data'.len
      BY SMTT(30), <1>1, <1>5, <1>6, <3>1, <3>2, AllocSizeNat
    <3> QED BY <1>7, <3>2, <3>3, <3>4
  <2>2. /\ entries'[n + 1].index < data'.len
        /\ CSlot(data', entries'[n + 1].index)
             = MapNode(entries'[n + 1].key, entries'[n + 1].value, TRUE)
    BY <1>1, <1>4, <1>6, <1>7 DEF node
  <2>3. \A i, j \in 1..n : entries[i].index = entries[j].index => i = j
    BY DEF MapInv, EntriesStored, n
  <2>4. \A i \in 1..(n + 1) : i \in 1..n \/ i = n + 1
    BY <1>5
  <2>5. /\ entries'[n + 1].index = f
        /\ \A i \in 1..n : entries'[i].index = entries[i].index /\ entries[i].index # f
    BY <1>1, <1>4, <1>7
  <2>6. \A i, j \in 1..(n + 1) : entries'[i].index = entries'[j].index => i = j
    BY <2>3, <2>4, <2>5
  <2> QED BY <1>7, <2>1, <2>2, <2>4, <2>6 DEF EntriesStored
<1>13. InactiveFree'
  <2>1. ASSUME NEW p \in 1..Len(rest)
        PROVE  rest[p] < data'.len /\ IsFree(CSlot(data', rest[p]))
    <3>1. PICK q \in 1..Len(inactive) : rest[p] = inactive[q]
      BY <1>1
    <3>2. rest[p] < data.len /\ IsFree(CSlot(data, rest[p])) /\ rest[p] # f /\ rest[p] \in Nat
      BY <1>1, <3>1 DEF MapInv, InactiveFree
    <3>3. CSlot(data', rest[p]) = CSlot(data, rest[p])
      BY <1>6, <3>2
    <3>4. rest[p] < data'.len
      BY SMTT(30), <1>1, <1>5, <1>6, <3>2, AllocSizeNat
    <3> QED BY <3>2, <3>3, <3>4
  <2> QED BY <1>1, <1>2, <2>1 DEF InactiveFree
<1>14. RestUnhashed'
  <2> SUFFICES ASSUME NEW x \in Nat, x < data'.len,
                      \A i \in 1..Len(entries') : entries'[i].index # x
               PROVE  ~CSlot(data', x).hashed
    BY DEF RestUnhashed
  <2>1. x # f
    BY <1>4, <1>5, <1>7
  <2>2. x < data.len
    BY <1>1, <1>6, <2>1
  <2>3. \A i \in 1..n : entries[i].index # x
    BY <1>5, <1>7
  <2>4. ~CSlot(data, x).hashed
    BY <2>2, <2>3 DEF MapInv, RestUnhashed, n
  <2> QED BY <1>6, <2>1, <2>2, <2>4
<1>15. BucketsTrue'
  <2> SUFFICES ASSUME NEW b \in MapBuckets, NEW p \in 1..Len(bucket'[b])
               PROVE  \E i \in 1..Len(entries') :
                        bucket'[b][p] = entries'[i].index /\ MapHash(entries'[i].key) = b
    BY DEF BucketsTrue
  <2>1. CASE p \in 1..Len(bucket[b]) /\ bucket'[b][p] = bucket[b][p]
    <3>1. PICK i \in 1..n : bucket[b][p] = entries[i].index /\ MapHash(entries[i].key) = b
      BY <2>1 DEF MapInv, BucketsTrue, n
    <3>2. i \in 1..(n + 1)
      BY <1>5
    <3>3. i \in 1..Len(entries') /\ entries'[i] = entries[i]
      BY <1>7, <3>2
    <3> QED BY <2>1, <3>1, <3>3
  <2>2. CASE b = h /\ p = Len(bucket[h]) + 1
    <3>1. n + 1 \in 1..Len(entries') /\ entries'[n + 1].index = f /\ entries'[n + 1].key = key
      BY <1>4, <1>5, <1>7
    <3> QED BY <1>9, <2>2, <3>1 DEF h
  <2>3. CASE b # h
    <3>1. bucket'[b] = bucket[b]
      BY <1>9, <2>3
    <3> QED BY <2>1, <3>1
  <2>4. CASE b = h
    <3>1. p \in 1..(Len(bucket[h]) + 1) /\ Len(bucket[h]) \in Nat
      BY <1>9, <2>4
    <3>2. p \in 1..Len(bucket[h]) \/ p = Len(bucket[h]) + 1
      BY <3>1
    <3>3. CASE p \in 1..Len(bucket[h])
      <4>1. bucket'[h][p] = bucket[h][p]
        BY <1>9, <3>3
      <4> QED BY <2>1, <2>4, <3>3, <4>1
    <3> QED BY <2>2, <2>4, <3>2, <3>3
  <2> QED BY <2>3, <2>4
<1>16. BucketsFull'
  <2> SUFFICES ASSUME NEW i \in 1..(n + 1)
               PROVE  \E p \in 1..Len(bucket'[MapHash(entries'[i].key)]) :
                        bucket'[MapHash(entries'[i].key)][p] = entries'[i].index
    BY <1>7 DEF BucketsFull
  <2>1. CASE i = n + 1
    <3>1. entries'[i].key = key /\ entries'[i].index = f
      BY <1>4, <1>7, <2>1
    <3>2. Len(bucket[h]) + 1 \in 1..Len(bucket'[h])
      BY <1>9
    <3>3. MapHash(entries'[i].key) = h
      BY <3>1 DEF h
    <3> QED BY <1>9, <3>1, <3>2, <3>3
  <2>2. CASE i \in 1..n
    <3> DEFINE b == MapHash(entries[i].key)
    <3>1. b \in MapBuckets
      BY <1>5, <2>2, EntryTyped DEF HashesKeys, n
    <3>2. PICK p \in 1..Len(bucket[b]) : bucket[b][p] = entries[i].index
      BY <2>2 DEF MapInv, BucketsFull, n
    <3> HIDE DEF b
    <3>3. p \in 1..Len(bucket'[b]) /\ bucket'[b][p] = bucket[b][p]
      <4>1. CASE b = h
        <5>1. p \in 1..Len(bucket[h]) /\ p \in 1..(Len(bucket[h]) + 1)
          BY <1>9, <4>1
        <5> QED BY <1>9, <4>1, <5>1
      <4>2. CASE b # h
        <5>1. bucket'[b] = bucket[b]
          BY <1>9, <3>1, <4>2
        <5> QED BY <5>1
      <4> QED BY <4>1, <4>2
    <3> QED BY <1>7, <2>2, <3>2, <3>3 DEF b
  <2> QED BY <1>5, <2>1, <2>2
<1>17. BucketsOrdered'
  <2> SUFFICES ASSUME NEW b \in MapBuckets, NEW p \in 1..Len(bucket'[b]),
                      NEW q \in 1..Len(bucket'[b]),
                      NEW i \in 1..(n + 1), NEW j \in 1..(n + 1), p < q,
                      bucket'[b][p] = entries'[i].index, bucket'[b][q] = entries'[j].index
               PROVE  i < j
    BY <1>7 DEF BucketsOrdered
  <2>1. ASSUME NEW r \in 1..Len(bucket[b])
        PROVE  bucket'[b][r] = bucket[b][r] /\ bucket[b][r] # f
    <3>1. PICK k \in 1..n : bucket[b][r] = entries[k].index
      BY DEF MapInv, BucketsTrue, n
    <3> QED BY <1>1, <1>9, <3>1
  <2>2. bucket[b] \in Seq(Nat) /\ Len(bucket[b]) \in Nat
    BY <1>5
  <2>3. p \in 1..Len(bucket[b])
    <3>1. CASE b = h
      BY <1>9, <3>1, <2>2
    <3>2. CASE b # h
      BY <1>9, <3>2, <2>2
    <3> QED BY <3>1, <3>2
  <2>4. /\ i \in 1..n \/ i = n + 1
        /\ j \in 1..n \/ j = n + 1
        /\ entries'[n + 1].index = f
    BY <1>4, <1>5, <1>7
  <2>5. i \in 1..n /\ entries'[i] = entries[i]
    BY <1>7, <2>1, <2>3, <2>4
  <2>6. CASE q \in 1..Len(bucket[b])
    <3>1. j \in 1..n /\ entries'[j] = entries[j]
      BY <1>7, <2>1, <2>4, <2>6
    <3>2. bucket[b][p] = entries[i].index /\ bucket[b][q] = entries[j].index
      BY <2>1, <2>3, <2>5, <2>6, <3>1
    <3>3. \A k, l \in 1..n :
            bucket[b][p] = entries[k].index /\ bucket[b][q] = entries[l].index => k < l
      BY <2>3, <2>6 DEF MapInv, BucketsOrdered, n
    <3> QED BY <2>5, <3>1, <3>2, <3>3
  <2>7. CASE ~(q \in 1..Len(bucket[b]))
    <3>1. b = h /\ q = Len(bucket[h]) + 1
      <4>1. b = h
        BY <1>9, <2>7
      <4>2. q \in 1..(Len(bucket[h]) + 1)
        BY <1>9, <4>1
      <4> QED BY SMTT(30), <1>9, <2>7, <4>1, <4>2
    <3>2. entries'[j].index = f
      BY <1>9, <3>1
    <3>3. j = n + 1
      BY <1>1, <1>7, <2>4, <3>2
    <3> QED BY <1>5, <2>5, <3>3
  <2> QED BY <2>6, <2>7
<1> QED BY <1>10, <1>11, <1>12, <1>13, <1>14, <1>15, <1>16, <1>17 DEF MapInv

-----------------------------------------------------------------------------
(* When a value is set, and when an entry is deleted.                      *)

\* Within the length a node that is written is in the place of the one that
\* was there.
LEMMA NodeWritten ==
  ASSUME MapTyped, NEW index \in Nat, index < data.len, NEW node \in MapNodes
  PROVE  /\ CReplace(data, index, node) \in CArrays(MapNodes)
         /\ CReplace(data, index, node).len = data.len
         /\ \A x \in Nat : x < data.len =>
              CSlot(CReplace(data, index, node), x) = IF x = index THEN node ELSE CSlot(data, x)
<1>1. /\ data \in CArrays(MapNodes) /\ data.len \in Nat /\ CAllocSize(data) \in Nat
      /\ data.len <= CAllocSize(data)
  BY AllocSizeNat DEF MapTyped
<1>2. Zero \in MapNodes
  BY DEF MapNodes
<1>3. /\ CReplace(data, index, node) \in CArrays(MapNodes)
      /\ CReplace(data, index, node).len = data.len
      /\ \A x \in 0..(CAllocSize(data) - 1) :
           CSlot(CReplace(data, index, node), x) = IF x = index THEN node ELSE CSlot(data, x)
  BY <1>1, <1>2, ReplaceKeeps
<1> QED BY <1>1, <1>3

LEMMA SetKeeps ==
  ASSUME MapInv, NEW index \in Nat, NEW value \in MapValues, MapSetValue(index, value)
  PROVE  MapInv'
<1> DEFINE node == [CSlot(data, index) EXCEPT !.value = value]
           n == Len(entries)
<1>1. /\ IsNode(index) /\ data' = CReplace(data, index, node)
      /\ active' = active /\ inactive' = inactive /\ bucket' = bucket
  BY DEF MapSetValue
<1>2. PICK k \in 1..n : entries[k].index = index
  BY <1>1, NodeEntry
<1>3. CSlot(data, index) = MapNode(entries[k].key, entries[k].value, TRUE)
  BY <1>2 DEF MapInv, EntriesStored
<1>4. /\ MapTyped /\ entries \in Seq(Entries) /\ n \in Nat /\ DOMAIN entries = 1..n
      /\ entries[k].key \in Keys
  <2>1. MapTyped
    BY DEF MapInv
  <2>2. entries \in Seq(Entries)
    BY <2>1 DEF MapTyped
  <2>3. n \in Nat /\ DOMAIN entries = 1..n
    BY <2>2
  <2>4. entries[k].key \in Keys
    BY <2>1, EntryTyped
  <2> QED BY <2>1, <2>2, <2>3, <2>4
<1>5. node = MapNode(entries[k].key, value, TRUE) /\ node \in MapNodes /\ node.hashed = TRUE
  <2> DEFINE Records == [key : Keys \cup {None}, value : Stored, hashed : BOOLEAN]
             old == CSlot(data, index)
  <2>1. entries[k].value \in Stored /\ value \in Stored
    BY <1>4, EntryTyped DEF Stored
  <2>2. old \in Records /\ old.key = entries[k].key /\ old.hashed = TRUE
    BY <1>3, <1>4, <2>1 DEF MapNode
  <2> HIDE DEF old
  <2>3. node \in Records /\ node.key = entries[k].key /\ node.value = value /\ node.hashed = TRUE
    BY <2>1, <2>2 DEF old
  <2> HIDE DEF node
  <2>4. node = [key |-> node.key, value |-> node.value, hashed |-> node.hashed]
    BY <2>3
  <2> QED BY <2>3, <2>4 DEF MapNode, MapNodes
<1>6. /\ data' \in CArrays(MapNodes) /\ data'.len = data.len
      /\ \A x \in Nat : x < data.len =>
           CSlot(data', x) = IF x = index THEN node ELSE CSlot(data, x)
  <2>1. index < data.len
    BY <1>1 DEF IsNode
  <2> HIDE DEF node
  <2>2. /\ CReplace(data, index, node) \in CArrays(MapNodes)
        /\ CReplace(data, index, node).len = data.len
        /\ \A x \in Nat : x < data.len =>
             CSlot(CReplace(data, index, node), x) = IF x = index THEN node ELSE CSlot(data, x)
    BY <1>4, <1>5, <2>1, NodeWritten
  <2> QED BY <1>1, <2>2
<1> HIDE DEF node
<1>7. /\ entries' \in Seq(Entries) /\ Len(entries') = n
      /\ \A i \in 1..n :
           /\ entries'[i].index = entries[i].index /\ entries'[i].key = entries[i].key
           /\ entries'[i].value = IF entries[i].index = index THEN value ELSE entries[i].value
  <2> DEFINE changed(i) == IF entries[i].index = index THEN [entries[i] EXCEPT !.value = value]
                           ELSE entries[i]
  <2>1. ASSUME NEW i \in 1..n
        PROVE  /\ changed(i) \in Entries
               /\ changed(i).index = entries[i].index /\ changed(i).key = entries[i].key
               /\ changed(i).value = IF entries[i].index = index THEN value ELSE entries[i].value
    <3>1. entries[i] \in Entries /\ value \in Stored
      BY <1>4 DEF Stored
    <3> QED BY <3>1 DEF Entries
  <2>2. entries' = [i \in 1..n |-> changed(i)]
    BY <1>4 DEF MapSetValue
  <2> HIDE DEF changed
  <2>3. entries' \in Seq(Entries) /\ Len(entries') = n /\ \A i \in 1..n : entries'[i] = changed(i)
    BY <1>4, <2>1, <2>2
  <2> QED BY <2>1, <2>3
<1> HIDE DEF n
<1>8. MapTyped'
  BY <1>1, <1>4, <1>6, <1>7 DEF MapTyped
<1>9. ActiveListed'
  BY <1>1, <1>7 DEF MapInv, ActiveListed, n
<1>10. EntriesStored'
  <2>1. ASSUME NEW i \in 1..n
        PROVE  /\ entries'[i].index < data'.len
               /\ CSlot(data', entries'[i].index) = MapNode(entries'[i].key, entries'[i].value, TRUE)
    <3>1. entries[i].index \in Nat
      BY <1>4, EntryTyped DEF n
    <3>2. /\ entries[i].index < data.len
          /\ CSlot(data, entries[i].index) = MapNode(entries[i].key, entries[i].value, TRUE)
      BY DEF MapInv, EntriesStored, n
    <3>3. entries[i].index = index => i = k
      BY <1>2 DEF MapInv, EntriesStored, n
    <3> QED BY <1>2, <1>5, <1>6, <1>7, <3>1, <3>2, <3>3
  <2>2. \A i, j \in 1..n : entries[i].index = entries[j].index => i = j
    BY DEF MapInv, EntriesStored, n
  <2> QED BY <1>7, <2>1, <2>2 DEF EntriesStored
<1>11. InactiveFree'
  <2>1. ASSUME NEW p \in 1..Len(inactive)
        PROVE  inactive[p] < data'.len /\ IsFree(CSlot(data', inactive[p]))
    <3>1. inactive[p] < data.len /\ IsFree(CSlot(data, inactive[p])) /\ inactive[p] \in Nat
      BY DEF MapInv, InactiveFree, MapTyped
    <3>2. inactive[p] # index
      BY <1>1, <3>1 DEF IsNode, IsFree
    <3> QED BY <1>6, <3>1, <3>2
  <2> QED BY <1>1, <2>1 DEF MapInv, InactiveFree
<1>12. RestUnhashed'
  <2> SUFFICES ASSUME NEW x \in Nat, x < data.len,
                      \A i \in 1..n : entries[i].index # x
               PROVE  ~CSlot(data', x).hashed
    BY <1>6, <1>7 DEF RestUnhashed
  <2>1. x # index
    BY <1>2
  <2>2. ~CSlot(data, x).hashed
    BY DEF MapInv, RestUnhashed, n
  <2> QED BY <1>6, <2>1, <2>2
<1>13. BucketsTrue' /\ BucketsFull' /\ BucketsOrdered'
  <2>1. BucketsTrue'
    BY SMTT(30), <1>1, <1>7 DEF MapInv, BucketsTrue, n
  <2>2. BucketsFull'
    BY <1>1, <1>7 DEF MapInv, BucketsFull, n
  <2>3. BucketsOrdered'
    <3>1. BucketsOrdered
      BY DEF MapInv
    <3>2. bucket' = bucket /\ Len(entries') = n
          /\ \A i \in 1..n : entries'[i].index = entries[i].index
      BY <1>1, <1>7
    <3> QED BY <3>1, <3>2 DEF BucketsOrdered, n
  <2> QED BY <2>1, <2>2, <2>3
<1> QED BY <1>8, <1>9, <1>10, <1>11, <1>12, <1>13 DEF MapInv

LEMMA InOrder ==
  ASSUME MapInv, NEW b \in MapBuckets,
         NEW p \in 1..Len(bucket[b]), NEW q \in 1..Len(bucket[b]), p < q
  PROVE  \A i, j \in 1..Len(entries) :
           bucket[b][p] = entries[i].index /\ bucket[b][q] = entries[j].index => i < j
BY Zenon DEF MapInv, BucketsOrdered

\* A bucket has an index once.
LEMMA BucketApart ==
  ASSUME MapInv, NEW b \in MapBuckets,
         NEW p \in 1..Len(bucket[b]), NEW q \in 1..Len(bucket[b]), bucket[b][p] = bucket[b][q]
  PROVE  p = q
<1>1. PICK i \in 1..Len(entries) : bucket[b][p] = entries[i].index
  BY DEF MapInv, BucketsTrue
<1>2. i \in Nat /\ ~(i < i) /\ Len(bucket[b]) \in Nat
  BY DEF MapInv, MapTyped
<1>3. p < q => i < i
  BY <1>1, InOrder
<1>4. q < p => i < i
  BY <1>1, InOrder
<1> QED BY <1>2, <1>3, <1>4

\* The place in a sequence of what is at place i when place k is taken out.
Before(k, i) == IF i < k THEN i ELSE i + 1

LEMMA BeforeProperties ==
  ASSUME NEW n \in Nat, NEW k \in 1..n
  PROVE  /\ \A i \in 1..(n - 1) : Before(k, i) \in 1..n /\ Before(k, i) # k
         /\ \A j \in 1..n : j # k => \E i \in 1..(n - 1) : Before(k, i) = j
         /\ \A i, j \in 1..(n - 1) : i < j <=> Before(k, i) < Before(k, j)
<1>1. ASSUME NEW j \in 1..n, j # k
      PROVE  \E i \in 1..(n - 1) : Before(k, i) = j
  <2>1. CASE j < k
    BY <2>1 DEF Before
  <2>2. CASE j > k
    <3>1. j - 1 \in 1..(n - 1) /\ Before(k, j - 1) = j
      BY <2>2 DEF Before
    <3> QED BY <3>1
  <2> QED BY <1>1, <2>1, <2>2
<1> QED BY <1>1 DEF Before

LEMMA DeleteKeeps ==
  ASSUME HashesKeys, MapInv, NEW index \in Nat, MapDelete(index)
  PROVE  MapInv'
<1> DEFINE n == Len(entries)
           node == MapNode(None, Value(index), FALSE)
<1>1. IsNode(index) /\ index < data.len
  BY DEF MapDelete, IsNode
<1>2. PICK k \in 1..n : entries[k].index = index
  BY <1>1, NodeEntry
<1> DEFINE h == MapHash(entries[k].key)
<1>3. /\ MapTyped /\ n \in Nat /\ h \in MapBuckets
      /\ entries \in Seq(Entries) /\ active \in Seq(Nat) /\ Len(active) = n
      /\ inactive \in Seq(Nat) /\ bucket \in [MapBuckets -> Seq(Nat)]
      /\ bucket[h] \in Seq(Nat) /\ Len(bucket[h]) \in Nat
  <2>1. h \in MapBuckets
    BY EntryTyped DEF MapInv, HashesKeys
  <2> QED BY <2>1 DEF MapInv, MapTyped, ActiveListed
<1>4. EntryOf(index) = k /\ Key(index) = entries[k].key /\ Value(index) = entries[k].value
  BY <1>2, EntryOfFinds, EntryNode
<1>5. PICK m \in 1..Len(bucket[h]) : bucket[h][m] = index
  BY <1>2 DEF MapInv, BucketsFull
<1>6. PlaceIn(active, index) = k
  <2>1. DOMAIN active = 1..n /\ \A i \in 1..n : active[i] = entries[i].index
    BY <1>3 DEF MapInv, ActiveListed
  <2>2. active[k] = index /\ \A i \in 1..n : active[i] = active[k] => i = k
    BY <1>2, <2>1 DEF MapInv, EntriesStored
  <2> QED BY <1>2, <2>1, <2>2, PlaceInFinds
<1>7. PlaceIn(bucket[h], index) = m
  <2>1. DOMAIN bucket[h] = 1..Len(bucket[h])
    BY <1>3
  <2>2. \A p \in 1..Len(bucket[h]) : bucket[h][p] = bucket[h][m] => p = m
    BY <1>3, <1>5, BucketApart
  <2> QED BY <1>5, <2>1, <2>2, PlaceInFinds
<1> HIDE DEF h
<1>8. /\ data' = CReplace(data, index, node)
      /\ bucket' = [bucket EXCEPT ![h] = RemoveAt(bucket[h], m)]
      /\ active' = RemoveAt(active, k)
      /\ inactive' = Append(inactive, index)
      /\ entries' = RemoveAt(entries, k)
  BY <1>4, <1>6, <1>7 DEF MapDelete, ListDel, h
<1>9. node \in MapNodes /\ node.hashed = FALSE /\ IsFree(node)
  <2>1. Value(index) \in Stored
    BY <1>3, <1>4, EntryTyped
  <2> QED BY <2>1 DEF MapNodes, MapNode, IsFree
<1>10. /\ data' \in CArrays(MapNodes) /\ data'.len = data.len
       /\ \A x \in Nat : x < data.len =>
            CSlot(data', x) = IF x = index THEN node ELSE CSlot(data, x)
  <2> HIDE DEF node
  <2>1. /\ CReplace(data, index, node) \in CArrays(MapNodes)
        /\ CReplace(data, index, node).len = data.len
        /\ \A x \in Nat : x < data.len =>
             CSlot(CReplace(data, index, node), x) = IF x = index THEN node ELSE CSlot(data, x)
    BY <1>1, <1>3, <1>9, NodeWritten
  <2> QED BY <1>8, <2>1
<1> HIDE DEF node
<1>11. /\ entries' \in Seq(Entries) /\ Len(entries') = n - 1
       /\ \A i \in 1..(n - 1) : entries'[i] = entries[Before(k, i)]
  BY <1>2, <1>3, <1>8, RemoveAtProperties DEF Before
<1>12. /\ active' \in Seq(Nat) /\ Len(active') = n - 1
       /\ \A i \in 1..(n - 1) : active'[i] = active[Before(k, i)]
  <2>1. /\ RemoveAt(active, k) \in Seq(Nat) /\ Len(RemoveAt(active, k)) = n - 1
        /\ \A i \in 1..(n - 1) : RemoveAt(active, k)[i] = active[Before(k, i)]
    <3> HIDE DEF n
    <3> QED BY <1>2, <1>3, RemoveAtProperties DEF Before
  <2> QED BY <1>8, <2>1
<1>13. /\ bucket' \in [MapBuckets -> Seq(Nat)]
       /\ \A b \in MapBuckets : b # h => bucket'[b] = bucket[b]
       /\ Len(bucket'[h]) = Len(bucket[h]) - 1
       /\ \A p \in 1..(Len(bucket[h]) - 1) : bucket'[h][p] = bucket[h][Before(m, p)]
  <2>1. /\ RemoveAt(bucket[h], m) \in Seq(Nat)
        /\ Len(RemoveAt(bucket[h], m)) = Len(bucket[h]) - 1
        /\ \A p \in 1..(Len(bucket[h]) - 1) :
             RemoveAt(bucket[h], m)[p] = bucket[h][Before(m, p)]
    BY <1>3, <1>5, RemoveAtProperties DEF Before
  <2> QED BY <1>3, <1>8, <2>1
<1>14. /\ inactive' \in Seq(Nat) /\ Len(inactive') = Len(inactive) + 1 /\ Len(inactive) \in Nat
       /\ \A p \in 1..Len(inactive) : inactive'[p] = inactive[p]
       /\ inactive'[Len(inactive) + 1] = index
  BY <1>3, <1>8, AppendProperties
<1>15. /\ \A i \in 1..(n - 1) : Before(k, i) \in 1..n /\ Before(k, i) # k
       /\ \A j \in 1..n : j # k => \E i \in 1..(n - 1) : Before(k, i) = j
       /\ \A i, j \in 1..(n - 1) : i < j <=> Before(k, i) < Before(k, j)
  BY <1>2, <1>3, BeforeProperties
<1>16. \A i, j \in 1..n : entries[i].index = entries[j].index => i = j
  BY DEF MapInv, EntriesStored, n
<1> HIDE DEF n
<1>17. MapTyped'
  BY <1>10, <1>11, <1>12, <1>13, <1>14 DEF MapTyped
<1>18. ActiveListed'
  <2>1. \A i \in 1..n : active[i] = entries[i].index
    BY DEF MapInv, ActiveListed, n
  <2> QED BY <1>11, <1>12, <1>15, <2>1 DEF ActiveListed
<1>19. EntriesStored'
  <2>1. ASSUME NEW i \in 1..n, i # k
        PROVE  /\ entries[i].index < data'.len
               /\ CSlot(data', entries[i].index) = MapNode(entries[i].key, entries[i].value, TRUE)
    <3>1. entries[i].index \in Nat /\ entries[i].index # index
      BY <1>2, <1>3, <1>16, <2>1, EntryTyped DEF n
    <3>2. /\ entries[i].index < data.len
          /\ CSlot(data, entries[i].index) = MapNode(entries[i].key, entries[i].value, TRUE)
      BY DEF MapInv, EntriesStored, n
    <3> QED BY <1>10, <3>1, <3>2
  <2>2. \A i, j \in 1..(n - 1) : entries'[i].index = entries'[j].index => i = j
    <3> SUFFICES ASSUME NEW i \in 1..(n - 1), NEW j \in 1..(n - 1),
                        entries'[i].index = entries'[j].index
                 PROVE  i = j
      OBVIOUS
    <3>1. Before(k, i) = Before(k, j)
      BY <1>11, <1>15, <1>16
    <3>2. n \in Nat /\ k \in Nat
      BY <1>2, <1>3
    <3> QED BY <3>1, <3>2 DEF Before
  <2> QED BY <1>11, <1>15, <2>1, <2>2 DEF EntriesStored
<1>20. InactiveFree'
  <2>1. ASSUME NEW p \in 1..Len(inactive)
        PROVE  /\ inactive[p] < data'.len /\ IsFree(CSlot(data', inactive[p]))
               /\ inactive[p] # index
    <3>1. inactive[p] < data.len /\ IsFree(CSlot(data, inactive[p])) /\ inactive[p] \in Nat
      <4>1. InactiveFree
        BY DEF MapInv
      <4>2. inactive[p] < data.len /\ IsFree(CSlot(data, inactive[p]))
        BY <4>1 DEF InactiveFree
      <4>3. inactive[p] \in Nat
        BY <1>3
      <4> QED BY <4>2, <4>3
    <3>2. inactive[p] # index
      BY <1>1, <3>1 DEF IsNode, IsFree
    <3> QED BY <1>10, <3>1, <3>2
  <2>2. index < data'.len /\ IsFree(CSlot(data', index))
    BY <1>1, <1>9, <1>10
  <2>3. \A p \in 1..Len(inactive') : p \in 1..Len(inactive) \/ p = Len(inactive) + 1
    BY <1>14
  <2>4. \A p, q \in 1..Len(inactive) : inactive[p] = inactive[q] => p = q
    BY DEF MapInv, InactiveFree
  <2>5. \A p \in 1..Len(inactive') : inactive'[p] < data'.len /\ IsFree(CSlot(data', inactive'[p]))
    BY <1>14, <2>1, <2>2, <2>3
  <2>6. \A p, q \in 1..Len(inactive') : inactive'[p] = inactive'[q] => p = q
    BY <1>14, <2>1, <2>3, <2>4
  <2> QED BY <2>5, <2>6 DEF InactiveFree
<1>21. RestUnhashed'
  <2> SUFFICES ASSUME NEW x \in Nat, x < data.len,
                      \A i \in 1..(n - 1) : entries'[i].index # x
               PROVE  ~CSlot(data', x).hashed
    BY <1>10, <1>11 DEF RestUnhashed
  <2>1. CASE x = index
    BY <1>9, <1>10, <2>1
  <2>2. CASE x # index
    <3>1. \A j \in 1..n : entries[j].index # x
      BY <1>2, <1>11, <1>15, <2>2
    <3>2. ~CSlot(data, x).hashed
      BY <3>1 DEF MapInv, RestUnhashed, n
    <3> QED BY <1>10, <2>2, <3>2
  <2> QED BY <2>1, <2>2
\* What is in a bucket now was there before, in the same order, and is not
\* the entry that is deleted.
<1>22. ASSUME NEW b \in MapBuckets
       PROVE  /\ \A p \in 1..Len(bucket'[b]) : \E r \in 1..Len(bucket[b]) :
                   bucket'[b][p] = bucket[b][r] /\ bucket[b][r] # index
              /\ \A p, q \in 1..Len(bucket'[b]) : p < q =>
                   \E r, s \in 1..Len(bucket[b]) :
                     r < s /\ bucket'[b][p] = bucket[b][r] /\ bucket'[b][q] = bucket[b][s]
              /\ \A r \in 1..Len(bucket[b]) : bucket[b][r] # index =>
                   \E p \in 1..Len(bucket'[b]) : bucket'[b][p] = bucket[b][r]
  <2>1. CASE b = h
    <3>0. /\ Len(bucket'[b]) = Len(bucket[b]) - 1 /\ Len(bucket[b]) \in Nat
          /\ \A p \in 1..(Len(bucket[b]) - 1) : bucket'[b][p] = bucket[b][Before(m, p)]
          /\ m \in 1..Len(bucket[b]) /\ bucket[b][m] = index
      BY <1>3, <1>5, <1>13, <2>1
    <3>1. /\ \A p \in 1..(Len(bucket[b]) - 1) :
               Before(m, p) \in 1..Len(bucket[b]) /\ Before(m, p) # m
          /\ \A r \in 1..Len(bucket[b]) : r # m =>
               \E p \in 1..(Len(bucket[b]) - 1) : Before(m, p) = r
          /\ \A p, q \in 1..(Len(bucket[b]) - 1) : p < q <=> Before(m, p) < Before(m, q)
      BY <3>0, BeforeProperties
    <3>2. \A r \in 1..Len(bucket[b]) : bucket[b][r] = index <=> r = m
      BY <3>0, BucketApart
    <3>3. \A p \in 1..Len(bucket'[b]) : \E r \in 1..Len(bucket[b]) :
            bucket'[b][p] = bucket[b][r] /\ bucket[b][r] # index
      BY <3>0, <3>1, <3>2
    <3>4. \A p, q \in 1..Len(bucket'[b]) : p < q =>
            \E r, s \in 1..Len(bucket[b]) :
              r < s /\ bucket'[b][p] = bucket[b][r] /\ bucket'[b][q] = bucket[b][s]
      <4> SUFFICES ASSUME NEW p \in 1..Len(bucket'[b]), NEW q \in 1..Len(bucket'[b]), p < q
                   PROVE  \E r, s \in 1..Len(bucket[b]) :
                            r < s /\ bucket'[b][p] = bucket[b][r] /\ bucket'[b][q] = bucket[b][s]
        OBVIOUS
      <4>1. /\ p \in 1..(Len(bucket[b]) - 1) /\ bucket'[b][p] = bucket[b][Before(m, p)]
            /\ q \in 1..(Len(bucket[b]) - 1) /\ bucket'[b][q] = bucket[b][Before(m, q)]
        BY <3>0
      <4>2. /\ Before(m, p) \in 1..Len(bucket[b]) /\ Before(m, q) \in 1..Len(bucket[b])
            /\ Before(m, p) < Before(m, q)
        BY <3>1, <4>1
      <4> QED BY <4>1, <4>2
    <3>5. \A r \in 1..Len(bucket[b]) : bucket[b][r] # index =>
            \E p \in 1..Len(bucket'[b]) : bucket'[b][p] = bucket[b][r]
      BY <3>0, <3>1, <3>2
    <3> QED BY <3>3, <3>4, <3>5
  <2>2. CASE b # h
    <3>1. bucket'[b] = bucket[b]
      BY <1>13, <2>2
    <3>2. \A r \in 1..Len(bucket[b]) : bucket[b][r] # index
      <4> SUFFICES ASSUME NEW r \in 1..Len(bucket[b]), bucket[b][r] = index PROVE FALSE
        OBVIOUS
      <4>1. PICK i \in 1..n : bucket[b][r] = entries[i].index /\ MapHash(entries[i].key) = b
        BY DEF MapInv, BucketsTrue, n
      <4>2. i = k
        BY <1>2, <1>16, <4>1
      <4> QED BY <2>2, <4>1, <4>2 DEF h
    <3> QED BY <3>1, <3>2
  <2> QED BY <2>1, <2>2
<1>23. BucketsTrue'
  <2> SUFFICES ASSUME NEW b \in MapBuckets, NEW p \in 1..Len(bucket'[b])
               PROVE  \E i \in 1..(n - 1) :
                        bucket'[b][p] = entries'[i].index /\ MapHash(entries'[i].key) = b
    BY <1>11 DEF BucketsTrue
  <2>1. PICK r \in 1..Len(bucket[b]) : bucket'[b][p] = bucket[b][r] /\ bucket[b][r] # index
    BY <1>22
  <2>2. PICK j \in 1..n : bucket[b][r] = entries[j].index /\ MapHash(entries[j].key) = b
    BY DEF MapInv, BucketsTrue, n
  <2>3. PICK i \in 1..(n - 1) : Before(k, i) = j
    BY <1>2, <1>15, <2>1, <2>2
  <2>4. entries'[i] = entries[j]
    BY <1>11, <2>3
  <2> QED BY <2>1, <2>2, <2>4
<1>24. BucketsFull'
  <2> SUFFICES ASSUME NEW i \in 1..(n - 1)
               PROVE  \E p \in 1..Len(bucket'[MapHash(entries'[i].key)]) :
                        bucket'[MapHash(entries'[i].key)][p] = entries'[i].index
    BY <1>11 DEF BucketsFull
  <2> DEFINE j == Before(k, i)
             b == MapHash(entries[j].key)
  <2>1. j \in 1..n /\ j # k /\ entries'[i] = entries[j]
    BY <1>11, <1>15
  <2>2. entries[j].index # index
    BY <1>2, <1>16, <2>1
  <2>3. b \in MapBuckets
    BY <1>3, <2>1, EntryTyped DEF HashesKeys, n
  <2>4. PICK r \in 1..Len(bucket[b]) : bucket[b][r] = entries[j].index
    BY <2>1 DEF MapInv, BucketsFull, n
  <2> HIDE DEF b, j
  <2>5. PICK p \in 1..Len(bucket'[b]) : bucket'[b][p] = bucket[b][r]
    BY <1>22, <2>2, <2>3, <2>4
  <2>6. MapHash(entries'[i].key) = b /\ entries'[i].index = entries[j].index
    BY <2>1 DEF b
  <2> QED BY <2>4, <2>5, <2>6
<1>25. BucketsOrdered'
  <2> SUFFICES ASSUME NEW b \in MapBuckets, NEW p \in 1..Len(bucket'[b]),
                      NEW q \in 1..Len(bucket'[b]),
                      NEW i \in 1..(n - 1), NEW j \in 1..(n - 1), p < q,
                      bucket'[b][p] = entries'[i].index, bucket'[b][q] = entries'[j].index
               PROVE  i < j
    BY <1>11 DEF BucketsOrdered
  <2>1. PICK r \in 1..Len(bucket[b]), s \in 1..Len(bucket[b]) :
          r < s /\ bucket'[b][p] = bucket[b][r] /\ bucket'[b][q] = bucket[b][s]
    BY <1>22
  <2>2. /\ Before(k, i) \in 1..n /\ Before(k, j) \in 1..n
        /\ bucket[b][r] = entries[Before(k, i)].index
        /\ bucket[b][s] = entries[Before(k, j)].index
    BY <1>11, <1>15, <2>1
  <2>3. Before(k, i) < Before(k, j)
    BY <2>1, <2>2, InOrder DEF n
  <2> QED BY <1>15, <2>3
<1> QED BY <1>17, <1>18, <1>19, <1>20, <1>21, <1>23, <1>24, <1>25 DEF MapInv

-----------------------------------------------------------------------------
(* MapInv implies MapHolds.                                                *)

EntryIndex(i) == IF i \in 1..Len(entries) THEN entries[i].index ELSE None

LEMMA MapNeighbours ==
  ASSUME MapInv
  PROVE  /\ MapFirst = EntryIndex(1) /\ MapLast = EntryIndex(Len(entries))
         /\ \A i \in 1..Len(entries) :
              /\ MapNext(entries[i].index) = EntryIndex(i + 1)
              /\ MapPrev(entries[i].index) = EntryIndex(i - 1)
<1> DEFINE n == Len(entries)
<1>1. /\ active \in Seq(Nat) /\ Len(active) = n /\ n \in Nat /\ DOMAIN active = 1..n
      /\ \A i \in 1..n : active[i] = entries[i].index
  BY DEF MapInv, MapTyped, ActiveListed
<1>2. MapFirst = EntryIndex(1) /\ MapLast = EntryIndex(n)
  <2>1. CASE n = 0
    BY <1>1, <2>1 DEF MapFirst, MapLast, ListFirst, ListLast, EntryIndex
  <2>2. CASE n > 0
    <3>1. active # <<>> /\ Head(active) = active[1] /\ 1 \in 1..n /\ n \in 1..n
      BY <1>1, <2>2
    <3> QED BY <1>1, <3>1 DEF MapFirst, MapLast, ListFirst, ListLast, EntryIndex
  <2> QED BY <1>1, <2>1, <2>2
<1>3. ASSUME NEW i \in 1..n
      PROVE  /\ MapNext(entries[i].index) = EntryIndex(i + 1)
             /\ MapPrev(entries[i].index) = EntryIndex(i - 1)
  <2>1. \A j \in 1..n : active[j] = active[i] => j = i
    BY <1>1 DEF MapInv, EntriesStored
  <2>2. PlaceIn(active, active[i]) = i
    BY <1>1, <2>1, PlaceInFinds
  <2>3. IsNode(entries[i].index) /\ active[i] = entries[i].index
    BY <1>1, EntryNode
  <2>4. MapNext(entries[i].index) = EntryIndex(i + 1)
    BY <1>1, <2>2, <2>3 DEF MapNext, ListNext, EntryIndex
  <2>5. MapPrev(entries[i].index) = EntryIndex(i - 1)
    BY <1>1, <2>2, <2>3 DEF MapPrev, ListPrev, EntryIndex
  <2> QED BY <2>4, <2>5
<1> QED BY <1>2, <1>3

\* The places in a bucket where a key is, and the entries with that key.
HavingPlaces(b, key) == {p \in 1..Len(bucket[b]) : CSlot(data, bucket[b][p]).key = key}
Having(key) == {i \in 1..Len(entries) : entries[i].key = key}

LEMMA PlacesAreEntries ==
  ASSUME HashesKeys, MapInv, NEW key \in Keys
  PROVE  /\ \A p \in HavingPlaces(MapHash(key), key) :
              \E i \in Having(key) : bucket[MapHash(key)][p] = entries[i].index
         /\ \A i \in Having(key) :
              \E p \in HavingPlaces(MapHash(key), key) : bucket[MapHash(key)][p] = entries[i].index
<1> DEFINE b == MapHash(key)
<1>1. b \in MapBuckets
  BY DEF HashesKeys
<1>2. \A i \in 1..Len(entries) : CSlot(data, entries[i].index).key = entries[i].key
  <2> SUFFICES ASSUME NEW i \in 1..Len(entries)
               PROVE  CSlot(data, entries[i].index).key = entries[i].key
    OBVIOUS
  <2>1. CSlot(data, entries[i].index) = MapNode(entries[i].key, entries[i].value, TRUE)
    BY DEF MapInv, EntriesStored
  <2> QED BY <2>1 DEF MapNode
<1>3. ASSUME NEW p \in HavingPlaces(b, key)
      PROVE  \E i \in Having(key) : bucket[b][p] = entries[i].index
  <2>1. PICK i \in 1..Len(entries) : bucket[b][p] = entries[i].index
    BY <1>1 DEF MapInv, BucketsTrue, HavingPlaces
  <2> QED BY <1>2, <2>1 DEF HavingPlaces, Having
<1>4. ASSUME NEW i \in Having(key)
      PROVE  \E p \in HavingPlaces(b, key) : bucket[b][p] = entries[i].index
  <2>1. i \in 1..Len(entries) /\ entries[i].key = key
    BY DEF Having
  <2>2. PICK p \in 1..Len(bucket[b]) : bucket[b][p] = entries[i].index
    BY <2>1 DEF MapInv, BucketsFull
  <2> QED BY <1>2, <2>1, <2>2 DEF HavingPlaces
<1> QED BY <1>3, <1>4

\* The first of a key in its bucket is the first entry with it, and the last
\* the last.
LEMMA MapLookups ==
  ASSUME HashesKeys, MapInv, NEW key \in Keys
  PROVE  /\ MapLookup(key) = EntryIndex(FirstEntry(key))
         /\ MapTailLookup(key) = EntryIndex(LastEntry(key))
<1> DEFINE b == MapHash(key)
           P == HavingPlaces(b, key)
           I == Having(key)
           n == Len(entries)
<1>1. /\ b \in MapBuckets /\ n \in Nat /\ bucket[b] \in Seq(Nat) /\ Len(bucket[b]) \in Nat
  BY DEF HashesKeys, MapInv, MapTyped
<1>2. /\ MapLookup(key) = OrNone(bucket[b], IF P # {} THEN Min(P) ELSE 0)
      /\ MapTailLookup(key) = OrNone(bucket[b], IF P # {} THEN Max(P) ELSE 0)
      /\ FirstEntry(key) = IF I # {} THEN Min(I) ELSE 0
      /\ LastEntry(key) = IF I # {} THEN Max(I) ELSE 0
  BY DEF MapLookup, MapTailLookup, FirstEntry, LastEntry, SelectInSeq, SelectLastInSeq,
         HavingPlaces, Having
<1>3. /\ \A p \in P : \E i \in I : bucket[b][p] = entries[i].index
      /\ \A i \in I : \E p \in P : bucket[b][p] = entries[i].index
  BY PlacesAreEntries
<1>4. CASE I = {}
  <2>1. P = {}
    BY <1>3, <1>4
  <2> QED BY <1>1, <1>2, <1>4, <2>1 DEF OrNone, EntryIndex
<1>5. CASE I # {}
  <2>1. P # {}
    BY <1>3, <1>5
  <2>2. /\ P \subseteq 1..Len(bucket[b]) /\ P \in SUBSET Nat /\ P \in SUBSET (0..Len(bucket[b]))
        /\ I \subseteq 1..n /\ I \in SUBSET Nat /\ I \in SUBSET (0..n)
    BY <1>1 DEF HavingPlaces, Having
  <2> HIDE DEF P, I, b
  <2>3. /\ Min(P) \in P /\ \A p \in P : Min(P) <= p
        /\ Max(P) \in P /\ \A p \in P : p <= Max(P)
        /\ Min(I) \in I /\ \A i \in I : Min(I) <= i
        /\ Max(I) \in I /\ \A i \in I : i <= Max(I)
    BY <1>1, <1>5, <2>1, <2>2, MinOfPlaces, MaxOfPlaces
  <2>4. \A p, q \in P : \A i, j \in I :
          p < q /\ bucket[b][p] = entries[i].index /\ bucket[b][q] = entries[j].index => i < j
    BY <1>1, <2>2, InOrder DEF n
  <2>5. bucket[b][Min(P)] = entries[Min(I)].index
    <3>1. PICK p \in P : bucket[b][p] = entries[Min(I)].index
      BY <1>3, <2>3
    <3>2. PICK j \in I : bucket[b][Min(P)] = entries[j].index
      BY <1>3, <2>3
    <3>3. ~(Min(P) < p)
      <4> SUFFICES ASSUME Min(P) < p PROVE FALSE
        OBVIOUS
      <4>1. j < Min(I)
        BY <2>3, <2>4, <3>1, <3>2
      <4>2. Min(I) <= j /\ Min(I) \in Nat /\ j \in Nat
        BY <2>2, <2>3
      <4> QED BY <4>1, <4>2
    <3>4. Min(P) <= p /\ Min(P) \in Nat /\ p \in Nat
      BY <2>2, <2>3
    <3> QED BY <3>1, <3>3, <3>4
  <2>6. bucket[b][Max(P)] = entries[Max(I)].index
    <3>1. PICK p \in P : bucket[b][p] = entries[Max(I)].index
      BY <1>3, <2>3
    <3>2. PICK j \in I : bucket[b][Max(P)] = entries[j].index
      BY <1>3, <2>3
    <3>3. ~(p < Max(P))
      <4> SUFFICES ASSUME p < Max(P) PROVE FALSE
        OBVIOUS
      <4>1. Max(I) < j
        BY <2>3, <2>4, <3>1, <3>2
      <4>2. j <= Max(I) /\ Max(I) \in Nat /\ j \in Nat
        BY <2>2, <2>3
      <4> QED BY <4>1, <4>2
    <3>4. p <= Max(P) /\ Max(P) \in Nat /\ p \in Nat
      BY <2>2, <2>3
    <3> QED BY <3>1, <3>3, <3>4
  <2>7. /\ Min(P) # 0 /\ Max(P) # 0 /\ Min(I) \in 1..n /\ Max(I) \in 1..n
    <3>1. Min(P) \in 1..Len(bucket[b]) /\ Max(P) \in 1..Len(bucket[b])
      BY <2>2, <2>3
    <3>2. Min(I) \in 1..n /\ Max(I) \in 1..n
      BY <2>2, <2>3
    <3> QED BY <1>1, <3>1, <3>2
  <2>8. MapLookup(key) = bucket[b][Min(P)] /\ MapTailLookup(key) = bucket[b][Max(P)]
    BY <1>2, <2>1, <2>7 DEF OrNone
  <2>9. /\ EntryIndex(FirstEntry(key)) = entries[Min(I)].index
        /\ EntryIndex(LastEntry(key)) = entries[Max(I)].index
    BY <1>2, <1>5, <2>7 DEF EntryIndex, n
  <2> QED BY <2>5, <2>6, <2>8, <2>9
<1> QED BY <1>4, <1>5

LEMMA MapInvHolds ==
  ASSUME HashesKeys, MapInv
  PROVE  MapHolds
<1>1. /\ MapFirst = EntryIndex(1) /\ MapLast = EntryIndex(Len(entries))
      /\ \A i \in 1..Len(entries) :
           /\ MapNext(entries[i].index) = EntryIndex(i + 1)
           /\ MapPrev(entries[i].index) = EntryIndex(i - 1)
  BY MapNeighbours
<1>2. \A i \in 1..Len(entries) :
        Key(entries[i].index) = entries[i].key /\ Value(entries[i].index) = entries[i].value
  BY EntryNode
<1>3. \A key \in Keys :
        /\ MapLookup(key) = EntryIndex(FirstEntry(key))
        /\ MapTailLookup(key) = EntryIndex(LastEntry(key))
  BY MapLookups
<1>4. ASSUME NEW index \in 0..data.len, \A i \in 1..Len(entries) : entries[i].index # index
      PROVE  Key(index) = None /\ Value(index) = None /\ MapNext(index) = None
  <2>1. data.len \in Nat
    BY AllocSizeNat DEF MapInv, MapTyped
  <2>2. ~IsNode(index)
    BY <1>4, <2>1, NodeEntry
  <2> QED BY <2>2 DEF Key, Value, MapNext
<1> QED BY <1>1, <1>2, <1>3, <1>4, Zenon DEF MapHolds, EntryIndex

LEMMA MapStepKeeps ==
  ASSUME HashesKeys, MapInv, [MapStep]_<<map, entries>>
  PROVE  MapInv'
<1>1. CASE MapStep
  <2>1. CASE \E key \in Keys, value \in MapValues \cup {None} : MapAdd(key, value)
    BY <2>1, MapAddKeeps
  <2>2. ASSUME NEW index \in 0..data.len,
               MapDelete(index) \/ \E value \in MapValues : MapSetValue(index, value)
        PROVE  MapInv'
    <3>1. index \in Nat
      BY AllocSizeNat DEF MapInv, MapTyped
    <3> QED BY <2>2, <3>1, DeleteKeeps, SetKeeps
  <2> QED BY <1>1, <2>1, <2>2 DEF MapStep
<1>2. CASE UNCHANGED <<map, entries>>
  <2>1. /\ data' = data /\ active' = active /\ inactive' = inactive
        /\ bucket' = bucket /\ entries' = entries
    BY <1>2 DEF map
  <2>2. MapTyped' /\ ActiveListed' /\ EntriesStored' /\ InactiveFree'
    BY <2>1 DEF MapInv, MapTyped, ActiveListed, EntriesStored, InactiveFree
  <2>3. RestUnhashed' /\ BucketsTrue'
    BY <2>1 DEF MapInv, RestUnhashed, BucketsTrue
  <2>4. BucketsFull'
    BY <2>1 DEF MapInv, BucketsFull
  <2>5. BucketsOrdered'
    BY <2>1 DEF MapInv, BucketsOrdered
  <2> QED BY <2>2, <2>3, <2>4, <2>5 DEF MapInv
<1> QED BY <1>1, <1>2

\* Whatever is added, set and deleted, in whatever order, the map is the
\* entries that were added and not deleted: indexes are given out again, keys
\* repeat and share buckets, and the chunks of nodes grow.
THEOREM MapIsItsEntries ==
  ASSUME HashesKeys
  PROVE  MapSpec => []MapHolds
<1>1. MapInit => MapInv
  BY InitMapInv
<1>2. MapInv /\ [MapStep]_<<map, entries>> => MapInv'
  BY MapStepKeeps
<1>3. MapInv => MapHolds
  BY MapInvHolds
<1> QED BY <1>1, <1>2, <1>3, PTL DEF MapSpec

-----------------------------------------------------------------------------
(* The array with names.                                                   *)

\* A hash is masked, to one of the buckets (r_hash_create).
HashesNames == \A key \in EntryNames : HashOf(key) \in Buckets

HashNodes == [key : EntryNames, index : Nat]

\* A node is one of the first n of s, in the bucket of its name.
NodesTrue(h, s, n) ==
  \A b \in Buckets : \A p \in 1..Len(h[b]) :
    /\ h[b][p].index < n /\ h[b][p].key = s[h[b][p].index]
    /\ HashOf(h[b][p].key) = b

NodesFull(h, s, n) ==
  \A i \in 0..(n - 1) :
    \E p \in 1..Len(h[HashOf(s[i])]) : h[HashOf(s[i])][p].index = i

NodesOrdered(h) ==
  \A b \in Buckets : \A p, q \in 1..Len(h[b]) :
    p < q => h[b][p].index < h[b][q].index

\* The hash of the first n of the names s.
HashFits(h, s, n) ==
  /\ h \in [Buckets -> Seq(HashNodes)]
  /\ NodesTrue(h, s, n) /\ NodesFull(h, s, n) /\ NodesOrdered(h)

-----------------------------------------------------------------------------
(* The hash.                                                               *)

LEMMA EmptyFits ==
  ASSUME NEW s
  PROVE  HashFits(HashCreate, s, 0)
<1>1. HashCreate \in [Buckets -> Seq(HashNodes)] /\ \A b \in Buckets : Len(HashCreate[b]) = 0
  BY DEF HashCreate
<1> QED BY <1>1 DEF HashFits, NodesTrue, NodesFull, NodesOrdered

\* Only the names that are in it matter.
LEMMA SameFits ==
  ASSUME NEW h, NEW s, NEW t, NEW n \in Nat, HashFits(h, s, n),
         \A i \in 0..(n - 1) : t[i] = s[i]
  PROVE  HashFits(h, t, n)
<1>1. NodesTrue(h, t, n)
  <2> SUFFICES ASSUME NEW b \in Buckets, NEW p \in 1..Len(h[b])
               PROVE  /\ h[b][p].index < n /\ h[b][p].key = t[h[b][p].index]
                      /\ HashOf(h[b][p].key) = b
    BY DEF NodesTrue
  <2>1. h[b] \in Seq(HashNodes)
    BY DEF HashFits
  <2>2. h[b][p].index \in Nat
    <3>1. h[b][p] \in HashNodes
      BY <2>1
    <3> QED BY <3>1 DEF HashNodes
  <2>3. h[b][p].index < n /\ h[b][p].key = s[h[b][p].index] /\ HashOf(h[b][p].key) = b
    BY DEF HashFits, NodesTrue
  <2> QED BY <2>2, <2>3
<1>2. NodesFull(h, t, n)
  BY DEF HashFits, NodesFull
<1> QED BY <1>1, <1>2 DEF HashFits

\* r_hash_insert: the next name is the last in its bucket.
LEMMA InsertFits ==
  ASSUME NEW h, NEW s, NEW n \in Nat, HashFits(h, s, n),
         s[n] \in EntryNames, HashOf(s[n]) \in Buckets
  PROVE  HashFits(HashInsert(h, s[n], n), s, n + 1)
<1> DEFINE key == s[n]
           c == HashOf(key)
           node == HashNode(key, n)
           g == HashInsert(h, key, n)
<1>1. h \in [Buckets -> Seq(HashNodes)] /\ c \in Buckets /\ key \in EntryNames
  BY DEF HashFits
<1>2. node \in HashNodes /\ node.key = key /\ node.index = n
  BY DEF HashNode, HashNodes
<1>3. g = [h EXCEPT ![c] = Append(@, node)]
  BY DEF HashInsert
<1> HIDE DEF key, c, node, g
<1>4. h[c] \in Seq(HashNodes) /\ Len(h[c]) \in Nat
  BY <1>1
<1>5. g \in [Buckets -> Seq(HashNodes)]
  BY <1>1, <1>2, <1>3, <1>4
<1>6. \A b \in Buckets : b # c => g[b] = h[b]
  BY <1>1, <1>3
<1>7. /\ Len(g[c]) = Len(h[c]) + 1 /\ g[c][Len(h[c]) + 1] = node
      /\ \A p \in 1..Len(h[c]) : g[c][p] = h[c][p]
  BY <1>1, <1>2, <1>3, <1>4
\* A node is the new one, or was there.
<1>8. ASSUME NEW b \in Buckets, NEW p \in 1..Len(g[b])
      PROVE  \/ b = c /\ p = Len(h[c]) + 1 /\ g[b][p] = node
             \/ p \in 1..Len(h[b]) /\ g[b][p] = h[b][p]
  BY SMTT(30), <1>4, <1>6, <1>7
<1>9. ASSUME NEW b \in Buckets, NEW p \in 1..Len(h[b])
      PROVE  h[b][p].index \in Nat /\ h[b][p].index < n
  <2>1. h[b] \in Seq(HashNodes)
    BY <1>1
  <2>2. h[b][p].index < n
    BY DEF HashFits, NodesTrue
  <2>3. h[b][p] \in HashNodes
    BY <2>1
  <2>4. h[b][p].index \in Nat
    BY <2>3 DEF HashNodes
  <2> QED BY <2>2, <2>4
<1>10. NodesTrue(g, s, n + 1)
  <2> SUFFICES ASSUME NEW b \in Buckets, NEW p \in 1..Len(g[b])
               PROVE  /\ g[b][p].index < n + 1 /\ g[b][p].key = s[g[b][p].index]
                      /\ HashOf(g[b][p].key) = b
    BY DEF NodesTrue
  <2>1. CASE b = c /\ g[b][p] = node
    BY <1>2, <2>1 DEF key, c
  <2>2. CASE p \in 1..Len(h[b]) /\ g[b][p] = h[b][p]
    <3>1. h[b][p].key = s[h[b][p].index] /\ HashOf(h[b][p].key) = b
      BY <2>2 DEF HashFits, NodesTrue
    <3>2. h[b][p].index \in Nat /\ h[b][p].index < n
      BY <1>9, <2>2
    <3> QED BY <2>2, <3>1, <3>2
  <2> QED BY <1>8, <2>1, <2>2
<1>11. NodesFull(g, s, n + 1)
  <2> SUFFICES ASSUME NEW i \in 0..(n + 1 - 1)
               PROVE  \E p \in 1..Len(g[HashOf(s[i])]) : g[HashOf(s[i])][p].index = i
    BY DEF NodesFull
  <2>1. CASE i = n
    <3>1. Len(h[c]) + 1 \in 1..Len(g[c]) /\ g[c][Len(h[c]) + 1].index = n
      BY <1>2, <1>4, <1>7
    <3> QED BY <2>1, <3>1 DEF key, c
  <2>2. CASE i # n
    <3> DEFINE b == HashOf(s[i])
    <3>1. i \in 0..(n - 1)
      BY <2>2
    <3>2. PICK p \in 1..Len(h[b]) : h[b][p].index = i
      BY <3>1 DEF HashFits, NodesFull
    <3> HIDE DEF b
    <3>3. CASE b = c
      <4>1. p \in 1..Len(g[b]) /\ g[b][p].index = i
        BY <1>4, <1>7, <3>2, <3>3
      <4> QED BY <4>1 DEF b
    <3>4. CASE b # c
      <4>1. g[b] = h[b]
        BY <1>3, <3>4, <1>1
      <4> QED BY <3>2, <4>1 DEF b
    <3> QED BY <3>3, <3>4
  <2> QED BY <2>1, <2>2
<1>12. NodesOrdered(g)
  <2> SUFFICES ASSUME NEW b \in Buckets, NEW p \in 1..Len(g[b]), NEW q \in 1..Len(g[b]), p < q
               PROVE  g[b][p].index < g[b][q].index
    BY DEF NodesOrdered
  <2>1. p \in 1..Len(h[b]) /\ g[b][p] = h[b][p]
    BY <1>4, <1>6, <1>7
  <2>2. CASE g[b][q] = node
    BY <1>2, <1>9, <2>1, <2>2
  <2>3. CASE q \in 1..Len(h[b]) /\ g[b][q] = h[b][q]
    BY <2>1, <2>3 DEF HashFits, NodesOrdered
  <2> QED BY <1>8, <2>2, <2>3
<1> QED BY <1>5, <1>10, <1>11, <1>12 DEF HashFits, g, key

\* r_harray_copy: the hash that is made of the names, one after the other.
LEMMA RehashedFits ==
  ASSUME HashesNames, NEW a, NEW len \in Nat, \A i \in 0..(len - 1) : a.slots[i] \in EntryNames
  PROVE  HashFits(Rehashed(a, len), a.slots, len)
<1> DEFINE s == a.slots
           T == [Buckets -> Seq(HashNodes)]
           F == [i \in 1..len |-> [h \in T |-> HashInsert(h, s[i - 1], i - 1)]]
           hashed[n \in 0..len] ==
             IF n = 0 THEN HashCreate ELSE HashInsert(hashed[n - 1], s[n - 1], n - 1)
<1>1. \A i \in 1..len : i - 1 \in Nat /\ s[i - 1] \in EntryNames /\ HashOf(s[i - 1]) \in Buckets
  BY DEF HashesNames
<1>2. HashCreate \in T
  BY DEF HashCreate
<1>3. F \in [1..len -> [T -> T]]
  <2>1. ASSUME NEW i \in 1..len, NEW h \in T
        PROVE  HashInsert(h, s[i - 1], i - 1) \in T
    <3> DEFINE node == HashNode(s[i - 1], i - 1)
               b == HashOf(s[i - 1])
    <3>1. node \in HashNodes
      BY <1>1 DEF HashNode, HashNodes
    <3>2. b \in Buckets
      BY <1>1
    <3>3. HashInsert(h, s[i - 1], i - 1) = [h EXCEPT ![b] = Append(@, node)]
      BY DEF HashInsert
    <3> HIDE DEF node, b
    <3>4. Append(h[b], node) \in Seq(HashNodes)
      BY <3>1, <3>2
    <3> QED BY <3>3, <3>4
  <2> HIDE DEF T
  <2> QED BY <2>1
<1>4. PICK f \in [0..len -> T] : Follows(f, len, HashCreate, F)
  <2> DEFINE start == HashCreate
  <2>1. start \in T
    BY <1>2
  <2> HIDE DEF F, T, start, hashed
  <2>2. \E f \in [0..len -> T] : Follows(f, len, start, F)
    BY <1>3, <2>1, Iterates
  <2> QED BY <2>2 DEF start
<1>5. f = [n \in 0..len |-> IF n = 0 THEN HashCreate
                             ELSE HashInsert(f[n - 1], s[n - 1], n - 1)]
  <2> HIDE DEF T
  <2>1. \A i \in 1..len : i - 1 \in 0..len /\ f[i - 1] \in T
    OBVIOUS
  <2>2. \A i \in 1..len : f[i] = HashInsert(f[i - 1], s[i - 1], i - 1)
    BY <1>4, <2>1 DEF Follows
  <2>3. \A n \in 0..len : n = 0 \/ n \in 1..len
    OBVIOUS
  <2>4. f[0] = HashCreate
    BY <1>4 DEF Follows
  <2> HIDE DEF F
  <2> QED BY <2>2, <2>3, <2>4
<1>6. hashed = [n \in 0..len |-> IF n = 0 THEN HashCreate
                                  ELSE HashInsert(hashed[n - 1], s[n - 1], n - 1)]
  <2> HIDE DEF F, T
  <2> QED BY <1>5
<1>7. Rehashed(a, len) = hashed[len]
  BY DEF Rehashed
<1> HIDE DEF hashed, F, T
<1> DEFINE P == {n \in 0..len : HashFits(hashed[n], s, n)}
<1>8. 0 \in P
  <2>1. hashed[0] = HashCreate
    BY <1>6
  <2> QED BY <2>1, EmptyFits
<1>9. ASSUME NEW n \in 1..len, n - 1 \in P
      PROVE  n \in P
  <2> DEFINE k == n - 1
             h == hashed[k]
  <2>1. k \in Nat /\ n = k + 1
    OBVIOUS
  <2>2. s[k] \in EntryNames /\ HashOf(s[k]) \in Buckets
    BY <1>1
  <2>3. HashFits(h, s, k)
    BY <1>9
  <2>4. hashed[n] = HashInsert(h, s[k], k)
    BY <1>6
  <2> HIDE DEF k, h
  <2>5. HashFits(HashInsert(h, s[k], k), s, k + 1)
    BY <2>1, <2>2, <2>3, InsertFits
  <2> QED BY <2>1, <2>4, <2>5
<1>10. P = 0..len
  <2>1. P \in SUBSET (0..len)
    OBVIOUS
  <2> HIDE DEF P
  <2> QED BY <1>8, <1>9, <2>1, HoldsUpto
<1>11. len \in P
  <2> HIDE DEF P
  <2> QED BY <1>10
<1> QED BY <1>7, <1>11

-----------------------------------------------------------------------------
(* The array.                                                              *)

\* The hash is that of the names, and names and members are what was added.
HArrayInv ==
  /\ names \in Arrays(EntryNames \cup {Zero})
  /\ members \in CArrays(Values \cup {Zero})
  /\ added \in Seq(EntryNames \X Values)
  /\ names.len = Len(added) /\ members.len = Len(added)
  /\ \A i \in 0..(Len(added) - 1) :
       names.slots[i] = added[i + 1][1] /\ CSlot(members, i) = added[i + 1][2]
  /\ HashFits(hash, names.slots, Len(added))

LEMMA InitHArrayInv == HArrayInit => HArrayInv
<1> SUFFICES ASSUME HArrayInit PROVE HArrayInv
  OBVIOUS
<1>1. names \in Arrays(EntryNames \cup {Zero}) /\ names.len = 0
  BY EmptyArray DEF HArrayInit
<1>2. members \in CArrays(Values \cup {Zero}) /\ members.len = 0
  BY CreateEmpty DEF HArrayInit
<1>3. added \in Seq(EntryNames \X Values) /\ Len(added) = 0
  BY DEF HArrayInit
<1>4. HashFits(hash, names.slots, Len(added))
  BY <1>3, EmptyFits DEF HArrayInit
<1> QED BY <1>1, <1>2, <1>3, <1>4 DEF HArrayInv

LEMMA HArrayAddKeeps ==
  ASSUME HashesNames, HArrayInv, NEW key \in EntryNames, NEW value \in Values, Add(key, value)
  PROVE  HArrayInv'
<1> DEFINE n == Len(added)
           e == <<key, value>>
<1>1. n \in Nat /\ added \in Seq(EntryNames \X Values) /\ e \in EntryNames \X Values
  BY DEF HArrayInv
<1>2. names' = ArrayAdd(names, key) /\ names.len = n
  BY DEF Add, HArrayInv
<1>3. /\ names' \in Arrays(EntryNames \cup {Zero}) /\ names'.len = n + 1
      /\ names'.slots[n] = key /\ \A i \in 0..(n - 1) : names'.slots[i] = names.slots[i]
  <2>1. names \in Arrays(EntryNames \cup {Zero}) /\ key \in EntryNames \cup {Zero}
    BY DEF HArrayInv
  <2> HIDE DEF n
  <2> QED BY <1>2, <2>1, ArrayAddKeeps
<1>4. members' = CArrayAdd(members, value) /\ members.len = n
  BY DEF Add, HArrayInv
<1>5. /\ members' \in CArrays(Values \cup {Zero}) /\ members'.len = n + 1
      /\ CSlot(members', n) = value
      /\ \A i \in 0..(n - 1) : CSlot(members', i) = CSlot(members, i)
  <2>1. members \in CArrays(Values \cup {Zero}) /\ value \in Values \cup {Zero}
    BY DEF HArrayInv
  <2> HIDE DEF n
  <2> QED BY <1>4, <2>1, CArrayAddKeeps
<1>6. hash' = HashInsert(hash, key, n)
  BY DEF Add, HArrayInv
<1>7. added' = Append(added, e)
  BY DEF Add
<1>8. /\ added' \in Seq(EntryNames \X Values) /\ Len(added') = n + 1 /\ added'[n + 1] = e
      /\ \A i \in 1..n : added'[i] = added[i]
  <2> HIDE DEF e
  <2> QED BY <1>1, <1>7
<1>9. HashFits(hash', names'.slots, n + 1)
  <2> DEFINE s == names'.slots
  <2>1. \A i \in 0..(n - 1) : s[i] = names.slots[i]
    BY <1>3
  <2>2. HashFits(hash, names.slots, n)
    BY DEF HArrayInv
  <2>3. s[n] \in EntryNames /\ HashOf(s[n]) \in Buckets
    BY <1>3 DEF HashesNames
  <2>4. hash' = HashInsert(hash, s[n], n)
    BY <1>3, <1>6
  <2> HIDE DEF n, s
  <2>5. HashFits(hash, s, n)
    BY <1>1, <2>1, <2>2, SameFits
  <2>6. HashFits(HashInsert(hash, s[n], n), s, n + 1)
    BY <1>1, <2>3, <2>5, InsertFits
  <2> QED BY <2>4, <2>6 DEF s
<1>10. ASSUME NEW i \in 0..n
       PROVE  names'.slots[i] = added'[i + 1][1] /\ CSlot(members', i) = added'[i + 1][2]
  <2>1. CASE i = n
    BY <1>3, <1>5, <1>8, <2>1
  <2>2. CASE i # n
    <3>1. i \in 0..(n - 1) /\ i + 1 \in 1..n
      BY <1>1, <2>2
    <3>2. names.slots[i] = added[i + 1][1] /\ CSlot(members, i) = added[i + 1][2]
      BY <3>1 DEF HArrayInv
    <3> HIDE DEF n
    <3> QED BY <1>3, <1>5, <1>8, <3>1, <3>2
  <2> QED BY <2>1, <2>2
<1>11. 0..(Len(added') - 1) = 0..n
  BY <1>1, <1>8
<1> HIDE DEF n
<1> QED BY <1>3, <1>5, <1>8, <1>9, <1>10, <1>11 DEF HArrayInv

\* A value that is written, at the place of an entry or behind the last.
LEMMA WriteKeepsInv ==
  ASSUME HArrayInv, NEW index \in Nat, NEW value \in Values,
         members' = CReplace(members, index, value),
         added' = IF index < Len(added) THEN [added EXCEPT ![index + 1][2] = value] ELSE added,
         UNCHANGED <<names, hash>>
  PROVE  HArrayInv'
<1> DEFINE n == Len(added)
<1>1. n \in Nat /\ added \in Seq(EntryNames \X Values)
  BY DEF HArrayInv
<1>2. /\ members' \in CArrays(Values \cup {Zero}) /\ members'.len = n
      /\ CSlot(members', index) = value
      /\ \A i \in 0..(n - 1) : i # index => CSlot(members', i) = CSlot(members, i)
  <2>1. members \in CArrays(Values \cup {Zero}) /\ members.len = n
    BY DEF HArrayInv
  <2>2. value \in Values \cup {Zero}
    OBVIOUS
  <2> HIDE DEF n
  <2>3. CAllocSize(members) \in Nat /\ n <= CAllocSize(members)
    BY <2>1, AllocSizeNat
  <2>4. /\ CReplace(members, index, value) \in CArrays(Values \cup {Zero})
        /\ CReplace(members, index, value).len = members.len
        /\ CSlot(CReplace(members, index, value), index) = value
        /\ \A i \in 0..(CAllocSize(members) - 1) :
             CSlot(CReplace(members, index, value), i) =
               IF i = index THEN value ELSE CSlot(members, i)
    <3> DEFINE S == Values \cup {Zero}
    <3>1. Zero \in S
      OBVIOUS
    <3>2. members \in CArrays(S)
      BY <2>1
    <3>3. value \in S
      BY <2>2
    <3> HIDE DEF S
    <3>4. /\ CReplace(members, index, value) \in CArrays(S)
          /\ CReplace(members, index, value).len = members.len
          /\ CSlot(CReplace(members, index, value), index) = value
          /\ \A i \in 0..(CAllocSize(members) - 1) :
               CSlot(CReplace(members, index, value), i) =
                 IF i = index THEN value ELSE CSlot(members, i)
      BY <3>1, <3>2, <3>3, ReplaceKeeps
    <3> QED BY <3>4 DEF S
  <2>5. \A i \in 0..(n - 1) : i \in 0..(CAllocSize(members) - 1)
    BY <1>1, <2>3
  <2> QED BY <2>1, <2>4, <2>5
<1>3. /\ added' \in Seq(EntryNames \X Values) /\ Len(added') = n
      /\ \A i \in 1..n : /\ added'[i][1] = added[i][1]
                         /\ added'[i][2] = IF i = index + 1 THEN value ELSE added[i][2]
  <2>1. CASE index < n
    <3> DEFINE k == index + 1
    <3>1. k \in 1..n
      BY <1>1, <2>1
    <3>2. PICK x \in EntryNames, y \in Values : added[k] = <<x, y>>
      BY <1>1, <3>1
    <3>3. added' = [added EXCEPT ![k] = <<x, value>>]
      <4>1. added' = [added EXCEPT ![k] = [added[k] EXCEPT ![2] = value]]
        BY <2>1
      <4>2. [added[k] EXCEPT ![2] = value] = <<x, value>>
        BY <3>2
      <4> QED BY <4>1, <4>2
    <3> DEFINE e == <<x, value>>
    <3>4. e \in EntryNames \X Values /\ e[1] = added[k][1] /\ e[2] = value
      BY <3>2
    <3>5. added' = [added EXCEPT ![k] = e]
      BY <3>3
    <3>6. /\ added' \in Seq(EntryNames \X Values) /\ Len(added') = n
          /\ \A i \in 1..n : added'[i] = IF i = k THEN e ELSE added[i]
      <4> DEFINE S == EntryNames \X Values
      <4>1. added \in Seq(S) /\ e \in S /\ k \in 1..Len(added)
        BY <1>1, <3>1, <3>4
      <4> HIDE DEF k, e, S
      <4>2. added' \in Seq(S) /\ Len(added') = Len(added)
            /\ \A i \in 1..Len(added) : added'[i] = IF i = k THEN e ELSE added[i]
        BY <3>5, <4>1
      <4> QED BY <4>2 DEF S
    <3> HIDE DEF e
    <3> QED BY <3>4, <3>6
  <2>2. CASE ~(index < n)
    BY <1>1, <2>2
  <2> QED BY <2>1, <2>2
<1>4. HashFits(hash', names'.slots, Len(added'))
  BY <1>3 DEF HArrayInv
<1>5. ASSUME NEW i \in 0..(n - 1)
      PROVE  names'.slots[i] = added'[i + 1][1] /\ CSlot(members', i) = added'[i + 1][2]
  <2>1. i + 1 \in 1..n
    BY <1>1
  <2>2. names.slots[i] = added[i + 1][1] /\ CSlot(members, i) = added[i + 1][2]
    BY DEF HArrayInv
  <2>3. CASE i = index
    BY <1>2, <1>3, <2>1, <2>2, <2>3
  <2>4. CASE i # index
    <3>1. i + 1 # index + 1
      BY <2>4
    <3> QED BY <1>2, <1>3, <2>1, <2>2, <2>4, <3>1
  <2> QED BY <2>3, <2>4
<1>6. names' \in Arrays(EntryNames \cup {Zero}) /\ names'.len = n
  BY DEF HArrayInv
<1> HIDE DEF n
<1> QED BY <1>2, <1>3, <1>4, <1>5, <1>6 DEF HArrayInv

LEMMA HArrayCopyKeeps ==
  ASSUME HashesNames, HArrayInv, Copy
  PROVE  HArrayInv'
<1> DEFINE n == Len(added)
           s == names'.slots
<1>1. n \in Nat /\ added \in Seq(EntryNames \X Values) /\ added' = added
  BY DEF HArrayInv, Copy
<1>2. /\ names' \in Arrays(EntryNames \cup {Zero}) /\ names'.len = n
      /\ \A i \in 0..(n - 1) : s[i] = names.slots[i]
  <2>1. names \in Arrays(EntryNames \cup {Zero}) /\ names.len = n /\ names' = ArrayCopy(names)
    BY DEF HArrayInv, Copy
  <2> HIDE DEF n
  <2> QED BY <2>1, ArrayCopyKeeps
<1>3. /\ members' \in CArrays(Values \cup {Zero}) /\ members'.len = n
      /\ \A i \in 0..(n - 1) : CSlot(members', i) = CSlot(members, i)
  <2>1. /\ members \in CArrays(Values \cup {Zero}) /\ members.len = n
        /\ members' = CArrayCopy(members)
    BY DEF HArrayInv, Copy
  <2> HIDE DEF n
  <2>2. CAllocSize(members) \in Nat /\ n <= CAllocSize(members)
    BY <2>1, AllocSizeNat
  <2>3. \A i \in 0..(n - 1) : i \in 0..(CAllocSize(members) - 1)
    BY <1>1, <2>2
  <2> QED BY <2>1, <2>3, CArrayCopyKeeps
<1>4. \A i \in 0..(n - 1) : /\ names.slots[i] = added[i + 1][1] /\ added[i + 1][1] \in EntryNames
                           /\ CSlot(members, i) = added[i + 1][2]
  <2> SUFFICES ASSUME NEW i \in 0..(n - 1)
               PROVE  /\ names.slots[i] = added[i + 1][1] /\ added[i + 1][1] \in EntryNames
                      /\ CSlot(members, i) = added[i + 1][2]
    OBVIOUS
  <2>1. names.slots[i] = added[i + 1][1] /\ CSlot(members, i) = added[i + 1][2]
    BY DEF HArrayInv
  <2>2. added[i + 1] \in EntryNames \X Values
    BY <1>1
  <2> QED BY <2>1, <2>2
<1>5. HashFits(hash', s, n)
  <2>1. \A i \in 0..(n - 1) : s[i] \in EntryNames
    BY <1>2, <1>4
  <2>2. hash' = Rehashed(names', n)
    BY DEF HArrayInv, Copy
  <2> HIDE DEF n, s
  <2>3. \A i \in 0..(n - 1) : names'.slots[i] \in EntryNames
    BY <2>1 DEF s
  <2> DEFINE a == names'
  <2> HIDE DEF a
  <2>4. HashFits(Rehashed(a, n), a.slots, n)
    <3>1. \A i \in 0..(n - 1) : a.slots[i] \in EntryNames
      BY <2>3 DEF a
    <3> QED BY <1>1, <3>1, RehashedFits
  <2> QED BY <2>2, <2>4 DEF a, s
<1>6. \A i \in 0..(n - 1) : s[i] = added[i + 1][1] /\ CSlot(members', i) = added[i + 1][2]
  BY <1>2, <1>3, <1>4
<1> QED BY <1>1, <1>2, <1>3, <1>5, <1>6 DEF HArrayInv

-----------------------------------------------------------------------------
(* The lookups.                                                            *)

\* The nodes of a key, in its bucket.
Mine(key) == {p \in 1..Len(hash[HashOf(key)]) : hash[HashOf(key)][p].key = key}

\* The nodes of a key and the places it was added at are the same, in order.
LEMMA MineArePlaces ==
  ASSUME HashesNames, HArrayInv, NEW key \in EntryNames
  PROVE  LET nodes == hash[HashOf(key)]
         IN  /\ nodes \in Seq(HashNodes)
             /\ \A p \in Mine(key) : nodes[p].index \in Places(key)
             /\ \A i \in Places(key) : \E p \in Mine(key) : nodes[p].index = i
             /\ \A p, q \in Mine(key) : p < q => nodes[p].index < nodes[q].index
<1> DEFINE b == HashOf(key)
           n == Len(added)
           s == names.slots
<1>1. b \in Buckets /\ n \in Nat /\ hash[b] \in Seq(HashNodes)
  BY DEF HashesNames, HArrayInv, HashFits
<1>2. /\ NodesTrue(hash, s, n) /\ NodesFull(hash, s, n) /\ NodesOrdered(hash)
      /\ \A i \in 0..(n - 1) : s[i] = added[i + 1][1]
  BY DEF HArrayInv, HashFits
<1>3. ASSUME NEW p \in Mine(key)
      PROVE  hash[b][p].index \in Places(key)
  <2>1. p \in 1..Len(hash[b]) /\ hash[b][p].key = key
    BY DEF Mine
  <2>2. hash[b][p] \in HashNodes
    BY <1>1, <2>1
  <2> DEFINE i == hash[b][p].index
  <2>3. i \in Nat
    BY <2>2 DEF HashNodes
  <2>4. i < n /\ key = s[i]
    BY <1>1, <1>2, <2>1 DEF NodesTrue
  <2> HIDE DEF i
  <2>5. i \in 0..(n - 1) /\ added[i + 1][1] = key
    BY <1>1, <1>2, <2>3, <2>4
  <2> QED BY <2>5 DEF i, Places
<1>4. ASSUME NEW i \in Places(key)
      PROVE  \E p \in Mine(key) : hash[b][p].index = i
  <2>1. i \in 0..(n - 1) /\ s[i] = key
    BY <1>2 DEF Places
  <2>2. PICK p \in 1..Len(hash[b]) : hash[b][p].index = i
    BY <1>2, <2>1 DEF NodesFull
  <2>3. hash[b][p].key = key
    BY <1>1, <1>2, <2>1, <2>2 DEF NodesTrue
  <2> QED BY <2>2, <2>3 DEF Mine
<1>5. ASSUME NEW p \in Mine(key), NEW q \in Mine(key), p < q
      PROVE  hash[b][p].index < hash[b][q].index
  BY <1>1, <1>2, <1>5 DEF Mine, NodesOrdered
<1> QED BY <1>1, <1>3, <1>4, <1>5

\* The first and the last of some of the nodes are the first and the last of
\* their places.
LEMMA EndsAgree ==
  ASSUME HashesNames, HArrayInv, NEW key \in EntryNames,
         NEW X \in SUBSET Mine(key), NEW Y \in SUBSET Places(key),
         \A p \in X : hash[HashOf(key)][p].index \in Y,
         \A i \in Y : \E p \in X : hash[HashOf(key)][p].index = i
  PROVE  /\ IndexOf(key, IF X = {} THEN NoNode ELSE Min(X)) = FirstOf(Y)
         /\ IndexOf(key, IF X = {} THEN NoNode ELSE Max(X)) = LastOf(Y)
<1> DEFINE nodes == hash[HashOf(key)]
           n == Len(added)
           m == Len(nodes)
<1>1. nodes \in Seq(HashNodes) /\ m \in Nat /\ n \in Nat
  <2>1. nodes \in Seq(HashNodes)
    BY MineArePlaces
  <2> QED BY <2>1 DEF HArrayInv
<1>2. X \in SUBSET (1..m) /\ Y \in SUBSET (0..(n - 1))
  BY DEF Mine, Places
<1>3. \A p, q \in X : p < q => nodes[p].index < nodes[q].index
  BY MineArePlaces
<1>4. \A p \in X : nodes[p].index \in Y
  OBVIOUS
<1>5. \A i \in Y : \E p \in X : nodes[p].index = i
  OBVIOUS
<1>6. CASE X = {}
  BY <1>4, <1>5, <1>6 DEF IndexOf, FirstOf, LastOf
<1>7. CASE X # {}
  <2>1. Y # {}
    BY <1>4, <1>7
  <2>2. \A x \in X : IndexOf(key, x) = nodes[x].index
    BY <1>1, <1>2 DEF IndexOf, NoNode
  <2> HIDE DEF nodes, n, m
  <2>3. /\ Min(X) \in X /\ \A p \in X : Min(X) <= p
        /\ Max(X) \in X /\ \A p \in X : p <= Max(X)
    <3>1. X \in SUBSET Nat /\ X \in SUBSET (0..m)
      BY <1>1, <1>2
    <3> QED BY <1>1, <1>7, <3>1, MinOfPlaces, MaxOfPlaces
  <2>4. /\ Min(Y) \in Y /\ \A i \in Y : Min(Y) <= i
        /\ Max(Y) \in Y /\ \A i \in Y : i <= Max(Y)
    <3>1. Y \in SUBSET Nat /\ Y \in SUBSET (0..n)
      BY <1>1, <1>2
    <3> QED BY <1>1, <2>1, <3>1, MinOfPlaces, MaxOfPlaces
  <2> DEFINE Number(x) == x \in Nat
  <2>5. (\A x \in X : Number(x)) /\ \A y \in Y : Number(y)
    BY <1>2
  <2> HIDE DEF Number
  <2>6. nodes[Min(X)].index = Min(Y)
    <3> DEFINE x == Min(X)
               y == Min(Y)
    <3>1. PICK p \in X : nodes[p].index = y
      BY <1>5, <2>4
    <3>2. nodes[x].index \in Y /\ y <= nodes[x].index
      BY <1>4, <2>3, <2>4
    <3>3. x <= p /\ x \in Nat /\ p \in Nat
      BY <2>3, <2>5 DEF Number
    <3>4. nodes[x].index \in Nat /\ y \in Nat
      BY <2>4, <2>5, <3>2 DEF Number
    <3>5. x < p => nodes[x].index < y
      BY <1>3, <2>3, <3>1
    <3> HIDE DEF x, y
    <3>6. x = p \/ x < p
      BY <3>3
    <3>7. nodes[x].index = y
      BY <3>1, <3>2, <3>4, <3>5, <3>6
    <3> QED BY <3>7 DEF x, y
  <2>7. nodes[Max(X)].index = Max(Y)
    <3> DEFINE x == Max(X)
               y == Max(Y)
    <3>1. PICK p \in X : nodes[p].index = y
      BY <1>5, <2>4
    <3>2. nodes[x].index \in Y /\ nodes[x].index <= y
      BY <1>4, <2>3, <2>4
    <3>3. p <= x /\ x \in Nat /\ p \in Nat
      BY <2>3, <2>5 DEF Number
    <3>4. nodes[x].index \in Nat /\ y \in Nat
      BY <2>4, <2>5, <3>2 DEF Number
    <3>5. p < x => y < nodes[x].index
      BY <1>3, <2>3, <3>1
    <3> HIDE DEF x, y
    <3>6. x = p \/ p < x
      BY <3>3
    <3>7. nodes[x].index = y
      BY <3>1, <3>2, <3>4, <3>5, <3>6
    <3> QED BY <3>7 DEF x, y
  <2>8. IndexOf(key, Min(X)) = Min(Y) /\ IndexOf(key, Max(X)) = Max(Y)
    BY <2>2, <2>3, <2>6, <2>7
  <2> QED BY <1>7, <2>1, <2>8 DEF FirstOf, LastOf
<1> QED BY <1>6, <1>7

LEMMA NameLookups ==
  ASSUME HashesNames, HArrayInv, NEW key \in EntryNames
  PROVE  Lookup(key) = FirstOf(Places(key)) /\ TailLookup(key) = LastOf(Places(key))
<1> DEFINE nodes == hash[HashOf(key)]
           X == Mine(key)
           Y == Places(key)
<1>1. nodes \in Seq(HashNodes) /\ DOMAIN nodes = 1..Len(nodes)
  <2>1. nodes \in Seq(HashNodes)
    BY MineArePlaces
  <2> QED BY <2>1
<1>2. /\ NodeLookup(hash, NoNode, key) = IF X = {} THEN NoNode ELSE Min(X)
      /\ NodeTailLookup(hash, NoNode, key) = IF X = {} THEN NoNode ELSE Max(X)
  <2>1. /\ {i \in DOMAIN nodes : i > NoNode /\ nodes[i].key = key} = X
        /\ {i \in DOMAIN nodes : (NoNode = NoNode \/ i < NoNode) /\ nodes[i].key = key} = X
    BY <1>1 DEF Mine, NoNode
  <2> QED BY <2>1 DEF NodeLookup, NodeTailLookup
<1>3. \A p \in X : nodes[p].index \in Y
  BY MineArePlaces
<1>4. \A i \in Y : \E p \in X : nodes[p].index = i
  BY MineArePlaces
<1>5. X \in SUBSET Mine(key) /\ Y \in SUBSET Places(key)
  OBVIOUS
<1> HIDE DEF X, Y
<1>6. /\ IndexOf(key, IF X = {} THEN NoNode ELSE Min(X)) = FirstOf(Y)
      /\ IndexOf(key, IF X = {} THEN NoNode ELSE Max(X)) = LastOf(Y)
  BY <1>3, <1>4, <1>5, EndsAgree
<1> QED BY <1>2, <1>6 DEF Lookup, TailLookup, Y

\* From a node, to the next and to the one before.
LEMMA NameNeighbours ==
  ASSUME HashesNames, HArrayInv, NEW key \in EntryNames, NEW node \in Mine(key)
  PROVE  LET i == hash[HashOf(key)][node].index
         IN  /\ i \in Places(key)
             /\ IndexOf(key, NodeLookup(hash, node, key)) =
                  FirstOf({j \in Places(key) : j > i})
             /\ IndexOf(key, NodeTailLookup(hash, node, key)) =
                  LastOf({j \in Places(key) : j < i})
<1> DEFINE nodes == hash[HashOf(key)]
           i == nodes[node].index
           Later == {p \in Mine(key) : p > node}
           Earlier == {p \in Mine(key) : p < node}
           After == {j \in Places(key) : j > i}
           Sooner == {j \in Places(key) : j < i}
<1>1. nodes \in Seq(HashNodes) /\ DOMAIN nodes = 1..Len(nodes)
  <2>1. nodes \in Seq(HashNodes)
    BY MineArePlaces
  <2> QED BY <2>1
<1>2. /\ \A p \in Mine(key) : nodes[p].index \in Places(key)
      /\ \A j \in Places(key) : \E p \in Mine(key) : nodes[p].index = j
      /\ \A p, q \in Mine(key) : p < q => nodes[p].index < nodes[q].index
  BY MineArePlaces
<1>3. /\ NodeLookup(hash, node, key) = IF Later = {} THEN NoNode ELSE Min(Later)
      /\ NodeTailLookup(hash, node, key) = IF Earlier = {} THEN NoNode ELSE Max(Earlier)
  <2>1. node # NoNode
    BY DEF NoNode, Mine
  <2>2. /\ {p \in DOMAIN nodes : p > node /\ nodes[p].key = key} = Later
        /\ {p \in DOMAIN nodes : (node = NoNode \/ p < node) /\ nodes[p].key = key} = Earlier
    BY <1>1, <2>1 DEF Mine
  <2> QED BY <2>2 DEF NodeLookup, NodeTailLookup
<1>4. (\A p \in Mine(key) : p \in Nat) /\ \A j \in Places(key) : j \in Nat
  BY DEF HArrayInv, Mine, Places
<1> HIDE DEF nodes
\* A node is later than this one just if its place is.
<1>5. ASSUME NEW p \in Mine(key)
      PROVE  (p > node <=> nodes[p].index > i) /\ (p < node <=> nodes[p].index < i)
  <2> DEFINE j == nodes[p].index
  <2>1. i \in Nat /\ j \in Nat /\ p \in Nat /\ node \in Nat
    BY <1>2, <1>4
  <2>2. (p < node => j < i) /\ (node < p => i < j) /\ (p = node => j = i)
    BY <1>2
  <2> HIDE DEF i, j
  <2>3. (p > node <=> j > i) /\ (p < node <=> j < i)
    BY <2>1, <2>2
  <2> QED BY <2>3 DEF j
<1>6. i \in Places(key)
  BY <1>2
<1> HIDE DEF i
<1>7. IndexOf(key, IF Later = {} THEN NoNode ELSE Min(Later)) = FirstOf(After)
  <2>1. \A p \in Later : nodes[p].index \in After
    BY <1>2, <1>5
  <2>2. \A j \in After : \E p \in Later : nodes[p].index = j
    BY <1>2, <1>5
  <2>3. Later \in SUBSET Mine(key) /\ After \in SUBSET Places(key)
    OBVIOUS
  <2> HIDE DEF Later, After
  <2> QED BY <2>1, <2>2, <2>3, EndsAgree DEF nodes
<1>8. IndexOf(key, IF Earlier = {} THEN NoNode ELSE Max(Earlier)) = LastOf(Sooner)
  <2>1. \A p \in Earlier : nodes[p].index \in Sooner
    BY <1>2, <1>5
  <2>2. \A j \in Sooner : \E p \in Earlier : nodes[p].index = j
    BY <1>2, <1>5
  <2>3. Earlier \in SUBSET Mine(key) /\ Sooner \in SUBSET Places(key)
    OBVIOUS
  <2> HIDE DEF Earlier, Sooner
  <2> QED BY <2>1, <2>2, <2>3, EndsAgree DEF nodes
<1> HIDE DEF Later, Earlier
<1> QED BY <1>3, <1>6, <1>7, <1>8 DEF i, nodes

-----------------------------------------------------------------------------
(* Removal.                                                                *)

\* g is the hash without some of the nodes of the key.
Thinned(g, key) ==
  /\ g \in [Buckets -> Seq(HashNodes)] /\ NodesOrdered(g)
  /\ \A b \in Buckets : \A p \in 1..Len(g[b]) :
       \E q \in 1..Len(hash[b]) : hash[b][q] = g[b][p]
  /\ \A b \in Buckets : \A q \in 1..Len(hash[b]) :
       hash[b][q].key # key => \E p \in 1..Len(g[b]) : g[b][p] = hash[b][q]

\* What is found is a node of the key.
LEMMA NodeLookupFinds ==
  ASSUME NEW g \in [Buckets -> Seq(HashNodes)], NEW key, HashOf(key) \in Buckets
  PROVE  LET s == g[HashOf(key)]
             node == NodeLookup(g, NoNode, key)
         IN  \/ node = NoNode /\ \A p \in 1..Len(s) : s[p].key # key
             \/ /\ node \in 1..Len(s) /\ s[node].key = key
                /\ \A p \in 1..Len(s) : s[p].key = key => node <= p
<1> DEFINE s == g[HashOf(key)]
           X == {p \in 1..Len(s) : s[p].key = key}
<1>1. s \in Seq(HashNodes) /\ Len(s) \in Nat /\ DOMAIN s = 1..Len(s)
  OBVIOUS
<1>2. NodeLookup(g, NoNode, key) = IF X = {} THEN NoNode ELSE Min(X)
  <2>1. {p \in DOMAIN s : p > NoNode /\ s[p].key = key} = X
    BY <1>1 DEF NoNode
  <2> QED BY <2>1 DEF NodeLookup
<1>3. CASE X = {}
  BY <1>2, <1>3
<1>4. CASE X # {}
  <2>1. X \in SUBSET Nat
    BY <1>1
  <2> HIDE DEF X
  <2>2. Min(X) \in X /\ \A p \in X : Min(X) <= p
    BY <1>4, <2>1, MinOfPlaces
  <2>3. NodeLookup(g, NoNode, key) \in X /\ \A p \in X : NodeLookup(g, NoNode, key) <= p
    BY <1>2, <1>4, <2>2
  <2> QED BY <2>3 DEF X
<1> QED BY <1>3, <1>4

LEMMA RemoveOneThins ==
  ASSUME HashesNames, NEW key \in EntryNames, NEW g, Thinned(g, key)
  PROVE  /\ Thinned(RemoveOne(g, key), key)
         /\ \/ NodeLookup(RemoveOne(g, key), NoNode, key) = NoNode
            \/ Len(RemoveOne(g, key)[HashOf(key)]) = Len(g[HashOf(key)]) - 1
<1> DEFINE c == HashOf(key)
           s == g[c]
           node == NodeLookup(g, NoNode, key)
           r == RemoveOne(g, key)
           t == RemoveAt(s, node)
<1>1. c \in Buckets /\ g \in [Buckets -> Seq(HashNodes)]
  BY DEF HashesNames, Thinned
<1>2. CASE node = NoNode
  BY <1>2 DEF RemoveOne
<1>3. CASE node # NoNode
  <2>1. node \in 1..Len(s) /\ s[node].key = key
    BY <1>1, <1>3, NodeLookupFinds
  <2>2. s \in Seq(HashNodes) /\ Len(s) \in Nat
    BY <1>1
  <2>3. r = [g EXCEPT ![c] = t]
    BY <1>3 DEF RemoveOne
  <2> HIDE DEF node
  <2>4. /\ t \in Seq(HashNodes) /\ Len(t) = Len(s) - 1
        /\ \A i \in 1..(Len(s) - 1) : t[i] = IF i < node THEN s[i] ELSE s[i + 1]
    <3> HIDE DEF s
    <3> QED BY <2>1, <2>2, RemoveAtProperties
  <2> HIDE DEF c, t, r
  <2>5. /\ r \in [Buckets -> Seq(HashNodes)] /\ r[c] = t
        /\ \A b \in Buckets : b # c => r[b] = g[b]
    BY <1>1, <2>3, <2>4
  \* A node that is left was at its place or the one behind.
  <2>6. ASSUME NEW i \in 1..Len(t)
        PROVE  \E k \in 1..Len(s) : k = (IF i < node THEN i ELSE i + 1) /\ t[i] = s[k]
    BY <2>1, <2>2, <2>4
  <2>7. ASSUME NEW k \in 1..Len(s), s[k].key # key
        PROVE  \E i \in 1..Len(t) : t[i] = s[k]
    <3>1. k # node
      BY <2>1, <2>7
    <3>2. CASE k < node
      <4>1. k \in 1..(Len(s) - 1)
        BY <2>1, <2>2, <3>2
      <4> QED BY <2>4, <3>2, <4>1
    <3>3. CASE k > node
      <4>1. k - 1 \in 1..(Len(s) - 1) /\ ~(k - 1 < node) /\ (k - 1) + 1 = k
        BY <2>1, <2>2, <3>3
      <4> QED BY <2>4, <4>1
    <3> QED BY <2>1, <2>2, <3>1, <3>2, <3>3
  <2>8. NodesOrdered(r)
    <3> SUFFICES ASSUME NEW b \in Buckets, NEW p \in 1..Len(r[b]), NEW q \in 1..Len(r[b]), p < q
                 PROVE  r[b][p].index < r[b][q].index
      BY DEF NodesOrdered
    <3>1. CASE b # c
      BY <2>5, <3>1 DEF Thinned, NodesOrdered
    <3>2. CASE b = c
      <4>1. p \in 1..Len(t) /\ q \in 1..Len(t)
        BY <2>5, <3>2
      <4>2. PICK j \in 1..Len(s) : j = (IF p < node THEN p ELSE p + 1) /\ t[p] = s[j]
        BY <2>6, <4>1
      <4>3. PICK k \in 1..Len(s) : k = (IF q < node THEN q ELSE q + 1) /\ t[q] = s[k]
        BY <2>6, <4>1
      <4>4. j < k
        BY <2>1, <2>2, <2>4, <4>1, <4>2, <4>3
      <4>5. s[j].index < s[k].index
        BY <1>1, <4>4 DEF Thinned, NodesOrdered, c
      <4> QED BY <2>5, <3>2, <4>2, <4>3, <4>5
    <3> QED BY <3>1, <3>2
  <2>9. ASSUME NEW b \in Buckets, NEW p \in 1..Len(r[b])
        PROVE  \E q \in 1..Len(hash[b]) : hash[b][q] = r[b][p]
    <3>1. CASE b # c
      BY <2>5, <3>1 DEF Thinned
    <3>2. CASE b = c
      <4>1. PICK k \in 1..Len(s) : t[p] = s[k]
        BY <2>5, <2>6, <3>2
      <4>2. \E q \in 1..Len(hash[c]) : hash[c][q] = s[k]
        BY <1>1 DEF Thinned, c
      <4> QED BY <2>5, <3>2, <4>1, <4>2
    <3> QED BY <3>1, <3>2
  <2>10. ASSUME NEW b \in Buckets, NEW q \in 1..Len(hash[b]), hash[b][q].key # key
         PROVE  \E p \in 1..Len(r[b]) : r[b][p] = hash[b][q]
    <3>1. PICK k \in 1..Len(g[b]) : g[b][k] = hash[b][q]
      BY <2>10 DEF Thinned
    <3>2. CASE b # c
      BY <2>5, <3>1, <3>2
    <3>3. CASE b = c
      <4>1. k \in 1..Len(s) /\ s[k].key # key
        BY <2>10, <3>1, <3>3
      <4>2. PICK i \in 1..Len(t) : t[i] = s[k]
        BY <2>7, <4>1
      <4> QED BY <2>5, <3>1, <3>3, <4>2
    <3> QED BY <3>2, <3>3
  <2>11. Thinned(r, key)
    BY <2>5, <2>8, <2>9, <2>10 DEF Thinned
  <2>12. Len(r[c]) = Len(s) - 1
    BY <2>4, <2>5
  <2> QED BY <2>11, <2>12 DEF r, c
<1> QED BY <1>2, <1>3

\* r_hash_remove goes on until there is none: no more often than the bucket is
\* long.
LEMMA RemoveThins ==
  ASSUME HashesNames, HArrayInv, NEW key \in EntryNames
  PROVE  /\ Thinned(HashRemove(hash, key), key)
         /\ NodeLookup(HashRemove(hash, key), NoNode, key) = NoNode
<1> DEFINE c == HashOf(key)
           len == Len(hash[c])
           T == [Buckets -> Seq(HashNodes)]
           F == [i \in 1..len |-> [g \in T |-> RemoveOne(g, key)]]
           left[n \in 0..len] ==
             IF n = 0 THEN hash
             ELSE RemoveOne(left[n - 1], key)
<1>1. c \in Buckets /\ hash \in T /\ len \in Nat
  BY DEF HashesNames, HArrayInv, HashFits
<1>2. F \in [1..len -> [T -> T]]
  <2>1. ASSUME NEW g \in T
        PROVE  RemoveOne(g, key) \in T
    <3> DEFINE s == g[c]
               node == NodeLookup(g, NoNode, key)
    <3>1. CASE node = NoNode
      BY <3>1 DEF RemoveOne
    <3>2. CASE node # NoNode
      <4>1. node \in 1..Len(s)
        BY <1>1, <3>2, NodeLookupFinds
      <4>2. RemoveOne(g, key) = [g EXCEPT ![c] = RemoveAt(s, node)]
        BY <3>2 DEF RemoveOne
      <4>3. s \in Seq(HashNodes)
        BY <1>1
      <4> HIDE DEF s, node
      <4>4. RemoveAt(s, node) \in Seq(HashNodes)
        BY <4>1, <4>3, RemoveAtProperties
      <4> HIDE DEF c
      <4> QED BY <1>1, <4>2, <4>4
    <3> QED BY <3>1, <3>2
  <2> HIDE DEF T
  <2> QED BY <2>1
<1>3. PICK f \in [0..len -> T] : Follows(f, len, hash, F)
  <2> HIDE DEF F, T, left, len
  <2>1. \E f \in [0..len -> T] : Follows(f, len, hash, F)
    BY <1>1, <1>2, Iterates
  <2> QED BY <2>1
<1>4. f = [n \in 0..len |-> IF n = 0 THEN hash ELSE RemoveOne(f[n - 1], key)]
  <2> HIDE DEF T, len
  <2>1. \A i \in 1..len : i - 1 \in 0..len /\ f[i - 1] \in T
    BY <1>1
  <2>2. \A i \in 1..len : f[i] = RemoveOne(f[i - 1], key)
    BY <1>3, <2>1 DEF Follows
  <2>3. \A n \in 0..len : n = 0 \/ n \in 1..len
    BY <1>1
  <2>4. f[0] = hash
    BY <1>3 DEF Follows
  <2> HIDE DEF F
  <2> QED BY <2>2, <2>3, <2>4
<1>5. left = [n \in 0..len |-> IF n = 0 THEN hash ELSE RemoveOne(left[n - 1], key)]
  <2> HIDE DEF F, T
  <2> QED BY <1>4
<1>6. HashRemove(hash, key) = left[len]
  BY DEF HashRemove
<1> HIDE DEF left, F, T
<1>7. left[0] = hash /\ \A i \in 1..len : left[i] = RemoveOne(left[i - 1], key)
  <2> HIDE DEF len
  <2> QED BY <1>1, <1>5
<1> DEFINE Gone(g) == NodeLookup(g, NoNode, key) = NoNode
           P == {n \in 0..len : /\ Thinned(left[n], key)
                                /\ Gone(left[n]) \/ Len(left[n][c]) = len - n}
<1>8. 0 \in P
  <2>1. Thinned(hash, key)
    BY DEF Thinned, HArrayInv, HashFits
  <2> QED BY <1>1, <1>7, <2>1
<1>9. ASSUME NEW n \in 1..len, n - 1 \in P
      PROVE  n \in P
  <2> DEFINE g == left[n - 1]
             r == RemoveOne(g, key)
  <2>1. left[n] = r /\ Thinned(g, key)
    BY <1>7, <1>9
  <2>2. Thinned(r, key) /\ (Gone(r) \/ Len(r[c]) = Len(g[c]) - 1)
    BY <2>1, RemoveOneThins
  <2>3. CASE Gone(g)
    <3>1. r = g
      BY <2>3 DEF RemoveOne
    <3> QED BY <2>1, <2>3, <3>1
  <2>4. CASE ~Gone(g)
    <3>1. Len(g[c]) = len - (n - 1)
      BY <1>9, <2>4
    <3> HIDE DEF r, g, Gone
    <3>2. len - (n - 1) - 1 = len - n
      BY <1>1
    <3>3. Gone(r) \/ Len(r[c]) = len - n
      BY <2>2, <3>1, <3>2
    <3>4. Thinned(left[n], key) /\ (Gone(left[n]) \/ Len(left[n][c]) = len - n)
      BY <2>1, <2>2, <3>3
    <3>5. n \in 0..len
      BY <1>1
    <3> QED BY <3>4, <3>5
  <2> QED BY <2>3, <2>4
<1>10. P = 0..len
  <2>1. P \in SUBSET (0..len)
    OBVIOUS
  <2> HIDE DEF P, len
  <2> QED BY <1>1, <1>8, <1>9, <2>1, HoldsUpto
<1>11. Thinned(left[len], key) /\ (Gone(left[len]) \/ Len(left[len][c]) = 0)
  <2>1. len \in P
    <3> HIDE DEF P
    <3> QED BY <1>1, <1>10
  <2> HIDE DEF Gone
  <2> QED BY <1>1, <2>1
<1>12. Gone(left[len])
  <2> DEFINE g == left[len]
  <2>1. g \in [Buckets -> Seq(HashNodes)]
    BY <1>11 DEF Thinned
  <2> HIDE DEF g
  <2>2. Gone(g) \/ NodeLookup(g, NoNode, key) \in 1..Len(g[c])
    BY <1>1, <2>1, NodeLookupFinds
  <2> QED BY <1>11, <2>2 DEF g
<1> QED BY <1>6, <1>11, <1>12

\* The names that stay are found where they were first.
LEMMA HArrayRemoves ==
  ASSUME HashesNames, HArrayInv
  PROVE  NamesRemoved
<1> SUFFICES ASSUME NEW key \in EntryNames, NEW other \in EntryNames
             PROVE  LET without == HashRemove(hash, key)
                        node == NodeLookup(without, NoNode, other)
                    IN  IF key = other \/ Places(other) = {} THEN node = NoNode
                        ELSE without[HashOf(other)][node].index = Min(Places(other))
  BY DEF NamesRemoved
<1> DEFINE g == HashRemove(hash, key)
           b == HashOf(other)
           node == NodeLookup(g, NoNode, other)
           Y == Places(other)
<1>1. Thinned(g, key) /\ (key = other => node = NoNode)
  BY RemoveThins
<1>2. b \in Buckets /\ g \in [Buckets -> Seq(HashNodes)] /\ hash \in [Buckets -> Seq(HashNodes)]
  BY <1>1 DEF HashesNames, Thinned, HArrayInv, HashFits
<1>3. \/ node = NoNode /\ \A p \in 1..Len(g[b]) : g[b][p].key # other
      \/ /\ node \in 1..Len(g[b]) /\ g[b][node].key = other
         /\ \A p \in 1..Len(g[b]) : g[b][p].key = other => node <= p
  <2> HIDE DEF g
  <2> QED BY <1>2, NodeLookupFinds
\* A node of this name is at one of its places, and each of them has one.
<1>4. ASSUME NEW p \in 1..Len(g[b]), g[b][p].key = other
      PROVE  g[b][p].index \in Y
  <2>1. PICK q \in 1..Len(hash[b]) : hash[b][q] = g[b][p]
    BY <1>1, <1>2 DEF Thinned
  <2>2. q \in Mine(other)
    BY <1>4, <2>1 DEF Mine
  <2> QED BY <2>1, <2>2, MineArePlaces
<1>5. ASSUME key # other, NEW i \in Y
      PROVE  \E p \in 1..Len(g[b]) : g[b][p].key = other /\ g[b][p].index = i
  <2>1. PICK q \in Mine(other) : hash[b][q].index = i
    BY MineArePlaces
  <2>2. q \in 1..Len(hash[b]) /\ hash[b][q].key = other
    BY <2>1 DEF Mine
  <2>3. PICK p \in 1..Len(g[b]) : g[b][p] = hash[b][q]
    BY <1>1, <1>2, <1>5, <2>2 DEF Thinned
  <2> QED BY <2>1, <2>2, <2>3
<1>6. CASE key = other \/ Y = {}
  BY <1>1, <1>3, <1>4, <1>6
<1>7. CASE key # other /\ Y # {}
  <2>1. Y \in SUBSET Nat
    BY DEF Places
  <2> HIDE DEF g, Y
  <2>2. Min(Y) \in Y /\ \A i \in Y : Min(Y) <= i
    BY <1>7, <2>1, MinOfPlaces
  <2>3. PICK p \in 1..Len(g[b]) : g[b][p].key = other /\ g[b][p].index = Min(Y)
    BY <1>5, <1>7, <2>2
  <2>4. node \in 1..Len(g[b]) /\ g[b][node].key = other /\ node <= p
    BY <1>3, <2>3
  <2>5. g[b][node].index \in Y
    BY <1>4, <2>4
  <2>6. Min(Y) <= g[b][node].index /\ g[b][node].index \in Nat /\ Min(Y) \in Nat
    BY <2>1, <2>2, <2>5
  <2>7. node < p => g[b][node].index < Min(Y)
    BY <1>1, <1>2, <2>3, <2>4 DEF Thinned, NodesOrdered
  <2>8. node = p \/ node < p
    <3>1. node \in Nat /\ p \in Nat
      BY <1>2, <2>4
    <3> QED BY <2>4, <3>1
  <2>9. g[b][node].index = Min(Y)
    BY <2>3, <2>6, <2>7, <2>8
  <2> QED BY <1>7, <2>9 DEF g, Y
<1> QED BY <1>6, <1>7

LEMMA HArrayInvHolds ==
  ASSUME HashesNames, HArrayInv
  PROVE  NamesFound
<1>1. members.len = Len(added) /\ names.len = Len(added) /\ Len(added) \in Nat
  BY DEF HArrayInv
<1>2. ASSUME NEW key \in EntryNames
      PROVE  LET nodes == hash[HashOf(key)]
                 places == Places(key)
             IN  /\ Lookup(key) = FirstOf(places) /\ TailLookup(key) = LastOf(places)
                 /\ TailLookupS(key) = FirstOf(places)
                 /\ \A node \in DOMAIN nodes :
                      nodes[node].key = key =>
                        LET i == nodes[node].index
                        IN  /\ i \in places
                            /\ IndexOf(key, NodeLookup(hash, node, key)) =
                                 FirstOf({j \in places : j > i})
                            /\ IndexOf(key, NodeTailLookup(hash, node, key)) =
                                 LastOf({j \in places : j < i})
  <2>1. /\ Lookup(key) = FirstOf(Places(key)) /\ TailLookup(key) = LastOf(Places(key))
        /\ TailLookupS(key) = FirstOf(Places(key))
    BY NameLookups DEF TailLookupS
  <2>2. ASSUME NEW node \in DOMAIN hash[HashOf(key)], hash[HashOf(key)][node].key = key
        PROVE  node \in Mine(key)
    <3>1. hash[HashOf(key)] \in Seq(HashNodes)
      BY MineArePlaces
    <3> QED BY <2>2, <3>1 DEF Mine
  <2> QED BY <2>1, <2>2, NameNeighbours, Zenon
<1>3. ASSUME NEW i \in 0..(Len(added) - 1)
      PROVE  ArrayElements(names)[i + 1] = added[i + 1][1] /\ Get(i) = added[i + 1][2]
  <2>1. names.slots[i] = added[i + 1][1] /\ CSlot(members, i) = added[i + 1][2]
    BY DEF HArrayInv
  <2>2. i + 1 \in 1..names.len /\ i + 1 - 1 = i /\ ~(i >= members.len)
    BY <1>1
  <2> QED BY <2>1, <2>2 DEF ArrayElements, Get
<1>4. Get(Len(added)) = NoValue
  BY <1>1 DEF Get
<1> QED BY <1>1, <1>2, <1>3, <1>4, HArrayRemoves, Zenon DEF NamesFound

-----------------------------------------------------------------------------
LEMMA HArrayStepKeeps ==
  ASSUME HashesNames, HArrayInv, [HArrayNext]_<<harray, added>>
  PROVE  HArrayInv'
<1>1. ASSUME NEW key \in EntryNames, NEW value \in Values, Replace(key, value)
      PROVE  HArrayInv'
  <2>1. CASE Add(key, value)
    BY <2>1, HArrayAddKeeps
  <2>2. CASE /\ Lookup(key) # -1
             /\ members' = CReplace(members, Lookup(key), value)
             /\ added' = [added EXCEPT ![Lookup(key) + 1][2] = value]
             /\ UNCHANGED <<names, hash>>
    <3> DEFINE index == Lookup(key)
    <3>1. index \in Places(key)
      <4>1. index = FirstOf(Places(key))
        BY NameLookups
      <4>2. Places(key) # {} /\ index = Min(Places(key))
        BY <2>2, <4>1 DEF FirstOf
      <4>3. Places(key) \in SUBSET Nat
        BY DEF Places
      <4> QED BY <4>2, <4>3, MinOfPlaces
    <3>2. index \in Nat /\ index < Len(added)
      BY <3>1 DEF Places, HArrayInv
    <3>3. /\ members' = CReplace(members, index, value)
          /\ added' = [added EXCEPT ![index + 1][2] = value]
      BY <2>2
    <3> HIDE DEF index
    <3>4. added' = IF index < Len(added) THEN [added EXCEPT ![index + 1][2] = value] ELSE added
      BY <3>2, <3>3
    <3> QED BY <2>2, <3>2, <3>3, <3>4, WriteKeepsInv
  <2> QED BY <1>1, <2>1, <2>2 DEF Replace
<1>2. ASSUME NEW index \in 0..(members.len + 1), NEW value \in Values, Set(index, value)
      PROVE  HArrayInv'
  <2>1. index \in Nat
    BY DEF HArrayInv
  <2> QED BY <1>2, <2>1, WriteKeepsInv DEF Set
<1>3. CASE UNCHANGED <<harray, added>>
  <2>1. names' = names /\ members' = members /\ hash' = hash /\ added' = added
    BY <1>3 DEF harray
  <2> QED BY <2>1 DEF HArrayInv
<1> QED BY <1>1, <1>2, <1>3, HArrayAddKeeps, HArrayCopyKeeps DEF HArrayNext

\* Whatever is added, replaced, set and copied, a name leads to the entries
\* added with it, in order, and an entry has the name and the value last given
\* to it: names repeat and share buckets, and both arrays grow.
THEOREM NamesAreFound ==
  ASSUME HashesNames
  PROVE  HArraySpec => []NamesFound
<1>1. HArrayInit => HArrayInv
  BY InitHArrayInv
<1>2. HArrayInv /\ [HArrayNext]_<<harray, added>> => HArrayInv'
  BY HArrayStepKeeps
<1>3. HArrayInv => NamesFound
  BY HArrayInvHolds
<1> QED BY <1>1, <1>2, <1>3, PTL DEF HArraySpec

-----------------------------------------------------------------------------
(* The count of references.                                                *)

\* What a thread in a call relies on: it has a reference of its own until it
\* gives it up, and inside the lock nobody else changes the count.
HasOwn(t) ==
  \/ pc[t] \in {"lock", "test", "load", "store"}
  \/ pc[t] \in {"get", "unlock"} /\ op[t] = "inc"

Alone ==
  /\ \A t \in Threads : pc[t] \in Inside => lock = 1
  /\ \A t, u \in Threads : pc[t] \in Inside /\ pc[u] \in Inside => t = u

Knows(t) ==
  /\ HasOwn(t) => owner[use[t]] = t
  /\ pc[t] = "store" => tmp[t] = count
  /\ pc[t] \in {"test", "check", "destroy"} => op[t] = "dec"
  /\ pc[t] = "destroy" => count = 0
  /\ pc[t] \in {"get", "unlock"} => count # 0
  /\ pc[t] = "unlock" => tmp[t] = count

Steps == \A t \in Threads : Knows(t)

Types ==
  /\ lock \in {0, 1} /\ destroyed \in BOOLEAN
  /\ owner \in [Refs -> Threads \union {Nobody}]
  /\ pc \in [Threads -> {"idle", "lock"} \union Inside]
  /\ op \in [Threads -> {"inc", "dec"}]
  /\ use \in [Threads -> Refs]
  /\ tmp \in [Threads -> 0..Cardinality(Refs)]
  /\ sole \in [Threads -> BOOLEAN]

IInv ==
  /\ Types /\ Counts /\ Alone /\ Steps
  /\ DestroyedUnused /\ LastDestroys /\ SoleIsSole

-----------------------------------------------------------------------------
LEMMA HeldFinite ==
  /\ IsFiniteSet(Held)
  /\ Cardinality(Held) \in 0..Cardinality(Refs)
  /\ Cardinality(Refs) \in Nat
<1>1. Held \in SUBSET Refs
  BY DEF Held
<1>2. IsFiniteSet(Held) /\ Cardinality(Held) <= Cardinality(Refs)
  BY <1>1, RefsAssumption, FS_Subset
<1>3. Cardinality(Held) \in Nat /\ Cardinality(Refs) \in Nat
  BY <1>2, RefsAssumption, FS_CardinalityType
<1> QED BY <1>2, <1>3

\* Counting is over exactly when no reference is left.
LEMMA NoneHeld == Counts => (count = 0 <=> Held = {})
  BY HeldFinite, FS_EmptySet DEF Counts

\* A thread that has a reference, or is in a call, finds the object there.
LEMMA Alive ==
  ASSUME IInv, NEW t \in Threads,
         pc[t] # "idle" \/ \E r \in Refs : owner[r] = t
  PROVE  ~destroyed
<1>1. CASE pc[t] # "idle"
  BY <1>1 DEF IInv, DestroyedUnused
<1>2. CASE \E r \in Refs : owner[r] = t
  <2>1. Held # {}
    BY <1>2, NobodyAssumption DEF Held
  <2> QED BY <2>1 DEF IInv, DestroyedUnused
<1> QED BY <1>1, <1>2

\* Refs holds one reference, as the object is created.
LEMMA InitIInv == Init => IInv
<1> SUFFICES ASSUME Init PROVE IInv
  OBVIOUS
<1>1. PICK r \in Refs, t \in Threads :
        owner = [[q \in Refs |-> Nobody] EXCEPT ![r] = t]
  BY DEF Init
<1>2. Held = {r}
  BY <1>1, NobodyAssumption DEF Held
<1>3. Cardinality(Held) = 1
  BY <1>2, FS_Singleton
<1>4. Types
  <2>1. owner \in [Refs -> Threads \union {Nobody}]
    BY <1>1
  <2>2. tmp \in [Threads -> 0..Cardinality(Refs)]
    BY HeldFinite DEF Init
  <2> QED BY <2>1, <2>2 DEF Init, Types, Inside
<1>5. Counts
  BY <1>3 DEF Init, Counts
<1>6. Alone /\ Steps
  BY DEF Init, Alone, Steps, Knows, HasOwn, Inside
<1>7. DestroyedUnused /\ LastDestroys /\ SoleIsSole
  BY <1>2 DEF Init, DestroyedUnused, LastDestroys, SoleIsSole
<1> QED BY <1>4, <1>5, <1>6, <1>7 DEF IInv

-----------------------------------------------------------------------------
\* The steps of the callers: the count and the lock are left alone.
LEMMA CallKeeps == ASSUME IInv, NEW t \in Threads, Call(t) PROVE IInv'
<1>1. PICK r \in Refs : owner[r] = t /\ use' = [use EXCEPT ![t] = r]
  BY DEF Call
<1>2. ~destroyed /\ pc[t] = "idle" /\ UNCHANGED <<count, lock, destroyed, owner, tmp>>
  BY <1>1, Alive DEF Call, Goes
<1>3. pc' = [pc EXCEPT ![t] = "lock"]
  BY DEF Call, Goes
<1>4. Types'
  BY <1>1, <1>2, <1>3 DEF IInv, Types, Call, Inside
<1>5. Counts' /\ Held' = Held
  BY <1>2 DEF IInv, Counts, Held
<1>6. Alone'
  BY <1>2, <1>3 DEF IInv, Types, Alone, Inside
<1>7. Steps'
  BY <1>1, <1>2, <1>3 DEF IInv, Types, Steps, Knows, HasOwn, Call
<1>8. DestroyedUnused' /\ LastDestroys'
  BY <1>2, <1>3, <1>5 DEF IInv, Types, DestroyedUnused, LastDestroys
<1>9. SoleIsSole'
  BY <1>2, <1>5 DEF IInv, Types, SoleIsSole, Call
<1> QED BY <1>4, <1>5, <1>6, <1>7, <1>8, <1>9 DEF IInv

LEMMA GetsKeeps == ASSUME IInv, NEW t \in Threads, Gets(t) PROVE IInv'
<1>1. PICK r \in Refs : owner[r] = t
  BY DEF Gets
<1>2. UNCHANGED <<count, lock, destroyed, owner, pc, op, use, tmp>> /\ Held' = Held
  BY DEF Gets, Held
<1>3. Types' /\ Counts' /\ Alone' /\ Steps' /\ DestroyedUnused' /\ LastDestroys'
  BY <1>2 DEF IInv, Types, Counts, Alone, Steps, Knows, HasOwn, DestroyedUnused,
              LastDestroys, Gets
<1>4. count = 1 => \A q \in Held : owner[q] = t
  <2> SUFFICES ASSUME count = 1, NEW q \in Held PROVE q = r
    BY <1>1
  <2>1. \E x : Held = {x}
    BY HeldFinite, FS_Singleton DEF IInv, Counts
  <2>2. r \in Held
    BY <1>1, NobodyAssumption DEF Held
  <2> QED BY <2>1, <2>2
<1>5. SoleIsSole'
  BY <1>2, <1>4 DEF IInv, Types, SoleIsSole, Gets
<1> QED BY <1>3, <1>5 DEF IInv

\* Whoever has called r_ref_get and was told that it is alone still is, when
\* the others have nothing to give.
LEMMA GivesKeeps == ASSUME IInv, NEW t \in Threads, Gives(t) PROVE IInv'
<1>1. PICK r \in Refs, u \in Threads :
        owner[r] = t /\ owner' = [owner EXCEPT ![r] = u]
  BY DEF Gives
<1>2. pc[t] = "idle" /\ UNCHANGED <<count, lock, destroyed, pc, op, use, tmp>>
  BY DEF Gives
<1>3. Held' = Held /\ r \in Held
  BY <1>1, NobodyAssumption DEF IInv, Types, Held
<1>4. Types'
  BY <1>1, <1>2 DEF IInv, Types, Gives
<1>5. Counts' /\ Alone' /\ DestroyedUnused' /\ LastDestroys'
  BY <1>2, <1>3 DEF IInv, Counts, Alone, DestroyedUnused, LastDestroys
<1>6. Steps'
  <2> SUFFICES ASSUME NEW v \in Threads, HasOwn(v) PROVE owner'[use[v]] = v
    BY <1>2 DEF IInv, Steps, Knows, HasOwn
  <2>1. v # t /\ owner[use[v]] = v
    BY <1>2 DEF IInv, Steps, Knows, HasOwn
  <2> QED BY <2>1, <1>1 DEF IInv, Types
<1>7. SoleIsSole'
  <2> SUFFICES ASSUME NEW v \in Threads, sole'[v], NEW q \in Held
               PROVE  owner'[q] = v
    BY <1>3 DEF SoleIsSole
  <2>1. v # t /\ sole[v]
    BY DEF Gives, IInv, Types
  <2>2. owner[r] = v
    BY <2>1, <1>3 DEF IInv, SoleIsSole
  <2> QED BY <2>1, <2>2, <1>1
<1> QED BY <1>4, <1>5, <1>6, <1>7 DEF IInv

-----------------------------------------------------------------------------
\* A step inside the lock that leaves the count and the references alone.
LEMMA QuietKeeps ==
  ASSUME IInv, NEW t \in Threads, NEW to \in Inside,
         pc[t] \in Inside \/ (pc[t] = "lock" /\ lock = 0),
         pc' = [pc EXCEPT ![t] = to], lock' = 1,
         tmp' = tmp \/ tmp' = [tmp EXCEPT ![t] = count],
         UNCHANGED <<count, destroyed, owner, op, use, sole>>,
         Knows(t)',
         Held # {} \/ to \in {"check", "destroy"}
  PROVE  IInv'
<1>1. ~destroyed
  BY Alive DEF Inside
<1>2. Held' = Held
  BY DEF Held
<1>3. \A u \in Threads : u # t => pc[u] \notin Inside /\ pc'[u] = pc[u]
  BY DEF IInv, Types, Alone
<1>4. Types'
  <2>1. count \in 0..Cardinality(Refs)
    BY HeldFinite DEF IInv, Counts
  <2> QED BY <2>1 DEF IInv, Types
<1>5. Counts' /\ SoleIsSole'
  BY <1>2 DEF IInv, Counts, SoleIsSole
<1>6. Alone'
  BY <1>3 DEF Alone
<1>7. Steps'
  <2> SUFFICES ASSUME NEW u \in Threads, u # t PROVE Knows(u)'
    BY DEF Steps
  <2>1. pc'[u] = pc[u] /\ pc[u] \notin Inside
    BY <1>3
  <2> QED BY <2>1 DEF IInv, Steps, Knows, HasOwn, Inside
<1>8. DestroyedUnused'
  BY <1>1 DEF DestroyedUnused
<1>9. LastDestroys'
  BY <1>2 DEF IInv, Types, LastDestroys
<1> QED BY <1>4, <1>5, <1>6, <1>7, <1>8, <1>9 DEF IInv

\* A thread that has a reference of its own sees a count that is not 0.
LEMMA OwnCounts ==
  ASSUME IInv, NEW t \in Threads, HasOwn(t)
  PROVE  owner[use[t]] = t /\ use[t] \in Held /\ Held # {} /\ count # 0
<1>1. owner[use[t]] = t /\ use[t] \in Refs
  BY DEF IInv, Types, Steps, Knows
<1>2. use[t] \in Held
  BY <1>1, NobodyAssumption DEF Held
<1> QED BY <1>1, <1>2, NoneHeld DEF IInv

LEMMA LocksKeeps == ASSUME IInv, NEW t \in Threads, Locks(t) PROVE IInv'
<1> DEFINE to == IF op[t] = "dec" THEN "test" ELSE "load"
<1>1. /\ pc[t] = "lock" /\ lock = 0 /\ lock' = 1
      /\ pc' = [pc EXCEPT ![t] = to]
      /\ UNCHANGED <<count, destroyed, owner, op, use, tmp, sole>>
  BY DEF Locks, Goes
<1>2. owner[use[t]] = t /\ Held # {}
  BY <1>1, OwnCounts DEF HasOwn
<1>3. Knows(t)'
  BY <1>1, <1>2 DEF IInv, Types, Knows, HasOwn
<1>4. to \in Inside
  BY DEF Inside
<1> HIDE DEF to
<1> QED BY <1>1, <1>2, <1>3, <1>4, QuietKeeps

LEMMA TestsKeeps == ASSUME IInv, NEW t \in Threads, Tests(t) PROVE IInv'
<1>1. pc[t] = "test" /\ op[t] = "dec" /\ lock = 1
  BY DEF Tests, Goes, IInv, Steps, Knows, Alone, Inside
<1>2. owner[use[t]] = t /\ Held # {} /\ count # 0
  BY <1>1, OwnCounts DEF HasOwn
<1>3. pc' = [pc EXCEPT ![t] = "load"]
      /\ UNCHANGED <<count, lock, destroyed, owner, op, use, tmp, sole>>
  BY <1>2 DEF Tests, Goes
<1>4. Knows(t)'
  BY <1>1, <1>2, <1>3 DEF IInv, Types, Knows, HasOwn
<1> QED BY <1>1, <1>2, <1>3, <1>4, QuietKeeps DEF Inside

LEMMA LoadsKeeps == ASSUME IInv, NEW t \in Threads, Loads(t) PROVE IInv'
<1>1. /\ pc[t] = "load" /\ pc' = [pc EXCEPT ![t] = "store"]
      /\ tmp' = [tmp EXCEPT ![t] = count]
      /\ UNCHANGED <<count, lock, destroyed, owner, op, use, sole>>
  BY DEF Loads, Goes
<1>2. lock = 1
  BY <1>1 DEF IInv, Alone, Inside
<1>3. owner[use[t]] = t /\ Held # {}
  BY <1>1, OwnCounts DEF HasOwn
<1>4. Knows(t)'
  BY <1>1, <1>3 DEF IInv, Types, Knows, HasOwn
<1> QED BY <1>1, <1>2, <1>3, <1>4, QuietKeeps DEF Inside

LEMMA ChecksKeeps == ASSUME IInv, NEW t \in Threads, Checks(t) PROVE IInv'
<1> DEFINE to == IF count = 0 THEN "destroy" ELSE "get"
<1>1. /\ pc[t] = "check" /\ pc' = [pc EXCEPT ![t] = to]
      /\ UNCHANGED <<count, lock, destroyed, owner, op, use, tmp, sole>>
  BY DEF Checks, Goes
<1>2. lock = 1 /\ op[t] = "dec"
  BY <1>1 DEF IInv, Alone, Inside, Steps, Knows
<1>3. Knows(t)'
  BY <1>1, <1>2 DEF IInv, Types, Knows, HasOwn
<1>4. to \in Inside /\ (Held # {} \/ to \in {"check", "destroy"})
  BY NoneHeld DEF IInv, Inside
<1> HIDE DEF to
<1> QED BY <1>1, <1>2, <1>3, <1>4, QuietKeeps DEF Inside

LEMMA ReadsKeeps == ASSUME IInv, NEW t \in Threads, Reads(t) PROVE IInv'
<1>1. /\ pc[t] = "get" /\ pc' = [pc EXCEPT ![t] = "unlock"]
      /\ tmp' = [tmp EXCEPT ![t] = count]
      /\ UNCHANGED <<count, lock, destroyed, owner, op, use, sole>>
  BY DEF Reads, Goes
<1>2. lock = 1 /\ count # 0 /\ Held # {}
  BY <1>1, NoneHeld DEF IInv, Alone, Inside, Steps, Knows
<1>3. Knows(t)'
  BY <1>1, <1>2 DEF IInv, Types, Steps, Knows, HasOwn
<1> QED BY <1>1, <1>2, <1>3, QuietKeeps DEF Inside

-----------------------------------------------------------------------------
\* The steps that make and give up a reference.
LEMMA StoresMoreKeeps == ASSUME IInv, NEW t \in Threads, StoresMore(t) PROVE IInv'
<1>1. PICK r \in Refs : owner[r] = Nobody /\ owner' = [owner EXCEPT ![r] = t]
  BY DEF StoresMore
<1>2. /\ pc[t] = "store" /\ pc' = [pc EXCEPT ![t] = "get"] /\ op[t] = "inc"
      /\ UNCHANGED <<lock, destroyed, op, use, tmp, sole>>
  BY DEF StoresMore, Goes
<1>3. count' = count + 1
  BY <1>2 DEF StoresMore, IInv, Steps, Knows
<1>4. owner[use[t]] = t /\ use[t] \in Held /\ count # 0
  BY <1>2, OwnCounts DEF HasOwn
<1>5. Held' = Held \union {r} /\ r \notin Held
  BY <1>1, NobodyAssumption DEF IInv, Types, Held
<1>6. Types'
  BY <1>1, <1>2 DEF IInv, Types, Inside
<1>7. Counts' /\ count' # 0
  <2>1. Cardinality(Held') = Cardinality(Held) + 1
    BY <1>5, HeldFinite, FS_AddElement
  <2>2. count = Cardinality(Held) /\ Cardinality(Held) \in Nat
    BY HeldFinite DEF IInv, Counts
  <2> QED BY <2>1, <2>2, <1>3 DEF Counts
<1>8. \A u \in Threads : u # t => pc[u] \notin Inside /\ pc'[u] = pc[u]
  BY <1>2 DEF IInv, Types, Alone, Inside
<1>9. Alone'
  BY <1>2, <1>8 DEF IInv, Alone, Inside
<1>10. Steps'
  <2>1. Knows(t)'
    <3>1. owner'[use[t]] = t
      BY <1>1, <1>4, NobodyAssumption DEF IInv, Types
    <3> QED BY <3>1, <1>2, <1>7 DEF IInv, Types, Knows, HasOwn
  <2>2. ASSUME NEW u \in Threads, u # t PROVE Knows(u)'
    <3>1. HasOwn(u)' => owner'[use[u]] = u
      BY <2>2, <1>1, <1>2, <1>8, NobodyAssumption
      DEF IInv, Types, Steps, Knows, HasOwn, Inside
    <3> QED BY <3>1, <2>2, <1>2, <1>8 DEF Knows, Inside
  <2> QED BY <2>1, <2>2 DEF Steps
<1>11. DestroyedUnused' /\ LastDestroys'
  BY <1>2, <1>5, Alive DEF DestroyedUnused, LastDestroys
<1>12. SoleIsSole'
  BY <1>1, <1>2, <1>4, <1>5 DEF IInv, Types, SoleIsSole, Held
<1> QED BY <1>6, <1>7, <1>9, <1>10, <1>11, <1>12 DEF IInv

LEMMA StoresLessKeeps == ASSUME IInv, NEW t \in Threads, StoresLess(t) PROVE IInv'
<1> DEFINE r == use[t]
<1>1. /\ pc[t] = "store" /\ pc' = [pc EXCEPT ![t] = "check"] /\ op[t] = "dec"
      /\ owner' = [owner EXCEPT ![r] = Nobody]
      /\ UNCHANGED <<lock, destroyed, op, use, tmp, sole>>
  BY DEF StoresLess, Goes
<1>2. count' = count - 1
  BY <1>1 DEF StoresLess, IInv, Steps, Knows
<1>3. owner[r] = t /\ r \in Held /\ r \in Refs
  BY <1>1, OwnCounts DEF HasOwn, IInv, Types
<1>4. Held' = Held \ {r}
  BY <1>1, <1>3 DEF IInv, Types, Held
<1>5. Types'
  BY <1>1 DEF IInv, Types, Inside
<1>6. Counts'
  BY <1>2, <1>3, <1>4, HeldFinite, FS_RemoveElement DEF IInv, Counts
<1>7. \A u \in Threads : u # t => pc[u] \notin Inside /\ pc'[u] = pc[u]
  BY <1>1 DEF IInv, Types, Alone, Inside
<1>8. Alone'
  BY <1>1, <1>7 DEF IInv, Alone, Inside
<1>9. Steps'
  <2>1. Knows(t)'
    BY <1>1 DEF IInv, Types, Knows, HasOwn
  <2>2. ASSUME NEW u \in Threads, u # t PROVE Knows(u)'
    <3>1. HasOwn(u)' => owner'[use[u]] = u
      BY <2>2, <1>1, <1>3, <1>7 DEF IInv, Types, Steps, Knows, HasOwn, Inside
    <3> QED BY <3>1, <2>2, <1>1, <1>7 DEF Knows, Inside
  <2> QED BY <2>1, <2>2 DEF Steps
<1>10. DestroyedUnused'
  BY <1>1, Alive DEF DestroyedUnused
<1>11. LastDestroys'
  BY <1>1 DEF IInv, Types, LastDestroys
<1>12. SoleIsSole'
  BY <1>1, <1>4 DEF IInv, Types, SoleIsSole, Held
<1> QED BY <1>5, <1>6, <1>8, <1>9, <1>10, <1>11, <1>12 DEF IInv

-----------------------------------------------------------------------------
\* The object goes when nobody has a reference, and then nobody is in a call:
\* whoever waits for the lock would have one.
LEMMA DestroysKeeps == ASSUME IInv, NEW t \in Threads, Destroys(t) PROVE IInv'
<1>1. /\ pc[t] = "destroy" /\ pc' = [pc EXCEPT ![t] = "idle"] /\ destroyed'
      /\ UNCHANGED <<count, lock, owner, op, use, tmp, sole>>
  BY DEF Destroys, Goes
<1>2. count = 0 /\ Held = {} /\ Held' = Held
  BY <1>1, NoneHeld DEF IInv, Steps, Knows, Held
<1>3. \A u \in Threads : pc'[u] = "idle"
  <2> SUFFICES ASSUME NEW u \in Threads, u # t PROVE pc[u] = "idle"
    BY <1>1 DEF IInv, Types
  <2>1. pc[u] \notin Inside
    BY <1>1 DEF IInv, Alone, Inside
  <2>2. pc[u] # "lock"
    BY <1>2, OwnCounts DEF HasOwn
  <2> QED BY <2>1, <2>2 DEF IInv, Types
<1>4. Types' /\ Counts'
  BY <1>1, <1>2 DEF IInv, Types, Counts, Destroys
<1>5. Alone' /\ Steps'
  BY <1>3 DEF Alone, Steps, Knows, HasOwn, Inside
<1>6. DestroyedUnused' /\ LastDestroys' /\ SoleIsSole'
  BY <1>1, <1>2, <1>3 DEF DestroyedUnused, LastDestroys, SoleIsSole
<1> QED BY <1>4, <1>5, <1>6 DEF IInv

LEMMA UnlocksKeeps == ASSUME IInv, NEW t \in Threads, Unlocks(t) PROVE IInv'
<1>1. /\ pc[t] = "unlock" /\ pc' = [pc EXCEPT ![t] = "idle"] /\ lock' = 0
      /\ UNCHANGED <<count, destroyed, owner, op, use, tmp, sole>>
  BY DEF Unlocks, Goes
<1>2. ~destroyed /\ Held # {} /\ Held' = Held
  BY <1>1, Alive, NoneHeld DEF IInv, Steps, Knows, Held
<1>3. \A u \in Threads : pc'[u] \notin Inside
  BY <1>1 DEF IInv, Types, Alone, Inside
<1>4. \A u \in Threads : u # t => pc'[u] = pc[u]
  BY <1>1 DEF IInv, Types
<1>5. Types' /\ Counts'
  BY <1>1, <1>2 DEF IInv, Types, Counts
<1>6. Alone'
  BY <1>3 DEF Alone
<1>7. Steps'
  <2> SUFFICES ASSUME NEW u \in Threads, HasOwn(u)' PROVE owner[use[u]] = u
    BY <1>1, <1>3 DEF Steps, Knows, Inside
  <2>1. u # t /\ pc[u] = "lock"
    BY <1>1, <1>3, <1>4 DEF IInv, Types, HasOwn, Inside
  <2> QED BY <2>1 DEF IInv, Steps, Knows, HasOwn
<1>8. DestroyedUnused' /\ LastDestroys' /\ SoleIsSole'
  BY <1>1, <1>2 DEF IInv, DestroyedUnused, LastDestroys, SoleIsSole
<1> QED BY <1>5, <1>6, <1>7, <1>8 DEF IInv

-----------------------------------------------------------------------------
LEMMA NextKeeps == IInv /\ [Next]_vars => IInv'
<1> SUFFICES ASSUME IInv, [Next]_vars PROVE IInv'
  OBVIOUS
<1>1. ASSUME NEW t \in Threads, Call(t) \/ Gets(t) \/ Gives(t) PROVE IInv'
  BY <1>1, CallKeeps, GetsKeeps, GivesKeeps
<1>2. ASSUME NEW t \in Threads, Finishes(t) PROVE IInv'
  BY <1>2, LocksKeeps, TestsKeeps, LoadsKeeps, StoresMoreKeeps, StoresLessKeeps,
     ChecksKeeps, DestroysKeeps, ReadsKeeps, UnlocksKeeps DEF Finishes
<1>3. CASE UNCHANGED vars
  BY <1>3 DEF vars, IInv, Types, Counts, Held, Alone, Steps, Knows, HasOwn,
              DestroyedUnused, LastDestroys, SoleIsSole
<1> QED BY <1>1, <1>2, <1>3 DEF Next

LEMMA Invariant == Spec => []IInv
  BY InitIInv, NextKeeps, PTL DEF Spec

\* The variables have their types: the count is one that Refs allows.
THEOREM TypeCorrect == Spec => []TypeOK
<1>1. IInv => TypeOK
  BY HeldFinite DEF IInv, Types, Counts, TypeOK
<1> QED BY <1>1, Invariant, PTL

\* The count of r_ref_inc and r_ref_dec is the number of references there are.
THEOREM Counted == Spec => []Counts
<1>1. IInv => Counts
  BY DEF IInv
<1> QED BY <1>1, Invariant, PTL

\* r_ref_dec destroys the object when nobody has it, calls it or waits for it.
THEOREM Unused == Spec => []DestroyedUnused
<1>1. IInv => DestroyedUnused
  BY DEF IInv
<1> QED BY <1>1, Invariant, PTL

\* The call that gives up the last reference destroys the object.
THEOREM LastOne == Spec => []LastDestroys
<1>1. IInv => LastDestroys
  BY DEF IInv
<1> QED BY <1>1, Invariant, PTL

\* Whoever r_ref_get has told 1 is the only one to have a reference.
THEOREM Sole == Spec => []SoleIsSole
<1>1. IInv => SoleIsSole
  BY DEF IInv
<1> QED BY <1>1, Invariant, PTL

-----------------------------------------------------------------------------
(* A call takes effect when it stores the count.                           *)

\* What is due from a thread, case by case.
LEMMA DueIs ==
  ASSUME NEW t \in Threads
  PROVE  /\ pc[t] \in {"check", "destroy", "get"} => Due[t] = count
         /\ pc[t] = "unlock" => Due[t] = tmp[t]
         /\ pc[t] \notin {"check", "destroy", "get", "unlock"} => Due[t] = NoResult
  BY DEF Due

\* Only the thread inside the lock has a result due that is not NoResult.
LEMMA DueChanges ==
  ASSUME IInv, NEW t \in Threads, NEW d,
         \A u \in Threads : u # t => pc[u] \notin Inside /\ pc'[u] = pc[u],
         Due'[t] = d
  PROVE  Due' = [Due EXCEPT ![t] = d]
<1>1. \A u \in Threads : u # t => Due'[u] = Due[u]
  BY DEF Due, Inside
<1>2. Due = [u \in Threads |-> Due[u]] /\ Due' = [u \in Threads |-> Due'[u]]
  BY DEF Due
<1> HIDE DEF Due
<1> QED BY <1>1, <1>2

\* A step that leaves the references, and what is due, alone.
LEMMA QuietStep ==
  ASSUME IInv, NEW t \in Threads,
         Call(t) \/ Gets(t) \/ Gives(t) \/ Locks(t) \/ Tests(t) \/ Loads(t)
         \/ Checks(t) \/ Reads(t)
  PROVE  UNCHANGED <<Held, Due, destroyed>>
<1>1. UNCHANGED destroyed
  BY DEF Call, Gets, Gives, Locks, Tests, Loads, Checks, Reads
<1>2. Held' = Held
  <2>1. CASE Gives(t)
    BY <2>1, NobodyAssumption DEF Gives, IInv, Types, Held
  <2>2. CASE ~Gives(t)
    BY <2>2 DEF Call, Gets, Locks, Tests, Loads, Checks, Reads, Held
  <2> QED BY <2>1, <2>2
<1>3. \A u \in Threads : u # t => pc'[u] = pc[u] /\ tmp'[u] = tmp[u]
  BY DEF Call, Gets, Gives, Locks, Tests, Loads, Checks, Reads, Goes, IInv, Types
<1>4. UNCHANGED count
  BY DEF Call, Gets, Gives, Locks, Tests, Loads, Checks, Reads
<1>5. Due'[t] = Due[t]
  <2>1. CASE Gets(t) \/ Gives(t)
    BY <2>1 DEF Gets, Gives, Due
  <2>2. CASE Call(t) \/ Locks(t) \/ Loads(t)
    BY <2>2 DEF Call, Locks, Loads, Goes, Due, IInv, Types
  <2>3. CASE Tests(t)
    <3>1. pc[t] = "test" /\ count # 0
      BY <2>3, OwnCounts DEF Tests, Goes, HasOwn
    <3> QED BY <3>1, <2>3 DEF Tests, Goes, Due, IInv, Types
  <2>4. CASE Checks(t)
    BY <2>4 DEF Checks, Goes, Due, IInv, Types
  <2>5. CASE Reads(t)
    BY <2>5 DEF Reads, Goes, Due, IInv, Types
  <2> QED BY <2>1, <2>2, <2>3, <2>4, <2>5
<1>6. Due' = Due
  BY <1>3, <1>4, <1>5 DEF Due
<1> QED BY <1>1, <1>2, <1>6

\* Storing the count is the effect of the call.
LEMMA StoreStep ==
  ASSUME IInv, NEW t \in Threads, StoresMore(t) \/ StoresLess(t)
  PROVE  Abstract!Effect(t)
<1>1. pc[t] = "store" /\ UNCHANGED destroyed
  BY DEF StoresMore, StoresLess, Goes
<1>2. \A u \in Threads : u # t => pc[u] \notin Inside /\ pc'[u] = pc[u]
  BY <1>1 DEF StoresMore, StoresLess, Goes, IInv, Types, Alone, Inside
<1>3. Counts'
  BY StoresMoreKeeps, StoresLessKeeps DEF IInv
<1>4. Due[t] = NoResult /\ Due'[t] = Cardinality(Held')
  BY <1>1, <1>3 DEF Due, Counts, StoresMore, StoresLess, Goes, IInv, Types
<1>5. Due' = [Due EXCEPT ![t] = Cardinality(Held')]
  BY <1>2, <1>4, DueChanges
<1>6. owner[use[t]] = t /\ use[t] \in Held
  BY <1>1, OwnCounts DEF HasOwn
<1>7. \/ \E r \in Refs \ Held : Held # {} /\ Held' = Held \union {r}
      \/ \E r \in Held : Held' = Held \ {r}
  <2>1. CASE StoresMore(t)
    <3>1. PICK r \in Refs : owner[r] = Nobody /\ owner' = [owner EXCEPT ![r] = t]
      BY <2>1 DEF StoresMore
    <3>2. Held' = Held \union {r} /\ r \notin Held
      BY <3>1, NobodyAssumption DEF IInv, Types, Held
    <3> QED BY <3>2, <1>6
  <2>2. CASE StoresLess(t)
    <3>1. Held' = Held \ {use[t]}
      BY <2>2 DEF StoresLess, IInv, Types, Held
    <3> QED BY <3>1, <1>6
  <2> QED BY <2>1, <2>2
<1>8. Abstract!Cardinality(Held') = Cardinality(Held')
  BY DEF Abstract!Cardinality, Cardinality
<1> QED BY <1>1, <1>4, <1>5, <1>7, <1>8 DEF Abstract!Effect

\* A call returns when it unlocks, or when it has destroyed the object.
LEMMA ReturnStep ==
  ASSUME IInv, NEW t \in Threads, Unlocks(t) \/ Destroys(t)
  PROVE  Abstract!Result(t)
<1>1. pc[t] \in {"unlock", "destroy"} /\ pc'[t] = "idle" /\ UNCHANGED <<count, tmp>>
  BY DEF Unlocks, Destroys, Goes, IInv, Types
<1>2. \A u \in Threads : u # t => pc[u] \notin Inside /\ pc'[u] = pc[u]
  BY <1>1 DEF Unlocks, Destroys, Goes, IInv, Types, Alone, Inside
<1>3. Due'[t] = NoResult
  BY <1>1 DEF Due
<1>4. Due' = [Due EXCEPT ![t] = NoResult]
  BY <1>2, <1>3, DueChanges
<1>5. Held' = Held /\ ~destroyed
  BY <1>1, Alive DEF Unlocks, Destroys, Held
<1>6. Due[t] = count /\ count \in Nat
  BY <1>1, HeldFinite DEF Due, IInv, Counts, Steps, Knows
<1>7. Due[t] # NoResult /\ destroyed' = (Due[t] = 0)
  <2>1. CASE Unlocks(t)
    BY <2>1, <1>5, <1>6 DEF Unlocks, Goes, IInv, Types, Steps, Knows, NoResult
  <2>2. CASE Destroys(t)
    <3>1. destroyed' = TRUE
      BY <2>2 DEF Destroys
    <3>2. Due[t] = 0 /\ Due[t] # NoResult
      BY <2>2, <1>6 DEF Destroys, Goes, IInv, Steps, Knows, NoResult
    <3> QED BY <3>1, <3>2, Zenon
  <2> QED BY <2>1, <2>2
<1> QED BY <1>4, <1>5, <1>7 DEF Abstract!Result

\* The threads with the count and its lock implement the counter of RRefAtomic.
THEOREM Atomic == Spec => AtomicSpec
<1>1. Init => Abstract!Init
  <2> SUFFICES ASSUME Init PROVE Abstract!Init
    OBVIOUS
  <2>1. PICK r \in Refs, s \in Threads :
          owner = [[q \in Refs |-> Nobody] EXCEPT ![r] = s]
    BY DEF Init
  <2>2. Held = {r}
    BY <2>1, NobodyAssumption DEF Held
  <2>3. Due = [t \in Threads |-> NoResult]
    BY DEF Init, Due
  <2> QED BY <2>2, <2>3 DEF Init, Abstract!Init
<1>2. IInv /\ [Next]_vars => [Abstract!Next]_(Abstract!vars)
  <2> SUFFICES ASSUME IInv, [Next]_vars
               PROVE  Abstract!Next \/ UNCHANGED Abstract!vars
    OBVIOUS
  <2>1. CASE UNCHANGED vars
    BY <2>1 DEF vars, Abstract!vars, Held, Due
  <2>2. ASSUME NEW t \in Threads, Call(t) \/ Gets(t) \/ Gives(t) \/ Finishes(t)
        PROVE  Abstract!Next \/ UNCHANGED Abstract!vars
    BY <2>2, QuietStep, StoreStep, ReturnStep
    DEF Finishes, Abstract!Next, Abstract!vars
  <2> QED BY <2>1, <2>2 DEF Next
<1> QED BY <1>1, <1>2, Invariant, PTL DEF Spec, AtomicSpec, Abstract!Spec

-----------------------------------------------------------------------------
(* Characters as bytes: the bytes a character is written to, bit by bit,   *)
(* and what reading them brings.                                           *)

\* What is read of a sequence with more behind it.
LEMMA Behind ==
  ASSUME NEW s \in Seq(Int), NEW t \in Seq(Int)
  PROVE  /\ s \o t \in Seq(Int)
         /\ Len(s \o t) = Len(s) + Len(t)
         /\ \A i \in 1..Len(s) : (s \o t)[i] = s[i]
         /\ \A i \in 1..Len(t) : (s \o t)[Len(s) + i] = t[i]
OBVIOUS

\* The first bytes of a sequence.
Begins1(s, a) == s \in Seq(Int) /\ Len(s) >= 1 /\ s[1] = a
Begins2(s, a, b) == s \in Seq(Int) /\ Len(s) >= 2 /\ s[1] = a /\ s[2] = b
Begins3(s, a, b, c) == s \in Seq(Int) /\ Len(s) >= 3 /\ s[1] = a /\ s[2] = b /\ s[3] = c
Begins4(s, a, b, c, d) ==
  s \in Seq(Int) /\ Len(s) >= 4 /\ s[1] = a /\ s[2] = b /\ s[3] = c /\ s[4] = d

\* More behind the bytes changes none of them.
LEMMA MoreBehind ==
  ASSUME NEW s, NEW a, NEW b, NEW c, NEW d, NEW after \in Seq(Int)
  PROVE  /\ Begins1(s, a) => Begins1(s \o after, a)
         /\ Begins2(s, a, b) => Begins2(s \o after, a, b)
         /\ Begins3(s, a, b, c) => Begins3(s \o after, a, b, c)
         /\ Begins4(s, a, b, c, d) => Begins4(s \o after, a, b, c, d)
<1> DEFINE t == s \o after
<1>1. ASSUME s \in Seq(Int)
      PROVE  t \in Seq(Int) /\ Len(t) >= Len(s) /\ \A i \in 1..Len(s) : t[i] = s[i]
  <2>1. /\ t \in Seq(Int)
        /\ Len(t) = Len(s) + Len(after)
        /\ \A i \in 1..Len(s) : t[i] = s[i]
    BY <1>1, Behind
  <2>2. Len(s) \in Nat /\ Len(after) \in Nat
    BY <1>1
  <2> HIDE DEF t
  <2> QED BY <2>1, <2>2
<1> HIDE DEF t
<1>7. ASSUME s \in Seq(Int)
      PROVE  /\ t \in Seq(Int) /\ Len(t) \in Nat /\ Len(s) \in Nat /\ Len(t) >= Len(s)
             /\ Len(s) >= 1 => t[1] = s[1]
             /\ Len(s) >= 2 => t[2] = s[2]
             /\ Len(s) >= 3 => t[3] = s[3]
             /\ Len(s) >= 4 => t[4] = s[4]
  <2>1. Len(s) \in Nat /\ Len(t) \in Nat
    BY <1>1, <1>7
  <2> QED BY <1>1, <1>7, <2>1
<1>2. Begins1(s, a) => Begins1(t, a)
  BY <1>7 DEF Begins1
<1>3. Begins2(s, a, b) => Begins2(t, a, b)
  BY <1>7 DEF Begins2
<1>4. Begins3(s, a, b, c) => Begins3(t, a, b, c)
  BY <1>7 DEF Begins3
<1>5. ASSUME Begins4(s, a, b, c, d)
      PROVE  Begins4(t, a, b, c, d)
  <2>1. s \in Seq(Int) /\ Len(s) >= 4 /\ s[1] = a /\ s[2] = b /\ s[3] = c /\ s[4] = d
    BY <1>5 DEF Begins4
  <2>2. /\ t \in Seq(Int) /\ Len(t) \in Nat /\ Len(s) \in Nat /\ Len(t) >= Len(s)
        /\ Len(s) >= 1 => t[1] = s[1]
        /\ Len(s) >= 2 => t[2] = s[2]
        /\ Len(s) >= 3 => t[3] = s[3]
        /\ Len(s) >= 4 => t[4] = s[4]
    BY <1>7, <2>1
  <2>3. Len(s) >= 1 /\ Len(s) >= 2 /\ Len(s) >= 3 /\ Len(s) >= 4 /\ Len(t) >= 4
    BY <2>1, <2>2, SMT
  <2>4. t[1] = a /\ t[2] = b /\ t[3] = c /\ t[4] = d
    BY <2>1, <2>2, <2>3, Zenon
  <2> QED BY <2>2, <2>3, <2>4 DEF Begins4
<1> QED BY <1>2, <1>3, <1>4, <1>5 DEF t

\* Some of the bytes.
LEMMA SomeOf ==
  ASSUME NEW s \in Seq(Int), NEW n \in 1..Len(s)
  PROVE  SubSeq(s, 1, n) \in Seq(Int) /\ Len(SubSeq(s, 1, n)) = n
         /\ \A i \in 1..n : SubSeq(s, 1, n)[i] = s[i]
OBVIOUS

-----------------------------------------------------------------------------
(* Bits.                                                                   *)

LEMMA Sixes ==
  ASSUME NEW r \in Int, 0 <= r, r < 64
  PROVE  128 + r \in Int /\ (128 + r) \div 64 = 2 /\ (128 + r) % 64 = r
OBVIOUS

LEMMA Split2 ==
  ASSUME NEW wc \in Int, 128 <= wc, wc < 2048
  PROVE  /\ wc \div 64 \in Int /\ 2 <= wc \div 64 /\ wc \div 64 < 32
         /\ (192 + wc \div 64) % 32 = wc \div 64
         /\ wc % 64 \in Int /\ 0 <= wc % 64 /\ wc % 64 < 64
         /\ wc = (wc \div 64) * 64 + (wc % 64)
OBVIOUS

LEMMA Split3 ==
  ASSUME NEW wc \in Int, 2048 <= wc, wc < 65536
  PROVE  /\ (wc \div 64 + 2048) \div 64 + 192 = 224 + wc \div 4096
         /\ (wc \div 64 + 2048) % 64 = (wc \div 64) % 64
         /\ wc \div 4096 \in Int /\ 0 <= wc \div 4096 /\ wc \div 4096 < 16
         /\ (224 + wc \div 4096) % 16 = wc \div 4096
         /\ wc % 64 \in Int /\ 0 <= wc % 64 /\ wc % 64 < 64
         /\ (wc \div 64) % 64 \in Int /\ 0 <= (wc \div 64) % 64 /\ (wc \div 64) % 64 < 64
         /\ wc = (wc \div 4096) * 4096 + ((wc \div 64) % 64) * 64 + (wc % 64)
OBVIOUS

LEMMA Split4 ==
  ASSUME NEW wc \in Int, 65536 <= wc, wc <= 1114111
  PROVE  /\ ((wc \div 64 + 65536) \div 64 + 2048) \div 64 + 192 = 240 + wc \div 262144
         /\ ((wc \div 64 + 65536) \div 64 + 2048) % 64 = (wc \div 4096) % 64
         /\ (wc \div 64 + 65536) % 64 = (wc \div 64) % 64
         /\ wc \div 262144 \in Int /\ 0 <= wc \div 262144 /\ wc \div 262144 < 5
         /\ (240 + wc \div 262144) % 8 = wc \div 262144
         /\ wc % 64 \in Int /\ 0 <= wc % 64 /\ wc % 64 < 64
         /\ (wc \div 64) % 64 \in Int /\ 0 <= (wc \div 64) % 64 /\ (wc \div 64) % 64 < 64
         /\ (wc \div 4096) % 64 \in Int /\ 0 <= (wc \div 4096) % 64 /\ (wc \div 4096) % 64 < 64
         /\ wc = (wc \div 262144) * 262144 + ((wc \div 4096) % 64) * 4096
                 + ((wc \div 64) % 64) * 64 + (wc % 64)
OBVIOUS

-----------------------------------------------------------------------------
(* UTF-8 written.                                                          *)

LEMMA Sizes ==
  ASSUME NEW wc \in Int
  PROVE  /\ wc < 128 => Utf8Size(wc) = 1
         /\ 128 <= wc /\ wc < 2048 => Utf8Size(wc) = 2
         /\ 2048 <= wc /\ wc < 65536 => Utf8Size(wc) = 3
         /\ 65536 <= wc /\ wc <= MaxChar => Utf8Size(wc) = 4
         /\ wc > MaxChar => Utf8Size(wc) = 0
BY DEF Utf8Size, MaxChar

\* A tuple of four, and what is cut from it.
LEMMA Tuples ==
  ASSUME NEW a \in Int, NEW b \in Int, NEW c \in Int, NEW d \in Int
  PROVE  /\ Begins4(<<a, b, c, d>>, a, b, c, d) /\ Len(<<a, b, c, d>>) = 4
         /\ <<a, b, c, d>> # <<>>
BY DEF Begins4

LEMMA CutsOf ==
  ASSUME NEW s, NEW a, NEW b, NEW c, NEW d, Begins4(s, a, b, c, d), Len(s) = 4
  PROVE  /\ Begins1(SubSeq(s, 1, 1), a) /\ Len(SubSeq(s, 1, 1)) = 1
         /\ Begins2(SubSeq(s, 1, 2), a, b) /\ Len(SubSeq(s, 1, 2)) = 2
         /\ Begins3(SubSeq(s, 1, 3), a, b, c) /\ Len(SubSeq(s, 1, 3)) = 3
         /\ Begins4(SubSeq(s, 1, 4), a, b, c, d) /\ Len(SubSeq(s, 1, 4)) = 4
<1>1. ASSUME NEW n \in 1..4
      PROVE  /\ SubSeq(s, 1, n) \in Seq(Int) /\ Len(SubSeq(s, 1, n)) = n
             /\ \A i \in 1..n : SubSeq(s, 1, n)[i] = s[i]
  <2>1. s \in Seq(Int) /\ n \in 1..Len(s)
    BY DEF Begins4
  <2> QED BY <2>1, SomeOf
<1>2. Begins1(SubSeq(s, 1, 1), a) /\ Len(SubSeq(s, 1, 1)) = 1
  BY <1>1 DEF Begins1, Begins4
<1>3. Begins2(SubSeq(s, 1, 2), a, b) /\ Len(SubSeq(s, 1, 2)) = 2
  BY <1>1 DEF Begins2, Begins4
<1>4. Begins3(SubSeq(s, 1, 3), a, b, c) /\ Len(SubSeq(s, 1, 3)) = 3
  BY <1>1 DEF Begins3, Begins4
<1>5. Begins4(SubSeq(s, 1, 4), a, b, c, d) /\ Len(SubSeq(s, 1, 4)) = 4
  BY <1>1 DEF Begins4
<1> QED BY <1>2, <1>3, <1>4, <1>5


\* The words left after cutting.
Two3(wc) == wc \div 64 + 2048
Three4(wc) == wc \div 64 + 65536
Two4(wc) == Three4(wc) \div 64 + 2048
Top2(wc) == wc \div 64 + 192
Top3(wc) == Two3(wc) \div 64 + 192
Top4(wc) == Two4(wc) \div 64 + 192

LEMMA Cuts ==
  ASSUME NEW wc
  PROVE  /\ CutBytes(wc, 1) = SubSeq(<<wc, Last6(wc), Last6(wc), Last6(wc)>>, 1, 1)
         /\ CutBytes(wc, 2) = SubSeq(<<Top2(wc), Last6(wc), Last6(wc), Last6(wc)>>, 1, 2)
         /\ CutBytes(wc, 3) = SubSeq(<<Top3(wc), Last6(Two3(wc)), Last6(wc), Last6(wc)>>, 1, 3)
         /\ CutBytes(wc, 4) =
              SubSeq(<<Top4(wc), Last6(Two4(wc)), Last6(Three4(wc)), Last6(wc)>>, 1, 4)
BY SMT DEF CutBytes, Marked, Top2, Top3, Top4, Two3, Two4, Three4

LEMMA Ints ==
  ASSUME NEW wc \in Int
  PROVE  /\ Top2(wc) \in Int /\ Top3(wc) \in Int /\ Top4(wc) \in Int
         /\ Last6(wc) \in Int /\ Last6(Two3(wc)) \in Int
         /\ Last6(Two4(wc)) \in Int /\ Last6(Three4(wc)) \in Int
BY SMT DEF Top2, Top3, Top4, Two3, Two4, Three4, Last6

LEMMA CutBegin ==
  ASSUME NEW wc \in Int
  PROVE  /\ Begins1(CutBytes(wc, 1), wc) /\ Len(CutBytes(wc, 1)) = 1
         /\ Begins2(CutBytes(wc, 2), Top2(wc), Last6(wc)) /\ Len(CutBytes(wc, 2)) = 2
         /\ Begins3(CutBytes(wc, 3), Top3(wc), Last6(Two3(wc)), Last6(wc))
         /\ Len(CutBytes(wc, 3)) = 3
         /\ Begins4(CutBytes(wc, 4), Top4(wc), Last6(Two4(wc)), Last6(Three4(wc)), Last6(wc))
         /\ Len(CutBytes(wc, 4)) = 4
<1> DEFINE d == Last6(wc)
<1> HIDE DEF d
<1>0. d = Last6(wc) /\ d \in Int
  BY Ints DEF d
<1>1. ASSUME NEW a \in Int, NEW b \in Int, NEW c \in Int
      PROVE  /\ Begins1(SubSeq(<<a, b, c, d>>, 1, 1), a) /\ Len(SubSeq(<<a, b, c, d>>, 1, 1)) = 1
             /\ Begins2(SubSeq(<<a, b, c, d>>, 1, 2), a, b) /\ Len(SubSeq(<<a, b, c, d>>, 1, 2)) = 2
             /\ Begins3(SubSeq(<<a, b, c, d>>, 1, 3), a, b, c) /\ Len(SubSeq(<<a, b, c, d>>, 1, 3)) = 3
             /\ Begins4(SubSeq(<<a, b, c, d>>, 1, 4), a, b, c, d)
             /\ Len(SubSeq(<<a, b, c, d>>, 1, 4)) = 4
  <2> DEFINE t == <<a, b, c, d>>
  <2>1. Begins4(t, a, b, c, d) /\ Len(t) = 4
    BY <1>0, Tuples, Zenon
  <2> HIDE DEF t
  <2>2. /\ Begins1(SubSeq(t, 1, 1), a) /\ Len(SubSeq(t, 1, 1)) = 1
        /\ Begins2(SubSeq(t, 1, 2), a, b) /\ Len(SubSeq(t, 1, 2)) = 2
        /\ Begins3(SubSeq(t, 1, 3), a, b, c) /\ Len(SubSeq(t, 1, 3)) = 3
        /\ Begins4(SubSeq(t, 1, 4), a, b, c, d) /\ Len(SubSeq(t, 1, 4)) = 4
    BY <2>1, CutsOf, Zenon
  <2> QED BY <2>2, Zenon DEF t
<1>2. Begins1(CutBytes(wc, 1), wc) /\ Len(CutBytes(wc, 1)) = 1
  <2>1. CutBytes(wc, 1) = SubSeq(<<wc, d, d, d>>, 1, 1)
    BY Cuts, <1>0, Zenon
  <2>3. Begins1(SubSeq(<<wc, d, d, d>>, 1, 1), wc) /\ Len(SubSeq(<<wc, d, d, d>>, 1, 1)) = 1
    BY <1>0, <1>1, Zenon
  <2> QED BY <2>1, <2>3, Zenon
<1>3. Begins2(CutBytes(wc, 2), Top2(wc), d) /\ Len(CutBytes(wc, 2)) = 2
  <2>1. CutBytes(wc, 2) = SubSeq(<<Top2(wc), d, d, d>>, 1, 2)
    BY Cuts, <1>0, Zenon
  <2>2. Top2(wc) \in Int
    BY Ints, Zenon
  <2>3. Begins2(SubSeq(<<Top2(wc), d, d, d>>, 1, 2), Top2(wc), d) /\ Len(SubSeq(<<Top2(wc), d, d, d>>, 1, 2)) = 2
    BY <1>0, <1>1, <2>2, Zenon
  <2> QED BY <2>1, <2>3, Zenon
<1>4. Begins3(CutBytes(wc, 3), Top3(wc), Last6(Two3(wc)), d) /\ Len(CutBytes(wc, 3)) = 3
  <2>1. CutBytes(wc, 3) = SubSeq(<<Top3(wc), Last6(Two3(wc)), d, d>>, 1, 3)
    BY Cuts, <1>0, Zenon
  <2>2. Top3(wc) \in Int /\ Last6(Two3(wc)) \in Int
    BY Ints, Zenon
  <2>3. Begins3(SubSeq(<<Top3(wc), Last6(Two3(wc)), d, d>>, 1, 3), Top3(wc), Last6(Two3(wc)), d) /\ Len(SubSeq(<<Top3(wc), Last6(Two3(wc)), d, d>>, 1, 3)) = 3
    BY <1>0, <1>1, <2>2, Zenon
  <2> QED BY <2>1, <2>3, Zenon
<1>5. /\ Begins4(CutBytes(wc, 4), Top4(wc), Last6(Two4(wc)), Last6(Three4(wc)), d)
      /\ Len(CutBytes(wc, 4)) = 4
  <2>1. CutBytes(wc, 4) = SubSeq(<<Top4(wc), Last6(Two4(wc)), Last6(Three4(wc)), d>>, 1, 4)
    BY Cuts, <1>0, Zenon
  <2>2. Top4(wc) \in Int /\ Last6(Two4(wc)) \in Int /\ Last6(Three4(wc)) \in Int
    BY Ints, Zenon
  <2>3. Begins4(SubSeq(<<Top4(wc), Last6(Two4(wc)), Last6(Three4(wc)), d>>, 1, 4), Top4(wc), Last6(Two4(wc)), Last6(Three4(wc)), d) /\ Len(SubSeq(<<Top4(wc), Last6(Two4(wc)), Last6(Three4(wc)), d>>, 1, 4)) = 4
    BY <1>0, <1>1, <2>2, Zenon
  <2> QED BY <2>1, <2>3, Zenon
<1> QED BY <1>0, <1>2, <1>3, <1>4, <1>5, Zenon

LEMMA WriteCuts ==
  ASSUME NEW wc, NEW n \in Int, NEW k \in 1..n, Utf8Size(wc) = k
  PROVE  Utf8Write(wc, n) = CutBytes(wc, k)
BY Zenon DEF Utf8Write

LEMMA ReadCuts ==
  ASSUME NEW s, NEW a, NEW k, s # <<>>, s[1] = a, Announced(a) = k, k # 0, ~ (k > Len(s)),
         \A i \in 2..k : Trails(s[i])
  PROVE  Utf8Read(s) = Took(Brought(s, k), k)
BY Zenon DEF Utf8Read

LEMMA Broughts ==
  ASSUME NEW s
  PROVE  /\ Brought(s, 1) = s[1]
         /\ Brought(s, 2) = (s[1] % 32) * 64 + (s[2] % 64)
         /\ Brought(s, 3) = (s[1] % 16) * 4096 + (s[2] % 64) * 64 + (s[3] % 64)
         /\ Brought(s, 4) = (s[1] % 8) * 262144 + (s[2] % 64) * 4096 + (s[3] % 64) * 64 + (s[4] % 64)
BY SMT DEF Brought

\* What is read where the first bytes are those of a character.
LEMMA Read1 ==
  ASSUME NEW s, NEW a \in Int, Announced(a) = 1, Begins1(s, a)
  PROVE  Utf8Read(s) = Took(a, 1)
<1>1. s # <<>> /\ s[1] = a /\ ~ (1 > Len(s))
  BY DEF Begins1
<1>2. Utf8Read(s) = Took(Brought(s, 1), 1)
  BY <1>1, ReadCuts
<1>3. Brought(s, 1) = s[1]
  BY Broughts, SMT
<1> QED BY <1>1, <1>2, <1>3, Zenon

LEMMA Read2 ==
  ASSUME NEW s, NEW a \in Int, NEW b \in Int, Announced(a) = 2, Trails(b), Begins2(s, a, b)
  PROVE  Utf8Read(s) = Took((a % 32) * 64 + (b % 64), 2)
<1>1. s # <<>> /\ s[1] = a /\ s[2] = b /\ ~ (2 > Len(s))
  BY DEF Begins2
<1>2. \A i \in 2..2 : Trails(s[i])
  <2>1. \A i \in 2..2 : i = 2
    OBVIOUS
  <2> QED BY <1>1, <2>1, Zenon
<1>3. Utf8Read(s) = Took(Brought(s, 2), 2)
  BY <1>1, <1>2, ReadCuts
<1>4. Brought(s, 2) = (s[1] % 32) * 64 + (s[2] % 64)
  BY Broughts, SMT
<1>5. Brought(s, 2) = (a % 32) * 64 + (b % 64)
  BY <1>1, <1>4, SMT
<1> QED BY <1>3, <1>5, SMT

LEMMA Read3 ==
  ASSUME NEW s, NEW a \in Int, NEW b \in Int, NEW c \in Int,
         Announced(a) = 3, Trails(b), Trails(c), Begins3(s, a, b, c)
  PROVE  Utf8Read(s) = Took((a % 16) * 4096 + (b % 64) * 64 + (c % 64), 3)
<1>1. s # <<>> /\ s[1] = a /\ s[2] = b /\ s[3] = c /\ ~ (3 > Len(s))
  BY DEF Begins3
<1>2. \A i \in 2..3 : Trails(s[i])
  <2>1. \A i \in 2..3 : i = 2 \/ i = 3
    OBVIOUS
  <2> QED BY <1>1, <2>1, Zenon
<1>3. Utf8Read(s) = Took(Brought(s, 3), 3)
  BY <1>1, <1>2, ReadCuts
<1>4. Brought(s, 3) = (s[1] % 16) * 4096 + (s[2] % 64) * 64 + (s[3] % 64)
  BY Broughts, SMT
<1>5. Brought(s, 3) = (a % 16) * 4096 + (b % 64) * 64 + (c % 64)
  BY <1>1, <1>4, SMT
<1> QED BY <1>3, <1>5, SMT

LEMMA Read4 ==
  ASSUME NEW s, NEW a \in Int, NEW b \in Int, NEW c \in Int, NEW d \in Int,
         Announced(a) = 4, Trails(b), Trails(c), Trails(d), Begins4(s, a, b, c, d)
  PROVE  Utf8Read(s) = Took((a % 8) * 262144 + (b % 64) * 4096 + (c % 64) * 64 + (d % 64), 4)
<1>1. s # <<>> /\ s[1] = a /\ s[2] = b /\ s[3] = c /\ s[4] = d /\ ~ (4 > Len(s))
  BY DEF Begins4
<1>2. \A i \in 2..4 : Trails(s[i])
  <2>1. \A i \in 2..4 : i = 2 \/ i = 3 \/ i = 4
    OBVIOUS
  <2> QED BY <1>1, <2>1, Zenon
<1>3. Utf8Read(s) = Took(Brought(s, 4), 4)
  BY <1>1, <1>2, ReadCuts
<1>4. Brought(s, 4) = (s[1] % 8) * 262144 + (s[2] % 64) * 4096 + (s[3] % 64) * 64 + (s[4] % 64)
  BY Broughts, SMT
<1>5. Brought(s, 4) = (a % 8) * 262144 + (b % 64) * 4096 + (c % 64) * 64 + (d % 64)
  BY <1>1, <1>4, SMT
<1> QED BY <1>3, <1>5, SMT

LEMMA ReadSome ==
  ASSUME NEW s, s # <<>>, Announced(s[1]) > Len(s)
  PROVE  Utf8Read(s) = Took(s[1], 1)
BY Zenon DEF Utf8Read, Misread

\* The bytes announce their number, and what they bring is the character.
LEMMA Code1 ==
  ASSUME NEW wc \in Int, 0 <= wc, wc < 128
  PROVE  Announced(wc) = 1
BY SMT DEF Announced

LEMMA Code2 ==
  ASSUME NEW wc \in Int, 128 <= wc, wc < 2048
  PROVE  /\ Announced(Top2(wc)) = 2 /\ Trails(Last6(wc))
         /\ (Top2(wc) % 32) * 64 + (Last6(wc) % 64) = wc
BY SMT DEF Announced, Trails, Top2, Last6

LEMMA Code3 ==
  ASSUME NEW wc \in Int, 2048 <= wc, wc < 65536
  PROVE  /\ Announced(Top3(wc)) = 3 /\ Trails(Last6(Two3(wc))) /\ Trails(Last6(wc))
         /\ (Top3(wc) % 16) * 4096 + (Last6(Two3(wc)) % 64) * 64 + (Last6(wc) % 64) = wc
<1>1. Top3(wc) = 224 + wc \div 4096 /\ Last6(Two3(wc)) = 128 + ((wc \div 64) % 64)
  BY Split3, SMT DEF Top3, Two3, Last6
<1>2. Announced(Top3(wc)) = 3
  BY <1>1, Split3, SMT DEF Announced
<1>3. Trails(Last6(Two3(wc))) /\ Trails(Last6(wc))
  BY <1>1, Split3, SMT DEF Trails, Last6
<1>4. /\ Top3(wc) % 16 = wc \div 4096
      /\ Last6(Two3(wc)) % 64 = (wc \div 64) % 64
      /\ Last6(wc) % 64 = wc % 64
  BY <1>1, Split3, SMT DEF Last6
<1>5. wc = (wc \div 4096) * 4096 + ((wc \div 64) % 64) * 64 + (wc % 64)
  BY Split3, SMT
<1> QED BY <1>2, <1>3, <1>4, <1>5, SMT

LEMMA Code4 ==
  ASSUME NEW wc \in Int, 65536 <= wc, wc <= 1114111
  PROVE  /\ Announced(Top4(wc)) = 4
         /\ Trails(Last6(Two4(wc))) /\ Trails(Last6(Three4(wc))) /\ Trails(Last6(wc))
         /\ (Top4(wc) % 8) * 262144 + (Last6(Two4(wc)) % 64) * 4096
            + (Last6(Three4(wc)) % 64) * 64 + (Last6(wc) % 64) = wc
<1>1. /\ Top4(wc) = 240 + wc \div 262144
      /\ Last6(Two4(wc)) = 128 + ((wc \div 4096) % 64)
      /\ Last6(Three4(wc)) = 128 + ((wc \div 64) % 64)
  BY Split4, SMT DEF Top4, Two4, Three4, Last6
<1>2. Announced(Top4(wc)) = 4
  BY <1>1, Split4, SMT DEF Announced
<1>3. Trails(Last6(Two4(wc))) /\ Trails(Last6(Three4(wc))) /\ Trails(Last6(wc))
  BY <1>1, Split4, SMT DEF Trails, Last6
<1>4. /\ Top4(wc) % 8 = wc \div 262144
      /\ Last6(Two4(wc)) % 64 = (wc \div 4096) % 64
      /\ Last6(Three4(wc)) % 64 = (wc \div 64) % 64
      /\ Last6(wc) % 64 = wc % 64
  BY <1>1, Split4, SMT DEF Last6
<1>5. wc = (wc \div 262144) * 262144 + ((wc \div 4096) % 64) * 4096
           + ((wc \div 64) % 64) * 64 + (wc % 64)
  BY Split4, SMT
<1> QED BY <1>2, <1>3, <1>4, <1>5, SMT

\* What is to be shown of the bytes of a character, k of them.
Comes(wc, bytes, k, after) ==
  /\ bytes \in Seq(Int) /\ Len(bytes) = k /\ Announced(bytes[1]) = k
  /\ Utf8Read(bytes \o after) = Took(wc, k)

LEMMA Comes1 ==
  ASSUME NEW wc \in Int, 0 <= wc, wc < 128, NEW after \in Seq(Int)
  PROVE  Comes(wc, CutBytes(wc, 1), 1, after)
<1> DEFINE s == CutBytes(wc, 1)
<1>1. Begins1(s, wc) /\ Len(s) = 1
  BY CutBegin, SMT
<1>2. Announced(wc) = 1
  BY Code1, SMT
<1> HIDE DEF s
<1>3. Begins1(s \o after, wc)
  BY <1>1, MoreBehind, SMT
<1>4. Utf8Read(s \o after) = Took(wc, 1)
  BY <1>2, <1>3, Read1, SMT
<1>5. s \in Seq(Int) /\ s[1] = wc
  BY <1>1, SMT DEF Begins1
<1>6. Comes(wc, s, 1, after)
  BY <1>1, <1>2, <1>4, <1>5, SMT DEF Comes
<1> QED BY <1>6, SMT DEF s

LEMMA Comes2 ==
  ASSUME NEW wc \in Int, 128 <= wc, wc < 2048, NEW after \in Seq(Int)
  PROVE  Comes(wc, CutBytes(wc, 2), 2, after)
<1> DEFINE s == CutBytes(wc, 2)  a == Top2(wc)  b == Last6(wc)
<1>0. a \in Int /\ b \in Int
  BY SMT DEF Top2, Top3, Top4, Two3, Two4, Three4, Last6
<1>1. Begins2(s, a, b) /\ Len(s) = 2
  BY CutBegin, SMT
<1>2. Announced(a) = 2 /\ Trails(b) /\ (a % 32) * 64 + (b % 64) = wc
  BY Code2, SMT
<1> HIDE DEF s, a, b
<1>3. Begins2(s \o after, a, b)
  BY <1>1, MoreBehind, SMT
<1>4. Utf8Read(s \o after) = Took((a % 32) * 64 + (b % 64), 2)
  BY <1>0, <1>2, <1>3, Read2, SMT
<1>5. s \in Seq(Int) /\ s[1] = a
  BY <1>1, SMT DEF Begins2
<1>6. Comes(wc, s, 2, after)
  BY <1>1, <1>2, <1>4, <1>5, SMT DEF Comes
<1> QED BY <1>6, SMT DEF s

LEMMA Comes3 ==
  ASSUME NEW wc \in Int, 2048 <= wc, wc < 65536, NEW after \in Seq(Int)
  PROVE  Comes(wc, CutBytes(wc, 3), 3, after)
<1> DEFINE s == CutBytes(wc, 3)  a == Top3(wc)  b == Last6(Two3(wc))  c == Last6(wc)
<1>0. a \in Int /\ b \in Int /\ c \in Int
  BY SMT DEF Top2, Top3, Top4, Two3, Two4, Three4, Last6
<1>1. Begins3(s, a, b, c) /\ Len(s) = 3
  BY CutBegin, SMT
<1>2. /\ Announced(a) = 3 /\ Trails(b) /\ Trails(c)
      /\ (a % 16) * 4096 + (b % 64) * 64 + (c % 64) = wc
  BY Code3, SMT
<1> HIDE DEF s, a, b, c
<1>3. Begins3(s \o after, a, b, c)
  BY <1>1, MoreBehind, SMT
<1>4. Utf8Read(s \o after) = Took((a % 16) * 4096 + (b % 64) * 64 + (c % 64), 3)
  BY <1>0, <1>2, <1>3, Read3, SMT
<1>5. s \in Seq(Int) /\ s[1] = a
  BY <1>1, SMT DEF Begins3
<1>6. Comes(wc, s, 3, after)
  BY <1>1, <1>2, <1>4, <1>5, SMT DEF Comes
<1> QED BY <1>6, SMT DEF s

LEMMA Comes4 ==
  ASSUME NEW wc \in Int, 65536 <= wc, wc <= 1114111, NEW after \in Seq(Int)
  PROVE  Comes(wc, CutBytes(wc, 4), 4, after)
<1> DEFINE s == CutBytes(wc, 4)  a == Top4(wc)
           b == Last6(Two4(wc))  c == Last6(Three4(wc))  d == Last6(wc)
<1>0. a \in Int /\ b \in Int /\ c \in Int /\ d \in Int
  BY SMT DEF Top2, Top3, Top4, Two3, Two4, Three4, Last6
<1>1. Begins4(s, a, b, c, d) /\ Len(s) = 4
  BY CutBegin, SMT
<1>2. /\ Announced(a) = 4 /\ Trails(b) /\ Trails(c) /\ Trails(d)
      /\ (a % 8) * 262144 + (b % 64) * 4096 + (c % 64) * 64 + (d % 64) = wc
  BY Code4, SMT
<1> HIDE DEF s, a, b, c, d
<1>3. Begins4(s \o after, a, b, c, d)
  BY <1>1, MoreBehind, SMT
<1>4. Utf8Read(s \o after) = Took((a % 8) * 262144 + (b % 64) * 4096 + (c % 64) * 64 + (d % 64), 4)
  BY <1>0, <1>2, <1>3, Read4, SMT
<1>5. s \in Seq(Int) /\ s[1] = a
  BY <1>1, SMT DEF Begins4
<1>6. Comes(wc, s, 4, after)
  BY <1>1, <1>2, <1>4, <1>5, SMT DEF Comes
<1> QED BY <1>6, SMT DEF s

LEMMA Comes8 ==
  ASSUME NEW wc \in Nat, wc <= MaxChar, NEW after \in Seq(Int)
  PROVE  /\ Utf8Size(wc) \in 1..4
         /\ Comes(wc, CutBytes(wc, Utf8Size(wc)), Utf8Size(wc), after)
<1>1. CASE wc < 128
  <2>1. Utf8Size(wc) = 1
    BY <1>1, Sizes, SMT
  <2>2. Comes(wc, CutBytes(wc, 1), 1, after)
    BY <1>1, Comes1, SMT
  <2> QED BY <2>1, <2>2, SMT
<1>2. CASE 128 <= wc /\ wc < 2048
  <2>1. Utf8Size(wc) = 2
    BY <1>2, Sizes, SMT
  <2>2. Comes(wc, CutBytes(wc, 2), 2, after)
    BY <1>2, Comes2, SMT
  <2> QED BY <2>1, <2>2, SMT
<1>3. CASE 2048 <= wc /\ wc < 65536
  <2>1. Utf8Size(wc) = 3
    BY <1>3, Sizes, SMT
  <2>2. Comes(wc, CutBytes(wc, 3), 3, after)
    BY <1>3, Comes3, SMT
  <2> QED BY <2>1, <2>2, SMT
<1>4. CASE 65536 <= wc
  <2>1. Utf8Size(wc) = 4
    BY <1>4, Sizes, SMT
  <2>2. Comes(wc, CutBytes(wc, 4), 4, after)
    BY <1>4, Comes4, SMT DEF MaxChar
  <2> QED BY <2>1, <2>2, SMT
<1> QED BY <1>1, <1>2, <1>3, <1>4, SMT

\* Some of the bytes of a character are read as their first one.
LEMMA SomeRead ==
  ASSUME NEW s \in Seq(Int), Announced(s[1]) = Len(s), NEW n \in 1..(Len(s) - 1)
  PROVE  Utf8Read(SubSeq(s, 1, n)) = Took(s[1], 1)
<1> DEFINE t == SubSeq(s, 1, n)
<1>0. Len(s) \in Nat
  OBVIOUS
<1>1. t \in Seq(Int) /\ Len(t) = n /\ \A i \in 1..n : t[i] = s[i]
  <2>1. n \in 1..Len(s)
    BY <1>0, SMT
  <2> QED BY <2>1, SomeOf, Zenon
<1> HIDE DEF t
<1>2. t[1] = s[1] /\ t # <<>> /\ Announced(t[1]) > Len(t)
  <2>1. t[1] = s[1]
    BY <1>1, SMT
  <2>2. t # <<>>
    BY <1>1
  <2>3. n < Len(s)
    BY <1>0, SMT
  <2> QED BY <1>1, <2>1, <2>2, <2>3, SMT
<1>3. Utf8Read(t) = Took(s[1], 1)
  BY <1>2, ReadSome, Zenon
<1> QED BY <1>3, Zenon DEF t

\* Nothing is written without the room for all of it.
LEMMA WrittenNot ==
  ASSUME NEW wc, NEW n \in Int, Utf8Size(wc) \notin 1..n
  PROVE  Utf8Write(wc, n) = <<>>
BY Zenon DEF Utf8Write

LEMMA Utf8Back ==
  ASSUME NEW wc \in Nat, NEW after \in Seq(Int)
  PROVE  LET bytes == Utf8Write(wc, 4)
         IN  /\ bytes # <<>> <=> wc <= MaxChar
             /\ bytes # <<>> => Utf8Read(bytes \o after) = Took(wc, Len(bytes))
             /\ \A n \in 1..(Len(bytes) - 1) :
                  Utf8Read(SubSeq(bytes, 1, n)) = Took(bytes[1], 1) /\ Utf8Write(wc, n) = <<>>
<1> DEFINE bytes == Utf8Write(wc, 4)
           Whole == bytes # <<>> => Utf8Read(bytes \o after) = Took(wc, Len(bytes))
           Some(n) == Utf8Read(SubSeq(bytes, 1, n)) = Took(bytes[1], 1) /\ Utf8Write(wc, n) = <<>>
<1>1. CASE wc <= MaxChar
  <2> DEFINE k == Utf8Size(wc)
  <2>1. k \in 1..4 /\ Comes(wc, CutBytes(wc, k), k, after)
    BY <1>1, Comes8, SMT
  <2>2. bytes = CutBytes(wc, k)
    BY <2>1, WriteCuts, SMT
  <2> HIDE DEF bytes, k
  <2>3. Comes(wc, bytes, k, after)
    BY <2>1, <2>2, SMT
  <2>4. /\ bytes \in Seq(Int) /\ Len(bytes) = k /\ Announced(bytes[1]) = k
        /\ Utf8Read(bytes \o after) = Took(wc, k)
    BY <2>3, SMT DEF Comes
  <2>5. bytes # <<>>
    BY <2>1, <2>4
  <2>6. ASSUME NEW n \in 1..(Len(bytes) - 1)
        PROVE  Some(n)
    <3>1. Utf8Read(SubSeq(bytes, 1, n)) = Took(bytes[1], 1)
      BY <2>4, SomeRead
    <3>2. n \in Int /\ k \notin 1..n
      BY <2>1, <2>4, SMT
    <3>3. Utf8Write(wc, n) = <<>>
      BY <3>2, WrittenNot, Zenon DEF k
    <3> QED BY <3>1, <3>3
  <2>7. Whole
    BY <2>4, Zenon
  <2> QED BY <1>1, <2>5, <2>6, <2>7, Zenon DEF bytes
<1>2. CASE ~ (wc <= MaxChar)
  <2>1. Utf8Size(wc) = 0
    BY <1>2, SMT DEF Utf8Size, MaxChar
  <2>2. bytes = <<>>
    <3>1. Utf8Size(wc) \notin 1..4
      BY <2>1, SMT
    <3> QED BY <3>1, WrittenNot, SMT
  <2>3. 1..(Len(bytes) - 1) = {}
    <3>1. Len(bytes) = 0
      BY <2>2
    <3> HIDE DEF bytes
    <3> QED BY <3>1, SMT
  <2> HIDE DEF bytes
  <2> QED BY <1>2, <2>2, <2>3, Zenon DEF bytes
<1> QED BY <1>1, <1>2, Zenon

-----------------------------------------------------------------------------
(* UTF-16.                                                                 *)

\* The bytes of a unit.
Low8(u) == u % 256
High8(u) == u \div 256
First(wc) == 55296 + (wc - 65536) \div 1024
Second(wc) == 56320 + ((wc - 65536) % 1024)

LEMMA Units ==
  ASSUME NEW u \in Int
  PROVE  Low8(u) \in Int /\ High8(u) \in Int /\ Low8(u) + 256 * High8(u) = u
BY SMT DEF Low8, High8

LEMMA NoHalf ==
  ASSUME NEW wc \in Int, wc \in Surrogates
  PROVE  wc < 65536
BY SMT DEF Surrogates

LEMMA Halves ==
  ASSUME NEW wc \in Int, 65536 <= wc, wc <= MaxChar
  PROVE  /\ First(wc) \in HighHalf /\ Second(wc) \in LowHalf /\ First(wc) \in Surrogates
         /\ First(wc) \in Int /\ Second(wc) \in Int
         /\ 65536 + (First(wc) - 55296) * 1024 + Second(wc) - 56320 = wc
BY SMT DEF First, Second, HighHalf, LowHalf, Surrogates, MaxChar

LEMMA Pairs ==
  ASSUME NEW a \in Int, NEW b \in Int
  PROVE  Begins2(<<a, b>>, a, b) /\ Len(<<a, b>>) = 2 /\ <<a, b>> # <<>>
BY DEF Begins2

LEMMA Write2 ==
  ASSUME NEW wc \in Nat, wc < 65536, wc \notin Surrogates, NEW n \in Int, n >= 2
  PROVE  Utf16Write(wc, n) = <<Low8(wc), High8(wc)>>
<1> DEFINE p == wc < 65536 /\ wc \notin Surrogates /\ n >= 2
           q == 65536 <= wc /\ wc <= MaxChar /\ n >= 4
           e == <<Low8(wc), High8(wc)>>
           f == <<Low8(First(wc)), High8(First(wc)), Low8(Second(wc)), High8(Second(wc))>>
<1>1. Utf16Write(wc, n) = CASE p -> e [] q -> f [] OTHER -> <<>>
  BY SMT DEF Utf16Write, Low8, High8, First, Second
<1>2. p /\ ~ q
  BY SMT
<1> HIDE DEF p, q, e, f
<1>3. Utf16Write(wc, n) = e
  BY <1>1, <1>2, SMT
<1> QED BY <1>3, SMT DEF e

LEMMA Write4 ==
  ASSUME NEW wc \in Nat, 65536 <= wc, wc <= MaxChar, NEW n \in Int, n >= 4
  PROVE  Utf16Write(wc, n) =
           <<Low8(First(wc)), High8(First(wc)), Low8(Second(wc)), High8(Second(wc))>>
BY SMT DEF Utf16Write, Low8, High8, First, Second

LEMMA WriteNone ==
  ASSUME NEW wc \in Nat, NEW n \in Int,
         wc \in Surrogates \/ wc > MaxChar \/ n < 2 \/ (65536 <= wc /\ n < 4)
  PROVE  Utf16Write(wc, n) = <<>>
BY SMT DEF Utf16Write, Surrogates, MaxChar

LEMMA ReadUnit ==
  ASSUME NEW s, NEW u \in Int, u \notin Surrogates, Begins2(s, Low8(u), High8(u))
  PROVE  Utf16Read(s) = Took(u, 2)
<1>1. s # <<>> /\ Len(s) \in Nat /\ Len(s) >= 2 /\ s[1] = Low8(u) /\ s[2] = High8(u)
  BY DEF Begins2
<1>2. Unit(s, 1) = u
  <2>1. Unit(s, 1) = s[1] + 256 * s[2]
    BY SMT DEF Unit
  <2>2. Low8(u) + 256 * High8(u) = u
    BY Units, SMT
  <2> QED BY <1>1, <2>1, <2>2, SMT
<1>3. Len(s) # 1 /\ Len(s) > 1
  BY <1>1, SMT
<1>4. u \notin HighHalf
  BY SMT DEF HighHalf, Surrogates
<1> HIDE DEF Took, Unit, HighHalf, LowHalf, Surrogates
<1> QED BY <1>1, <1>2, <1>3, <1>4, SMT DEF Utf16Read

LEMMA ReadPair ==
  ASSUME NEW s, NEW u \in Int, NEW v \in Int, u \in HighHalf, v \in LowHalf, u \in Surrogates,
         Begins4(s, Low8(u), High8(u), Low8(v), High8(v))
  PROVE  Utf16Read(s) = Took(65536 + (u - 55296) * 1024 + v - 56320, 4)
<1>1. /\ s # <<>> /\ Len(s) \in Nat /\ Len(s) >= 4
      /\ s[1] = Low8(u) /\ s[2] = High8(u) /\ s[3] = Low8(v) /\ s[4] = High8(v)
  BY DEF Begins4
<1>2. Unit(s, 1) = u /\ Unit(s, 3) = v
  <2>1. Unit(s, 1) = s[1] + 256 * s[2] /\ Unit(s, 3) = s[3] + 256 * s[4]
    BY SMT DEF Unit
  <2>2. Low8(u) + 256 * High8(u) = u /\ Low8(v) + 256 * High8(v) = v
    BY Units, SMT
  <2> QED BY <1>1, <2>1, <2>2, SMT
<1>3. Len(s) # 1 /\ Len(s) > 3
  BY <1>1, SMT
<1> HIDE DEF Took, Unit, HighHalf, LowHalf, Surrogates
<1> QED BY <1>1, <1>2, <1>3, SMT DEF Utf16Read

\* A unit of a pair, or less, is read as its first byte.
LEMMA ReadHalf ==
  ASSUME NEW s \in Seq(Int), 1 <= Len(s), Len(s) <= 3,
         Len(s) >= 2 => Unit(s, 1) \in Surrogates
  PROVE  Utf16Read(s) = Took(s[1], 1)
<1>1. s # <<>> /\ Len(s) \in Nat
  OBVIOUS
<1>2. Len(s) <= 3 /\ (Len(s) >= 2 => Unit(s, 1) \in Surrogates)
  OBVIOUS
<1> HIDE DEF Unit, Surrogates, Took
<1> QED BY <1>1, <1>2, SMT DEF Utf16Read, Misread

LEMMA ReadByte ==
  ASSUME NEW s \in Seq(Int), 1 <= Len(s), Len(s) <= 1
  PROVE  Utf16Read(s) = Took(s[1], 1)
<1>1. s # <<>> /\ Len(s) \in Nat
  OBVIOUS
<1>2. Len(s) = 1
  BY <1>1, SMT
<1> HIDE DEF Unit, Surrogates, Took
<1> QED BY <1>1, <1>2, SMT DEF Utf16Read, Misread

LEMMA OneOf ==
  ASSUME NEW s \in Seq(Int), Len(s) >= 1
  PROVE  SubSeq(s, 1, 1) \in Seq(Int) /\ Len(SubSeq(s, 1, 1)) = 1 /\ SubSeq(s, 1, 1)[1] = s[1]
<1>1. Len(s) \in Nat /\ 1 \in 1..Len(s)
  OBVIOUS
<1> QED BY <1>1, SomeOf

LEMMA OneRead ==
  ASSUME NEW s \in Seq(Int), Len(s) >= 1
  PROVE  Utf16Read(SubSeq(s, 1, 1)) = Took(s[1], 1)
<1> DEFINE t == SubSeq(s, 1, 1)
<1>1. t \in Seq(Int) /\ Len(t) = 1 /\ t[1] = s[1]
  BY OneOf
<1> HIDE DEF t
<1>2. 1 <= Len(t) /\ Len(t) <= 1
  BY <1>1, SMT
<1>3. Utf16Read(t) = Took(t[1], 1)
  BY <1>1, <1>2, ReadByte, Zenon
<1> QED BY <1>1, <1>3, Zenon DEF t

\* A unit of its own.
LEMMA UnitBack ==
  ASSUME NEW wc \in Nat, wc < 65536, wc \notin Surrogates, NEW after \in Seq(Int)
  PROVE  /\ Len(Utf16Write(wc, 4)) = 2
         /\ Utf16Write(wc, 4) # <<>>
         /\ Utf16Read(Utf16Write(wc, 4) \o after) = Took(wc, 2)
         /\ Utf16Read(SubSeq(Utf16Write(wc, 4), 1, 1)).n = 1
         /\ Utf16Write(wc, 1) = <<>>
<1> DEFINE a == Low8(wc)  b == High8(wc)  s == <<a, b>>
<1>1. Utf16Write(wc, 4) = s
  BY Write2, SMT
<1>2. a \in Int /\ b \in Int
  BY SMT DEF Low8, High8
<1> HIDE DEF a, b
<1>3. Begins2(s, a, b) /\ Len(s) = 2 /\ s # <<>>
  BY <1>2, Pairs
<1> HIDE DEF s
<1>4. Begins2(s \o after, a, b)
  BY <1>3, MoreBehind
<1>5. Utf16Read(s \o after) = Took(wc, 2)
  BY <1>4, ReadUnit, SMT DEF a, b
<1>6. Utf16Read(SubSeq(s, 1, 1)) = Took(s[1], 1)
  <2>1. s \in Seq(Int) /\ Len(s) >= 1
    BY <1>3, SMT DEF Begins2
  <2> QED BY <2>1, OneRead, SMT
<1>7. Utf16Write(wc, 1) = <<>>
  BY WriteNone, SMT
<1>9. Utf16Read(SubSeq(s, 1, 1)).n = 1
  BY <1>6, SMT DEF Took
<1> QED BY <1>1, <1>3, <1>5, <1>7, <1>9, SMT

\* A pair of units.
LEMMA PairBack ==
  ASSUME NEW wc \in Nat, 65536 <= wc, wc <= MaxChar, NEW after \in Seq(Int)
  PROVE  /\ Len(Utf16Write(wc, 4)) = 4
         /\ Utf16Write(wc, 4) # <<>>
         /\ Utf16Read(Utf16Write(wc, 4) \o after) = Took(wc, 4)
         /\ \A n \in 1..3 : Utf16Read(SubSeq(Utf16Write(wc, 4), 1, n)).n = 1
         /\ \A n \in 1..3 : Utf16Write(wc, n) = <<>>
<1> DEFINE u == First(wc)  v == Second(wc)
           a == Low8(u)  b == High8(u)  c == Low8(v)  d == High8(v)  s == <<a, b, c, d>>
<1>0. /\ u \in HighHalf /\ v \in LowHalf /\ u \in Surrogates /\ u \in Int /\ v \in Int
      /\ 65536 + (u - 55296) * 1024 + v - 56320 = wc
  BY Halves, SMT
<1>1. Utf16Write(wc, 4) = s
  BY Write4, SMT
<1> HIDE DEF u, v
<1>2. a \in Int /\ b \in Int /\ c \in Int /\ d \in Int
  BY <1>0, SMT DEF Low8, High8
<1> HIDE DEF a, b, c, d
<1>3. Begins4(s, a, b, c, d) /\ Len(s) = 4 /\ s # <<>>
  BY <1>2, Tuples
<1> HIDE DEF s
<1>4. Begins4(s \o after, a, b, c, d)
  BY <1>3, MoreBehind
<1>5. Utf16Read(s \o after) = Took(wc, 4)
  <2>1. Utf16Read(s \o after) = Took(65536 + (u - 55296) * 1024 + v - 56320, 4)
    BY <1>0, <1>4, ReadPair, SMT DEF a, b, c, d
  <2> QED BY <1>0, <2>1, SMT
<1>6. ASSUME NEW n \in 1..3
      PROVE  Utf16Read(SubSeq(s, 1, n)).n = 1
  <2> DEFINE t == SubSeq(s, 1, n)
  <2>1. s \in Seq(Int) /\ n \in 1..Len(s)
    BY <1>3, SMT DEF Begins4
  <2>2. Len(t) = n /\ t \in Seq(Int) /\ \A i \in 1..n : t[i] = s[i]
    BY <2>1, SomeOf
  <2> HIDE DEF t
  <2>4. n >= 2 => Unit(t, 1) \in Surrogates
    <3>1. ASSUME n >= 2 PROVE Unit(t, 1) = u
      <4>1. Unit(t, 1) = t[1] + 256 * t[2]
        BY SMT DEF Unit
      <4>2. t[1] = s[1] /\ t[2] = s[2]
        BY <2>2, <3>1, SMT
      <4>3. s[1] = a /\ s[2] = b
        BY <1>3, SMT DEF Begins4
      <4>4. a + 256 * b = u
        BY <1>0, Units, SMT DEF a, b
      <4> QED BY <4>1, <4>2, <4>3, <4>4, SMT
    <3> QED BY <1>0, <3>1, SMT
  <2>5. Utf16Read(t) = Took(t[1], 1)
    BY <2>2, <2>4, ReadHalf, SMT
  <2>6. Utf16Read(t).n = 1
    BY <2>5, SMT DEF Took
  <2> QED BY <2>6, SMT DEF t
<1>7. \A n \in 1..3 : Utf16Write(wc, n) = <<>>
  BY WriteNone, SMT
<1> DEFINE w == Utf16Write(wc, 4)
<1>9. w = s
  BY <1>1, SMT
<1> HIDE DEF w
<1>10. Len(w) = 4 /\ w # <<>> /\ Utf16Read(w \o after) = Took(wc, 4)
  BY <1>3, <1>5, <1>9, SMT
<1>11. ASSUME NEW n \in 1..3 PROVE Utf16Read(SubSeq(w, 1, n)).n = 1
  BY <1>6, <1>9, SMT
<1> QED BY <1>7, <1>10, <1>11, SMT DEF w

LEMMA Utf16Back ==
  ASSUME NEW wc \in Nat, NEW after \in Seq(Int)
  PROVE  LET units == Utf16Write(wc, 4)
         IN  /\ units # <<>> <=> wc <= MaxChar /\ wc \notin Surrogates
             /\ units # <<>> => Utf16Read(units \o after) = Took(wc, Len(units))
             /\ \A n \in 1..(Len(units) - 1) :
                  Utf16Read(SubSeq(units, 1, n)).n < Len(units) /\ Utf16Write(wc, n) = <<>>
<1> DEFINE units == Utf16Write(wc, 4)
           Some(n) == Utf16Read(SubSeq(units, 1, n)).n < Len(units) /\ Utf16Write(wc, n) = <<>>
           Whole == Utf16Read(units \o after) = Took(wc, Len(units))
<1>1. CASE wc < 65536 /\ wc \notin Surrogates
  <2>1. /\ Len(units) = 2 /\ units # <<>> /\ Utf16Read(units \o after) = Took(wc, 2)
        /\ Utf16Read(SubSeq(units, 1, 1)).n = 1 /\ Utf16Write(wc, 1) = <<>>
    BY <1>1, UnitBack, SMT
  <2>2. wc <= MaxChar
    BY <1>1, SMT DEF MaxChar
  <2> HIDE DEF units
  <2>3. ASSUME NEW n \in 1..(Len(units) - 1) PROVE Some(n)
    <3>1. n = 1
      BY <2>1, SMT
    <3> QED BY <2>1, <3>1, SMT
  <2>4. Whole
    BY <2>1, SMT
  <2> QED BY <1>1, <2>1, <2>2, <2>3, <2>4, SMT DEF units
<1>2. CASE 65536 <= wc /\ wc <= MaxChar
  <2>1. /\ Len(units) = 4 /\ units # <<>> /\ Utf16Read(units \o after) = Took(wc, 4)
        /\ \A n \in 1..3 : Utf16Read(SubSeq(units, 1, n)).n = 1
        /\ \A n \in 1..3 : Utf16Write(wc, n) = <<>>
    BY <1>2, PairBack, SMT
  <2>2. wc \notin Surrogates
    BY <1>2, NoHalf, SMT
  <2> HIDE DEF units
  <2>3. ASSUME NEW n \in 1..(Len(units) - 1) PROVE Some(n)
    <3>1. n \in 1..3
      BY <2>1, SMT
    <3> QED BY <2>1, <3>1, SMT
  <2>4. Whole
    BY <2>1, SMT
  <2> QED BY <1>2, <2>1, <2>2, <2>3, <2>4, SMT DEF units
<1>3. CASE wc \in Surrogates \/ wc > MaxChar
  <2>1. units = <<>>
    BY <1>3, WriteNone, SMT
  <2>2. 1..(Len(units) - 1) = {}
    <3>1. Len(units) = 0
      BY <2>1
    <3> HIDE DEF units
    <3> QED BY <3>1, SMT
  <2>3. ~ (wc <= MaxChar /\ wc \notin Surrogates)
    BY <1>3, SMT DEF MaxChar
  <2> HIDE DEF units
  <2> QED BY <2>1, <2>2, <2>3, SMT DEF units
<1> QED BY <1>1, <1>2, <1>3, SMT DEF MaxChar

\* Every character comes back from its UTF-8 and its UTF-16 bytes, whatever
\* bytes follow, and some of them do not make it up.
THEOREM CharsComeBack ==
  ASSUME NEW wc \in Nat, NEW after \in Seq(Int)
  PROVE  CharComesBack(wc, after)
BY Utf8Back, Utf16Back, Zenon DEF CharComesBack
=============================================================================
