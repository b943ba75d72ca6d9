--------------------------- MODULE RpaCacheProofs ---------------------------
(***************************************************************************)
(* Proofs about RpaCache, for every hash, every number of buckets and every *)
(* limit: the table is well formed, it never answers a lookup with anything *)
(* but what the rule yields, and so it implements RpaMemo.                  *)
(***************************************************************************)
EXTENDS RpaCache, SequenceTheorems, TLAPS

\* TableSound speaks of what the table can answer now.  A disabled cache can
\* answer nothing, and may be enabled again before the next execution, so the
\* invariant that is preserved speaks of every entry of this generation.
EntriesSound ==
  \A k \in Keys :
    LET e == CacheEntry(cache, k[1], k[2])
    IN  (e.serial = cache.serial /\ e.ruleid = k[2] /\ e.top = k[1]) =>
          (e.ret = result[k].ret /\ e.records = result[k].records)

IInv == TypeOK /\ EntriesSound

-----------------------------------------------------------------------------
\* A new cache, invalidated once, is a table with no entry of its generation.
LEMMA InitTable ==
  ASSUME NEW c, c = CacheInvalidate(NewCache)
  PROVE  /\ c \in [entry : [Buckets -> Entries], disabled : BOOLEAN,
                   serial : Nat]
         /\ c.serial = 1
         /\ \A b \in Buckets : c.entry[b].serial = 0
<1>1. EmptyEntry \in Entries
  BY RecordsAssumption DEF EmptyEntry, Entries
<1>2. NewCache \in [entry : [Buckets -> Entries], disabled : BOOLEAN,
                   serial : Nat]
  BY <1>1 DEF NewCache
<1>3. NewCache.serial = 0
  BY DEF NewCache
<1>4. c = [NewCache EXCEPT !.serial = 1]
  BY <1>3 DEF CacheInvalidate
<1>5. c.entry = NewCache.entry /\ c.serial = 1
  BY <1>2, <1>4
<1>6. \A b \in Buckets : NewCache.entry[b].serial = 0
  BY DEF NewCache, EmptyEntry
<1> QED BY <1>2, <1>4, <1>5, <1>6

\* What a set leaves in the table: the entry of its key, in its bucket, and
\* every other bucket as it was.
LEMMA SetTable ==
  ASSUME TypeOK, NEW k \in Keys
  PROVE  LET d == CacheSet(cache, k[1], k[2], result[k].ret, result[k].records)
         IN  /\ d \in [entry : [Buckets -> Entries], disabled : BOOLEAN,
                       serial : Nat]
             /\ d.serial = cache.serial
             /\ \A b \in Buckets :
                  \/ d.entry[b] = cache.entry[b]
                  \/ /\ b = Bucket(k[1], k[2])
                     /\ d.entry[b] = [ruleid |-> k[2], top |-> k[1],
                                      ret |-> result[k].ret,
                                      serial |-> cache.serial,
                                      records |-> result[k].records]
<1> DEFINE d == CacheSet(cache, k[1], k[2], result[k].ret, result[k].records)
           e == [ruleid |-> k[2], top |-> k[1], ret |-> result[k].ret,
                 serial |-> cache.serial, records |-> result[k].records]
<1>1. k[1] \in Int /\ k[2] \in Int /\ Bucket(k[1], k[2]) \in Buckets
  BY KeysAssumption, BucketAssumption
<1>2. result[k].ret \in Int /\ result[k].records \in RecordLists
  BY RetsAssumption DEF TypeOK, Results
<1>3. e \in Entries
  BY <1>1, <1>2 DEF TypeOK, Entries
<1>4. d = cache \/ d = [cache EXCEPT !.entry[Bucket(k[1], k[2])] = e]
  BY DEF CacheSet
<1> QED BY <1>1, <1>3, <1>4 DEF TypeOK

-----------------------------------------------------------------------------
LEMMA InitIInv == Init => IInv
<1> SUFFICES ASSUME Init PROVE IInv
  OBVIOUS
<1>1. TypeOK
  BY InitTable DEF Init, TypeOK
<1>2. EntriesSound
  <2> SUFFICES ASSUME NEW k \in Keys
               PROVE  CacheEntry(cache, k[1], k[2]).serial # cache.serial
    BY DEF EntriesSound
  <2> QED BY InitTable, BucketAssumption DEF Init, CacheEntry
<1> QED BY <1>1, <1>2 DEF IInv

LEMMA NextIInv == IInv /\ [Next]_vars => IInv'
<1> SUFFICES ASSUME IInv, [Next]_vars PROVE IInv'
  OBVIOUS
<1> USE DEF IInv
<1>1. CASE Exec
  <2>1. /\ cache' = [cache EXCEPT !.serial = cache.serial + 1]
        /\ cache'.serial = cache.serial + 1
        /\ cache'.entry = cache.entry
    BY <1>1 DEF Exec, CacheInvalidate, TypeOK
  <2>2. TypeOK'
    <3>1. cache' \in [entry : [Buckets -> Entries], disabled : BOOLEAN,
                      serial : Nat]
      BY <2>1 DEF TypeOK
    <3>2. \A b \in Buckets : cache'.entry[b].serial <= cache'.serial
      <4> TAKE b \in Buckets
      <4>1. cache.entry[b].serial \in Nat /\ cache.serial \in Nat
        BY DEF TypeOK, Entries
      <4>2. cache.entry[b].serial <= cache.serial
        BY DEF TypeOK
      <4> QED BY <2>1, <4>1, <4>2
    <3>3. result' \in [Keys -> Results] /\ open' \in Seq(Keys)
      BY <1>1 DEF Exec
    <3> QED BY <3>1, <3>2, <3>3 DEF TypeOK
  <2>3. EntriesSound'
    <3> SUFFICES ASSUME NEW k \in Keys
                 PROVE  CacheEntry(cache', k[1], k[2]).serial # cache'.serial
      BY DEF EntriesSound, CacheEntry
    <3> QED BY <2>1, BucketAssumption DEF CacheEntry, TypeOK, Entries
  <2> QED BY <2>2, <2>3
<1>2. CASE SetDisabled
  <2>1. /\ cache' \in [entry : [Buckets -> Entries], disabled : BOOLEAN,
                       serial : Nat]
        /\ cache'.serial = cache.serial
        /\ cache'.entry = cache.entry
    BY <1>2 DEF SetDisabled, CacheDisable, TypeOK
  <2>2. TypeOK'
    BY <1>2, <2>1 DEF SetDisabled, TypeOK
  <2>3. EntriesSound'
    BY <1>2, <2>1 DEF SetDisabled, EntriesSound, CacheEntry
  <2> QED BY <2>2, <2>3
<1>3. CASE SetCache
  <2> DEFINE k == open[Len(open)]
  <2>1. k \in Keys
    BY <1>3 DEF SetCache, TypeOK
  <2>2. SubSeq(open, 1, Len(open) - 1) \in Seq(Keys)
    BY <1>3 DEF SetCache, TypeOK
  <2>3. cache' = CacheSet(cache, k[1], k[2], result[k].ret, result[k].records)
    BY <1>3 DEF SetCache
  <2> HIDE DEF k
  <2>4. /\ cache' \in [entry : [Buckets -> Entries], disabled : BOOLEAN,
                       serial : Nat]
        /\ cache'.serial = cache.serial
        /\ \A b \in Buckets :
             \/ cache'.entry[b] = cache.entry[b]
             \/ cache'.entry[b] = [ruleid |-> k[2], top |-> k[1],
                                   ret |-> result[k].ret,
                                   serial |-> cache.serial,
                                   records |-> result[k].records]
    BY <2>1, <2>3, SetTable
  <2>5. TypeOK'
    <3>1. open' \in Seq(Keys) /\ result' = result
      BY <1>3, <2>2 DEF SetCache
    <3>2. \A b \in Buckets : cache'.entry[b].serial <= cache'.serial
      BY <2>4 DEF TypeOK
    <3> QED BY <2>4, <3>1, <3>2 DEF TypeOK
  <2>6. EntriesSound'
    <3> SUFFICES ASSUME NEW j \in Keys,
                        CacheEntry(cache', j[1], j[2]).serial = cache'.serial,
                        CacheEntry(cache', j[1], j[2]).ruleid = j[2],
                        CacheEntry(cache', j[1], j[2]).top = j[1]
                 PROVE  /\ CacheEntry(cache', j[1], j[2]).ret = result[j].ret
                        /\ CacheEntry(cache', j[1], j[2]).records
                             = result[j].records
      BY <1>3 DEF EntriesSound, CacheEntry, SetCache
    <3>1. CASE cache'.entry[Bucket(j[1], j[2])] = cache.entry[Bucket(j[1], j[2])]
      BY <2>4, <3>1 DEF EntriesSound, CacheEntry
    <3>2. CASE cache'.entry[Bucket(j[1], j[2])] =
                 [ruleid |-> k[2], top |-> k[1], ret |-> result[k].ret,
                  serial |-> cache.serial, records |-> result[k].records]
      <4>1. k[1] = j[1] /\ k[2] = j[2]
        BY <3>2 DEF CacheEntry
      <4>2. k = j
        BY <4>1, <2>1, KeysAssumption
      <4> QED BY <3>2, <4>2 DEF CacheEntry
    <3> QED BY <2>4, <3>1, <3>2, BucketAssumption
  <2> QED BY <2>5, <2>6
<1>4. CASE Abort
  BY <1>4 DEF Abort, TypeOK, EntriesSound, CacheEntry
<1>5. ASSUME NEW k \in Keys, CheckHit(k) PROVE IInv'
  BY <1>5 DEF CheckHit, TypeOK, EntriesSound, CacheEntry
<1>6. ASSUME NEW k \in Keys, CheckMiss(k) PROVE IInv'
  BY <1>6 DEF CheckMiss, TypeOK, EntriesSound, CacheEntry
<1>7. CASE UNCHANGED vars
  BY <1>7 DEF vars, TypeOK, EntriesSound, CacheEntry
<1> QED BY <1>1, <1>2, <1>3, <1>4, <1>5, <1>6, <1>7 DEF Next

LEMMA IInvTableSound == IInv => TableSound
BY DEF IInv, EntriesSound, TableSound, CacheHit, CacheEntry

\* The table is well formed in every reachable state.
THEOREM TypeCorrect == Spec => []TypeOK
<1>1. IInv => TypeOK
  BY DEF IInv
<1> QED BY InitIInv, NextIInv, <1>1, PTL DEF Spec

\* No lookup of the table is ever answered with a result the rule does not
\* have, in any generation, with any collisions and any switching on and off.
THEOREM Sound == Spec => []TableSound
BY InitIInv, NextIInv, IInvTableSound, PTL DEF Spec

-----------------------------------------------------------------------------
LEMMA InitMemo == Init => Memo!Init
BY DEF Init, Memo!Init, Memo!Miss

LEMMA NextMemo == IInv /\ [Next]_vars => [Memo!Next]_(Memo!vars)
<1> SUFFICES ASSUME IInv, [Next]_vars PROVE [Memo!Next]_(Memo!vars)
  OBVIOUS
<1> USE DEF Memo!Next, Memo!vars
<1>1. CASE Exec
  BY <1>1 DEF Exec, Memo!Exec
<1>2. CASE SetDisabled
  <2>1. Memo!Stop
    BY <1>2 DEF SetDisabled, Memo!Stop
  <2> QED BY <2>1
<1>3. CASE SetCache
  BY <1>3 DEF SetCache, Memo!Leave
<1>4. CASE Abort
  BY <1>4 DEF Abort, Memo!Stop
<1>5. ASSUME NEW k \in Keys, CheckHit(k) PROVE Memo!Try(k)
  <2> DEFINE e == CacheEntry(cache, k[1], k[2])
  <2>1. e.ret = result[k].ret /\ e.records = result[k].records
    BY <1>5, IInvTableSound DEF CheckHit, TableSound
  <2>2. result[k] = [ret |-> result[k].ret, records |-> result[k].records]
    BY DEF IInv, TypeOK, Results
  <2>3. answer' = Memo!Hit(k, [ret |-> e.ret, records |-> e.records])
    BY <1>5 DEF CheckHit
  <2>4. answer' = Memo!Hit(k, result[k])
    BY <2>1, <2>2, <2>3
  <2> QED BY <1>5, <2>4 DEF CheckHit, Memo!Try
<1>6. ASSUME NEW k \in Keys, CheckMiss(k) PROVE Memo!Try(k)
  BY <1>6 DEF CheckMiss, Memo!Try
<1>7. CASE UNCHANGED vars
  BY <1>7 DEF vars
<1> QED BY <1>1, <1>2, <1>3, <1>4, <1>5, <1>6, <1>7 DEF Next

\* The memo table is transparent: a parser with the table is a parser that
\* was told the right answer or evaluated the rule itself.
THEOREM Transparent == Spec => MemoSpec
BY InitMemo, InitIInv, NextIInv, NextMemo, PTL DEF Spec, MemoSpec, Memo!Spec
=============================================================================
