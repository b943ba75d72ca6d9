---------------------------- MODULE RpaCacheOps ----------------------------
(***************************************************************************)
(* The memo table of the RPA engine (src/rpa/rpacache.c) as operators on a *)
(* cache value.  A cache holds one entry per bucket: a new result evicts   *)
(* whatever shared its bucket.  An entry answers a lookup only in the      *)
(* generation (serial) it was stored in, so that invalidating the whole    *)
(* table is one increment.                                                 *)
(*                                                                         *)
(* The hash of rpacache.c is the constant operator Bucket, and the limit   *)
(* of 128 records of a cached result is RecMax.  serial is an unsigned     *)
(* long and is not wrapped here: 2^64 executions are out of any run.       *)
(***************************************************************************)
EXTENDS Integers, Sequences

CONSTANTS
  Buckets,          \* the table slots, RPA_MCACHE_SIZE of them in the code
  Bucket(_, _),     \* RPA_MCACHE_BUCKET(top, ruleid)
  RecMax            \* the longest list of records that is stored (128)

\* A zeroed entry, as rpa_cache_create leaves it.
EmptyEntry ==
  [ruleid |-> 0, top |-> 0, ret |-> 0, serial |-> 0, records |-> <<>>]

NewCache ==
  [entry |-> [b \in Buckets |-> EmptyEntry], disabled |-> FALSE, serial |-> 0]

\* Mutant: nothing is invalidated.
BadCacheInvalidate(c) == c

CacheInvalidate(c) == [c EXCEPT !.serial = c.serial + 1]

CacheDisable(c, disable) == [c EXCEPT !.disabled = disable]

\* rpa_cache_set: a disabled cache stores nothing, and a match with too many
\* records leaves the bucket as it was.
CacheStores(c, ret, records) ==
  /\ ~c.disabled
  /\ ~(ret > 0 /\ Len(records) > RecMax)

CacheSet(c, top, ruleid, ret, records) ==
  IF CacheStores(c, ret, records)
  THEN [c EXCEPT !.entry[Bucket(top, ruleid)] =
          [ruleid |-> ruleid, top |-> top, ret |-> ret,
           serial |-> c.serial, records |-> records]]
  ELSE c

\* rpa_cache_lookup: whether it finds an entry, and the entry it finds.
CacheEntry(c, top, ruleid) == c.entry[Bucket(top, ruleid)]

\* Mutant: the position is not compared.
BadCacheHit(c, top, ruleid) ==
  /\ ~c.disabled
  /\ CacheEntry(c, top, ruleid).serial = c.serial
  /\ CacheEntry(c, top, ruleid).ruleid = ruleid

CacheHit(c, top, ruleid) ==
  /\ ~c.disabled
  /\ CacheEntry(c, top, ruleid).serial = c.serial
  /\ CacheEntry(c, top, ruleid).ruleid = ruleid
  /\ CacheEntry(c, top, ruleid).top = top
=============================================================================
