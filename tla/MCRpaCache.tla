----------------------------- MODULE MCRpaCache -----------------------------
(* A table of the real shape, with three keys: under the real hash the      *)
(* first shares its bucket with the same rule at another position and with  *)
(* another rule at the same position.                                       *)
EXTENDS RpaCache, Bitwise

\* RPA_MCACHE_BUCKET: (top << 3) ^ (ruleid >> 5), masked to ten bits.
MCBucket(top, ruleid) == ((top * 8) ^^ (ruleid \div 32)) % 1024

MCKeys == {<<0, 4>>, <<128, 4>>, <<0, 20>>}
MCBuckets == {MCBucket(k[1], k[2]) : k \in MCKeys}
MCRets == {-1, 1}
MCRecordLists == {<<>>, <<"r">>, <<"r", "s">>}
=============================================================================
