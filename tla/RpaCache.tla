------------------------------ MODULE RpaCache ------------------------------
(***************************************************************************)
(* The memo table of RpaCacheOps in the hands of the parser.  A compiled   *)
(* rule starts with RPA_CHECKCACHE and ends, matched or not, with          *)
(* RPA_SETCACHE (src/rpa/rpacompiler.c), so evaluations nest, and the      *)
(* table is overwritten by the inner ones between the lookup and the set   *)
(* of the outer one.                                                       *)
(*                                                                         *)
(* result, open and answer are those of RpaMemo: what the rules yield in   *)
(* this execution, the evaluations in progress, the last answer.           *)
(***************************************************************************)
EXTENDS RpaCacheOps

CONSTANTS
  Keys,             \* pairs <<top, ruleid>>: an input position and a rule,
                    \* named by the address of its code
  Rets,             \* what R0 can be after a rule: -1 or the matched size
  RecordLists,      \* the records a match can leave
  MaxExecs,         \* bound: executions of one parser
  MaxOpen           \* bound: nesting of evaluations

VARIABLES cache, result, open, answer

vars == <<cache, result, open, answer>>

ASSUME KeysAssumption == Keys \subseteq Int \X Int
ASSUME BucketAssumption == \A k \in Keys : Bucket(k[1], k[2]) \in Buckets
ASSUME RetsAssumption == Rets \subseteq Int
ASSUME RecordsAssumption == <<>> \in RecordLists
ASSUME MaxExecsAssumption == MaxExecs \in Nat

\* rpavm_swi_setcache stores records only with a match.
Results ==
  {v \in [ret : Rets, records : RecordLists] : v.ret <= 0 => v.records = <<>>}

Memo == INSTANCE RpaMemo

Init ==
  /\ cache = CacheInvalidate(NewCache)
  /\ result \in [Keys -> Results]
  /\ open = <<>>
  /\ answer = Memo!Miss

\* rpa_stat_exec invalidates the table before it runs the program.  An
\* execution that was aborted has left its evaluations behind.
Exec ==
  /\ cache.serial < MaxExecs
  /\ cache' = CacheInvalidate(cache)
  /\ result' \in [Keys -> Results]
  /\ open' = <<>>
  /\ answer' = Memo!Miss

\* rpa_stat_cachedisable, called between executions.
SetDisabled ==
  /\ open = <<>>
  /\ \E d \in BOOLEAN : cache' = CacheDisable(cache, d)
  /\ answer' = Memo!Miss
  /\ UNCHANGED <<result, open>>

\* rpavm_swi_checkcache with an entry: the entry is the answer.
CheckHit(k) ==
  /\ CacheHit(cache, k[1], k[2])
  /\ LET e == CacheEntry(cache, k[1], k[2])
     IN  answer' = Memo!Hit(k, [ret |-> e.ret, records |-> e.records])
  /\ UNCHANGED <<cache, result, open>>

\* rpavm_swi_checkcache without one: the rule's code runs.
CheckMiss(k) ==
  /\ Len(open) < MaxOpen
  /\ ~CacheHit(cache, k[1], k[2])
  /\ open' = Append(open, k)
  /\ answer' = Memo!Miss
  /\ UNCHANGED <<cache, result>>

\* rpavm_swi_setcache at the end of the rule's code.
SetCache ==
  /\ open # <<>>
  /\ LET k == open[Len(open)]
     IN  cache' = CacheSet(cache, k[1], k[2],
                           result[k].ret, result[k].records)
  /\ open' = SubSeq(open, 1, Len(open) - 1)
  /\ answer' = Memo!Miss
  /\ UNCHANGED result

\* rpa_stat_abort or RPA_ABORT: the CPU stops, no pending rule is stored.
Abort ==
  /\ open # <<>>
  /\ open' = <<>>
  /\ answer' = Memo!Miss
  /\ UNCHANGED <<cache, result>>

Next ==
  \/ Exec
  \/ SetDisabled
  \/ SetCache
  \/ Abort
  \/ \E k \in Keys : CheckHit(k) \/ CheckMiss(k)

Spec == Init /\ [][Next]_vars

-----------------------------------------------------------------------------
Entries ==
  [ruleid : Int, top : Int, ret : Int, serial : Nat, records : RecordLists]

\* The table is a table: every slot holds an entry, of this generation or
\* of an earlier one.
TypeOK ==
  /\ cache \in [entry : [Buckets -> Entries], disabled : BOOLEAN, serial : Nat]
  /\ \A b \in Buckets : cache.entry[b].serial <= cache.serial
  /\ result \in [Keys -> Results]
  /\ open \in Seq(Keys)

\* Whatever the table can answer in this generation is what the rule yields
\* on this input: no entry survives an invalidation, a change of the cache
\* switch, an eviction or a refused oversized result with a wrong answer
\* (rpa_cache_set, rpa_cache_lookup, rpa_cache_invalidate).
TableSound ==
  \A k \in Keys :
    CacheHit(cache, k[1], k[2]) =>
      LET e == CacheEntry(cache, k[1], k[2])
      IN  e.ret = result[k].ret /\ e.records = result[k].records

\* The table implements the memo: every step of the parser with the table is
\* a step of RpaMemo, so no caller can tell it is there.
MemoSpec == Memo!Spec
=============================================================================
