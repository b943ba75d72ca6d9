------------------------------ MODULE RMemDebug ------------------------------
(***************************************************************************)
(* The debug allocator (src/rlib/rmem.c, with R_DEBUG_MEMALLOC): a block   *)
(* has its size written in front of it, and two counters, shared by all    *)
(* threads, keep the bytes allocated and the most there have been.  The    *)
(* counters change under a spinlock, realloc takes the lock twice, and     *)
(* r_debug_reset_maxmem does not take it.                                  *)
(*                                                                         *)
(* The callers free or resize a block they have and nobody else is         *)
(* freeing; the C library's allocation does not fail (the code does not    *)
(* test for it).                                                           *)
(***************************************************************************)
EXTENDS Integers, FiniteSets, TLC

CONSTANTS
  Threads,
  Blocks,           \* addresses
  Sizes,            \* the sizes asked for
  Word              \* sizeof(ruword)

VARIABLES
  allocmem, maxmem, \* g_allocmem, g_maxmem
  lock,             \* g_lock
  header,           \* the size in front of a block, 0 where there is none
  pc, block, size,  \* of each thread: where it is, its block and the size it
                    \* takes off or adds
  seen,             \* of each thread: g_allocmem as r_debug_reset_maxmem read it
  peak, overtaken   \* history: the most bytes counted since the last reset,
                    \* and that the reset stored what was no longer so

vars == <<allocmem, maxmem, lock, header, pc, block, size, seen, peak, overtaken>>

ASSUME BlocksAssumption == IsFiniteSet(Blocks) /\ Blocks # {}
ASSUME SizesAssumption == Sizes \subseteq Nat /\ Word \in Nat \ {0}

Max(a, b) == IF a < b THEN b ELSE a

\* A thread is in free or realloc up to the first unlock, and in malloc,
\* calloc or the rest of realloc after that.
Takes == {"take", "taking", "taken", "between"}
Gives == {"give", "giving", "given", "tested"}
Inside == {"taking", "taken", "giving", "given", "tested"}

Init ==
  /\ allocmem = 0 /\ maxmem = 0 /\ lock = 0
  /\ header = [b \in Blocks |-> 0]
  /\ pc = [t \in Threads |-> "idle"]
  /\ block \in {[t \in Threads |-> b] : b \in Blocks}
  /\ size = [t \in Threads |-> 0]
  /\ seen = [t \in Threads |-> 0]
  /\ peak = 0 /\ overtaken = FALSE

Goes(t, from, to) == pc[t] = from /\ pc' = [pc EXCEPT ![t] = to]

Busy(b) == \E t \in Threads : pc[t] \in Takes \union Gives /\ block[t] = b

-----------------------------------------------------------------------------
(* What is asked of the C library.                                         *)

MallocSize(s) == s + Word

\* A calloc of no bytes would leave no room for the size.
CallocSize(n, s) == (n + (IF s < Word THEN Word ELSE 1)) * s

\* A block of that size is there, with its size in front.
Gets(t, b, bytes) ==
  /\ header' = [header EXCEPT ![b] = bytes]
  /\ block' = [block EXCEPT ![t] = b]
  /\ size' = [size EXCEPT ![t] = bytes]

Mallocs(t) ==
  /\ Goes(t, "idle", "give")
  /\ \E b \in Blocks, s \in Sizes : header[b] = 0 /\ Gets(t, b, MallocSize(s))
  /\ UNCHANGED <<allocmem, maxmem, lock, seen, peak, overtaken>>

Callocs(t) ==
  /\ Goes(t, "idle", "give")
  /\ \E b \in Blocks, n \in Sizes, s \in Sizes \ {0} :
       header[b] = 0 /\ Gets(t, b, CallocSize(n, s))
  /\ UNCHANGED <<allocmem, maxmem, lock, seen, peak, overtaken>>

\* r_dbg_free and r_dbg_realloc begin alike: they read the size.
Releases(t) ==
  /\ Goes(t, "idle", "take")
  /\ \E b \in Blocks :
       /\ header[b] # 0 /\ ~Busy(b)
       /\ block' = [block EXCEPT ![t] = b]
       /\ size' = [size EXCEPT ![t] = header[b]]
  /\ UNCHANGED <<allocmem, maxmem, lock, header, seen, peak, overtaken>>

-----------------------------------------------------------------------------
(* The critical sections.                                                  *)

Locks(t) ==
  /\ Goes(t, "take", "taking") \/ Goes(t, "give", "giving")
  /\ lock = 0 /\ lock' = 1
  /\ UNCHANGED <<allocmem, maxmem, header, block, size, seen, peak, overtaken>>

\* Mutant: the size is taken off the maximum as well.
BadSubtracts(t) ==
  /\ Goes(t, "taking", "taken")
  /\ allocmem' = allocmem - size[t]
  /\ maxmem' = Max(0, maxmem - size[t])
  /\ UNCHANGED <<lock, header, block, size, seen, peak, overtaken>>

Subtracts(t) ==
  /\ Goes(t, "taking", "taken")
  /\ allocmem' = allocmem - size[t]
  /\ UNCHANGED <<maxmem, lock, header, block, size, seen, peak, overtaken>>

Adds(t) ==
  /\ Goes(t, "giving", "given")
  /\ allocmem' = allocmem + size[t]
  /\ peak' = Max(peak, allocmem')
  /\ UNCHANGED <<maxmem, lock, header, block, size, seen, overtaken>>

\* if (g_maxmem < g_allocmem) g_maxmem = g_allocmem
Tests(t) ==
  /\ Goes(t, "given", "tested")
  /\ maxmem' = Max(maxmem, allocmem)
  /\ overtaken' = (overtaken /\ maxmem' # peak)
  /\ UNCHANGED <<allocmem, lock, header, block, size, seen, peak>>

Unlocks(t) ==
  /\ Goes(t, "taken", "between") \/ Goes(t, "tested", "idle")
  /\ lock' = 0
  /\ UNCHANGED <<allocmem, maxmem, header, block, size, seen, peak, overtaken>>

-----------------------------------------------------------------------------
(* After the first critical section: free(mem) or realloc(mem, size).      *)

Frees(t) ==
  /\ Goes(t, "between", "idle")
  /\ header' = [header EXCEPT ![block[t]] = 0]
  /\ UNCHANGED <<allocmem, maxmem, lock, block, size, seen, peak, overtaken>>

\* Mutant: the new size is not kept for the second critical section.
BadResizes(t) ==
  /\ Goes(t, "between", "give")
  /\ \E b \in Blocks, s \in Sizes :
       /\ b = block[t] \/ header[b] = 0
       /\ header' = [[header EXCEPT ![block[t]] = 0] EXCEPT ![b] = MallocSize(s)]
       /\ block' = [block EXCEPT ![t] = b]
  /\ UNCHANGED <<allocmem, maxmem, lock, size, seen, peak, overtaken>>

\* The block may move.
Resizes(t) ==
  /\ Goes(t, "between", "give")
  /\ \E b \in Blocks, s \in Sizes :
       /\ b = block[t] \/ header[b] = 0
       /\ header' = [[header EXCEPT ![block[t]] = 0] EXCEPT ![b] = MallocSize(s)]
       /\ block' = [block EXCEPT ![t] = b]
       /\ size' = [size EXCEPT ![t] = MallocSize(s)]
  /\ UNCHANGED <<allocmem, maxmem, lock, seen, peak, overtaken>>

-----------------------------------------------------------------------------
(* r_debug_reset_maxmem: g_maxmem = g_allocmem, a read and a write.        *)

ResetReads(t) ==
  /\ Goes(t, "idle", "reset")
  /\ seen' = [seen EXCEPT ![t] = allocmem]
  /\ UNCHANGED <<allocmem, maxmem, lock, header, block, size, peak, overtaken>>

ResetWrites(t) ==
  /\ Goes(t, "reset", "idle")
  /\ maxmem' = seen[t]
  /\ peak' = allocmem
  /\ overtaken' = (seen[t] # allocmem)
  /\ seen' = [seen EXCEPT ![t] = 0]
  /\ UNCHANGED <<allocmem, lock, header, block, size>>

-----------------------------------------------------------------------------
Step(t) ==
  \/ Mallocs(t) \/ Callocs(t) \/ Releases(t)
  \/ Locks(t) \/ Subtracts(t) \/ Adds(t) \/ Tests(t) \/ Unlocks(t)
  \/ Frees(t) \/ Resizes(t)
  \/ ResetReads(t) \/ ResetWrites(t)

Next == \E t \in Threads : Step(t)

Spec == Init /\ [][Next]_vars

-----------------------------------------------------------------------------
\* The counters are unsigned and never wrap round: no more is taken off than
\* was added (src/rlib/rmem.c:86).
TypeOK ==
  /\ allocmem \in Nat /\ maxmem \in Nat /\ peak \in Nat
  /\ lock \in {0, 1} /\ overtaken \in BOOLEAN
  /\ header \in [Blocks -> Nat]
  /\ pc \in [Threads -> {"idle", "reset"} \union Takes \union Gives]
  /\ block \in [Threads -> Blocks]
  /\ size \in [Threads -> Nat]
  /\ seen \in [Threads -> Nat]

\* A block is out of the count from the first critical section of its realloc
\* to the second, before malloc's, and after free's.
Uncounted(b) ==
  \E t \in Threads :
    pc[t] \in {"taken", "between", "give", "giving"} /\ block[t] = b

BytesOf(b) == {b} \X (1..header[b])

CountedBytes == UNION {BytesOf(b) : b \in {c \in Blocks : ~Uncounted(c)}}

\* r_debug_get_allocmem is the number of bytes in blocks, save for those in the
\* hands of a thread in a call: what is left at the end has leaked, as the
\* tests print (src/tests/testrpa/rpavm-mnode.c:158).
Accounted == allocmem = Cardinality(CountedBytes)

\* r_debug_get_maxmem is the most that has been counted at once since the last
\* reset, once an allocation has left the lock, unless a thread changed the
\* count between the reset's read and its write (src/rlib/rmem.c:222).
PeakKept ==
  overtaken \/ peak = (IF \E t \in Threads : pc[t] = "given"
                         THEN Max(maxmem, allocmem) ELSE maxmem)

\* For TLC: threads are all alike, and so are blocks.
Symmetry == Permutations(Threads) \union Permutations(Blocks)
=============================================================================
