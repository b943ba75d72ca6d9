-------------------------------- MODULE RRef --------------------------------
(***************************************************************************)
(* A reference counted object (src/rlib/rref.c) shared by threads, at the  *)
(* grain of its reads and writes of memory, with the spinlock inside it    *)
(* (src/rlib/rspinlock.c).                                                 *)
(*                                                                         *)
(* A thread calls only with a reference of its own: it gets one from       *)
(* r_ref_create, from r_ref_inc or from another thread, and r_ref_dec      *)
(* gives it up.  owner is that protocol of the callers, beside the count   *)
(* that the object keeps.  The count is a ruint32; there are not 2^32      *)
(* references.                                                             *)
(***************************************************************************)
EXTENDS Integers, FiniteSets

CONSTANTS
  Threads,
  Refs,             \* the references there can be
  Nobody            \* not a thread

VARIABLES
  count, lock,      \* of the object
  destroyed,        \* r_object_destroy has freed it
  owner,            \* whose a reference is, of Nobody if there is none
  pc, op, use,      \* of each thread: where it is, in which call, and the
                    \* reference it calls with
  tmp,              \* of each thread: the count it has read
  sole              \* of each thread: r_ref_get has returned 1 to it, and it
                    \* has done nothing since

vars == <<count, lock, destroyed, owner, pc, op, use, tmp, sole>>

ASSUME RefsAssumption == IsFiniteSet(Refs)
ASSUME NobodyAssumption == Nobody \notin Threads

\* The references there are.
Held == {r \in Refs : owner[r] # Nobody}

\* r_ref_create: one reference.
Init ==
  /\ count = 1 /\ lock = 0 /\ destroyed = FALSE
  /\ \E r \in Refs, t \in Threads :
       owner = [[q \in Refs |-> Nobody] EXCEPT ![r] = t]
  /\ pc = [t \in Threads |-> "idle"]
  /\ op \in [Threads -> {"inc", "dec"}]
  /\ use \in [Threads -> Refs]
  /\ tmp = [t \in Threads |-> 0]
  /\ sole = [t \in Threads |-> FALSE]

Goes(t, from, to) == pc[t] = from /\ pc' = [pc EXCEPT ![t] = to]

-----------------------------------------------------------------------------
(* The callers.                                                            *)

\* Refs bounds the references there are and the ones being made.
HasRoom ==
  Cardinality(Held) + Cardinality({u \in Threads : pc[u] # "idle" /\ op[u] = "inc"})
    < Cardinality(Refs)

Call(t) ==
  /\ Goes(t, "idle", "lock")
  /\ \E r \in Refs : owner[r] = t /\ use' = [use EXCEPT ![t] = r]
  /\ \/ op' = [op EXCEPT ![t] = "dec"]
     \/ HasRoom /\ op' = [op EXCEPT ![t] = "inc"]
  /\ sole' = [sole EXCEPT ![t] = FALSE]
  /\ UNCHANGED <<count, lock, destroyed, owner, tmp>>

\* Mutant: the count is the one read last.
BadGets(t) ==
  /\ pc[t] = "idle"
  /\ \E r \in Refs : owner[r] = t
  /\ sole' = [sole EXCEPT ![t] = (tmp[t] = 1)]
  /\ UNCHANGED <<count, lock, destroyed, owner, pc, op, use, tmp>>

\* r_ref_get takes no lock.
Gets(t) ==
  /\ pc[t] = "idle"
  /\ \E r \in Refs : owner[r] = t
  /\ sole' = [sole EXCEPT ![t] = (count = 1)]
  /\ UNCHANGED <<count, lock, destroyed, owner, pc, op, use, tmp>>

\* A reference changes hands.
Gives(t) ==
  /\ pc[t] = "idle"
  /\ \E r \in Refs, u \in Threads :
       owner[r] = t /\ owner' = [owner EXCEPT ![r] = u]
  /\ sole' = [sole EXCEPT ![t] = FALSE]
  /\ UNCHANGED <<count, lock, destroyed, pc, op, use, tmp>>

-----------------------------------------------------------------------------
(* r_ref_inc and r_ref_dec, from r_spinlock_lock to r_spinlock_unlock.     *)

\* Mutant: the lock is not waited for.
BadLocks(t) ==
  /\ Goes(t, "lock", IF op[t] = "dec" THEN "test" ELSE "load")
  /\ lock' = 1
  /\ UNCHANGED <<count, destroyed, owner, op, use, tmp, sole>>

\* The exchange that succeeds; the ones that fail change nothing.
Locks(t) ==
  /\ Goes(t, "lock", IF op[t] = "dec" THEN "test" ELSE "load")
  /\ lock = 0
  /\ lock' = 1
  /\ UNCHANGED <<count, destroyed, owner, op, use, tmp, sole>>

\* if (ref->count), of r_ref_dec.
Tests(t) ==
  /\ Goes(t, "test", IF count # 0 THEN "load" ELSE "get")
  /\ UNCHANGED <<count, lock, destroyed, owner, op, use, tmp, sole>>

\* ref->count += 1 and ref->count -= 1: a read and a write.
Loads(t) ==
  /\ Goes(t, "load", "store")
  /\ tmp' = [tmp EXCEPT ![t] = count]
  /\ UNCHANGED <<count, lock, destroyed, owner, op, use, sole>>

StoresMore(t) ==
  /\ op[t] = "inc"
  /\ Goes(t, "store", "get")
  /\ count' = tmp[t] + 1
  /\ \E r \in Refs : owner[r] = Nobody /\ owner' = [owner EXCEPT ![r] = t]
  /\ UNCHANGED <<lock, destroyed, op, use, tmp, sole>>

\* Mutant: the lock is released before the count is read again.
BadStoresLess(t) ==
  /\ op[t] = "dec"
  /\ Goes(t, "store", "check")
  /\ count' = tmp[t] - 1
  /\ lock' = 0
  /\ owner' = [owner EXCEPT ![use[t]] = Nobody]
  /\ UNCHANGED <<destroyed, op, use, tmp, sole>>

StoresLess(t) ==
  /\ op[t] = "dec"
  /\ Goes(t, "store", "check")
  /\ count' = tmp[t] - 1
  /\ owner' = [owner EXCEPT ![use[t]] = Nobody]
  /\ UNCHANGED <<lock, destroyed, op, use, tmp, sole>>

\* Mutant: a count of 1 is taken for the last.
BadChecks(t) ==
  /\ Goes(t, "check", IF count <= 1 THEN "destroy" ELSE "get")
  /\ UNCHANGED <<count, lock, destroyed, owner, op, use, tmp, sole>>

\* Mutant: the object is never destroyed.
BadChecksNot(t) ==
  /\ Goes(t, "check", "get")
  /\ UNCHANGED <<count, lock, destroyed, owner, op, use, tmp, sole>>

\* if (!ref->count), of r_ref_dec.
Checks(t) ==
  /\ Goes(t, "check", IF count = 0 THEN "destroy" ELSE "get")
  /\ UNCHANGED <<count, lock, destroyed, owner, op, use, tmp, sole>>

\* The lock is not released: it is gone.
Destroys(t) ==
  /\ Goes(t, "destroy", "idle")
  /\ destroyed' = TRUE
  /\ UNCHANGED <<count, lock, owner, op, use, tmp, sole>>

\* count = ref->count, which is what is returned.
Reads(t) ==
  /\ Goes(t, "get", "unlock")
  /\ tmp' = [tmp EXCEPT ![t] = count]
  /\ UNCHANGED <<count, lock, destroyed, owner, op, use, sole>>

\* Mutant: r_ref_dec returns with the lock.
BadUnlocks(t) ==
  /\ Goes(t, "unlock", "idle")
  /\ lock' = IF op[t] = "dec" THEN 1 ELSE 0
  /\ UNCHANGED <<count, destroyed, owner, op, use, tmp, sole>>

Unlocks(t) ==
  /\ Goes(t, "unlock", "idle")
  /\ lock' = 0
  /\ UNCHANGED <<count, destroyed, owner, op, use, tmp, sole>>

Finishes(t) ==
  \/ Locks(t) \/ Tests(t) \/ Loads(t) \/ StoresMore(t) \/ StoresLess(t)
  \/ Checks(t) \/ Destroys(t) \/ Reads(t) \/ Unlocks(t)

Next == \E t \in Threads : Call(t) \/ Gets(t) \/ Gives(t) \/ Finishes(t)

Spec == Init /\ [][Next]_vars

\* A thread in a call goes on; nothing is assumed about who gets the lock.
LiveSpec == Spec /\ \A t \in Threads : WF_vars(Finishes(t))
-----------------------------------------------------------------------------
Inside == {"test", "load", "store", "check", "destroy", "get", "unlock"}

\* The variables hold what the C types say, and a thread in the middle of a
\* call has the lock.
TypeOK ==
  /\ count \in 0..Cardinality(Refs) /\ lock \in {0, 1} /\ destroyed \in BOOLEAN
  /\ owner \in [Refs -> Threads \union {Nobody}]
  /\ pc \in [Threads -> {"idle", "lock"} \union Inside]
  /\ op \in [Threads -> {"inc", "dec"}]
  /\ use \in [Threads -> Refs]
  /\ tmp \in [Threads -> 0..Cardinality(Refs)]
  /\ sole \in [Threads -> BOOLEAN]

\* The count is the number of references, whoever got or gave one up
\* meanwhile.
Counts == count = Cardinality(Held)

\* Nobody is in a call, or can begin one, when the object is destroyed: the
\* comment in r_ref_dec, that nobody is waiting for the lock it leaves set.
DestroyedUnused ==
  destroyed => /\ \A t \in Threads : pc[t] = "idle"
               /\ Held = {}

\* The object is not left behind: when the last reference is gone it has
\* been destroyed, or is about to be.
LastDestroys ==
  Held = {} => destroyed \/ \E t \in Threads : pc[t] \in {"check", "destroy"}

\* A count of 1, read without the lock, means that no other thread has a
\* reference, until the one that read it does something.
SoleIsSole == \A t \in Threads : sole[t] => \A r \in Held : owner[r] = t

-----------------------------------------------------------------------------
NoResult == -1

\* A call has taken effect when it has stored the count; what it returns is
\* what it has read at the end.
Due ==
  [t \in Threads |-> CASE pc[t] \in {"check", "destroy", "get"} -> count
                       [] pc[t] = "unlock" -> tmp[t]
                       [] OTHER -> NoResult]

Abstract == INSTANCE RRefAtomic WITH refs <- Held, due <- Due

\* Threads with a count and a lock are threads with a counter that changes at
\* once: what a call returns was the count at one instant during the call.
AtomicSpec == Abstract!Spec

\* Whoever waits for the lock, some call gets on: the lock is released, or
\* there is nothing left to lock.
LockReleased == (lock = 1) ~> (lock = 0 \/ destroyed)
=============================================================================
