----------------------------- MODULE RRefAtomic -----------------------------
(***************************************************************************)
(* What a reference count promises to the threads that share an object:    *)
(* every call takes effect at one instant between its start and its end,   *)
(* it returns how many references there were at that instant, and the      *)
(* object is destroyed by the call that gave up the last one.              *)
(*                                                                         *)
(* refs are the references there are; due holds what the calls that have   *)
(* taken effect are still to return, and NoResult for the others.          *)
(***************************************************************************)
EXTENDS Integers, FiniteSets

CONSTANTS Threads, Refs, NoResult

VARIABLES refs, due, destroyed

vars == <<refs, due, destroyed>>

Init ==
  /\ \E r \in Refs : refs = {r}
  /\ due = [t \in Threads |-> NoResult]
  /\ destroyed = FALSE

\* A call changes the references by one.
Effect(t) ==
  /\ due[t] = NoResult
  /\ \/ \E r \in Refs \ refs : refs # {} /\ refs' = refs \union {r}
     \/ \E r \in refs : refs' = refs \ {r}
  /\ due' = [due EXCEPT ![t] = Cardinality(refs')]
  /\ UNCHANGED destroyed

\* Its result is returned; that of the last one comes with the destruction.
Result(t) ==
  /\ due[t] # NoResult
  /\ due' = [due EXCEPT ![t] = NoResult]
  /\ destroyed' = (due[t] = 0)
  /\ UNCHANGED refs

Next == \E t \in Threads : Effect(t) \/ Result(t)

Spec == Init /\ [][Next]_vars
=============================================================================
