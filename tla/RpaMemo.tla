------------------------------ MODULE RpaMemo ------------------------------
(***************************************************************************)
(* What a parse may assume of its memo table, whatever the table looks     *)
(* like: within one execution a rule tried at a position either is         *)
(* evaluated or is answered with exactly the result the evaluation would   *)
(* give.                                                                   *)
(*                                                                         *)
(* result is that function of the current execution: what each rule yields *)
(* at each position of the current input.  open is the stack of rules      *)
(* being evaluated, answer the last answer handed to the parser.           *)
(***************************************************************************)
EXTENDS Integers, Sequences

CONSTANTS
  Keys,             \* pairs of a position and a rule
  Results           \* what a rule can yield: a size and the records

VARIABLES result, open, answer

vars == <<result, open, answer>>

Miss == [hit |-> FALSE]
Hit(k, v) == [hit |-> TRUE, key |-> k, value |-> v]

Init ==
  /\ result \in [Keys -> Results]
  /\ open = <<>>
  /\ answer = Miss

\* A new execution: another input, and so other results.
Exec ==
  /\ result' \in [Keys -> Results]
  /\ open' = <<>>
  /\ answer' = Miss

\* The parser tries rule k: it is answered, or it goes on to evaluate k.
Try(k) ==
  /\ \/ answer' = Hit(k, result[k]) /\ open' = open
     \/ answer' = Miss /\ open' = Append(open, k)
  /\ UNCHANGED result

\* The innermost evaluation ends.
Leave ==
  /\ open # <<>>
  /\ open' = SubSeq(open, 1, Len(open) - 1)
  /\ answer' = Miss
  /\ UNCHANGED result

\* The program is aborted in the middle of its evaluations.
Stop == open' = <<>> /\ answer' = Miss /\ UNCHANGED result

Next == Exec \/ Leave \/ Stop \/ \E k \in Keys : Try(k)

Spec == Init /\ [][Next]_vars
=============================================================================
