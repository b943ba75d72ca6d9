--------------------------- MODULE RpaRecordTree ----------------------------
(***************************************************************************)
(* The record array as a tree: records are added the way the parser adds   *)
(* them (rpavm_swi_emitstart, rpavm_swi_emitend), and the functions of     *)
(* src/rpa/rparecord.c are asked about every record at any time.           *)
(*                                                                         *)
(* parent and end are the tree itself, kept beside the array: for every    *)
(* START record the START record of the enclosing branch, and the END      *)
(* record as soon as there is one.  -1 is "none".                          *)
(***************************************************************************)
EXTENDS RpaRecords

CONSTANT MaxRecords \* bound: records of the array

VARIABLES recs, open, parent, end

TreeInit == recs = <<>> /\ open = <<>> /\ parent = <<>> /\ end = <<>>

Branches == DOMAIN parent

\* Every branch that is begun can be ended within the bound.  top tells the
\* records apart.
StartsBranch ==
  /\ Len(recs) + Len(open) + 2 <= MaxRecords
  /\ LET rec == Len(recs)
     IN  /\ recs' = Append(recs, Record(Start, "A", rec, 0, FALSE))
         /\ open' = Append(open, rec)
         /\ parent' = [b \in Branches \cup {rec} |->
                         IF b # rec THEN parent[b] ELSE IF open = <<>> THEN -1 ELSE Last(open)]
         /\ end' = [b \in Branches \cup {rec} |-> IF b # rec THEN end[b] ELSE -1]

\* The size is known now, and is written to the START record, too.
EndsBranch ==
  /\ open # <<>>
  /\ LET rec == Last(open)
         size == Len(recs) - rec
     IN  /\ recs' = Append([recs EXCEPT ![rec + 1].size = size],
                           Record(End, "A", rec, size, FALSE))
         /\ end' = [end EXCEPT ![rec] = Len(recs)]
  /\ open' = Front(open)
  /\ UNCHANGED parent

TreeStep == StartsBranch \/ EndsBranch

TreeSpec == TreeInit /\ [][TreeStep]_<<recs, open, parent, end>>

-----------------------------------------------------------------------------
Complete == {b \in Branches : end[b] >= 0}
Kids(b) == {k \in Branches : parent[k] = b}
Siblings(b) == {k \in Branches : parent[k] = parent[b]}

\* What a question of this type about a branch is answered with.
Edge(b, type) == IF b < 0 \/ type = Start THEN b ELSE end[b]

\* From either record of a branch, rparecord.c finds what the tree says: the
\* other record, the first and the last child, the siblings, and the parent,
\* by way of the siblings after it (src/rpa/rparecord.c:162).  A branch that
\* has not been ended yet is a child, but nothing comes after it.
Navigates ==
  \A b \in Complete, type \in {Start, End} :
    \A rec \in {b, end[b]} :
      /\ TreeGet(recs, rec, type) = Edge(b, type)
      /\ TreeFirstChild(recs, rec, type) = Edge(MinOf(Kids(b)), type)
      /\ TreeLastChild(recs, rec, type) = Edge(MaxOf(Kids(b)), type)
      /\ TreeNext(recs, rec, type)
           = Edge(MinOf({k \in Siblings(b) : k > b}), type)
      /\ TreePrev(recs, rec, type)
           = Edge(MaxOf({k \in Siblings(b) : k < b}), type)
      /\ TreeSize(recs, rec) = end[b] - b + 1
      /\ open = <<>> => TreeParent(recs, rec, type) = Edge(parent[b], type)

\* A walk calls back once for every record of the branch, in order.
WalksBranch ==
  \A b \in Complete :
    TreeWalk(recs, b) = [i \in 1..(end[b] - b + 1) |-> b + i - 1]

\* A block of records is moved as it was, overlapping or not, and nothing
\* else changes.
MovesBlock ==
  \A dst, src \in Indices(recs) :
    \A size \in 1..(Len(recs) - Max({dst, src})) :
      TreeMove(recs, dst, src, size) =
        [i \in DOMAIN recs |->
           IF i - 1 \in dst..(dst + size - 1) THEN recs[i - dst + src] ELSE recs[i]]
=============================================================================
