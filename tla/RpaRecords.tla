----------------------------- MODULE RpaRecords -----------------------------
(***************************************************************************)
(* The record array of a parse (src/rpa/rparecord.c) and the pass that     *)
(* rearranges it after a left recursion (src/rpa/rpastat.c).               *)
(*                                                                         *)
(* A branch of the parse tree is a START record, the records of its        *)
(* children, and an END record.  Indices are those of the code: the first  *)
(* record is 0, and -1 is "none".                                          *)
(***************************************************************************)
EXTENDS Integers, SequencesExt, FiniteSetsExt

Start == "start"
End == "end"

\* top and size say which part of the input the branch stands for; loop is
\* the usertype RPA_LOOP_PATH, set on the records of a left recursive rule.
Record(type, rule, top, size, loop) ==
  [type |-> type, rule |-> rule, top |-> top, size |-> size, loop |-> loop]

Indices(recs) == 0..(Len(recs) - 1)
Slot0(recs, i) == recs[i + 1]

Opens(recs, i, j) ==
  Cardinality({k \in i..j : Slot0(recs, k).type = Start})
Closes(recs, i, j) ==
  Cardinality({k \in i..j : Slot0(recs, k).type = End})

MinOf(S) == IF S = {} THEN -1 ELSE Min(S)
MaxOf(S) == IF S = {} THEN -1 ELSE Max(S)

\* rpa_recordtree_get: the START or the END record of the branch of rec.
TreeGet(recs, rec, type) ==
  CASE rec \notin Indices(recs) -> -1
    [] rec \in Indices(recs) /\ Slot0(recs, rec).type = type -> rec
    [] rec \in Indices(recs) /\ Slot0(recs, rec).type # type /\ type = End ->
         MinOf({i \in rec..(Len(recs) - 1) :
                  Opens(recs, rec, i) = Closes(recs, rec, i)})
    [] rec \in Indices(recs) /\ Slot0(recs, rec).type # type /\ type = Start ->
         MaxOf({i \in 0..rec : Opens(recs, i, rec) = Closes(recs, i, rec)})

\* The record at i if it is of this type, as its branch's START or END.
BranchAt(recs, i, edge, type) ==
  IF i \in Indices(recs) /\ Slot0(recs, i).type = edge
  THEN TreeGet(recs, i, type)
  ELSE -1

\* One record on, unless the branch has no such record.
Beyond(recs, rec, step) == IF rec < 0 THEN -1 ELSE rec + step

TreeFirstChild(recs, rec, type) ==
  BranchAt(recs, Beyond(recs, TreeGet(recs, rec, Start), 1), Start, type)
TreeLastChild(recs, rec, type) ==
  BranchAt(recs, Beyond(recs, TreeGet(recs, rec, End), -1), End, type)

\* Mutant: from the START record of the branch.
BadTreeNext(recs, rec, type) ==
  BranchAt(recs, Beyond(recs, TreeGet(recs, rec, Start), 1), Start, type)

TreeNext(recs, rec, type) ==
  BranchAt(recs, Beyond(recs, TreeGet(recs, rec, End), 1), Start, type)
TreePrev(recs, rec, type) ==
  BranchAt(recs, Beyond(recs, TreeGet(recs, rec, Start), -1), End, type)

\* rpa_recordtree_parent: the END record after the last sibling.
LastSibling(recs, rec) ==
  LET last[i \in Int] ==
        LET next == TreeNext(recs, i, End)
        IN  IF next < 0 THEN TreeGet(recs, i, End) ELSE last[next]
  IN  last[rec]

TreeParent(recs, rec, type) ==
  IF rec \notin Indices(recs) THEN -1
  ELSE TreeGet(recs, LastSibling(recs, rec) + 1, type)

TreeSize(recs, rec) ==
  LET first == TreeGet(recs, rec, Start)
      last == TreeGet(recs, rec, End)
  IN  IF first < 0 \/ last < 0 THEN -1 ELSE last - first + 1

\* rpa_recordtree_walk: the records it calls back for, in order; a level
\* beyond the limit ends the whole walk.
MaxLevel == 128

TreeWalk(recs, rec) ==
  LET walk[r \in Indices(recs), level \in 0..(MaxLevel + 1)] ==
        LET first == TreeGet(recs, r, Start)
            kids[c \in Int] ==
              IF c < 0 THEN <<>>
              ELSE walk[c, level + 1] \o kids[TreeNext(recs, c, Start)]
        IN  IF level > MaxLevel THEN <<>>
            ELSE <<first>> \o kids[TreeFirstChild(recs, first, Start)]
                   \o <<TreeGet(recs, first, End)>>
  IN  walk[rec, 0]

\* rpa_recordtree_move: record by record, from the end that is not
\* overwritten first.
TreeMove(recs, dst, src, size) ==
  LET order == [i \in 1..size |-> IF dst < src THEN i ELSE size + 1 - i]
  IN  IF dst + size > Len(recs) THEN recs
      ELSE FoldLeft(LAMBDA r, i : [r EXCEPT ![dst + i] = r[src + i]], recs, order)

-----------------------------------------------------------------------------
(* rpa_stat_normalizeleftrecursion.  A loop leaves the records of its last *)
(* match, complete, in front of the START records of the next one.  The    *)
(* pass moves them between those START records and what follows.           *)
Within(inner, outer) ==
  /\ inner.top >= outer.top
  /\ inner.top + inner.size <= outer.top + outer.size

IsLoopStart(recs, i) ==
  i \in Indices(recs) /\ Slot0(recs, i).loop /\ Slot0(recs, i).type = Start

\* Whether the branch that ends just before i belongs inside the one at i.
HasStray(recs, i) ==
  /\ IsLoopStart(recs, i)
  /\ Slot0(recs, i - 1).type = End
  /\ Within(Slot0(recs, i - 1), Slot0(recs, i))

\* Mutant: only the nearest branch is moved.
BadStrayStart(recs, i) == TreeGet(recs, i - 1, Start)

\* The first of the branches before i that belong inside the one at i.
StrayStart(recs, i) ==
  LET first[f \in Int] ==
        LET prev == TreePrev(recs, f, Start)
        IN  IF prev >= 0 /\ Within(Slot0(recs, prev), Slot0(recs, i))
            THEN first[prev] ELSE f
  IN  first[TreeGet(recs, i - 1, Start)]

\* How many START records of the loop stand at i.
LoopStarts(recs, i) ==
  MaxOf({n \in 1..(Len(recs) - i) :
           \A j \in i..(i + n - 1) : IsLoopStart(recs, j)})

Nested(recs, i) ==
  LET size == Len(recs)
      first == StrayStart(recs, i)
      starts == LoopStarts(recs, i)
      spare == recs \o [j \in 1..starts |-> recs[1]]
      saved == TreeMove(spare, size, i, starts)
      moved == TreeMove(saved, first + starts, first, i - first)
  IN  SubSeq(TreeMove(moved, first, size, starts), 1, size)

Normalized(recs) ==
  LET nested == FoldLeft(LAMBDA r, i : IF HasStray(r, i) THEN Nested(r, i) ELSE r,
                         recs, [i \in 1..(Len(recs) - 1) |-> i])
  IN  [i \in DOMAIN nested |-> [nested[i] EXCEPT !.loop = FALSE]]

=============================================================================
