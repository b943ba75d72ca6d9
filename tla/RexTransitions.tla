--------------------------- MODULE RexTransitions ---------------------------
(***************************************************************************)
(* Ranges of characters that lead to a state: src/rex/rextransition.c.     *)
(* An array of transitions is kept in the order of the low ends and is     *)
(* searched by halves.  Positions in it count from 0, as in the code.      *)
(***************************************************************************)
EXTENDS Integers, SequencesExt

CONSTANTS CharMax, \* REX_CHAR_MAX
          NewLine  \* '\n'

ASSUME CharAssumption == CharMax \in Nat /\ NewLine \in 1..(CharMax - 1)

Chars == 0..CharMax

None == -1 \* (size_t)-1: a transition that leads nowhere yet

Transition(low, high, to) == [low |-> low, high |-> high, to |-> to]

\* By halves, the first place whose low end is greater than c, behind the last
\* one if there is none.
FirstAbove(lows, c) ==
  LET above[min \in 0..Len(lows), max \in 0..Len(lows)] ==
        LET mid == (min + max) \div 2
        IN  IF max = min THEN min
            ELSE IF lows[mid + 1] <= c THEN above[mid + 1, max]
            ELSE above[min, mid]
  IN  above[0, Len(lows)]

Lows(trans) == [i \in DOMAIN trans |-> trans[i].low]

\* rex_transitions_add.  The place is that of c1, even where c1 is the greater.
TransitionsAdd(trans, c1, c2, to) ==
  LET place == FirstAbove(Lows(trans), c1)
  IN  InsertAt(trans, place + 1,
               IF c1 < c2 THEN Transition(c1, c2, to) ELSE Transition(c2, c1, to))

\* rex_transitions_find; Transition(c, c, None) stands for NULL.
TransitionsFind(trans, c) ==
  LET above == FirstAbove(Lows(trans), c)
      t == trans[IF above > 0 THEN above ELSE 1]
  IN  IF trans # <<>> /\ c \in t.low..t.high THEN t ELSE Transition(c, c, None)

-----------------------------------------------------------------------------
(* rex_transitions_normalize works in place.  The slots behind the length  *)
(* keep what they held, and the scan may look at the first of them.        *)

\* r_array_delete
Delete(array, j) ==
  [slots |-> [i \in DOMAIN array.slots |->
                IF i \in (j + 1)..(array.len - 1) THEN array.slots[i + 1]
                ELSE array.slots[i]],
   len |-> array.len - 1]

Merges(a, b) ==
  /\ a.to = b.to
  /\ \/ b.low \in a.low..a.high
     \/ a.high # CharMax /\ b.low = a.high + 1

RECURSIVE NormalizedFrom(_, _, _)
NormalizedFrom(array, i, j) ==
  LET a == array.slots[i + 1]
      b == array.slots[j + 1]
  IN  IF j >= array.len
      THEN IF i + 1 < array.len THEN NormalizedFrom(array, i + 1, 0)
           ELSE SubSeq(array.slots, 1, array.len)
      ELSE IF i # j /\ Merges(a, b)
      THEN NormalizedFrom(
             Delete([array EXCEPT !.slots[i + 1].high =
                       IF b.high > a.high THEN b.high ELSE a.high], j), i, 0)
      ELSE NormalizedFrom(array, i, j + 1)

TransitionsNormalize(trans) ==
  IF trans = <<>> THEN trans
  ELSE NormalizedFrom([slots |-> trans, len |-> Len(trans)], 0, 0)

\* rex_transitions_negative, on normalized transitions: what is before the
\* first one, between two, and behind the last one.
TransitionsNegative(trans, to) ==
  LET gap(dest, i) ==
        LET before == IF trans[i].low # 0
                      THEN TransitionsAdd(dest, 0, trans[i].low - 1, to) ELSE dest
            between == TransitionsAdd(dest, trans[i - 1].high + 1, trans[i].low - 1, to)
            at == IF i = 1 THEN before ELSE between
        IN  IF i = Len(trans) /\ trans[i].high # CharMax
            THEN TransitionsAdd(at, trans[i].high + 1, CharMax, to) ELSE at
  IN  IF trans = <<>> THEN TransitionsAdd(<<>>, 0, CharMax, to)
      ELSE FoldLeftDomain(gap, <<>>, trans)

-----------------------------------------------------------------------------
(* The cuts of rex_dfaconv_uniqueranges (src/rex/rexdfaconv.c).            *)

\* rex_dfaconv_uniquerange_insertvalue
InsertCut(cuts, c) ==
  LET place == FirstAbove(cuts, c)
  IN  IF Contains(cuts, c) THEN cuts ELSE InsertAt(cuts, place + 1, c)

\* Both ends of every range are cuts; behind the last character comes 0.
Cuts(trans) ==
  FoldLeft(LAMBDA cuts, t :
             InsertCut(InsertCut(cuts, t.low), (t.high + 1) % (CharMax + 1)),
           <<0>>, trans)

\* Mutant: a range ends on the next one's first character.
BadUniqueRanges(trans) ==
  LET cuts == Cuts(trans)
  IN  [i \in DOMAIN cuts |->
         Transition(cuts[i], IF i = Len(cuts) THEN CharMax ELSE cuts[i + 1], 0)]

\* rex_dfaconv_uniqueranges
UniqueRanges(trans) ==
  LET cuts == Cuts(trans)
  IN  [i \in DOMAIN cuts |->
         Transition(cuts[i], IF i = Len(cuts) THEN CharMax ELSE cuts[i + 1] - 1, 0)]
=============================================================================
