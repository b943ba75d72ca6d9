----------------------------- MODULE RexMeaning -----------------------------
(***************************************************************************)
(* What a regular expression means: the sets of readings of its tokens by  *)
(* the usual grammar, and where a match of a reading can end in a text.    *)
(* The reference that the compiler, the two automata and the scanner of    *)
(* src/rex are compared with; nothing here is translated from them.        *)
(***************************************************************************)
EXTENDS Integers, Sequences

CONSTANTS CharMax, NewLine

All == 0..CharMax

\* Readings: one of a set of characters, one after the other, one or the
\* other, and a repetition.
Set(cs) == [op |-> "set", cs |-> cs]
Pair(op, l, r) == [op |-> op, l |-> l, r |-> r]
Rep(e, from, to) == [op |-> "rep", e |-> e, from |-> from, to |-> to]

Special == {"[", "]", "(", ")", ".", "|", "*", "+", "?", "{"}
Counts == [k \in {"*", "+", "?"} |->
             CASE k = "*" -> <<0, 100>> [] k = "+" -> <<1, 100>> [] k = "?" -> <<0, 1>>]

\* A range of characters, its ends in either order.
Between(c1, c2) == (c1..c2) \cup (c2..c1)

\* The items first..last of a class, from left to right, as one set at most.
RECURSIVE Items(_, _, _)
Items(t, first, last) ==
  LET bad(i) == t[i].kind \in {"[", "]", "-"}
  IN  IF first > last THEN {{}}
      ELSE IF bad(first) THEN {}
      ELSE IF first < last /\ t[first + 1].kind = "-"
      THEN IF first + 2 > last \/ bad(first + 2) THEN {}
           ELSE {s \cup Between(t[first].c, t[first + 2].c) : s \in Items(t, first + 3, last)}
      ELSE {s \cup {t[first].c} : s \in Items(t, first + 1, last)}

RECURSIVE Alts(_, _, _), Cats(_, _, _), Counted(_, _, _), Atoms(_, _, _)

Atoms(t, i, j) ==
  IF i = j
  THEN CASE t[i].kind = "." -> {Set(All \ {NewLine})}
         [] t[i].kind \in Special -> {}
         [] OTHER -> {Set({t[i].c})}
  ELSE (IF t[i].kind = "(" /\ t[j].kind = ")" THEN Alts(t, i + 1, j - 1) ELSE {})
       \cup
       (IF t[i].kind # "[" \/ t[j].kind # "]" THEN {}
        ELSE IF t[i + 1].kind = "^"
        THEN {Set(All \ s) : s \in IF j = i + 2 THEN {} ELSE Items(t, i + 2, j - 1)}
        ELSE {Set(s) : s \in IF j = i + 1 THEN {} ELSE Items(t, i + 1, j - 1)})

Counted(t, i, j) ==
  Atoms(t, i, j) \cup
  IF i = j THEN {}
  ELSE IF t[j].kind = "{"
  THEN {Rep(e, t[j].from, t[j].to) : e \in IF t[j].from > t[j].to THEN {} ELSE Atoms(t, i, j - 1)}
  ELSE IF t[j].kind \in DOMAIN Counts
  THEN {Rep(e, Counts[t[j].kind][1], Counts[t[j].kind][2]) : e \in Atoms(t, i, j - 1)}
  ELSE {}

Cats(t, i, j) ==
  Counted(t, i, j) \cup
  UNION {LET right == Counted(t, k + 1, j)
         IN  IF right = {} THEN {}
             ELSE {Pair("cat", l, r) : l \in Cats(t, i, k), r \in right} : k \in i..(j - 1)}

Alts(t, i, j) ==
  IF i > j THEN {}
  ELSE Cats(t, i, j) \cup
       UNION {{Pair("alt", l, r) : l \in Alts(t, i, k - 1), r \in Cats(t, k + 1, j)} :
                k \in {n \in (i + 1)..(j - 1) : t[n].kind = "|"}}

Readings(tokens) == Alts(tokens, 1, Len(tokens))

-----------------------------------------------------------------------------

\* The positions after a match of e that starts behind position i of text.
RECURSIVE Ends(_, _, _), Repeats(_, _, _, _)
Ends(e, text, i) ==
  CASE e.op = "set" -> IF i < Len(text) /\ text[i + 1] \in e.cs THEN {i + 1} ELSE {}
    [] e.op = "cat" -> UNION {Ends(e.r, text, k) : k \in Ends(e.l, text, i)}
    [] e.op = "alt" -> Ends(e.l, text, i) \cup Ends(e.r, text, i)
    [] e.op = "rep" ->
         UNION {Repeats(e.e, text, {i}, n) :
                  n \in e.from..IF e.to = 100 THEN e.from + Len(text) - i ELSE e.to}

\* After exactly n matches of e, from any of the positions.
Repeats(e, text, from, n) ==
  IF n = 0 THEN from
  ELSE Repeats(e, text, UNION {Ends(e, text, i) : i \in from}, n - 1)

\* The whole text is a match.
Matches(e, text) == Len(text) \in Ends(e, text, 0)
=============================================================================
