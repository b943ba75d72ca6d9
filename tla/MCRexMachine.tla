---------------------------- MODULE MCRexMachine ----------------------------
(* Expressions of up to five tokens over small alphabets.                  *)
EXTENDS RexMachine

Chr(c) == [kind |-> "chr", c |-> c]
a == Chr(1)
b == Chr(2)
Meta(kind) == [kind |-> kind, c |-> 4]
EscapedStar == [kind |-> "\\", c |-> 4, plain |-> Meta("*")]
Count(from, to) == [kind |-> "{", c |-> 5, from |-> from, to |-> to]
Metas(kinds) == {Meta(k) : k \in kinds}

UpTo(n, tokens) == UNION {[1..m -> tokens] : m \in 1..n}

\* An escape behind {0,0} loses its backslash (rex_compiler_qfactor).
LosesEscape(text) ==
  \E i \in 1..(Len(text) - 1) : text[i] = Count(0, 0) /\ text[i + 1].kind = "\\"

\* Taking what is not there from the stack is undefined.
EmptyFirst(text) ==
  \/ text[1].kind \in {"|", ")"}
  \/ \E i \in 1..(Len(text) - 1) : text[i].kind = "(" /\ text[i + 1].kind = "|"

MCGroups == {t \in UpTo(5, {a, b} \cup Metas({"(", ")", "|", "*"})) : ~EmptyFirst(t)}
MCCounts == {t \in UpTo(3, {a, b, EscapedStar, Count(0, 0), Count(0, 2), Count(1, 1), Count(1, 3),
                     Count(2, 1), Count(2, Many), Count(0, Many), Count(1, Many)}
                    \cup Metas({"+", "?", "."})) : ~LosesEscape(t)}
\* A range with its ends exchanged is lost beside another item: it is put in
\* the place of its high end (rex_transitions_add).
LosesRange(text) ==
  \E i \in 2..(Len(text) - 1) :
    /\ text[i].kind = "-" /\ text[i - 1].c > text[i + 1].c
    /\ \E n \in 2..(Len(text) - 1) : n \notin (i - 1)..(i + 1) /\ text[n].kind = "chr"

Open == <<Meta("[")>>
InClass == {a, Chr(0), Chr(CharMax)} \cup Metas({"^", "-", "]"})
MCClasses == {t \in {Open \o u : u \in UpTo(4, InClass)}
                    \cup {Open \o u \o <<Meta("]")>> : u \in [1..4 -> InClass]} : ~LosesRange(t)}

\* A group, counted, and perhaps something behind it.  Its own counts would
\* overwrite the outer ones (rex_compiler_parsecount).
MCCountedGroups ==
  {<<Meta("(")>> \o g \o <<Meta(")"), q>> \o after :
     g \in {<<a>>, <<a, b>>, <<a, Meta("|"), b>>, <<a, Meta("*")>>, <<a, b, Meta("?")>>,
           <<Meta("["), a, Meta("-"), b, Meta("]"), b>>},
     q \in {Count(0, 0), Count(0, 1), Count(0, 2), Count(1, 2), Count(2, 2), Count(2, 3), Count(2, Many)},
     after \in {<<>>, <<a>>, <<Meta("|"), b>>}}

MCTexts == MCGroups \cup MCCounts \cup MCCountedGroups \cup MCClasses
MCOthers == {<<a>>, <<b, Meta("*")>>, <<a, b>>, <<Meta("."), Meta("*")>>}
MCScanTexts == UpTo(4, {1, 2, 6})
MCNoises == {{}, {0, HashMask - 1}, Entries}
=============================================================================
