----------------------------- MODULE RpaMeaning -----------------------------
(***************************************************************************)
(* What a grammar is meant to match: the reading of an RPA grammar as a    *)
(* parsing expression grammar, with left recursion read as repetition.     *)
(* This is the specification the compiled program is compared with; no     *)
(* code is modelled here.                                                  *)
(*                                                                         *)
(* The value of a node at a position is the number of characters it        *)
(* matches, -1 for a failure, and the records of the match.  A rule, a     *)
(* branch of an alternation and a repetition with "+" do not match the     *)
(* empty string.                                                           *)
(*                                                                         *)
(* A rule that reaches itself without consuming is evaluated by growing a  *)
(* seed: first with its own reference failing, then with the last match in *)
(* its place, as long as the match gets longer.  While it grows, only the  *)
(* alternatives that reach it are tried.                                   *)
(***************************************************************************)
EXTENDS RpaGrammar, RpaRecords

Value(n, recs) == [n |-> n, recs |-> recs]
Failure == Value(-1, <<>>)
Empty == Value(0, <<>>)
NoSeed == Value(-2, <<>>)

Values ==
  [n : Int,
   recs : Seq([type : {Start, End}, rule : STRING, top : Nat, size : Nat,
               loop : BOOLEAN])]

\* What must consume something.
Consuming(v) == IF v.n > 0 THEN v ELSE Failure

Then(v, u) == IF u.n < 0 THEN Failure ELSE Value(v.n + u.n, v.recs \o u.recs)

-----------------------------------------------------------------------------
\* The nodes that can match the empty string.
NullablePaths(g) ==
  LET paths == Paths(g)
      nullable[p \in paths] ==
        \/ IsOptional(At(g, p))
        \/ /\ At(g, p).kind \in {"bracket", "reqop"}
           /\ \A i \in DOMAIN At(g, p).kids : nullable[Append(p, i)]
  IN  {p \in paths : nullable[p]}

\* The rules that are tried at the position where a node is, by a reference
\* below it that nothing consuming comes before: pairs of a path and a rule.
Leads(g) ==
  LET paths == Paths(g)
      nullable == NullablePaths(g)
      leading == {p \in paths :
                    LET parent == Front(p)
                    IN  \/ Len(p) = 1
                        \/ At(g, parent).kind \in {"orop", "minop", "norop"}
                        \/ \A j \in 1..(Last(p) - 1) :
                             Append(parent, j) \in nullable}
  IN  {lead \in paths \X DOMAIN g :
         \E p \in paths :
           /\ At(g, p).kind = "ref" /\ At(g, p).name = g[lead[2]].name
           /\ IsPrefix(lead[1], p)
           /\ \A d \in (Len(lead[1]) + 1)..Len(p) : SubSeq(p, 1, d) \in leading}

\* The rules that are tried there, by references of references.
Reaches(g) ==
  LET near == Leads(g)
      further(far, i) ==
        far \union {reach \in Paths(g) \X DOMAIN g :
                      \E m \in DOMAIN g : <<reach[1], m>> \in far /\ <<<<m>>, reach[2]>> \in near}
  IN  FoldLeft(further, near, [r \in DOMAIN g |-> r])

-----------------------------------------------------------------------------
IsChar(node, input, pos) ==
  /\ pos < Len(input)
  /\ \/ node.kind = "any"
     \/ node.kind \in {"char", "clschar"} /\ input[pos + 1] \in node.lo..node.hi
     \/ /\ node.kind = "cls"
        /\ \E i \in DOMAIN node.kids :
             input[pos + 1] \in node.kids[i].lo..node.kids[i].hi

\* A match of a rule, between its records if it emits any.
Branch(rule, pos, v) ==
  IF rule.emit /\ v.n > 0
  THEN Value(v.n, <<Record(Start, rule.name, pos, v.n, FALSE)>> \o v.recs
                    \o <<Record(End, rule.name, pos, v.n, FALSE)>>)
  ELSE v

\* The alternatives of p that are tried at pos: all, or only those that
\* reach a rule of which a match is being grown there.
Alternatives(g, p, reaches, seeds, pos) ==
  LET growing == {r \in DOMAIN g : seeds[r, pos].n > 0}
      reaching == {k \in ToSet(KidPaths(g, p)) :
                     \E r \in growing : <<k, r>> \in reaches}
  IN  IF reaching # {} THEN reaching ELSE ToSet(KidPaths(g, p))

\* The value of a rule at a position; reaches is Reaches(g).  val is that of
\* the node at path p with quantifier q at pos; seeds holds the matches that
\* are being grown, and NoSeed for the other rules.
RuleMeaning(g, reaches, input, rule, at) ==
  LET places == (DOMAIN g) \X (0..Len(input))
      val[p \in Paths(g), q \in {"", "?", "*", "+"}, pos \in 0..Len(input),
          seeds \in [places -> Values]] ==
        LET node == At(g, p)
            kids == KidPaths(g, p)
            here == <<p[1], pos>>
            series(s) ==
              FoldLeft(LAMBDA v, k :
                         IF v.n < 0 THEN v
                         ELSE Then(v, val[k, At(g, k).q, pos + v.n, s]),
                       Empty, kids)
            grown[s \in [places -> Values]] ==
              LET v == Consuming(series(s))
              IN  IF v.n > s[here].n
                  THEN grown[[s EXCEPT ![here] = Branch(node, pos, v)]]
                  ELSE s[here]
            once == val[p, "", pos, seeds]
            many[v \in Values] ==
              LET u == val[p, "", pos + v.n, seeds]
              IN  IF u.n > 0 THEN many[Then(v, u)] ELSE v
            tried == Alternatives(g, p, reaches, seeds, pos)
            first == FoldLeft(LAMBDA v, k :
                                IF v.n > 0 \/ k \notin tried THEN v
                                ELSE Consuming(val[k, "", pos, seeds]),
                              Failure, kids)
            negative == val[kids[Len(kids)], "", pos, seeds]
        IN  CASE q = "?" -> IF once.n > 0 THEN once ELSE Empty
              [] q = "*" -> many[Empty]
              [] q = "+" -> Consuming(many[Empty])
              [] q = "" /\ node.kind = "rule" ->
                   IF seeds[here] # NoSeed THEN seeds[here]
                   ELSE IF <<p, p[1]>> \in reaches
                   THEN grown[[seeds EXCEPT ![here] = Failure]]
                   ELSE Branch(node, pos, Consuming(series(seeds)))
              [] q = "" /\ node.kind = "ref" ->
                   val[<<RuleNamed(g, node.name)>>, "", pos, seeds]
              [] q = "" /\ node.kind \in {"char", "any", "cls"} ->
                   IF IsChar(node, input, pos) THEN Value(1, <<>>) ELSE Failure
              [] q = "" /\ node.kind \in {"orop", "norop"} -> first
              [] q = "" /\ node.kind = "minop" ->
                   IF negative.n > 0 THEN Failure
                   ELSE val[kids[1], "", pos, seeds]
              [] q = "" /\ node.kind = "notop" ->
                   IF negative.n < 0 /\ pos < Len(input) THEN Value(1, <<>>)
                   ELSE Failure
              [] OTHER -> series(seeds)
  IN  val[<<rule>>, "", at, [place \in places |-> NoSeed]]
=============================================================================
