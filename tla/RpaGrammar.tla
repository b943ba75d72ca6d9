----------------------------- MODULE RpaGrammar -----------------------------
(***************************************************************************)
(* A grammar as the compiler of src/rpa sees it: the record tree the RPA   *)
(* parser leaves behind, without the names and the layout.                 *)
(*                                                                         *)
(* A grammar is a sequence of rules.  A rule and every node below it is a  *)
(* record with the fields of Node; kind is the production of the record:   *)
(*                                                                         *)
(*   char, any, cls, clschar     a character, '.', a class and its members *)
(*   ref                         a reference to a rule, by name            *)
(*   bracket                     ( ... )                                   *)
(*   orop, altbranch             a | b | ...                               *)
(*   minop, reqop, norop, negbranch      a - b                             *)
(*   notop                       ^ a                                       *)
(*                                                                         *)
(* q is the quantifier: "", "?", "+" or "*".  A character is its code.  A  *)
(* node is named by its path: the rule's index, then an index into kids at *)
(* every level.                                                            *)
(***************************************************************************)
EXTENDS Integers, SequencesExt

MaxDepth == 16      \* bound: nesting of a rule

\* The kinds of what a rule is made of.
NodeKinds ==
  {"char", "any", "cls", "clschar", "ref", "bracket", "orop", "altbranch",
   "minop", "reqop", "norop", "negbranch", "notop"}

Node(kind, q, kids) ==
  [kind |-> kind, q |-> q, kids |-> kids, name |-> "", lo |-> 0, hi |-> 0]

Chr(c, q) == [Node("char", q, <<>>) EXCEPT !.lo = c, !.hi = c]
Dot(q) == Node("any", q, <<>>)
Rng(lo, hi) == [Node("clschar", "", <<>>) EXCEPT !.lo = lo, !.hi = hi]
Cls(items, q) == Node("cls", q, items)
Ref(name, q) == [Node("ref", q, <<>>) EXCEPT !.name = name]
Bracket(kids, q) == Node("bracket", q, kids)
Or(branches) ==
  Node("orop", "", [i \in DOMAIN branches |-> Node("altbranch", "", branches[i])])
Minus(pos, neg) ==
  Node("minop", "", <<Node("reqop", "", pos),
                      Node("norop", "", <<Node("negbranch", "", neg)>>)>>)
Not(node) == Node("notop", "", <<node>>)

\* A rule that emits records and does not abort the parse when it fails.
Rule(name, kids) ==
  [Node("rule", "", kids) EXCEPT !.name = name] @@ [emit |-> TRUE, abort |-> FALSE]
NoEmit(rule) == [rule EXCEPT !.emit = FALSE]
AbortOnFail(rule) == [rule EXCEPT !.abort = TRUE]

\* A directive: "#!emit Name", "#!noemit Name", "#!abort Name", or "#!emitall"
\* and "#!emitnone", of every rule.  The parser also takes one that has lost
\* its name.
NoName == "?"
Directive(does, of) ==
  Node("directive", "", <<>>) @@ [emit |-> FALSE, abort |-> FALSE,
                                  does |-> does, of |-> of]

\* The function f, which TLC evaluates here and not at every use.
Table(f) == f @@ <<>>

At(g, p) ==
  LET node[d \in 1..Len(p)] ==
        IF d = 1 THEN g[p[1]] ELSE node[d - 1].kids[p[d]]
  IN  node[Len(p)]

KidPaths(g, p) == [i \in DOMAIN At(g, p).kids |-> Append(p, i)]

\* The paths of all nodes: level by level, to the depth of the deepest.
Paths(g) ==
  LET level[d \in Nat] ==
        IF d = 1 THEN {<<r>> : r \in DOMAIN g}
        ELSE UNION {ToSet(KidPaths(g, p)) : p \in level[d - 1]}
      depth == CHOOSE d \in 1..MaxDepth : level[d + 1] = {}
  IN  UNION {level[d] : d \in 1..depth}

\* rpa_dbex_lookup: the rule a name stands for, the last one of that name, 0
\* when there is none.
RuleNamed(g, name) == Max({0} \union {r \in DOMAIN g : g[r].name = name})

\* usertype & RPA_MATCH_OPTIONAL, a bit of "?" and of "*".
IsOptional(node) == node.q \in {"?", "*"}

\* Mutant: the bit of "*" only.
BadIsMultiple(node) == node.q = "*"

IsMultiple(node) == node.q \in {"+", "*"}

-----------------------------------------------------------------------------
(* rpaoptimization.c: an alternation of single characters and classes is *)
(* loaded as a class.                                                      *)
IsSingleton(branch) ==
  /\ Len(branch) = 1
  /\ ~IsMultiple(branch[1])
  /\ branch[1].kind \in {"cls", "char"}

ClassItems(branch) ==
  IF branch[1].kind = "cls" THEN branch[1].kids
  ELSE <<Rng(branch[1].lo, branch[1].lo)>>

OptimizedOr(branches) ==
  IF \A i \in DOMAIN branches : IsSingleton(branches[i])
  THEN Cls(FlattenSeq([i \in DOMAIN branches |-> ClassItems(branches[i])]), "")
  ELSE Or(branches)

-----------------------------------------------------------------------------
(* rpa_parseinfo_loopdetect_do: whether a walk from node n, left to right  *)
(* and through the references, comes to node to before it must have        *)
(* consumed something.  walked holds the nodes being walked.                *)
WalkList(g, n) ==
  IF At(g, n).kind = "ref"
  THEN LET parent == Front(n)
           siblings == KidPaths(g, parent)
       IN  SubSeq(siblings, Last(n), Len(siblings))
  ELSE KidPaths(g, n)

IsResolved(g, p) == RuleNamed(g, At(g, p).name) # 0

Blocks(g, p) ==
  LET node == At(g, p)
  IN  /\ ~IsOptional(node)
      /\ \/ node.kind \in {"char", "cls", "any"}
         \/ node.kind = "ref" /\ IsResolved(g, p)

LoopDetectDo(g, parent, loopto) ==
  LET paths == Paths(g)
      walk[n \in paths, indirection \in Nat, walked \in SUBSET paths] ==
        \/ n = loopto /\ indirection > 0
        \/ /\ n \notin walked
           /\ LET list == WalkList(g, n)
              IN  \E i \in DOMAIN list :
                    /\ \A j \in 1..(i - 1) : ~Blocks(g, list[j])
                    /\ IF At(g, list[i]).kind = "ref"
                       THEN \/ list[i] = loopto /\ (indirection > 0 \/ list[i] # n)
                            \/ /\ IsResolved(g, list[i])
                               /\ walk[<<RuleNamed(g, At(g, list[i]).name)>>,
                                       indirection + 1, walked \union {n}]
                       ELSE walk[list[i], indirection + 1, walked \union {n}]
  IN  walk[parent, 0, {}]

LoopDetect(g, parent, loopto) ==
  /\ parent # loopto => LoopDetectDo(g, loopto, parent)
  /\ LoopDetectDo(g, parent, loopto)

\* rpa_parseinfo_marklooppath: the nodes marked RPA_LOOP_PATH, downwards
\* from the rules as long as there is a loop.
LoopPath(g) ==
  {p \in Paths(g) :
     \A d \in 1..Len(p) : LoopDetect(g, SubSeq(p, 1, d), SubSeq(p, 1, d))}

\* rpa_dbex_buildloopinfo: the branches marked RPA_NONLOOP_PATH.
NonLoopPath(g, loop) ==
  {p \in Paths(g) : /\ At(g, p).kind = "altbranch"
                    /\ p \notin loop
                    /\ Front(p) \in loop}
=============================================================================
