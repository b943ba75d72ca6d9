----------------------------- MODULE RpaBitmap ------------------------------
(***************************************************************************)
(* The first-character sets of src/rpa/rpabitmap.c: a set of the 64 slots  *)
(* of a word, a character in the slot of its code modulo 64.  The compiled *)
(* code tests the next character against the set before it tries a rule,   *)
(* a branch or an alternation; an empty set means that nothing is tested.  *)
(*                                                                         *)
(* The sets are built rule by rule, on demand, and a rule in the middle of *)
(* being built counts as "any character".  env is the userdata of all the  *)
(* records: a set for every path.                                          *)
(***************************************************************************)
EXTENDS RpaGrammar

Slots == 0..63

BitSlot(c) == c % 64

NoBitmaps(g) == [p \in Paths(g) |-> {}]

\* Mutant: optional kids are not passed over.
BadLeadingKids(g, p) == {k \in ToSet(KidPaths(g, p)) : Last(k) = 1}

\* rpa_bitmap_set_expression and rpa_bitmap_set_namedrule: the kids up to
\* the first one that is not optional.
LeadingKids(g, p) ==
  LET kids == KidPaths(g, p)
  IN  {kids[i] : i \in {i \in DOMAIN kids :
                          \A j \in 1..(i - 1) : IsOptional(At(g, kids[j]))}}

\* What the END record of a node gets from the sets below it.
Gathered(g, p, env) ==
  LET node == At(g, p)
      kids == KidPaths(g, p)
  IN  CASE node.kind \in {"char", "clschar"} -> {BitSlot(c) : c \in node.lo..node.hi}
        [] node.kind \in {"any", "notop"} -> Slots
        [] node.kind \in {"cls", "orop", "norop"} ->
             UNION {env[k] : k \in ToSet(kids)}
        [] node.kind = "minop" -> env[kids[1]]
        [] OTHER -> UNION {env[k] : k \in LeadingKids(g, p)}

\* rpa_bitmap_set on a node, its kids first, and on a rule
\* rpa_dbex_getrulebitmap with rpa_dbex_buildbitmapinfo_for_rule.
WithBitmap(g, loop, path, bitmaps) ==
  LET paths == Paths(g)
      set[p \in paths, env \in [paths -> SUBSET Slots]] ==
        LET node == At(g, p)
            r == RuleNamed(g, node.name)
            begun == IF node.kind = "rule" THEN [env EXCEPT ![p] = Slots] ELSE env
            walked == FoldLeft(LAMBDA e, k : set[k, e], begun, KidPaths(g, p))
            gathered == Gathered(g, p, walked)
            built == set[<<r>>, env]
        IN  CASE node.kind = "rule" ->
                   IF env[p] # {} THEN env
                   ELSE [walked EXCEPT ![p] = IF node.abort THEN Slots
                                              ELSE gathered]
              [] node.kind = "ref" ->
                   IF p \in loop \/ r = 0 THEN env
                   ELSE [built EXCEPT ![p] = built[<<r>>]]
              [] node.kind = "minop" -> [walked EXCEPT ![p] = gathered]
              [] OTHER -> [walked EXCEPT ![p] = @ \union gathered]
  IN  set[path, bitmaps]
=============================================================================
