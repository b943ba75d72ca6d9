---------------------------- MODULE MCRpaEngine -----------------------------
(* The parser on grammars with one hard thing each, one parser used again, *)
(* and a grammar on which it does not do what its documents say.            *)
EXTENDS RpaEngine, RpaExamples

MCCatalog ==
  <<Entry(Quantified, TRUE, Strings({x, y, z, eight}, 3)),
    Entry(LeftRecursive, TRUE, Strings({x, z}, 4)),
    Entry(IndirectlyRecursive, FALSE, Strings({w, x, y, z}, 3)),
    Entry(Flattened, FALSE, {<<y, y>>, <<y, y, z>>, <<y, y, z, x>>, <<y, y, z, x, z, x>>}),
    Entry(RightRecursive, TRUE, Strings({x, z}, 3)),
    Entry(SharedPrefix, TRUE, Strings({x, y, z}, 3)),
    Entry(Repeating, TRUE, Strings({x, y, z}, 3)),
    Entry(Expression, TRUE, Strings({x, plus, open, close}, 3) \union {<<x, plus, x, plus, x>>, <<open, x, plus, x, close>>}),
    Entry(Negative, TRUE, Strings({x, y, z}, 3)),
    Entry(Excluding, TRUE, Strings({x, y, z}, 3)),
    [Entry(Choice(OptimizedOr), TRUE, Strings({x, z, eight}, 3)) EXCEPT !.meant = Choice(Or)],
    Entry(Choice(Or), FALSE, Strings({x, z, eight}, 2)),
    Entry(Aborting, TRUE, Strings({x, y, z}, 3))>>

\* For the run of reuse: calls after calls, aborts, the memo table on and off, a
\* machine stack that is too small.
ReuseCatalog ==
  <<Entry(SharedPrefix, TRUE, Strings({y, z}, 2)),
    Entry(RightRecursive, TRUE, Strings({x, z}, 2)),
    Entry(Aborting, TRUE, Strings({y, z}, 2))>>

\* For the run of CallsReturn: the ways to repeat.
LiveCatalog ==
  <<Entry(LeftRecursive, TRUE, Strings({x, z}, 3)),
    Entry(IndirectlyRecursive, FALSE, {<<w, x>>, <<y, z, x>>, <<w, w>>}),
    Entry(Repeating, TRUE, Strings({x, y, z}, 2)),
    Entry(Negative, TRUE, Strings({x, y}, 2))>>

\* A ::= ('x') <:A:> | 'z'
Bracketed ==
  <<Rule("A", <<Or(<<<<Bracket(<<Chr(x, "")>>, ""), Ref("A", "")>>,
                     <<Chr(z, "")>>>>)>>)>>

BracketedCatalog == <<Entry(Bracketed, TRUE, Strings({x, z}, 2))>>

MCBuckets == {0, 1}
MCBucket(top, ruleid) == (top + ruleid) % 2
=============================================================================
