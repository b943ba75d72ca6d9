----------------------------- MODULE MCRpaDbex ------------------------------
(* Texts that refer to rules loaded later, redefine a rule, direct rules     *)
(* before and after them, lose a name, and close loops of an earlier text.    *)
EXTENDS RpaDbex, RpaExamples

\* A ::= <:B:> | 'y'
\* #!emitall
RefersToB ==
  <<Rule("A", <<Or(<<<<Ref("B", "")>>, <<Chr(y, "")>>>>)>>),
    Directive("emitall", "")>>

\* #!noemit B
\* B ::= 'x'
\* #!abort B
DefinesB ==
  <<Directive("noemit", "B"), Rule("B", <<Chr(x, "")>>), Directive("abort", "B")>>

\* #!emitnone
\* B ::= <:A:> 'x' | 'w'
\* #!emit A
RefersToA ==
  <<Directive("emitnone", ""),
    Rule("B", <<Or(<<<<Ref("A", ""), Chr(x, "")>>, <<Chr(w, "")>>>>)>>),
    Directive("emit", "A")>>

\* A ::= <:A:> 'x' | 'z'
DefinesA == LeftRecursive

\* C ::= 'x' <:B:>?
\* #!emit
\* B ::= 'y'
LosesName ==
  <<Rule("C", <<Chr(x, ""), Ref("B", "?")>>), Directive("emit", NoName),
    Rule("B", <<Chr(y, "")>>)>>

MCTexts ==
  {RefersToB, DefinesB, RefersToA, DefinesA, LosesName, Garbled}

\* For AdmitsMatches and OffersCurrent: a rule loaded before the one it refers to.
ReopenedTexts == {RefersToB, <<Rule("B", <<Chr(x, "")>>)>>}
ReopenedInputs == Strings({x, y}, 1) \ {<<>>}
=============================================================================
