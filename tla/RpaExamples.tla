---------------------------- MODULE RpaExamples -----------------------------
(* Grammars for the runs, each beside its text, with the inputs it is tried *)
(* on.  A character is its code.  '8' (56) shares the bitmap slot of 'x'.    *)
EXTENDS RpaGrammar

x == 120
y == 121
z == 122
w == 119
plus == 43
open == 40
close == 41
eight == 56

Strings(chars, max) == UNION {[1..k -> chars] : k \in 0..max}

\* meant is the grammar as written, grammar the one that is loaded.
Entry(grammar, bitmaps, inputs) ==
  [grammar |-> grammar, meant |-> grammar, bitmaps |-> bitmaps,
   inputs |-> inputs]

\* A ::= 'x' 'y'? 'z'* | 'x'+ '8'
Quantified ==
  <<Rule("A", <<Or(<<<<Chr(x, ""), Chr(y, "?"), Chr(z, "*")>>,
                     <<Chr(x, "+"), Chr(eight, "")>>>>)>>)>>

\* A ::= 'z' | <:A:> 'x'
LeftRecursive ==
  <<Rule("A", <<Or(<<<<Chr(z, "")>>, <<Ref("A", ""), Chr(x, "")>>>>)>>)>>

\* A ::= <:B:> 'x' | 'y'
\* B ::= <:A:> 'z' | 'w'
IndirectlyRecursive ==
  <<Rule("A", <<Or(<<<<Ref("B", ""), Chr(x, "")>>, <<Chr(y, "")>>>>)>>),
    Rule("B", <<Or(<<<<Ref("A", ""), Chr(z, "")>>, <<Chr(w, "")>>>>)>>)>>

\* A ::= <:B:> 'x' | <:C:> <:C:>       (no records)
\* B ::= <:A:> 'z'
\* C ::= 'y'
Flattened ==
  <<NoEmit(Rule("A", <<Or(<<<<Ref("B", ""), Chr(x, "")>>,
                            <<Ref("C", ""), Ref("C", "")>>>>)>>)),
    Rule("B", <<Ref("A", ""), Chr(z, "")>>),
    Rule("C", <<Chr(y, "")>>)>>

\* A ::= 'x' <:A:> | 'z'
RightRecursive ==
  <<Rule("A", <<Or(<<<<Chr(x, ""), Ref("A", "")>>, <<Chr(z, "")>>>>)>>)>>

\* A ::= <:B:> 'x' | <:B:> 'z'
\* B ::= 'y'+
SharedPrefix ==
  <<Rule("A", <<Or(<<<<Ref("B", ""), Chr(x, "")>>,
                     <<Ref("B", ""), Chr(z, "")>>>>)>>),
    Rule("B", <<Chr(y, "+")>>)>>

\* A ::= <:B:>* <:C:>?
\* B ::= 'x' <:C:>
\* C ::= 'y' | 'z' <:B:>?
Repeating ==
  <<Rule("A", <<Ref("B", "*"), Ref("C", "?")>>),
    Rule("B", <<Chr(x, ""), Ref("C", "")>>),
    Rule("C", <<Or(<<<<Chr(y, "")>>, <<Chr(z, ""), Ref("B", "?")>>>>)>>)>>

\* A ::= <:E:> 'z'?
\* E ::= <:E:> '+' <:T:> | <:T:>        (no records)
\* T ::= 'x' | '(' <:E:> ')'
Expression ==
  <<Rule("A", <<Ref("E", ""), Chr(z, "?")>>),
    NoEmit(Rule("E", <<Or(<<<<Ref("E", ""), Chr(plus, ""), Ref("T", "")>>,
                            <<Ref("T", "")>>>>)>>)),
    Rule("T", <<Or(<<<<Chr(x, "")>>,
                     <<Chr(open, ""), Ref("E", ""), Chr(close, "")>>>>)>>)>>

\* A ::= (. - 'y')+ ^'x'
Negative ==
  <<Rule("A", <<Bracket(<<Minus(<<Dot("")>>, <<Chr(y, "")>>)>>, "+"),
                Not(Chr(x, ""))>>)>>

\* A ::= (<:B:> - <:C:>) 'x' | <:C:>+
\* B ::= 'x' | 'y' 'z'?
\* C ::= 'y' 'x'
Excluding ==
  <<Rule("A", <<Or(<<<<Bracket(<<Minus(<<Ref("B", "")>>, <<Ref("C", "")>>)>>, ""),
                       Chr(x, "")>>,
                     <<Ref("C", "+")>>>>)>>),
    Rule("B", <<Or(<<<<Chr(x, "")>>, <<Chr(y, ""), Chr(z, "?")>>>>)>>),
    Rule("C", <<Chr(y, ""), Chr(x, "")>>)>>

\* A ::= ('x' | 'w' | [y-z])+ '8'
Choice(or(_)) ==
  <<Rule("A", <<Bracket(<<or(<<<<Chr(x, "")>>, <<Chr(w, "")>>,
                               <<Cls(<<Rng(y, z)>>, "")>>>>)>>, "+"),
                Chr(eight, "")>>)>>

\* #!abort B
\* A ::= 'x'? <:B:> | 'z'
\* B ::= 'y'+ 'z'
Aborting ==
  <<Rule("A", <<Or(<<<<Chr(x, "?"), Ref("B", "")>>, <<Chr(z, "")>>>>)>>),
    AbortOnFail(Rule("B", <<Chr(y, "+"), Chr(z, "")>>))>>
=============================================================================
