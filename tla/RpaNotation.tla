----------------------------- MODULE RpaNotation ----------------------------
(***************************************************************************)
(* How a grammar is written down: what RpaParser is held against.  The     *)
(* same grammar has many texts, one for every layout:                      *)
(*                                                                         *)
(*   gap      what stands where space is allowed                           *)
(*   bar      what stands around "|", which may be on a line of its own    *)
(*   quote    what encloses a character, nothing if it is written bare     *)
(*   ends     what ends a rule                                             *)
(*   classes  "ranges", "decimal" or "hex"                                 *)
(*                                                                         *)
(* A text is loaded that was written so, with a mistake in a rule or not.  *)
(***************************************************************************)
EXTENDS RpaParser

VARIABLES
  meant,        \* the grammar that was written down
  blame         \* the lines of the rule with the mistake, none if there is none

Gaps == <<<<>>, <<" ">>, <<"\t", "\\", "\n">>>>
Quotes == <<<<<<"'">>, "ranges">>, <<<<"\"">>, "decimal">>, <<<<>>, "hex">>>>
Ends == <<<<<<";">>, <<" ">>>>,
          <<<<"\n">>, <<"\n", "\t">>>>,
          <<<<" ", "#", "!", "\r", "\n">>, <<"\r", "\n">>>>>>

\* Any two of the three are combined in one of the layouts.
Layouts ==
  {LET k == 1 + ((i + j) % 3)
   IN  [gap |-> Gaps[i], quote |-> Quotes[j][1], classes |-> Quotes[j][2],
        ends |-> Ends[k][1], bar |-> Ends[k][2]] : i, j \in 1..3}

Names == {"A", "B_2"}
Spelled == [name \in Names |-> IF name = "A" THEN <<"A">> ELSE <<"B", "_", "2">>]

Character(code) == Printable[code - 31]

\* What has a meaning of its own is escaped, unless it is quoted.
Plain == Letters \union Digits \union {"_", ":", "=", "@", "!", "%", ",", "/", "{", "}"}
Bare(c) == IF c \in Plain THEN <<c>> ELSE <<"\\", c>>

Decimal(n) ==
  LET digits == <<n \div 100, (n \div 10) % 10, (n % 10)>>
      first == CHOOSE i \in 1..3 : digits[i] > 0 /\ \A j \in 1..(i - 1) : digits[j] = 0
  IN  [i \in 1..(4 - first) |-> DigitsOf[digits[first + i - 1] + 1]]
Hexadecimal(n) == <<"0", "x", DigitsOf[(n \div 16) + 1], DigitsOf[(n % 16) + 1]>>

\* Characters within a class; a range in numbers is written backwards.
Item(item, layout) ==
  LET Numbered(n) == <<"#">> \o IF layout.classes = "hex" THEN Hexadecimal(n) ELSE Decimal(n)
  IN  CASE item.kind = "special" -> <<"\\", item.name>>
        [] layout.classes = "ranges" /\ item.lo = item.hi -> Bare(Character(item.lo))
        [] layout.classes = "ranges" /\ item.lo < item.hi ->
             <<Character(item.lo), "-", Character(item.hi)>>
        [] layout.classes # "ranges" /\ item.lo = item.hi -> Numbered(item.lo)
        [] layout.classes # "ranges" /\ item.lo < item.hi ->
             Numbered(item.hi) \o <<"-">> \o Numbered(item.lo)

\* Numbers do not go together with anything else.
ItemLayout(some, layout) ==
  IF \E i \in DOMAIN some : some[i].kind = "special"
  THEN [layout EXCEPT !.classes = "ranges"] ELSE layout

Joined(parts, between) ==
  FoldLeft(LAMBDA so, part : IF so = <<>> THEN part ELSE so \o between \o part,
           <<>>, parts)

RECURSIVE Written(_, _)

WrittenAll(nodes, layout) ==
  Joined([i \in DOMAIN nodes |-> Written(nodes[i], layout)], layout.gap)

Written(node, layout) ==
  LET kids == node.kids
      gap == layout.gap
      body == CASE node.kind = "char" ->
                     IF layout.quote \in {<<>>, <<Character(node.lo)>>}
                     THEN Bare(Character(node.lo))
                     ELSE layout.quote \o <<Character(node.lo)>> \o layout.quote
                [] node.kind = "any" -> <<".">>
                [] node.kind = "special" -> <<"\\", node.name>>
                [] node.kind = "cls" ->
                     <<"[">>
                       \o FlattenSeq([i \in DOMAIN kids |->
                                        Item(kids[i], ItemLayout(kids, layout))])
                       \o <<"]">>
                [] node.kind = "ref" -> <<"<">> \o Spelled[node.name] \o <<">">>
                [] node.kind = "bracket" ->
                     <<"(">> \o gap \o WrittenAll(kids, layout) \o gap \o <<")">>
                [] node.kind = "orop" ->
                     Joined([i \in DOMAIN kids |-> WrittenAll(kids[i].kids, layout)],
                            layout.bar \o <<"|">> \o layout.bar)
                [] node.kind = "minop" ->
                     Joined(<<WrittenAll(kids[1].kids, layout)>>
                              \o [i \in DOMAIN kids[2].kids |->
                                    WrittenAll(kids[2].kids[i].kids, layout)],
                            gap \o <<"-">> \o gap)
                [] node.kind = "notop" -> <<"^">> \o gap \o Written(kids[1], layout)
                [] node.kind = "anchorop" -> <<"~">> \o gap \o Written(kids[1], layout)
  IN  body \o IF node.q = "" THEN <<>> ELSE gap \o <<node.q>>

\* A rule or a directive; a directive has the rest of its line.
WrittenItem(item, layout) ==
  LET gap == layout.gap
      Directed(word) == <<"#">> \o gap \o <<"!">> \o gap \o word
      name == <<" ">> \o gap \o Spelled[item.of]
  IN  CASE item.kind = "rule" ->
             Spelled[item.name] \o gap \o <<":", ":", "=">> \o gap
               \o WrittenAll(item.kids, layout) \o layout.ends
        [] item.kind = "anonymousrule" -> WrittenAll(item.kids, layout) \o layout.ends
        [] item.kind = "directive" ->
             Directed(CASE item.does = "emitall" -> <<"e", "m", "i", "t", "a", "l", "l">>
                        [] item.does = "emit" -> <<"e", "m", "i", "t">> \o name
                        [] item.does = "abort" -> <<"a", "b", "o", "r", "t">> \o name
                        [] item.does = "emitid" ->
                             <<"e", "m", "i", "t", "i", "d">> \o name \o <<" ", "x", " ", "7">>)
               \o <<"\n">>

Text(grammar, layout) ==
  FlattenSeq([i \in DOMAIN grammar |-> WrittenItem(grammar[i], layout)])

-----------------------------------------------------------------------------
(* What is written: every operator within others, quantifiers everywhere,  *)
(* characters that have a meaning, and a rule of every kind.               *)

C(c, q) == Chr(Code(c), q)

Grammars ==
  {<<Rule("A", <<Or(<<<<C("a", "*"), Ref("B_2", "?")>>, <<Dot("+"), C("+", "")>>>>)>>),
     Directive("emit", "A"),
     Rule("B_2", <<Minus(<<Bracket(<<Or(<<<<Not(C("n", "?"))>>,
                                          <<C("x", ""), C("-", "")>>>>)>>, "*"),
                           C("b", "")>>,
                         <<Not(C("c", ""))>>)>>)>>,
   <<Directive("emitall", ""),
     Rule("A", <<Cls(<<Rng(97, 122), Rng(45, 45), Rng(48, 57)>>, "+"),
                 Bracket(<<Minus(<<Dot("*")>>, <<Ref("A", ""), C("|", "")>>)>>, "?")>>),
     Rule("A", <<C(";", ""), Not(Bracket(<<C("'", "?"), C("#", "")>>, "*"))>>),
     Directive("abort", "B_2")>>,
   <<Node("anonymousrule", "", <<C("A", ""), C("\"", "+"), Special("n")>>),
     Directive("emitid", "B_2"),
     Rule("B_2", <<Or(<<<<Node("anchorop", "", <<Bracket(<<Dot("*")>>, "?")>>)>>,
                        <<Minus(<<C("1", "")>>, <<Dot("")>>)>>,
                        <<Cls(<<Special("t"), Rng(91, 91)>>, "?"), C("a", "")>>>>)>>)>>}

-----------------------------------------------------------------------------
(* Mistakes: a bracket of a rule is lost, or there is one too many.        *)

Brackets(chars) == {i \in DOMAIN chars : chars[i] \in {"(", ")"}}
Mistaken(chars, layout) ==
  {RemoveAt(chars, i) : i \in Brackets(chars)}
    \union {InsertAt(chars, Len(chars) - Len(layout.ends) + 1, ")")}

Breaks(chars) == Cardinality({i \in DOMAIN chars : chars[i] = "\n"})

TextInit ==
  \E grammar \in Grammars, layout \in Layouts :
    LET Between(from, to) == Text(SubSeq(grammar, from, to), layout)
    IN  \/ /\ meant = grammar /\ blame = {}
           /\ LoadInit(Text(grammar, layout))
        \/ \E r \in {r \in DOMAIN grammar : grammar[r].kind = "rule"} :
             LET before == Between(1, r - 1)
             IN  \E wrong \in Mistaken(Between(r, r), layout) :
                   /\ meant = <<>>
                   /\ blame = (1 + Breaks(before))..(1 + Breaks(before \o wrong))
                   /\ LoadInit(before \o wrong \o Between(r + 1, Len(grammar)))

TextNext == LoadNext /\ UNCHANGED <<meant, blame>>

-----------------------------------------------------------------------------
\* However a grammar is laid out, it is loaded as what was meant.  A text with
\* a mistake in it is turned away, nothing of it is kept, and the line that is
\* reported is one of the rule that the mistake is in.
LoadsMeant ==
  told # "parsing" =>
    IF blame = {} THEN told = "done" /\ items = meant
    ELSE told = "SYNTAXERROR" /\ items = <<>> /\ line \in blame
=============================================================================
