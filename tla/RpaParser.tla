------------------------------ MODULE RpaParser -----------------------------
(***************************************************************************)
(* The parser of the RPA notation, src/rpa/rpaparser.c: a grammar that is  *)
(* assembled by hand for the machine that runs all other grammars, and     *)
(* what rpa_dbex_load makes of the records it emits.                       *)
(*                                                                         *)
(* Every rpa_production_ function is a production here, over expressions:  *)
(* a sequence goes on while nothing fails (BLES to the end), alternatives  *)
(* are tried until one consumes (BGRE to the end), a reference whose       *)
(* result is not looked at is optional, and a BGRE out of a rule that was  *)
(* to go on refuses a character (Unless).                                  *)
(*                                                                         *)
(* A text is a sequence of characters, a position the number of characters *)
(* before it.  A record is its kind, its text and the records within it.   *)
(***************************************************************************)
EXTENDS RpaGrammar, TLC

VARIABLES
  text, at,     \* what is loaded, and how much of it was parsed
  records,      \* dbex->temprecords
  told, line,   \* "parsing", or how it ended, and the line it reported
  items         \* what the text added to dbex->records

-----------------------------------------------------------------------------
(* Characters.                                                             *)

\* The printable ones, in the order of their codes, from 32 on.
Printable ==
  <<" ", "!", "\"", "#", "$", "%", "&", "'", "(", ")", "*", "+", ",", "-", ".", "/",
    "0", "1", "2", "3", "4", "5", "6", "7", "8", "9", ":", ";", "<", "=", ">", "?",
    "@", "A", "B", "C", "D", "E", "F", "G", "H", "I", "J", "K", "L", "M", "N", "O",
    "P", "Q", "R", "S", "T", "U", "V", "W", "X", "Y", "Z", "[", "\\", "]", "^", "_",
    "backquote", "a", "b", "c", "d", "e", "f", "g", "h", "i", "j", "k", "l", "m", "n", "o",
    "p", "q", "r", "s", "t", "u", "v", "w", "x", "y", "z", "{", "|", "}", "~">>

Code(c) == 31 + CHOOSE i \in DOMAIN Printable : Printable[i] = c
From(lo, hi) == {Printable[i] : i \in (Code(lo) - 31)..(Code(hi) - 31)}

NUL == "nul"
Letters == From("a", "z") \union From("A", "Z")
Digits == From("0", "9")

-----------------------------------------------------------------------------
(* Expressions.                                                            *)

Exp(op, chars, parts) == [op |-> op, chars |-> chars, parts |-> parts]

OneOf(chars) == Exp("one", chars, <<>>)
One(c) == OneOf({c})
AnyChar == Exp("any", {}, <<>>)
Unless(chars) == Exp("unless", chars, <<>>)

\* Two by two, so that TLC does not go deeper than it must.
Paired(op, parts) ==
  LET pair[from, to \in DOMAIN parts] ==
        IF from = to THEN parts[from]
        ELSE LET half == (from + to) \div 2
             IN  Exp(op, {}, <<pair[from, half], pair[half + 1, to]>>)
  IN  pair[1, Len(parts)]
Parts(parts) == Paired("seq", parts)
First(parts) == Paired("alt", parts)

Maybe(exp) == Exp("opt", {}, <<exp>>)
Times(exp) == Exp("mul", {}, <<exp>>)
MaybeTimes(exp) == Maybe(Times(exp))
The(name) == Exp("rule", {name}, <<>>)

Literal(chars) == Parts([i \in DOMAIN chars |-> One(chars[i])])

-----------------------------------------------------------------------------
(* The productions, from the characters up.                                *)

Space ==
  Times(First(<<OneOf({" ", "\t"}),
                Parts(<<One("\\"), Maybe(One("\r")), One("\n")>>)>>))
Comment ==
  Parts(<<One("#"), MaybeTimes(Parts(<<Unless({"\r", "\n", NUL}), AnyChar>>))>>)

Rulename ==
  Parts(<<OneOf(Letters \union {"_"}),
          MaybeTimes(OneOf(Letters \union Digits \union {"_"}))>>)
Aliasname ==
  Parts(<<OneOf(Letters), MaybeTimes(OneOf(Letters \union Digits \union {"_"}))>>)
\* The result of the "=" is not looked at.
Assign ==
  Parts(<<Maybe(The("space")), One(":"), One(":"), Maybe(One("=")),
          MaybeTimes(The("space"))>>)

Char == AnyChar
Specialchar == OneOf({"r", "n", "t"})
Nsspecialchar == One(".")
Escapedchar == Parts(<<One("\\"), First(<<The("specialchar"), The("char")>>)>>)
Regexchar ==
  Parts(<<Unless({NUL, " ", "~", "#", "^", "-", "|", "&", "+", "*", "?", "\"", "'",
                  "(", ")", "[", "]", "<", ">", ".", ";", "\t", "\r", "\n"}),
          The("char")>>)

Specialclschar == OneOf({"r", "n", "t"})
Escapedclschar == AnyChar
Clschars == Unless({" ", "#", "\\", "-", "[", "]", "\t", "\r", "\n", NUL})
Clschar == Parts(<<Clschars, AnyChar>>)
Beginchar == Parts(<<Clschars, AnyChar>>)
Endchar == Parts(<<Clschars, AnyChar>>)
Charrng == Parts(<<The("beginchar"), One("-"), The("endchar")>>)
Alphacls ==
  Parts(<<One("["),
          Times(First(<<The("charrng"), The("clschar"),
                        Parts(<<One("\\"), The("specialclschar")>>),
                        Parts(<<One("\\"), The("escapedclschar")>>)>>)),
          One("]")>>)

Dec == Parts(<<OneOf(From("1", "9")), MaybeTimes(OneOf(Digits))>>)
Hex == Times(OneOf(Digits \union From("a", "f") \union From("A", "F")))
Num ==
  Parts(<<One("#"),
          First(<<Parts(<<Maybe(One("0")), OneOf({"x", "X"}), The("hex")>>),
                  The("dec")>>)>>)
Numrng == Parts(<<The("num"), One("-"), The("num")>>)
Clsnum == The("num")
Numcls == Parts(<<One("["), Times(First(<<The("numrng"), The("clsnum")>>)), One("]")>>)
Class == First(<<The("numcls"), The("alphacls")>>)

Quoted(quote) ==
  Parts(<<One(quote), Times(Parts(<<Unless({quote}), The("char")>>)), One(quote)>>)
Sqstr == Quoted("'")
Dqstr == Quoted("\"")

Aref == Parts(<<One("<"), The("rulename"), One(">")>>)
Cref == Parts(<<One("<"), One(":"), The("rulename"), One(":"), One(">")>>)
Occurence == OneOf({"?", "+", "*"})

-----------------------------------------------------------------------------
(* The productions of the operators, from the one that binds most.         *)

Bracketexp ==
  Parts(<<One("("), Maybe(The("space")), The("orexp"), Maybe(The("space")), One(")")>>)
Terminal ==
  First(<<The("cls"), The("sqstr"), The("dqstr"), The("cref"), The("aref"),
          The("bracketexp")>>)
Often == <<Maybe(The("space")), Maybe(The("occurence")), Maybe(The("space"))>>
Qchar ==
  Parts(<<First(<<The("nsspecialchar"), The("escapedchar"), The("regexchar")>>)>> \o Often)
Qexp == First(<<Parts(<<The("terminal")>> \o Often), The("qchar")>>)

Anchorop == Parts(<<One("~"), Maybe(The("space")), The("qexp")>>)
Anchorexp == Parts(<<First(<<The("anchorop"), The("qexp")>>), Maybe(The("space"))>>)
Notop == Parts(<<One("^"), Maybe(The("space")), The("anchorexp")>>)
Notexp == Parts(<<First(<<The("notop"), The("anchorexp")>>), Maybe(The("space"))>>)
Sequence == Times(The("notexp"))

Negbranch == The("exp")
Norop ==
  Times(Parts(<<Maybe(The("space")), One("-"), Maybe(The("space")),
                Times(The("negbranch"))>>))
Reqop == The("exp")
Minop == Parts(<<The("reqop"), The("norop")>>)

\* Mutant: the sequence is tried first, and the "-" is never come to.
BadMinexp == First(<<The("exp"), The("minop")>>)

Minexp == First(<<The("minop"), The("exp")>>)

Altbranch == The("minexp")
LineBreak ==
  <<Maybe(The("space")), Maybe(One("\r")), Maybe(One("\n")), Maybe(The("space"))>>
Orop ==
  Parts(<<The("altbranch"),
          Times(Parts(LineBreak \o <<One("|")>> \o LineBreak \o <<The("altbranch")>>))>>)
Orexp == First(<<The("orop"), The("minexp")>>)

-----------------------------------------------------------------------------
(* The productions of a text.                                              *)

Namedrule ==
  Parts(<<Maybe(The("space")), The("rulename"), The("assign"), Times(The("orexp"))>>)
Anonymousrule == Parts(<<Maybe(The("space")), Times(The("orexp"))>>)

Sharp(word) ==
  <<One("#"), Maybe(The("space")), One("!"), Maybe(The("space")), Literal(word)>>
\* The result of the name is not looked at.
Named == <<The("space"), Maybe(The("rulename"))>>

Emit == Parts(Sharp(<<"e", "m", "i", "t">>) \o Named)
Noemit == Parts(Sharp(<<"n", "o", "e", "m", "i", "t">>) \o Named)
Abort == Parts(Sharp(<<"a", "b", "o", "r", "t">>) \o Named)
Emitall == Parts(Sharp(<<"e", "m", "i", "t", "a", "l", "l">>))
Emitnone == Parts(Sharp(<<"e", "m", "i", "t", "n", "o", "n", "e">>))
Emitid ==
  Parts(Sharp(<<"e", "m", "i", "t", "i", "d">>)
          \o <<The("space"), The("rulename"), The("space"), Maybe(The("aliasname")),
               Maybe(The("space")), The("dec")>>)
Directives ==
  Parts(<<Times(First(<<The("emit"), The("noemit"), The("emitall"), The("emitnone"),
                        The("abort"), The("emitid")>>)),
          MaybeTimes(Parts(<<Unless({"\r", "\n"}), AnyChar>>))>>)

\* One turn of the loop of bnf.
Turn ==
  First(<<The("space"), The("directives"), The("comment"),
          Times(OneOf({"\r", "\n", ";", NUL})), The("namedrule"), The("anonymousrule")>>)

Production ==
  [directives |-> Directives, emit |-> Emit, noemit |-> Noemit, emitall |-> Emitall,
   emitnone |-> Emitnone, abort |-> Abort, emitid |-> Emitid, comment |-> Comment,
   namedrule |-> Namedrule, anonymousrule |-> Anonymousrule, space |-> Space,
   rulename |-> Rulename, aliasname |-> Aliasname, assign |-> Assign, char |-> Char,
   regexchar |-> Regexchar, escapedchar |-> Escapedchar,
   escapedclschar |-> Escapedclschar, specialchar |-> Specialchar,
   nsspecialchar |-> Nsspecialchar, specialclschar |-> Specialclschar,
   clschar |-> Clschar, beginchar |-> Beginchar, endchar |-> Endchar,
   occurence |-> Occurence, charrng |-> Charrng, numrng |-> Numrng, sqstr |-> Sqstr,
   dqstr |-> Dqstr, alphacls |-> Alphacls, clsnum |-> Clsnum, numcls |-> Numcls,
   cls |-> Class, dec |-> Dec, hex |-> Hex, num |-> Num, aref |-> Aref, cref |-> Cref,
   terminal |-> Terminal, qchar |-> Qchar, qexp |-> Qexp, anchorop |-> Anchorop,
   anchorexp |-> Anchorexp, notop |-> Notop, notexp |-> Notexp, exp |-> Sequence,
   bracketexp |-> Bracketexp, negbranch |-> Negbranch, norop |-> Norop,
   reqop |-> Reqop, minop |-> Minop, minexp |-> Minexp, altbranch |-> Altbranch,
   orop |-> Orop, orexp |-> Orexp]

\* The productions that emit records (RPA_RFLAG_EMITRECORD).
Recorded ==
  {"emit", "noemit", "emitall", "emitnone", "abort", "emitid", "namedrule",
   "anonymousrule", "rulename", "aliasname", "char", "specialchar", "nsspecialchar",
   "specialclschar", "escapedclschar", "clschar", "beginchar", "endchar", "occurence",
   "charrng", "numrng", "cls", "clsnum", "dec", "hex", "aref", "cref", "bracketexp",
   "anchorop", "notop", "negbranch", "norop", "reqop", "minop", "altbranch", "orop"}
\* Two of them emit records of another one's kind.
RecordKind(name) ==
  CASE name = "nsspecialchar" -> "specialchar"
    [] name = "escapedclschar" -> "clschar"
    [] OTHER -> name

-----------------------------------------------------------------------------
(* Parsing.  An expression at a position consumes n characters, or fails   *)
(* with -1, and emits records.                                             *)

Failed == [n |-> -1, records |-> <<>>]
Consumed(n) == [n |-> n, records |-> <<>>]

\* The character at a position, "" at the end.
CharAt(chars, pos) == IF pos < Len(chars) THEN chars[pos + 1] ELSE ""

RECURSIVE Parsed(_, _, _), Repeated(_, _, _)

\* One after the other.
Both(once, rest) == [n |-> once.n + rest.n, records |-> once.records \o rest.records]

\* exp as often as it consumes, at least once.
Repeated(exp, chars, pos) ==
  LET once == Parsed(exp, chars, pos)
      rest == Repeated(exp, chars, pos + once.n)
  IN  CASE once.n <= 0 -> Failed
        [] once.n > 0 /\ rest.n <= 0 -> once
        [] OTHER -> Both(once, rest)

\* A production fails if it consumes nothing, and may emit a record.
Produced(name, chars, pos) ==
  LET body == Parsed(Production[name], chars, pos)
  IN  IF body.n <= 0 THEN Failed ELSE IF name \notin Recorded THEN body
      ELSE [n |-> body.n,
            records |-> <<[kind |-> RecordKind(name),
                           text |-> SubSeq(chars, pos + 1, pos + body.n),
                           records |-> body.records]>>]

Parsed(exp, chars, pos) ==
  CASE exp.op = "one" -> IF CharAt(chars, pos) \in exp.chars THEN Consumed(1) ELSE Failed
    [] exp.op = "any" -> IF CharAt(chars, pos) # "" THEN Consumed(1) ELSE Failed
    [] exp.op = "unless" -> IF CharAt(chars, pos) \in exp.chars THEN Failed ELSE Consumed(0)
    [] exp.op = "seq" ->
         LET once == Parsed(exp.parts[1], chars, pos)
             rest == Parsed(exp.parts[2], chars, pos + once.n)
         IN  CASE once.n < 0 -> Failed [] rest.n < 0 -> Failed [] OTHER -> Both(once, rest)
    [] exp.op = "alt" ->
         LET once == Parsed(exp.parts[1], chars, pos)
         IN  IF once.n > 0 THEN once ELSE Parsed(exp.parts[2], chars, pos)
    [] exp.op = "opt" ->
         LET once == Parsed(exp.parts[1], chars, pos)
         IN  IF once.n > 0 THEN once ELSE Consumed(0)
    [] exp.op = "mul" -> Repeated(exp.parts[1], chars, pos)
    [] exp.op = "rule" -> Produced(CHOOSE name \in exp.chars : TRUE, chars, pos)

-----------------------------------------------------------------------------
(* Loading: the records become the nodes of a grammar.                     *)

Name(chars) == FoldLeft(LAMBDA name, c : name \o c, "", chars)

\* rpa_record2long.
DigitsOf == <<"0", "1", "2", "3", "4", "5", "6", "7", "8", "9", "a", "b", "c", "d", "e", "f">>
Capitals == <<"A", "B", "C", "D", "E", "F">>
Digit(c) == (CHOOSE i \in 1..16 : DigitsOf[i] = c \/ (i > 10 /\ Capitals[i - 10] = c)) - 1
Number(record) ==
  FoldLeft(LAMBDA n, c : n * (IF record.kind = "hex" THEN 16 ELSE 10) + Digit(c),
           0, record.text)

\* rpa_dbex_rh_range and _numrange: a range may be written backwards.
Ordered(c, d) == Rng(Min({c, d}), Max({c, d}))

\* "\n" and the like, of which rpa_special_char makes the character.
Special(name) == [Node("special", "", <<>>) EXCEPT !.name = name]

ClassItem(record) ==
  LET inner == record.records
  IN  CASE record.kind = "clschar" -> Rng(Code(record.text[1]), Code(record.text[1]))
        [] record.kind = "clsnum" -> Rng(Number(inner[1]), Number(inner[1]))
        [] record.kind = "charrng" ->
             Ordered(Code(inner[1].text[1]), Code(inner[2].text[1]))
        [] record.kind = "numrng" -> Ordered(Number(inner[1]), Number(inner[2]))
        [] record.kind = "specialclschar" -> Special(record.text[1])

DirectiveOf(record) ==
  LET names == SelectSeq(record.records, LAMBDA inner : inner.kind = "rulename")
      of == CASE names # <<>> -> Name(names[1].text)
              [] names = <<>> /\ record.kind \in {"emitall", "emitnone"} -> ""
              [] OTHER -> NoName
  IN  Directive(record.kind, of)

RECURSIVE Loaded(_)

LoadedNode(record) ==
  LET inner == record.records
      kind == record.kind
  IN  CASE kind = "char" -> Chr(Code(record.text[1]), "")
        [] kind = "specialchar" ->
             IF record.text = <<".">> THEN Dot("") ELSE Special(record.text[1])
        [] kind = "cls" -> Cls([i \in DOMAIN inner |-> ClassItem(inner[i])], "")
        [] kind \in {"aref", "cref"} -> Ref(Name(inner[1].text), "")
        [] kind = "bracketexp" -> Bracket(Loaded(inner), "")
        [] kind = "orop" ->
             OptimizedOr([i \in DOMAIN inner |-> Loaded(inner[i].records)])
        [] kind \in {"minop", "reqop", "norop", "negbranch", "notop", "anchorop"} ->
             Node(kind, "", Loaded(inner))
        [] kind = "namedrule" -> Rule(Name(inner[1].text), Loaded(Tail(inner)))
        [] kind = "anonymousrule" -> Node("anonymousrule", "", Loaded(inner))
        [] OTHER -> DirectiveOf(record)

\* The nodes of a branch.  An occurence is told to the record before it.
Loaded(recs) ==
  LET Occurs(i) == recs[i].kind = "occurence"
      kept == SelectSeq([i \in DOMAIN recs |-> i], LAMBDA i : ~Occurs(i))
      Copied(i) ==
        IF i < Len(recs) /\ Occurs(i + 1)
        THEN [LoadedNode(recs[i]) EXCEPT !.q = recs[i + 1].text[1]]
        ELSE LoadedNode(recs[i])
  IN  [k \in DOMAIN kept |-> Copied(kept[k])]

-----------------------------------------------------------------------------
(* rpa_dbex_load: the text is parsed, by as many turns of bnf as consume   *)
(* something, and what they recorded is kept if they came to the end.      *)

LineAt(chars, offset) ==
  1 + Cardinality({i \in DOMAIN chars : i <= offset + 1 /\ chars[i] = "\n"})

LoadInit(chars) ==
  /\ text = chars /\ at = 0 /\ records = <<>>
  /\ told = "parsing" /\ line = 0 /\ items = <<>>

Advance(turn) ==
  /\ turn.n > 0
  /\ at' = at + turn.n
  /\ records' = records \o turn.records
  /\ UNCHANGED <<text, told, line, items>>

Finish(turn) ==
  /\ turn.n <= 0
  /\ IF at = Len(text)
     THEN told' = "done" /\ items' = Loaded(records) /\ UNCHANGED line
     ELSE told' = "SYNTAXERROR" /\ line' = LineAt(text, at) /\ UNCHANGED items
  /\ UNCHANGED <<text, at, records>>

LoadNext ==
  LET turn == Parsed(Turn, text, at)
  IN  told = "parsing" /\ (Advance(turn) \/ Finish(turn))
=============================================================================
