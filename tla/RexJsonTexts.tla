---------------------------- MODULE RexJsonTexts ----------------------------
(***************************************************************************)
(* JSON as it is defined: which texts mean which values.  The reference    *)
(* that the two readers and the writer of src/rexjson are held against;    *)
(* nothing here is translated from them.  Next to what a text means stands *)
(* how it is spelled: the same value, but the names of members as they are *)
(* written, escapes and all.                                               *)
(***************************************************************************)
EXTENDS RexJson

CONSTANTS MaxTokens, \* the longest text, in tokens
          Leaves,    \* tokens that are values, and the values they are; no strings
          Names      \* of members, as they are written, and their characters

\* Some text: what it means and how it is spelled, how deep it is nested, how
\* many values it names.
Written(text, value, spelled, depth, count) ==
  [text |-> text, value |-> value, spelled |-> spelled, depth |-> depth, count |-> count]
Spelled(text, value) == Written(text, value, value, 1, 1)
Deeper(x, y) == IF x.depth > y.depth THEN x.depth ELSE y.depth

In(open, inner, close) == <<Token(open)>> \o inner \o <<Token(close)>>

\* The values, and the insides of arrays and objects, of exactly n tokens, by
\* those of fewer.
NewTable(tables, n) ==
  LET inside(part) == IF n < 3 THEN {} ELSE tables[n - 2][part]
      wrapped(open, Value(_), close) ==
        {Written(In(open, x.text, close), Value(x.value), Value(x.spelled), x.depth + 1,
                 x.count + 1) :
           x \in inside(IF open = "[" THEN "items" ELSE "members")}
      values ==
        (IF n = 1 THEN {Spelled(<<leaf.token>>, leaf.value) : leaf \in Leaves} ELSE {})
        \cup (IF n = 2 THEN {Spelled(In("[", <<>>, "]"), Array(<<>>)),
                             Spelled(In("{", <<>>, "}"), Object(<<>>))} ELSE {})
        \cup wrapped("[", Array, "]") \cup wrapped("{", Object, "}")
      \* A member has the name that its characters are.
      pairs == {[v EXCEPT !.text = <<String(m.name), Token(":")>> \o @,
                          !.value = m.chars :> @, !.spelled = m.name :> @] :
                  m \in Names, v \in inside("values")}
      items == {[v EXCEPT !.value = <<@>>, !.spelled = <<@>>] : v \in values}
               \cup UNION {{Written(x.text \o <<Token(",")>> \o v.text, Append(x.value, v.value),
                                    Append(x.spelled, v.spelled),
                                    Deeper(x, v), x.count + v.count) :
                              x \in tables[k].items, v \in tables[n - 1 - k].values} :
                             k \in 1..(n - 2)}
      members == pairs
                 \cup UNION {{Written(x.text \o <<Token(",")>> \o p.text, p.value @@ x.value,
                                      p.spelled @@ x.spelled,
                                      Deeper(x, p), x.count + p.count) :
                                x \in tables[k].members, p \in tables[n - 1 - k].pairs} :
                               k \in 1..(n - 2)}
      \* A name that stands alone is a value too.
      names == {Spelled(<<String(m.name)>>, Scalar("string", m.chars)) : m \in Names}
  IN  [whole |-> IF n = 1 THEN values \cup names ELSE values,
       values |-> values, pairs |-> pairs, items |-> items, members |-> members]

Tables == FoldLeft(LAMBDA tables, n : Append(tables, NewTable(tables, n)), <<>>,
                   [n \in 1..MaxTokens |-> n])
AllWritten == UNION {Tables[n].whole : n \in 1..MaxTokens}

\* What is left of a text by a reader that drops what is cut off a number.
Heard(text) ==
  LET dropped == {i \in DOMAIN text : text[i] = Cut /\ i > 1 /\ text[i - 1].kind = "int"}
  IN  FoldLeft(LAMBDA heard, i : IF i \in dropped THEN heard ELSE Append(heard, text[i]),
               <<>>, [i \in DOMAIN text |-> i])

\* A text is readable if it begins with a value, blanks aside; what it means.
Bare(text) == SelectSeq(text, LAMBDA token : token # Blank)
Meant(written, text) == LET bare == Bare(text) IN {w \in written : IsPrefix(w.text, bare)}

-----------------------------------------------------------------------------
(* Texts to read: those that are written, and those a mistake away.        *)

Changed(text) ==
  {text} \cup {InsertAt(text, i, token) : i \in 1..(Len(text) + 1),
                                          token \in {Blank, Unreadable, Cut, Token(","), Token("]")}}
         \cup {RemoveAt(text, i) : i \in 1..Len(text)}

\* The value that the records of a text describe, to a caller that does with the
\* escapes of names and strings what input::parse_primitive does with strings.
RECURSIVE Described(_, _, _)
Described(text, recs, rec) ==
  LET r == recs[rec]
      kids == Children(recs, rec)
      of(kid) == Described(text, recs, kid)
  IN  CASE r.valtype = "array" -> Array([i \in DOMAIN kids |-> of(kids[i])])
        [] r.valtype = "object" ->
             Object(FoldLeft(LAMBDA members, kid :
                               Unescape(text[recs[kid].name].of) :> of(kid) @@ members,
                             <<>>, kids))
        [] r.valtype = "string" -> Scalar("string", Unescape(text[r.value].of))
        [] OTHER -> Scalar(r.valtype, text[r.value].of)

\* A reader takes a text that means something, nested no deeper than it
\* allows, and finds what it means.  The one of streams does so with what it
\* drops left out, and only if no name of a member has an escape: it finds the
\* names as they are spelled, as against strings that are values, which it finds
\* for what they mean.  The one of records needs two for every value, and tells
\* where the names are.  The records of an array
\* or object lead from it to the values in it, and the size of one inside
\* another is what it is written in, a blank behind it perhaps included.
ReadsMeaning(written, text, maxlevels, recsize) ==
  LET meant == {w \in Meant(written, text) : w.depth <= maxlevels}
      heard == {w \in Meant(written, Heard(text)) : w.depth <= maxlevels}
      read == ReadStream(text, maxlevels)
      parsed == ParseBuffer(text, recsize, maxlevels)
  IN  /\ IF read = Thrown THEN heard = {} ELSE read.value \in {w.spelled : w \in heard}
      /\ parsed.ok <=> \E w \in meant : 2 * w.count <= recsize
      /\ parsed.ok =>
           /\ Described(text, parsed.recs, 1) \in {w.value : w \in meant}
           /\ \A i \in 2..Len(parsed.recs) :
                LET r == parsed.recs[i]
                    whole == SubSeq(text, r.value, r.value + r.valuesize - 1)
                IN  r.rectype = "begin" => \E w \in written : w.text = Bare(whole)

-----------------------------------------------------------------------------
(* What is written is read.                                                *)

\* A string comes back unless it has a backslash in it, which is written as
\* if it began an escape, or a control character that has no escape.
StringComesBack(chars) ==
  LET read == ReadStream(WriteStream(Scalar("string", chars), FALSE, TRUE), 1)
  IN  (read # Thrown /\ read.value = Scalar("string", chars))
        <=> ToSet(chars) \cap {"\\", "NUL"} = {}

RECURSIVE WithoutNulls(_)
WithoutNulls(value) ==
  CASE value[1] = "array" -> Array([i \in DOMAIN value[2] |-> WithoutNulls(value[2][i])])
    [] value[1] = "object" ->
         Object([name \in {n \in DOMAIN value[2] : value[2][n] # Null} |->
                   WithoutNulls(value[2][name])])
    [] OTHER -> value

\* The names of all members in a value.
RECURSIVE NamesIn(_)
NamesIn(value) ==
  CASE value[1] = "array" -> UNION {NamesIn(item) : item \in ToSet(value[2])}
    [] value[1] = "object" ->
         DOMAIN value[2] \cup UNION {NamesIn(value[2][name]) : name \in DOMAIN value[2]}
    [] OTHER -> {}

\* A value comes back however it is laid out, without the members that are
\* null where it is so written, unless a member is left whose name cannot stand
\* between quotes as it is: names are written without escapes.
ValueComesBack(value) ==
  \A pretty, nullprop \in BOOLEAN :
    LET kept == IF nullprop THEN value ELSE WithoutNulls(value)
        read == ReadStream(WriteStream(value, pretty, nullprop), MaxTokens)
    IN  (read # Thrown /\ read.value = kept) <=> \A name \in NamesIn(kept) : Lexes(name)

\* The escape of a JSON text has the bytes of UTF-8, but the last one first.
CodeComesBack(wc, after) ==
  /\ CharComesBack(wc, after)
  /\ wc <= 65535 => UnescapeCode(wc) = Reverse(Utf8Write(wc, 4))
=============================================================================
