------------------------------- MODULE RexJson -------------------------------
(***************************************************************************)
(* JSON: the reader and the writer of values (src/rexjson/rexjson++.cpp)   *)
(* and the reader that fills an array of records (src/rexjson/rexjson.c).  *)
(* A text is a sequence of the tokens the generated automaton of           *)
(* rexjsondfa.rexcc finds, blanks that follow one another being one token, *)
(* and Unreadable where it finds none.  Positions and sizes count tokens.  *)
(* Cut is what would go on with the number in front of it and does not,    *)
(* such as the point of "1.".                                              *)
(***************************************************************************)
EXTENDS RUtf, SequencesExt, TLC

\* A string has what is between its quotes, as a sequence of characters.
Token(kind) == [kind |-> kind, of |-> <<>>]
String(chars) == [kind |-> "string", of |-> chars]
Blank == Token(" ")
Unreadable == Token("?")
Cut == Token(".")
Number(digits) == [kind |-> "int", of |-> digits]

Scalars == {"null", "true", "false", "int", "number", "string"}

\* Values: a scalar is its token, an array has a sequence, an object a
\* function from names.
Scalar(kind, chars) == <<kind, chars>>
Array(items) == <<"array", items>>
Object(members) == <<"object", members>>
Null == Scalar("null", <<>>)

-----------------------------------------------------------------------------
(* Characters of strings.                                                  *)

\* What may follow a backslash in a text, and what it stands for.
Escapes == "\"" :> "\"" @@ "\\" :> "\\" @@ "b" :> "BS" @@ "f" :> "FF"
           @@ "n" :> "LF" @@ "r" :> "CR" @@ "t" :> "TAB"
Control == {"BS", "FF", "LF", "CR", "TAB", "NUL"}

\* TOKEN_STRING
RECURSIVE Lexes(_)
Lexes(chars) ==
  \/ chars = <<>>
  \/ chars[1] \notin Control \cup {"\"", "\\"} /\ Lexes(Tail(chars))
  \/ /\ chars[1] = "\\" /\ Len(chars) > 1 /\ chars[2] \in DOMAIN Escapes
     /\ Lexes(SubSeq(chars, 3, Len(chars)))

\* unescape_str; "/" is known here too, anything else keeps its backslash.
RECURSIVE Unescape(_)
Unescape(chars) ==
  CASE chars = <<>> -> <<>>
    [] Len(chars) > 1 /\ chars[1] = "\\" ->
         (CASE chars[2] \in DOMAIN Escapes -> <<Escapes[chars[2]]>>
            [] chars[2] = "/" -> <<"/">>
            [] OTHER -> <<"\\", chars[2]>>) \o Unescape(SubSeq(chars, 3, Len(chars)))
    [] OTHER -> <<chars[1]>> \o Unescape(Tail(chars))

\* Mutant: a tabulator is written as it is.
BadEscapeChar(c) ==
  CASE c = "\"" -> <<"\\", "\"">> [] c = "BS" -> <<"\\", "b">> [] c = "FF" -> <<"\\", "f">>
    [] c = "LF" -> <<"\\", "n">> [] c = "CR" -> <<"\\", "r">> [] OTHER -> <<c>>

EscapeChar(c) ==
  CASE c = "\"" -> <<"\\", "\"">> [] c = "BS" -> <<"\\", "b">> [] c = "FF" -> <<"\\", "f">>
    [] c = "LF" -> <<"\\", "n">> [] c = "CR" -> <<"\\", "r">> [] c = "TAB" -> <<"\\", "t">>
    [] OTHER -> <<c>>

\* escape_str_val: a backslash and what follows it are taken for an escape.
RECURSIVE Escape(_)
Escape(chars) ==
  CASE chars = <<>> -> <<>>
    [] Len(chars) > 1 /\ chars[1] = "\\" ->
         <<"\\", chars[2]>> \o Escape(SubSeq(chars, 3, Len(chars)))
    [] OTHER -> EscapeChar(chars[1]) \o Escape(Tail(chars))

\* unescape_str of four hexadecimal digits: what is cut off is put out first.
RECURSIVE CodeBytes(_, _)
CodeBytes(wc, count) ==
  IF count = 1 THEN <<wc>>
  ELSE <<128 + (wc % 64)>>
       \o CodeBytes(wc \div 64 + (IF count = 3 THEN 2048 ELSE 192), count - 1)

UnescapeCode(wc) == CodeBytes(wc, Utf8Size(wc))

-----------------------------------------------------------------------------
(* Tokens.                                                                 *)

\* get_token, rexjson_get_token at the i-th token; behind the last one, and
\* at what it cannot read, there is none.
Kind(text, i) ==
  IF i > Len(text) THEN "none"
  ELSE IF text[i].kind = "string" /\ ~Lexes(text[i].of) THEN "none"
  ELSE text[i].kind

\* next_token, rexjson_next_token
NextToken(text, i) == IF Kind(text, i + 1) = " " THEN i + 2 ELSE i + 1
FirstToken(text) == NextToken(text, 0)

\* input::next_token, at a token.  A stream is read until no token can come of
\* it; what was read behind the longest one does not go back.
StreamNext(text, i) ==
  NextToken(text, IF Kind(text, i) \in {"int", "number"} /\ Kind(text, i + 1) = "." THEN i + 1
                  ELSE i)

-----------------------------------------------------------------------------
(* input: at is 0 when it has thrown.                                      *)

Thrown == [at |-> 0, value |-> Null]
Read(at, value) == [at |-> at, value |-> value]

RECURSIVE ParseValue(_, _, _), ParseMembers(_, _, _, _), ParseItems(_, _, _, _)

\* parse_namevalue, and the loop of parse_object.  A name again replaces what
\* it had; it is kept as it is written.
ParseMembers(text, i, levels, members) ==
  LET colon == StreamNext(text, i)
      v == ParseValue(text, StreamNext(text, colon), levels)
      new == text[i].of :> v.value @@ members
  IN  IF Kind(text, i) # "string" \/ Kind(text, colon) # ":" \/ v = Thrown THEN Thrown
      ELSE IF Kind(text, v.at) = "," THEN ParseMembers(text, StreamNext(text, v.at), levels, new)
      ELSE IF Kind(text, v.at) = "}" THEN Read(StreamNext(text, v.at), Object(new))
      ELSE Thrown

\* The loop of parse_array
ParseItems(text, i, levels, items) ==
  LET v == ParseValue(text, i, levels)
      new == Append(items, v.value)
  IN  IF v = Thrown THEN Thrown
      ELSE IF Kind(text, v.at) = "," THEN ParseItems(text, StreamNext(text, v.at), levels, new)
      ELSE IF Kind(text, v.at) = "]" THEN Read(StreamNext(text, v.at), Array(new))
      ELSE Thrown

\* parse_value, parse_object, parse_array, parse_primitive
ParseValue(text, i, levels) ==
  LET kind == Kind(text, i)
      next == StreamNext(text, i)
  IN  CASE levels = 0 -> Thrown
        [] levels > 0 /\ kind = "{" ->
             IF Kind(text, next) = "}" THEN Read(StreamNext(text, next), Object(<<>>))
             ELSE ParseMembers(text, next, levels - 1, <<>>)
        [] levels > 0 /\ kind = "[" ->
             IF Kind(text, next) = "]" THEN Read(StreamNext(text, next), Array(<<>>))
             ELSE ParseItems(text, next, levels - 1, <<>>)
        [] levels > 0 /\ kind \in Scalars ->
             Read(next, Scalar(kind, IF kind = "string" THEN Unescape(text[i].of) ELSE text[i].of))
        [] OTHER -> Thrown

\* read_steam.  What follows the value is not looked at.
ReadStream(text, maxlevels) == ParseValue(text, FirstToken(text), maxlevels)

-----------------------------------------------------------------------------
(* output: pretty puts blanks around, nullprop keeps members that are null. *)

Space(pretty) == IF pretty THEN <<Blank>> ELSE <<>>

\* Blanks that follow one another are one token.
Joined(parts) ==
  FoldLeft(LAMBDA text, token : IF token = Blank /\ text # <<>> /\ Last(text) = Blank THEN text
                                ELSE Append(text, token),
           <<>>, FlattenSeq(parts))

RECURSIVE WriteStream(_, _, _)

\* write_stream_namevalue.  The name is written as it is, so one with a quote in
\* it would be cut into several tokens; there is none such here.
WriteMember(name, value, pretty, nullprop) ==
  Joined(<<Space(pretty), <<String(name)>>, Space(pretty), <<Token(":")>>, Space(pretty),
           WriteStream(value, pretty, nullprop)>>)

\* The loops of write_stream: a comma in front of all but the first.
Listed(texts, pretty) ==
  [i \in DOMAIN texts |-> IF i = 1 THEN texts[i] ELSE <<Token(",")>> \o Space(pretty) \o texts[i]]

\* The members that are written.  The code takes them in the order of their
\* names; here it is any order.
Kept(members, nullprop) ==
  SetToSeq({name \in DOMAIN members : nullprop \/ members[name] # Null})

\* write_stream, write_stream_value.  An array is indented, an object's
\* members and the ends of both, if they are not at the top.
WriteStream(value, pretty, nullprop) ==
  LET payload == value[2]
      texts == IF value[1] = "array"
               THEN [i \in DOMAIN payload |->
                       Space(pretty) \o WriteStream(payload[i], pretty, nullprop)]
               ELSE LET names == Kept(payload, nullprop)
                    IN  [i \in DOMAIN names |->
                           WriteMember(names[i], payload[names[i]], pretty, nullprop)]
      between(open, close) ==
        Joined(<<<<Token(open)>>, IF pretty /\ payload # <<>> THEN <<Blank>> ELSE <<>>>>
               \o Listed(texts, pretty) \o <<Space(pretty), <<Token(close)>>>>)
  IN  CASE value[1] = "object" -> between("{", "}")
        [] value[1] = "array" -> between("[", "]")
        [] value[1] = "string" -> <<String(Escape(payload))>>
        [] OTHER -> <<[kind |-> value[1], of |-> payload]>>

-----------------------------------------------------------------------------
(* The reader of rexjson.c, which fills an array of records that the caller *)
(* gives it, and the functions that walk them.  Positions in the text and   *)
(* in the array count from 1.                                               *)

\* rexjson_record_t.  A namesize of 0 means that there is no name.
Record(rectype, valtype) ==
  [rectype |-> rectype, valtype |-> valtype, name |-> 0, namesize |-> 0, value |-> 0, valuesize |-> 0]

\* rexjson_init, and the first token.  ok is a result that is not negative.
Context(text, recsize, maxlevels) ==
  [text |-> text, recs |-> <<>>, recsize |-> recsize, levels |-> maxlevels,
   at |-> FirstToken(text), ok |-> TRUE, error |-> "none"]

Fails(ctx, error) == [ctx EXCEPT !.ok = FALSE, !.error = error]
Now(ctx) == Kind(ctx.text, ctx.at)
Advance(ctx) == [ctx EXCEPT !.at = NextToken(ctx.text, @)]

\* token_offset is that of the last token found, a blank at the end of the
\* text included.
Offset(ctx) == IF Now(ctx) \in {"none", "?", "."} THEN ctx.at - 1 ELSE ctx.at

\* rexjson_record_add
RecordAdd(ctx, record) ==
  IF Len(ctx.recs) >= ctx.recsize THEN Fails(ctx, "nomem")
  ELSE [ctx EXCEPT !.recs = Append(@, record)]

\* rexjson_parse_token
ParseToken(ctx, kind) ==
  IF ~ctx.ok THEN ctx
  ELSE IF Now(ctx) # kind THEN Fails(ctx, "unexpectedchar")
  ELSE Advance(ctx)

RECURSIVE ParseNamed(_, _, _), ParseAll(_, _)

\* rexjson_parse_namevalue
ParseNameValue(ctx) ==
  LET colon == ParseToken(ParseToken(ctx, "string"), ":")
  IN  IF colon.ok THEN ParseNamed(colon, ctx.at, 1) ELSE colon

\* The loops of rexjson_parse_object and rexjson_parse_array.
ParseAll(ctx, valtype) ==
  LET one == IF valtype = "object" THEN ParseNameValue(ctx) ELSE ParseNamed(ctx, 0, 0)
  IN  IF one.ok /\ Now(one) = "," THEN ParseAll(Advance(one), valtype) ELSE one

\* rexjson_parse_object, rexjson_parse_array.  rec is the record that begins it.
ParseContainer(ctx, rec, valtype, close) ==
  LET inside == Advance(ctx)
      closed == ParseToken(IF Now(inside) = close THEN inside ELSE ParseAll(inside, valtype), close)
  IN  IF ~closed.ok THEN closed
      ELSE [closed EXCEPT !.recs[rec].value = ctx.at,
                          !.recs[rec].valuesize = Offset(closed) - ctx.at]

\* rexjson_parse_primitive
ParsePrimitive(ctx, rec) ==
  IF Now(ctx) \notin Scalars THEN Fails(ctx, "unexpectedchar")
  ELSE Advance([ctx EXCEPT !.recs[rec].valtype = Now(ctx), !.recs[rec].value = ctx.at,
                           !.recs[rec].valuesize = 1])

\* The record is ended whether or not its value could be read.
Ended(ctx, rec, name, namesize) ==
  LET named == [ctx EXCEPT !.recs[rec].name = name, !.recs[rec].namesize = namesize]
      ended == RecordAdd(named, [named.recs[rec] EXCEPT !.rectype = "end"])
  IN  IF ended.error = "nomem" THEN ended ELSE [ended EXCEPT !.levels = @ + 1]

\* rexjson_parse_value_set_name
ParseNamed(ctx, name, namesize) ==
  LET valtype == CASE Now(ctx) = "{" -> "object" [] Now(ctx) = "[" -> "array" [] OTHER -> "null"
      rec == Len(ctx.recs) + 1
      begun == RecordAdd([ctx EXCEPT !.levels = @ - 1], Record("begin", valtype))
      parsed == CASE valtype = "object" -> ParseContainer(begun, rec, "object", "}")
                  [] valtype = "array" -> ParseContainer(begun, rec, "array", "]")
                  [] OTHER -> ParsePrimitive(begun, rec)
  IN  IF ctx.levels = 0 THEN Fails(ctx, "maxrecursions")
      ELSE IF ~begun.ok THEN begun
      ELSE Ended(parsed, rec, name, namesize)

\* rexjson_parse_buffer
ParseBuffer(text, recsize, maxlevels) == ParseNamed(Context(text, recsize, maxlevels), 0, 0)

-----------------------------------------------------------------------------
(* The records as a tree; 0 is "none", here and for the functions' -1.     *)

RecTypeAt(recs, rec) == IF rec \in DOMAIN recs THEN recs[rec].rectype ELSE "none"

\* rexjson_recordtree_end: the first place where as many have ended as begun.
RecordTreeEnd(recs, rec) ==
  LET count(last, type) == Cardinality({i \in rec..last : recs[i].rectype = type})
      even == {last \in rec..Len(recs) : count(last, "begin") = count(last, "end")}
  IN  IF RecTypeAt(recs, rec) # "begin" \/ even = {} THEN 0
      ELSE CHOOSE last \in even : \A i \in even : last <= i

\* rexjson_recordtree_firstchild
RecordTreeFirstChild(recs, rec) ==
  IF RecTypeAt(recs, rec) = "begin" /\ RecTypeAt(recs, rec + 1) = "begin" THEN rec + 1 ELSE 0

\* Mutant: from the record itself.
BadRecordTreeNext(recs, rec) == RecordTreeFirstChild(recs, rec)

\* rexjson_recordtree_next
RecordTreeNext(recs, rec) ==
  LET end == RecordTreeEnd(recs, rec)
  IN  IF end > 0 /\ RecTypeAt(recs, end + 1) = "begin" THEN end + 1 ELSE 0

\* As rexjson_dump_tree goes through the children.
RECURSIVE From(_, _)
From(recs, child) ==
  IF child = 0 THEN <<>> ELSE <<child>> \o From(recs, RecordTreeNext(recs, child))
Children(recs, rec) == From(recs, RecordTreeFirstChild(recs, rec))
=============================================================================
