---------------------------- MODULE MCStructures ----------------------------
(***************************************************************************)
(* The data structures, each under any sequence of calls of bounded        *)
(* length: a map, an array with names, an array on its own, which is       *)
(* compared with a sequence, the record array, which is a tree, generated  *)
(* code and scopes; and the arithmetic of machine words.  And texts that   *)
(* are parsed, whose records become such a tree.  Then JSON: texts to      *)
(* read, values, strings and characters to write, and calls.               *)
(***************************************************************************)
EXTENDS RHArray, RMap, RArrayUse, RpaRecordTree, RpaNotation, RvmProgram, RvmAlu

CONSTANTS MaxCalls,
          a, b, c   \* names, keys and elements

VARIABLES kind, calls,
          sample,
          access, store, methods, asked, answers, known

\* a and b share a bucket, and c has its own.
TwoBuckets == {0, 1}
HashTwo(name) == IF name = c THEN 1 ELSE 0

\* A value that is nothing and one that is something, and two names, one of
\* which is written with an escape.
JsonToken(token, chars) == [kind |-> token, of |-> chars]
JsonLeaves == {[token |-> JsonToken("null", <<>>), value |-> <<"null", <<>>>>],
               [token |-> JsonToken("int", <<"1">>), value |-> <<"int", <<"1">>>>]}
JsonNames == {[name |-> <<"a">>, chars |-> <<"a">>], [name |-> <<"\\", "n">>, chars |-> <<"LF">>]}

J == INSTANCE RexJsonTexts WITH MaxTokens <- 9, Leaves <- JsonLeaves, Names <- JsonNames
JsonWritten == J!AllWritten
Rpc == INSTANCE RpcServer

hvars == <<names, members, hash, added>>
mvars == <<data, active, inactive, bucket, entries>>
avars == <<array, elements, used>>
rvars == <<recs, open, parent, end>>
nvars == <<text, at, records, told, line, items, meant, blame>>
svars == <<access, store, methods, asked, answers, known>>
vmvars == <<pvars, scopevars, aluvars>>

-----------------------------------------------------------------------------
NoText ==
  /\ text = <<>> /\ at = 0 /\ records = <<>> /\ told = "done" /\ line = 0
  /\ items = <<>> /\ meant = <<>> /\ blame = {}

\* What is read or written once.  Strings have every kind of character, and
\* characters are those on either side of every limit.
Limits == {1, 128, 2048, 55296, 56320, 57344, 65536, 1114111}
Samples ==
  \/ kind = "json" /\ \E w \in JsonWritten : sample \in J!Changed(w.text)
  \/ kind = "value" /\ \E w \in JsonWritten : sample \in {w.value, w.spelled}
  \/ kind = "string" /\ \E n \in 0..4 :
       sample \in [1..n -> {"x", "n", "\"", "\\", "LF", "TAB", "NUL"}]
  \/ kind = "code" /\ \E limit \in Limits, by \in {-1, 0, 1}, after \in {<<>>, <<65>>, <<128, 129>>} :
       sample = <<limit + by, after>>

Once == {"json", "value", "string", "code"}

Init ==
  /\ kind \in {"map", "harray", "array", "tree", "text", "service", "program", "scope", "alu"} \cup Once
  /\ calls = 0
  /\ HArrayInit /\ MapInit /\ ArrayInit /\ TreeInit
  /\ IF kind = "text" THEN TextInit ELSE NoText
  /\ IF kind \in Once THEN Samples ELSE sample = <<>>
  /\ IF kind = "service" THEN Rpc!CallsInit
     ELSE access = {} /\ store = <<>> /\ methods = {} /\ asked = <<>> /\ answers = <<>> /\ known = <<>>
  /\ ScopeInit /\ AluInit
  /\ IF kind = "program" THEN CodeInit
     ELSE cg = Create /\ program = <<>> /\ defs = <<>> /\ held = 0 /\ outcome = "made"

\* The tree is bounded by its records, a text by its length, scopes by their
\* names; programs are made with a call less, of which the last is a
\* relocation.
Next ==
  /\ UNCHANGED <<kind, sample>>
  /\ IF kind \in {"tree", "text", "service", "scope", "alu"} THEN UNCHANGED calls
     ELSE calls < (IF kind = "program" THEN MaxCalls - 1 ELSE MaxCalls) /\ calls' = calls + 1
  /\ \/ kind = "harray" /\ HArrayNext /\ UNCHANGED <<mvars, avars, rvars, nvars, svars, vmvars>>
     \/ kind = "map" /\ MapStep /\ UNCHANGED <<hvars, avars, rvars, nvars, svars, vmvars>>
     \/ kind = "array" /\ ArrayStep /\ UNCHANGED <<hvars, mvars, rvars, nvars, svars, vmvars>>
     \/ kind = "tree" /\ TreeStep /\ UNCHANGED <<hvars, mvars, avars, nvars, svars, vmvars>>
     \/ kind = "text" /\ TextNext /\ UNCHANGED <<hvars, mvars, avars, rvars, svars, vmvars>>
     \/ kind = "service" /\ Rpc!CallsNext /\ UNCHANGED <<hvars, mvars, avars, rvars, nvars, vmvars>>
     \/ /\ kind = "program" /\ IF calls < MaxCalls - 2 THEN CodeStep ELSE Relocates
        /\ UNCHANGED <<hvars, mvars, avars, rvars, nvars, svars, scopevars, aluvars>>
     \/ /\ kind = "scope" /\ ScopeStep
        /\ UNCHANGED <<hvars, mvars, avars, rvars, nvars, svars, pvars, aluvars>>
     \/ /\ kind = "alu" /\ AluStep
        /\ UNCHANGED <<hvars, mvars, avars, rvars, nvars, svars, pvars, scopevars>>

Spec == Init /\ [][Next]_<<kind, calls, sample, hvars, mvars, avars, rvars, nvars, svars, vmvars>>

-----------------------------------------------------------------------------
\* A JSON text is read by both readers for what it means, but for the escapes
\* in the names of members, which the reader of streams does not resolve
\* (src/rexjson/rexjson++.cpp:644), and turned away if it means nothing, is
\* nested too deep or needs more records than there are: in records, members and
\* elements are found by going over what is in them (src/rexjson/rexjson.c:349).
JsonReads ==
  kind = "json" =>
    \A limit \in {<<9, 20>>, <<2, 20>>, <<9, 4>>, <<1, 2>>} :
      J!ReadsMeaning(JsonWritten, sample, limit[1], limit[2])

\* What is written comes back when it is read: values in any layout, exactly if
\* every name of a member can be written without an escape
\* (src/rexjson/rexjson++.cpp:493), strings that have no backslash
\* (src/rexjson/rexjson++.cpp:47), and characters in UTF-8 and UTF-16
\* (src/rlib/rutf.c:23).  So do records, each once and in order, when a branch
\* is walked, and when they are moved, even to where they overlap themselves
\* (src/rpa/rparecord.c:204).
ComesBack ==
  CASE kind = "value" -> J!ValueComesBack(sample)
    [] kind = "string" -> J!StringComesBack(sample)
    [] kind = "code" -> J!CodeComesBack(sample[1], sample[2])
    [] kind = "tree" -> WalksBranch /\ MovesBlock
    [] OTHER -> TRUE

\* Calls are answered with a result or an error, and what a client can tell from
\* the answers is what the program has (src/rexjsonrpc/rpcserver.h:430,
\* src/rexjsonrpc/property.h:90).
CallsAnswered == kind = "service" => Rpc!CallsAnswered
=============================================================================
