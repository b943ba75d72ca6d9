------------------------------ MODULE RpcServer ------------------------------
(***************************************************************************)
(* Calls by JSON: the properties of a program (src/rexjsonrpc/property.h)  *)
(* and the server that calls methods (src/rexjsonrpc/rpcserver.h).  The    *)
(* program is one that has a number, a switch and a pair of numbers, and   *)
(* methods to get, set, dump and reset them; it refuses the number 2.      *)
(***************************************************************************)
EXTENDS RexJson

IntVal(n) == Scalar("int", <<ToString(n)>>)
BoolVal(n) == Scalar(IF n = 1 THEN "true" ELSE "false", <<>>)
StrVal(chars) == Scalar("string", chars)
Digits == "0" :> 0 @@ "1" :> 1 @@ "2" :> 2
Numbers == {"int", "number"} \* A number that is not whole is told by its whole part.
Switches == {"true", "false"}

-----------------------------------------------------------------------------
(* Properties.  What they hold is in store, by address.                    *)

Leaf(type, access, addr) == [node |-> "leaf", type |-> type, access |-> access, addrs |-> <<addr>>]
RangeOf(access, addrs) == [node |-> "range", type |-> "int", access |-> access, addrs |-> addrs]
Map(of) == [node |-> "map", of |-> of]
List(of) == [node |-> "list", of |-> of]
NoProperty == [node |-> "none"]

\* The program's: the second of the two in the list cannot be read, the first
\* one cannot be written, or neither read.
Tree(access) ==
  Map(<<"a">> :> Leaf("int", {"read", "write"}, "x")
      @@ <<"l">> :> List(<<Leaf("bool", access, "y"), RangeOf({"write"}, <<"r0", "r1">>)>>))

\* property_map::navigate takes the path up to the next "." or "[", and a "."
\* in front off it.
MapToken(path) ==
  LET ends == {n \in 1..Len(path) : n = Len(path) \/ path[n + 1] \in {".", "["}}
  IN  SubSeq(path, 1, CHOOSE n \in ends : \A m \in ends : n <= m)
Trimmed(token) == IF token[1] = "." THEN Tail(token) ELSE token

\* property_array::navigate takes what is in brackets, and atol what is a
\* number at the beginning of it.
Closes(path) == {n \in 2..Len(path) : path[n] = "]"}
Close(path) == CHOOSE n \in Closes(path) : \A m \in Closes(path) : n <= m
Atol(token) ==
  FoldLeft(LAMBDA number, c : IF number.more /\ c \in DOMAIN Digits
                              THEN [number EXCEPT !.is = 10 * @ + Digits[c]]
                              ELSE [number EXCEPT !.more = FALSE],
           [is |-> 0, more |-> TRUE], token).is

RECURSIVE Navigate(_, _)
Navigate(prop, path) ==
  CASE prop.node \in {"leaf", "range"} -> IF path = <<>> THEN prop ELSE NoProperty
    [] prop.node = "map" /\ path # <<>> ->
         LET token == MapToken(path)
         IN  IF Trimmed(token) \in DOMAIN prop.of
             THEN Navigate(prop.of[Trimmed(token)], SubSeq(path, Len(token) + 1, Len(path)))
             ELSE NoProperty
    [] prop.node = "list" /\ path # <<>> /\ path[1] = "[" /\ Closes(path) # {}
         /\ Close(path) > 2 ->
         LET index == Atol(SubSeq(path, 2, Close(path) - 1)) + 1
         IN  IF index \in DOMAIN prop.of
             THEN Navigate(prop.of[index], SubSeq(path, Close(path) + 1, Len(path)))
             ELSE NoProperty
    [] OTHER -> NoProperty

\* enumarate_children, as what it calls back with.
RECURSIVE Enumerated(_, _)
Enumerated(prop, path) ==
  CASE prop.node = "map" ->
         UNION {Enumerated(prop.of[name], path \o <<".">> \o name) : name \in DOMAIN prop.of}
    [] prop.node = "list" ->
         UNION {Enumerated(prop.of[i], path \o <<"[", ToString(i - 1), "]">>) : i \in DOMAIN prop.of}
    [] OTHER -> {[path |-> path, prop |-> prop]}

\* get_prop; it is a range's own that does not ask for access.
Readable(prop) == prop.node = "range" \/ (prop.node = "leaf" /\ "read" \in prop.access)
GetProp(store, prop) ==
  IF prop.node = "range" THEN Array([i \in DOMAIN prop.addrs |-> IntVal(store[prop.addrs[i]])])
  ELSE IF prop.type = "bool" THEN BoolVal(store[prop.addrs[1]])
  ELSE IntVal(store[prop.addrs[1]])

\* set_prop_impl
Stores(type, val) == val[1] \in Switches \cup (IF type = "int" THEN Numbers ELSE {})
AsStored(val) == IF val[1] \in Numbers THEN Digits[val[2][1]] ELSE IF val[1] = "true" THEN 1 ELSE 0

\* What has been written when the first value cannot be, or there are no more.
Writes(prop, vals) ==
  LET fits(n) == n <= Len(prop.addrs) /\ \A i \in 1..n : Stores(prop.type, vals[i])
  IN  CHOOSE n \in 0..Len(vals) : fits(n) /\ (n = Len(vals) \/ ~fits(n + 1))
Written(store, prop, vals) ==
  [addr \in DOMAIN store |->
     IF \E i \in 1..Writes(prop, vals) : prop.addrs[i] = addr
     THEN AsStored(vals[CHOOSE i \in 1..Writes(prop, vals) : prop.addrs[i] = addr])
     ELSE store[addr]]

\* The check_hook of the program.
Checked(prop, val) == prop.node # "leaf" \/ prop.type # "int" \/ val # IntVal(2)

\* set_prop: what is stored then, whether it was refused, and whether the
\* modified_hook was called.
Refuses(store) == [store |-> store, refused |-> TRUE, hooked |-> FALSE]

\* Mutant: the check is made when it has been written.
BadSetProp(store, prop, val) ==
  LET vals == IF prop.node = "range" THEN val[2] ELSE <<val>>
  IN  IF \/ prop.node \notin {"leaf", "range"} \/ "write" \notin prop.access
         \/ (prop.node = "range" /\ val[1] # "array")
      THEN Refuses(store)
      ELSE IF Writes(prop, vals) < Len(vals) \/ ~Checked(prop, val)
      THEN Refuses(Written(store, prop, vals))
      ELSE [store |-> Written(store, prop, vals), refused |-> FALSE, hooked |-> TRUE]

SetProp(store, prop, val) ==
  LET vals == IF prop.node = "range" THEN val[2] ELSE <<val>>
  IN  IF \/ prop.node \notin {"leaf", "range"} \/ "write" \notin prop.access
         \/ ~Checked(prop, val)
         \/ (prop.node = "range" /\ val[1] # "array")
      THEN Refuses(store)
      ELSE IF Writes(prop, vals) < Len(vals) THEN Refuses(Written(store, prop, vals))
      ELSE [store |-> Written(store, prop, vals), refused |-> FALSE, hooked |-> TRUE]

-----------------------------------------------------------------------------
(* The server.  A method's outcome is a result or an error's code.         *)

RpcType(val) ==
  CASE val[1] \in Switches -> "bool" [] val[1] = "number" -> "real" [] OTHER -> val[1]
AnyType == {"null", "object", "array", "string", "bool", "int", "real"}

Builtin == {<<"help">>, <<"spec">>, <<"helpspec">>}
Added == {<<"get">>, <<"set">>, <<"dump">>, <<"reset">>}
Late == <<"late">>

\* The types a method's parameters may have.  get, dump and reset are wrapped
\* functions; late is another reset.
Types(method) ==
  CASE method = <<"help">> -> <<{"string", "null"}>>
    [] method \in {<<"spec">>, <<"helpspec">>, <<"get">>} -> <<{"string"}>>
    [] method = <<"set">> -> <<{"string"}, AnyType>>
    [] OTHER -> <<>>

Outcome(store, result) == [store |-> store, result |-> result, error |-> "none", hooked |-> FALSE]
Fault(store, code) == [store |-> store, result |-> Null, error |-> code, hooked |-> FALSE]

\* verify_parameters
Resized(params, n) == [i \in 1..n |-> IF i <= Len(params) THEN params[i] ELSE Null]
VerifyParameters(params, types) ==
  \A i \in DOMAIN types : RpcType(Resized(params, Len(types))[i]) \in types[i]

\* create_json_spec, create_json_helpspec, noexec: all of them are told by
\* the mode and the method.
Described(method, mode) == StrVal(<<mode>> \o method)

\* call_method_name in any other mode than execute.
Describes(server, name, mode) ==
  IF name[1] # "string" THEN Fault(server.store, "invalid_request")
  ELSE IF name[2] \notin server.methods THEN Fault(server.store, "method_not_found")
  ELSE Outcome(server.store, Described(name[2], mode))

\* rpc_help, rpc_spec, rpc_helpspec
BuiltinCall(server, method, params) ==
  LET first == Resized(params, 1)[1]
  IN  IF ~VerifyParameters(params, Types(method)) THEN Fault(server.store, "invalid_params")
      ELSE IF first = Null THEN Outcome(server.store, StrVal(<<"methods">>))
      ELSE Describes(server, first, method[1])

\* rpc_wrapper::call: the arguments are taken out of the parameters, which
\* throws where there is none or one of another type; more are not looked at.
Wraps(server, params, types, outcome) ==
  IF Len(params) < Len(types) \/ \E i \in DOMAIN types : RpcType(params[i]) \notin types[i]
  THEN Fault(server.store, "misc") ELSE outcome

\* The program's methods.
GetMethod(server, path) ==
  LET prop == Navigate(server.tree, path)
  IN  IF Readable(prop) THEN Outcome(server.store, GetProp(server.store, prop))
      ELSE Fault(server.store, "misc")

SetMethod(server, params) ==
  LET set == SetProp(server.store, Navigate(server.tree, params[1][2]), params[2])
  IN  IF ~VerifyParameters(params, Types(<<"set">>)) THEN Fault(server.store, "invalid_params")
      ELSE IF set.refused THEN Fault(set.store, "misc")
      ELSE [Outcome(set.store, BoolVal(1)) EXCEPT !.hooked = set.hooked]

\* property::to_json
ToJson(server) ==
  LET all == Enumerated(server.tree, <<>>)
  IN  IF \E e \in all : ~Readable(e.prop) THEN Fault(server.store, "misc")
      ELSE Outcome(server.store,
                   Object([path \in {e.path : e \in all} |->
                             GetProp(server.store, (CHOOSE e \in all : e.path = path).prop)]))

\* One that returns nothing has an empty string for its result.
Reset(server) ==
  Outcome([server.store EXCEPT !["x"] = 0, !["y"] = 1 - @], StrVal(<<>>))

Executes(server, method, params) ==
  CASE method \in Builtin -> BuiltinCall(server, method, params)
    [] method = <<"get">> -> Wraps(server, params, Types(method), GetMethod(server, params[1][2]))
    [] method = <<"set">> -> SetMethod(server, Resized(params, 2))
    [] method = <<"dump">> -> Wraps(server, params, Types(method), ToJson(server))
    [] OTHER -> Wraps(server, params, Types(method), Reset(server))

\* call_method_name
CallMethodName(server, name, params, mode) ==
  LET known == Describes(server, name, mode)
  IN  IF mode # "execute" \/ known.error # "none" THEN known
      ELSE Executes(server, name[2], params)

Field(request, name) == request[2][<<name>>]
HasField(request, name) == request[1] = "object" /\ <<name>> \in DOMAIN request[2]

\* call, of a value.  The id is looked at when the params are known to be an
\* array, and goes with any answer from then on.
Call(server, request, mode) ==
  LET listed == HasField(request, "params") => Field(request, "params")[1] = "array"
      params == IF HasField(request, "params") THEN Field(request, "params")[2] ELSE <<>>
      id == IF listed /\ HasField(request, "id") THEN Field(request, "id") ELSE Null
      outcome == CASE request[1] # "object" -> Fault(server.store, "parse_error")
                   [] request[1] = "object" /\ (~listed \/ ~HasField(request, "method")) ->
                        Fault(server.store, "invalid_request")
                   [] OTHER -> CallMethodName(server, Field(request, "method"), params, mode)
  IN  [outcome |-> outcome, id |-> id]

\* call, of a text; 32 is what value::read allows if it is not told.
CallText(server, text) ==
  LET read == ReadStream(text, 32)
  IN  IF read = Thrown THEN [outcome |-> Fault(server.store, "misc"), id |-> Null]
      ELSE Call(server, read.value, "execute")

-----------------------------------------------------------------------------
(* A client that calls the server, one call at a time, and what it can     *)
(* tell from the answers.                                                  *)

VARIABLES access,  \* of the switch: it can be read, or be written
          store, methods,
          asked,   \* the call and its mode, or nothing
          answers, \* to it
          known    \* what the client takes the program to hold

Server == [store |-> store, methods |-> methods, tree |-> Tree(access)]

InList(index) == <<".", "l", "[">> \o index \o <<"]">>
Paths == {<<".", "a">>, <<"a">>, InList(<<"0">>), InList(<<"n">>), InList(<<"1">>), InList(<<"2">>),
          InList(<<>>), <<".", "l">>, <<".", "b">>, <<".", "a", ".", "a">>, <<>>}

Sequels == {<<>>, <<IntVal(1)>>, <<IntVal(0), BoolVal(1)>>, <<IntVal(1), StrVal(<<"a">>)>>,
            <<IntVal(1), IntVal(1), IntVal(0)>>}
Vals == {IntVal(0), IntVal(1), IntVal(2), Scalar("number", <<"1">>), BoolVal(0), StrVal(<<"a">>)}
        \cup {Array(vals) : vals \in Sequels}

Asks(method, params) ==
  Object(<<"id">> :> IntVal(7) @@ <<"method">> :> StrVal(method) @@ <<"params">> :> Array(params))

\* Calls that are made of a method with its parameters, and those that are not.
Requests ==
  {Asks(<<"set">>, <<StrVal(path), val>>) : path \in Paths, val \in Vals}
  \cup {Asks(<<"get">>, <<StrVal(path)>>) : path \in Paths}
  \cup {Asks(method, params) : method \in Builtin \cup Added \cup {Late},
                               params \in {<<>>, <<Null>>, <<StrVal(<<"set">>)>>,
                                           <<StrVal(<<"a">>), IntVal(1), Null>>}}
  \cup {Null, Array(<<>>), Object(<<>>),
        Object(<<"id">> :> IntVal(7) @@ <<"params">> :> IntVal(1)),
        Object(<<"id">> :> IntVal(7) @@ <<"method">> :> IntVal(1)),
        Object(<<"method">> :> StrVal(<<"reset">>))}

-----------------------------------------------------------------------------
(* What the client makes of an answer, knowing what it asked for.          *)

Addrs == <<".", "a">> :> <<"x">> @@ <<"a">> :> <<"x">>
         @@ InList(<<"0">>) :> <<"y">> @@ InList(<<"n">>) :> <<"y">>
         @@ InList(<<"1">>) :> <<"r0", "r1">>

IsSet(ask) ==
  /\ ask.mode = "execute" /\ HasField(ask.request, "method") /\ HasField(ask.request, "params")
  /\ Field(ask.request, "method") = StrVal(<<"set">>)
IsReset(ask) ==
  /\ ask.mode = "execute" /\ HasField(ask.request, "method")
  /\ Field(ask.request, "method") \in {StrVal(<<"reset">>), StrVal(Late)}

\* An error says that nothing was set, but for the pair, whose numbers are set
\* one after the other until one cannot be.
Learned(ask, answer) ==
  LET params == Field(ask.request, "params")[2]
      addrs == Addrs[params[1][2]]
      isset == IsSet(ask) /\ Len(params) > 1 /\ params[1][2] \in DOMAIN Addrs
      vals == IF Len(addrs) = 1 THEN <<params[2]>> ELSE params[2][2]
      number(val) == val[1] \in Numbers \cup Switches
      sets(i) == i <= Len(vals) /\ \A j \in 1..i : number(vals[j])
  IN  CASE IsReset(ask) /\ answer.outcome.error = "none" ->
             [known EXCEPT !["x"] = 0, !["y"] = 1 - @]
        [] isset /\ (answer.outcome.error = "none"
                     \/ (Len(addrs) = 2 /\ params[2][1] = "array")) ->
             [addr \in DOMAIN known |->
                IF \E i \in DOMAIN addrs : addrs[i] = addr /\ sets(i)
                THEN AsStored(vals[CHOOSE i \in DOMAIN addrs : addrs[i] = addr])
                ELSE known[addr]]
        [] OTHER -> known

CallsInit ==
  /\ access \in {{"read"}, {"write"}} /\ methods = Builtin \cup Added
  /\ store = [addr \in {"x", "y", "r0", "r1"} |-> 0] /\ known = store
  /\ asked = <<>> /\ answers = <<>>

Make(ask, answer) ==
  /\ asked' = <<ask>> /\ answers' = <<answer>>
  /\ store' = answer.outcome.store /\ known' = Learned(ask, answer)
  /\ UNCHANGED <<access, methods>>

MakeCall ==
  /\ asked = <<>>
  /\ \E request \in Requests :
       \/ \E mode \in {"execute", "spec", "help"} :
            Make([request |-> request, mode |-> mode], Call(Server, request, mode))
       \/ Make([request |-> request, mode |-> "execute"],
               CallText(Server, WriteStream(request, TRUE, TRUE)))

\* A text that cannot be read.
MakeBadCall ==
  asked = <<>> /\ Make([request |-> Null, mode |-> "execute"], CallText(Server, <<Unreadable>>))

TakeAnswer ==
  /\ asked # <<>> /\ asked' = <<>> /\ answers' = <<>>
  /\ UNCHANGED <<access, store, methods, known>>

\* rpc_server::add, which throws at a name that is empty.
Add(name) ==
  /\ asked = <<>> /\ name # <<>> /\ methods' = methods \cup {name}
  /\ UNCHANGED <<access, store, asked, answers, known>>

CallsNext == MakeCall \/ MakeBadCall \/ TakeAnswer \/ Add(Late)

\* Every call is answered, with a result or an error and with its id if its
\* parameters are a list; the program has what a client expects that knows
\* only the answers, and it gets that back by any path; hooks run for what was
\* set and for nothing else.
CallsAnswered ==
  /\ known = store
  /\ answers # <<>> =>
       LET ask == asked[1]
           answer == answers[1]
           outcome == answer.outcome
           asks(method) == /\ ask.mode = "execute" /\ HasField(ask.request, "method")
                           /\ Field(ask.request, "method") = StrVal(method)
           prop == Addrs[Field(ask.request, "params")[2][1][2]]
           of(addrs) == IF Len(addrs) = 2 THEN Array([i \in 1..2 |-> IntVal(known[addrs[i]])])
                        ELSE IF addrs = <<"y">> THEN BoolVal(known["y"]) ELSE IntVal(known["x"])
       IN  /\ outcome.result = Null <=> outcome.error # "none"
           /\ answer.id # Null <=> HasField(ask.request, "id")
                                   /\ (HasField(ask.request, "params") =>
                                         Field(ask.request, "params")[1] = "array")
           /\ outcome.hooked <=> asks(<<"set">>) /\ outcome.error = "none"
           /\ asks(<<"get">>) /\ outcome.error = "none" => outcome.result = of(prop)
           /\ asks(<<"dump">>) =>
                IF access = {"write"} THEN outcome.error = "misc"
                ELSE /\ DOMAIN outcome.result[2] = {<<".", "a">>, InList(<<"0">>), InList(<<"1">>)}
                     /\ \A path \in DOMAIN outcome.result[2] :
                          outcome.result[2][path] = of(Addrs[path])
           /\ asks(Late) => (outcome.error = "none" <=> Late \in methods)
=============================================================================
