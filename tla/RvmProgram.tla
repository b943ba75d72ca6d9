----------------------------- MODULE RvmProgram -----------------------------
(***************************************************************************)
(* Programs that are made with the generator of code: one label with a     *)
(* name and one without, for code, and one for a string.  The generator    *)
(* may have made another program before.  Beside it are the scopes in      *)
(* which a compiler keeps what its names stand for (src/rvm/rvmscope.c).   *)
(***************************************************************************)
EXTENDS RvmCode

CONSTANTS MaxScopes,  \* bound: scopes open at a time
          MaxNames    \* bound: entries of the scopes

VARIABLES cg,
          program,  \* history: the instructions, as they were meant
          defs,     \*   what each label stands for
          held,     \*   the number the client was given of the one without a name
          outcome   \* of the last call: "failed", "relocated" or neither

pvars == <<cg, program, defs, held, outcome>>

\* A character of a string is not the zero that ends it.
ASSUME StringAssumption == Zero \notin {"x", "y"}

Func == "f"
Str == "s"
Anon == "end"

Used == Relocated(AddLabelIns(AddString(FuncStart(Create, Func), Str, <<"y", "y", "y", "y">>),
                              Func, Ins("NOP")))
Host == 7 * InsSize   \* an address of the program that generates the code

Refers(op, type, label) == [op |-> op, type |-> type, label |-> label, src |-> cg.cursrc]
PlainIns(op) == Refers(op, "none", Nameless)

Undefined(label) == [l \in DOMAIN defs \ {label} |-> defs[l]]
Given(names, name, as) == [n \in DOMAIN names \cup {name} |-> IF n = name THEN as ELSE names[n]]
Defined(label, as) == Given(defs, label, as)
AtIns(index) == <<"code", index>>

Makes(newcg, added, newdefs) ==
  /\ cg' = newcg /\ program' = program \o added /\ defs' = newdefs
  /\ outcome' = "made"

\* The source of this instruction, and of those after it.
AddsIns ==
  LET srcidx == Len(program) + 1
  IN  /\ Makes(AddIns(SetSource(cg, srcidx), Ins("NOP")),
               <<[PlainIns("NOP") EXCEPT !.src = srcidx]>>, defs)
      /\ UNCHANGED held

ReplacesIns ==
  \E i \in DOMAIN program :
    /\ program[i].type = "none" /\ program[i].op # "B"
    /\ cg' = ReplaceIns(cg, i - 1, Ins("B")) /\ program' = [program EXCEPT ![i].op = "B"]
    /\ outcome' = "made" /\ UNCHANGED <<defs, held>>

AddsLabel ==
  /\ Makes(AddLabelDefault(cg, Func), <<>>, Defined(Func, AtIns(Len(program))))
  /\ UNCHANGED held

AddsLabelIns ==
  /\ Makes(AddLabelIns(cg, Func, Ins("NOP")), <<PlainIns("NOP")>>,
           Defined(Func, AtIns(Len(program))))
  /\ UNCHANGED held

\* A label that was defined before is taken back, too.
InvalidatesLabel ==
  /\ Makes(InvalidAddLabel(cg, Func), <<>>, Undefined(Func))
  /\ UNCHANGED held

PointsLabel ==
  /\ Find(cg.labels, Func) # 0
  /\ Makes(RedefinePointer(cg, Find(cg.labels, Func), Host), <<>>, Defined(Func, <<"host", Host>>))
  /\ UNCHANGED held

\* A function with no body.
AddsFunc ==
  LET ops == <<"NOP", "PUSHM", "MOV", "ADD", "MOV", "POPM", "BX">>
  IN  /\ Makes(FuncEnd(FuncStart(cg, Func)), [i \in DOMAIN ops |-> PlainIns(ops[i])],
               Defined(Func, AtIns(Len(program) + 1)))
      /\ UNCHANGED held

AddsRef ==
  /\ \E ref \in ({"BRANCH", "JUMP", "DEFAULT"} \X {Func}) \cup ({"STRING", "BLOB"} \X {Str}) :
       Makes(AddRelocIns(cg, ref[1], ref[2], Ins("BL")), <<Refers("BL", ref[1], ref[2])>>, defs)
  /\ UNCHANGED held

\* rpa_codegen_invalid_add_numlabel_s and rpa_codegen_add_numlabel_s: the number
\* is all there is of the label.
AddsAnon ==
  /\ held = 0
  /\ \/ Makes(InvalidAddLabel(cg, Nameless), <<>>, defs)
     \/ Makes(AddLabelDefault(cg, Nameless), <<>>, Defined(Anon, AtIns(Len(program))))
  /\ held' = Len(cg'.labels)

RefersToAnon ==
  /\ held # 0
  /\ Makes(IndexAddRelocIns(cg, "BRANCH", held, Ins("B")), <<Refers("B", "BRANCH", Anon)>>, defs)
  /\ UNCHANGED held

RedefinesAnon ==
  /\ held # 0
  /\ Makes(RedefineLabelDefault(cg, held), <<>>, Defined(Anon, AtIns(Len(program))))
  /\ UNCHANGED held

AddsString ==
  /\ \/ Makes(AddString(cg, Str, <<"x">>), <<>>, Defined(Str, <<"data", <<"x">>>>))
     \/ Makes(AddData(cg, Str, <<"x", "x", "x">>), <<>>,
              Defined(Str, <<"data", <<"x", "x", "x">>>>))
  /\ UNCHANGED held

Clears ==
  /\ cg' = Clear(cg) /\ program' = <<>> /\ defs' = <<>> /\ held' = 0 /\ outcome' = "made"

Relocates ==
  /\ cg' = Relocated(cg) /\ outcome' = IF Stuck(cg) = 0 THEN "relocated" ELSE "failed"
  /\ UNCHANGED <<program, defs, held>>

CodeInit ==
  /\ cg \in {Create, Clear(Used)}
  /\ program = <<>> /\ defs = <<>> /\ held = 0 /\ outcome = "made"

CodeStep ==
  \/ AddsIns \/ ReplacesIns \/ AddsLabel \/ AddsLabelIns \/ InvalidatesLabel \/ PointsLabel
  \/ AddsFunc \/ AddsRef \/ AddsAnon \/ RefersToAnon \/ RedefinesAnon
  \/ AddsString \/ Clears \/ Relocates

-----------------------------------------------------------------------------
\* Where an instruction leads that was relocated: a branch counts from itself
\* (src/rvm/rvmcpu.c:44), and the machine steps on from where a jump put it.
Leads(i) ==
  LET ins == cg.code.slots[i - 1]
  IN  CASE program[i].type = "BRANCH" -> CodeAt(cg) + (i - 1 + ins.word) * InsSize
        [] program[i].type = "JUMP" -> ins.word + InsSize
        [] OTHER -> ins.word

\* The bytes of the string, and the zero behind them, are where it leads, and
\* begin with a word.
LeadsTo(i, as) ==
  CASE as[1] = "code" -> Leads(i) = CodeAt(cg) + as[2] * InsSize
    [] as[1] = "host" -> Leads(i) = as[2]
    [] as[1] = "data" ->
         LET bytes == Append(as[2], Zero)
             start == Leads(i) - DataAt(cg)
         IN  /\ start >= 0 /\ start % WordSize = 0
             /\ start + Len(bytes) <= cg.staticdata.len
             /\ \A k \in DOMAIN bytes : cg.staticdata.slots[start + k - 1] = bytes[k]
             /\ program[i].type = "STRING" => cg.code.slots[i - 1].size = Len(as[2])

References == {i \in DOMAIN program : program[i].type # "none"}
Open == {i \in References : program[i].label \notin DOMAIN defs}

\* After a relocation every reference leads to what its label stood for last,
\* in code and data that may have moved since an earlier relocation, and in
\* memory of another program; if a label stands for nothing, the first such is
\* told, and the references before it are right.  The instructions are those
\* that were added, with their sources.
Linked ==
  /\ cg.code.len = Len(program)
  /\ \A i \in DOMAIN program :
       cg.code.slots[i - 1].op = program[i].op /\ GetSource(cg, i - 1) = program[i].src
  /\ held # 0 => (ValidIndex(cg.labels, held) <=> Anon \in DOMAIN defs)
  /\ outcome = "relocated" =>
       Open = {} /\ \A i \in References : LeadsTo(i, defs[program[i].label])
  /\ outcome = "failed" =>
       /\ Open # {}
       /\ Stuck(cg) = IF program[Min(Open)].label = Anon THEN held
                       ELSE Find(cg.labels, program[Min(Open)].label)
       /\ \A i \in References : i < Min(Open) => LeadsTo(i, defs[program[i].label])

-----------------------------------------------------------------------------
(* rvmscope.c                                                              *)

VARIABLES varstack, scopestack,
          frames    \* history: what each open scope was given, the outermost first

scopevars == <<varstack, scopestack, frames>>

ScopeNames == {"n", "m"}

ScopeInit == varstack = <<>> /\ scopestack = <<>> /\ frames = <<<<>>>>

Push ==
  /\ Len(scopestack) < MaxScopes
  /\ scopestack' = Append(scopestack, Len(varstack)) /\ frames' = Append(frames, <<>>)
  /\ UNCHANGED varstack

\* There must be one to pop.
Pop ==
  /\ scopestack # <<>>
  /\ scopestack' = Front(scopestack) /\ varstack' = SubSeq(varstack, 1, Last(scopestack))
  /\ frames' = Front(frames)

\* rvm_scope_addoffset and rvm_scope_addpointer.
AddVar(name, value) ==
  /\ Len(varstack) < MaxNames
  /\ varstack' = Append(varstack, [name |-> name, value |-> value])
  /\ frames' = [frames EXCEPT ![Len(frames)] = Given(@, name, value)]
  /\ UNCHANGED scopestack

ScopeStep == Push \/ Pop \/ \E name \in ScopeNames, value \in {1, 2} : AddVar(name, value)

\* The last of that name from the place on; 0 is NULL.
LookupFrom(start, name) ==
  LET found == {i \in DOMAIN varstack : i > start /\ varstack[i].name = name}
  IN  IF found = {} THEN 0 ELSE varstack[Max(found)].value
ScopeLookup(name) == LookupFrom(0, name)
TipLookup(name) == LookupFrom(IF scopestack = <<>> THEN 0 ELSE Last(scopestack), name)

\* A name stands for what the innermost open scope that has it gave it last,
\* and in the innermost scope alone for what that one gave it.
Scoped ==
  \A name \in ScopeNames :
    LET having == {k \in DOMAIN frames : name \in DOMAIN frames[k]}
    IN  /\ ScopeLookup(name) = (IF having = {} THEN 0 ELSE frames[Max(having)][name])
        /\ TipLookup(name) = (IF Len(frames) \in having THEN Last(frames)[name] ELSE 0)

GeneratorSpec ==
  /\ CodeInit /\ ScopeInit
  /\ [][(CodeStep /\ UNCHANGED scopevars) \/ (ScopeStep /\ UNCHANGED pvars)]_<<pvars, scopevars>>

\* A name resolves to what it was last given: a reference in generated code, after
\* any relocation, in memory that has moved and been used before
\* (src/rvm/rvmrelocmap.c:68), and a name in the scopes that are open
\* (src/rvm/rvmscope.c:139).
NamesResolve == Linked /\ Scoped
=============================================================================
