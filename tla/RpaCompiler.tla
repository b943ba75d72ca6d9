---------------------------- MODULE RpaCompiler -----------------------------
(***************************************************************************)
(* From a grammar to code for the virtual machine: the templates of        *)
(* src/rpa/rpacompiler.c, the record handlers of src/rpa/rpadbex.c that    *)
(* use them, and the linking of rule names to addresses.                   *)
(*                                                                         *)
(* An instruction has an opcode, its registers, a number k, and an operand *)
(* arg that is not a number.  A jump goes k instructions on.  Until its    *)
(* distance is known it names a place in to: "end" is the failing end of   *)
(* the enclosing block, any other name is a rule.                          *)
(***************************************************************************)
EXTENDS RpaBitmap

Ins(op, regs, k, arg, to) ==
  [op |-> op, regs |-> regs, k |-> k, arg |-> arg, to |-> to]

Op(op, regs) == Ins(op, regs, 0, "", "")
Imm(op, regs, k) == Ins(op, regs, k, "", "")
Jump(op, k) == Ins(op, <<>>, k, "", "")
JumpTo(op, label) == Ins(op, <<>>, 0, "", label)
With(op, regs, arg) == Ins(op, regs, 0, arg, "")

Each(op, regs) == [i \in DOMAIN regs |-> Op(op, <<regs[i]>>)]
Push(regs) == Each("PUSH", regs)
Pop(regs) == Each("POP", regs)
BX == <<Op("BX", <<"LR">>)>>
BLES == <<JumpTo("BLES", "end")>>
BGRE == <<JumpTo("BGRE", "end")>>
Failed == <<Imm("MOVS", <<"R0">>, -1)>>
Matched(from) == <<Op("SUBS", <<"R0", "TOP", from>>)>>

\* rvm_codegen_redefinelabel and the relocation of the jumps to it.
Resolve(code, label, address) ==
  [i \in DOMAIN code |->
     IF code[i].to = label
     THEN [code[i] EXCEPT !.k = address - i, !.to = ""]
     ELSE code[i]]

Guarded(bitmap) ==
  IF bitmap = {} THEN <<>>
  ELSE <<With("MATCHBITMAP", <<>>, bitmap), Op("BXLES", <<"LR">>)>>

\* rpa_compiler_index_reference: a call with a quantifier.  bl is the call.
Repeated(bl, none) ==
  <<Op("PUSH", <<"TOP">>), bl, Op("MOVS", <<"R0", "R0">>), Jump("BGRE", -2),
    Op("POP", <<"R0">>), Op("SUBS", <<"R0", "TOP", "R0">>), Jump("BGRE", 2),
    Imm("MOVS", <<"R0">>, none)>>

Reference(q, bl) ==
  CASE q = "" -> <<bl>>
    [] q = "?" -> <<bl, Op("MOVS", <<"R0", "R0">>), Jump("BGRE", 2),
                    Imm("MOVS", <<"R0">>, 0)>>
    [] q = "+" -> Repeated(bl, -1)
    [] q = "*" -> Repeated(bl, 0)

\* A block of code that is jumped over and then called: what every
\* rpa_compiler_..._begin and _end pair leaves around its body.  fail is
\* where "end" is.
Called(q, enter, body, ok, fail) ==
  LET head == enter \o body \o ok
      code == Resolve(head \o fail, "end", Len(head) + 1)
      back == IF IsMultiple([q |-> q]) THEN -(Len(code) + 1) ELSE -Len(code)
  IN  <<Jump("B", Len(code) + 1)>> \o code \o Reference(q, Jump("BL", back))

Saved == Push(<<"REC", "TOP", "LR">>)
Restored == Pop(<<"LR", "TOP", "REC">>) \o Failed \o BX
Kept == Pop(<<"LR", "R1", "R0">>) \o Matched("R1")

\* rpa_compiler_exp_begin and _end; rpa_compiler_branch_begin and _end.
ExpBlock(q, bitmap, body) ==
  Called(q, Guarded(bitmap) \o Saved, body, Kept \o BX, Restored)

BranchBlock(q, bitmap, body) == ExpBlock(q, bitmap, body) \o BGRE

\* Mutant: the seed of a loop matches in every round.
BadNonLoopyBlock(q, body) ==
  Called(q, Saved, body, Kept \o <<Op("MOV", <<"LOO", "R0">>)>> \o BX, Restored)
    \o BGRE

\* rpa_compiler_nonloopybranch_begin and _end: fails at once in a loop that
\* has matched something, else its match is the seed of the loop.
NonLoopyBlock(q, body) ==
  Called(q, Saved \o <<Imm("CMP", <<"LOO">>, 0)>> \o BGRE, body,
         Kept \o <<Op("MOV", <<"LOO", "R0">>)>> \o BX, Restored) \o BGRE

\* rpa_compiler_altexp_begin and _end; rpa_compiler_class_begin and _end:
\* the body jumps to "end" when one of its parts has matched.
AltBlock(q, bitmap, body) ==
  Called(q, Guarded(bitmap) \o Push(<<"TOP", "LR">>), body,
         Pop(<<"LR", "TOP">>) \o Failed \o BX,
         Pop(<<"LR", "R1">>) \o Matched("R1") \o BX)

\* rpa_compiler_notexp_begin and _end.
NotBlock(q, body) ==
  Called(q, Saved, body, Restored,
         Pop(<<"LR", "TOP", "R0">>)
           \o <<Ins("MATCH", <<>>, 0, [lo |-> 0, hi |-> 255, q |-> ""], "")>>
           \o BX)

-----------------------------------------------------------------------------
RuleData(rule, loop) ==
  [name |-> rule.name, emit |-> rule.emit, loop |-> loop]

\* The instruction that emits a record, when the rule does emit.
Emit(op, rule, loop, regs) ==
  IF rule.emit THEN <<With(op, regs, RuleData(rule, loop))>> ELSE <<>>

\* RPA_ABORT, when the rule aborts the parse as it fails.
Aborts(rule) ==
  IF rule.abort THEN <<With("ABORT", <<"OTP", "R0">>, RuleData(rule, FALSE))>>
  ELSE <<>>

SetCache(rule, prev, last) ==
  Ins("SETCACHE", <<prev, last>>, 0, rule.name, "")

\* Mutant: the failing end leaves a register on the stack.
BadRuleFails(rule) ==
  Pop(<<"LR", "TOP">>) \o <<Op("MOV", <<"OTP", "TOP">>)>> \o Failed
    \o <<SetCache(rule, "REC", "REC")>> \o Aborts(rule) \o BX

\* The failing end of a rule.
RuleFails(rule) ==
  Pop(<<"LR", "TOP", "REC">>) \o <<Op("MOV", <<"OTP", "TOP">>)>> \o Failed
    \o <<SetCache(rule, "REC", "REC")>> \o Aborts(rule) \o BX

\* rpa_compiler_rule_begin and _end.
RuleBlock(rule, bitmap, body) ==
  LET emitEnd == Emit("EMITEND", rule, FALSE, <<"OTP", "R0">>)
      head == Guarded(bitmap)
                \o <<With("CHECKCACHE", <<"TOP">>, rule.name),
                     Op("BXNEQ", <<"LR">>)>>
                \o Saved \o Emit("EMITSTART", rule, FALSE, <<"TOP">>)
                \o body
                \o Pop(<<"LR", "OTP", "R1">>) \o Matched("OTP")
                \o <<Jump("BEQ", 3 + Len(emitEnd))>> \o emitEnd
                \o <<SetCache(rule, "R1", "REC")>> \o BX
                \o <<Op("MOV", <<"REC", "R1">>)>> \o Failed
                \o Aborts(rule) \o BX
  IN  Resolve(head \o RuleFails(rule), "end", Len(head) + 1)

\* rpa_compiler_loop_begin and _end: the body runs again and again from the
\* same position, each time with the size of the last match in LOO, until it
\* fails.
LoopBlock(rule, body) ==
  LET clear == Each("CLR", <<"R3", "R0">>)
      head == <<Op("PUSHM", <<"REC", "LOO", "TOP", "LR">>), Op("PUSH", <<"R0">>),
                Op("MOV", <<"LOO", "R3">>)>>
                \o Emit("EMITSTART", rule, TRUE, <<"TOP">>) \o body
                \o <<Op("MOV", <<"R3", "LOO">>), Op("POP", <<"R0">>),
                     Op("POPM", <<"R1", "LOO", "OTP", "LR">>)>>
                \o Matched("OTP") \o <<JumpTo("BEQ", "fail")>>
                \o Emit("EMITEND", rule, TRUE, <<"OTP", "R0">>)
                \o <<Op("MOV", <<"R3", "R0">>), Op("MOV", <<"TOP", "OTP">>),
                     JumpTo("B", "loop")>>
      fail == <<Op("MOV", <<"REC", "R1">>)>> \o Failed \o BX
      done == <<Op("MOV", <<"R3", "LOO">>), Op("POP", <<"R0">>),
                Op("POPM", <<"REC", "LOO", "TOP", "LR">>),
                Imm("CMP", <<"R0">>, 0), Jump("BGRE", 3)>> \o Failed
                \o (IF rule.abort THEN Aborts(rule) ELSE BX)
                \o <<Op("ADD", <<"TOP", "TOP", "R3">>)>> \o BX
      start == Len(clear) + 1
      code == clear \o head \o fail \o done
  IN  Resolve(Resolve(Resolve(code, "loop", start),
                      "fail", start + Len(head)),
              "end", start + Len(head) + Len(fail))

\* rpa_compiler_inlinerule_begin and _end.
InlineBlock(rule, body) ==
  LET emitEnd == Emit("EMITEND", rule, TRUE, <<"OTP", "R0">>)
  IN  Called("", Saved \o Emit("EMITSTART", rule, TRUE, <<"TOP">>), body,
             Pop(<<"LR", "OTP", "R1">>) \o Matched("OTP")
               \o <<Jump("BEQ", 2 + Len(emitEnd))>> \o emitEnd \o BX
               \o <<Op("MOV", <<"REC", "R1">>)>> \o Failed \o BX,
             Restored)

\* rpa_dbex_rh_loopref: the match of the last round, taken again.
LoopRefBlock(q) ==
  ExpBlock(IF IsOptional([q |-> q]) THEN "?" ELSE "", {},
           <<Imm("CMP", <<"LOO">>, 0), Jump("BGRE", 3)>> \o Failed \o BLES
             \o <<Op("ADD", <<"TOP", "TOP", "LOO">>),
                  Op("MOVS", <<"R0", "LOO">>)>> \o BLES)

-----------------------------------------------------------------------------
\* The record handlers.  info is what they read of the database: the grammar
\* g, the sets of the paths marked loop and nonloop, and the bitmaps env.
\* inlined is the stack of the rules whose code is being generated.
Info(g, marks, env) ==
  [g |-> g, env |-> env, loop |-> marks.loop, nonloop |-> marks.nonloop]

MatchIns(node, q) ==
  <<With("MATCH", <<>>, [lo |-> node.lo, hi |-> node.hi, q |-> q])>>

\* rpa_dbex_rh_aref asks whether a reference is part of the loop of the
\* rule whose code was begun first.
InLoop(info, p, inlined) ==
  p \in info.loop /\ LoopDetect(info.g, p, <<inlined[1]>>)

\* The code of a node from that of its kids.
NodeCode(info, p, body, reversed) ==
  LET node == At(info.g, p)
      bitmap == info.env[p]
  IN  CASE node.kind = "char" -> MatchIns(node, node.q) \o BLES
        [] node.kind = "any" -> MatchIns([lo |-> 0, hi |-> 255], node.q) \o BLES
        [] node.kind = "clschar" -> MatchIns(node, "") \o BGRE
        [] node.kind = "cls" -> AltBlock(node.q, {}, body) \o BLES
        [] node.kind = "orop" -> AltBlock(node.q, bitmap, body) \o BLES
        [] node.kind \in {"altbranch", "negbranch"} ->
             IF p \in info.nonloop THEN NonLoopyBlock(node.q, body)
             ELSE BranchBlock(node.q, bitmap, body)
        [] node.kind \in {"bracket", "reqop"} ->
             ExpBlock(node.q, {}, body) \o BLES
        [] node.kind = "norop" -> AltBlock(node.q, {}, body) \o BGRE
        [] node.kind = "minop" -> ExpBlock(node.q, bitmap, reversed) \o BLES
        [] node.kind = "notop" -> NotBlock(node.q, body) \o BLES

\* rpa_dbex_rh_aref.  target is the code of the rule, for a rule that is not
\* called but put in the place of the reference.
RefCode(info, p, inlined, target) ==
  LET node == At(info.g, p)
      bl == Ins("BL", <<>>, 0, "", node.name)
  IN  IF ~InLoop(info, p, inlined)
      THEN Reference(node.q, bl)
      ELSE IF RuleNamed(info.g, node.name) \in ToSet(inlined)
      THEN LoopRefBlock(node.q)
      ELSE IF IsOptional(node)
      THEN ExpBlock("?", {}, target \o BLES)
      ELSE target

\* rpa_dbex_rh_namedrule.
RuleCode(info, r, inlined, body) ==
  CASE inlined # <<>> -> InlineBlock(info.g[r], body)
    [] inlined = <<>> /\ <<r>> \in info.loop -> LoopBlock(info.g[r], body)
    [] OTHER -> RuleBlock(info.g[r], info.env[<<r>>], body)

\* rpa_dbex_playchildrecords and rpa_dbex_playreversechildrecords: the code of
\* one record after the other.  play has that of a path, for a stack of inlined
\* rules.
Codes(play, list, inlined) ==
  LET upto[n \in 0..Len(list)] ==
        IF n = 0 THEN <<>> ELSE upto[n - 1] \o play[<<list[n], inlined>>]
  IN  upto[Len(list)]

\* The handler of a record.
RecordCode(info, p, inlined, play) ==
  LET node == At(info.g, p)
      kids == KidPaths(info.g, p)
      begun == IF node.kind = "rule" THEN Append(inlined, p[1]) ELSE inlined
      r == RuleNamed(info.g, node.name)
  IN  CASE node.kind = "rule" -> RuleCode(info, p[1], inlined, Codes(play, kids, begun))
        [] node.kind = "ref" ->
             RefCode(info, p, inlined,
                     IF r = 0 THEN <<>> ELSE play[<<<<r>>, inlined>>])
               \o BLES
        [] OTHER -> NodeCode(info, p, Codes(play, kids, begun),
                              Codes(play, Reverse(kids), begun))

\* rpa_dbex_playrecord, and the calls in it: no deeper than the rules can be
\* nested, each of them inlined once at most.
Played(info, path) ==
  LET depth == MaxDepth * Len(info.g)
      play[d \in 0..depth] ==
        [call \in Seq(Nat) \X Seq(Nat) |->
           IF d = 0 THEN <<>>
           ELSE RecordCode(info, call[1], call[2], play[d - 1])]
  IN  play[depth][<<path, <<>>>>]

EntryCode(bitmap) ==
  <<Op("SHIFT", <<>>)>>
    \o (IF bitmap = {} THEN <<>> ELSE <<With("EXITONBITMAP", <<>>, bitmap)>>)
    \o <<Jump("BL", 3), Op("EMITTAIL", <<>>), Op("EXT", <<>>)>>

\* Mutant: the first address of a name is kept.
BadLabelled(label, name, address) ==
  [n \in DOMAIN label \union {name} |->
     IF n \in DOMAIN label THEN label[n] ELSE address]

\* rvm_codegen_addlabel_default: a name already there gets the new offset.
Labelled(label, name, address) ==
  [n \in DOMAIN label \union {name} |-> IF n = name THEN address ELSE label[n]]

\* rpa_dbex_compile, one rule after the other: the bitmaps of a rule are
\* built just before its code, and those of the rules after it may not be.
\* entry is the offset of a rule's entry code, label that of the rule a name
\* stands for.
Appended(obj, env, entry, rule, name) ==
  [code |-> obj.code \o entry \o rule,
   entry |-> Append(obj.entry, Len(obj.code) + 1),
   label |-> Labelled(obj.label, name, Len(obj.code) + Len(entry) + 1),
   env |-> env]

WithRule(g, marks, obj, env, r) ==
  Appended(obj, env, EntryCode(env[<<r>>]), Played(Info(g, marks, env), <<r>>), g[r].name)

CompileRule(g, marks, bitmaps, obj, r) ==
  WithRule(g, marks, obj,
           IF bitmaps THEN WithBitmap(g, marks.loop, <<r>>, obj.env) ELSE obj.env, r)

NewObject(env) == [code |-> <<>>, entry |-> <<>>, label |-> <<>>, env |-> env]

\* The names that code jumps to.
Named(code) == {code[i].to : i \in DOMAIN code} \ {""}

\* rpa_dbex_compile after the last rule: the names become addresses.
Link(obj) ==
  LET linked(i) ==
        LET ins == obj.code[i]
        IN  CASE ins.to # "" ->
                   [ins EXCEPT !.k = obj.label[ins.to] - i, !.to = ""]
              [] ins.to = "" /\ ins.op \in {"CHECKCACHE", "SETCACHE"} ->
                   [ins EXCEPT !.k = obj.label[ins.arg]]
              [] OTHER -> ins
  IN  [obj EXCEPT !.code = SubSeq([i \in DOMAIN obj.code |-> linked(i)], 1, Len(obj.code))]

Marks(g) ==
  LET loop == LoopPath(g)
  IN  [loop |-> loop, nonloop |-> NonLoopPath(g, loop)]

Compiled(g, bitmaps) ==
  Link(FoldLeft(LAMBDA obj, r : CompileRule(g, Marks(g), bitmaps, obj, r),
                NewObject(NoBitmaps(g)), [r \in DOMAIN g |-> r]))
=============================================================================
