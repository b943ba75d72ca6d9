---------------------------- MODULE RexCompiler ----------------------------
(***************************************************************************)
(* Regular expressions to an automaton with empty transitions:             *)
(* src/rex/rexcompiler.c and src/rex/rexfragment.c.  An expression is a    *)
(* sequence of tokens.  A token has a kind and the character c it is read  *)
(* as where it means itself; an escape also has the token its second       *)
(* character would be, and a count {from,to} is one token.  Blanks,        *)
(* numbers of characters and the spelling of counts are left out.          *)
(***************************************************************************)
EXTENDS RexTransitions

Eof == [kind |-> "eof"] \* REX_TOKEN_EOF

Many == 100 \* (size_t)-1 as tocount: more than any count

\* A state's position in db->states, less one, is its uid.
NewState(type) == [type |-> type, trans |-> <<>>, etrans |-> <<>>, userdata |-> 0]

\* rexcompiler_t and the states of the database it compiles into.
Compiler(text, states, stack) ==
  [text |-> text, at |-> 1, end |-> Len(text), states |-> states,
   stack |-> stack, from |-> 0, to |-> 0, ok |-> TRUE]

Token(co) == IF co.at > co.end THEN Eof ELSE co.text[co.at]
Kind(co) == Token(co).kind
Fail(co) == [co EXCEPT !.ok = FALSE]

\* rex_compiler_gettok, _getnbtok, _getnstok
Eat(co) == [co EXCEPT !.at = @ + 1]

-----------------------------------------------------------------------------
(* Fragments: a start and the transitions that lead nowhere yet, each      *)
(* named by its state, its array and its position there.                   *)

\* rex_fragment_state_add_dangling
DanglingOf(states, uid) ==
  LET s == states[uid + 1]
  IN  {<<uid, "in", i>> : i \in {j \in DOMAIN s.trans : s.trans[j].to = None}}
      \cup {<<uid, "empty", i>> : i \in {j \in DOMAIN s.etrans : s.etrans[j] = None}}

\* rex_fragment_create
Fragment(states, uid) == [start |-> uid, dangling |-> DanglingOf(states, uid)]

\* rex_fragment_patch
Patch(states, dangling, uid) ==
  [n \in DOMAIN states |->
     [states[n] EXCEPT
        !.trans = [i \in DOMAIN @ |-> IF <<n - 1, "in", i>> \in dangling
                                      THEN [@[i] EXCEPT !.to = uid] ELSE @[i]],
        !.etrans = [i \in DOMAIN @ |-> IF <<n - 1, "empty", i>> \in dangling
                                       THEN uid ELSE @[i]]]]

\* FPOP of one fragment and FPUSH of another; FPOP of two and FPUSH of one.
Replace(co, frag) == [co EXCEPT !.stack = Append(Front(@), frag)]
Join(co, frag) == [co EXCEPT !.stack = Append(Front(Front(@)), frag)]
Second(stack) == stack[Len(stack) - 1]

\* rex_db_createstate of a state that only has empty transitions
WithEmpty(co, etrans) ==
  [co EXCEPT !.states = Append(@, [NewState("none") EXCEPT !.etrans = etrans])]
NewUid(co) == Len(co.states)

\* rex_fragment_cat of the two fragments on top.
Cat(co) ==
  LET frag1 == Second(co.stack)
      frag2 == Last(co.stack)
  IN  Join([co EXCEPT !.states = Patch(@, frag1.dangling, frag2.start)],
           [frag2 EXCEPT !.start = frag1.start])

\* rex_fragment_opt
Opt(co) ==
  LET frag == Last(co.stack)
      uid == NewUid(co)
      new == WithEmpty(co, <<None, frag.start>>)
  IN  Replace(new, [start |-> uid, dangling |-> frag.dangling \cup DanglingOf(new.states, uid)])

\* rex_fragment_mop
Mop(co) ==
  LET frag == Last(co.stack)
      uid == NewUid(co)
      new == WithEmpty(co, <<None, frag.start>>)
  IN  Replace([new EXCEPT !.states = Patch(@, frag.dangling, uid)], Fragment(new.states, uid))

\* rex_fragment_mul
Mul(co) ==
  LET frag == Last(co.stack)
      uid == NewUid(co)
      new == WithEmpty(co, <<frag.start, None>>)
  IN  Replace([new EXCEPT !.states = Patch(@, frag.dangling, uid)],
              [Fragment(new.states, uid) EXCEPT !.start = frag.start])

\* rex_fragment_alt
Alt(co) ==
  LET frag1 == Second(co.stack)
      frag2 == Last(co.stack)
  IN  Join(WithEmpty(co, <<frag1.start, frag2.start>>),
           [start |-> NewUid(co), dangling |-> frag1.dangling \cup frag2.dangling])

\* A new state with transitions, its fragment pushed.
Push(co, trans) ==
  LET states == Append(co.states, [NewState("none") EXCEPT !.trans = trans])
  IN  [co EXCEPT !.states = states, !.stack = Append(@, Fragment(states, NewUid(co)))]

-----------------------------------------------------------------------------
(* Characters, dots and classes.                                           *)

\* What cannot be an end of a range.
NoEnd == {"[", "]", "-", "eof"}

RECURSIVE ClassItems(_, _)
ClassItems(co, trans) ==
  LET isRange == Kind(Eat(co)) = "-"
      last == IF isRange THEN Eat(Eat(co)) ELSE co
      new == TransitionsAdd(trans, Token(co).c, Token(last).c, None)
  IN  IF Kind(co) \in NoEnd \/ Kind(last) \in NoEnd THEN [co |-> Fail(co), trans |-> trans]
      ELSE IF Kind(Eat(last)) = "]" THEN [co |-> Eat(Eat(last)), trans |-> new]
      ELSE ClassItems(Eat(last), new)

\* rex_compiler_charclass.  The state is there before the class is read.
CharClass(co) ==
  LET negative == Kind(Eat(co)) = "^"
      items == ClassItems(IF negative THEN Eat(Eat(co)) ELSE Eat(co), <<>>)
      trans == TransitionsNormalize(items.trans)
  IN  IF ~items.co.ok THEN [items.co EXCEPT !.states = Append(@, NewState("none"))]
      ELSE Push(items.co, IF negative
                          THEN TransitionsNormalize(TransitionsNegative(trans, None))
                          ELSE trans)

Dot == TransitionsAdd(TransitionsAdd(<<>>, 0, NewLine - 1, None), NewLine + 1, CharMax, None)

\* rex_compiler_adjustescapedtoken
AdjustEscaped(co) ==
  IF Kind(co) = "\\" THEN [co EXCEPT !.text[co.at] = @.plain] ELSE co

-----------------------------------------------------------------------------
(* The recursive descent.                                                  *)

RECURSIVE CatExpression(_), AltExpression(_), CatFrom(_, _), AltFrom(_), CountFrom(_, _, _, _)

\* Mutant: the closing parenthesis is not asked for.
BadFactor(co) ==
  LET inner == AltExpression(Eat(co))
  IN  CASE Kind(co) = "[" -> CharClass(co)
        [] Kind(co) = "." -> Eat(Push(co, Dot))
        [] Kind(co) = "(" ->
             IF Kind(Eat(co)) = ")" THEN Fail(co)
             ELSE IF Kind(inner) = ")" THEN Eat(inner) ELSE inner
        [] OTHER -> Eat(Push(co, TransitionsAdd(<<>>, Token(co).c, Token(co).c, None)))

\* rex_compiler_factor
Factor(co) ==
  LET inner == AltExpression(Eat(co))
  IN  CASE Kind(co) = "[" -> CharClass(co)
        [] Kind(co) = "." -> Eat(Push(co, Dot))
        [] Kind(co) = "(" ->
             IF Kind(Eat(co)) = ")" THEN Fail(co)
             ELSE IF inner.ok /\ Kind(inner) = ")" THEN Eat(inner) ELSE Fail(inner)
        [] OTHER -> Eat(Push(co, TransitionsAdd(<<>>, Token(co).c, Token(co).c, None)))

\* The case of no repetition at all: the states of the factor are taken back.
NoneOf(co, nstates) ==
  LET bare == AdjustEscaped([co EXCEPT !.states = SubSeq(@, 1, nstates)])
      new == WithEmpty(bare, <<None>>)
  IN  Replace(new, Fragment(new.states, nstates))

\* The loop that reads the factor again for every further repetition, with
\* the compiler's counts, which the factor's own counts overwrite.
CountFrom(co, first, last, count) ==
  LET again == [CatExpression([co EXCEPT !.at = first, !.end = last]) EXCEPT !.ok = TRUE]
  IN  IF count >= co.to THEN co
      ELSE IF again.to = Many /\ count >= again.from THEN Cat(Mop(again))
      ELSE CountFrom(Cat(IF count >= again.from THEN Opt(again) ELSE again),
                     first, last, count + 1)

\* Mutant: from nothing on is from once on.
BadCounted(co, nstates, first, last) ==
  LET looped == CountFrom(co, first, last, 1)
  IN  CASE co.from > co.to -> Fail(co)
        [] co.from <= 1 /\ co.to = Many -> Mul(co)
        [] co.from = 0 /\ co.to = 0 -> NoneOf(co, nstates)
        [] OTHER -> [looped EXCEPT !.at = co.at, !.end = co.end]

\* A count behind the factor that is the tokens first..last.
Counted(co, nstates, first, last) ==
  LET looped == CountFrom(IF co.from = 0 THEN Opt(co) ELSE co, first, last, 1)
  IN  CASE co.from > co.to -> Fail(co)
        [] co.from = 0 /\ co.to = Many -> Mop(co)
        [] co.from = 1 /\ co.to = Many -> Mul(co)
        [] co.from = 0 /\ co.to = 0 -> NoneOf(co, nstates)
        [] OTHER -> [looped EXCEPT !.at = co.at, !.end = co.end]

\* What may stand behind a factor f that was read from co.
Quantified(co, f) ==
  CASE ~f.ok -> f
    [] f.ok /\ Kind(f) = "*" -> Mop(Eat(f))
    [] f.ok /\ Kind(f) = "?" -> Opt(Eat(f))
    [] f.ok /\ Kind(f) = "+" -> Mul(Eat(f))
    [] f.ok /\ Kind(f) = "{" ->
         Counted([Eat(f) EXCEPT !.from = Token(f).from, !.to = Token(f).to],
                 Len(co.states), co.at, f.at - 1)
    [] OTHER -> f

\* rex_compiler_qfactor
QFactor(co) ==
  IF Kind(co) \in {"{", "}", "*", "?", "+", "]", ")"} THEN Fail(co)
  ELSE Quantified(co, Factor(co))

\* rex_compiler_catexpression
CatFrom(co, nfactors) ==
  LET q == QFactor(co)
  IN  IF Kind(co) \in {"eof", "|", ")"} THEN co
      ELSE IF ~q.ok THEN q
      ELSE CatFrom(IF nfactors >= 1 THEN Cat(q) ELSE q, nfactors + 1)

CatExpression(co) == IF Kind(co) = "eof" THEN Fail(co) ELSE CatFrom(co, 0)

\* rex_compiler_altexpression
AltFrom(co) ==
  LET right == CatExpression(Eat(co))
  IN  IF ~co.ok \/ Kind(co) # "|" THEN co
      ELSE IF Kind(Eat(co)) \in {"eof", "|", ")", "]"} THEN Fail(co)
      ELSE IF ~right.ok THEN right
      ELSE AltFrom(Alt(right))

AltExpression(co) == AltFrom(CatExpression(co))

-----------------------------------------------------------------------------

\* An accepting state behind all that was read, and its start's type.
Accepted(co, userdata) ==
  LET ended == Cat([co EXCEPT
                      !.states = Append(@, [NewState("accept") EXCEPT !.userdata = userdata]),
                      !.stack = Append(@, [start |-> NewUid(co), dangling |-> {}])])
      start == Last(ended.stack).start
  IN  [states |-> [ended.states EXCEPT ![start + 1].type = "start"],
       stack |-> Front(ended.stack), uid |-> start]

\* Mutant: the fragments of a refused expression stay on the stack.
BadRefused(co, nstates) ==
  [states |-> SubSeq(co.states, 1, nstates), stack |-> co.stack, uid |-> None]

\* Every state and every fragment is taken back.
Refused(co, nstates) ==
  [states |-> SubSeq(co.states, 1, nstates), stack |-> <<>>, uid |-> None]

Ended(co, nstates, userdata) ==
  IF co.ok THEN Accepted(co, userdata) ELSE Refused(co, nstates)

\* rex_compiler_expression: the states, the stack and the uid, None on error.
Expression(states, stack, text, userdata) ==
  Ended(AltExpression(Compiler(text, states, stack)), Len(states), userdata)

\* The outcome e of an expression, beside those the start from has.  The
\* first expression brings the start state, which goes again if it is refused.
Joined(e, first, from) ==
  IF e.uid = None THEN [e EXCEPT !.states = IF first THEN <<>> ELSE @]
  ELSE [e EXCEPT !.states = [@ EXCEPT ![e.uid + 1].type = "none",
                                      ![from + 1].type = "start",
                                      ![from + 1].etrans = Append(@, e.uid)],
                 !.uid = from]

\* rex_compiler_addexpression
AddExpression(states, stack, prev, text, userdata) ==
  LET first == states = <<>>
  IN  IF ~first /\ prev \notin 0..(Len(states) - 1)
      THEN [states |-> states, stack |-> stack, uid |-> None]
      ELSE Joined(Expression(IF first THEN <<NewState("start")>> ELSE states,
                             stack, text, userdata),
                  first, IF first THEN 0 ELSE prev)
=============================================================================
