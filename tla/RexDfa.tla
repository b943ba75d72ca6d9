------------------------------- MODULE RexDfa -------------------------------
(***************************************************************************)
(* The automaton without empty transitions, its flat form and the runs of  *)
(* the automata: src/rex/rexdfaconv.c, rexdb.c, rexdfa.c,                  *)
(* rexnfasimulator.c, rexdfasimulator.c and rexregex.c.  Sets of states    *)
(* are sets of uids; the code keeps them as sorted arrays.                 *)
(***************************************************************************)
EXTENDS RexCompiler, FiniteSets

CONSTANTS HashBytes, \* REX_REGEX_HASHBYTES
          HashBits   \* REX_REGEX_HASHBITS

ASSUME HashAssumption == HashBytes \in Nat \ {0} /\ HashBits \in Nat \ {0}

DeadState == 0  \* REX_DFA_DEADSTATE
StartState == 1 \* REX_DFA_STARTSTATE

State(states, uid) == states[uid + 1]

\* rex_subset_addnewsubstate keeps a subset in order.
Sorted(nfa, subset) == SelectSeq([n \in DOMAIN nfa |-> n - 1], LAMBDA uid : uid \in subset)

\* rex_dfaconv_eclosure; rex_nfasimulator_addstate adds the same states.
RECURSIVE EClosure(_, _)
EClosure(nfa, set) ==
  LET new == UNION {ToSet(State(nfa, uid).etrans) : uid \in set} \ set
  IN  IF new = {} THEN set ELSE EClosure(nfa, set \cup new)

\* rex_dfaconv_getsubsettransitions
SubsetTransitions(nfa, subset) ==
  FoldLeft(LAMBDA trans, uid : trans \o State(nfa, uid).trans,
           <<>>, Sorted(nfa, subset))

\* rex_dfaconv_move
Move(nfa, subset, low, high) ==
  {t.to : t \in {u \in UNION {ToSet(State(nfa, uid).trans) : uid \in subset} :
                   low >= u.low /\ high <= u.high}}

\* rex_dfaconv_setsubstates
Accepting(nfa, subset) == {uid \in subset : State(nfa, uid).type = "accept"}
DfaState(type, subset) == [type |-> type, trans |-> <<>>, subset |-> subset]

\* One pass of the loop over a state's ranges: the state they lead to is
\* looked up by its subset and created when there is none.
ConvertRange(nfa, dfa, uid, t) ==
  LET moved == Move(nfa, State(dfa, uid).subset, t.low, t.high)
      subset == EClosure(nfa, moved)
      known == {u \in 1..(Len(dfa) - 1) : State(dfa, u).subset = subset}
      to == IF moved = {} THEN DeadState
            ELSE IF known # {} THEN CHOOSE u \in known : TRUE ELSE Len(dfa)
      new == IF to < Len(dfa) THEN dfa
             ELSE Append(dfa, DfaState(IF Accepting(nfa, subset) # {} THEN "accept" ELSE "none",
                                       subset))
  IN  [new EXCEPT ![uid + 1].trans = TransitionsAdd(@, t.low, t.high, to)]

RECURSIVE ConvertFrom(_, _, _)
ConvertFrom(nfa, dfa, uid) ==
  LET ranges == UniqueRanges(SubsetTransitions(nfa, State(dfa, uid).subset))
      done == FoldLeft(LAMBDA d, t : ConvertRange(nfa, d, uid, t), dfa, ranges)
  IN  IF uid = Len(dfa) THEN dfa
      ELSE ConvertFrom(nfa, [done EXCEPT ![uid + 1].trans = TransitionsNormalize(@)], uid + 1)

\* rex_db_createdfa: rex_dfaconv_run.  The start is never made accepting.
CreateDfa(nfa, start) ==
  ConvertFrom(nfa, <<DfaState("dead", {}), DfaState("start", EClosure(nfa, {start}))>>, DeadState)

-----------------------------------------------------------------------------
(* The flat form: every state has an offset and a length in two arrays.    *)

\* rex_db_filldfastate, which knows the accepting states by the substates
\* the conversion copied from nfa (rex_dfaconv_initsubstates).
FillState(nfa, flat, state) ==
  LET accs == Sorted(nfa, Accepting(nfa, state.subset))
  IN  [states |-> Append(flat.states,
                         [type |-> state.type,
                          trans |-> Len(flat.trans), ntrans |-> Len(state.trans),
                          accsubstates |-> Len(flat.accsubstates), naccsubstates |-> Len(accs)]),
       trans |-> flat.trans \o state.trans,
       accsubstates |-> flat.accsubstates
                        \o [i \in DOMAIN accs |-> State(nfa, accs[i]).userdata]]

\* rex_db_todfa
ToDfa(nfa, dfa) ==
  FoldLeft(LAMBDA flat, state : FillState(nfa, flat, state),
           [states |-> <<>>, trans |-> <<>>, accsubstates |-> <<>>], dfa)

\* REX_DFA_NEXT
DfaNext(flat, uid, c) ==
  LET s == State(flat.states, uid)
      above == FirstAbove(Lows(SubSeq(flat.trans, s.trans + 1, s.trans + s.ntrans)), c)
  IN  flat.trans[s.trans + above].to

\* REX_DFA_ACCSUBSTATE of all of a state's accepting substates.
AccUserdata(flat, uid) ==
  LET s == State(flat.states, uid)
  IN  {flat.accsubstates[s.accsubstates + i] : i \in 1..s.naccsubstates}

-----------------------------------------------------------------------------
(* The filter of the scanner: which HashBytes characters may start a match, *)
(* by the low HashBits bits of each.                                       *)

HashSize == 2 ^ HashBits
HashMask == 2 ^ (HashBytes * HashBits)
Entries == 0..(HashMask - 1)

\* rex_dfa_statehash: the bits it sets, from a state, with level more
\* characters to come, behind the entry so far.  (rex_dfa_hash)
RECURSIVE StateHash(_, _, _, _)
StateHash(flat, uid, level, entry) ==
  LET s == State(flat.states, uid)
      set(to, cur) == IF level = 0 THEN {entry + cur}
                      ELSE StateHash(flat, to, level - 1, (entry + cur) * HashSize)
      inputs(t) == t.low..IF t.high - t.low < HashSize THEN t.high ELSE t.low + HashSize - 1
      live == {t \in {flat.trans[s.trans + i] : i \in 1..s.ntrans} : t.to # DeadState}
  IN  IF s.type = "accept"
      THEN UNION {set(uid, cur) : cur \in 0..(HashSize - 1)}
      ELSE UNION {set(t.to, in % HashSize) : <<t, in>> \in
                    UNION {{t} \X inputs(t) : t \in live}}

-----------------------------------------------------------------------------
(* Running the automata.                                                   *)

\* rex_nfasimulator_next, on the states it left.
NfaNext(nfa, old, c) ==
  EClosure(nfa, {t.to : t \in {u \in UNION {ToSet(State(nfa, uid).trans) : uid \in old} :
                                 c \in u.low..u.high}})

\* rex_dfasimulator_next
DfaSimNext(dfa, uid, c) ==
  IF State(dfa, uid).type = "dead" THEN uid ELSE TransitionsFind(State(dfa, uid).trans, c).to

\* rex_regex_match_utf8, rex_regex_match_byte, on what follows position i:
\* the length of the longest accepted part, 0 if there is none.
RECURSIVE MatchFrom(_, _, _, _, _)
MatchFrom(flat, text, uid, i, found) ==
  LET next == DfaNext(flat, uid, text[i])
  IN  IF i > Len(text) \/ next = DeadState THEN found
      ELSE MatchFrom(flat, text, next, i + 1,
                     IF State(flat.states, next).type = "accept" THEN i ELSE found)

Match(flat, text, i) ==
  LET last == MatchFrom(flat, text, StartState, i + 1, i) IN last - i

\* Mutant: the characters shifted out are not masked off.
BadShiftIn(shifter, text, next) ==
  shifter * HashSize + (IF next < Len(text) THEN text[next + 1] % HashSize ELSE 0)

\* REX_GREP_SHIFT_UTF8, REX_GREP_SHIFT_BYTE of the next character, nothing
\* behind the end.
ShiftIn(shifter, text, next) ==
  (shifter * HashSize + (IF next < Len(text) THEN text[next + 1] % HashSize ELSE 0)) % HashMask

\* rex_regex_scan_utf8, rex_regex_scan_byte: the loop of the two positions
\* that move together.  Its result is where the match starts and its length.
RECURSIVE ScanFrom(_, _, _, _, _, _)
ScanFrom(flat, bits, text, input, next, shifter) ==
  LET found == IF shifter \in bits THEN Match(flat, text, input) ELSE 0
  IN  IF input >= Len(text) THEN [where |-> None, length |-> 0]
      ELSE IF found > 0 THEN [where |-> input, length |-> found]
      ELSE ScanFrom(flat, bits, text, input + 1,
                    IF next < Len(text) THEN next + 1 ELSE next, ShiftIn(shifter, text, next))

Scan(flat, bits, text) ==
  LET first == FoldLeftDomain(LAMBDA s, i : ShiftIn(s, text, i - 1), 0, [i \in 1..HashBytes |-> i])
  IN  ScanFrom(flat, bits, text, 0, IF HashBytes < Len(text) THEN HashBytes ELSE Len(text), first)
=============================================================================
