----------------------------- MODULE RexMachine -----------------------------
(***************************************************************************)
(* A user of src/rex: expressions are added to one automaton, each with    *)
(* its number, the automaton is converted and flattened, and then input is *)
(* fed, character by character, to the three ways of running it.           *)
(***************************************************************************)
EXTENDS RexDfa

CONSTANTS Texts,     \* expressions to add
          Others,    \* those of them that share an automaton
          MaxAdds,   \* bound on calls of rex_db_addexpression
          Alphabet,  \* characters fed
          MaxInput,  \* bound on their number
          ScanTexts, \* texts searched
          Noises     \* what the bits of the filter may hold before they are set

VARIABLES nfa, stack, start, \* rexdb_t of the expressions, its compiler's stack
          exprs,             \* the expressions added, in order, and their readings
          tried,             \* the last text given to rex_db_addexpression, and if it was taken
          adds,
          built,             \* the automaton has been converted
          dfa, flat, bits,   \* rexdb_t, rexdfa_t and the bits rex_dfa_hash sets
          old, cur, at,      \* states of the three runs
          input              \* what was fed

nfaVars == <<nfa, stack, start, exprs, tried, adds>>
dfaVars == <<built, dfa, flat, bits>>
vars == <<nfaVars, dfaVars, old, cur, at, input>>

M == INSTANCE RexMeaning

-----------------------------------------------------------------------------
(* What the expressions mean.                                              *)

\* The compiler stops at a ) that closes nothing (rex_compiler_expression
\* does not ask for the end); what follows it is not read.
Depth(text, n) ==
  Cardinality({i \in 1..n : text[i].kind = "("}) - Cardinality({i \in 1..n : text[i].kind = ")"})
Read(text) ==
  LET stray == {n \in DOMAIN text : Depth(text, n) < 0}
  IN  IF stray = {} THEN text
      ELSE SubSeq(text, 1, (CHOOSE n \in stray : \A m \in stray : n <= m) - 1)

\* The numbers of the expressions that match a text.
MatchedBy(text) == {e.userdata : e \in {x \in ToSet(exprs) :
                                          \E r \in x.readings : M!Matches(r, text)}}

-----------------------------------------------------------------------------

Init ==
  /\ nfa = <<>> /\ stack = <<>> /\ start = None /\ exprs = <<>> /\ adds = 0
  /\ tried = [text |-> <<>>, taken |-> FALSE]
  /\ built = FALSE /\ dfa = <<>> /\ flat = <<>> /\ bits = {}
  /\ old = {} /\ cur = StartState /\ at = StartState /\ input = <<>>

\* rex_db_addexpression, with the number of the call as userdata.
Add(text) ==
  /\ ~built /\ adds < MaxAdds
  /\ adds > 0 => {e.text : e \in ToSet(exprs)} \subseteq Others
  /\ \E added \in {AddExpression(nfa, stack, start, text, adds + 1)} :
      /\ adds' = adds + 1
      /\ nfa' = added.states /\ stack' = added.stack
      /\ tried' = [text |-> text, taken |-> added.uid # None]
      /\ start' = IF added.uid # None THEN added.uid ELSE start
      /\ exprs' = IF added.uid # None
                  THEN Append(exprs, [text |-> text, userdata |-> adds + 1,
                                      readings |-> M!Readings(Read(text))])
                  ELSE exprs
      /\ UNCHANGED <<dfaVars, old, cur, at, input>>

\* rex_db_createdfa, rex_db_todfa, rex_dfa_hash; the simulators are started
\* (rex_nfasimulator_start, rex_dfasimulator_start).
Build ==
  LET new == CreateDfa(nfa, start)
      newFlat == ToDfa(nfa, new)
  IN  /\ ~built /\ exprs # <<>>
      /\ built' = TRUE
      /\ dfa' = new /\ flat' = newFlat
      /\ bits' = StateHash(newFlat, StartState, HashBytes - 1, 0)
      /\ tried' = [text |-> <<>>, taken |-> FALSE]
      /\ old' = EClosure(nfa, {start}) /\ cur' = StartState /\ at' = StartState
      /\ UNCHANGED <<nfa, stack, start, exprs, adds, input>>

\* One more character, unless the runs are over.
Feed(c) ==
  /\ built /\ Len(input) < MaxInput /\ at # DeadState
  /\ old' = NfaNext(nfa, old, c)
  /\ cur' = DfaSimNext(dfa, cur, c)
  /\ at' = DfaNext(flat, at, c)
  /\ input' = Append(input, c)
  /\ UNCHANGED <<nfaVars, dfaVars>>

Next ==
  \/ \E text \in IF adds = 0 THEN Texts ELSE Others : Add(text)
  \/ Build
  \/ \E c \in Alphabet : Feed(c)

Spec == Init /\ [][Next]_vars

-----------------------------------------------------------------------------
(* Properties.                                                             *)

\* rex_db_addexpression takes exactly the texts the grammar can read, up to
\* a stray closing parenthesis.
TakesReadable == tried.text # <<>> => (tried.taken <=> M!Readings(Read(tried.text)) # {})

\* An expression that is refused leaves the automaton as it was, with the
\* start state it had, also when states were made and taken back; and refused
\* or taken it leaves no fragment for the next one to find (the stack belongs
\* to the compiler).
LeavesNothing ==
  [][adds' = adds + 1 => /\ stack' = <<>>
                         /\ ~tried'.taken => UNCHANGED <<nfa, start>>]_vars

\* At every point of the input the automaton with empty transitions, its
\* conversion and the flat form accept, and report, exactly the expressions
\* that match what was fed (nothing is reported of the empty input); and a
\* run is over only if no longer input can match.
RunsAgree ==
  built /\ input # <<>> =>
    LET matched == MatchedBy(input)
    IN  /\ {State(nfa, uid).userdata : uid \in Accepting(nfa, old)} = matched
        /\ AccUserdata(flat, at) = matched
        /\ State(flat.states, at).type = "accept" <=> matched # {}
        /\ State(dfa, cur).type = "accept" <=> matched # {}
        /\ at = DeadState => /\ old = {} /\ cur = DeadState
                             /\ \A c \in Alphabet : MatchedBy(Append(input, c)) = {}

\* A state's transitions are in order and there is one for every character:
\* what rex_dfasimulator_next and REX_DFA_NEXT take for granted.
TransitionsComplete ==
  built => \A uid \in 0..(Len(dfa) - 1) :
    LET trans == State(dfa, uid).trans
    IN  /\ trans[1].low = 0 /\ trans[Len(trans)].high = CharMax
        /\ \A i \in 1..(Len(trans) - 1) : trans[i + 1].low = trans[i].high + 1

\* A search finds the first place where a match can start that is not empty,
\* and its longest match there, whatever was in the filter before its bits
\* were set: rex_dfa_hash does not clear them.
ScanFindsFirst ==
  built /\ input = <<>> =>
    \A text \in ScanTexts, noise \in Noises :
      LET ends(i) == UNION {UNION {M!Ends(r, text, i) : r \in e.readings} : e \in ToSet(exprs)}
          places == {i \in 0..Len(text) : \E k \in ends(i) : k > i}
          first == CHOOSE i \in places : \A j \in places : i <= j
          last == CHOOSE k \in ends(first) : \A m \in ends(first) : k >= m
      IN  Scan(flat, bits \cup noise, text) =
            IF places = {} THEN [where |-> None, length |-> 0]
            ELSE [where |-> first, length |-> last - first]
=============================================================================
