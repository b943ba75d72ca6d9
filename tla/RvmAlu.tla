------------------------------- MODULE RvmAlu -------------------------------
(***************************************************************************)
(* The arithmetic of src/rvm/rvmcpu.c: words, and the flags of cpu->status *)
(* that an instruction leaves for the next one, an ADC, an SBC or a        *)
(* branch.  (The flag E is not modelled; it is another instruction set's.) *)
(*                                                                         *)
(* A word is a natural number below Modulus.  What the operands are is up  *)
(* to the program.  Instructions that leave the flags alone (MOV, ADD,     *)
(* SUB, INC, DEC, MUL, the loads) are steps that change nothing here.      *)
(*                                                                         *)
(* chain is what the program has in mind: a chain of ADDS, ADC, ADC, ...   *)
(* or of SUBS, SBC, SBC, ... adds or subtracts numbers of several words,   *)
(* the low one first, as src/tests/testmisc/asm-sbc.c does.                *)
(***************************************************************************)
EXTENDS Integers

CONSTANTS
  Half,     \* RVM_SIGN_BIT, half of the number of words
  MaxWords  \* bound: the words of a number

ASSUME AluAssumption == Half \in Nat \ {0} /\ MaxWords \in Nat

VARIABLES
  status,  \* the flags that are set
  last,    \* the instruction that has set them and its operands
  chain    \* op: of the chain; words: so far; weight: of the next word;
           \* owed: what its result is short of; exact: it has had no edge

aluvars == <<status, last, chain>>

Modulus == 2 * Half
Word == 0..(Modulus - 1)
Greatest == Modulus - 1

Negative(word) == word >= Half
Signed(word) == IF Negative(word) THEN word - Modulus ELSE word

\* What a word keeps of a number that is at most one modulus away.
Wrapped(n) ==
  IF n < 0 THEN n + Modulus ELSE IF n >= Modulus THEN n - Modulus ELSE n

-----------------------------------------------------------------------------
(* The flags.                                                              *)

Flag(flag, is) == IF is THEN {flag} ELSE {}

ZN(res) == Flag("Z", res = 0) \union Flag("N", Negative(res))

\* rvm_op_adds, rvm_op_adc, rvm_op_cmn.
AddsFlags(op2, op3, res) ==
  ZN(res)
    \union Flag("C", res < op2 \/ res < op3)
    \union Flag("V", /\ Negative(op2) <=> Negative(op3)
                     /\ ~(Negative(res) <=> Negative(op2)))

\* The V of a subtraction.  It is set when the operands have different signs
\* and their difference does fit.
SignKept(op2, op3, res) ==
  /\ ~(Negative(op2) <=> Negative(op3))
  /\ Negative(res) <=> Negative(op2)

\* Mutant: a difference that is zero counts as a borrow.
BadSubsFlags(op2, op3, res) ==
  ZN(res) \union Flag("C", res < op2)
          \union Flag("V", SignKept(op2, op3, res))

\* rvm_op_subs, rvm_op_sbc: "borrow = !carry".
SubsFlags(op2, op3, res) ==
  ZN(res) \union Flag("C", ~(res > op2))
          \union Flag("V", SignKept(op2, op3, res))

\* Mutant: a comparison has the carry of a subtraction.
BadCmpFlags(op1, op2, res) == SubsFlags(op1, op2, res)

\* rvm_op_cmp: here the carry is the borrow.
CmpFlags(op1, op2, res) ==
  ZN(res) \union Flag("C", op1 < op2)
          \union Flag("V", SignKept(op1, op2, res))

\* rvm_op_muls.
MulsFlags(op2, op3, res) == ZN(res) \union Flag("C", op2 # 0 /\ res \div op2 # op3)

\* The conditions of the branches, rvm_op_beq to rvm_op_bgre and rvm_op_bxeq
\* to rvm_op_bxgre.
Taken(condition) ==
  CASE condition = "EQ" -> "Z" \in status
    [] condition = "NEQ" -> "Z" \notin status
    [] condition = "LES" -> "N" \in status
    [] condition = "LEQ" -> "N" \in status \/ "Z" \in status
    [] condition = "GRE" -> "N" \notin status /\ "Z" \notin status
    [] condition = "GEQ" -> "N" \notin status \/ "Z" \in status

-----------------------------------------------------------------------------
(* Chains.                                                                 *)

NoChain == [op |-> "none", words |-> 0, weight |-> 1, owed |-> 0, exact |-> TRUE]

\* One word more: what was computed, of which res is kept; the carry after it
\* is wrong if it is an edge.
Goes(op, computed, res, edge) ==
  [op |-> op, words |-> chain.words + 1, weight |-> chain.weight * Modulus,
   owed |-> chain.owed + chain.weight * (computed - res),
   exact |-> chain.exact /\ ~edge]

Begins(op, computed, res) ==
  [op |-> op, words |-> 1, weight |-> Modulus, owed |-> computed - res,
   exact |-> TRUE]

Sets(op, op2, op3) == last' = [op |-> op, a |-> op2, b |-> op3]

-----------------------------------------------------------------------------
AluInit ==
  /\ status = {}
  /\ last = [op |-> "none", a |-> 0, b |-> 0]
  /\ chain = NoChain

Adds(op2, op3) ==
  LET res == Wrapped(op2 + op3)
  IN  /\ status' = AddsFlags(op2, op3, res)
      /\ Sets("ADDS", op2, op3)
      /\ chain' = Begins("add", op2 + op3, res)

Subs(op2, op3) ==
  LET res == Wrapped(op2 - op3)
  IN  /\ status' = SubsFlags(op2, op3, res)
      /\ Sets("SUBS", op2, op3)
      /\ chain' = Begins("sub", op2 - op3, res)

\* In a chain, or on its own with whatever carry there is.
Adc(op2, op3) ==
  LET carry == IF "C" \in status THEN 1 ELSE 0
      res == Wrapped(op2 + op3 + carry)
  IN  /\ chain.words < MaxWords
      /\ status' = AddsFlags(op2, op3, res)
      /\ Sets("ADC", op2, op3)
      /\ chain' = IF chain.op # "add" THEN NoChain
                  ELSE Goes("add", op2 + op3, res,
                            carry = 1 /\ op2 = Greatest /\ op3 = Greatest)

Sbc(op2, op3) ==
  LET borrow == IF "C" \in status THEN 0 ELSE 1
      res == Wrapped(op2 - op3 - borrow)
  IN  /\ chain.words < MaxWords
      /\ status' = SubsFlags(op2, op3, res)
      /\ Sets("SBC", op2, op3)
      /\ chain' = IF chain.op # "sub" THEN NoChain
                  ELSE Goes("sub", op2 - op3, res, borrow = 1 /\ op3 = Greatest)

Cmp(op1, op2) ==
  LET res == Wrapped(op1 - op2)
  IN  /\ status' = CmpFlags(op1, op2, res)
      /\ Sets("CMP", op1, op2)
      /\ chain' = NoChain

Cmn(op1, op2) ==
  LET res == Wrapped(op1 + op2)
  IN  /\ status' = AddsFlags(op1, op2, res)
      /\ Sets("CMN", op1, op2)
      /\ chain' = NoChain

Muls(op2, op3) ==
  LET res == (op2 * op3) % Modulus
  IN  /\ status' = MulsFlags(op2, op3, res)
      /\ Sets("MULS", op2, op3)
      /\ chain' = NoChain

\* MOVS, and the instructions that clear the other flags: AND, ORR, XOR, NOT,
\* BIC, TST, TEQ, LSL, ASR, DIVS, MODS, DVS, MLS, with some result.
Movs(res) ==
  /\ status' = ZN(res)
  /\ Sets("MOVS", res, 0)
  /\ chain' = NoChain

\* LSR and LSRS do not tell the sign.
Lsr(res) ==
  /\ status' = Flag("Z", res = 0)
  /\ Sets("LSR", res, 0)
  /\ chain' = NoChain

\* ROR: the carry is the bit that was rotated in last.
Ror(res) ==
  /\ status' = ZN(res) \union Flag("C", Negative(res))
  /\ Sets("ROR", res, 0)
  /\ chain' = NoChain

\* CFLAG: only some are cleared.
Cflag(flags) ==
  /\ status' = status \ flags
  /\ last' = [op |-> "CFLAG", a |-> 0, b |-> 0]
  /\ chain' = NoChain

AluStep ==
  \/ \E flags \in SUBSET {"Z", "N", "C", "V"} : Cflag(flags)
  \/ \E op1, op2 \in Word :
       \/ Adds(op1, op2) \/ Adc(op1, op2)
       \/ Subs(op1, op2) \/ Sbc(op1, op2)
       \/ Cmp(op1, op2) \/ Cmn(op1, op2)
       \/ Muls(op1, op2)
       \/ Movs(op1) \/ Lsr(op1) \/ Ror(op1)

AluSpec == AluInit /\ [][AluStep]_aluvars

-----------------------------------------------------------------------------
(* Properties.                                                             *)

\* Numbers of several words are added and subtracted word by word: what the
\* words of the result are short of is what the carry stands for, one unit of
\* the next word, or a borrow of one.  An edge spoils that: to add Greatest,
\* Greatest and a carry, or to subtract Greatest and a borrow, gives back an
\* operand, and rvmcpu.c takes the carry from comparing the result with it.
ChainExact ==
  chain.exact =>
    /\ chain.op = "add" => chain.owed = (IF "C" \in status THEN chain.weight ELSE 0)
    /\ chain.op = "sub" => chain.owed = (IF "C" \in status THEN 0 ELSE -chain.weight)

Difference == Signed(last.a) - Signed(last.b)
Total == Signed(last.a) + Signed(last.b)
Fits(n) == -Half <= n /\ n < Half

\* The branch after a comparison, a subtraction or a move goes the way of the
\* signed numbers, if their difference is a word; and V tells if it is, for
\* operands of different signs.  The carry tells the order of the unsigned
\* numbers, or that a sum or a product is not a word.
FlagsTell ==
  /\ last.op \in {"CMP", "SUBS"} =>
       /\ Fits(Difference) <=> \/ Negative(last.a) <=> Negative(last.b)
                               \/ "V" \in status
       /\ Fits(Difference) =>
            /\ Taken("LES") <=> Difference < 0
            /\ Taken("LEQ") <=> Difference <= 0
            /\ Taken("GRE") <=> Difference > 0
            /\ Taken("GEQ") <=> Difference >= 0
       /\ Taken("EQ") <=> last.a = last.b
       /\ Taken("NEQ") <=> last.a # last.b
  /\ last.op = "CMP" => ("C" \in status <=> last.a < last.b)
  /\ last.op = "SUBS" => ("C" \in status <=> last.a >= last.b)
  /\ last.op \in {"ADDS", "CMN"} =>
       /\ "V" \in status <=> ~Fits(Total)
       /\ "C" \in status <=> last.a + last.b \notin Word
  /\ last.op = "MULS" => ("C" \in status <=> last.a * last.b \notin Word)
  /\ last.op \in {"MOVS", "ROR"} =>
       /\ Taken("LES") <=> Signed(last.a) < 0
       /\ Taken("GRE") <=> Signed(last.a) > 0
=============================================================================
