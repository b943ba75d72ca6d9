-------------------------------- MODULE RvmProofs ------------------------------
(***************************************************************************)
(* Proofs about the virtual machine.                                       *)
(*                                                                         *)
(* RvmAlu, for words of any even number of values: the flags tell what     *)
(* they should, and numbers of any length are added and subtracted word by *)
(* word, as long as no edge comes up.                                      *)
(*                                                                         *)
(* RvmProgram, for instructions and words of any size and any bounds:      *)
(* names resolve to what they stand for, in scopes and in generated code.  *)
(***************************************************************************)
EXTENDS RvmAlu, RvmProgram, RArrayProofs

Types ==
  /\ chain.weight \in Int /\ chain.owed \in Int
  /\ chain.exact \in BOOLEAN

-----------------------------------------------------------------------------
(* Words.                                                                  *)

LEMMA Words ==
  /\ Modulus \in Nat /\ Modulus = 2 * Half /\ Half > 0
  /\ \A w \in Word : w \in Int /\ 0 <= w /\ w < Modulus
BY AluAssumption DEF Modulus, Word

\* A sum, with its carry: what is kept of it, and when it shows that it is
\* less than an operand.
LEMMA SumCarries ==
  ASSUME NEW a \in Word, NEW b \in Word, NEW c \in {0, 1},
         ~(c = 1 /\ a = Greatest /\ b = Greatest)
  PROVE  LET res == Wrapped(a + b + c)
         IN  /\ res \in Word
             /\ a + b + c - res = (IF res < a \/ res < b THEN Modulus ELSE 0)
BY Words, SMT DEF Wrapped, Greatest, Word

LEMMA DifferenceBorrows ==
  ASSUME NEW a \in Word, NEW b \in Word, NEW c \in {0, 1},
         ~(c = 1 /\ b = Greatest)
  PROVE  LET res == Wrapped(a - b - c)
         IN  /\ res \in Word
             /\ a - b - c - res = (IF ~(res > a) THEN 0 ELSE -Modulus)
BY Words, SMT DEF Wrapped, Greatest, Word

\* A product that is a word is kept, and divided by an operand it gives the
\* other one; one that is not is too large for what is kept of it.
LEMMA ProductCarries ==
  ASSUME NEW a \in Word, NEW b \in Word
  PROVE  (a # 0 /\ ((a * b) % Modulus) \div a # b) <=> a * b \notin Word
<1> DEFINE res == (a * b) % Modulus
<1>1. a \in Int /\ 0 <= a /\ b \in Int /\ 0 <= b /\ a * b \in Int /\ 0 <= a * b
  BY Words, SMT
<1>2. res \in Int /\ 0 <= res /\ res < Modulus
  BY <1>1, Words, SMT
<1>3. CASE a = 0
  <2>1. a * b = 0
    BY <1>1, <1>3, SMT
  <2> QED BY <2>1, <1>3, Words, SMT DEF Word
<1>4. CASE a # 0 /\ a * b \in Word
  <2>1. res = a * b
    BY <1>1, <1>4, Words, SMT DEF Word
  <2>2. (a * b) \div a = b
    BY <1>1, <1>4, SMT
  <2> QED BY <2>1, <2>2, <1>4
<1>5. CASE a # 0 /\ a * b \notin Word
  <2>1. res < a * b
    BY <1>1, <1>2, <1>5, Words, SMT DEF Word
  <2>2. res \div a # b
    BY <1>1, <1>2, <1>5, <2>1, SMT
  <2> QED BY <2>2, <1>5
<1> QED BY <1>3, <1>4, <1>5

-----------------------------------------------------------------------------
(* The flags.                                                              *)

LEMMA ZNTell ==
  ASSUME NEW res \in Word
  PROVE  /\ "Z" \in ZN(res) <=> res = 0
         /\ "N" \in ZN(res) <=> Negative(res)
         /\ "C" \notin ZN(res) /\ "V" \notin ZN(res)
BY DEF ZN, Flag

LEMMA AddsTells ==
  ASSUME NEW a \in Word, NEW b \in Word, NEW res \in Word
  PROVE  /\ "C" \in AddsFlags(a, b, res) <=> (res < a \/ res < b)
         /\ "V" \in AddsFlags(a, b, res)
              <=> (Negative(a) <=> Negative(b)) /\ ~(Negative(res) <=> Negative(a))
BY ZNTell, Zenon DEF AddsFlags, Flag

LEMMA SubsTells ==
  ASSUME NEW a \in Word, NEW b \in Word, NEW res \in Word
  PROVE  /\ \A flag \in {"Z", "N"} : flag \in SubsFlags(a, b, res) <=> flag \in ZN(res)
         /\ "C" \in SubsFlags(a, b, res) <=> ~(res > a)
         /\ "V" \in SubsFlags(a, b, res) <=> SignKept(a, b, res)
BY ZNTell, Zenon DEF SubsFlags, Flag

LEMMA CmpTells ==
  ASSUME NEW a \in Word, NEW b \in Word, NEW res \in Word
  PROVE  /\ \A flag \in {"Z", "N"} : flag \in CmpFlags(a, b, res) <=> flag \in ZN(res)
         /\ "C" \in CmpFlags(a, b, res) <=> a < b
         /\ "V" \in CmpFlags(a, b, res) <=> SignKept(a, b, res)
BY ZNTell, Zenon DEF CmpFlags, Flag

LEMMA MulsTells ==
  ASSUME NEW a \in Word, NEW b \in Word, NEW res \in Word
  PROVE  "C" \in MulsFlags(a, b, res) <=> (a # 0 /\ res \div a # b)
BY ZNTell, Zenon DEF MulsFlags, Flag

-----------------------------------------------------------------------------
(* Chains.                                                                 *)

\* The carry before a word, times the weight of the word, and what the word
\* is short of, make the carry after it, times the weight of the next one.
LEMMA AddGoes ==
  ASSUME NEW w \in Int, NEW owed \in Int, NEW n \in Int, NEW c \in {0, 1},
         NEW after \in BOOLEAN,
         owed = (IF c = 1 THEN w ELSE 0),
         n + c = (IF after THEN Modulus ELSE 0)
  PROVE  owed + w * n = (IF after THEN w * Modulus ELSE 0)
<1>1. Modulus \in Int
  BY Words
<1>2. CASE c = 0
  <2>1. n = (IF after THEN Modulus ELSE 0)
    BY <1>1, <1>2, SMT
  <2> QED BY <1>1, <1>2, <2>1, SMT
<1>3. CASE c = 1
  <2>1. n = (IF after THEN Modulus - 1 ELSE -1)
    BY <1>1, <1>3, SMT
  <2>2. w * (Modulus - 1) = w * Modulus - w /\ w * (-1) = -w /\ w * Modulus \in Int
    BY <1>1, SMT
  <2> QED BY <1>1, <1>3, <2>1, <2>2, SMT
<1> QED BY <1>2, <1>3

LEMMA SubGoes ==
  ASSUME NEW w \in Int, NEW owed \in Int, NEW n \in Int, NEW c \in {0, 1},
         NEW after \in BOOLEAN,
         owed = (IF c = 1 THEN -w ELSE 0),
         n - c = (IF after THEN 0 ELSE -Modulus)
  PROVE  /\ after => owed + w * n = 0
         /\ ~after => owed + w * n = -(w * Modulus)
<1>1. Modulus \in Int
  BY Words
<1>2. CASE c = 0
  <2>1. n = (IF after THEN 0 ELSE -Modulus)
    BY <1>1, <1>2, SMT
  <2>2. w * (-Modulus) = -(w * Modulus) /\ w * 0 = 0
    BY <1>1, SMT
  <2> QED BY <1>1, <1>2, <2>1, <2>2, SMT
<1>3. CASE c = 1
  <2>1. n = (IF after THEN 1 ELSE 1 - Modulus)
    BY <1>1, <1>3, SMT
  <2>2. w * (1 - Modulus) = w - w * Modulus /\ w * 1 = w /\ w * Modulus \in Int
    BY <1>1, SMT
  <2> QED BY <1>1, <1>3, <2>1, <2>2, SMT
<1> QED BY <1>2, <1>3

IInv == Types /\ ChainExact

LEMMA NoChainExact ==
  ASSUME chain' = NoChain
  PROVE  IInv'
BY DEF IInv, Types, ChainExact, NoChain

\* What a chain is after a word, field by field.
LEMMA BeginsIs ==
  ASSUME NEW op, NEW computed, NEW res, chain' = Begins(op, computed, res)
  PROVE  /\ chain'.op = op /\ chain'.weight = Modulus
         /\ chain'.owed = computed - res /\ chain'.exact = TRUE
BY DEF Begins

LEMMA GoesIs ==
  ASSUME NEW op, NEW computed, NEW res, NEW edge, chain' = Goes(op, computed, res, edge)
  PROVE  /\ chain'.op = op /\ chain'.weight = chain.weight * Modulus
         /\ chain'.owed = chain.owed + chain.weight * (computed - res)
         /\ chain'.exact = (chain.exact /\ ~edge)
BY DEF Goes

LEMMA AddHolds ==
  ASSUME NEW carry \in BOOLEAN, "C" \in status' <=> carry,
         chain'.op = "add", chain'.weight \in Int, chain'.owed \in Int,
         chain'.exact \in BOOLEAN,
         chain'.exact => chain'.owed = (IF carry THEN chain'.weight ELSE 0)
  PROVE  IInv'
<1>1. chain'.op # "sub"
  OBVIOUS
<1>2. Types'
  BY DEF Types
<1>3. ChainExact'
  <2>1. CASE carry
    BY <2>1, <1>1 DEF ChainExact
  <2>2. CASE ~carry
    BY <2>2, <1>1 DEF ChainExact
  <2> QED BY <2>1, <2>2
<1> QED BY <1>2, <1>3 DEF IInv

LEMMA SubHolds ==
  ASSUME NEW carry \in BOOLEAN, "C" \in status' <=> carry,
         chain'.op = "sub", chain'.weight \in Int, chain'.owed \in Int,
         chain'.exact \in BOOLEAN,
         chain'.exact => chain'.owed = (IF carry THEN 0 ELSE -chain'.weight)
  PROVE  IInv'
<1>1. chain'.op # "add"
  OBVIOUS
<1>2. Types'
  BY DEF Types
<1>3. ChainExact'
  <2>1. CASE carry
    BY <2>1, <1>1 DEF ChainExact
  <2>2. CASE ~carry
    BY <2>2, <1>1 DEF ChainExact
  <2> QED BY <2>1, <2>2
<1> QED BY <1>2, <1>3 DEF IInv

LEMMA AddsExact ==
  ASSUME NEW a \in Word, NEW b \in Word, Adds(a, b)
  PROVE  IInv'
<1> DEFINE total == a + b
           res == Wrapped(a + b)
           less == res < a \/ res < b
<1>1. a + b + 0 = a + b /\ a + b \in Int
  BY Words, SMT
<1>2. res \in Word /\ total - res = (IF less THEN Modulus ELSE 0)
  BY <1>1, SumCarries, Words
<1>3. "C" \in status' <=> less
  BY <1>2, AddsTells DEF Adds
<1>4. chain' = Begins("add", total, res)
  BY DEF Adds
<1>5. less \in BOOLEAN
  OBVIOUS
<1> HIDE DEF res, less, total
<1>6. /\ chain'.op = "add" /\ chain'.weight = Modulus /\ chain'.exact = TRUE
      /\ chain'.owed = total - res
  BY <1>4, BeginsIs, Zenon
<1>7. /\ chain'.weight \in Int /\ chain'.owed \in Int
      /\ chain'.owed = (IF less THEN chain'.weight ELSE 0)
  BY <1>2, <1>6, Words
<1> QED BY <1>3, <1>5, <1>6, <1>7, AddHolds

LEMMA SubsExact ==
  ASSUME NEW a \in Word, NEW b \in Word, Subs(a, b)
  PROVE  IInv'
<1> DEFINE res == Wrapped(a - b)
           less == ~(res > a)
<1>1. a - b - 0 = a - b /\ a - b \in Int
  BY Words, SMT
<1>2. res \in Word /\ a - b - res = (IF less THEN 0 ELSE -Modulus)
  BY <1>1, DifferenceBorrows, Words
<1>3. "C" \in status' <=> less
  BY <1>2, SubsTells DEF Subs
<1>4. chain' = Begins("sub", a - b, res)
  BY DEF Subs
<1>5. less \in BOOLEAN
  OBVIOUS
<1> HIDE DEF res, less
<1>6. /\ chain'.op = "sub" /\ chain'.weight = Modulus /\ chain'.exact = TRUE
      /\ chain'.owed = a - b - res
  BY <1>4, BeginsIs, Zenon
<1>7. /\ chain'.weight \in Int /\ chain'.owed \in Int
      /\ chain'.owed = (IF less THEN 0 ELSE -chain'.weight)
  BY <1>2, <1>6, Words
<1> QED BY <1>3, <1>5, <1>6, <1>7, SubHolds

LEMMA AdcExact ==
  ASSUME NEW a \in Word, NEW b \in Word, IInv, Adc(a, b)
  PROVE  IInv'
<1> DEFINE total == a + b
           carry == IF "C" \in status THEN 1 ELSE 0
           res == Wrapped(a + b + carry)
           less == res < a \/ res < b
           edge == carry = 1 /\ a = Greatest /\ b = Greatest
           n == total - res
<1>1. carry \in {0, 1} /\ edge \in BOOLEAN /\ less \in BOOLEAN
  OBVIOUS
<1>2. a + b \in Int /\ a + b + carry \in Int
  BY <1>1, Words, SMT
<1>3. res \in Word
  BY <1>1, Words, SMT DEF Wrapped, Word
<1>4. n \in Int /\ n + carry = a + b + carry - res
  BY <1>1, <1>3, Words, SMT
<1>5. ~edge => n + carry = (IF less THEN Modulus ELSE 0)
  BY <1>1, <1>4, SumCarries
<1>6. "C" \in status' <=> less
  BY <1>3, AddsTells DEF Adc
<1>7. CASE chain.op # "add"
  BY <1>7, NoChainExact DEF Adc
<1>8. CASE chain.op = "add"
  <2>1. chain' = Goes("add", total, res, edge)
    BY <1>8 DEF Adc
  <2> HIDE DEF total
  <2>2. chain.weight \in Int /\ chain.owed \in Int /\ chain.exact \in BOOLEAN
    BY DEF IInv, Types
  <2>3. /\ chain'.op = "add" /\ chain'.weight = chain.weight * Modulus
        /\ chain'.owed = chain.owed + chain.weight * n
        /\ chain'.exact = (chain.exact /\ ~edge)
    BY <2>1, GoesIs, Zenon
  <2>4. chain.weight * Modulus \in Int /\ chain.owed + chain.weight * n \in Int
    BY <1>4, <2>2, Words, SMT
  <2>5. ASSUME chain.exact, ~edge
        PROVE  chain.owed + chain.weight * n
                 = (IF less THEN chain.weight * Modulus ELSE 0)
    <3>1. chain.owed = (IF carry = 1 THEN chain.weight ELSE 0)
      BY <1>8, <2>5 DEF IInv, ChainExact
    <3> HIDE DEF carry, n, less
    <3>2. n + carry = (IF less THEN Modulus ELSE 0)
      BY <1>5, <2>5
    <3>3. CASE less
      BY <1>1, <1>4, <2>2, <3>1, <3>2, <3>3, AddGoes
    <3>4. CASE ~less
      BY <1>1, <1>4, <2>2, <3>1, <3>2, <3>4, AddGoes
    <3> QED BY <1>1, <3>3, <3>4
  <2> HIDE DEF res, n, less, edge
  <2>6. chain'.exact \in BOOLEAN
    BY <1>1, <2>2, <2>3, Zenon
  <2>7. chain'.exact => chain'.owed = (IF less THEN chain'.weight ELSE 0)
    BY <1>1, <2>2, <2>3, <2>5, Zenon
  <2> QED BY <1>1, <1>6, <2>3, <2>4, <2>6, <2>7, AddHolds
<1> QED BY <1>7, <1>8

LEMMA SbcExact ==
  ASSUME NEW a \in Word, NEW b \in Word, IInv, Sbc(a, b)
  PROVE  IInv'
<1> DEFINE borrow == IF "C" \in status THEN 0 ELSE 1
           res == Wrapped(a - b - borrow)
           less == ~(res > a)
           edge == borrow = 1 /\ b = Greatest
           n == a - b - res
<1>1. borrow \in {0, 1} /\ edge \in BOOLEAN /\ less \in BOOLEAN
  OBVIOUS
<1>2. a - b \in Int /\ a - b - borrow \in Int
  BY <1>1, Words, SMT
<1>3. res \in Word
  BY <1>1, Words, SMT DEF Wrapped, Word
<1>4. n \in Int /\ n - borrow = a - b - borrow - res
  BY <1>1, <1>3, Words, SMT
<1>5. ~edge => n - borrow = (IF less THEN 0 ELSE -Modulus)
  BY <1>1, <1>4, DifferenceBorrows
<1>6. "C" \in status' <=> less
  BY <1>3, SubsTells DEF Sbc
<1>7. CASE chain.op # "sub"
  BY <1>7, NoChainExact DEF Sbc
<1>8. CASE chain.op = "sub"
  <2>1. chain' = Goes("sub", a - b, res, edge)
    BY <1>8 DEF Sbc
  <2>2. chain.weight \in Int /\ chain.owed \in Int /\ chain.exact \in BOOLEAN
    BY DEF IInv, Types
  <2>3. /\ chain'.op = "sub" /\ chain'.weight = chain.weight * Modulus
        /\ chain'.owed = chain.owed + chain.weight * n
        /\ chain'.exact = (chain.exact /\ ~edge)
    BY <2>1, GoesIs, Zenon
  <2>4. chain.weight * Modulus \in Int /\ chain.owed + chain.weight * n \in Int
    BY <1>4, <2>2, Words, SMT
  <2>5. ASSUME chain.exact, ~edge
        PROVE  chain.owed + chain.weight * n
                 = (IF less THEN 0 ELSE -(chain.weight * Modulus))
    <3>1. chain.owed = (IF borrow = 1 THEN -chain.weight ELSE 0)
      BY <1>8, <2>5 DEF IInv, ChainExact
    <3> HIDE DEF borrow, n, less
    <3>2. n - borrow = (IF less THEN 0 ELSE -Modulus)
      BY <1>5, <2>5
    <3>3. CASE less
      BY <1>1, <1>4, <2>2, <3>1, <3>2, <3>3, SubGoes
    <3>4. CASE ~less
      BY <1>1, <1>4, <2>2, <3>1, <3>2, <3>4, SubGoes, ZenonT(60)
    <3> QED BY <1>1, <3>3, <3>4
  <2> HIDE DEF res, n, less, edge
  <2>6. chain'.exact \in BOOLEAN
    BY <1>1, <2>2, <2>3, Zenon
  <2>7. chain'.exact => chain'.owed = (IF less THEN 0 ELSE -chain'.weight)
    BY <1>1, <2>2, <2>3, <2>5, Zenon
  <2> QED BY <1>1, <1>6, <2>3, <2>4, <2>6, <2>7, SubHolds
<1> QED BY <1>7, <1>8

\* Numbers of any length, added or subtracted word by word, have the carry or
\* the borrow they should after every word (rvm_op_adds, rvm_op_adc,
\* rvm_op_subs, rvm_op_sbc), whatever the size of a word.
THEOREM ChainCorrect == AluSpec => []ChainExact
<1>1. AluInit => IInv
  BY DEF AluInit, NoChain, IInv, Types, ChainExact
<1>2. IInv /\ [AluStep]_aluvars => IInv'
  <2> SUFFICES ASSUME IInv, [AluStep]_aluvars
               PROVE  IInv'
    OBVIOUS
  <2>1. CASE UNCHANGED aluvars
    BY <2>1 DEF aluvars, IInv, Types, ChainExact
  <2>2. ASSUME NEW a \in Word, NEW b \in Word,
               \/ Adds(a, b) \/ Adc(a, b)
               \/ Subs(a, b) \/ Sbc(a, b)
               \/ Cmp(a, b) \/ Cmn(a, b)
               \/ Muls(a, b)
               \/ Movs(a) \/ Lsr(a) \/ Ror(a)
        PROVE  IInv'
    <3>1. CASE Adds(a, b)
      BY <3>1, AddsExact
    <3>2. CASE Adc(a, b)
      BY <3>2, AdcExact
    <3>3. CASE Subs(a, b)
      BY <3>3, SubsExact
    <3>4. CASE Sbc(a, b)
      BY <3>4, SbcExact
    <3>5. CASE Cmp(a, b) \/ Cmn(a, b) \/ Muls(a, b) \/ Movs(a) \/ Lsr(a) \/ Ror(a)
      BY <3>5, NoChainExact DEF Cmp, Cmn, Muls, Movs, Lsr, Ror
    <3> QED BY <2>2, <3>1, <3>2, <3>3, <3>4, <3>5
  <2>3. ASSUME NEW flags, Cflag(flags)
        PROVE  IInv'
    BY <2>3, NoChainExact DEF Cflag
  <2> QED BY <2>1, <2>2, <2>3 DEF AluStep
<1>3. IInv => ChainExact
  BY DEF IInv
<1> QED BY <1>1, <1>2, <1>3, PTL DEF AluSpec

-----------------------------------------------------------------------------
(* What the flags say.                                                     *)

\* The sign of a difference that is kept, and whether it fits.
LEMMA Differs ==
  ASSUME NEW a \in Word, NEW b \in Word
  PROVE  LET res == Wrapped(a - b)
             d == Signed(a) - Signed(b)
         IN  /\ res \in Word /\ d \in Int
             /\ res = 0 <=> a = b
             /\ d = 0 <=> a = b
             /\ Fits(d) <=> (Negative(a) <=> Negative(b)) \/ SignKept(a, b, res)
             /\ Fits(d) => (Negative(res) <=> d < 0)
             /\ ~(res > a) <=> a >= b
<1> DEFINE res == Wrapped(a - b)
           d == Signed(a) - Signed(b)
<1>1. /\ a \in Int /\ 0 <= a /\ a < 2 * Half
      /\ b \in Int /\ 0 <= b /\ b < 2 * Half
      /\ Half \in Int /\ Half > 0
  BY Words, AluAssumption, SMT
<1>2. res = (IF a < b THEN a - b + 2 * Half ELSE a - b)
  BY <1>1, Words, SMT DEF Wrapped
<1>3. res \in Word /\ (res = 0 <=> a = b) /\ (~(res > a) <=> a >= b)
  BY <1>1, <1>2, Words, SMT DEF Word
<1>4. /\ Signed(a) = (IF a >= Half THEN a - 2 * Half ELSE a)
      /\ Signed(b) = (IF b >= Half THEN b - 2 * Half ELSE b)
  BY <1>1, Words, SMT DEF Signed, Negative
<1>5. /\ Negative(a) <=> a >= Half
      /\ Negative(b) <=> b >= Half
      /\ Negative(res) <=> res >= Half
  BY DEF Negative
<1>6. d = (IF a >= Half THEN a - 2 * Half ELSE a)
            - (IF b >= Half THEN b - 2 * Half ELSE b)
  BY <1>4
<1> HIDE DEF res, d
<1>7. d \in Int /\ (d = 0 <=> a = b)
  BY <1>1, <1>6, SMT
<1>8. Fits(d) => (Negative(res) <=> d < 0)
  BY <1>1, <1>2, <1>5, <1>6, SMT DEF Fits
<1>9. Fits(d) <=> (Negative(a) <=> Negative(b)) \/ SignKept(a, b, res)
  <2>1. SignKept(a, b, res) <=> ~(a >= Half <=> b >= Half) /\ (res >= Half <=> a >= Half)
    BY <1>5, Zenon DEF SignKept
  <2> QED BY <1>1, <1>2, <1>5, <1>6, <2>1, SMT DEF Fits
<1> QED BY <1>3, <1>7, <1>8, <1>9, Zenon DEF res, d

LEMMA Sums ==
  ASSUME NEW a \in Word, NEW b \in Word
  PROVE  LET res == Wrapped(a + b)
             d == Signed(a) + Signed(b)
         IN  /\ res \in Word /\ d \in Int
             /\ (res < a \/ res < b) <=> a + b \notin Word
             /\ ~Fits(d) <=> (Negative(a) <=> Negative(b)) /\ ~(Negative(res) <=> Negative(a))
<1> DEFINE res == Wrapped(a + b)
           d == Signed(a) + Signed(b)
<1>1. /\ a \in Int /\ 0 <= a /\ a < 2 * Half
      /\ b \in Int /\ 0 <= b /\ b < 2 * Half
      /\ Half \in Int /\ Half > 0
  BY Words, AluAssumption, SMT
<1>2. res = (IF a + b >= 2 * Half THEN a + b - 2 * Half ELSE a + b)
  BY <1>1, Words, SMT DEF Wrapped
<1>3. res \in Word /\ ((res < a \/ res < b) <=> a + b \notin Word)
  BY <1>1, <1>2, Words, SMT DEF Word
<1>4. /\ Signed(a) = (IF a >= Half THEN a - 2 * Half ELSE a)
      /\ Signed(b) = (IF b >= Half THEN b - 2 * Half ELSE b)
  BY <1>1, Words, SMT DEF Signed, Negative
<1>5. /\ Negative(a) <=> a >= Half
      /\ Negative(b) <=> b >= Half
      /\ Negative(res) <=> res >= Half
  BY DEF Negative
<1>6. d = (IF a >= Half THEN a - 2 * Half ELSE a)
            + (IF b >= Half THEN b - 2 * Half ELSE b)
  BY <1>4
<1> HIDE DEF res, d
<1>7. d \in Int
  BY <1>1, <1>6, SMT
<1>8. ~Fits(d) <=> (Negative(a) <=> Negative(b)) /\ ~(Negative(res) <=> Negative(a))
  BY <1>1, <1>2, <1>5, <1>6, SMT DEF Fits
<1> QED BY <1>3, <1>7, <1>8, Zenon DEF res, d

LEMMA Moved ==
  ASSUME NEW a \in Word
  PROVE  /\ Signed(a) < 0 <=> Negative(a)
         /\ Signed(a) > 0 <=> (~Negative(a) /\ a # 0)
BY Words, SMT DEF Word, Signed, Negative

\* One instruction at a time; the carry of a SUBS is that of a CMP, inverted.
LEMMA DifferenceTold ==
  ASSUME NEW a \in Word, NEW b \in Word,
         last'.a = a, last'.b = b,
         LET res == Wrapped(a - b)
         IN  /\ "Z" \in status' <=> "Z" \in ZN(res)
             /\ "N" \in status' <=> "N" \in ZN(res)
             /\ "V" \in status' <=> SignKept(a, b, res)
  PROVE  (/\ Fits(Difference) <=> \/ Negative(last.a) <=> Negative(last.b)
                                  \/ "V" \in status
          /\ Fits(Difference) =>
               /\ Taken("LES") <=> Difference < 0
               /\ Taken("LEQ") <=> Difference <= 0
               /\ Taken("GRE") <=> Difference > 0
               /\ Taken("GEQ") <=> Difference >= 0
          /\ Taken("EQ") <=> last.a = last.b
          /\ Taken("NEQ") <=> last.a # last.b)'
<1> DEFINE res == Wrapped(a - b)
           d == Signed(a) - Signed(b)
<1>1. /\ d \in Int /\ (res = 0 <=> a = b) /\ (d = 0 <=> a = b)
      /\ Fits(d) <=> (Negative(a) <=> Negative(b)) \/ SignKept(a, b, res)
      /\ Fits(d) => (Negative(res) <=> d < 0)
  BY Differs
<1>2. ("Z" \in status' <=> res = 0) /\ ("N" \in status' <=> Negative(res))
  BY Differs, ZNTell
<1>3. Difference' = d
  BY DEF Difference
<1>4. "V" \in status' <=> SignKept(a, b, res)
  OBVIOUS
<1> HIDE DEF res, d
<1>5. /\ Taken("LES")' <=> Negative(res)
      /\ Taken("LEQ")' <=> Negative(res) \/ res = 0
      /\ Taken("GRE")' <=> ~Negative(res) /\ res # 0
      /\ Taken("GEQ")' <=> ~Negative(res) \/ res = 0
      /\ Taken("EQ")' <=> res = 0
      /\ Taken("NEQ")' <=> res # 0
  BY <1>2 DEF Taken
<1>6. d <= 0 <=> (d < 0 \/ d = 0)
  BY <1>1, SMT
<1>7. d > 0 <=> (~(d < 0) /\ d # 0)
  BY <1>1, SMT
<1>8. d >= 0 <=> (~(d < 0) \/ d = 0)
  BY <1>1, SMT
<1> QED BY <1>1, <1>3, <1>4, <1>5, <1>6, <1>7, <1>8, Zenon

LEMMA SumTold ==
  ASSUME NEW a \in Word, NEW b \in Word,
         last'.op \in {"ADDS", "CMN"}, last'.a = a, last'.b = b,
         status' = AddsFlags(a, b, Wrapped(a + b))
  PROVE  FlagsTell'
<1> DEFINE res == Wrapped(a + b)
           d == Signed(a) + Signed(b)
<1>1. /\ res \in Word
      /\ (res < a \/ res < b) <=> a + b \notin Word
      /\ ~Fits(d) <=> (Negative(a) <=> Negative(b)) /\ ~(Negative(res) <=> Negative(a))
  BY Sums
<1>2. /\ "C" \in status' <=> (res < a \/ res < b)
      /\ "V" \in status' <=> (Negative(a) <=> Negative(b)) /\ ~(Negative(res) <=> Negative(a))
  BY <1>1, AddsTells
<1>3. Total' = d
  BY DEF Total
<1>4. (last.a + last.b)' = a + b
  OBVIOUS
<1> HIDE DEF res, d
<1>5. last'.op \notin {"CMP", "SUBS", "MULS", "MOVS", "ROR"}
  OBVIOUS
<1>6. /\ "V" \in status' <=> ~Fits(Total)'
      /\ "C" \in status' <=> (last.a + last.b \notin Word)'
  BY <1>1, <1>2, <1>3, <1>4
<1> QED BY <1>5, <1>6 DEF FlagsTell

LEMMA MoveTold ==
  ASSUME NEW a \in Word,
         last'.op \in {"MOVS", "ROR"}, last'.a = a,
         "Z" \in status' <=> a = 0, "N" \in status' <=> Negative(a)
  PROVE  FlagsTell'
<1>1. last'.op \notin {"CMP", "SUBS", "ADDS", "CMN", "MULS"}
  OBVIOUS
<1>2. /\ Taken("LES")' <=> Negative(a)
      /\ Taken("GRE")' <=> ~Negative(a) /\ a # 0
  BY DEF Taken
<1>3. /\ Taken("LES")' <=> (Signed(last.a) < 0)'
      /\ Taken("GRE")' <=> (Signed(last.a) > 0)'
  BY <1>2, Moved
<1> QED BY <1>1, <1>3 DEF FlagsTell

\* The flags that ADDS, CMN, SUBS, CMP, MULS, the moves and ROR leave tell the
\* branch or the chain after them what they should (rvm_op_adds, rvm_op_cmn,
\* rvm_op_subs, rvm_op_cmp, rvm_op_muls, rvm_op_movs, rvm_op_ror).
THEOREM FlagsCorrect == AluSpec => []FlagsTell
<1>1. AluInit => FlagsTell
  BY DEF AluInit, FlagsTell
<1>2. FlagsTell /\ [AluStep]_aluvars => FlagsTell'
  <2> SUFFICES ASSUME FlagsTell, [AluStep]_aluvars
               PROVE  FlagsTell'
    OBVIOUS
  <2>1. CASE UNCHANGED aluvars
    BY <2>1 DEF aluvars, FlagsTell, Taken, Difference, Total
  <2>2. ASSUME NEW a \in Word, NEW b \in Word,
               \/ Adds(a, b) \/ Adc(a, b)
               \/ Subs(a, b) \/ Sbc(a, b)
               \/ Cmp(a, b) \/ Cmn(a, b)
               \/ Muls(a, b)
               \/ Movs(a) \/ Lsr(a) \/ Ror(a)
        PROVE  FlagsTell'
    <3>1. CASE Adds(a, b)
      <4>1. last'.op = "ADDS" /\ last'.a = a /\ last'.b = b
        BY <3>1 DEF Adds, Sets
      <4>2. status' = AddsFlags(a, b, Wrapped(a + b))
        BY <3>1 DEF Adds
      <4> QED BY <4>1, <4>2, SumTold
    <3>2. CASE Adc(a, b)
      <4>1. last'.op = "ADC"
        BY <3>2 DEF Adc, Sets
      <4> QED BY <4>1 DEF FlagsTell
    <3>3. CASE Subs(a, b)
      <4> DEFINE res == Wrapped(a - b)
      <4>1. last'.op = "SUBS" /\ last'.a = a /\ last'.b = b
        BY <3>3 DEF Subs, Sets
      <4>2. status' = SubsFlags(a, b, res)
        BY <3>3 DEF Subs
      <4>3. res \in Word /\ (~(res > a) <=> a >= b)
        BY Differs
      <4>4. /\ "Z" \in status' <=> "Z" \in ZN(res)
            /\ "N" \in status' <=> "N" \in ZN(res)
            /\ "V" \in status' <=> SignKept(a, b, res)
            /\ "C" \in status' <=> a >= b
        BY <4>2, <4>3, SubsTells
      <4>5. /\ last'.op \notin {"CMP", "ADDS", "CMN", "MULS", "MOVS", "ROR"}
            /\ "C" \in status' <=> (last.a >= last.b)'
        BY <4>1, <4>4
      <4> QED BY <4>1, <4>4, <4>5, DifferenceTold, Zenon DEF FlagsTell
    <3>4. CASE Sbc(a, b)
      <4>1. last'.op = "SBC"
        BY <3>4 DEF Sbc, Sets
      <4> QED BY <4>1 DEF FlagsTell
    <3>5. CASE Cmp(a, b)
      <4> DEFINE res == Wrapped(a - b)
      <4>1. last'.op = "CMP" /\ last'.a = a /\ last'.b = b
        BY <3>5 DEF Cmp, Sets
      <4>2. status' = CmpFlags(a, b, res)
        BY <3>5 DEF Cmp
      <4>3. res \in Word
        BY Differs
      <4>4. /\ "Z" \in status' <=> "Z" \in ZN(res)
            /\ "N" \in status' <=> "N" \in ZN(res)
            /\ "V" \in status' <=> SignKept(a, b, res)
            /\ "C" \in status' <=> a < b
        BY <4>2, <4>3, CmpTells
      <4>5. /\ last'.op \notin {"SUBS", "ADDS", "CMN", "MULS", "MOVS", "ROR"}
            /\ "C" \in status' <=> (last.a < last.b)'
        BY <4>1, <4>4
      <4> QED BY <4>1, <4>4, <4>5, DifferenceTold, Zenon DEF FlagsTell
    <3>6. CASE Cmn(a, b)
      <4>1. last'.op = "CMN" /\ last'.a = a /\ last'.b = b
        BY <3>6 DEF Cmn, Sets
      <4>2. status' = AddsFlags(a, b, Wrapped(a + b))
        BY <3>6 DEF Cmn
      <4> QED BY <4>1, <4>2, SumTold
    <3>7. CASE Muls(a, b)
      <4> DEFINE res == (a * b) % Modulus
      <4>1. last'.op = "MULS" /\ last'.a = a /\ last'.b = b
        BY <3>7 DEF Muls, Sets
      <4>2. status' = MulsFlags(a, b, res)
        BY <3>7 DEF Muls
      <4>3. res \in Word
        BY Words, SMT DEF Word
      <4>4. "C" \in status' <=> a * b \notin Word
        BY <4>2, <4>3, MulsTells, ProductCarries
      <4>5. /\ last'.op \notin {"CMP", "SUBS", "ADDS", "CMN", "MOVS", "ROR"}
            /\ "C" \in status' <=> (last.a * last.b \notin Word)'
        BY <4>1, <4>4
      <4> QED BY <4>5, Zenon DEF FlagsTell
    <3>8. CASE Movs(a)
      <4>1. last'.op = "MOVS" /\ last'.a = a
        BY <3>8 DEF Movs, Sets
      <4>2. ("Z" \in status' <=> a = 0) /\ ("N" \in status' <=> Negative(a))
        BY <3>8, ZNTell DEF Movs
      <4> QED BY <4>1, <4>2, MoveTold
    <3>9. CASE Lsr(a)
      <4>1. last'.op = "LSR"
        BY <3>9 DEF Lsr, Sets
      <4> QED BY <4>1 DEF FlagsTell
    <3>10. CASE Ror(a)
      <4>1. last'.op = "ROR" /\ last'.a = a
        BY <3>10 DEF Ror, Sets
      <4>2. ("Z" \in status' <=> a = 0) /\ ("N" \in status' <=> Negative(a))
        BY <3>10, ZNTell DEF Ror, Flag
      <4> QED BY <4>1, <4>2, MoveTold
    <3> QED BY <2>2, <3>1, <3>2, <3>3, <3>4, <3>5, <3>6, <3>7, <3>8, <3>9, <3>10
  <2>3. ASSUME NEW flags, Cflag(flags)
        PROVE  FlagsTell'
    <3>1. last'.op = "CFLAG"
      BY <2>3 DEF Cflag
    <3> QED BY <3>1 DEF FlagsTell
  <2> QED BY <2>1, <2>2, <2>3 DEF AluStep
<1> QED BY <1>1, <1>2, PTL DEF AluSpec


-----------------------------------------------------------------------------
(* Scopes.                                                                 *)

\* The entries of the k-th scope are behind the first so many, up to so many.
FirstAfter(k) == IF k = 1 THEN 0 ELSE scopestack[k - 1]
UpTo(k) == IF k = Len(frames) THEN Len(varstack) ELSE scopestack[k]
EntriesOf(k) == (FirstAfter(k) + 1)..UpTo(k)

\* An entry of the scope is the last of its name.
LastOfName(k, name, i) ==
  /\ i \in EntriesOf(k) /\ varstack[i].name = name
  /\ \A j \in EntriesOf(k) : varstack[j].name = name => j <= i

ScopesTyped ==
  /\ varstack \in Seq([name : ScopeNames, value : {1, 2}])
  /\ scopestack \in Seq(Nat)
  /\ frames \in Seq(UNION {[N -> {1, 2}] : N \in SUBSET ScopeNames})
  /\ Len(frames) = Len(scopestack) + 1

ScopesOrdered ==
  /\ \A k \in 1..Len(scopestack) : scopestack[k] <= Len(varstack)
  /\ \A j, k \in 1..Len(scopestack) : j < k => scopestack[j] <= scopestack[k]

FrameTrue(k) ==
  \A name \in ScopeNames :
    IF name \in DOMAIN frames[k]
    THEN \E i \in EntriesOf(k) : LastOfName(k, name, i) /\ varstack[i].value = frames[k][name]
    ELSE \A i \in EntriesOf(k) : varstack[i].name # name

ScopeInv == ScopesTyped /\ ScopesOrdered /\ \A k \in 1..Len(frames) : FrameTrue(k)

-----------------------------------------------------------------------------
LEMMA InitScopeInv == ASSUME ScopeInit PROVE ScopeInv
<1>1. /\ varstack = <<>> /\ scopestack = <<>> /\ frames = <<<<>>>>
      /\ Len(varstack) = 0 /\ Len(scopestack) = 0 /\ Len(frames) = 1
      /\ frames[1] = <<>> /\ DOMAIN frames[1] = {}
  BY DEF ScopeInit
<1>2. ScopesTyped
  <2>1. <<>> \in [{} -> {1, 2}]
    OBVIOUS
  <2>2. frames[1] \in UNION {[N -> {1, 2}] : N \in SUBSET ScopeNames}
    BY <1>1, <2>1
  <2>3. frames \in Seq(UNION {[N -> {1, 2}] : N \in SUBSET ScopeNames})
    BY <1>1, <2>2
  <2> QED BY <1>1, <2>3 DEF ScopesTyped
<1>3. ScopesOrdered
  BY <1>1 DEF ScopesOrdered
<1>4. ASSUME NEW k \in 1..Len(frames)
      PROVE  FrameTrue(k)
  <2>1. k = 1 /\ EntriesOf(k) = {}
    BY <1>1 DEF EntriesOf, FirstAfter, UpTo
  <2> QED BY <1>1, <2>1 DEF FrameTrue
<1> QED BY <1>2, <1>3, <1>4 DEF ScopeInv

\* Where the entries of a scope are.
LEMMA EntriesTyped ==
  ASSUME ScopeInv, NEW k \in 1..Len(frames)
  PROVE  /\ Len(varstack) \in Nat /\ Len(frames) \in Nat
         /\ FirstAfter(k) \in Nat /\ UpTo(k) \in Nat /\ UpTo(k) <= Len(varstack)
         /\ FirstAfter(k) <= UpTo(k)
         /\ k < Len(frames) => FirstAfter(k + 1) = UpTo(k)
<1>1. /\ Len(varstack) \in Nat /\ Len(scopestack) \in Nat
      /\ Len(frames) = Len(scopestack) + 1
      /\ \A j \in 1..Len(scopestack) : scopestack[j] \in Nat /\ scopestack[j] <= Len(varstack)
  BY DEF ScopeInv, ScopesTyped, ScopesOrdered
<1>2. k = Len(frames) \/ k \in 1..Len(scopestack)
  BY <1>1
<1>3. k = 1 \/ k - 1 \in 1..Len(scopestack)
  BY <1>1
<1>4. FirstAfter(k) \in Nat /\ UpTo(k) \in Nat /\ UpTo(k) <= Len(varstack) /\ FirstAfter(k) <= Len(varstack)
  BY <1>1, <1>2, <1>3 DEF FirstAfter, UpTo
<1>5. FirstAfter(k) <= UpTo(k)
  <2>1. CASE k = Len(frames)
    BY <1>4, <2>1 DEF UpTo
  <2>2. CASE k # Len(frames) /\ k # 1
    <3>1. k \in 1..Len(scopestack) /\ k - 1 \in 1..Len(scopestack) /\ k - 1 < k
      BY <1>2, <1>3, <2>2
    <3>2. scopestack[k - 1] <= scopestack[k]
      BY <3>1 DEF ScopeInv, ScopesOrdered
    <3> QED BY <2>2, <3>2 DEF FirstAfter, UpTo
  <2>3. CASE k = 1
    BY <1>4, <2>3 DEF FirstAfter
  <2> QED BY <2>1, <2>2, <2>3
<1>6. k < Len(frames) => FirstAfter(k + 1) = UpTo(k)
  BY <1>1 DEF FirstAfter, UpTo
<1> QED BY <1>1, <1>4, <1>5, <1>6

LEMMA PushKeeps == ASSUME ScopeInv, Push PROVE ScopeInv'
<1> DEFINE n == Len(scopestack)
           F == UNION {[N -> {1, 2}] : N \in SUBSET ScopeNames}
<1>1. /\ varstack' = varstack /\ scopestack' = Append(scopestack, Len(varstack))
      /\ frames' = Append(frames, <<>>)
  BY DEF Push
<1>2. /\ n \in Nat /\ Len(varstack) \in Nat /\ Len(frames) = n + 1
      /\ scopestack \in Seq(Nat) /\ frames \in Seq(F)
  BY DEF ScopeInv, ScopesTyped
<1>3. <<>> \in F
  <2>1. <<>> \in [{} -> {1, 2}]
    OBVIOUS
  <2> QED BY <2>1
<1> HIDE DEF F
<1>4. /\ Len(scopestack') = n + 1 /\ Len(frames') = n + 2
      /\ scopestack' \in Seq(Nat) /\ frames' \in Seq(F)
      /\ scopestack'[n + 1] = Len(varstack) /\ frames'[n + 2] = <<>>
      /\ \A k \in 1..n : scopestack'[k] = scopestack[k]
      /\ \A k \in 1..(n + 1) : frames'[k] = frames[k]
  BY <1>1, <1>2, <1>3
<1>5. ScopesTyped'
  <2>1. varstack' \in Seq([name : ScopeNames, value : {1, 2}])
    BY <1>1 DEF ScopeInv, ScopesTyped
  <2>2. Len(frames') = Len(scopestack') + 1
    BY <1>2, <1>4
  <2> QED BY <1>4, <2>1, <2>2 DEF ScopesTyped, F
<1>6. ScopesOrdered'
  <2>1. /\ \A k \in 1..n : scopestack[k] <= Len(varstack) /\ scopestack[k] \in Nat
        /\ \A j, k \in 1..n : j < k => scopestack[j] <= scopestack[k]
    BY <1>2 DEF ScopeInv, ScopesOrdered
  <2>2. ASSUME NEW j \in 1..(n + 1), NEW k \in 1..(n + 1), j < k
        PROVE  scopestack'[j] <= scopestack'[k]
    <3>1. j \in 1..n /\ (k \in 1..n \/ k = n + 1)
      BY <1>2, <2>2
    <3> QED BY <1>4, <2>1, <2>2, <3>1
  <2>3. ASSUME NEW k \in 1..(n + 1)
        PROVE  scopestack'[k] <= Len(varstack)
    <3>1. k \in 1..n \/ k = n + 1
      BY <1>2
    <3>2. CASE k \in 1..n
      BY <1>4, <2>1, <3>2
    <3>3. CASE k = n + 1
      <4>1. Len(varstack) \in Nat
        BY <1>2
      <4> QED BY <1>4, <3>3, <4>1
    <3> QED BY <3>1, <3>2, <3>3
  <2> QED BY <1>1, <1>4, <2>2, <2>3 DEF ScopesOrdered
<1>7. ASSUME NEW k \in 1..(n + 2)
      PROVE  FrameTrue(k)'
  <2>1. CASE k \in 1..(n + 1)
    <3>1. FirstAfter(k)' = FirstAfter(k) /\ UpTo(k)' = UpTo(k)
      BY <1>1, <1>2, <1>4, <2>1 DEF FirstAfter, UpTo
    <3>2. EntriesOf(k)' = EntriesOf(k) /\ frames'[k] = frames[k]
      BY <1>4, <2>1, <3>1 DEF EntriesOf
    <3>3. FrameTrue(k)
      BY <1>2, <2>1 DEF ScopeInv
    <3>4. ASSUME NEW name, NEW i
          PROVE  LastOfName(k, name, i)' <=> LastOfName(k, name, i)
      BY <1>1, <3>2 DEF LastOfName
    <3> SUFFICES ASSUME NEW name \in ScopeNames
                 PROVE  IF name \in DOMAIN frames'[k]
                        THEN \E i \in EntriesOf(k)' :
                               LastOfName(k, name, i)' /\ varstack'[i].value = frames'[k][name]
                        ELSE \A i \in EntriesOf(k)' : varstack'[i].name # name
      BY DEF FrameTrue
    <3>5. CASE name \in DOMAIN frames[k]
      <4>1. PICK i \in EntriesOf(k) : LastOfName(k, name, i) /\ varstack[i].value = frames[k][name]
        BY <3>3, <3>5 DEF FrameTrue
      <4> QED BY <1>1, <3>2, <3>4, <3>5, <4>1
    <3>6. CASE name \notin DOMAIN frames[k]
      BY <1>1, <3>2, <3>3, <3>6 DEF FrameTrue
    <3> QED BY <3>5, <3>6
  <2>2. CASE k = n + 2
    <3>1. FirstAfter(k)' = Len(varstack) /\ UpTo(k)' = Len(varstack)
      BY <1>1, <1>2, <1>4, <2>2 DEF FirstAfter, UpTo
    <3>2. EntriesOf(k)' = {}
      BY <1>2, <3>1 DEF EntriesOf
    <3>3. DOMAIN frames'[k] = {}
      BY <1>4, <2>2
    <3> QED BY <3>2, <3>3 DEF FrameTrue
  <2> QED BY <1>2, <2>1, <2>2
<1> QED BY <1>4, <1>5, <1>6, <1>7 DEF ScopeInv

\* The scope that is popped takes its entries along, and no others.
LEMMA PopKeeps == ASSUME ScopeInv, Pop PROVE ScopeInv'
<1> DEFINE n == Len(scopestack)
           len == scopestack[n]
           V == [name : ScopeNames, value : {1, 2}]
           F == UNION {[N -> {1, 2}] : N \in SUBSET ScopeNames}
<1>1. /\ n \in Nat \ {0} /\ Len(varstack) \in Nat /\ Len(frames) = n + 1
      /\ varstack \in Seq(V) /\ scopestack \in Seq(Nat) /\ frames \in Seq(F)
  BY DEF ScopeInv, ScopesTyped, Pop
<1>2. len \in Nat /\ len <= Len(varstack)
  BY <1>1 DEF ScopeInv, ScopesOrdered
<1>3. /\ scopestack' = SubSeq(scopestack, 1, n - 1)
      /\ varstack' = SubSeq(varstack, 1, len)
      /\ frames' = SubSeq(frames, 1, Len(frames) - 1)
  BY DEF Pop, Front, Last
<1> HIDE DEF len, F, V
<1>4. /\ Len(scopestack') = n - 1 /\ scopestack' \in Seq(Nat)
      /\ \A k \in 1..(n - 1) : scopestack'[k] = scopestack[k]
  <2>1. /\ n - 1 \in Nat /\ n - 1 <= Len(scopestack)
        /\ \A k \in 1..(n - 1) : scopestack[k] \in Nat
    BY <1>1
  <2> HIDE DEF n
  <2>2. \A k \in 1..(n - 1) : scopestack[k] \in Nat
    BY <2>1
  <2> QED BY <1>1, <1>3, <2>1, <2>2, SubSeqProperties
<1>5. /\ Len(varstack') = len /\ varstack' \in Seq(V)
      /\ \A k \in 1..len : varstack'[k] = varstack[k]
  <2>1. \A k \in 1..len : varstack[k] \in V
    BY <1>1, <1>2
  <2> QED BY <1>1, <1>2, <1>3, <2>1, SubSeqProperties
<1>6. /\ Len(frames') = n /\ frames' \in Seq(F)
      /\ \A k \in 1..n : frames'[k] = frames[k]
  <2>1. \A k \in 1..n : frames[k] \in F
    BY <1>1
  <2> QED BY <1>1, <1>3, <2>1, SubSeqProperties
<1>7. ScopesTyped'
  BY <1>1, <1>4, <1>5, <1>6 DEF ScopesTyped, F, V
<1>8. ScopesOrdered'
  <2>1. \A j, k \in 1..n : j < k => scopestack[j] <= scopestack[k]
    BY DEF ScopeInv, ScopesOrdered
  <2>2. ASSUME NEW k \in 1..(n - 1)
        PROVE  scopestack'[k] <= len
    <3>1. k \in 1..n /\ n \in 1..n /\ k < n
      BY <1>1
    <3> QED BY <1>4, <2>1, <3>1 DEF len
  <2>3. ASSUME NEW j \in 1..(n - 1), NEW k \in 1..(n - 1), j < k
        PROVE  scopestack'[j] <= scopestack'[k]
    <3>1. j \in 1..n /\ k \in 1..n
      BY <1>1
    <3> QED BY <1>4, <2>1, <2>3, <3>1
  <2> QED BY <1>4, <1>5, <2>2, <2>3 DEF ScopesOrdered
<1>9. ASSUME NEW k \in 1..n
      PROVE  FrameTrue(k)'
  <2>1. k \in 1..Len(frames) /\ k # Len(frames)
    BY <1>1
  <2>2. FirstAfter(k)' = FirstAfter(k)
    BY <1>1, <1>4 DEF FirstAfter
  <2>3. UpTo(k)' = UpTo(k)
    <3>1. CASE k = n
      <4>1. UpTo(k)' = len
        BY <1>5, <1>6, <3>1 DEF UpTo
      <4> QED BY <2>1, <3>1, <4>1 DEF UpTo, len
    <3>2. CASE k # n
      <4>1. k \in 1..(n - 1)
        BY <1>1, <3>2
      <4> QED BY <1>4, <1>6, <2>1, <3>2, <4>1 DEF UpTo
    <3> QED BY <3>1, <3>2
  <2>4. EntriesOf(k)' = EntriesOf(k)
    BY <2>2, <2>3 DEF EntriesOf
  <2>5. ASSUME NEW i \in EntriesOf(k)
        PROVE  varstack'[i] = varstack[i]
    <3>1. UpTo(k) <= len
      <4>1. CASE k = n
        BY <1>2, <2>1, <4>1 DEF UpTo, len
      <4>2. CASE k # n
        <5>1. k \in 1..n /\ n \in 1..n /\ k < n
          BY <1>1, <4>2
        <5>2. scopestack[k] <= scopestack[n]
          BY <5>1 DEF ScopeInv, ScopesOrdered
        <5> QED BY <2>1, <5>2 DEF UpTo, len
      <4> QED BY <4>1, <4>2
    <3>2. FirstAfter(k) \in Nat /\ UpTo(k) \in Nat
      BY <2>1, EntriesTyped
    <3>3. i \in 1..len
      BY <1>2, <3>1, <3>2 DEF EntriesOf
    <3> QED BY <1>5, <3>3
  <2>6. FrameTrue(k) /\ frames'[k] = frames[k]
    BY <1>6, <2>1 DEF ScopeInv
  <2>7. SUFFICES ASSUME NEW name \in ScopeNames
                 PROVE  IF name \in DOMAIN frames'[k]
                        THEN \E i \in EntriesOf(k)' :
                               LastOfName(k, name, i)' /\ varstack'[i].value = frames'[k][name]
                        ELSE \A i \in EntriesOf(k)' : varstack'[i].name # name
    BY DEF FrameTrue
  <2>8. CASE name \in DOMAIN frames[k]
    <3>1. PICK i \in EntriesOf(k) : LastOfName(k, name, i) /\ varstack[i].value = frames[k][name]
      BY <2>6, <2>8 DEF FrameTrue
    <3>2. LastOfName(k, name, i)' /\ varstack'[i].value = frames'[k][name]
      BY <2>4, <2>5, <2>6, <3>1 DEF LastOfName
    <3> QED BY <2>4, <2>6, <2>8, <3>2
  <2>9. CASE name \notin DOMAIN frames[k]
    BY <2>4, <2>5, <2>6, <2>9 DEF FrameTrue
  <2> QED BY <2>8, <2>9, <2>6
<1> QED BY <1>6, <1>7, <1>8, <1>9 DEF ScopeInv

\* What is added is the last of its name in the innermost scope.
LEMMA AddVarKeeps ==
  ASSUME ScopeInv, NEW x \in ScopeNames, NEW value \in {1, 2}, AddVar(x, value)
  PROVE  ScopeInv'
<1> DEFINE n == Len(varstack)
           m == Len(frames)
           V == [name : ScopeNames, value : {1, 2}]
           F == UNION {[N -> {1, 2}] : N \in SUBSET ScopeNames}
           entry == [name |-> x, value |-> value]
           frame == Given(frames[m], x, value)
<1>1. /\ n \in Nat /\ Len(scopestack) \in Nat /\ m = Len(scopestack) + 1
      /\ varstack \in Seq(V) /\ scopestack \in Seq(Nat) /\ frames \in Seq(F)
  BY DEF ScopeInv, ScopesTyped
<1>2. /\ varstack' = Append(varstack, entry)
      /\ frames' = [frames EXCEPT ![m] = frame]
      /\ scopestack' = scopestack
  BY DEF AddVar
<1>3. entry \in V
  OBVIOUS
<1>4. m \in 1..m /\ frames[m] \in F
  BY <1>1
<1>5. /\ frame \in F /\ DOMAIN frame = DOMAIN frames[m] \cup {x}
      /\ \A name \in DOMAIN frame : frame[name] = IF name = x THEN value ELSE frames[m][name]
  <2>1. PICK N \in SUBSET ScopeNames : frames[m] \in [N -> {1, 2}]
    BY <1>4
  <2>2. frame \in [N \cup {x} -> {1, 2}] /\ N \cup {x} \in SUBSET ScopeNames
    BY <2>1 DEF Given
  <2> QED BY <2>2 DEF Given
<1> HIDE DEF V, F, entry, frame
<1>6. /\ Len(varstack') = n + 1 /\ varstack' \in Seq(V) /\ varstack'[n + 1] = entry
      /\ \A i \in 1..n : varstack'[i] = varstack[i]
  BY <1>1, <1>2, <1>3
<1>7. /\ Len(frames') = m /\ frames' \in Seq(F) /\ frames'[m] = frame
      /\ \A k \in 1..m : k # m => frames'[k] = frames[k]
  BY <1>1, <1>2, <1>4, <1>5
<1>8. ScopesTyped'
  BY <1>1, <1>2, <1>6, <1>7 DEF ScopesTyped, V, F
<1>9. ScopesOrdered'
  <2>1. \A k \in 1..Len(scopestack) : scopestack[k] <= n /\ scopestack[k] \in Nat
    BY <1>1 DEF ScopeInv, ScopesOrdered
  <2>2. \A k \in 1..Len(scopestack) : scopestack[k] <= n + 1
    BY <1>1, <2>1
  <2> QED BY <1>2, <1>6, <2>2 DEF ScopeInv, ScopesOrdered
<1>10. ASSUME NEW k \in 1..m
       PROVE  FrameTrue(k)'
  <2>1. /\ FirstAfter(k) \in Nat /\ UpTo(k) \in Nat /\ UpTo(k) <= n /\ FirstAfter(k) <= UpTo(k)
    BY EntriesTyped
  <2>2. FirstAfter(k)' = FirstAfter(k)
    BY <1>2 DEF FirstAfter
  <2>3. FrameTrue(k)
    BY DEF ScopeInv
  <2>4. ASSUME NEW i \in EntriesOf(k)
        PROVE  varstack'[i] = varstack[i] /\ i <= n
    BY <1>6, <2>1 DEF EntriesOf
  <2>5. CASE k # m
    <3>1. UpTo(k)' = UpTo(k)
      BY <1>2, <1>7, <2>5 DEF UpTo
    <3>2. EntriesOf(k)' = EntriesOf(k)
      BY <2>2, <3>1 DEF EntriesOf
    <3>3. SUFFICES ASSUME NEW name \in ScopeNames
                   PROVE  IF name \in DOMAIN frames'[k]
                          THEN \E i \in EntriesOf(k)' :
                                 LastOfName(k, name, i)' /\ varstack'[i].value = frames'[k][name]
                          ELSE \A i \in EntriesOf(k)' : varstack'[i].name # name
      BY DEF FrameTrue
    <3>4. frames'[k] = frames[k]
      BY <1>7, <2>5
    <3>5. CASE name \in DOMAIN frames[k]
      <4>1. PICK i \in EntriesOf(k) : LastOfName(k, name, i) /\ varstack[i].value = frames[k][name]
        BY <2>3, <3>5 DEF FrameTrue
      <4>2. LastOfName(k, name, i)' /\ varstack'[i].value = frames'[k][name]
        BY <2>4, <3>2, <3>4, <4>1 DEF LastOfName
      <4> QED BY <3>2, <3>4, <3>5, <4>2
    <3>6. CASE name \notin DOMAIN frames[k]
      BY <2>3, <2>4, <3>2, <3>4, <3>6 DEF FrameTrue
    <3> QED BY <3>4, <3>5, <3>6
  <2>6. CASE k = m
    <3>1. UpTo(k) = n /\ UpTo(k)' = n + 1
      BY <1>6, <1>7, <2>6 DEF UpTo
    <3>2. EntriesOf(k)' = EntriesOf(k) \cup {n + 1} /\ n + 1 \notin EntriesOf(k)
      BY <1>1, <2>1, <2>2, <3>1 DEF EntriesOf
    <3>3. SUFFICES ASSUME NEW name \in ScopeNames
                   PROVE  IF name \in DOMAIN frames'[k]
                          THEN \E i \in EntriesOf(k)' :
                                 LastOfName(k, name, i)' /\ varstack'[i].value = frames'[k][name]
                          ELSE \A i \in EntriesOf(k)' : varstack'[i].name # name
      BY DEF FrameTrue
    <3>4. frames'[k] = frame
      BY <1>7, <2>6
    <3>5. entry.name = x /\ entry.value = value
      BY DEF entry
    <3>6. CASE name = x
      <4>1. name \in DOMAIN frame /\ frame[name] = value
        BY <1>5, <3>6
      <4>2. ASSUME NEW j \in EntriesOf(k)'
            PROVE  j <= n + 1
        <5>1. j = n + 1 \/ j \in EntriesOf(k)
          BY <3>2
        <5>2. j \in EntriesOf(k) => j <= n /\ j \in Int
          BY <2>4 DEF EntriesOf
        <5> QED BY <1>1, <5>1, <5>2
      <4>3. n + 1 \in EntriesOf(k)' /\ varstack'[n + 1].name = name
        BY <1>6, <3>2, <3>5, <3>6
      <4>4. PICK i \in EntriesOf(k)' : i = n + 1
        BY <4>3
      <4>5. LastOfName(k, name, i)'
        BY <4>2, <4>3, <4>4 DEF LastOfName
      <4>6. varstack'[i].value = frames'[k][name]
        BY <1>6, <3>4, <3>5, <4>1, <4>4
      <4> QED BY <3>4, <4>1, <4>4, <4>5, <4>6
    <3>7. CASE name # x /\ name \in DOMAIN frames[m]
      <4>1. PICK i \in EntriesOf(k) : LastOfName(k, name, i) /\ varstack[i].value = frames[k][name]
        BY <2>3, <2>6, <3>7 DEF FrameTrue
      <4>2. varstack'[n + 1].name # name
        BY <1>6, <3>5, <3>7
      <4>3. \A j \in EntriesOf(k)' : varstack'[j].name = name => j <= i
        BY <2>4, <3>2, <4>1, <4>2 DEF LastOfName
      <4>4. i \in EntriesOf(k)' /\ varstack'[i].name = name
        BY <2>4, <3>2, <4>1 DEF LastOfName
      <4>5. LastOfName(k, name, i)'
        BY <4>3, <4>4 DEF LastOfName
      <4>6. varstack'[i].value = frames'[k][name] /\ name \in DOMAIN frames'[k]
        BY <1>5, <2>4, <2>6, <3>4, <3>7, <4>1
      <4> QED BY <4>4, <4>5, <4>6
    <3>8. CASE name # x /\ name \notin DOMAIN frames[m]
      <4>1. name \notin DOMAIN frames'[k]
        BY <1>5, <3>4, <3>8
      <4>2. \A i \in EntriesOf(k) : varstack[i].name # name
        BY <2>3, <2>6, <3>8 DEF FrameTrue
      <4>3. \A i \in EntriesOf(k)' : varstack'[i].name # name
        BY <1>6, <2>4, <3>2, <3>5, <3>8, <4>2
      <4> QED BY <4>1, <4>3
    <3> QED BY <3>6, <3>7, <3>8
  <2> QED BY <2>5, <2>6
<1> QED BY <1>7, <1>8, <1>9, <1>10 DEF ScopeInv
-----------------------------------------------------------------------------
\* Every entry is in a scope.
LEMMA EntryInScope ==
  ASSUME ScopeInv, NEW i \in 1..Len(varstack)
  PROVE  \E k \in 1..Len(frames) : i \in EntriesOf(k)
<1> DEFINE m == Len(frames)
           K == {k \in 1..m : FirstAfter(k) < i}
<1>1. m \in Nat \ {0} /\ Len(varstack) \in Nat
  BY DEF ScopeInv, ScopesTyped
<1>2. 1 \in K
  BY <1>1 DEF FirstAfter
<1>3. K \in SUBSET (0..m)
  OBVIOUS
<1> HIDE DEF K
<1>4. Max(K) \in K /\ \A k \in K : k <= Max(K)
  BY <1>1, <1>2, <1>3, MaxOfPlaces
<1>5. PICK k \in K : \A j \in K : j <= k
  BY <1>4
<1>6. k \in 1..m /\ FirstAfter(k) < i
  BY DEF K
<1>7. FirstAfter(k) \in Nat /\ UpTo(k) \in Nat /\ (k < m => FirstAfter(k + 1) = UpTo(k))
  BY <1>6, EntriesTyped
<1>8. i <= UpTo(k)
  <2>1. CASE k = m
    BY <1>1, <2>1 DEF UpTo
  <2>2. CASE k # m
    <3>1. k + 1 \in 1..m /\ k < m
      BY <1>1, <1>6, <2>2
    <3>2. k + 1 \notin K
      BY <1>1, <1>5, <1>6
    <3>3. ~(FirstAfter(k + 1) < i)
      BY <3>1, <3>2 DEF K
    <3> QED BY <1>7, <3>1, <3>3
  <2> QED BY <2>1, <2>2
<1> QED BY <1>6, <1>7, <1>8 DEF EntriesOf

\* A scope that is in another one has its entries behind those of that one.
LEMMA ScopesApart ==
  ASSUME ScopeInv, NEW j \in 1..Len(frames), NEW k \in 1..Len(frames), j < k
  PROVE  UpTo(j) <= FirstAfter(k)
<1>1. /\ Len(scopestack) \in Nat /\ Len(frames) = Len(scopestack) + 1
      /\ \A p \in 1..Len(scopestack) : scopestack[p] \in Nat
  BY DEF ScopeInv, ScopesTyped
<1>2. j \in 1..Len(scopestack) /\ k - 1 \in 1..Len(scopestack) /\ k # 1 /\ j # Len(frames)
  BY <1>1
<1>3. j = k - 1 \/ j < k - 1
  BY <1>1
<1>4. scopestack[j] <= scopestack[k - 1]
  BY <1>1, <1>2, <1>3 DEF ScopeInv, ScopesOrdered
<1> QED BY <1>2, <1>4 DEF FirstAfter, UpTo

\* What a search for the last entry of a name finds.
LEMMA LookupFinds ==
  ASSUME ScopeInv, NEW start \in Nat, NEW name, NEW i \in 1..Len(varstack),
         i > start, varstack[i].name = name,
         \A j \in 1..Len(varstack) : j > start /\ varstack[j].name = name => j <= i
  PROVE  LookupFrom(start, name) = varstack[i].value
<1> DEFINE found == {j \in 1..Len(varstack) : j > start /\ varstack[j].name = name}
<1>1. DOMAIN varstack = 1..Len(varstack) /\ Len(varstack) \in Nat
  BY DEF ScopeInv, ScopesTyped
<1>2. i \in found /\ found \in SUBSET (0..Len(varstack))
  OBVIOUS
<1>3. LookupFrom(start, name) = IF found = {} THEN 0 ELSE varstack[Max(found)].value
  BY <1>1 DEF LookupFrom
<1>4. \A j \in found : j <= i
  OBVIOUS
<1> HIDE DEF found
<1>5. Max(found) \in found /\ \A j \in found : j <= Max(found)
  BY <1>1, <1>2, MaxOfPlaces
<1>6. PICK k \in found : k = Max(found) /\ \A j \in found : j <= k
  BY <1>5
<1>7. k <= i /\ i <= k /\ k \in Nat
  BY <1>2, <1>4, <1>6
<1>8. k = i
  BY <1>7
<1> QED BY <1>2, <1>3, <1>6, <1>8

LEMMA LookupMisses ==
  ASSUME ScopeInv, NEW start \in Nat, NEW name,
         \A j \in 1..Len(varstack) : j > start => varstack[j].name # name
  PROVE  LookupFrom(start, name) = 0
<1>1. DOMAIN varstack = 1..Len(varstack)
  BY DEF ScopeInv, ScopesTyped
<1>2. {j \in DOMAIN varstack : j > start /\ varstack[j].name = name} = {}
  BY <1>1
<1> QED BY <1>2 DEF LookupFrom

LEMMA ScopeInvHolds == ASSUME ScopeInv PROVE Scoped
<1> DEFINE m == Len(frames)
           Having(name) == {k \in DOMAIN frames : name \in DOMAIN frames[k]}
<1>1. /\ m \in Nat \ {0} /\ DOMAIN frames = 1..m /\ m = Len(scopestack) + 1
      /\ Len(scopestack) \in Nat /\ Len(varstack) \in Nat
  BY DEF ScopeInv, ScopesTyped
<1> SUFFICES ASSUME NEW name \in ScopeNames
             PROVE  /\ ScopeLookup(name) =
                         (IF Having(name) = {} THEN 0 ELSE frames[Max(Having(name))][name])
                    /\ TipLookup(name) =
                         (IF m \in Having(name) THEN Last(frames)[name] ELSE 0)
  BY DEF Scoped
<1> DEFINE having == Having(name)
<1>2. having \in SUBSET (0..m) /\ \A k \in 1..m : k \in having <=> name \in DOMAIN frames[k]
  BY <1>1
<1> HIDE DEF Having
<1>3. ASSUME NEW k \in 1..m
      PROVE  FrameTrue(k)
  BY DEF ScopeInv
<1>4. ASSUME NEW k \in 1..m, k \notin having, NEW i \in EntriesOf(k)
      PROVE  varstack[i].name # name
  BY <1>2, <1>3, <1>4 DEF FrameTrue
<1>5. ASSUME NEW k \in 1..m, k \in having
      PROVE  \E i \in EntriesOf(k) : LastOfName(k, name, i) /\ varstack[i].value = frames[k][name]
  BY <1>2, <1>3, <1>5 DEF FrameTrue
<1>6. ASSUME NEW k \in 1..m
      PROVE  /\ FirstAfter(k) \in Nat /\ UpTo(k) \in Nat /\ UpTo(k) <= Len(varstack)
             /\ FirstAfter(k) <= UpTo(k)
  BY EntriesTyped
<1>7. ScopeLookup(name) = IF having = {} THEN 0 ELSE frames[Max(having)][name]
  <2>1. CASE having = {}
    <3>1. ASSUME NEW j \in 1..Len(varstack)
          PROVE  varstack[j].name # name
      <4>1. PICK k \in 1..m : j \in EntriesOf(k)
        BY EntryInScope
      <4> QED BY <1>4, <2>1, <4>1
    <3>2. LookupFrom(0, name) = 0
      BY <3>1, LookupMisses
    <3> QED BY <2>1, <3>2 DEF ScopeLookup
  <2>2. CASE having # {}
    <3>1. Max(having) \in having /\ \A k \in having : k <= Max(having)
      BY <1>1, <1>2, <2>2, MaxOfPlaces
    <3>2. PICK k \in having : k = Max(having) /\ \A h \in having : h <= k
      BY <3>1
    <3>3. k \in 1..m
      BY <1>1 DEF Having
    <3>4. PICK i \in EntriesOf(k) : LastOfName(k, name, i) /\ varstack[i].value = frames[k][name]
      BY <1>5, <3>3
    <3>5. i \in 1..Len(varstack) /\ i > 0 /\ i <= UpTo(k) /\ FirstAfter(k) < i
      BY <1>1, <1>6, <3>3 DEF EntriesOf
    <3>6. ASSUME NEW j \in 1..Len(varstack), varstack[j].name = name
          PROVE  j <= i
      <4>1. PICK h \in 1..m : j \in EntriesOf(h)
        BY EntryInScope
      <4>2. h \in having
        BY <1>4, <3>6, <4>1
      <4>3. h <= k
        BY <3>2, <4>2
      <4>4. CASE h = k
        BY <3>4, <3>6, <4>1, <4>4 DEF LastOfName
      <4>5. CASE h < k
        <5>1. UpTo(h) <= FirstAfter(k)
          BY <3>3, <4>5, ScopesApart
        <5>2. j <= UpTo(h)
          BY <1>6, <4>1 DEF EntriesOf
        <5> QED BY <1>6, <3>3, <3>5, <5>1, <5>2
      <4> QED BY <3>3, <4>3, <4>4, <4>5
    <3>7. varstack[i].name = name
      BY <3>4 DEF LastOfName
    <3>8. LookupFrom(0, name) = varstack[i].value
      BY <3>5, <3>6, <3>7, LookupFinds
    <3> QED BY <2>2, <3>2, <3>4, <3>8 DEF ScopeLookup
  <2> QED BY <2>1, <2>2
<1>8. TipLookup(name) = IF m \in having THEN Last(frames)[name] ELSE 0
  <2>1. m \in 1..m /\ Last(frames) = frames[m]
    BY <1>1 DEF Last
  <2>2. TipLookup(name) = LookupFrom(FirstAfter(m), name)
    <3>1. CASE scopestack = <<>>
      <4>1. m = 1
        BY <1>1, <3>1
      <4> QED BY <3>1, <4>1 DEF TipLookup, FirstAfter
    <3>2. CASE scopestack # <<>>
      <4>1. Len(scopestack) # 0
        BY <3>2 DEF ScopeInv, ScopesTyped
      <4>2. m # 1 /\ m - 1 = Len(scopestack)
        BY <1>1, <4>1
      <4> QED BY <3>2, <4>2 DEF TipLookup, FirstAfter, Last
    <3> QED BY <3>1, <3>2
  <2>3. UpTo(m) = Len(varstack)
    BY DEF UpTo
  <2>4. \A j \in 1..Len(varstack) : j > FirstAfter(m) => j \in EntriesOf(m)
    BY <1>1, <1>6, <2>1, <2>3 DEF EntriesOf
  <2>5. CASE m \in having
    <3>1. PICK i \in EntriesOf(m) : LastOfName(m, name, i) /\ varstack[i].value = frames[m][name]
      BY <1>5, <2>1, <2>5
    <3>2. i \in 1..Len(varstack) /\ i > FirstAfter(m)
      BY <1>6, <2>1, <2>3 DEF EntriesOf
    <3>3. varstack[i].name = name
      BY <3>1 DEF LastOfName
    <3>4. \A j \in 1..Len(varstack) : j > FirstAfter(m) /\ varstack[j].name = name => j <= i
      BY <2>4, <3>1 DEF LastOfName
    <3>5. FirstAfter(m) \in Nat
      BY <1>6, <2>1
    <3>6. LookupFrom(FirstAfter(m), name) = varstack[i].value
      BY <3>2, <3>3, <3>4, <3>5, LookupFinds
    <3> QED BY <2>1, <2>2, <2>5, <3>1, <3>6
  <2>6. CASE m \notin having
    <3>1. \A j \in 1..Len(varstack) : j > FirstAfter(m) => varstack[j].name # name
      BY <1>4, <2>1, <2>4, <2>6
    <3>2. FirstAfter(m) \in Nat
      BY <1>6, <2>1
    <3>3. LookupFrom(FirstAfter(m), name) = 0
      BY <3>1, <3>2, LookupMisses
    <3> QED BY <2>2, <2>6, <3>3
  <2> QED BY <2>5, <2>6
<1> QED BY <1>7, <1>8

LEMMA ScopeStepKeeps ==
  ASSUME ScopeInv, ScopeStep \/ UNCHANGED scopevars
  PROVE  ScopeInv'
<1>1. CASE Push
  BY <1>1, PushKeeps
<1>2. CASE Pop
  BY <1>2, PopKeeps
<1>3. CASE \E name \in ScopeNames, value \in {1, 2} : AddVar(name, value)
  BY <1>3, AddVarKeeps
<1>4. CASE UNCHANGED scopevars
  <2>1. varstack' = varstack /\ scopestack' = scopestack /\ frames' = frames
    BY <1>4 DEF scopevars
  <2>2. ScopesTyped'
    BY <2>1, Zenon DEF ScopeInv, ScopesTyped
  <2>3. ScopesOrdered'
    BY <2>1, Zenon DEF ScopeInv, ScopesOrdered
  <2>4. ASSUME NEW k \in 1..Len(frames)
        PROVE  FrameTrue(k)'
    <3>1. EntriesOf(k)' = EntriesOf(k)
      BY <2>1, Zenon DEF EntriesOf, FirstAfter, UpTo
    <3>2. FrameTrue(k)
      BY DEF ScopeInv
    <3>3. \A name, i : LastOfName(k, name, i)' <=> LastOfName(k, name, i)
      BY <2>1, <3>1, Zenon DEF LastOfName
    <3> QED BY <2>1, <3>1, <3>2, <3>3 DEF FrameTrue
  <2> QED BY <2>1, <2>2, <2>3, <2>4 DEF ScopeInv
<1> QED BY <1>1, <1>2, <1>3, <1>4 DEF ScopeStep


-----------------------------------------------------------------------------
(* Generated code.  A generator, with the program, what its names stand    *)
(* for and the number of the label without a name.                         *)

Ops == {"NOP", "PUSHM", "MOV", "ADD", "POPM", "BX", "B", "BL"}
RefTypes == {"BRANCH", "JUMP", "DEFAULT", "STRING", "BLOB"}
Sections == {".code", ".data"}
LabelNames == {Func, Str, Anon}

Instrs == [op : Ops, word : Int, size : Int]
Chars == {Zero, "x", "y"}
LabelRecs == [type : {"offset", "pointer", "invalid"}, base : Nat, value : Nat,
              name : Sections \cup {Func, Str, Nameless}]
RelocRecs == [type : RefTypes, offset : Nat, label : Nat]
Meant == [op : Ops, type : RefTypes \cup {"none"}, label : LabelNames \cup {Nameless}, src : Nat]

Generators ==
  [code : Arrays(Instrs \cup {Zero}), sources : Arrays(Nat \cup {Zero}), cursrc : Nat,
   staticdata : Arrays(Chars), labels : Seq(LabelRecs), relocs : Seq(RelocRecs)]

CodeFits(g, p) ==
  /\ g.code.len = Len(p)
  /\ \A i \in 1..Len(p) : g.code.slots[i - 1] \in Instrs /\ g.code.slots[i - 1].op = p[i].op
  /\ Len(p) <= g.sources.len
  /\ \A i \in 1..Len(p) : g.sources.slots[i - 1] = p[i].src

\* Names are of one label each.  What is an offset is one from a section, and a
\* section is none.
LabelsFit(labels, h) ==
  /\ labels \in Seq(LabelRecs)
  /\ h \in 0..Len(labels)
  /\ \A i \in 1..Len(labels) : labels[i].name = Nameless <=> i = h
  /\ \A i, j \in 1..Len(labels) : labels[i].name = labels[j].name => i = j
  /\ \A i \in 1..Len(labels) :
       labels[i].type = "offset" => /\ labels[i].name \notin Sections
                                    /\ labels[i].base \in 1..Len(labels)
                                    /\ labels[labels[i].base].name \in Sections

\* The label of a name.
IndexOf(labels, h, key) == IF key = Anon THEN h ELSE Find(labels, key)

HasText(mem, start, text) ==
  /\ start \in Nat /\ start % WordSize = 0 /\ start + Len(text) < mem.len
  /\ \A k \in 1..Len(text) : mem.slots[start + k - 1] = text[k]
  /\ mem.slots[start + Len(text)] = Zero

Stands(labels, mem, label, as) ==
  \/ /\ as[1] = "code" /\ label.type = "offset" /\ labels[label.base].name = ".code"
     /\ as[2] \in Nat /\ label.value = as[2] * InsSize
  \/ as[1] = "host" /\ as[2] = Host /\ label.type = "pointer" /\ label.value = as[2]
  \/ /\ as[1] = "data" /\ label.type = "offset" /\ labels[label.base].name = ".data"
     /\ as[2] \in Seq({"x", "y"}) /\ HasText(mem, label.value, as[2])

DefsFit(labels, mem, h, d) ==
  /\ DOMAIN d \subseteq LabelNames
  /\ \A key \in DOMAIN d :
       LET k == IndexOf(labels, h, key)
       IN  /\ k # 0 /\ Stands(labels, mem, labels[k], d[key])
           /\ d[key][1] = "data" <=> key = Str
           /\ d[key][1] = "host" => key = Func
  /\ \A key \in LabelNames \ DOMAIN d :
       LET k == IndexOf(labels, h, key) IN k # 0 => labels[k].type = "invalid"

\* A relocation for every reference, in their order.
RelocsFit(relocs, p, labels, h) ==
  /\ \A r \in 1..Len(relocs) :
       /\ relocs[r].offset + 1 \in 1..Len(p)
       /\ p[relocs[r].offset + 1].type = relocs[r].type
       /\ relocs[r].label = IndexOf(labels, h, p[relocs[r].offset + 1].label)
       /\ relocs[r].label # 0
  /\ \A r, q \in 1..Len(relocs) : r < q => relocs[r].offset < relocs[q].offset
  /\ \A i \in 1..Len(p) : p[i].type # "none" => \E r \in 1..Len(relocs) : relocs[r].offset + 1 = i

\* What refers to what.
MeantFits(p) ==
  \A i \in 1..Len(p) : /\ p[i].type # "none" => p[i].label \in LabelNames
                       /\ p[i].type \in {"STRING", "BLOB"} <=> p[i].label = Str

ProgramFits(g, p, d, h) ==
  /\ g \in Generators /\ p \in Seq(Meant) /\ MeantFits(p)
  /\ CodeFits(g, p)
  /\ LabelsFit(g.labels, h)
  /\ DefsFit(g.labels, g.staticdata, h, d)
  /\ RelocsFit(g.relocs, p, g.labels, h)

-----------------------------------------------------------------------------
(* Labels.                                                                 *)

NameOf(key) == IF key = Anon THEN Nameless ELSE key
KeyOf(name) == IF name = Nameless THEN Anon ELSE name
AllKeys == LabelNames \cup Sections

LEMMA NamesApart ==
  /\ \A key \in AllKeys : NameOf(key) \in Sections \cup {Func, Str, Nameless}
  /\ \A key \in AllKeys : KeyOf(NameOf(key)) = key
  /\ \A name \in Sections \cup {Func, Str, Nameless} :
       KeyOf(name) \in AllKeys /\ NameOf(KeyOf(name)) = name
  /\ \A name \in Sections : name # Nameless /\ name \notin LabelNames
  /\ Func # Nameless /\ Str # Nameless /\ Func # Str /\ Anon # Func /\ Anon # Str
  BY DEF NameOf, KeyOf, AllKeys, LabelNames, Sections, Func, Str, Anon, Nameless

LEMMA FindIs ==
  ASSUME NEW labels \in Seq(LabelRecs), NEW name, name # Nameless
  PROVE  /\ Find(labels, name) \in 0..Len(labels)
         /\ Find(labels, name) # 0 => labels[Find(labels, name)].name = name
         /\ Find(labels, name) = 0 => \A i \in 1..Len(labels) : labels[i].name # name
<1> DEFINE I == {i \in 1..Len(labels) : labels[i].name = name}
<1>1. Find(labels, name) = IF I # {} THEN Min(I) ELSE 0
  BY DEF Find, SelectInSeq
<1>2. I \in SUBSET Nat /\ \A i \in I : i \in 1..Len(labels) /\ labels[i].name = name
  OBVIOUS
<1>3. CASE I = {}
  BY <1>1, <1>3
<1>4. CASE I # {}
  <2> HIDE DEF I
  <2>1. Min(I) \in I
    BY <1>2, <1>4, MinOfPlaces
  <2>2. Find(labels, name) \in I
    BY <1>1, <1>4, <2>1
  <2>3. PICK k \in I : Find(labels, name) = k
    BY <2>2
  <2> QED BY <1>2, <2>3
<1> QED BY <1>3, <1>4

\* The label of a name is the one that has it.
LEMMA IndexIs ==
  ASSUME NEW labels, NEW h, LabelsFit(labels, h), NEW key \in AllKeys
  PROVE  /\ IndexOf(labels, h, key) \in 0..Len(labels)
         /\ IndexOf(labels, h, key) # 0 => labels[IndexOf(labels, h, key)].name = NameOf(key)
         /\ \A i \in 1..Len(labels) : labels[i].name = NameOf(key) <=> i = IndexOf(labels, h, key)
<1>1. labels \in Seq(LabelRecs) /\ h \in 0..Len(labels)
  BY DEF LabelsFit
<1>2. /\ \A i \in 1..Len(labels) : labels[i].name = Nameless <=> i = h
      /\ \A i, j \in 1..Len(labels) : labels[i].name = labels[j].name => i = j
  BY DEF LabelsFit
<1>3. CASE key = Anon
  BY <1>1, <1>2, <1>3 DEF IndexOf, NameOf
<1>4. CASE key # Anon
  <2>1. key # Nameless /\ NameOf(key) = key /\ IndexOf(labels, h, key) = Find(labels, key)
    BY <1>4 DEF IndexOf, NameOf, AllKeys, LabelNames, Sections, Func, Str, Anon, Nameless
  <2>2. /\ Find(labels, key) \in 0..Len(labels)
        /\ Find(labels, key) # 0 => labels[Find(labels, key)].name = key
        /\ Find(labels, key) = 0 => \A i \in 1..Len(labels) : labels[i].name # key
    BY <1>1, <2>1, FindIs
  <2>3. PICK f \in 0..Len(labels) : f = Find(labels, key)
    BY <2>2
  <2>4. \A i \in 1..Len(labels) : labels[i].name = key <=> i = f
    BY <1>2, <2>2, <2>3
  <2> QED BY <2>1, <2>2, <2>3, <2>4
<1> QED BY <1>3, <1>4

\* A label is put in the place of the one of its name, or behind the last.
Puts(labels, more, k, l) ==
  /\ k \in 1..(Len(labels) + 1) /\ more \in Seq(LabelRecs) /\ l \in LabelRecs
  /\ Len(more) = IF k <= Len(labels) THEN Len(labels) ELSE k
  /\ more[k] = l
  /\ \A i \in 1..Len(labels) : i # k => more[i] = labels[i]
  /\ \A i \in 1..Len(labels) : labels[i].name = l.name <=> i = k

LEMMA SetLabelPuts ==
  ASSUME NEW labels, NEW h, LabelsFit(labels, h), NEW k \in 1..Len(labels),
         NEW type \in {"offset", "pointer", "invalid"}, NEW base \in Nat, NEW value \in Nat
  PROVE  Puts(labels, SetLabel(labels, k, type, base, value), k,
              Label(type, base, value, labels[k].name))
<1> DEFINE l == Label(type, base, value, labels[k].name)
           more == SetLabel(labels, k, type, base, value)
<1>1. /\ labels \in Seq(LabelRecs) /\ Len(labels) \in Nat
      /\ \A i, j \in 1..Len(labels) : labels[i].name = labels[j].name => i = j
  BY DEF LabelsFit
<1>2. labels[k] \in LabelRecs
  BY <1>1
<1>3. l \in LabelRecs /\ l.name = labels[k].name
  BY <1>2 DEF Label, LabelRecs
<1>4. more = [labels EXCEPT ![k] = l]
  BY DEF SetLabel
<1> HIDE DEF l, more
<1>5. more \in Seq(LabelRecs) /\ Len(more) = Len(labels) /\ more[k] = l
  BY <1>1, <1>3, <1>4
<1>6. \A i \in 1..Len(labels) : i # k => more[i] = labels[i]
  BY <1>1, <1>4
<1> QED BY <1>1, <1>3, <1>5, <1>6 DEF Puts, l, more

LEMMA WithLabelPuts ==
  ASSUME NEW labels, NEW h, LabelsFit(labels, h), NEW name \in Sections \cup {Func, Str, Nameless},
         NEW type \in {"offset", "pointer", "invalid"}, NEW base \in Nat, NEW value \in Nat,
         \A i \in 1..Len(labels) : labels[i].name # name
  PROVE  LET more == Append(labels, Label("offset", 0, 0, name))
         IN  Puts(labels, SetLabel(more, Len(more), type, base, value), Len(labels) + 1,
                  Label(type, base, value, name))
<1> DEFINE n == Len(labels)
           l0 == Label("offset", 0, 0, name)
           l == Label(type, base, value, name)
           more == Append(labels, l0)
           new == SetLabel(more, Len(more), type, base, value)
<1>1. labels \in Seq(LabelRecs) /\ n \in Nat
  BY DEF LabelsFit
<1>2. l \in LabelRecs /\ l.name = name /\ l0 \in LabelRecs /\ l0.name = name
  BY DEF Label, LabelRecs
<1>3. /\ more \in Seq(LabelRecs) /\ Len(more) = n + 1 /\ more[n + 1] = l0
      /\ \A i \in 1..n : more[i] = labels[i]
  <2> HIDE DEF l0
  <2> QED BY <1>1, <1>2
<1>4. new = [more EXCEPT ![n + 1] = l]
  <2> HIDE DEF more
  <2> QED BY <1>2, <1>3 DEF SetLabel
<1> HIDE DEF l, l0, more, new
<1>5. new \in Seq(LabelRecs) /\ Len(new) = n + 1 /\ new[n + 1] = l
  BY <1>1, <1>2, <1>3, <1>4
<1>6. \A i \in 1..n : new[i] = labels[i]
  BY <1>1, <1>3, <1>4
<1>7. Puts(labels, new, n + 1, l)
  BY <1>1, <1>2, <1>5, <1>6 DEF Puts
<1> QED BY <1>7 DEF new, more, l, l0

\* rvm_codemap_addoffset and the like, for a label with a name and for a new one without.
PutFor(labels, more, key, l) ==
  \E k \in 1..(Len(labels) + 1) : Puts(labels, more, k, l) /\ (key = Anon => k = Len(more))

LEMMA AddAsPuts ==
  ASSUME NEW labels, NEW h, LabelsFit(labels, h), NEW key \in AllKeys, key = Anon => h = 0,
         NEW type \in {"offset", "pointer", "invalid"}, NEW base \in Nat, NEW value \in Nat
  PROVE  PutFor(labels, AddAs(labels, NameOf(key), type, base, value), key,
                Label(type, base, value, NameOf(key)))
<1> DEFINE name == NameOf(key)
           f == Find(labels, name)
           more == Append(labels, Label("offset", 0, 0, name))
           new == AddAs(labels, name, type, base, value)
           l == Label(type, base, value, name)
<1>1. labels \in Seq(LabelRecs) /\ Len(labels) \in Nat
  BY DEF LabelsFit
<1>2. name \in Sections \cup {Func, Str, Nameless}
  BY NamesApart
<1>3. CASE name # Nameless /\ f # 0
  <2>1. f \in 1..Len(labels) /\ labels[f].name = name
    BY <1>1, <1>3, FindIs
  <2>2. new = SetLabel(labels, f, type, base, value)
    BY <1>3 DEF AddAs, WithLabel, LabelOf
  <2>3. Puts(labels, SetLabel(labels, f, type, base, value), f,
             Label(type, base, value, labels[f].name))
    <3> HIDE DEF f
    <3> QED BY <2>1, SetLabelPuts
  <2>4. Puts(labels, new, f, l)
    BY <2>1, <2>2, <2>3
  <2>5. key # Anon
    BY <1>3 DEF NameOf
  <2>6. f \in 1..(Len(labels) + 1)
    BY <1>1, <2>1
  <2> HIDE DEF f, new, l, name
  <2> QED BY <2>4, <2>5, <2>6 DEF PutFor, new, l, name
<1>4. CASE name = Nameless \/ f = 0
  <2>1. \A i \in 1..Len(labels) : labels[i].name # name
    <3>1. CASE name = Nameless
      <4>1. key = Anon
        BY <3>1 DEF NameOf, AllKeys, LabelNames, Sections, Func, Str, Anon, Nameless
      <4> QED BY <3>1, <4>1 DEF LabelsFit
    <3>2. CASE name # Nameless /\ f = 0
      BY <1>1, <3>2, FindIs
    <3> QED BY <1>4, <3>1, <3>2
  <2>2. Find(labels, name) = 0
    <3>1. name = Nameless => {i \in 1..Len(labels) : name # Nameless /\ labels[i].name = name} = {}
      OBVIOUS
    <3> QED BY <1>4, <3>1 DEF Find, SelectInSeq
  <2>3. Len(more) = Len(labels) + 1
    BY <1>1
  <2>4. LabelOf(more, name) = Len(more)
    <3>1. CASE name = Nameless
      BY <3>1 DEF LabelOf
    <3>2. CASE name # Nameless
      <4>1. /\ more \in Seq(LabelRecs)
            /\ more[Len(more)].name = name
            /\ \A i \in 1..Len(labels) : more[i] = labels[i]
        <5>1. Label("offset", 0, 0, name) \in LabelRecs /\ Label("offset", 0, 0, name).name = name
          BY <1>2 DEF Label, LabelRecs
        <5> QED BY <1>1, <5>1
      <4>2. /\ Find(more, name) \in 0..Len(more)
            /\ Find(more, name) # 0 => more[Find(more, name)].name = name
            /\ Find(more, name) = 0 => \A i \in 1..Len(more) : more[i].name # name
        <5> HIDE DEF more
        <5> QED BY <3>2, <4>1, FindIs
      <4>3. Len(more) \in 1..Len(more)
        BY <1>1, <2>3
      <4>4. \A i \in 1..Len(more) : more[i].name = name => i = Len(more)
        <5> HIDE DEF more
        <5> QED BY <1>1, <2>1, <2>3, <4>1
      <4>5. Find(more, name) = Len(more)
        <5> HIDE DEF more
        <5> QED BY <2>3, <4>1, <4>2, <4>3, <4>4
      <4> QED BY <3>2, <4>5 DEF LabelOf
    <3> QED BY <3>1, <3>2
  <2>5. new = SetLabel(more, Len(more), type, base, value)
    <3> HIDE DEF more
    <3>1. WithLabel(labels, name) = more
      BY <2>2 DEF WithLabel, more
    <3> QED BY <2>4, <3>1 DEF AddAs
  <2>6. Puts(labels, SetLabel(more, Len(more), type, base, value), Len(labels) + 1, l)
    <3> HIDE DEF name
    <3> QED BY <1>2, <2>1, WithLabelPuts
  <2>7. Puts(labels, new, Len(labels) + 1, l)
    BY <2>5, <2>6
  <2>8. Len(new) = Len(labels) + 1
    <3> HIDE DEF new, l
    <3> QED BY <1>1, <2>7 DEF Puts
  <2>9. Len(labels) + 1 \in 1..(Len(labels) + 1)
    BY <1>1
  <2> HIDE DEF new, l, name
  <2> QED BY <2>7, <2>8, <2>9 DEF PutFor, new, l, name
<1> QED BY <1>3, <1>4

LEMMA PutsNames ==
  ASSUME NEW labels, NEW h, LabelsFit(labels, h), NEW more, NEW k, NEW l, Puts(labels, more, k, l)
  PROVE  /\ Len(labels) \in Nat /\ Len(more) \in Nat /\ Len(labels) <= Len(more)
         /\ k \in 1..Len(more) /\ more[k].name = l.name
         /\ \A i \in 1..Len(labels) : i \in 1..Len(more) /\ more[i].name = labels[i].name
         /\ \A i \in 1..Len(more) : i = k \/ (i \in 1..Len(labels) /\ more[i] = labels[i])
         /\ \A i \in 1..Len(more) : more[i].name = l.name <=> i = k
<1>1. Len(labels) \in Nat /\ Len(more) \in Nat
  BY DEF LabelsFit, Puts
<1>2. k \in 1..(Len(labels) + 1) /\ Len(more) = IF k <= Len(labels) THEN Len(labels) ELSE k
  BY DEF Puts
<1>3. /\ more[k] = l
      /\ \A i \in 1..Len(labels) : i # k => more[i] = labels[i]
      /\ \A i \in 1..Len(labels) : labels[i].name = l.name <=> i = k
  BY DEF Puts
<1>4. \A i \in 1..Len(more) : i = k \/ (i \in 1..Len(labels) /\ more[i] = labels[i])
  BY <1>1, <1>2, <1>3
<1>5. k \in 1..Len(more) /\ Len(labels) <= Len(more)
  BY <1>1, <1>2
<1> QED BY <1>1, <1>3, <1>4, <1>5

LEMMA PutsLabels ==
  ASSUME NEW labels, NEW h, LabelsFit(labels, h), NEW more, NEW k, NEW l, Puts(labels, more, k, l),
         l.type = "offset" => /\ l.name \notin Sections
                              /\ l.base \in 1..Len(labels) /\ labels[l.base].name \in Sections
  PROVE  LabelsFit(more, IF l.name = Nameless THEN k ELSE h)
<1> DEFINE h2 == IF l.name = Nameless THEN k ELSE h
<1>1. /\ Len(labels) \in Nat /\ Len(more) \in Nat /\ Len(labels) <= Len(more)
      /\ k \in 1..Len(more) /\ more[k].name = l.name
      /\ \A i \in 1..Len(labels) : i \in 1..Len(more) /\ more[i].name = labels[i].name
      /\ \A i \in 1..Len(more) : i = k \/ (i \in 1..Len(labels) /\ more[i] = labels[i])
      /\ \A i \in 1..Len(more) : more[i].name = l.name <=> i = k
  BY PutsNames
<1>2. more \in Seq(LabelRecs) /\ more[k] = l
  BY DEF Puts
<1>3. /\ h \in 0..Len(labels)
      /\ \A i \in 1..Len(labels) : labels[i].name = Nameless <=> i = h
      /\ \A i, j \in 1..Len(labels) : labels[i].name = labels[j].name => i = j
  BY DEF LabelsFit
<1>4. \A i \in 1..Len(labels) :
        labels[i].type = "offset" => /\ labels[i].name \notin Sections
                                     /\ labels[i].base \in 1..Len(labels)
                                     /\ labels[labels[i].base].name \in Sections
  BY DEF LabelsFit
<1>5. h2 \in 0..Len(more)
  BY <1>1, <1>3
<1>6. ASSUME NEW i \in 1..Len(more)
      PROVE  more[i].name = Nameless <=> i = h2
  <2>1. CASE l.name = Nameless
    BY <1>1, <2>1
  <2>2. CASE l.name # Nameless /\ i = k
    <3>1. k # h
      BY <1>1, <1>3, <2>2
    <3> QED BY <1>1, <2>2, <3>1
  <2>3. CASE l.name # Nameless /\ i # k
    BY <1>1, <1>3, <2>3
  <2> QED BY <2>1, <2>2, <2>3
<1>7. ASSUME NEW i \in 1..Len(more), NEW j \in 1..Len(more), more[i].name = more[j].name
      PROVE  i = j
  <2>1. CASE i = k \/ j = k
    BY <1>1, <1>7, <2>1
  <2>2. CASE i # k /\ j # k
    BY <1>1, <1>3, <1>7, <2>2
  <2> QED BY <2>1, <2>2
<1>8. ASSUME NEW i \in 1..Len(more), more[i].type = "offset"
      PROVE  /\ more[i].name \notin Sections
             /\ more[i].base \in 1..Len(more)
             /\ more[more[i].base].name \in Sections
  <2>1. CASE i = k
    <3>1. more[i] = l
      BY <1>2, <2>1
    <3>2. l.type = "offset"
      BY <1>8, <3>1
    <3> QED BY <1>1, <3>1, <3>2
  <2>2. CASE i # k
    <3>1. i \in 1..Len(labels) /\ more[i] = labels[i]
      BY <1>1, <2>2
    <3>2. /\ labels[i].name \notin Sections /\ labels[i].base \in 1..Len(labels)
          /\ labels[labels[i].base].name \in Sections
      BY <1>4, <1>8, <3>1
    <3> QED BY <1>1, <3>1, <3>2
  <2> QED BY <2>1, <2>2
<1> HIDE DEF h2
<1>9. LabelsFit(more, h2)
  BY <1>2, <1>5, <1>6, <1>7, <1>8 DEF LabelsFit
<1> QED BY <1>9 DEF h2

\* A label keeps its number.
LEMMA PutsIndex ==
  ASSUME NEW labels, NEW h, LabelsFit(labels, h), NEW more, NEW k, NEW l, Puts(labels, more, k, l),
         LabelsFit(more, IF l.name = Nameless THEN k ELSE h), NEW key \in AllKeys
  PROVE  LET h2 == IF l.name = Nameless THEN k ELSE h
         IN  IF key = KeyOf(l.name) THEN /\ IndexOf(more, h2, key) = k
                                         /\ IndexOf(labels, h, key) \in {0, k}
             ELSE IndexOf(more, h2, key) = IndexOf(labels, h, key) /\ IndexOf(more, h2, key) # k
<1> DEFINE h2 == IF l.name = Nameless THEN k ELSE h
           i == IndexOf(labels, h, key)
           j == IndexOf(more, h2, key)
<1>1. /\ Len(labels) \in Nat /\ Len(more) \in Nat /\ Len(labels) <= Len(more)
      /\ k \in 1..Len(more) /\ more[k].name = l.name
      /\ \A m \in 1..Len(labels) : m \in 1..Len(more) /\ more[m].name = labels[m].name
      /\ \A m \in 1..Len(more) : m = k \/ (m \in 1..Len(labels) /\ more[m] = labels[m])
      /\ \A m \in 1..Len(more) : more[m].name = l.name <=> m = k
  BY PutsNames
<1>2. /\ i \in 0..Len(labels)
      /\ i # 0 => labels[i].name = NameOf(key)
      /\ \A m \in 1..Len(labels) : labels[m].name = NameOf(key) <=> m = i
  BY IndexIs
<1>3. LabelsFit(more, h2)
  OBVIOUS
<1> HIDE DEF h2
<1>4. /\ j \in 0..Len(more)
      /\ j # 0 => more[j].name = NameOf(key)
      /\ \A m \in 1..Len(more) : more[m].name = NameOf(key) <=> m = j
  BY <1>3, IndexIs
<1>5. l.name \in Sections \cup {Func, Str, Nameless}
  BY DEF Puts, LabelRecs
<1> HIDE DEF i, j
<1>6. CASE key = KeyOf(l.name)
  <2>1. NameOf(key) = l.name
    BY <1>5, <1>6, NamesApart
  <2>2. j = k
    BY <1>1, <1>4, <2>1
  <2>3. i \in {0, k}
    BY <1>1, <1>2, <2>1
  <2> QED BY <1>6, <2>2, <2>3 DEF i, j, h2
<1>7. CASE key # KeyOf(l.name)
  <2>1. NameOf(key) # l.name
    BY <1>7, NamesApart
  <2>2. j # k
    BY <1>1, <1>4, <2>1
  <2>3. i # 0 => j = i
    BY <1>1, <1>2, <1>4
  <2>4. j # 0 => j \in 1..Len(labels) /\ labels[j].name = NameOf(key)
    BY <1>1, <1>4, <2>2
  <2>5. j = i
    BY <1>2, <2>3, <2>4
  <2> QED BY <1>7, <2>2, <2>5 DEF i, j, h2
<1> QED BY <1>6, <1>7

\* What a label stands for stays as it is while another one is put.
LEMMA PutsStands ==
  ASSUME NEW labels, NEW h, LabelsFit(labels, h), NEW more, NEW k, NEW l, Puts(labels, more, k, l),
         NEW mem, NEW mem2, NEW as, NEW i \in 1..Len(labels), i # k,
         Stands(labels, mem, labels[i], as), as[1] = "data" => mem2 = mem
  PROVE  Stands(more, mem2, more[i], as)
<1>1. /\ more[i] = labels[i]
      /\ \A m \in 1..Len(labels) : more[m].name = labels[m].name
  BY PutsNames DEF Puts
<1>2. labels[i].type = "offset" => labels[i].base \in 1..Len(labels)
  BY DEF LabelsFit
<1>3. CASE as[1] = "data"
  BY <1>1, <1>2, <1>3 DEF Stands
<1>4. CASE as[1] # "data"
  BY <1>1, <1>2, <1>4 DEF Stands
<1> QED BY <1>3, <1>4

\* What the name of a label that is put stands for changes, and no other.
Renamed(d, d2, more, mem2, l) ==
  /\ DOMAIN d2 \subseteq LabelNames
  /\ \A key \in LabelNames : key # KeyOf(l.name) => /\ key \in DOMAIN d2 <=> key \in DOMAIN d
                                                    /\ key \in DOMAIN d => d2[key] = d[key]
  /\ KeyOf(l.name) \in DOMAIN d2 =>
       /\ Stands(more, mem2, l, d2[KeyOf(l.name)])
       /\ d2[KeyOf(l.name)][1] = "data" <=> l.name = Str
       /\ d2[KeyOf(l.name)][1] = "host" => l.name = Func
  /\ KeyOf(l.name) \in LabelNames \ DOMAIN d2 => l.type = "invalid"

LEMMA PutsDefs ==
  ASSUME NEW labels, NEW h, LabelsFit(labels, h), NEW more, NEW k, NEW l, Puts(labels, more, k, l),
         LabelsFit(more, IF l.name = Nameless THEN k ELSE h),
         NEW mem, NEW mem2, mem2 = mem \/ l.name = Str,
         NEW d, NEW d2, DefsFit(labels, mem, h, d),
         Renamed(d, d2, more, mem2, l)
  PROVE  DefsFit(more, mem2, IF l.name = Nameless THEN k ELSE h, d2)
<1> DEFINE h2 == IF l.name = Nameless THEN k ELSE h
<1>1. LabelsFit(more, h2)
  OBVIOUS
<1>0. /\ DOMAIN d2 \subseteq LabelNames
      /\ \A key \in LabelNames : key # KeyOf(l.name) => /\ key \in DOMAIN d2 <=> key \in DOMAIN d
                                                        /\ key \in DOMAIN d => d2[key] = d[key]
      /\ KeyOf(l.name) \in DOMAIN d2 =>
           /\ Stands(more, mem2, l, d2[KeyOf(l.name)])
           /\ d2[KeyOf(l.name)][1] = "data" <=> l.name = Str
           /\ d2[KeyOf(l.name)][1] = "host" => l.name = Func
      /\ KeyOf(l.name) \in LabelNames \ DOMAIN d2 => l.type = "invalid"
  BY DEF Renamed
<1>2. l.name \in Sections \cup {Func, Str, Nameless} /\ more[k] = l
  BY DEF Puts, LabelRecs
<1>3. ASSUME NEW key \in LabelNames
      PROVE  /\ key = KeyOf(l.name) => IndexOf(more, h2, key) = k
             /\ key # KeyOf(l.name) => /\ IndexOf(more, h2, key) = IndexOf(labels, h, key)
                                       /\ IndexOf(more, h2, key) # k
             /\ IndexOf(labels, h, key) \in 0..Len(labels)
  <2>1. key \in AllKeys
    BY DEF AllKeys
  <2>2. IndexOf(labels, h, key) \in 0..Len(labels)
    BY <2>1, IndexIs
  <2> QED BY <2>1, <2>2, PutsIndex
<1> HIDE DEF h2
<1>4. ASSUME NEW key \in DOMAIN d2
      PROVE  LET j == IndexOf(more, h2, key)
             IN  /\ j # 0 /\ Stands(more, mem2, more[j], d2[key])
                 /\ d2[key][1] = "data" <=> key = Str
                 /\ d2[key][1] = "host" => key = Func
  <2>1. key \in LabelNames
    BY <1>0
  <2>2. CASE key = KeyOf(l.name)
    <3>1. IndexOf(more, h2, key) = k
      BY <1>3, <2>1, <2>2
    <3>2. k # 0
      BY DEF Puts
    <3>3. (l.name = Str <=> key = Str) /\ (l.name = Func <=> key = Func)
      BY <1>2, <2>2, NamesApart DEF KeyOf
    <3> QED BY <1>0, <1>2, <2>2, <3>1, <3>2, <3>3
  <2>3. CASE key # KeyOf(l.name)
    <3>1. PICK i \in 0..Len(labels) : i = IndexOf(labels, h, key) /\ i = IndexOf(more, h2, key)
      BY <1>3, <2>1, <2>3
    <3>2. i # k
      BY <1>3, <2>1, <2>3, <3>1
    <3>3. key \in DOMAIN d /\ d2[key] = d[key]
      BY <1>0, <2>1, <2>3
    <3>4. /\ i # 0 /\ Stands(labels, mem, labels[i], d[key])
          /\ d[key][1] = "data" <=> key = Str
          /\ d[key][1] = "host" => key = Func
      BY <3>1, <3>3 DEF DefsFit
    <3>5. d[key][1] = "data" => mem2 = mem
      BY <1>2, <2>3, <3>4, NamesApart DEF KeyOf
    <3>6. i \in 1..Len(labels)
      BY <3>1, <3>4
    <3>7. Stands(more, mem2, more[i], d[key])
      BY <3>2, <3>4, <3>5, <3>6, PutsStands
    <3> QED BY <3>1, <3>3, <3>4, <3>7
  <2> QED BY <2>2, <2>3
<1>5. ASSUME NEW key \in LabelNames \ DOMAIN d2
      PROVE  LET j == IndexOf(more, h2, key) IN j # 0 => more[j].type = "invalid"
  <2>1. CASE key = KeyOf(l.name)
    BY <1>0, <1>2, <1>3, <2>1
  <2>2. CASE key # KeyOf(l.name)
    <3>1. PICK i \in 0..Len(labels) : i = IndexOf(labels, h, key) /\ i = IndexOf(more, h2, key)
      BY <1>3, <2>2
    <3>2. i # k
      BY <1>3, <2>2, <3>1
    <3>3. key \in LabelNames \ DOMAIN d
      BY <1>0, <2>2
    <3>4. i # 0 => labels[i].type = "invalid"
      BY <3>1, <3>3 DEF DefsFit
    <3>5. i # 0 => more[i] = labels[i]
      BY <3>2 DEF Puts
    <3> QED BY <3>1, <3>4, <3>5
  <2> QED BY <2>1, <2>2
<1>6. DefsFit(more, mem2, h2, d2)
  BY <1>0, <1>4, <1>5 DEF DefsFit
<1> QED BY <1>6 DEF h2

LEMMA PutsRelocs ==
  ASSUME NEW labels, NEW h, LabelsFit(labels, h), NEW more, NEW k, NEW l, Puts(labels, more, k, l),
         LabelsFit(more, IF l.name = Nameless THEN k ELSE h),
         NEW p \in Seq(Meant), MeantFits(p), NEW relocs, RelocsFit(relocs, p, labels, h),
         relocs \in Seq(RelocRecs)
  PROVE  RelocsFit(relocs, p, more, IF l.name = Nameless THEN k ELSE h)
<1> DEFINE h2 == IF l.name = Nameless THEN k ELSE h
<1>1. LabelsFit(more, h2)
  OBVIOUS
<1>2. ASSUME NEW key \in AllKeys, IndexOf(labels, h, key) # 0
      PROVE  IndexOf(more, h2, key) = IndexOf(labels, h, key)
  BY <1>2, PutsIndex
<1> HIDE DEF h2
<1>3. ASSUME NEW r \in 1..Len(relocs)
      PROVE  /\ relocs[r].offset + 1 \in 1..Len(p)
             /\ p[relocs[r].offset + 1].type = relocs[r].type
             /\ relocs[r].label = IndexOf(more, h2, p[relocs[r].offset + 1].label)
             /\ relocs[r].label # 0
  <2>1. /\ relocs[r].offset + 1 \in 1..Len(p)
        /\ p[relocs[r].offset + 1].type = relocs[r].type
        /\ relocs[r].label = IndexOf(labels, h, p[relocs[r].offset + 1].label)
        /\ relocs[r].label # 0
    BY DEF RelocsFit
  <2>2. relocs[r].type # "none"
    <3>1. relocs[r] \in RelocRecs
      OBVIOUS
    <3> QED BY <3>1 DEF RelocRecs, RefTypes
  <2>3. p[relocs[r].offset + 1].label \in AllKeys
    BY <2>1, <2>2 DEF MeantFits, AllKeys
  <2>4. IndexOf(more, h2, p[relocs[r].offset + 1].label)
          = IndexOf(labels, h, p[relocs[r].offset + 1].label)
    BY <1>2, <2>1, <2>3
  <2> QED BY <2>1, <2>4
<1>4. RelocsFit(relocs, p, more, h2)
  BY <1>3 DEF RelocsFit
<1> QED BY <1>4 DEF h2

-----------------------------------------------------------------------------
(* A generator that gets a label.                                          *)

LEMMA GeneratorParts ==
  ASSUME NEW g \in Generators
  PROVE  /\ g.code \in Arrays(Instrs \cup {Zero}) /\ g.sources \in Arrays(Nat \cup {Zero})
         /\ g.cursrc \in Nat /\ g.staticdata \in Arrays(Chars)
         /\ g.labels \in Seq(LabelRecs) /\ g.relocs \in Seq(RelocRecs)
  BY DEF Generators

\* The same generator, but for its labels and its data.
Relabeled(g, g2) ==
  /\ g2 \in Generators
  /\ g2.code = g.code /\ g2.sources = g.sources /\ g2.cursrc = g.cursrc /\ g2.relocs = g.relocs

LEMMA WithLabels ==
  ASSUME NEW g \in Generators, NEW more \in Seq(LabelRecs)
  PROVE  LET g2 == [g EXCEPT !.labels = more]
         IN  Relabeled(g, g2) /\ g2.labels = more /\ g2.staticdata = g.staticdata
  BY DEF Generators, Relabeled

LEMMA PutFits ==
  ASSUME NEW g, NEW p, NEW d, NEW h, ProgramFits(g, p, d, h),
         NEW more, NEW k, NEW l, Puts(g.labels, more, k, l),
         l.type = "offset" => /\ l.name \notin Sections
                              /\ l.base \in 1..Len(g.labels) /\ g.labels[l.base].name \in Sections,
         NEW g2, Relabeled(g, g2), g2.labels = more,
         g2.staticdata = g.staticdata \/ l.name = Str,
         NEW d2, Renamed(d, d2, more, g2.staticdata, l)
  PROVE  ProgramFits(g2, p, d2, IF l.name = Nameless THEN k ELSE h)
<1> DEFINE h2 == IF l.name = Nameless THEN k ELSE h
<1>1. /\ g \in Generators /\ p \in Seq(Meant) /\ MeantFits(p) /\ CodeFits(g, p)
      /\ LabelsFit(g.labels, h) /\ DefsFit(g.labels, g.staticdata, h, d)
      /\ RelocsFit(g.relocs, p, g.labels, h)
  BY DEF ProgramFits
<1>2. /\ g2 \in Generators
      /\ g2.code = g.code /\ g2.sources = g.sources /\ g2.cursrc = g.cursrc /\ g2.relocs = g.relocs
  BY DEF Relabeled
<1>3. LabelsFit(more, h2)
  BY <1>1, PutsLabels
<1>4. DefsFit(more, g2.staticdata, h2, d2)
  <2>1. LabelsFit(more, IF l.name = Nameless THEN k ELSE h)
    BY <1>3
  <2> QED BY <1>1, <2>1, PutsDefs
<1>5. RelocsFit(g2.relocs, p, more, h2)
  <2>1. LabelsFit(more, IF l.name = Nameless THEN k ELSE h)
    BY <1>3
  <2>2. g.relocs \in Seq(RelocRecs)
    BY <1>1, GeneratorParts
  <2> QED BY <1>1, <1>2, <2>1, <2>2, PutsRelocs
<1>6. CodeFits(g2, p)
  BY <1>1, <1>2 DEF CodeFits
<1> HIDE DEF h2
<1>7. ProgramFits(g2, p, d2, h2)
  BY <1>1, <1>2, <1>3, <1>4, <1>5, <1>6 DEF ProgramFits
<1> QED BY <1>7 DEF h2

\* A label that is not there yet stands for nothing, and a section for itself.
LEMMA SectionRenames ==
  ASSUME NEW d, DOMAIN d \subseteq LabelNames, NEW more, NEW mem, NEW l, l.name \in Sections
  PROVE  Renamed(d, d, more, mem, l)
<1>1. KeyOf(l.name) \notin LabelNames
  BY NamesApart DEF KeyOf
<1> QED BY <1>1 DEF Renamed

LEMMA BasedFits ==
  ASSUME NEW g, NEW p, NEW d, NEW h, ProgramFits(g, p, d, h), NEW section \in Sections
  PROVE  LET g2 == Based(g, section)
         IN  /\ ProgramFits(g2, p, d, h) /\ Relabeled(g, g2) /\ g2.staticdata = g.staticdata
             /\ Find(g2.labels, section) \in 1..Len(g2.labels)
             /\ g2.labels[Find(g2.labels, section)].name = section
             /\ Len(g.labels) <= Len(g2.labels)
             /\ \A i \in 1..Len(g.labels) : g2.labels[i].name = g.labels[i].name
<1> DEFINE labels == g.labels
           more == LookupAdd(labels, section)
           g2 == Based(g, section)
<1>1. g \in Generators /\ LabelsFit(labels, h) /\ labels \in Seq(LabelRecs) /\ DOMAIN d \subseteq LabelNames
  BY DEF ProgramFits, LabelsFit, DefsFit
<1>2. section \in AllKeys /\ NameOf(section) = section /\ section # Anon /\ section # Nameless
  BY DEF AllKeys, NameOf, Sections, Anon, Nameless
<1>3. g2 = [g EXCEPT !.labels = more]
  BY DEF Based
<1>4. CASE Find(labels, section) # 0
  <2>1. more = labels
    BY <1>4 DEF LookupAdd
  <2>2. g2 = g
    BY <1>1, <1>3, <2>1 DEF Generators
  <2>3. Find(labels, section) \in 1..Len(labels) /\ labels[Find(labels, section)].name = section
    BY <1>1, <1>2, <1>4, FindIs
  <2>4. Len(labels) \in Nat
    BY <1>1
  <2> QED BY <1>1, <2>2, <2>3, <2>4 DEF Relabeled
<1>5. CASE Find(labels, section) = 0
  <2> DEFINE l == Label("invalid", 0, 0, section)
  <2>1. more = AddAs(labels, NameOf(section), "invalid", 0, 0)
    BY <1>2, <1>5 DEF LookupAdd, InvalidAdd
  <2>2. PICK k \in 1..(Len(labels) + 1) : Puts(labels, more, k, l)
    <3>1. PutFor(labels, AddAs(labels, NameOf(section), "invalid", 0, 0), section,
                 Label("invalid", 0, 0, NameOf(section)))
      BY <1>1, <1>2, AddAsPuts
    <3> QED BY <1>2, <2>1, <3>1 DEF PutFor
  <2>3. l.name = section /\ l.type = "invalid"
    BY DEF Label
  <2>4. more \in Seq(LabelRecs)
    BY <2>2 DEF Puts
  <2>5. Relabeled(g, g2) /\ g2.labels = more /\ g2.staticdata = g.staticdata
    BY <1>1, <1>3, <2>4, WithLabels
  <2> HIDE DEF l, more, g2
  <2>6. Renamed(d, d, more, g2.staticdata, l)
    BY <1>1, <2>3, SectionRenames
  <2>7. ProgramFits(g2, p, d, h)
    <3>1. l.name # Nameless /\ l.type # "offset"
      BY <1>2, <2>3
    <3>2. ProgramFits(g2, p, d, IF l.name = Nameless THEN k ELSE h)
      BY <2>2, <2>5, <2>6, <3>1, PutFits
    <3> QED BY <3>1, <3>2
  <2>8. /\ Len(labels) <= Len(more) /\ k \in 1..Len(more) /\ more[k].name = section
        /\ \A i \in 1..Len(labels) : more[i].name = labels[i].name
    BY <1>1, <2>2, <2>3, PutsNames
  <2>9. Find(more, section) \in 1..Len(more) /\ more[Find(more, section)].name = section
    <3>1. /\ Find(more, section) \in 0..Len(more)
          /\ Find(more, section) # 0 => more[Find(more, section)].name = section
          /\ Find(more, section) = 0 => \A i \in 1..Len(more) : more[i].name # section
      BY <1>2, <2>4, FindIs
    <3> QED BY <2>8, <3>1
  <2> QED BY <2>5, <2>7, <2>8, <2>9 DEF g2
<1> QED BY <1>4, <1>5

LEMMA GivenRenames ==
  ASSUME NEW d, DOMAIN d \subseteq LabelNames, NEW key \in LabelNames, NEW as, NEW more, NEW mem, NEW l,
         l.name = NameOf(key), Stands(more, mem, l, as),
         as[1] = "data" <=> key = Str, as[1] = "host" => key = Func
  PROVE  Renamed(d, Given(d, key, as), more, mem, l)
<1> DEFINE d2 == Given(d, key, as)
<1>1. /\ DOMAIN d2 = DOMAIN d \cup {key} /\ d2[key] = as
      /\ \A x \in DOMAIN d : x # key => d2[x] = d[x]
  BY DEF Given
<1>2. KeyOf(l.name) = key /\ (l.name = Str <=> key = Str) /\ (l.name = Func <=> key = Func)
  BY DEF KeyOf, NameOf, LabelNames, Func, Str, Anon, Nameless
<1> HIDE DEF d2
<1>3. \A x \in LabelNames : x # key => (x \in DOMAIN d2 <=> x \in DOMAIN d) /\ (x \in DOMAIN d => d2[x] = d[x])
  BY <1>1
<1>4. DOMAIN d2 \subseteq LabelNames
  BY <1>1
<1>5. key \in DOMAIN d2
  BY <1>1
<1>6. Renamed(d, d2, more, mem, l)
  BY <1>1, <1>2, <1>3, <1>4, <1>5 DEF Renamed
<1> QED BY <1>6 DEF d2

LEMMA LostRenames ==
  ASSUME NEW d, DOMAIN d \subseteq LabelNames, NEW key \in LabelNames, NEW d2, NEW more, NEW mem, NEW l,
         l.name = NameOf(key), l.type = "invalid",
         DOMAIN d2 = DOMAIN d \ {key}, \A x \in DOMAIN d2 : d2[x] = d[x]
  PROVE  Renamed(d, d2, more, mem, l)
<1>1. KeyOf(l.name) = key
  BY DEF KeyOf, NameOf, LabelNames, Func, Str, Anon, Nameless
<1> QED BY <1>1 DEF Renamed

LEMMA AddLabelFits ==
  ASSUME NEW g, NEW p, NEW d, NEW h, ProgramFits(g, p, d, h),
         NEW key \in {Func, Anon}, key = Anon => h = 0, NEW n \in Nat
  PROVE  LET g2 == AddLabel(g, NameOf(key), n)
         IN  /\ ProgramFits(g2, p, Given(d, key, <<"code", n>>), IF key = Anon THEN Len(g2.labels) ELSE h)
             /\ Relabeled(g, g2)
<1> DEFINE based == Based(g, ".code")
           labels == based.labels
           b == Find(labels, ".code")
           l == Label("offset", b, n * InsSize, NameOf(key))
           more == AddOffset(labels, NameOf(key), b, n * InsSize)
           g2 == AddLabel(g, NameOf(key), n)
           as == <<"code", n>>
<1>1. ".code" \in Sections
  BY DEF Sections
<1>2. /\ ProgramFits(based, p, d, h) /\ Relabeled(g, based)
      /\ b \in 1..Len(labels) /\ labels[b].name = ".code"
  BY <1>1, BasedFits
<1>3. n * InsSize \in Nat
  BY CodeAssumption
<1>4. key \in AllKeys /\ key \in LabelNames
  BY DEF AllKeys, LabelNames
<1>5. g2 = [based EXCEPT !.labels = more]
  BY DEF AddLabel
<1>6. more = AddAs(labels, NameOf(key), "offset", b, n * InsSize)
  BY DEF AddOffset
<1> HIDE DEF based, more, g2, b
<1>7. based \in Generators /\ LabelsFit(labels, h) /\ DOMAIN d \subseteq LabelNames
  BY <1>2 DEF ProgramFits, DefsFit
<1>8. PICK k \in 1..(Len(labels) + 1) : Puts(labels, more, k, l) /\ (key = Anon => k = Len(more))
  <2> DEFINE v == n * InsSize
  <2>1. b \in Nat /\ v \in Nat
    BY <1>2, <1>3
  <2>2. "offset" \in {"offset", "pointer", "invalid"}
    OBVIOUS
  <2> HIDE DEF v, labels
  <2>3. LabelsFit(labels, h)
    BY <1>7
  <2>4. PutFor(labels, AddAs(labels, NameOf(key), "offset", b, v), key,
               Label("offset", b, v, NameOf(key)))
    BY <1>4, <2>1, <2>2, <2>3, AddAsPuts
  <2> QED BY <1>6, <2>4 DEF v, PutFor
<1>9. Relabeled(based, g2) /\ g2.labels = more /\ g2.staticdata = based.staticdata
  <2>1. more \in Seq(LabelRecs)
    BY <1>8 DEF Puts
  <2> QED BY <1>5, <1>7, <2>1, WithLabels
<1>10. l.type = "offset" /\ l.base = b /\ l.value = n * InsSize /\ l.name = NameOf(key)
  BY DEF Label
<1> HIDE DEF l, labels
<1>11. more[b].name = ".code"
  BY <1>2, <1>7, <1>8, PutsNames
<1>12. Stands(more, g2.staticdata, l, as)
  BY <1>10, <1>11 DEF Stands
<1>13. Renamed(d, Given(d, key, as), more, g2.staticdata, l)
  <2>1. as[1] = "code" /\ key # Str
    BY DEF Func, Str, Anon
  <2> HIDE DEF as
  <2> QED BY <1>4, <1>7, <1>10, <1>12, <2>1, GivenRenames
<1>14. l.name \notin Sections /\ (l.name = Nameless <=> key = Anon)
  BY <1>10 DEF NameOf, Func, Anon, Nameless, Sections
<1>15. ProgramFits(g2, p, Given(d, key, as), IF l.name = Nameless THEN k ELSE h)
  <2>1. based.labels = labels
    BY DEF labels
  <2>2. l.type = "offset" => /\ l.name \notin Sections
                             /\ l.base \in 1..Len(labels) /\ labels[l.base].name \in Sections
    BY <1>1, <1>2, <1>10, <1>14
  <2> QED BY <1>2, <1>8, <1>9, <1>13, <2>1, <2>2, PutFits
<1>16. (IF l.name = Nameless THEN k ELSE h) = IF key = Anon THEN Len(g2.labels) ELSE h
  BY <1>8, <1>9, <1>14
<1>17. Relabeled(g, g2)
  BY <1>2, <1>9 DEF Relabeled
<1> QED BY <1>15, <1>16, <1>17 DEF g2

LEMMA InvalidAddLabelFits ==
  ASSUME NEW g, NEW p, NEW d, NEW h, ProgramFits(g, p, d, h),
         NEW key \in {Func, Anon}, key = Anon => h = 0, NEW d2,
         DOMAIN d2 = DOMAIN d \ {key}, \A x \in DOMAIN d2 : d2[x] = d[x]
  PROVE  LET g2 == InvalidAddLabel(g, NameOf(key))
         IN  ProgramFits(g2, p, d2, IF key = Anon THEN Len(g2.labels) ELSE h)
<1> DEFINE labels == g.labels
           l == Label("invalid", 0, 0, NameOf(key))
           more == InvalidAdd(labels, NameOf(key))
           g2 == InvalidAddLabel(g, NameOf(key))
<1>1. g \in Generators /\ LabelsFit(labels, h) /\ DOMAIN d \subseteq LabelNames
  BY DEF ProgramFits, DefsFit
<1>2. key \in AllKeys /\ key \in LabelNames
  BY DEF AllKeys, LabelNames
<1>3. g2 = [g EXCEPT !.labels = more]
  BY DEF InvalidAddLabel
<1>4. more = AddAs(labels, NameOf(key), "invalid", 0, 0)
  BY DEF InvalidAdd
<1> HIDE DEF more, g2
<1>5. PICK k \in 1..(Len(labels) + 1) : Puts(labels, more, k, l) /\ (key = Anon => k = Len(more))
  <2>1. "invalid" \in {"offset", "pointer", "invalid"} /\ 0 \in Nat
    OBVIOUS
  <2> HIDE DEF labels
  <2>2. PutFor(labels, AddAs(labels, NameOf(key), "invalid", 0, 0), key,
               Label("invalid", 0, 0, NameOf(key)))
    BY <1>1, <1>2, <2>1, AddAsPuts
  <2> QED BY <1>4, <2>2 DEF PutFor
<1>6. Relabeled(g, g2) /\ g2.labels = more /\ g2.staticdata = g.staticdata
  <2>1. more \in Seq(LabelRecs)
    BY <1>5 DEF Puts
  <2> QED BY <1>1, <1>3, <2>1, WithLabels
<1>7. l.type = "invalid" /\ l.name = NameOf(key)
  BY DEF Label
<1> HIDE DEF l
<1>8. Renamed(d, d2, more, g2.staticdata, l)
  BY <1>1, <1>2, <1>7, LostRenames
<1>9. l.name = Nameless <=> key = Anon
  BY <1>7 DEF NameOf, Func, Anon, Nameless
<1>10. ProgramFits(g2, p, d2, IF l.name = Nameless THEN k ELSE h)
  BY <1>5, <1>6, <1>7, <1>8, PutFits
<1>11. (IF l.name = Nameless THEN k ELSE h) = IF key = Anon THEN Len(g2.labels) ELSE h
  BY <1>5, <1>6, <1>9
<1> QED BY <1>10, <1>11 DEF g2

LEMMA RedefineLabelFits ==
  ASSUME NEW g, NEW p, NEW d, NEW h, ProgramFits(g, p, d, h), h # 0, NEW n \in Nat
  PROVE  ProgramFits(RedefineLabel(g, h, n), p, Given(d, Anon, <<"code", n>>), h)
<1> DEFINE based == Based(g, ".code")
           labels == based.labels
           b == Find(labels, ".code")
           l == Label("offset", b, n * InsSize, labels[h].name)
           more == SetLabel(labels, h, "offset", b, n * InsSize)
           g2 == RedefineLabel(g, h, n)
           as == <<"code", n>>
<1>1. ".code" \in Sections /\ Anon \in LabelNames
  BY DEF Sections, LabelNames
<1>2. /\ ProgramFits(based, p, d, h) /\ Relabeled(g, based)
      /\ b \in 1..Len(labels) /\ labels[b].name = ".code"
  BY <1>1, BasedFits
<1>3. n * InsSize \in Nat
  BY CodeAssumption
<1>4. g2 = [based EXCEPT !.labels = more]
  BY DEF RedefineLabel
<1> HIDE DEF based, more, g2, b
<1>5. based \in Generators /\ LabelsFit(labels, h) /\ DOMAIN d \subseteq LabelNames
  BY <1>2 DEF ProgramFits, DefsFit
<1>6. h \in 1..Len(labels) /\ labels[h].name = Nameless
  BY <1>5 DEF LabelsFit
<1>7. Puts(labels, more, h, l)
  <2>1. b \in Nat
    BY <1>2
  <2>2. Puts(labels, SetLabel(labels, h, "offset", b, n * InsSize), h,
             Label("offset", b, n * InsSize, labels[h].name))
    <3> DEFINE v == n * InsSize
    <3>1. v \in Nat
      BY <1>3
    <3> HIDE DEF v, labels
    <3>2. Puts(labels, SetLabel(labels, h, "offset", b, v), h, Label("offset", b, v, labels[h].name))
      BY <1>5, <1>6, <2>1, <3>1, SetLabelPuts
    <3> QED BY <3>2 DEF v
  <2> QED BY <2>2 DEF more
<1>8. Relabeled(based, g2) /\ g2.labels = more /\ g2.staticdata = based.staticdata
  <2>1. more \in Seq(LabelRecs)
    BY <1>7 DEF Puts
  <2> QED BY <1>4, <1>5, <2>1, WithLabels
<1>9. l.type = "offset" /\ l.base = b /\ l.value = n * InsSize /\ l.name = Nameless
  BY <1>6 DEF Label
<1>10. l.name = NameOf(Anon) /\ l.name \notin Sections
  BY <1>9 DEF NameOf, Nameless, Sections
<1> HIDE DEF l, labels
<1>11. more[b].name = ".code"
  BY <1>2, <1>5, <1>7, PutsNames
<1>12. Stands(more, g2.staticdata, l, as)
  BY <1>9, <1>11 DEF Stands
<1>13. Renamed(d, Given(d, Anon, as), more, g2.staticdata, l)
  <2>1. as[1] = "code" /\ Anon # Str
    BY DEF Str, Anon
  <2> HIDE DEF as
  <2> QED BY <1>1, <1>5, <1>10, <1>12, <2>1, GivenRenames
<1>14. ProgramFits(g2, p, Given(d, Anon, as), IF l.name = Nameless THEN h ELSE h)
  <2>1. based.labels = labels
    BY DEF labels
  <2>2. l.type = "offset" => /\ l.name \notin Sections
                             /\ l.base \in 1..Len(labels) /\ labels[l.base].name \in Sections
    BY <1>1, <1>2, <1>9, <1>10
  <2> QED BY <1>2, <1>7, <1>8, <1>13, <2>1, <2>2, PutFits
<1> QED BY <1>14 DEF g2

LEMMA RedefinePointerFits ==
  ASSUME NEW g, NEW p, NEW d, NEW h, ProgramFits(g, p, d, h), Find(g.labels, Func) # 0
  PROVE  ProgramFits(RedefinePointer(g, Find(g.labels, Func), Host), p,
                     Given(d, Func, <<"host", Host>>), h)
<1> DEFINE labels == g.labels
           f == Find(labels, Func)
           l == Label("pointer", 0, Host, labels[f].name)
           more == SetLabel(labels, f, "pointer", 0, Host)
           g2 == RedefinePointer(g, f, Host)
           as == <<"host", Host>>
<1>1. g \in Generators /\ LabelsFit(labels, h) /\ DOMAIN d \subseteq LabelNames
  BY DEF ProgramFits, DefsFit
<1>2. f \in 1..Len(labels) /\ labels[f].name = Func
  <2>1. labels \in Seq(LabelRecs) /\ Func # Nameless
    BY <1>1 DEF LabelsFit, Func, Nameless
  <2> QED BY <2>1, FindIs
<1>3. Host \in Nat
  BY CodeAssumption DEF Host
<1>4. g2 = [g EXCEPT !.labels = more]
  BY DEF RedefinePointer
<1>5. Func \in LabelNames /\ NameOf(Func) = Func /\ Func # Str /\ Func # Nameless
  BY DEF LabelNames, NameOf, Func, Str, Anon, Nameless
<1> HIDE DEF f, more, g2
<1>6. Puts(labels, more, f, l)
  <2> HIDE DEF labels
  <2> QED BY <1>1, <1>2, <1>3, SetLabelPuts DEF more
<1>7. Relabeled(g, g2) /\ g2.labels = more /\ g2.staticdata = g.staticdata
  <2>1. more \in Seq(LabelRecs)
    BY <1>6 DEF Puts
  <2> QED BY <1>1, <1>4, <2>1, WithLabels
<1>8. l.type = "pointer" /\ l.value = Host /\ l.name = Func
  BY <1>2 DEF Label
<1>9. as[1] = "host" /\ as[2] = Host
  OBVIOUS
<1> HIDE DEF l, as
<1>10. Stands(more, g2.staticdata, l, as)
  BY <1>8, <1>9 DEF Stands
<1>11. Renamed(d, Given(d, Func, as), more, g2.staticdata, l)
  BY <1>1, <1>5, <1>8, <1>9, <1>10, GivenRenames
<1>12. ProgramFits(g2, p, Given(d, Func, as), IF l.name = Nameless THEN f ELSE h)
  <2>1. l.type # "offset"
    BY <1>8
  <2> QED BY <1>6, <1>7, <1>11, <2>1, PutFits
<1> QED BY <1>5, <1>8, <1>12 DEF g2, f, as

-----------------------------------------------------------------------------
(* Numbers.                                                                *)

LEMMA Multiples ==
  ASSUME NEW w \in Nat \ {0}, NEW m \in Nat
  PROVE  m * w \in Nat /\ (m * w) % w = 0 /\ (m * w) \div w = m
<1> DEFINE a == m * w
           q == a \div w
           r == a % w
<1>1. a \in Nat
  OBVIOUS
<1>2. q \in Nat /\ r \in 0..(w - 1) /\ a = w * q + r
  <2> HIDE DEF a
  <2> QED BY <1>1
<1>3. m * w = w * q + r
  BY <1>2
<1> HIDE DEF a, q, r
<1>4. ~(q < m)
  <2> SUFFICES ASSUME q < m PROVE FALSE
    OBVIOUS
  <2>1. PICK e \in Nat \ {0} : m = q + e
    <3>1. m - q \in Nat \ {0} /\ m = q + (m - q)
      BY <1>2
    <3> QED BY <3>1
  <2>2. m * w = w * q + w * e
    BY <1>2, <2>1
  <2>3. w * e >= w
    BY <2>1
  <2>4. w * q \in Nat /\ w * e \in Nat
    BY <1>2, <2>1
  <2> QED BY <1>2, <1>3, <2>2, <2>3, <2>4
<1>5. ~(m < q)
  <2> SUFFICES ASSUME m < q PROVE FALSE
    OBVIOUS
  <2>1. PICK e \in Nat \ {0} : q = m + e
    <3>1. q - m \in Nat \ {0} /\ q = m + (q - m)
      BY <1>2
    <3> QED BY <3>1
  <2>2. w * q = m * w + w * e
    BY <1>2, <2>1
  <2>3. w * e >= w
    BY <2>1
  <2>4. w * q \in Nat /\ w * e \in Nat /\ m * w \in Nat
    BY <1>2, <2>1
  <2> QED BY <1>2, <1>3, <2>2, <2>3, <2>4
<1>6. q = m
  BY <1>2, <1>4, <1>5
<1>7. r = 0
  <2>1. w * q = m * w /\ w * q \in Nat
    BY <1>2, <1>6
  <2> QED BY <1>2, <1>3, <2>1
<1> QED BY <1>1, <1>6, <1>7 DEF a, q, r

\* A division in C of a distance of so many instructions.
LEMMA QuotientIs ==
  ASSUME NEW w \in Nat \ {0}, NEW m \in Int
  PROVE  Quotient(m * w, w) = m
<1>1. CASE m >= 0
  <2>1. m \in Nat
    BY <1>1
  <2>2. m * w \in Nat /\ (m * w) \div w = m
    BY <2>1, Multiples
  <2>3. ~(m * w < 0)
    BY <2>2
  <2> QED BY <2>2, <2>3 DEF Quotient
<1>2. CASE m < 0
  <2> DEFINE e == -m
  <2>1. e \in Nat \ {0} /\ m = -e
    BY <1>2
  <2>2. e * w \in Nat /\ (e * w) \div w = e
    BY <2>1, Multiples
  <2>3. m * w = -(e * w) /\ e * w > 0
    <3> HIDE DEF e
    <3> QED BY <2>1
  <2> HIDE DEF e
  <2>4. m * w < 0 /\ -(m * w) = e * w
    BY <2>2, <2>3
  <2>5. Quotient(m * w, w) = -((-(m * w)) \div w)
    BY <2>4 DEF Quotient
  <2> QED BY <2>1, <2>2, <2>4, <2>5
<1> QED BY <1>1, <1>2

LEMMA AlignedIs ==
  ASSUME NEW n \in Nat
  PROVE  Aligned(n) \in Nat /\ Aligned(n) % WordSize = 0
<1> DEFINE q == (n + WordSize - 1) \div WordSize
<1>1. q \in Nat
  BY CodeAssumption
<1>2. Aligned(n) = q * WordSize
  BY DEF Aligned
<1> HIDE DEF q
<1> QED BY <1>1, <1>2, CodeAssumption, Multiples

-----------------------------------------------------------------------------
(* A generator that gets data.                                             *)

\* rvm_codegen_adddata: the bytes, and a zero behind them.
LEMMA DataWritten ==
  ASSUME NEW mem \in Arrays(Chars), NEW bytes \in Seq(Chars), NEW start \in Nat
  PROVE  LET mem2 == WriteData(mem, start, bytes)
         IN  /\ mem2 \in Arrays(Chars)
             /\ start + Len(bytes) + 1 < mem2.len
             /\ \A k \in 1..Len(bytes) : mem2.slots[start + k - 1] = bytes[k]
             /\ mem2.slots[start + Len(bytes)] = Zero
<1> DEFINE n == Len(bytes)
           len == start + n + WordSize + 1
           room == SetLength(mem, len)
           written == [i \in 0..(n + WordSize - 1) |-> IF i < n THEN bytes[i + 1] ELSE Zero]
           mem2 == WriteData(mem, start, bytes)
           size == AllocSize(room)
           new == [i \in DOMAIN room.slots |->
                     IF i - start \in DOMAIN written THEN written[i - start] ELSE room.slots[i]]
<1>1. n \in Nat /\ WordSize \in Nat \ {0} /\ len \in Nat /\ Zero \in Chars
  BY CodeAssumption DEF Chars
<1>2. room \in Arrays(Chars) /\ room.len = len
  <2> HIDE DEF len
  <2> QED BY <1>1, SetLengthKeeps
<1>3. room.slots \in [0..(size - 1) -> Chars] /\ size \in Nat /\ len <= size
  BY <1>2, ArrayRoom
<1>4. written \in [0..(n + WordSize - 1) -> Chars]
  <2>1. \A i \in 0..(n + WordSize - 1) : i < n => i + 1 \in 1..n
    BY <1>1
  <2>2. \A i \in 1..n : bytes[i] \in Chars
    OBVIOUS
  <2> HIDE DEF n
  <2> QED BY <1>1, <2>1, <2>2 DEF n
<1>5. \A i \in 0..(n + WordSize - 1) : written[i] = IF i < n THEN bytes[i + 1] ELSE Zero
  OBVIOUS
<1> HIDE DEF size, room, written
<1>6. new \in [0..(size - 1) -> Chars]
  <2>1. DOMAIN room.slots = 0..(size - 1) /\ DOMAIN written = 0..(n + WordSize - 1)
    BY <1>3, <1>4
  <2>2. \A i \in 0..(size - 1) : room.slots[i] \in Chars
    BY <1>3
  <2>3. \A i \in DOMAIN written : written[i] \in Chars
    BY <1>4
  <2> QED BY <2>1, <2>2, <2>3
<1>7. \A i \in 0..(n + WordSize - 1) : new[start + i] = written[i]
  <2> SUFFICES ASSUME NEW i \in 0..(n + WordSize - 1) PROVE new[start + i] = written[i]
    OBVIOUS
  <2>1. start + i \in 0..(size - 1) /\ (start + i) - start = i
    BY <1>1, <1>3
  <2>2. DOMAIN room.slots = 0..(size - 1) /\ DOMAIN written = 0..(n + WordSize - 1)
    BY <1>3, <1>4
  <2>3. PICK j \in 0..(size - 1) : j = start + i
    BY <2>1
  <2>4. new[j] = IF j - start \in DOMAIN written THEN written[j - start] ELSE room.slots[j]
    BY <2>2
  <2>5. j - start = i
    BY <2>1, <2>3
  <2> QED BY <2>2, <2>3, <2>4, <2>5
<1>8. room \in [slots : UNION {[0..(k - 1) -> Chars] : k \in Nat}, len : Nat]
  BY <1>2 DEF Arrays
<1>9. mem2 = [room EXCEPT !.slots = new]
  BY DEF WriteData, room, written
<1> HIDE DEF new, len, n, room, mem2, written
<1>10. /\ mem2 \in [slots : UNION {[0..(k - 1) -> Chars] : k \in Nat}, len : Nat]
       /\ mem2.slots = new /\ mem2.len = len
  <2>1. new \in UNION {[0..(k - 1) -> Chars] : k \in Nat}
    BY <1>3, <1>6
  <2> QED BY <1>2, <1>8, <1>9, <2>1
<1>11. mem2 \in Arrays(Chars)
  <2>1. len \in 0..size
    BY <1>1, <1>3
  <2> QED BY <1>3, <1>6, <1>10, <2>1, ArrayMade
<1>12. \A k \in 1..n : mem2.slots[start + k - 1] = bytes[k]
  <2> SUFFICES ASSUME NEW k \in 1..n PROVE new[start + k - 1] = bytes[k]
    BY <1>10
  <2>1. k - 1 \in 0..(n + WordSize - 1) /\ start + (k - 1) = start + k - 1 /\ k - 1 < n /\ (k - 1) + 1 = k
    BY <1>1
  <2>2. new[start + (k - 1)] = written[k - 1]
    BY <1>7, <2>1
  <2>3. written[k - 1] = bytes[(k - 1) + 1]
    BY <1>5, <2>1
  <2> QED BY <2>1, <2>2, <2>3
<1>13. mem2.slots[start + n] = Zero
  <2>1. n \in 0..(n + WordSize - 1) /\ ~(n < n)
    BY <1>1
  <2> QED BY <1>5, <1>7, <1>10, <2>1
<1>14. start + n + 1 < mem2.len
  BY <1>1, <1>10 DEF len
<1> QED BY <1>11, <1>12, <1>13, <1>14 DEF n, mem2

\* The bytes are of a text, with its zero or without.
LEMMA AddDataFits ==
  ASSUME NEW g, NEW p, NEW d, NEW h, ProgramFits(g, p, d, h), NEW text \in Seq({"x", "y"}),
         NEW bytes, bytes = text \/ bytes = Append(text, Zero)
  PROVE  ProgramFits(AddData(g, Str, bytes), p, Given(d, Str, <<"data", text>>), h)
<1> DEFINE start == Aligned(g.staticdata.len)
           mem2 == WriteData(g.staticdata, start, bytes)
           g1 == [g EXCEPT !.staticdata = mem2]
           based == Based(g1, ".data")
           g2 == AddData(g, Str, bytes)
<1>1. g \in Generators /\ g.staticdata \in Arrays(Chars) /\ g.staticdata.len \in Nat
  BY GeneratorParts, ArrayRoom DEF ProgramFits
<1>2. start \in Nat /\ start % WordSize = 0
  BY <1>1, AlignedIs
<1>3. text \in Seq(Chars) /\ Len(text) \in Nat /\ Zero \in Chars
  BY DEF Chars
<1>4. bytes \in Seq(Chars)
  BY <1>3
<1>5. /\ mem2 \in Arrays(Chars)
      /\ start + Len(bytes) + 1 < mem2.len
      /\ \A k \in 1..Len(bytes) : mem2.slots[start + k - 1] = bytes[k]
      /\ mem2.slots[start + Len(bytes)] = Zero
  <2> HIDE DEF start
  <2> QED BY <1>1, <1>2, <1>4, DataWritten
<1>6. g2 = [based EXCEPT !.labels = AddOffset(@, Str, Find(based.labels, ".data"), start)]
  BY DEF AddData
<1> HIDE DEF mem2, start, g2
<1>7. HasText(mem2, start, text)
  <2>1. CASE bytes = text
    BY <1>2, <1>3, <1>5, <2>1, ArrayRoom DEF HasText
  <2>2. CASE bytes = Append(text, Zero)
    <3>1. /\ Len(bytes) = Len(text) + 1 /\ bytes[Len(text) + 1] = Zero
          /\ \A k \in 1..Len(text) : bytes[k] = text[k]
      BY <1>3, <2>2
    <3>2. \A k \in 1..Len(text) : k \in 1..Len(bytes)
      BY <1>3, <3>1
    <3>3. mem2.slots[start + (Len(text) + 1) - 1] = Zero /\ start + (Len(text) + 1) - 1 = start + Len(text)
      <4>1. Len(text) + 1 \in 1..Len(bytes)
        BY <1>3, <3>1
      <4> QED BY <1>2, <1>3, <1>5, <3>1, <4>1
    <3>4. start + Len(text) < mem2.len
      <4>1. mem2.len \in Nat
        BY <1>5, ArrayRoom
      <4> QED BY <1>2, <1>3, <1>5, <3>1, <4>1
    <3> QED BY <1>2, <1>5, <3>1, <3>2, <3>3, <3>4 DEF HasText
  <2> QED BY <2>1, <2>2
<1>8. ".data" \in Sections
  BY DEF Sections
<1> DEFINE base == Based(g, ".data")
           labels == base.labels
           b == Find(labels, ".data")
           l == Label("offset", b, start, Str)
           more == AddOffset(labels, Str, b, start)
           as == <<"data", text>>
<1>9. /\ ProgramFits(base, p, d, h) /\ Relabeled(g, base)
      /\ b \in 1..Len(labels) /\ labels[b].name = ".data"
  BY <1>8, BasedFits
<1>10. base \in Generators /\ LabelsFit(labels, h) /\ DOMAIN d \subseteq LabelNames /\ labels \in Seq(LabelRecs)
  BY <1>9 DEF ProgramFits, DefsFit, LabelsFit
<1>11. /\ g1 \in Generators /\ g1.staticdata = mem2 /\ g1.labels = g.labels
       /\ g1.code = g.code /\ g1.sources = g.sources /\ g1.cursrc = g.cursrc /\ g1.relocs = g.relocs
  BY <1>1, <1>5 DEF Generators
<1> HIDE DEF g1
<1>12. based = [g1 EXCEPT !.labels = labels]
  <2>1. labels = LookupAdd(g.labels, ".data")
    BY <1>1 DEF Based, Generators
  <2>2. based = [g1 EXCEPT !.labels = LookupAdd(g1.labels, ".data")]
    BY DEF Based
  <2> HIDE DEF labels, based
  <2> QED BY <1>11, <2>1, <2>2
<1> HIDE DEF based, labels, b, base
<1>13. Relabeled(g1, based) /\ based.labels = labels /\ based.staticdata = mem2
  <2>1. /\ Relabeled(g1, [g1 EXCEPT !.labels = labels])
        /\ [g1 EXCEPT !.labels = labels].labels = labels
        /\ [g1 EXCEPT !.labels = labels].staticdata = g1.staticdata
    BY <1>10, <1>11, WithLabels
  <2> QED BY <1>11, <1>12, <2>1
<1>14. g2 = [based EXCEPT !.labels = more]
  <2>1. g2 = [based EXCEPT !.labels = AddOffset(based.labels, Str, Find(based.labels, ".data"), start)]
    BY <1>6
  <2> QED BY <1>13, <2>1 DEF b
<1>15. Str \in AllKeys /\ NameOf(Str) = Str /\ Str # Anon /\ Str \in LabelNames /\ Str # Nameless /\ Str \notin Sections
  BY DEF AllKeys, NameOf, Str, Anon, LabelNames, Nameless, Sections
<1>16. PICK k \in 1..(Len(labels) + 1) : Puts(labels, more, k, l)
  <2>1. b \in Nat /\ "offset" \in {"offset", "pointer", "invalid"}
    BY <1>9
  <2>2. PutFor(labels, AddAs(labels, NameOf(Str), "offset", b, start), Str,
               Label("offset", b, start, NameOf(Str)))
    BY <1>2, <1>10, <1>15, <2>1, AddAsPuts
  <2> QED BY <1>15, <2>2 DEF PutFor, AddOffset
<1>17. g2 \in Generators /\ Relabeled(base, g2) /\ g2.labels = more /\ g2.staticdata = mem2
  <2>1. more \in Seq(LabelRecs)
    BY <1>16 DEF Puts
  <2>2. based \in Generators
    BY <1>13 DEF Relabeled
  <2> HIDE DEF more
  <2>3. Relabeled(based, g2) /\ g2.labels = more /\ g2.staticdata = based.staticdata
    BY <1>14, <2>1, <2>2, WithLabels
  <2>4. Relabeled(base, g2)
    BY <1>9, <1>11, <1>13, <2>3 DEF Relabeled
  <2> QED BY <1>13, <2>3, <2>4 DEF Relabeled
<1>18. l.type = "offset" /\ l.base = b /\ l.value = start /\ l.name = Str
  BY DEF Label
<1> HIDE DEF l, more
<1>19. more[b].name = ".data"
  BY <1>9, <1>10, <1>16, PutsNames
<1>20. as[1] = "data" /\ as[2] = text
  OBVIOUS
<1> HIDE DEF as
<1>21. Stands(more, mem2, l, as)
  BY <1>7, <1>18, <1>19, <1>20 DEF Stands
<1>22. Renamed(d, Given(d, Str, as), more, g2.staticdata, l)
  BY <1>10, <1>15, <1>17, <1>18, <1>20, <1>21, GivenRenames
<1>23. ProgramFits(g2, p, Given(d, Str, as), IF l.name = Nameless THEN k ELSE h)
  <2>1. l.type = "offset" => /\ l.name \notin Sections
                             /\ l.base \in 1..Len(base.labels) /\ base.labels[l.base].name \in Sections
    BY <1>8, <1>9, <1>15, <1>18 DEF labels
  <2>2. Puts(base.labels, more, k, l)
    BY <1>16 DEF labels
  <2> QED BY <1>9, <1>17, <1>18, <1>22, <2>1, <2>2, PutFits
<1> QED BY <1>15, <1>18, <1>23 DEF g2, as

-----------------------------------------------------------------------------
(* A generator that gets an instruction.                                   *)

\* The program q is p with m behind it.
Longer(p, q, m) ==
  /\ q \in Seq(Meant) /\ Len(q) = Len(p) + 1
  /\ \A i \in 1..Len(p) : q[i] = p[i]
  /\ q[Len(p) + 1] = m

LEMMA InsAdded ==
  ASSUME NEW g \in Generators, NEW p \in Seq(Meant), CodeFits(g, p), NEW ins \in Instrs,
         NEW q, NEW m, Longer(p, q, m), m.op = ins.op, m.src = g.cursrc
  PROVE  LET g2 == AddIns(g, ins)
         IN  /\ g2 \in Generators /\ CodeFits(g2, q)
             /\ g2.labels = g.labels /\ g2.relocs = g.relocs /\ g2.staticdata = g.staticdata
             /\ g2.cursrc = g.cursrc
<1> DEFINE n == Len(p)
           S == Instrs \cup {Zero}
           T == Nat \cup {Zero}
           code2 == ArrayAdd(g.code, ins)
           sources2 == ArrayReplace(g.sources, g.code.len, g.cursrc)
           g2 == AddIns(g, ins)
<1>1. /\ g.code \in Arrays(S) /\ g.sources \in Arrays(T) /\ g.cursrc \in T /\ g.code.len \in Nat
      /\ ins \in S /\ Zero \in S /\ Zero \in T
  BY GeneratorParts, ArrayRoom
<1>2. /\ g.code.len = n /\ n <= g.sources.len /\ n \in Nat /\ g.sources.len \in Nat
      /\ \A i \in 1..n : g.code.slots[i - 1] \in Instrs /\ g.code.slots[i - 1].op = p[i].op
      /\ \A i \in 1..n : g.sources.slots[i - 1] = p[i].src
  BY <1>1, ArrayRoom DEF CodeFits
<1>3. /\ q \in Seq(Meant) /\ Len(q) = n + 1 /\ q[n + 1] = m
      /\ \A i \in 1..n : q[i] = p[i]
  BY DEF Longer
<1> HIDE DEF S, T, n
<1>4. /\ code2 \in Arrays(S) /\ code2.len = n + 1 /\ code2.slots[n] = ins
      /\ \A i \in 0..(n - 1) : code2.slots[i] = g.code.slots[i]
  <2>1. PICK a \in Arrays(S) : a = g.code
    BY <1>1
  <2>2. /\ ArrayAdd(a, ins) \in Arrays(S) /\ ArrayAdd(a, ins).len = a.len + 1
        /\ ArrayAdd(a, ins).slots[a.len] = ins
        /\ \A i \in 0..(a.len - 1) : ArrayAdd(a, ins).slots[i] = a.slots[i]
    BY <1>1, ArrayAddKeeps
  <2> QED BY <1>2, <2>1, <2>2
<1>5. /\ sources2 \in Arrays(T)
      /\ sources2.len = IF n < g.sources.len THEN g.sources.len ELSE n + 1
      /\ sources2.slots[n] = g.cursrc
      /\ \A i \in 0..(g.sources.len - 1) : i # n => sources2.slots[i] = g.sources.slots[i]
  <2>1. PICK a \in Arrays(T), x \in T : a = g.sources /\ x = g.cursrc
    BY <1>1
  <2>2. n \in Nat /\ Zero \in T
    BY <1>1, <1>2
  <2>3. /\ ArrayReplace(a, n, x) \in Arrays(T)
        /\ ArrayReplace(a, n, x).len = IF n < a.len THEN a.len ELSE n + 1
        /\ ArrayReplace(a, n, x).slots[n] = x
        /\ \A i \in 0..(a.len - 1) : i # n => ArrayReplace(a, n, x).slots[i] = a.slots[i]
    BY <2>2, ArrayReplaceKeeps
  <2> QED BY <1>2, <2>1, <2>3
<1>6. g2 = [g EXCEPT !.code = code2, !.sources = sources2]
  BY DEF AddIns
<1> HIDE DEF code2, sources2, g2
<1>7. /\ g2 \in Generators /\ g2.code = code2 /\ g2.sources = sources2
      /\ g2.labels = g.labels /\ g2.relocs = g.relocs /\ g2.staticdata = g.staticdata
      /\ g2.cursrc = g.cursrc
  BY <1>4, <1>5, <1>6 DEF Generators, S, T
<1>8. ASSUME NEW i \in 1..(n + 1)
      PROVE  /\ code2.slots[i - 1] \in Instrs /\ code2.slots[i - 1].op = q[i].op
             /\ sources2.slots[i - 1] = q[i].src
  <2>1. CASE i = n + 1
    <3>1. i - 1 = n
      BY <1>2, <2>1
    <3> QED BY <1>3, <1>4, <1>5, <2>1, <3>1
  <2>2. CASE i # n + 1
    <3>1. i \in 1..n /\ i - 1 \in 0..(n - 1) /\ i - 1 \in 0..(g.sources.len - 1) /\ i - 1 # n
      BY <1>2, <2>2
    <3>2. code2.slots[i - 1] = g.code.slots[i - 1] /\ sources2.slots[i - 1] = g.sources.slots[i - 1]
      BY <1>4, <1>5, <3>1
    <3> QED BY <1>2, <1>3, <3>1, <3>2
  <2> QED BY <2>1, <2>2
<1>9. n + 1 <= sources2.len
  BY <1>2, <1>5
<1>10. CodeFits(g2, q)
  BY <1>3, <1>4, <1>7, <1>8, <1>9 DEF CodeFits
<1> QED BY <1>7, <1>10 DEF g2

LEMMA AddInsFits ==
  ASSUME NEW g, NEW p, NEW d, NEW h, ProgramFits(g, p, d, h), NEW ins \in Instrs,
         NEW q, NEW m, Longer(p, q, m), m.op = ins.op, m.src = g.cursrc,
         m.type = "none", m.label = Nameless
  PROVE  /\ ProgramFits(AddIns(g, ins), q, d, h)
         /\ AddIns(g, ins).cursrc = g.cursrc /\ AddIns(g, ins).labels = g.labels
<1> DEFINE n == Len(p)
           g2 == AddIns(g, ins)
<1>1. /\ g \in Generators /\ p \in Seq(Meant) /\ MeantFits(p) /\ CodeFits(g, p)
      /\ LabelsFit(g.labels, h) /\ DefsFit(g.labels, g.staticdata, h, d)
      /\ RelocsFit(g.relocs, p, g.labels, h)
  BY DEF ProgramFits
<1>2. /\ g2 \in Generators /\ CodeFits(g2, q)
      /\ g2.labels = g.labels /\ g2.relocs = g.relocs /\ g2.staticdata = g.staticdata
      /\ g2.cursrc = g.cursrc
  BY <1>1, InsAdded
<1>3. /\ q \in Seq(Meant) /\ Len(q) = n + 1 /\ q[n + 1] = m /\ n \in Nat
      /\ \A i \in 1..n : q[i] = p[i]
  BY <1>1 DEF Longer
<1> HIDE DEF g2, n
<1>4. MeantFits(q)
  <2>1. \A i \in 1..n : /\ p[i].type # "none" => p[i].label \in LabelNames
                        /\ p[i].type \in {"STRING", "BLOB"} <=> p[i].label = Str
    BY <1>1 DEF MeantFits, n
  <2>2. m.label # Str /\ m.type \notin {"STRING", "BLOB"}
    BY DEF Nameless, Str
  <2>3. \A i \in 1..(n + 1) : i \in 1..n \/ i = n + 1
    BY <1>3
  <2> QED BY <1>3, <2>1, <2>2, <2>3 DEF MeantFits
<1>5. RelocsFit(g2.relocs, q, g2.labels, h)
  <2> DEFINE relocs == g.relocs
             labels == g.labels
  <2>1. ASSUME NEW r \in 1..Len(relocs)
        PROVE  /\ relocs[r].offset + 1 \in 1..(n + 1)
               /\ q[relocs[r].offset + 1].type = relocs[r].type
               /\ relocs[r].label = IndexOf(labels, h, q[relocs[r].offset + 1].label)
               /\ relocs[r].label # 0
    <3>1. /\ relocs[r].offset + 1 \in 1..n
          /\ p[relocs[r].offset + 1].type = relocs[r].type
          /\ relocs[r].label = IndexOf(labels, h, p[relocs[r].offset + 1].label)
          /\ relocs[r].label # 0
      BY <1>1 DEF RelocsFit, n
    <3> QED BY <1>3, <3>1
  <2>2. ASSUME NEW i \in 1..(n + 1), q[i].type # "none"
        PROVE  \E r \in 1..Len(relocs) : relocs[r].offset + 1 = i
    <3>1. i \in 1..n /\ p[i].type # "none"
      BY <1>3, <2>2
    <3> QED BY <1>1, <3>1 DEF RelocsFit, n
  <2>3. \A r, s \in 1..Len(relocs) : r < s => relocs[r].offset < relocs[s].offset
    BY <1>1 DEF RelocsFit
  <2> HIDE DEF relocs, labels
  <2>4. RelocsFit(relocs, q, labels, h)
    BY <1>3, <2>1, <2>2, <2>3 DEF RelocsFit
  <2> QED BY <1>2, <2>4 DEF relocs, labels
<1> QED BY <1>1, <1>2, <1>3, <1>4, <1>5 DEF ProgramFits, g2

\* rvm_codegen_index_addrelocins: the relocation waits for what the label gets.
LEMMA IndexAddRelocInsFits ==
  ASSUME NEW g, NEW p, NEW d, NEW h, ProgramFits(g, p, d, h), NEW ins \in Instrs,
         NEW q, NEW m, Longer(p, q, m), m.op = ins.op, m.src = g.cursrc,
         NEW type \in RefTypes, NEW key \in LabelNames, m.type = type, m.label = key,
         type \in {"STRING", "BLOB"} <=> key = Str,
         IndexOf(g.labels, h, key) # 0
  PROVE  ProgramFits(IndexAddRelocIns(g, type, IndexOf(g.labels, h, key), ins), q, d, h)
<1> DEFINE n == Len(p)
           labels == g.labels
           index == IndexOf(labels, h, key)
           reloc == [type |-> type, offset |-> g.code.len, label |-> index]
           relocs == g.relocs
           more == Append(relocs, reloc)
           g1 == [g EXCEPT !.relocs = more]
           g2 == AddIns(g1, ins)
<1>1. /\ g \in Generators /\ p \in Seq(Meant) /\ MeantFits(p) /\ CodeFits(g, p)
      /\ LabelsFit(labels, h) /\ DefsFit(labels, g.staticdata, h, d)
      /\ RelocsFit(relocs, p, labels, h)
  BY DEF ProgramFits
<1>2. g.code.len = n /\ n \in Nat /\ relocs \in Seq(RelocRecs)
  BY <1>1, GeneratorParts DEF CodeFits
<1>3. index \in Nat /\ index # 0
  <2>1. key \in AllKeys
    BY DEF AllKeys
  <2>2. index \in 0..Len(labels)
    BY <1>1, <2>1, IndexIs
  <2> QED BY <2>2
<1>4. reloc \in RelocRecs /\ reloc.type = type /\ reloc.offset = n /\ reloc.label = index
  BY <1>2, <1>3 DEF RelocRecs
<1>5. g2 = IndexAddRelocIns(g, type, index, ins)
  BY DEF IndexAddRelocIns
<1> HIDE DEF index, reloc
<1>6. /\ more \in Seq(RelocRecs) /\ Len(more) = Len(relocs) + 1 /\ more[Len(relocs) + 1] = reloc
      /\ Len(relocs) \in Nat /\ \A r \in 1..Len(relocs) : more[r] = relocs[r]
  BY <1>2, <1>4
<1> HIDE DEF more
<1>7. /\ g1 \in Generators /\ g1.code = g.code /\ g1.sources = g.sources /\ g1.cursrc = g.cursrc
      /\ g1.labels = labels /\ g1.relocs = more /\ g1.staticdata = g.staticdata
  BY <1>1, <1>6 DEF Generators
<1> HIDE DEF g1, labels, relocs
<1>8. CodeFits(g1, p)
  BY <1>1, <1>7 DEF CodeFits
<1>9. /\ g2 \in Generators /\ CodeFits(g2, q)
      /\ g2.labels = labels /\ g2.relocs = more /\ g2.staticdata = g.staticdata
  <2>1. /\ g2 \in Generators /\ CodeFits(g2, q)
        /\ g2.labels = g1.labels /\ g2.relocs = g1.relocs /\ g2.staticdata = g1.staticdata
    BY <1>1, <1>7, <1>8, InsAdded
  <2> QED BY <1>7, <2>1
<1>10. /\ q \in Seq(Meant) /\ Len(q) = n + 1 /\ q[n + 1] = m
       /\ \A i \in 1..n : q[i] = p[i]
  BY DEF Longer
<1> HIDE DEF g2, n
<1>11. MeantFits(q)
  <2>1. \A i \in 1..n : /\ p[i].type # "none" => p[i].label \in LabelNames
                        /\ p[i].type \in {"STRING", "BLOB"} <=> p[i].label = Str
    BY <1>1 DEF MeantFits, n
  <2>2. \A i \in 1..(n + 1) : i \in 1..n \/ i = n + 1
    BY <1>2
  <2> QED BY <1>10, <2>1, <2>2 DEF MeantFits
<1>12. /\ \A r \in 1..Len(relocs) :
            /\ relocs[r].offset + 1 \in 1..n
            /\ p[relocs[r].offset + 1].type = relocs[r].type
            /\ relocs[r].label = IndexOf(labels, h, p[relocs[r].offset + 1].label)
            /\ relocs[r].label # 0
       /\ \A r, s \in 1..Len(relocs) : r < s => relocs[r].offset < relocs[s].offset
       /\ \A i \in 1..n : p[i].type # "none" => \E r \in 1..Len(relocs) : relocs[r].offset + 1 = i
  BY <1>1 DEF RelocsFit, n
<1>13. RelocsFit(more, q, labels, h)
  <2>1. \A r \in 1..(Len(relocs) + 1) : r \in 1..Len(relocs) \/ r = Len(relocs) + 1
    BY <1>6
  <2>2. ASSUME NEW r \in 1..(Len(relocs) + 1)
        PROVE  /\ more[r].offset + 1 \in 1..(n + 1)
               /\ q[more[r].offset + 1].type = more[r].type
               /\ more[r].label = IndexOf(labels, h, q[more[r].offset + 1].label)
               /\ more[r].label # 0
    <3>1. CASE r \in 1..Len(relocs)
      <4>1. more[r] = relocs[r] /\ relocs[r].offset + 1 \in 1..n
        BY <1>6, <1>12, <3>1
      <4>2. q[relocs[r].offset + 1] = p[relocs[r].offset + 1] /\ relocs[r].offset + 1 \in 1..(n + 1)
        BY <1>2, <1>10, <4>1
      <4> QED BY <1>12, <3>1, <4>1, <4>2
    <3>2. CASE r = Len(relocs) + 1
      <4>1. more[r] = reloc /\ q[n + 1] = m /\ n + 1 \in 1..(n + 1)
        BY <1>2, <1>6, <1>10, <3>2
      <4> QED BY <1>3, <1>4, <4>1 DEF index
    <3> QED BY <2>1, <3>1, <3>2
  <2>3. ASSUME NEW r \in 1..(Len(relocs) + 1), NEW s \in 1..(Len(relocs) + 1), r < s
        PROVE  more[r].offset < more[s].offset
    <3>1. r \in 1..Len(relocs) /\ more[r] = relocs[r]
      BY <1>6, <2>3
    <3>2. CASE s \in 1..Len(relocs)
      BY <1>6, <1>12, <2>3, <3>1, <3>2
    <3>3. CASE s = Len(relocs) + 1
      <4>1. relocs[r] \in RelocRecs /\ relocs[r].offset + 1 \in 1..n
        BY <1>2, <1>12, <3>1
      <4>2. relocs[r].offset \in Nat /\ relocs[r].offset < n
        BY <1>2, <4>1 DEF RelocRecs
      <4> QED BY <1>4, <1>6, <3>1, <3>3, <4>2
    <3> QED BY <2>1, <3>2, <3>3
  <2>4. ASSUME NEW i \in 1..(n + 1), q[i].type # "none"
        PROVE  \E r \in 1..(Len(relocs) + 1) : more[r].offset + 1 = i
    <3>1. CASE i \in 1..n
      <4>1. PICK r \in 1..Len(relocs) : relocs[r].offset + 1 = i
        BY <1>10, <1>12, <2>4, <3>1
      <4> QED BY <1>6, <4>1
    <3>2. CASE i = n + 1
      <4>1. Len(relocs) + 1 \in 1..(Len(relocs) + 1)
        BY <1>6
      <4> QED BY <1>4, <1>6, <3>2, <4>1
    <3> QED BY <1>2, <3>1, <3>2
  <2> QED BY <1>6, <1>10, <2>2, <2>3, <2>4 DEF RelocsFit
<1>14. ProgramFits(g2, q, d, h)
  BY <1>1, <1>9, <1>10, <1>11, <1>13 DEF ProgramFits
<1> QED BY <1>5, <1>14 DEF index, labels

\* rvm_codegen_addrelocins: a name that has no label gets one that stands for nothing.
LEMMA LookupAddFits ==
  ASSUME NEW g, NEW p, NEW d, NEW h, ProgramFits(g, p, d, h), NEW key \in {Func, Str}
  PROVE  LET labels == LookupAdd(g.labels, key)
             g2 == [g EXCEPT !.labels = labels]
         IN  /\ ProgramFits(g2, p, d, h) /\ Relabeled(g, g2) /\ g2.labels = labels
             /\ Find(labels, key) # 0
<1> DEFINE labels == g.labels
           more == LookupAdd(labels, key)
           g2 == [g EXCEPT !.labels = more]
<1>1. g \in Generators /\ LabelsFit(labels, h) /\ labels \in Seq(LabelRecs) /\ DOMAIN d \subseteq LabelNames
  BY DEF ProgramFits, LabelsFit, DefsFit
<1>2. key \in AllKeys /\ key \in LabelNames /\ NameOf(key) = key /\ key # Anon /\ key # Nameless
  BY DEF AllKeys, LabelNames, NameOf, Func, Str, Anon, Nameless
<1>3. CASE Find(labels, key) # 0
  <2>1. more = labels
    BY <1>3 DEF LookupAdd
  <2>2. g2 = g
    BY <1>1, <2>1 DEF Generators
  <2> HIDE DEF g2, more
  <2> QED BY <1>1, <1>3, <2>1, <2>2 DEF Relabeled, g2, more
<1>4. CASE Find(labels, key) = 0
  <2> DEFINE l == Label("invalid", 0, 0, key)
  <2>1. more = AddAs(labels, NameOf(key), "invalid", 0, 0)
    BY <1>2, <1>4 DEF LookupAdd, InvalidAdd
  <2>2. PICK k \in 1..(Len(labels) + 1) : Puts(labels, more, k, l)
    <3>1. PutFor(labels, AddAs(labels, NameOf(key), "invalid", 0, 0), key,
                 Label("invalid", 0, 0, NameOf(key)))
      BY <1>1, <1>2, AddAsPuts
    <3> QED BY <1>2, <2>1, <3>1 DEF PutFor
  <2>3. l.name = key /\ l.type = "invalid"
    BY DEF Label
  <2>4. more \in Seq(LabelRecs)
    BY <2>2 DEF Puts
  <2> HIDE DEF more
  <2>5. Relabeled(g, g2) /\ g2.labels = more /\ g2.staticdata = g.staticdata
    BY <1>1, <2>4, WithLabels
  <2> HIDE DEF l, g2
  <2>6. Renamed(d, d, more, g2.staticdata, l)
    <3>1. key \notin DOMAIN d
      <4>1. IndexOf(labels, h, key) = 0
        BY <1>2, <1>4 DEF IndexOf
      <4> QED BY <4>1 DEF ProgramFits, DefsFit
    <3> QED BY <1>1, <1>2, <2>3, <3>1, LostRenames
  <2>7. ProgramFits(g2, p, d, h)
    <3>1. l.name # Nameless /\ l.type # "offset"
      BY <1>2, <2>3
    <3>2. ProgramFits(g2, p, d, IF l.name = Nameless THEN k ELSE h)
      BY <2>2, <2>5, <2>6, <3>1, PutFits
    <3> QED BY <3>1, <3>2
  <2>8. k \in 1..Len(more) /\ more[k].name = key
    BY <1>1, <2>2, <2>3, PutsNames
  <2>9. Find(more, key) # 0
    BY <1>2, <2>4, <2>8, FindIs
  <2> QED BY <2>5, <2>7, <2>9 DEF g2, more
<1> QED BY <1>3, <1>4

LEMMA AddRelocInsFits ==
  ASSUME NEW g, NEW p, NEW d, NEW h, ProgramFits(g, p, d, h), NEW ins \in Instrs,
         NEW q, NEW m, Longer(p, q, m), m.op = ins.op, m.src = g.cursrc,
         NEW type \in RefTypes, NEW key \in {Func, Str}, m.type = type, m.label = key,
         type \in {"STRING", "BLOB"} <=> key = Str
  PROVE  ProgramFits(AddRelocIns(g, type, key, ins), q, d, h)
<1> DEFINE labels == LookupAdd(g.labels, key)
           g1 == [g EXCEPT !.labels = labels]
<1>1. /\ ProgramFits(g1, p, d, h) /\ Relabeled(g, g1) /\ g1.labels = labels
      /\ Find(labels, key) # 0
  BY LookupAddFits
<1>2. AddRelocIns(g, type, key, ins) = IndexAddRelocIns(g1, type, Find(labels, key), ins)
  BY DEF AddRelocIns
<1> HIDE DEF labels, g1
<1>3. key \in LabelNames /\ key # Anon
  BY DEF LabelNames, Func, Str, Anon
<1>4. IndexOf(g1.labels, h, key) = Find(labels, key)
  BY <1>1, <1>3 DEF IndexOf
<1>5. m.src = g1.cursrc
  BY <1>1 DEF Relabeled
<1>6. ProgramFits(IndexAddRelocIns(g1, type, IndexOf(g1.labels, h, key), ins), q, d, h)
  BY <1>1, <1>3, <1>4, <1>5, IndexAddRelocInsFits
<1> QED BY <1>2, <1>4, <1>6

LEMMA SetSourceFits ==
  ASSUME NEW g, NEW p, NEW d, NEW h, ProgramFits(g, p, d, h), NEW srcidx \in Nat
  PROVE  ProgramFits(SetSource(g, srcidx), p, d, h) /\ SetSource(g, srcidx).cursrc = srcidx
<1> DEFINE g2 == SetSource(g, srcidx)
<1>1. g \in Generators
  BY DEF ProgramFits
<1>2. /\ g2 \in Generators /\ g2.code = g.code /\ g2.sources = g.sources /\ g2.cursrc = srcidx
      /\ g2.labels = g.labels /\ g2.relocs = g.relocs /\ g2.staticdata = g.staticdata
  BY <1>1 DEF SetSource, Generators
<1> HIDE DEF g2
<1>3. CodeFits(g2, p)
  BY <1>2 DEF ProgramFits, CodeFits
<1>4. ProgramFits(g2, p, d, h)
  BY <1>2, <1>3 DEF ProgramFits
<1> QED BY <1>2, <1>4 DEF g2

\* The same generator, but for instructions that have the same ops.
Recoded(g, g2, p) ==
  /\ g2 \in Generators /\ CodeFits(g2, p)
  /\ g2.sources = g.sources /\ g2.labels = g.labels /\ g2.relocs = g.relocs
  /\ g2.staticdata = g.staticdata

LEMMA ReplaceInsFits ==
  ASSUME NEW g, NEW p, NEW d, NEW h, ProgramFits(g, p, d, h), NEW i \in 1..Len(p), NEW ins \in Instrs,
         p[i].type = "none"
  PROVE  ProgramFits(ReplaceIns(g, i - 1, ins), [p EXCEPT ![i].op = ins.op], d, h)
<1> DEFINE n == Len(p)
           S == Instrs \cup {Zero}
           code2 == ArrayReplace(g.code, i - 1, ins)
           g2 == ReplaceIns(g, i - 1, ins)
           q == [p EXCEPT ![i].op = ins.op]
<1>1. /\ g \in Generators /\ p \in Seq(Meant) /\ MeantFits(p) /\ CodeFits(g, p)
      /\ LabelsFit(g.labels, h) /\ DefsFit(g.labels, g.staticdata, h, d)
      /\ RelocsFit(g.relocs, p, g.labels, h)
  BY DEF ProgramFits
<1>2. /\ g.code \in Arrays(S) /\ Zero \in S /\ ins \in S /\ ins.op \in Ops
  BY <1>1, GeneratorParts DEF Instrs
<1>3. /\ g.code.len = n /\ n \in Nat /\ n <= g.sources.len
      /\ \A j \in 1..n : g.code.slots[j - 1] \in Instrs /\ g.code.slots[j - 1].op = p[j].op
      /\ \A j \in 1..n : g.sources.slots[j - 1] = p[j].src
  BY <1>1 DEF CodeFits
<1>4. /\ q \in Seq(Meant) /\ Len(q) = n /\ q[i].op = ins.op
      /\ \A j \in 1..n : /\ q[j].type = p[j].type /\ q[j].label = p[j].label /\ q[j].src = p[j].src
                         /\ j # i => q[j].op = p[j].op
  <2>1. p[i] \in Meant
    BY <1>1
  <2>2. /\ [p[i] EXCEPT !.op = ins.op] \in Meant /\ [p[i] EXCEPT !.op = ins.op].op = ins.op
        /\ [p[i] EXCEPT !.op = ins.op].type = p[i].type
        /\ [p[i] EXCEPT !.op = ins.op].label = p[i].label
        /\ [p[i] EXCEPT !.op = ins.op].src = p[i].src
    BY <1>2, <2>1 DEF Meant
  <2>3. q = [p EXCEPT ![i] = [p[i] EXCEPT !.op = ins.op]]
    BY <1>1
  <2> DEFINE new == [p[i] EXCEPT !.op = ins.op]
  <2> HIDE DEF q, new
  <2>4. q = [p EXCEPT ![i] = new] /\ new \in Meant
    BY <2>2, <2>3 DEF new
  <2>5. q \in Seq(Meant) /\ Len(q) = n /\ q[i] = new /\ \A j \in 1..n : j # i => q[j] = p[j]
    BY <1>1, <2>4
  <2> QED BY <2>2, <2>5 DEF new
<1>5. /\ code2 \in Arrays(S) /\ code2.len = n /\ code2.slots[i - 1] = ins
      /\ \A j \in 0..(n - 1) : j # i - 1 => code2.slots[j] = g.code.slots[j]
  <2>1. PICK a \in Arrays(S) : a = g.code
    BY <1>2
  <2>2. i - 1 \in Nat /\ i - 1 < a.len /\ a.len = n
    BY <1>3, <2>1
  <2> HIDE DEF S, n
  <2>3. /\ ArrayReplace(a, i - 1, ins) \in Arrays(S)
        /\ ArrayReplace(a, i - 1, ins).len = IF i - 1 < a.len THEN a.len ELSE (i - 1) + 1
        /\ ArrayReplace(a, i - 1, ins).slots[i - 1] = ins
        /\ \A j \in 0..(a.len - 1) : j # i - 1 => ArrayReplace(a, i - 1, ins).slots[j] = a.slots[j]
    <3> DEFINE k == i - 1
    <3>1. k \in Nat /\ Zero \in S
      BY <1>2, <2>2
    <3>2. PICK x \in S : x = ins
      BY <1>2
    <3> HIDE DEF k
    <3>3. /\ ArrayReplace(a, k, x) \in Arrays(S)
          /\ ArrayReplace(a, k, x).len = IF k < a.len THEN a.len ELSE k + 1
          /\ ArrayReplace(a, k, x).slots[k] = x
          /\ \A j \in 0..(a.len - 1) : j # k => ArrayReplace(a, k, x).slots[j] = a.slots[j]
      BY <3>1, ArrayReplaceKeeps
    <3> QED BY <3>2, <3>3 DEF k
  <2> QED BY <2>1, <2>2, <2>3
<1>6. g2 = [g EXCEPT !.code = code2]
  BY DEF ReplaceIns
<1> HIDE DEF code2, q, g2
<1>7. /\ g2 \in Generators /\ g2.code = code2 /\ g2.sources = g.sources
      /\ g2.labels = g.labels /\ g2.relocs = g.relocs /\ g2.staticdata = g.staticdata
  BY <1>1, <1>5, <1>6 DEF Generators
<1> HIDE DEF S, n
<1>8. CodeFits(g2, q)
  <2>1. ASSUME NEW j \in 1..n
        PROVE  /\ code2.slots[j - 1] \in Instrs /\ code2.slots[j - 1].op = q[j].op
               /\ g.sources.slots[j - 1] = q[j].src
    <3>1. CASE j = i
      BY <1>3, <1>4, <1>5, <3>1
    <3>2. CASE j # i
      <4>1. j - 1 \in 0..(n - 1) /\ j - 1 # i - 1
        BY <1>3, <3>2
      <4> QED BY <1>3, <1>4, <1>5, <3>2, <4>1
    <3> QED BY <3>1, <3>2
  <2> QED BY <1>3, <1>4, <1>5, <1>7, <2>1 DEF CodeFits
<1>9. MeantFits(q)
  BY <1>1, <1>4 DEF MeantFits, n
<1>10. RelocsFit(g2.relocs, q, g2.labels, h)
  <2> DEFINE relocs == g.relocs
             labels == g.labels
  <2>1. ASSUME NEW r \in 1..Len(relocs)
        PROVE  /\ relocs[r].offset + 1 \in 1..n
               /\ q[relocs[r].offset + 1].type = relocs[r].type
               /\ relocs[r].label = IndexOf(labels, h, q[relocs[r].offset + 1].label)
               /\ relocs[r].label # 0
    <3>1. /\ relocs[r].offset + 1 \in 1..n
          /\ p[relocs[r].offset + 1].type = relocs[r].type
          /\ relocs[r].label = IndexOf(labels, h, p[relocs[r].offset + 1].label)
          /\ relocs[r].label # 0
      BY <1>1 DEF RelocsFit, n
    <3> QED BY <1>4, <3>1
  <2>2. ASSUME NEW j \in 1..n, q[j].type # "none"
        PROVE  \E r \in 1..Len(relocs) : relocs[r].offset + 1 = j
    <3>1. p[j].type # "none"
      BY <1>4, <2>2
    <3> QED BY <1>1, <3>1 DEF RelocsFit, n
  <2>3. \A r, s \in 1..Len(relocs) : r < s => relocs[r].offset < relocs[s].offset
    BY <1>1 DEF RelocsFit
  <2> HIDE DEF relocs, labels
  <2>4. RelocsFit(relocs, q, labels, h)
    BY <1>4, <2>1, <2>2, <2>3 DEF RelocsFit
  <2> QED BY <1>7, <2>4 DEF relocs, labels
<1>11. ProgramFits(g2, q, d, h)
  BY <1>1, <1>4, <1>7, <1>8, <1>9, <1>10 DEF ProgramFits
<1> QED BY <1>11 DEF g2, q

\* Nothing is made yet, whatever the memory holds.
LEMMA NothingFits ==
  ASSUME NEW g \in Generators, g.code.len = 0, g.labels = <<>>, g.relocs = <<>>
  PROVE  ProgramFits(g, <<>>, <<>>, 0)
<1>1. <<>> \in Seq(Meant) /\ Len(<<>>) = 0 /\ MeantFits(<<>>)
  BY DEF MeantFits
<1>2. g.sources.len \in Nat
  BY GeneratorParts, ArrayRoom
<1>3. CodeFits(g, <<>>)
  BY <1>2 DEF CodeFits
<1>4. LabelsFit(<<>>, 0)
  BY DEF LabelsFit
<1>5. RelocsFit(<<>>, <<>>, <<>>, 0)
  BY DEF RelocsFit
<1>6. DefsFit(<<>>, g.staticdata, 0, <<>>)
  <2>1. \A key \in LabelNames : IndexOf(<<>>, 0, key) = 0
    <3> SUFFICES ASSUME NEW key \in LabelNames PROVE IndexOf(<<>>, 0, key) = 0
      OBVIOUS
    <3>1. key \in AllKeys
      BY DEF AllKeys
    <3>2. IndexOf(<<>>, 0, key) \in 0..Len(<<>>)
      BY <1>4, <3>1, IndexIs
    <3> QED BY <3>2
  <2> QED BY <2>1 DEF DefsFit
<1> QED BY <1>1, <1>3, <1>4, <1>5, <1>6 DEF ProgramFits

LEMMA CreateFits ==
  Create \in Generators /\ Create.cursrc = 0 /\ ProgramFits(Create, <<>>, <<>>, 0)
<1>1. /\ ArrayCreate \in Arrays(Instrs \cup {Zero}) /\ ArrayCreate \in Arrays(Nat \cup {Zero})
      /\ ArrayCreate \in Arrays(Chars) /\ ArrayCreate.len = 0
  <2>1. Zero \in Chars /\ Zero \in Instrs \cup {Zero} /\ Zero \in Nat \cup {Zero}
    BY DEF Chars
  <2> QED BY <2>1, EmptyArray
<1>2. Create \in Generators
  BY <1>1 DEF Create, Generators
<1>3. Create.code.len = 0 /\ Create.labels = <<>> /\ Create.relocs = <<>> /\ Create.cursrc = 0
  BY <1>1 DEF Create
<1> QED BY <1>2, <1>3, NothingFits

LEMMA ClearFits ==
  ASSUME NEW g \in Generators
  PROVE  ProgramFits(Clear(g), <<>>, <<>>, 0)
<1> DEFINE code2 == SetLength(g.code, 0)
           data2 == SetLength(g.staticdata, 0)
<1>1. code2 \in Arrays(Instrs \cup {Zero}) /\ code2.len = 0
  <2>1. PICK S : S = Instrs \cup {Zero}
    OBVIOUS
  <2>2. PICK a \in Arrays(S) : a = g.code
    BY <2>1, GeneratorParts
  <2>3. SetLength(a, 0) \in Arrays(S) /\ SetLength(a, 0).len = 0
    BY <2>1, SetLengthKeeps
  <2> QED BY <2>1, <2>2, <2>3
<1>2. data2 \in Arrays(Chars)
  <2>1. PICK a \in Arrays(Chars) : a = g.staticdata
    BY GeneratorParts
  <2>2. Zero \in Chars
    BY DEF Chars
  <2>3. SetLength(a, 0) \in Arrays(Chars)
    BY <2>2, SetLengthKeeps
  <2> QED BY <2>1, <2>3
<1>3. Clear(g) = [g EXCEPT !.code = code2, !.staticdata = data2, !.labels = <<>>, !.relocs = <<>>]
  BY DEF Clear
<1> HIDE DEF code2, data2
<1>4. /\ Clear(g) \in Generators /\ Clear(g).code = code2
      /\ Clear(g).labels = <<>> /\ Clear(g).relocs = <<>>
  <2>1. PICK nolabels \in Seq(LabelRecs) : nolabels = <<>>
    <3>1. <<>> \in Seq(LabelRecs)
      OBVIOUS
    <3> QED BY <3>1, Zenon
  <2>2. PICK norelocs \in Seq(RelocRecs) : norelocs = <<>>
    <3>1. <<>> \in Seq(RelocRecs)
      OBVIOUS
    <3> QED BY <3>1, Zenon
  <2>3. Clear(g) = [g EXCEPT !.code = code2, !.staticdata = data2,
                             !.labels = nolabels, !.relocs = norelocs]
    BY <1>3, <2>1, <2>2
  <2>4. /\ Clear(g) \in Generators /\ Clear(g).code = code2
        /\ Clear(g).labels = nolabels /\ Clear(g).relocs = norelocs
    BY <1>1, <1>2, <2>3 DEF Generators
  <2> QED BY <2>1, <2>2, <2>4
<1> QED BY <1>1, <1>4, NothingFits

-----------------------------------------------------------------------------
(* Relocation.                                                             *)

SectionAt(labels, b) == IF labels[b].type = "pointer" THEN labels[b].value ELSE Unresolved
LabelAt(labels, i) ==
  IF labels[i].type = "pointer" THEN labels[i].value
  ELSE IF labels[i].type = "offset" THEN Shifted(SectionAt(labels, labels[i].base), labels[i].value)
  ELSE Unresolved

\* The recursion of rvm_codemap_resolve goes no further than to a section.
LEMMA ResolveIs ==
  ASSUME NEW labels, NEW h, LabelsFit(labels, h), NEW index \in 1..Len(labels)
  PROVE  Resolve(labels, index) = LabelAt(labels, index)
<1> DEFINE f == [i \in DOMAIN labels |-> LabelAt(labels, i)]
           resolve[i \in DOMAIN labels] ==
             IF labels[i].type = "pointer" THEN labels[i].value
             ELSE IF labels[i].type = "offset" THEN Shifted(resolve[labels[i].base], labels[i].value)
             ELSE Unresolved
<1>1. DOMAIN labels = 1..Len(labels)
  BY DEF LabelsFit
<1>2. \A i \in DOMAIN labels :
        labels[i].type = "offset" => /\ labels[i].base \in DOMAIN labels
                                     /\ labels[labels[i].base].type # "offset"
  BY <1>1 DEF LabelsFit
<1>3. ASSUME NEW i \in DOMAIN labels
      PROVE  f[i] = IF labels[i].type = "pointer" THEN labels[i].value
                    ELSE IF labels[i].type = "offset" THEN Shifted(f[labels[i].base], labels[i].value)
                    ELSE Unresolved
  <2>1. f[i] = LabelAt(labels, i)
    OBVIOUS
  <2>2. CASE labels[i].type = "offset"
    <3>1. labels[i].base \in DOMAIN labels /\ labels[labels[i].base].type # "offset"
      BY <1>2, <2>2
    <3>2. f[labels[i].base] = SectionAt(labels, labels[i].base)
      BY <3>1 DEF LabelAt, SectionAt
    <3> QED BY <2>1, <2>2, <3>2 DEF LabelAt
  <2>3. CASE labels[i].type # "offset"
    <3> HIDE DEF f
    <3> QED BY <2>1, <2>3 DEF LabelAt
  <2> QED BY <2>2, <2>3
<1>4. DOMAIN f = DOMAIN labels /\ f[index] = LabelAt(labels, index)
  BY <1>1
<1>5. f = [i \in DOMAIN f |-> f[i]]
  OBVIOUS
<1> HIDE DEF f
<1>6. f = [i \in DOMAIN labels |->
             IF labels[i].type = "pointer" THEN labels[i].value
             ELSE IF labels[i].type = "offset" THEN Shifted(f[labels[i].base], labels[i].value)
             ELSE Unresolved]
  BY <1>3, <1>4, <1>5
<1>7. resolve = [i \in DOMAIN labels |->
             IF labels[i].type = "pointer" THEN labels[i].value
             ELSE IF labels[i].type = "offset" THEN Shifted(resolve[labels[i].base], labels[i].value)
             ELSE Unresolved]
  BY <1>6
<1>8. Resolve(labels, index) = resolve[index]
  BY DEF Resolve
<1> HIDE DEF resolve
<1>9. \A i \in DOMAIN labels : labels[i].type # "offset" => resolve[i] = SectionAt(labels, i)
  BY <1>7 DEF SectionAt
<1>10. resolve[index] = LabelAt(labels, index)
  <2>1. resolve[index] = IF labels[index].type = "pointer" THEN labels[index].value
             ELSE IF labels[index].type = "offset"
               THEN Shifted(resolve[labels[index].base], labels[index].value)
             ELSE Unresolved
    BY <1>1, <1>7
  <2>2. labels[index].type = "offset" =>
          resolve[labels[index].base] = SectionAt(labels, labels[index].base)
    BY <1>1, <1>2, <1>9
  <2> QED BY <2>1, <2>2 DEF LabelAt
<1> QED BY <1>8, <1>10

\* A section is at an address.
SectionIs(labels, section, address) ==
  \E k \in 1..Len(labels) :
    labels[k].name = section /\ labels[k].type = "pointer" /\ labels[k].value = address

LEMMA AddPointerFits ==
  ASSUME NEW g, NEW p, NEW d, NEW h, ProgramFits(g, p, d, h), NEW section \in Sections, NEW address \in Nat
  PROVE  LET g2 == [g EXCEPT !.labels = AddPointer(@, section, address)]
         IN  /\ ProgramFits(g2, p, d, h) /\ Relabeled(g, g2) /\ g2.staticdata = g.staticdata
             /\ SectionIs(g2.labels, section, address)
             /\ \A other \in Sections \ {section}, a \in Nat :
                  SectionIs(g.labels, other, a) => SectionIs(g2.labels, other, a)
<1> DEFINE labels == g.labels
           more == AddPointer(labels, section, address)
           g2 == [g EXCEPT !.labels = AddPointer(@, section, address)]
           l == Label("pointer", 0, address, section)
<1>1. g \in Generators /\ LabelsFit(labels, h) /\ DOMAIN d \subseteq LabelNames
  BY DEF ProgramFits, DefsFit
<1>2. section \in AllKeys /\ NameOf(section) = section /\ section # Anon /\ section # Nameless
  BY DEF AllKeys, NameOf, Sections, Anon, Nameless
<1>3. g2 = [g EXCEPT !.labels = more]
  BY <1>1 DEF Generators
<1>4. more = AddAs(labels, section, "pointer", 0, address)
  BY DEF AddPointer
<1> HIDE DEF more, g2
<1>5. PICK k \in 1..(Len(labels) + 1) : Puts(labels, more, k, l)
  <2>1. "pointer" \in {"offset", "pointer", "invalid"} /\ 0 \in Nat
    OBVIOUS
  <2> HIDE DEF labels
  <2>2. PutFor(labels, AddAs(labels, NameOf(section), "pointer", 0, address), section,
               Label("pointer", 0, address, NameOf(section)))
    BY <1>1, <1>2, <2>1, AddAsPuts
  <2> QED BY <1>2, <1>4, <2>2 DEF PutFor
<1>6. Relabeled(g, g2) /\ g2.labels = more /\ g2.staticdata = g.staticdata
  <2>1. more \in Seq(LabelRecs)
    BY <1>5 DEF Puts
  <2> QED BY <1>1, <1>3, <2>1, WithLabels
<1>7. l.type = "pointer" /\ l.name = section /\ l.value = address
  BY DEF Label
<1> HIDE DEF l
<1>8. Renamed(d, d, more, g2.staticdata, l)
  BY <1>1, <1>7, SectionRenames
<1>9. ProgramFits(g2, p, d, h)
  <2>1. l.name # Nameless /\ l.type # "offset"
    BY <1>2, <1>7
  <2>2. ProgramFits(g2, p, d, IF l.name = Nameless THEN k ELSE h)
    BY <1>5, <1>6, <1>8, <2>1, PutFits
  <2> QED BY <2>1, <2>2
<1>10. /\ k \in 1..Len(more) /\ more[k] = l
       /\ \A i \in 1..Len(labels) : i \in 1..Len(more) /\ (i # k => more[i] = labels[i])
       /\ \A i \in 1..Len(labels) : labels[i].name = section <=> i = k
  <2>1. /\ k \in 1..Len(more)
        /\ \A i \in 1..Len(labels) : i \in 1..Len(more) /\ more[i].name = labels[i].name
    BY <1>1, <1>5, PutsNames
  <2> QED BY <1>5, <1>7, <2>1 DEF Puts
<1>11. SectionIs(more, section, address)
  BY <1>7, <1>10 DEF SectionIs
<1>12. ASSUME NEW other \in Sections \ {section}, NEW a \in Nat, SectionIs(labels, other, a)
       PROVE  SectionIs(more, other, a)
  <2>1. PICK i \in 1..Len(labels) :
          labels[i].name = other /\ labels[i].type = "pointer" /\ labels[i].value = a
    BY <1>12 DEF SectionIs
  <2>2. i \in 1..Len(more) /\ more[i] = labels[i]
    BY <1>10, <2>1
  <2> QED BY <2>1, <2>2 DEF SectionIs
<1> QED BY <1>6, <1>9, <1>11, <1>12 DEF g2

LEMMA BlocksAt ==
  ASSUME NEW g \in Generators
  PROVE  CodeAt(g) \in Nat /\ DataAt(g) \in Nat /\ Host \in Nat
<1>1. AllocSize(g.code) \in Nat /\ AllocSize(g.staticdata) \in Nat
  BY GeneratorParts, ArrayRoom
<1>2. ASSUME NEW a \in Nat PROVE 1000 * InsSize * a \in Nat /\ 500 * InsSize \in Nat
  BY CodeAssumption
<1> QED BY <1>1, <1>2, CodeAssumption DEF CodeAt, DataAt, Host

\* The labels of the two blocks have their addresses.
PlacedIs(g) == SectionIs(g.labels, ".code", CodeAt(g)) /\ SectionIs(g.labels, ".data", DataAt(g))

LEMMA PlacedFits ==
  ASSUME NEW g, NEW p, NEW d, NEW h, ProgramFits(g, p, d, h)
  PROVE  /\ ProgramFits(Placed(g), p, d, h) /\ Relabeled(g, Placed(g))
         /\ Placed(g).staticdata = g.staticdata /\ PlacedIs(Placed(g))
<1> DEFINE c == CodeAt(g)
           a == DataAt(g)
           g1 == [g EXCEPT !.labels = AddPointer(@, ".code", c)]
           g2 == [g1 EXCEPT !.labels = AddPointer(@, ".data", a)]
<1>1. g \in Generators
  BY DEF ProgramFits
<1>2. c \in Nat /\ a \in Nat /\ ".code" \in Sections /\ ".data" \in Sections \ {".code"}
  BY <1>1, BlocksAt DEF Sections
<1>3. Placed(g) = g2
  BY <1>1 DEF Placed, Generators
<1> HIDE DEF c, a
<1>4. /\ ProgramFits(g1, p, d, h) /\ Relabeled(g, g1) /\ g1.staticdata = g.staticdata
      /\ SectionIs(g1.labels, ".code", c)
  BY <1>2, AddPointerFits
<1> HIDE DEF g1
<1>5. /\ ProgramFits(g2, p, d, h) /\ Relabeled(g1, g2) /\ g2.staticdata = g1.staticdata
      /\ SectionIs(g2.labels, ".data", a)
      /\ \A other \in Sections \ {".data"}, b \in Nat :
           SectionIs(g1.labels, other, b) => SectionIs(g2.labels, other, b)
  BY <1>2, <1>4, AddPointerFits
<1> HIDE DEF g2
<1>6. SectionIs(g2.labels, ".code", c)
  <2>1. ".code" \in Sections \ {".data"}
    BY DEF Sections
  <2> QED BY <1>2, <1>4, <1>5, <2>1
<1>7. Relabeled(g, g2) /\ g2.staticdata = g.staticdata
  BY <1>4, <1>5 DEF Relabeled
<1>8. CodeAt(g2) = c /\ DataAt(g2) = a
  BY <1>7 DEF Relabeled, CodeAt, DataAt, c, a
<1> QED BY <1>3, <1>5, <1>6, <1>7, <1>8 DEF PlacedIs

\* The address of what a name stands for.
AddressIs(g, as, a) ==
  /\ a \in Nat
  /\ as[1] \in {"code", "host", "data"}
  /\ as[1] = "code" => as[2] \in Nat /\ a = CodeAt(g) + as[2] * InsSize
  /\ as[1] = "host" => as[2] = Host /\ a = Host
  /\ as[1] = "data" => as[2] \in Seq({"x", "y"}) /\ HasText(g.staticdata, a - DataAt(g), as[2])

LEMMA SectionResolves ==
  ASSUME NEW labels, NEW h, LabelsFit(labels, h), NEW section \in Sections, NEW a,
         SectionIs(labels, section, a), NEW b \in 1..Len(labels), labels[b].name = section
  PROVE  SectionAt(labels, b) = a
<1>1. PICK k \in 1..Len(labels) :
        labels[k].name = section /\ labels[k].type = "pointer" /\ labels[k].value = a
  BY DEF SectionIs
<1>2. k = b
  BY <1>1 DEF LabelsFit
<1> QED BY <1>1, <1>2 DEF SectionAt

LEMMA NameResolves ==
  ASSUME NEW g, NEW p, NEW d, NEW h, ProgramFits(g, p, d, h), PlacedIs(g), NEW key \in LabelNames,
         IndexOf(g.labels, h, key) # 0
  PROVE  LET a == Resolve(g.labels, IndexOf(g.labels, h, key))
         IN  /\ key \notin DOMAIN d => a = Unresolved
             /\ key \in DOMAIN d => AddressIs(g, d[key], a)
<1> DEFINE labels == g.labels
           k == IndexOf(labels, h, key)
           a == Resolve(labels, k)
<1>1. g \in Generators /\ LabelsFit(labels, h) /\ labels \in Seq(LabelRecs)
  BY DEF ProgramFits, LabelsFit
<1>2. CodeAt(g) \in Nat /\ DataAt(g) \in Nat /\ Host \in Nat
  BY <1>1, BlocksAt
<1>3. k \in 1..Len(labels)
  <2>1. key \in AllKeys
    BY DEF AllKeys
  <2>2. k \in 0..Len(labels)
    BY <1>1, <2>1, IndexIs
  <2> QED BY <2>2
<1>4. a = LabelAt(labels, k)
  <2> HIDE DEF k, labels
  <2> QED BY <1>1, <1>3, ResolveIs
<1>5. labels[k] \in LabelRecs
  BY <1>1, <1>3
<1>6. labels[k].value \in Nat
  BY <1>5 DEF LabelRecs
<1>7. labels[k].type = "offset" => labels[k].base \in 1..Len(labels)
  BY <1>1, <1>3 DEF LabelsFit
<1>8. CASE key \notin DOMAIN d
  <2>1. labels[k].type = "invalid"
    BY <1>3, <1>8 DEF ProgramFits, DefsFit
  <2> QED BY <1>4, <1>8, <2>1 DEF LabelAt
<1>9. CASE key \in DOMAIN d
  <2> DEFINE as == d[key]
  <2>1. Stands(labels, g.staticdata, labels[k], as)
    BY <1>9 DEF ProgramFits, DefsFit
  <2> HIDE DEF as, k, a, labels
  <2>2. CASE as[1] = "code"
    <3>1. /\ labels[k].type = "offset" /\ labels[labels[k].base].name = ".code"
          /\ as[2] \in Nat /\ labels[k].value = as[2] * InsSize
      BY <2>1, <2>2 DEF Stands
    <3>2. SectionAt(labels, labels[k].base) = CodeAt(g)
      <4>1. ".code" \in Sections /\ SectionIs(labels, ".code", CodeAt(g))
        BY DEF Sections, PlacedIs, labels
      <4> QED BY <1>1, <1>7, <3>1, <4>1, SectionResolves
    <3>3. CodeAt(g) # Unresolved
      BY <1>2 DEF Unresolved
    <3>4. a = CodeAt(g) + as[2] * InsSize
      BY <1>4, <3>1, <3>2, <3>3 DEF LabelAt, Shifted
    <3>5. a \in Nat
      <4>1. a = CodeAt(g) + labels[k].value
        BY <3>1, <3>4
      <4> QED BY <1>2, <1>6, <4>1 DEF labels
    <3>6. AddressIs(g, as, a)
      BY <2>2, <3>1, <3>4, <3>5 DEF AddressIs
    <3> QED BY <1>9, <3>6 DEF as, k, a, labels
  <2>3. CASE as[1] = "host"
    <3>1. as[2] = Host /\ labels[k].type = "pointer" /\ labels[k].value = as[2]
      BY <2>1, <2>3 DEF Stands
    <3>2. a = Host
      BY <1>4, <3>1 DEF LabelAt
    <3>3. AddressIs(g, as, a)
      BY <1>2, <2>3, <3>1, <3>2 DEF AddressIs
    <3> QED BY <1>9, <3>3 DEF as, k, a, labels
  <2>4. CASE as[1] = "data"
    <3>1. /\ labels[k].type = "offset" /\ labels[labels[k].base].name = ".data"
          /\ as[2] \in Seq({"x", "y"}) /\ HasText(g.staticdata, labels[k].value, as[2])
      BY <2>1, <2>4 DEF Stands
    <3>2. SectionAt(labels, labels[k].base) = DataAt(g)
      <4>1. ".data" \in Sections /\ SectionIs(labels, ".data", DataAt(g))
        BY DEF Sections, PlacedIs, labels
      <4> QED BY <1>1, <1>7, <3>1, <4>1, SectionResolves
    <3>3. DataAt(g) # Unresolved
      BY <1>2 DEF Unresolved
    <3>4. a = DataAt(g) + labels[k].value
      BY <1>4, <3>1, <3>2, <3>3 DEF LabelAt, Shifted
    <3>5. a \in Nat /\ a - DataAt(g) = labels[k].value
      BY <1>2, <1>6, <3>4
    <3>6. AddressIs(g, as, a)
      BY <2>4, <3>1, <3>5 DEF AddressIs
    <3> QED BY <1>9, <3>6 DEF as, k, a, labels
  <2> QED BY <2>1, <2>2, <2>3, <2>4 DEF Stands
<1> QED BY <1>8, <1>9

\* A relocation can be done if what it refers to stands for something.
LEMMA RelocResolves ==
  ASSUME NEW g, NEW p, NEW d, NEW h, ProgramFits(g, p, d, h), PlacedIs(g), NEW r \in 1..Len(g.relocs)
  PROVE  LET key == p[g.relocs[r].offset + 1].label
             a == Resolve(g.labels, g.relocs[r].label)
         IN  /\ key \in LabelNames
             /\ a = Unresolved <=> key \notin DOMAIN d
             /\ key \in DOMAIN d => AddressIs(g, d[key], a)
<1> DEFINE m == p[g.relocs[r].offset + 1]
           key == m.label
           a == Resolve(g.labels, g.relocs[r].label)
<1>1. /\ g.relocs[r].offset + 1 \in 1..Len(p) /\ m.type = g.relocs[r].type
      /\ g.relocs[r].label = IndexOf(g.labels, h, key) /\ g.relocs[r].label # 0
  BY DEF ProgramFits, RelocsFit
<1>2. g.relocs[r] \in RelocRecs
  BY GeneratorParts DEF ProgramFits
<1>3. m.type # "none"
  BY <1>1, <1>2 DEF RelocRecs, RefTypes
<1>4. key \in LabelNames
  BY <1>1, <1>3 DEF ProgramFits, MeantFits
<1> HIDE DEF key
<1>5. /\ key \notin DOMAIN d => a = Unresolved
      /\ key \in DOMAIN d => AddressIs(g, d[key], a)
  BY <1>1, <1>4, NameResolves
<1>6. AddressIs(g, d[key], a) => a # Unresolved
  BY DEF AddressIs, Unresolved
<1> QED BY <1>4, <1>5, <1>6 DEF key

\* The references that wait for a name to stand for something.
Waiting(p, d) == {i \in 1..Len(p) : p[i].type # "none" /\ p[i].label \notin DOMAIN d}

LEMMA DoneIs ==
  ASSUME NEW g, NEW p, NEW d, NEW h, ProgramFits(g, p, d, h), PlacedIs(g)
  PROVE  /\ Done(g) \in 0..Len(g.relocs)
         /\ \A r \in 1..Done(g) : p[g.relocs[r].offset + 1].label \in DOMAIN d
         /\ Done(g) # Len(g.relocs) =>
              /\ Done(g) + 1 \in 1..Len(g.relocs)
              /\ p[g.relocs[Done(g) + 1].offset + 1].label \notin DOMAIN d
<1> DEFINE relocs == g.relocs
           n == Len(relocs)
           I == {r \in 1..n : Resolve(g.labels, relocs[r].label) = Unresolved}
           stuck == SelectInSeq(relocs, LAMBDA r : Resolve(g.labels, r.label) = Unresolved)
           done == Done(g)
<1>1. n \in Nat
  BY GeneratorParts DEF ProgramFits
<1>2. stuck = IF I # {} THEN Min(I) ELSE 0
  BY DEF SelectInSeq
<1>3. done = IF stuck = 0 THEN n ELSE stuck - 1
  BY DEF Done
<1>4. \A r \in 1..n : r \in I <=> p[relocs[r].offset + 1].label \notin DOMAIN d
  BY RelocResolves
<1>5. I \in SUBSET Nat /\ I \subseteq 1..n
  OBVIOUS
<1> HIDE DEF I, stuck, done
<1>6. CASE I = {}
  <2>1. done = n
    BY <1>2, <1>3, <1>6
  <2> QED BY <1>1, <1>4, <1>6, <2>1 DEF done
<1>7. CASE I # {}
  <2>1. Min(I) \in I /\ \A r \in I : Min(I) <= r
    BY <1>5, <1>7, MinOfPlaces
  <2>2. PICK s \in I : s = Min(I)
    BY <2>1
  <2>3. s \in 1..n /\ stuck = s /\ done = s - 1
    BY <1>2, <1>3, <1>5, <1>7, <2>2
  <2>4. done \in 0..n /\ done + 1 = s
    BY <1>1, <2>3
  <2>5. \A r \in 1..done : r \in 1..n /\ r \notin I
    BY <1>1, <2>1, <2>2, <2>3
  <2> QED BY <1>4, <2>2, <2>3, <2>4, <2>5 DEF done
<1> QED BY <1>6, <1>7

\* Relocations are done for the references before the first that waits.
LEMMA DoneRefers ==
  ASSUME NEW g, NEW p, NEW d, NEW h, ProgramFits(g, p, d, h), PlacedIs(g)
  PROVE  /\ Waiting(p, d) = {} <=> Done(g) = Len(g.relocs)
         /\ Waiting(p, d) # {} =>
              g.relocs[Done(g) + 1].offset + 1 = Min(Waiting(p, d))
         /\ \A i \in 1..Len(p) :
              /\ p[i].type # "none"
              /\ Waiting(p, d) = {} \/ i < Min(Waiting(p, d))
              => \E r \in 1..Done(g) : g.relocs[r].offset + 1 = i
<1> DEFINE relocs == g.relocs
           n == Len(relocs)
           W == Waiting(p, d)
           done == Done(g)
           At(r) == relocs[r].offset + 1
<1>1. n \in Nat /\ relocs \in Seq(RelocRecs)
  BY GeneratorParts DEF ProgramFits
<1>2. /\ done \in 0..n
      /\ \A r \in 1..done : p[At(r)].label \in DOMAIN d
      /\ done # n => done + 1 \in 1..n /\ p[At(done + 1)].label \notin DOMAIN d
  BY DoneIs
<1>3. /\ \A r \in 1..n : At(r) \in 1..Len(p) /\ p[At(r)].type = relocs[r].type
      /\ \A r, q \in 1..n : r < q => relocs[r].offset < relocs[q].offset
      /\ \A i \in 1..Len(p) : p[i].type # "none" => \E r \in 1..n : At(r) = i
  BY DEF ProgramFits, RelocsFit
<1>4. \A r \in 1..n : relocs[r].offset \in Nat /\ relocs[r].type # "none"
  <2> SUFFICES ASSUME NEW r \in 1..n PROVE relocs[r].offset \in Nat /\ relocs[r].type # "none"
    OBVIOUS
  <2>1. relocs[r] \in RelocRecs
    BY <1>1
  <2> HIDE DEF relocs
  <2>2. relocs[r].offset \in Nat /\ relocs[r].type \in RefTypes
    BY <2>1 DEF RelocRecs
  <2> QED BY <2>2 DEF RefTypes
<1>5. ASSUME NEW r \in 1..n, NEW q \in 1..n, r < q PROVE At(r) < At(q)
  <2>1. relocs[r].offset < relocs[q].offset
    BY <1>3, <1>5
  <2>2. relocs[r].offset \in Nat /\ relocs[q].offset \in Nat
    BY <1>4
  <2> HIDE DEF relocs
  <2> QED BY <2>1, <2>2
<1>6. \A r \in 1..n : At(r) \in 1..Len(p) /\ p[At(r)].type # "none"
  BY <1>3, <1>4
<1>7. \A i \in 1..Len(p) : p[i].type # "none" => \E r \in 1..n : At(r) = i
  BY <1>3
<1>8. W = {i \in 1..Len(p) : p[i].type # "none" /\ p[i].label \notin DOMAIN d}
  BY DEF Waiting
<1>9. Len(p) \in Nat
  BY DEF ProgramFits
<1> HIDE DEF done, At, W, n
<1>10. CASE done = n
  <2>1. W = {}
    BY <1>2, <1>7, <1>8, <1>10
  <2> QED BY <1>7, <1>10, <2>1 DEF done, n, W, At
<1>11. CASE done # n
  <2>1. done + 1 \in 1..n /\ At(done + 1) \in W
    BY <1>2, <1>6, <1>8, <1>11
  <2>2. ASSUME NEW i \in W PROVE At(done + 1) <= i
    <3>1. PICK r \in 1..n : At(r) = i
      BY <1>7, <1>8
    <3>2. ~(r <= done)
      <4>1. p[At(r)].label \notin DOMAIN d
        BY <1>8, <3>1
      <4>2. r \notin 1..done
        BY <1>2, <4>1
      <4> QED BY <1>1, <1>2, <4>2
    <3>3. r = done + 1 \/ done + 1 < r
      BY <1>2, <3>2
    <3>4. CASE r = done + 1
      <4>1. At(r) \in Nat
        BY <1>6
      <4> QED BY <3>1, <3>4, <4>1
    <3>5. CASE done + 1 < r
      <4>1. At(done + 1) < At(r) /\ At(r) \in Nat /\ At(done + 1) \in Nat
        BY <1>5, <1>6, <2>1, <3>5
      <4> QED BY <3>1, <4>1
    <3> QED BY <3>3, <3>4, <3>5
  <2>3. W \in SUBSET Nat /\ W # {}
    BY <1>8, <2>1
  <2>4. Min(W) \in W /\ \A i \in W : Min(W) <= i
    BY <2>3, MinOfPlaces
  <2>5. At(done + 1) = Min(W)
    <3>1. PICK m \in W : m = Min(W)
      BY <2>4
    <3>2. At(done + 1) <= m /\ m <= At(done + 1)
      BY <2>1, <2>2, <2>4, <3>1
    <3>3. m \in Nat /\ At(done + 1) \in Nat
      BY <2>1, <2>3
    <3> QED BY <3>1, <3>2, <3>3
  <2>6. ASSUME NEW i \in 1..Len(p), p[i].type # "none", i < At(done + 1)
        PROVE  \E r \in 1..done : At(r) = i
    <3>1. PICK r \in 1..n : At(r) = i
      BY <1>7, <2>6
    <3>2. ~(done + 1 <= r)
      <4>1. done + 1 < r => At(done + 1) < At(r)
        BY <1>5, <2>1
      <4>2. At(done + 1) \in Nat /\ At(r) \in Nat
        BY <1>6, <2>1
      <4>3. ~(done + 1 < r) /\ done + 1 # r
        BY <2>6, <3>1, <4>1, <4>2
      <4> QED BY <1>2, <4>3
    <3>3. r \in 1..done
      BY <1>2, <3>2
    <3> QED BY <3>1, <3>3
  <2> QED BY <1>11, <2>3, <2>5, <2>6 DEF done, n, W, At
<1> QED BY <1>10, <1>11

LEMMA StringSizeIs ==
  ASSUME NEW g \in Generators, NEW a \in Nat, NEW text \in Seq({"x", "y"}),
         HasText(g.staticdata, a - DataAt(g), text)
  PROVE  StringSize(g, a) = Len(text)
<1> DEFINE start == a - DataAt(g)
           slots == g.staticdata.slots
           I == {i \in DOMAIN slots : start <= i /\ slots[i] = Zero}
           end == start + Len(text)
<1>1. /\ start \in Nat /\ end < g.staticdata.len /\ slots[end] = Zero
      /\ \A k \in 1..Len(text) : slots[start + k - 1] = text[k]
  BY DEF HasText
<1>2. /\ DOMAIN slots = 0..(AllocSize(g.staticdata) - 1) /\ AllocSize(g.staticdata) \in Nat
      /\ g.staticdata.len \in Nat /\ g.staticdata.len <= AllocSize(g.staticdata)
  <2>1. PICK mem \in Arrays(Chars) : mem = g.staticdata
    BY GeneratorParts
  <2> QED BY <2>1, ArrayRoom
<1>3. StringSize(g, a) = Min(I) - start
  BY DEF StringSize
<1>4. Len(text) \in Nat
  OBVIOUS
<1> HIDE DEF start, slots
<1>5. end \in I
  BY <1>1, <1>2, <1>4
<1>6. ASSUME NEW i \in I PROVE end <= i
  <2> SUFFICES ASSUME i < end PROVE FALSE
    BY <1>1, <1>2, <1>4
  <2>1. i \in Nat /\ start <= i /\ slots[i] = Zero
    BY <1>2
  <2>2. PICK k \in 1..Len(text) : start + k - 1 = i
    <3>1. i - start + 1 \in 1..Len(text) /\ start + (i - start + 1) - 1 = i
      BY <1>1, <1>4, <2>1
    <3> QED BY <3>1
  <2>3. slots[i] = text[k] /\ text[k] \in {"x", "y"}
    BY <1>1, <2>2
  <2> QED BY <2>1, <2>3, StringAssumption
<1>7. I \in SUBSET Nat /\ I # {}
  BY <1>2, <1>5
<1> HIDE DEF I
<1>8. Min(I) \in I /\ \A i \in I : Min(I) <= i
  BY <1>7, MinOfPlaces
<1>9. PICK m \in I : m = Min(I)
  BY <1>8
<1>10. m = end
  <2>1. m <= end /\ end <= m
    BY <1>5, <1>6, <1>8, <1>9
  <2>2. m \in Nat /\ end \in Nat
    BY <1>1, <1>4, <1>7
  <2> QED BY <2>1, <2>2
<1> QED BY <1>1, <1>3, <1>4, <1>9, <1>10

\* What rvm_relocmap_relocate writes.
WordFor(g, reloc) ==
  LET value == Resolve(g.labels, reloc.label)
      here == CodeAt(g) + reloc.offset * InsSize
  IN  CASE reloc.type = "BRANCH" -> Quotient(value - here, InsSize)
        [] reloc.type = "JUMP" -> value - InsSize
        [] OTHER -> value
SizeFor(g, reloc) == StringSize(g, Resolve(g.labels, reloc.label))

LEMMA PatchWrites ==
  ASSUME NEW g, NEW p, g \in Generators, CodeFits(g, p), p \in Seq(Meant),
         NEW reloc \in RelocRecs, reloc.offset + 1 \in 1..Len(p),
         WordFor(g, reloc) \in Int, reloc.type = "STRING" => SizeFor(g, reloc) \in Int
  PROVE  LET g2 == Patch(g, reloc)
         IN  /\ Recoded(g, g2, p) /\ DOMAIN g2.code.slots = DOMAIN g.code.slots
             /\ g2.code.slots[reloc.offset].word = WordFor(g, reloc)
             /\ reloc.type = "STRING" => g2.code.slots[reloc.offset].size = SizeFor(g, reloc)
             /\ \A k \in 0..(Len(p) - 1) : k # reloc.offset => g2.code.slots[k] = g.code.slots[k]
<1> DEFINE off == reloc.offset
           n == Len(p)
           S == Instrs \cup {Zero}
           old == g.code.slots[off]
           word == WordFor(g, reloc)
           size == IF reloc.type = "STRING" THEN SizeFor(g, reloc) ELSE old.size
           new == [old EXCEPT !.word = word, !.size = size]
           code2 == ExistReplace(g.code, off, new)
           g2 == Patch(g, reloc)
<1>1. /\ g.code.len = n /\ n \in Nat /\ n <= g.sources.len /\ g.code \in Arrays(S)
      /\ \A i \in 1..n : g.code.slots[i - 1] \in Instrs /\ g.code.slots[i - 1].op = p[i].op
      /\ \A i \in 1..n : g.sources.slots[i - 1] = p[i].src
  <2>1. g.code \in Arrays(S)
    BY GeneratorParts
  <2> HIDE DEF S
  <2> QED BY <2>1 DEF CodeFits
<1>2. off \in Nat /\ off + 1 \in 1..n /\ (off + 1) - 1 = off /\ off < n
  BY <1>1 DEF RelocRecs
<1>3. old \in Instrs /\ old.op = p[off + 1].op
  BY <1>1, <1>2
<1>4. size \in Int /\ word \in Int
  <2> HIDE DEF old
  <2>1. old.size \in Int
    BY <1>3 DEF Instrs
  <2> QED BY <2>1
<1>5. g2 = [g EXCEPT !.code = code2]
  <2>1. g2 = [g EXCEPT !.code.slots[reloc.offset] =
                [@ EXCEPT !.word = WordFor(g, reloc),
                          !.size = IF reloc.type = "STRING" THEN SizeFor(g, reloc)
                                   ELSE g.code.slots[reloc.offset].size]]
    BY DEF Patch, WordFor, SizeFor
  <2>2. code2 = [g.code EXCEPT !.slots[off] = new]
    BY DEF ExistReplace
  <2> HIDE DEF word
  <2> QED BY <2>1, <2>2 DEF word
<1> HIDE DEF word, size, old, S, g2
<1>6. new \in Instrs /\ new.op = p[off + 1].op /\ new.word = word /\ new.size = size /\ new \in S
  BY <1>3, <1>4 DEF Instrs, S
<1> HIDE DEF new
<1>7. /\ code2 \in Arrays(S) /\ code2.len = n
      /\ \A i \in 0..(n - 1) : code2.slots[i] = IF i = off THEN new ELSE g.code.slots[i]
  <2>1. PICK a \in Arrays(S), x \in S : a = g.code /\ x = new
    BY <1>1, <1>6
  <2>2. off < a.len /\ a.len = n
    BY <1>1, <1>2, <2>1
  <2> HIDE DEF off
  <2>3. off \in Nat
    BY <1>2
  <2>4. /\ ExistReplace(a, off, x) \in Arrays(S)
        /\ ExistReplace(a, off, x).len = a.len
        /\ \A i \in 0..(a.len - 1) :
             ExistReplace(a, off, x).slots[i] = IF i = off THEN x ELSE a.slots[i]
    BY <2>2, <2>3, ExistReplaceKeeps
  <2> QED BY <2>1, <2>2, <2>4
<1>8. DOMAIN code2.slots = DOMAIN g.code.slots
  <2>1. g.code \in [slots : UNION {[0..(k - 1) -> S] : k \in Nat}, len : Nat]
    BY <1>1 DEF Arrays
  <2> QED BY <2>1 DEF ExistReplace
<1> HIDE DEF code2
<1>9. /\ g2 \in Generators /\ g2.code = code2 /\ g2.sources = g.sources
      /\ g2.labels = g.labels /\ g2.relocs = g.relocs /\ g2.staticdata = g.staticdata
  BY <1>5, <1>7 DEF Generators, S
<1> HIDE DEF n, off
<1>10. CodeFits(g2, p)
  <2>1. ASSUME NEW i \in 1..n
        PROVE  code2.slots[i - 1] \in Instrs /\ code2.slots[i - 1].op = p[i].op
    <3>1. i - 1 \in 0..(n - 1)
      BY <1>1
    <3>2. CASE i - 1 = off
      <4>1. i = off + 1
        BY <1>2, <3>2
      <4> QED BY <1>6, <1>7, <3>1, <3>2, <4>1
    <3>3. CASE i - 1 # off
      BY <1>1, <1>7, <3>1, <3>3
    <3> QED BY <3>2, <3>3
  <2> QED BY <1>1, <1>7, <1>9, <2>1 DEF CodeFits, n
<1>11. Recoded(g, g2, p)
  BY <1>9, <1>10 DEF Recoded
<1>12. off \in 0..(n - 1) /\ code2.slots[off] = new
  BY <1>1, <1>2, <1>7
<1> QED BY <1>6, <1>7, <1>8, <1>9, <1>11, <1>12 DEF g2, n, off, word, size

\* Where an instruction leads that has this word.
LeadsFrom(g, type, offset, word) ==
  CASE type = "BRANCH" -> CodeAt(g) + (offset + word) * InsSize
    [] type = "JUMP" -> word + InsSize
    [] OTHER -> word

\* A branch is counted in instructions, and every address of code is one.
LEMMA BranchLeads ==
  ASSUME NEW c \in Int, NEW e \in Int, NEW off \in Int, NEW a \in Int,
         a = (c + e) * InsSize, NEW at \in Int, at = c * InsSize
  PROVE  /\ Quotient(a - (at + off * InsSize), InsSize) = e - off
         /\ at + (off + (e - off)) * InsSize = a
<1>1. InsSize \in Nat \ {0}
  BY CodeAssumption
<1>2. a - (at + off * InsSize) = (e - off) * InsSize
  <2>1. a = c * InsSize + e * InsSize
    BY <1>1
  <2>2. (e - off) * InsSize = e * InsSize - off * InsSize
    BY <1>1
  <2>3. c * InsSize \in Int /\ e * InsSize \in Int /\ off * InsSize \in Int
    BY <1>1
  <2> QED BY <2>1, <2>2, <2>3
<1>3. Quotient((e - off) * InsSize, InsSize) = e - off
  <2>1. e - off \in Int
    OBVIOUS
  <2> QED BY <1>1, <2>1, QuotientIs
<1>4. off + (e - off) = e
  OBVIOUS
<1>5. at + e * InsSize = a
  BY <1>1
<1> QED BY <1>2, <1>3, <1>4, <1>5

LEMMA WordLeads ==
  ASSUME NEW g, NEW p, NEW d, NEW h, ProgramFits(g, p, d, h), PlacedIs(g), NEW r \in 1..Done(g)
  PROVE  LET reloc == g.relocs[r]
             key == p[reloc.offset + 1].label
             word == WordFor(g, reloc)
         IN  /\ reloc \in RelocRecs /\ reloc.offset + 1 \in 1..Len(p)
             /\ p[reloc.offset + 1].type = reloc.type /\ key \in DOMAIN d
             /\ word \in Int
             /\ AddressIs(g, d[key], LeadsFrom(g, reloc.type, reloc.offset, word))
             /\ reloc.type = "STRING" => /\ d[key][1] = "data" /\ SizeFor(g, reloc) \in Int
                                         /\ SizeFor(g, reloc) = Len(d[key][2])
<1> DEFINE reloc == g.relocs[r]
           m == p[reloc.offset + 1]
           as == d[m.label]
           a == Resolve(g.labels, reloc.label)
           word == WordFor(g, reloc)
<1>1. g \in Generators /\ g.relocs \in Seq(RelocRecs)
  BY GeneratorParts DEF ProgramFits
<1>2. r \in 1..Len(g.relocs) /\ m.label \in DOMAIN d
  BY DoneIs
<1>3. /\ reloc \in RelocRecs /\ reloc.offset \in Nat
      /\ reloc.offset + 1 \in 1..Len(p) /\ m.type = reloc.type
  <2>1. reloc \in RelocRecs
    BY <1>1, <1>2
  <2>2. reloc.offset + 1 \in 1..Len(p) /\ m.type = reloc.type
    BY <1>2 DEF ProgramFits, RelocsFit
  <2> HIDE DEF reloc
  <2>3. reloc.offset \in Nat
    BY <2>1 DEF RelocRecs
  <2> QED BY <2>1, <2>2, <2>3
<1>4. AddressIs(g, as, a)
  BY <1>2, RelocResolves
<1>5. /\ as[1] = "data" <=> m.label = Str
      /\ reloc.type \in {"STRING", "BLOB"} <=> m.label = Str
  <2>1. as[1] = "data" <=> m.label = Str
    BY <1>2 DEF ProgramFits, DefsFit
  <2>2. m.type \in {"STRING", "BLOB"} <=> m.label = Str
    BY <1>3 DEF ProgramFits, MeantFits
  <2> QED BY <1>3, <2>1, <2>2
<1>6. /\ word = CASE reloc.type = "BRANCH" ->
                       Quotient(a - (CodeAt(g) + reloc.offset * InsSize), InsSize)
                  [] reloc.type = "JUMP" -> a - InsSize
                  [] OTHER -> a
      /\ SizeFor(g, reloc) = StringSize(g, a)
  BY DEF WordFor, SizeFor
<1>7. a \in Nat /\ InsSize \in Nat \ {0} /\ CodeAt(g) \in Nat
  BY <1>1, <1>4, CodeAssumption, BlocksAt DEF AddressIs
<1> HIDE DEF a, as, m, reloc, word
<1>8. word \in Int /\ LeadsFrom(g, reloc.type, reloc.offset, word) = a
  <2>1. CASE reloc.type = "BRANCH"
    <3> DEFINE c == 1000 * AllocSize(g.code)
               off == reloc.offset
    <3>1. AllocSize(g.code) \in Nat
      BY <1>1, GeneratorParts, ArrayRoom
    <3>2. c \in Int /\ CodeAt(g) = c * InsSize
      BY <1>7, <3>1 DEF CodeAt
    <3>3. as[1] # "data"
      BY <1>5, <2>1
    <3> HIDE DEF c
    <3>4. PICK e \in Int : a = (c + e) * InsSize
      <4>1. CASE as[1] = "code"
        <5>1. as[2] \in Nat /\ a = CodeAt(g) + as[2] * InsSize
          BY <1>4, <4>1 DEF AddressIs
        <5>2. PICK e \in Nat : e = as[2]
          BY <5>1
        <5>3. a = c * InsSize + e * InsSize
          BY <3>2, <5>1, <5>2
        <5>4. c \in Int /\ InsSize \in Int /\ e \in Int
          BY <1>7, <3>2
        <5>5. (c + e) * InsSize = c * InsSize + e * InsSize
          BY <5>4
        <5> QED BY <5>3, <5>4, <5>5
      <4>2. CASE as[1] = "host"
        <5>1. a = 7 * InsSize
          BY <1>4, <4>2 DEF AddressIs, Host
        <5>2. PICK e \in Int : e = 7 - c
          BY <3>2
        <5>3. c + e = 7
          BY <3>2, <5>2
        <5> QED BY <5>1, <5>3
      <4> QED BY <1>4, <3>3, <4>1, <4>2 DEF AddressIs
    <3>5. word = Quotient(a - (CodeAt(g) + off * InsSize), InsSize)
      BY <1>6, <2>1
    <3>6. off \in Int /\ CodeAt(g) \in Int /\ a \in Int
      BY <1>3, <1>7
    <3> HIDE DEF off
    <3>7. word = e - off /\ CodeAt(g) + (off + (e - off)) * InsSize = a
      BY <3>2, <3>4, <3>5, <3>6, BranchLeads
    <3>8. LeadsFrom(g, reloc.type, off, word) = CodeAt(g) + (off + word) * InsSize
      BY <2>1 DEF LeadsFrom
    <3>9. LeadsFrom(g, reloc.type, off, word) = a
      BY <3>7, <3>8
    <3>10. word \in Int
      BY <3>4, <3>6, <3>7
    <3> QED BY <3>9, <3>10 DEF off
  <2>2. CASE reloc.type = "JUMP"
    BY <1>6, <1>7, <2>2 DEF LeadsFrom
  <2>3. CASE reloc.type # "BRANCH" /\ reloc.type # "JUMP"
    BY <1>6, <1>7, <2>3 DEF LeadsFrom
  <2> QED BY <2>1, <2>2, <2>3
<1>9. reloc.type = "STRING" => /\ as[1] = "data" /\ SizeFor(g, reloc) \in Int
                               /\ SizeFor(g, reloc) = Len(as[2])
  <2> SUFFICES ASSUME reloc.type = "STRING"
               PROVE  /\ as[1] = "data" /\ SizeFor(g, reloc) \in Int
                      /\ SizeFor(g, reloc) = Len(as[2])
    OBVIOUS
  <2>1. as[1] = "data"
    BY <1>5
  <2>2. as[2] \in Seq({"x", "y"}) /\ HasText(g.staticdata, a - DataAt(g), as[2])
    BY <1>4, <2>1 DEF AddressIs
  <2>3. StringSize(g, a) = Len(as[2])
    BY <1>1, <1>7, <2>2, StringSizeIs
  <2>4. Len(as[2]) \in Int
    BY <2>2
  <2> QED BY <1>6, <2>1, <2>3, <2>4
<1> QED BY <1>2, <1>3, <1>4, <1>8, <1>9 DEF a, as, m, reloc, word

\* The generator in the course of a relocation: what is left to do does not change.
InPlace(g, g2, p) == Recoded(g, g2, p) /\ DOMAIN g2.code.slots = DOMAIN g.code.slots

LEMMA InPlaceSame ==
  ASSUME NEW g, NEW g2, NEW p, InPlace(g, g2, p), NEW reloc
  PROVE  /\ CodeAt(g2) = CodeAt(g) /\ DataAt(g2) = DataAt(g)
         /\ WordFor(g2, reloc) = WordFor(g, reloc) /\ SizeFor(g2, reloc) = SizeFor(g, reloc)
<1>1. /\ DOMAIN g2.code.slots = DOMAIN g.code.slots
      /\ g2.labels = g.labels /\ g2.staticdata = g.staticdata
  BY DEF InPlace, Recoded
<1>2. CodeAt(g2) = CodeAt(g) /\ DataAt(g2) = DataAt(g)
  BY <1>1 DEF CodeAt, DataAt, AllocSize
<1>3. WordFor(g2, reloc) = WordFor(g, reloc)
  BY <1>1, <1>2 DEF WordFor
<1>4. SizeFor(g2, reloc) = SizeFor(g, reloc)
  BY <1>1, <1>2 DEF SizeFor, StringSize
<1> QED BY <1>2, <1>3, <1>4

\* A generator has the same labels when only its instructions are changed.
LEMMA RecodedFits ==
  ASSUME NEW g, NEW g2, NEW p, NEW d, NEW h, ProgramFits(g, p, d, h), Recoded(g, g2, p)
  PROVE  ProgramFits(g2, p, d, h)
  BY DEF ProgramFits, Recoded

\* The first n relocations are done.
Patched(g, g2, n) ==
  \A r \in 1..n : LET reloc == g.relocs[r]
                      ins == g2.code.slots[reloc.offset]
                  IN  /\ ins.word = WordFor(g, reloc)
                      /\ reloc.type = "STRING" => ins.size = SizeFor(g, reloc)

LEMMA PatchNext ==
  ASSUME NEW g, NEW p, NEW d, NEW h, ProgramFits(g, p, d, h), PlacedIs(g), NEW n \in 1..Done(g),
         NEW g2, InPlace(g, g2, p)
  PROVE  LET g3 == Patch(g2, g.relocs[n])
         IN  InPlace(g, g3, p) /\ (Patched(g, g2, n - 1) => Patched(g, g3, n))
<1> DEFINE reloc == g.relocs[n]
           g3 == Patch(g2, reloc)
<1>1. /\ reloc \in RelocRecs /\ reloc.offset + 1 \in 1..Len(p)
      /\ WordFor(g, reloc) \in Int
      /\ reloc.type = "STRING" => SizeFor(g, reloc) \in Int
  BY WordLeads
<1>2. WordFor(g2, reloc) = WordFor(g, reloc) /\ SizeFor(g2, reloc) = SizeFor(g, reloc)
  BY InPlaceSame
<1>3. g2 \in Generators /\ CodeFits(g2, p) /\ p \in Seq(Meant)
  BY DEF InPlace, Recoded, ProgramFits
<1> HIDE DEF reloc, g3
<1>4. /\ Recoded(g2, g3, p) /\ DOMAIN g3.code.slots = DOMAIN g2.code.slots
      /\ g3.code.slots[reloc.offset].word = WordFor(g, reloc)
      /\ reloc.type = "STRING" => g3.code.slots[reloc.offset].size = SizeFor(g, reloc)
      /\ \A k \in 0..(Len(p) - 1) : k # reloc.offset => g3.code.slots[k] = g2.code.slots[k]
  BY <1>1, <1>2, <1>3, PatchWrites DEF g3
<1>5. InPlace(g, g3, p)
  BY <1>4 DEF InPlace, Recoded
<1>6. ASSUME Patched(g, g2, n - 1), NEW r \in 1..n
      PROVE  /\ g3.code.slots[g.relocs[r].offset].word = WordFor(g, g.relocs[r])
             /\ g.relocs[r].type = "STRING" =>
                  g3.code.slots[g.relocs[r].offset].size = SizeFor(g, g.relocs[r])
  <2>1. CASE r = n
    BY <1>4, <2>1 DEF reloc
  <2>2. CASE r # n
    <3>1. Done(g) \in 0..Len(g.relocs) /\ Len(g.relocs) \in Nat /\ Len(p) \in Nat
      <4>1. Done(g) \in 0..Len(g.relocs)
        BY DoneIs
      <4>2. g.relocs \in Seq(RelocRecs)
        BY GeneratorParts DEF ProgramFits
      <4> QED BY <1>3, <4>1, <4>2
    <3>2. r \in 1..(n - 1) /\ r < n /\ r \in 1..Len(g.relocs) /\ n \in 1..Len(g.relocs)
      BY <2>2, <3>1
    <3>3. g.relocs[r].offset < reloc.offset /\ g.relocs[r].offset + 1 \in 1..Len(p)
      BY <3>2 DEF ProgramFits, RelocsFit, reloc
    <3>4. g.relocs[r].offset \in Nat /\ reloc.offset \in Nat
      <4>1. g.relocs[r] \in RelocRecs
        BY <3>2, GeneratorParts DEF ProgramFits
      <4> QED BY <1>1, <4>1 DEF RelocRecs
    <3>5. PICK k \in Nat : k = g.relocs[r].offset
      BY <3>4
    <3>6. k \in 0..(Len(p) - 1) /\ k # reloc.offset
      BY <3>1, <3>3, <3>4, <3>5
    <3>7. g3.code.slots[k] = g2.code.slots[k]
      BY <1>4, <3>6
    <3>8. /\ g2.code.slots[k].word = WordFor(g, g.relocs[r])
          /\ g.relocs[r].type = "STRING" => g2.code.slots[k].size = SizeFor(g, g.relocs[r])
      BY <1>6, <3>2, <3>5 DEF Patched
    <3> QED BY <3>5, <3>7, <3>8
  <2> QED BY <2>1, <2>2
<1>7. Patched(g, g2, n - 1) => Patched(g, g3, n)
  BY <1>6 DEF Patched
<1> QED BY <1>5, <1>7 DEF g3, reloc

\* rvm_relocmap_relocate, one relocation after the other.
LEMMA RelocatedPatches ==
  ASSUME NEW g, NEW p, NEW d, NEW h, ProgramFits(g, p, d, h)
  PROVE  /\ InPlace(Placed(g), Relocated(g), p)
         /\ Patched(Placed(g), Relocated(g), Done(Placed(g)))
<1> DEFINE placed == Placed(g)
           relocs == placed.relocs
           n == Done(placed)
           S == {x \in Generators : InPlace(placed, x, p)}
           F == [i \in 1..n |-> [x \in S |-> Patch(x, relocs[i])]]
           patched[k \in 0..n] ==
             IF k = 0 THEN placed ELSE Patch(patched[k - 1], placed.relocs[k])
<1>1. ProgramFits(placed, p, d, h) /\ PlacedIs(placed)
  BY PlacedFits
<1>2. n \in Nat
  <2>1. n \in 0..Len(relocs)
    BY <1>1, DoneIs
  <2> QED BY <2>1
<1>3. placed \in S
  BY <1>1 DEF ProgramFits, InPlace, Recoded
<1>4. ASSUME NEW i \in 1..n, NEW x \in S
      PROVE  /\ Patch(x, relocs[i]) \in S
             /\ Patched(placed, x, i - 1) => Patched(placed, Patch(x, relocs[i]), i)
  <2>1. InPlace(placed, x, p)
    OBVIOUS
  <2> HIDE DEF placed
  <2>2. /\ InPlace(placed, Patch(x, relocs[i]), p)
        /\ Patched(placed, x, i - 1) => Patched(placed, Patch(x, relocs[i]), i)
    BY <1>1, <2>1, PatchNext
  <2> QED BY <2>2 DEF InPlace, Recoded
<1>5. F \in [1..n -> [S -> S]]
  <2> HIDE DEF S, n, relocs
  <2> QED BY <1>4
<1>6. PICK f \in [0..n -> S] : Follows(f, n, placed, F)
  <2> HIDE DEF F, S, patched, n, placed
  <2>1. \E f \in [0..n -> S] : Follows(f, n, placed, F)
    BY <1>2, <1>3, <1>5, Iterates
  <2> QED BY <2>1
<1>7. f = [k \in 0..n |-> IF k = 0 THEN placed ELSE Patch(f[k - 1], placed.relocs[k])]
  <2> HIDE DEF S, n, placed
  <2>1. \A i \in 1..n : i - 1 \in 0..n /\ f[i - 1] \in S
    BY <1>2
  <2>2. \A i \in 1..n : f[i] = Patch(f[i - 1], relocs[i])
    BY <1>6, <2>1 DEF Follows
  <2>3. \A k \in 0..n : k = 0 \/ k \in 1..n
    BY <1>2
  <2>4. f[0] = placed
    BY <1>6 DEF Follows
  <2> HIDE DEF F
  <2> QED BY <2>2, <2>3, <2>4
<1>8. patched = [k \in 0..n |-> IF k = 0 THEN placed ELSE Patch(patched[k - 1], placed.relocs[k])]
  <2> HIDE DEF F, S, n, placed, relocs
  <2> QED BY <1>7
<1>9. Relocated(g) = patched[n]
  BY DEF Relocated
<1> HIDE DEF patched, F, S, n, placed
<1>10. /\ patched[0] = placed
       /\ \A i \in 1..n : patched[i] = Patch(patched[i - 1], relocs[i])
  BY <1>2, <1>8
<1> DEFINE P == {k \in 0..n : patched[k] \in S /\ Patched(placed, patched[k], k)}
<1>11. 0 \in P
  BY <1>2, <1>3, <1>10 DEF Patched
<1>12. ASSUME NEW i \in 1..n, i - 1 \in P
       PROVE  i \in P
  <2>1. PICK x \in S : x = patched[i - 1] /\ Patched(placed, x, i - 1)
    BY <1>12
  <2>2. Patch(x, relocs[i]) \in S /\ Patched(placed, Patch(x, relocs[i]), i)
    BY <1>4, <2>1
  <2>3. patched[i] = Patch(x, relocs[i])
    BY <1>10, <2>1
  <2> QED BY <2>2, <2>3
<1>13. P = 0..n
  <2>1. P \in SUBSET (0..n)
    OBVIOUS
  <2> HIDE DEF P
  <2> QED BY <1>2, <1>11, <1>12, <2>1, HoldsUpto
<1>14. n \in P
  BY <1>2, <1>13
<1>15. patched[n] \in S /\ Patched(placed, patched[n], n)
  BY <1>14
<1> QED BY <1>9, <1>15 DEF S, n, placed

\* LeadsTo, of any generator and program.
RefersTo(g, p, i, as) ==
  LET ins == g.code.slots[i - 1]
      a == LeadsFrom(g, p[i].type, i - 1, ins.word)
  IN  CASE as[1] = "code" -> a = CodeAt(g) + as[2] * InsSize
        [] as[1] = "host" -> a = as[2]
        [] as[1] = "data" ->
             LET bytes == Append(as[2], Zero)
                 start == a - DataAt(g)
             IN  /\ start >= 0 /\ start % WordSize = 0
                 /\ start + Len(bytes) <= g.staticdata.len
                 /\ \A k \in DOMAIN bytes : g.staticdata.slots[start + k - 1] = bytes[k]
                 /\ p[i].type = "STRING" => ins.size = Len(as[2])

\* Bytes that are written with a zero behind them are found with it.
LEMMA AddressRefers ==
  ASSUME NEW g, g \in Generators, NEW p, NEW i, NEW as,
         AddressIs(g, as, LeadsFrom(g, p[i].type, i - 1, g.code.slots[i - 1].word)),
         p[i].type = "STRING" => as[1] = "data" /\ g.code.slots[i - 1].size = Len(as[2])
  PROVE  RefersTo(g, p, i, as)
<1> DEFINE ins == g.code.slots[i - 1]
           a == LeadsFrom(g, p[i].type, i - 1, ins.word)
           start == a - DataAt(g)
           bytes == Append(as[2], Zero)
<1>1. /\ as[1] \in {"code", "host", "data"}
      /\ as[1] = "code" => a = CodeAt(g) + as[2] * InsSize
      /\ as[1] = "host" => as[2] = Host /\ a = Host
      /\ as[1] = "data" => as[2] \in Seq({"x", "y"}) /\ HasText(g.staticdata, start, as[2])
  BY DEF AddressIs
<1>2. p[i].type = "STRING" => ins.size = Len(as[2])
  OBVIOUS
<1> HIDE DEF a, ins
<1>3. CASE as[1] = "code"
  BY <1>1, <1>3 DEF RefersTo, a, ins
<1>4. CASE as[1] = "host"
  BY <1>1, <1>4 DEF RefersTo, a, ins
<1>5. CASE as[1] = "data"
  <2> HIDE DEF start
  <2>1. as[2] \in Seq({"x", "y"})
    BY <1>1, <1>5
  <2>2. PICK text \in Seq({"x", "y"}) : text = as[2]
    BY <2>1
  <2>3. /\ start \in Nat /\ start % WordSize = 0 /\ start + Len(text) < g.staticdata.len
        /\ \A k \in 1..Len(text) : g.staticdata.slots[start + k - 1] = text[k]
        /\ g.staticdata.slots[start + Len(text)] = Zero
    BY <1>1, <1>5, <2>2 DEF HasText
  <2>4. g.staticdata.len \in Nat
    <3>1. PICK mem \in Arrays(Chars) : mem = g.staticdata
      BY GeneratorParts
    <3> QED BY <3>1, ArrayRoom
  <2>5. Len(text) \in Nat
    OBVIOUS
  <2>6. /\ Len(bytes) = Len(text) + 1 /\ DOMAIN bytes = 1..(Len(text) + 1)
        /\ bytes[Len(text) + 1] = Zero /\ \A k \in 1..Len(text) : bytes[k] = text[k]
    <3>1. PICK T : T = {"x", "y", Zero}
      OBVIOUS
    <3>2. text \in Seq(T) /\ Zero \in T
      BY <3>1
    <3>3. bytes = Append(text, Zero)
      BY <2>2
    <3> HIDE DEF bytes
    <3>4. Len(bytes) = Len(text) + 1 /\ bytes \in Seq(T)
      BY <3>2, <3>3
    <3>5. bytes[Len(text) + 1] = Zero /\ \A k \in 1..Len(text) : bytes[k] = text[k]
      BY <3>2, <3>3
    <3> QED BY <3>4, <3>5
  <2> HIDE DEF bytes
  <2>7. ASSUME NEW k \in DOMAIN bytes
        PROVE  g.staticdata.slots[start + k - 1] = bytes[k]
    <3>1. CASE k \in 1..Len(text)
      BY <2>3, <2>6, <3>1
    <3>2. CASE k = Len(text) + 1
      <4>1. start + k - 1 = start + Len(text)
        BY <2>3, <2>5, <3>2
      <4> QED BY <2>3, <2>6, <3>2, <4>1
    <3> QED BY <2>5, <2>6, <3>1, <3>2
  <2>8. start >= 0 /\ start + Len(bytes) <= g.staticdata.len
    BY <2>3, <2>4, <2>5, <2>6
  <2> QED BY <1>2, <1>5, <2>3, <2>7, <2>8 DEF RefersTo, a, ins, start, bytes
<1> QED BY <1>1, <1>3, <1>4, <1>5

LEMMA RelocatedRefers ==
  ASSUME NEW g, NEW p, NEW d, NEW h, ProgramFits(g, p, d, h)
  PROVE  /\ ProgramFits(Relocated(g), p, d, h)
         /\ \A i \in 1..Len(p) :
              /\ p[i].type # "none"
              /\ Waiting(p, d) = {} \/ i < Min(Waiting(p, d))
              => RefersTo(Relocated(g), p, i, d[p[i].label])
<1> DEFINE placed == Placed(g)
           g2 == Relocated(g)
<1>1. ProgramFits(placed, p, d, h) /\ PlacedIs(placed)
  BY PlacedFits
<1>2. InPlace(placed, g2, p) /\ Patched(placed, g2, Done(placed))
  BY RelocatedPatches
<1> HIDE DEF placed, g2
<1>3. ProgramFits(g2, p, d, h) /\ g2 \in Generators
  <2>1. Recoded(placed, g2, p)
    BY <1>2 DEF InPlace
  <2>2. ProgramFits(g2, p, d, h)
    BY <1>1, <2>1, RecodedFits
  <2> QED BY <2>2 DEF ProgramFits
<1>4. ASSUME NEW i \in 1..Len(p), p[i].type # "none",
             Waiting(p, d) = {} \/ i < Min(Waiting(p, d))
      PROVE  RefersTo(g2, p, i, d[p[i].label])
  <2>1. PICK r \in 1..Done(placed) : placed.relocs[r].offset + 1 = i
    BY <1>1, <1>4, DoneRefers
  <2> DEFINE reloc == placed.relocs[r]
             as == d[p[i].label]
             ins == g2.code.slots[i - 1]
  <2>2. /\ reloc \in RelocRecs /\ p[i].type = reloc.type
        /\ AddressIs(placed, as, LeadsFrom(placed, reloc.type, reloc.offset, WordFor(placed, reloc)))
        /\ reloc.type = "STRING" => as[1] = "data" /\ SizeFor(placed, reloc) = Len(as[2])
    <3>1. p[placed.relocs[r].offset + 1] = p[i]
      BY <2>1
    <3> QED BY <1>1, <3>1, WordLeads
  <2>3. reloc.offset = i - 1
    <3> HIDE DEF reloc
    <3>1. reloc.offset \in Nat
      BY <2>2 DEF RelocRecs
    <3> QED BY <2>1, <3>1 DEF reloc
  <2>4. /\ ins.word = WordFor(placed, reloc)
        /\ reloc.type = "STRING" => ins.size = SizeFor(placed, reloc)
    BY <1>2, <2>3 DEF Patched
  <2> HIDE DEF reloc, as
  <2>5. /\ CodeAt(g2) = CodeAt(placed) /\ DataAt(g2) = DataAt(placed)
        /\ g2.staticdata = placed.staticdata
    BY <1>2, InPlaceSame DEF InPlace, Recoded
  <2>6. LeadsFrom(g2, p[i].type, i - 1, ins.word)
          = LeadsFrom(placed, reloc.type, reloc.offset, WordFor(placed, reloc))
    BY <2>2, <2>3, <2>4, <2>5 DEF LeadsFrom
  <2>7. AddressIs(g2, as, LeadsFrom(g2, p[i].type, i - 1, ins.word))
    BY <2>2, <2>5, <2>6 DEF AddressIs
  <2>8. RefersTo(g2, p, i, as)
    BY <1>3, <2>2, <2>4, <2>7, AddressRefers
  <2> QED BY <2>8 DEF as
<1> QED BY <1>3, <1>4 DEF g2

\* The label that could not be resolved is that of the first reference that waits.
LEMMA StuckIs ==
  ASSUME NEW g, NEW p, NEW d, NEW h, ProgramFits(g, p, d, h)
  PROVE  /\ Waiting(p, d) = {} => Stuck(g) = 0
         /\ Waiting(p, d) # {} =>
              Stuck(g) # 0 /\ Stuck(g) = IndexOf(g.labels, h, p[Min(Waiting(p, d))].label)
<1> DEFINE placed == Placed(g)
           n == Done(placed)
<1>1. ProgramFits(placed, p, d, h) /\ PlacedIs(placed) /\ placed.relocs = g.relocs
  BY PlacedFits DEF Relabeled
<1>2. Stuck(g) = IF n = Len(placed.relocs) THEN 0 ELSE placed.relocs[n + 1].label
  BY DEF Stuck
<1> HIDE DEF placed, n
<1>3. /\ Waiting(p, d) = {} <=> n = Len(placed.relocs)
      /\ Waiting(p, d) # {} => placed.relocs[n + 1].offset + 1 = Min(Waiting(p, d))
  BY <1>1, DoneRefers DEF n
<1>4. n # Len(placed.relocs) => n + 1 \in 1..Len(placed.relocs)
  BY <1>1, DoneIs DEF n
<1>5. n + 1 \in 1..Len(g.relocs) =>
        /\ g.relocs[n + 1].label = IndexOf(g.labels, h, p[g.relocs[n + 1].offset + 1].label)
        /\ g.relocs[n + 1].label # 0
  BY DEF ProgramFits, RelocsFit
<1>6. CASE Waiting(p, d) = {}
  BY <1>2, <1>3, <1>6
<1>7. CASE Waiting(p, d) # {}
  BY <1>1, <1>2, <1>3, <1>4, <1>5, <1>7
<1> QED BY <1>6, <1>7

-----------------------------------------------------------------------------
(* Functions.                                                              *)

Plain(op, src) == [op |-> op, type |-> "none", label |-> Nameless, src |-> src]

LEMMA OneLonger ==
  ASSUME NEW p \in Seq(Meant), NEW m \in Meant
  PROVE  Longer(p, p \o <<m>>, m) /\ Longer(p, Append(p, m), m)
<1>1. p \o <<m>> = Append(p, m)
  OBVIOUS
<1>2. Longer(p, Append(p, m), m)
  BY DEF Longer
<1> QED BY <1>1, <1>2

LEMMA PlainMeant ==
  ASSUME NEW op \in Ops, NEW src \in Nat
  PROVE  /\ Plain(op, src) \in Meant /\ Plain(op, src).op = op /\ Plain(op, src).src = src
         /\ Plain(op, src).type = "none" /\ Plain(op, src).label = Nameless
         /\ Ins(op) \in Instrs /\ Ins(op).op = op
  BY DEF Plain, Meant, Ins, Instrs

LEMMA AddsPlain ==
  ASSUME NEW g, NEW p, NEW d, NEW h, ProgramFits(g, p, d, h), NEW op \in Ops, NEW src \in Nat,
         g.cursrc = src, NEW q, Longer(p, q, Plain(op, src))
  PROVE  ProgramFits(AddIns(g, Ins(op)), q, d, h) /\ AddIns(g, Ins(op)).cursrc = src
<1> DEFINE m == Plain(op, src)
           ins == Ins(op)
<1>1. /\ m.op = op /\ m.src = src /\ m.type = "none" /\ m.label = Nameless
      /\ ins \in Instrs /\ ins.op = op
  BY PlainMeant
<1>2. Longer(p, q, m)
  OBVIOUS
<1> HIDE DEF m, ins
<1>3. m.op = ins.op /\ m.src = g.cursrc
  BY <1>1
<1>4. ProgramFits(AddIns(g, ins), q, d, h) /\ AddIns(g, ins).cursrc = g.cursrc
  BY <1>1, <1>2, <1>3, AddInsFits
<1> QED BY <1>4 DEF ins

\* The label is of the instruction that is added next.
LEMMA AddLabelDefaultFits ==
  ASSUME NEW g, NEW p, NEW d, NEW h, ProgramFits(g, p, d, h)
  PROVE  /\ ProgramFits(AddLabelDefault(g, Func), p, Given(d, Func, <<"code", Len(p)>>), h)
         /\ AddLabelDefault(g, Func).cursrc = g.cursrc
<1>1. g.code.len = Len(p) /\ Len(p) \in Nat
  BY DEF ProgramFits, CodeFits
<1>2. Func \in {Func, Anon} /\ Func # Anon /\ NameOf(Func) = Func
  BY DEF NameOf, Func, Anon
<1>3. /\ ProgramFits(AddLabel(g, NameOf(Func), Len(p)), p, Given(d, Func, <<"code", Len(p)>>),
                     IF Func = Anon THEN Len(AddLabel(g, NameOf(Func), Len(p)).labels) ELSE h)
      /\ Relabeled(g, AddLabel(g, NameOf(Func), Len(p)))
  BY <1>1, <1>2, AddLabelFits
<1>4. AddLabelDefault(g, Func) = AddLabel(g, NameOf(Func), Len(p))
  BY <1>1, <1>2 DEF AddLabelDefault
<1> QED BY <1>2, <1>3, <1>4 DEF Relabeled

LEMMA AddLabelInsFits ==
  ASSUME NEW g, NEW p, NEW d, NEW h, ProgramFits(g, p, d, h), NEW op \in Ops, NEW src \in Nat,
         g.cursrc = src, NEW q, Longer(p, q, Plain(op, src))
  PROVE  /\ ProgramFits(AddLabelIns(g, Func, Ins(op)), q, Given(d, Func, <<"code", Len(p)>>), h)
         /\ AddLabelIns(g, Func, Ins(op)).cursrc = src
<1> DEFINE g1 == AddLabelDefault(g, Func)
           d1 == Given(d, Func, <<"code", Len(p)>>)
<1>1. ProgramFits(g1, p, d1, h) /\ g1.cursrc = src
  BY AddLabelDefaultFits
<1>2. AddLabelIns(g, Func, Ins(op)) = AddIns(g1, Ins(op))
  BY DEF AddLabelIns
<1> HIDE DEF g1, d1
<1>3. ProgramFits(AddIns(g1, Ins(op)), q, d1, h) /\ AddIns(g1, Ins(op)).cursrc = src
  BY <1>1, AddsPlain
<1> QED BY <1>2, <1>3 DEF d1

\* p with the first k of s behind it.
Upto(p, s, k) == [i \in 1..(Len(p) + k) |-> IF i <= Len(p) THEN p[i] ELSE s[i - Len(p)]]

LEMMA UptoLonger ==
  ASSUME NEW p \in Seq(Meant), NEW s \in Seq(Meant)
  PROVE  /\ Upto(p, s, 0) = p /\ Upto(p, s, Len(s)) = p \o s
         /\ \A k \in 0..Len(s) : Upto(p, s, k) \in Seq(Meant) /\ Len(Upto(p, s, k)) = Len(p) + k
         /\ \A k \in 0..(Len(s) - 1) : Longer(Upto(p, s, k), Upto(p, s, k + 1), s[k + 1])
<1>1. Len(p) \in Nat /\ Len(s) \in Nat
  OBVIOUS
<1>2. ASSUME NEW k \in 0..Len(s)
      PROVE  /\ Upto(p, s, k) \in Seq(Meant) /\ Len(Upto(p, s, k)) = Len(p) + k
             /\ \A i \in 1..(Len(p) + k) :
                  Upto(p, s, k)[i] = IF i <= Len(p) THEN p[i] ELSE s[i - Len(p)]
  <2> DEFINE u == Upto(p, s, k)
             n == Len(p) + k
  <2>1. n \in Nat
    BY <1>1
  <2>2. \A i \in 1..n : (IF i <= Len(p) THEN p[i] ELSE s[i - Len(p)]) \in Meant
    BY <1>1
  <2>3. u \in [1..n -> Meant] /\ \A i \in 1..n : u[i] = IF i <= Len(p) THEN p[i] ELSE s[i - Len(p)]
    BY <2>2 DEF Upto
  <2> HIDE DEF u, n
  <2>4. u \in Seq(Meant) /\ Len(u) = n
    BY <2>1, <2>3
  <2> QED BY <2>3, <2>4 DEF u, n
<1>3. Upto(p, s, 0) = p
  <2>1. \A i \in 1..Len(p) : Upto(p, s, 0)[i] = p[i]
    BY <1>1, <1>2
  <2>2. Upto(p, s, 0) \in Seq(Meant) /\ Len(Upto(p, s, 0)) = Len(p)
    BY <1>1, <1>2
  <2> QED BY <2>1, <2>2
<1>4. Upto(p, s, Len(s)) = p \o s
  <2> DEFINE u == Upto(p, s, Len(s))
             v == p \o s
  <2>1. /\ v \in Seq(Meant) /\ Len(v) = Len(p) + Len(s)
        /\ \A i \in 1..(Len(p) + Len(s)) : v[i] = IF i <= Len(p) THEN p[i] ELSE s[i - Len(p)]
    OBVIOUS
  <2>2. /\ u \in Seq(Meant) /\ Len(u) = Len(p) + Len(s)
        /\ \A i \in 1..(Len(p) + Len(s)) : u[i] = IF i <= Len(p) THEN p[i] ELSE s[i - Len(p)]
    BY <1>1, <1>2
  <2> HIDE DEF u, v
  <2>3. u = v
    BY <2>1, <2>2
  <2> QED BY <2>3 DEF u, v
<1>5. ASSUME NEW k \in 0..(Len(s) - 1)
      PROVE  Longer(Upto(p, s, k), Upto(p, s, k + 1), s[k + 1])
  <2> DEFINE u == Upto(p, s, k)
             v == Upto(p, s, k + 1)
  <2>1. k \in 0..Len(s) /\ k + 1 \in 0..Len(s)
    BY <1>1
  <2>2. /\ Len(u) = Len(p) + k
        /\ \A i \in 1..(Len(p) + k) : u[i] = IF i <= Len(p) THEN p[i] ELSE s[i - Len(p)]
    BY <1>2, <2>1
  <2>3. /\ v \in Seq(Meant) /\ Len(v) = Len(p) + (k + 1)
        /\ \A i \in 1..(Len(p) + (k + 1)) : v[i] = IF i <= Len(p) THEN p[i] ELSE s[i - Len(p)]
    BY <1>2, <2>1
  <2> HIDE DEF u, v
  <2>4. Len(v) = Len(u) + 1 /\ \A i \in 1..Len(u) : v[i] = u[i]
    <3>1. k \in Nat /\ Len(p) \in Nat
      BY <1>1
    <3>2. Len(u) = Len(p) + k /\ Len(v) = Len(p) + (k + 1)
      BY <2>2, <2>3
    <3>3. Len(v) = Len(u) + 1
      BY <3>1, <3>2
    <3>4. ASSUME NEW i \in 1..Len(u) PROVE v[i] = u[i]
      <4>1. i \in 1..(Len(p) + k) /\ i \in 1..(Len(p) + (k + 1))
        BY <3>1, <3>2
      <4>2. u[i] = IF i <= Len(p) THEN p[i] ELSE s[i - Len(p)]
        BY <2>2, <4>1
      <4>3. v[i] = IF i <= Len(p) THEN p[i] ELSE s[i - Len(p)]
        BY <2>3, <4>1
      <4> QED BY <4>2, <4>3
    <3> QED BY <3>3, <3>4
  <2>5. v[Len(u) + 1] = s[k + 1]
    <3>1. Len(p) + (k + 1) \in 1..(Len(p) + (k + 1)) /\ ~(Len(p) + (k + 1) <= Len(p))
      BY <1>1
    <3>2. Len(u) + 1 = Len(p) + (k + 1) /\ (Len(p) + (k + 1)) - Len(p) = k + 1
      BY <1>1, <2>2
    <3> QED BY <2>3, <3>1, <3>2
  <2>6. Longer(u, v, s[k + 1])
    BY <2>3, <2>4, <2>5 DEF Longer
  <2> QED BY <2>6 DEF u, v
<1> QED BY <1>2, <1>3, <1>4, <1>5

LEMMA FuncStartFits ==
  ASSUME NEW g, NEW p, NEW d, NEW h, ProgramFits(g, p, d, h), NEW src \in Nat, g.cursrc = src,
         NEW s \in Seq(Meant), Len(s) >= 4,
         s[1] = Plain("NOP", src), s[2] = Plain("PUSHM", src),
         s[3] = Plain("MOV", src), s[4] = Plain("ADD", src)
  PROVE  /\ ProgramFits(FuncStart(g, Func), Upto(p, s, 4), Given(d, Func, <<"code", Len(p) + 1>>), h)
         /\ FuncStart(g, Func).cursrc = src
<1> DEFINE u(k) == Upto(p, s, k)
           g1 == AddIns(g, Ins("NOP"))
           g2 == AddLabelIns(g1, Func, Ins("PUSHM"))
           g3 == AddIns(g2, Ins("MOV"))
           g4 == AddIns(g3, Ins("ADD"))
           d2 == Given(d, Func, <<"code", Len(p) + 1>>)
<1>1. p \in Seq(Meant) /\ Len(p) \in Nat /\ Len(s) \in Nat
  BY DEF ProgramFits
<1>2. {"NOP", "PUSHM", "MOV", "ADD"} \subseteq Ops
  BY DEF Ops
<1>3. u(0) = p
  BY <1>1, UptoLonger
<1>4. /\ Longer(u(0), u(0 + 1), s[0 + 1]) /\ Longer(u(1), u(1 + 1), s[1 + 1])
      /\ Longer(u(2), u(2 + 1), s[2 + 1]) /\ Longer(u(3), u(3 + 1), s[3 + 1])
  <2>1. 0 \in 0..(Len(s) - 1) /\ 1 \in 0..(Len(s) - 1) /\ 2 \in 0..(Len(s) - 1) /\ 3 \in 0..(Len(s) - 1)
    BY <1>1
  <2> HIDE DEF u
  <2>2. \A k \in 0..(Len(s) - 1) : Longer(u(k), u(k + 1), s[k + 1])
    BY <1>1, UptoLonger DEF u
  <2> QED BY <2>1, <2>2
<1>5. Longer(u(0), u(1), s[1]) /\ Longer(u(1), u(2), s[2]) /\ Longer(u(2), u(3), s[3]) /\ Longer(u(3), u(4), s[4])
  BY <1>4
<1>6. Len(u(1)) = Len(p) + 1
  <2>1. 1 \in 0..Len(s)
    BY <1>1
  <2> QED BY <1>1, <2>1, UptoLonger
<1>7. FuncStart(g, Func) = g4
  BY DEF FuncStart
<1> HIDE DEF u, g1, g2, g3, g4
<1>8. ProgramFits(g1, u(1), d, h) /\ g1.cursrc = src
  BY <1>2, <1>3, <1>5, AddsPlain DEF g1
<1>9. ProgramFits(g2, u(2), d2, h) /\ g2.cursrc = src
  <2>1. /\ ProgramFits(g2, u(2), Given(d, Func, <<"code", Len(u(1))>>), h)
        /\ g2.cursrc = src
    BY <1>2, <1>5, <1>8, AddLabelInsFits DEF g2
  <2> QED BY <1>6, <2>1
<1> HIDE DEF d2
<1>10. ProgramFits(g3, u(3), d2, h) /\ g3.cursrc = src
  BY <1>2, <1>5, <1>9, AddsPlain DEF g3
<1>11. ProgramFits(g4, u(4), d2, h) /\ g4.cursrc = src
  BY <1>2, <1>5, <1>10, AddsPlain DEF g4
<1> QED BY <1>7, <1>11 DEF u, d2

LEMMA FuncEndFits ==
  ASSUME NEW g, NEW p \in Seq(Meant), NEW d, NEW h, NEW src \in Nat, g.cursrc = src,
         NEW s \in Seq(Meant), Len(s) = 7, ProgramFits(g, Upto(p, s, 4), d, h),
         s[5] = Plain("MOV", src), s[6] = Plain("POPM", src), s[7] = Plain("BX", src)
  PROVE  ProgramFits(FuncEnd(g), p \o s, d, h)
<1> DEFINE u(k) == Upto(p, s, k)
           g1 == AddIns(g, Ins("MOV"))
           g2 == AddIns(g1, Ins("POPM"))
           g3 == AddIns(g2, Ins("BX"))
<1>1. {"MOV", "POPM", "BX"} \subseteq Ops
  BY DEF Ops
<1>2. u(7) = p \o s
  BY UptoLonger
<1>3. Longer(u(4), u(4 + 1), s[4 + 1]) /\ Longer(u(5), u(5 + 1), s[5 + 1]) /\ Longer(u(6), u(6 + 1), s[6 + 1])
  <2>1. 4 \in 0..(Len(s) - 1) /\ 5 \in 0..(Len(s) - 1) /\ 6 \in 0..(Len(s) - 1)
    OBVIOUS
  <2> HIDE DEF u
  <2>2. \A k \in 0..(Len(s) - 1) : Longer(u(k), u(k + 1), s[k + 1])
    BY UptoLonger DEF u
  <2> QED BY <2>1, <2>2
<1>4. Longer(u(4), u(5), s[5]) /\ Longer(u(5), u(6), s[6]) /\ Longer(u(6), u(7), s[7])
  BY <1>3
<1>5. FuncEnd(g) = g3
  BY DEF FuncEnd
<1>6. ProgramFits(g, u(4), d, h)
  OBVIOUS
<1> HIDE DEF u, g1, g2, g3
<1>7. ProgramFits(g1, u(5), d, h) /\ g1.cursrc = src
  BY <1>1, <1>4, <1>6, AddsPlain DEF g1
<1>8. ProgramFits(g2, u(6), d, h) /\ g2.cursrc = src
  BY <1>1, <1>4, <1>7, AddsPlain DEF g2
<1>9. ProgramFits(g3, u(7), d, h)
  BY <1>1, <1>4, <1>8, AddsPlain DEF g3
<1> QED BY <1>2, <1>5, <1>9

-----------------------------------------------------------------------------
(* Programs.                                                               *)

LEMMA UsedMade == Used \in Generators
<1> DEFINE s == <<Plain("NOP", 0), Plain("PUSHM", 0), Plain("MOV", 0), Plain("ADD", 0)>>
           text == <<"y", "y", "y", "y">>
           g1 == FuncStart(Create, Func)
           g2 == AddString(g1, Str, text)
           g3 == AddLabelIns(g2, Func, Ins("NOP"))
           q == Upto(<<>>, s, 4)
           d1 == Given(<<>>, Func, <<"code", Len(<<>>) + 1>>)
           d2 == Given(d1, Str, <<"data", text>>)
<1>1. s \in Seq(Meant) /\ Len(s) = 4
  <2>1. {"NOP", "PUSHM", "MOV", "ADD"} \subseteq Ops /\ 0 \in Nat
    BY DEF Ops
  <2>2. /\ Plain("NOP", 0) \in Meant /\ Plain("PUSHM", 0) \in Meant
        /\ Plain("MOV", 0) \in Meant /\ Plain("ADD", 0) \in Meant
    BY <2>1, PlainMeant
  <2> QED BY <2>2
<1>2. ProgramFits(Create, <<>>, <<>>, 0) /\ Create.cursrc = 0
  BY CreateFits
<1>3. ProgramFits(g1, q, d1, 0)
  <2>1. /\ s[1] = Plain("NOP", 0) /\ s[2] = Plain("PUSHM", 0)
        /\ s[3] = Plain("MOV", 0) /\ s[4] = Plain("ADD", 0)
    OBVIOUS
  <2> HIDE DEF s
  <2>2. Len(s) >= 4 /\ 0 \in Nat
    BY <1>1
  <2>3. ProgramFits(FuncStart(Create, Func), Upto(<<>>, s, 4), Given(<<>>, Func, <<"code", Len(<<>>) + 1>>), 0)
    BY <1>1, <1>2, <2>1, <2>2, FuncStartFits
  <2> QED BY <2>3
<1> HIDE DEF g1, q, d1, s
<1>4. ProgramFits(g2, q, d2, 0)
  <2>1. text \in Seq({"x", "y"})
    OBVIOUS
  <2> HIDE DEF text
  <2>2. g2 = AddData(g1, Str, Append(text, Zero))
    BY DEF AddString
  <2>3. PICK bytes : bytes = Append(text, Zero)
    OBVIOUS
  <2>4. ProgramFits(AddData(g1, Str, bytes), q, Given(d1, Str, <<"data", text>>), 0)
    BY <1>3, <2>1, <2>3, AddDataFits
  <2> QED BY <2>2, <2>3, <2>4
<1> HIDE DEF g2, d2
<1>5. g2.cursrc \in Nat /\ q \in Seq(Meant)
  BY <1>4, GeneratorParts DEF ProgramFits
<1>6. ProgramFits(g3, Append(q, Plain("NOP", g2.cursrc)), Given(d2, Func, <<"code", Len(q)>>), 0)
  <2>1. PICK src \in Nat : src = g2.cursrc
    BY <1>5
  <2>2. "NOP" \in Ops
    BY DEF Ops
  <2>3. Plain("NOP", src) \in Meant
    BY <2>2, PlainMeant
  <2>4. PICK m \in Meant : m = Plain("NOP", src)
    BY <2>3
  <2>5. Longer(q, Append(q, m), m)
    BY <1>5, OneLonger
  <2>6. Longer(q, Append(q, m), Plain("NOP", src))
    BY <2>4, <2>5
  <2>7. PICK q2 : q2 = Append(q, m)
    OBVIOUS
  <2>8. ProgramFits(AddLabelIns(g2, Func, Ins("NOP")), q2, Given(d2, Func, <<"code", Len(q)>>), 0)
    BY <1>4, <2>1, <2>2, <2>6, <2>7, AddLabelInsFits
  <2> QED BY <2>1, <2>4, <2>7, <2>8
<1> HIDE DEF g3
<1>7. Relocated(g3) \in Generators
  <2>1. PICK p3, d3 : ProgramFits(g3, p3, d3, 0)
    BY <1>6
  <2>2. ProgramFits(Relocated(g3), p3, d3, 0)
    BY <2>1, RelocatedRefers
  <2> QED BY <2>2 DEF ProgramFits
<1>8. Used = Relocated(g3)
  BY DEF Used, g1, g2, g3
<1> QED BY <1>7, <1>8

\* What is generated fits what was meant.
ProgramInv == ProgramFits(cg, program, defs, held)

LEMMA InitProgramInv == CodeInit => ProgramInv
<1>1. ProgramFits(Create, <<>>, <<>>, 0) /\ ProgramFits(Clear(Used), <<>>, <<>>, 0)
  BY CreateFits, UsedMade, ClearFits
<1> QED BY <1>1 DEF CodeInit, ProgramInv

LEMMA InvParts ==
  ASSUME ProgramInv
  PROVE  /\ cg \in Generators /\ cg.cursrc \in Nat /\ program \in Seq(Meant) /\ Len(program) \in Nat
         /\ DOMAIN defs \subseteq LabelNames /\ cg.code.len = Len(program)
         /\ held \in 0..Len(cg.labels)
         /\ held = 0 => Anon \notin DOMAIN defs
<1>1. cg \in Generators /\ program \in Seq(Meant) /\ cg.code.len = Len(program)
  BY DEF ProgramInv, ProgramFits, CodeFits
<1>2. cg.cursrc \in Nat
  BY <1>1, GeneratorParts
<1>3. DOMAIN defs \subseteq LabelNames /\ held \in 0..Len(cg.labels)
  BY DEF ProgramInv, ProgramFits, DefsFit, LabelsFit
<1>4. Anon \in DOMAIN defs => IndexOf(cg.labels, held, Anon) # 0
  BY DEF ProgramInv, ProgramFits, DefsFit
<1> QED BY <1>1, <1>2, <1>3, <1>4 DEF IndexOf

\* What Makes says.
LEMMA MakesFits ==
  ASSUME NEW g, NEW added, NEW d, Makes(g, added, d),
         ProgramFits(g, program \o added, d, held')
  PROVE  ProgramInv'
  BY DEF Makes, ProgramInv

LEMMA AddsInsFits == ProgramInv /\ AddsIns => ProgramInv'
<1> SUFFICES ASSUME ProgramInv, AddsIns PROVE ProgramInv'
  OBVIOUS
<1> DEFINE src == Len(program) + 1
           m == [PlainIns("NOP") EXCEPT !.src = src]
           g1 == SetSource(cg, src)
           g2 == AddIns(g1, Ins("NOP"))
<1>1. program \in Seq(Meant) /\ src \in Nat
  BY InvParts
<1>2. "NOP" \in Ops
  BY DEF Ops
<1>3. m = Plain("NOP", src)
  BY DEF PlainIns, Refers, Plain
<1>4. Makes(g2, <<m>>, defs) /\ held' = held
  BY DEF AddsIns
<1> HIDE DEF src, m, g1, g2
<1>5. ProgramFits(g1, program, defs, held) /\ g1.cursrc = src
  BY <1>1, SetSourceFits DEF ProgramInv, g1
<1>6. Longer(program, program \o <<m>>, m)
  BY <1>1, <1>2, <1>3, PlainMeant, OneLonger
<1>7. ProgramFits(g2, program \o <<m>>, defs, held)
  <2>1. PICK q : q = program \o <<m>>
    OBVIOUS
  <2>2. ProgramFits(AddIns(g1, Ins("NOP")), q, defs, held)
    BY <1>1, <1>2, <1>3, <1>5, <1>6, <2>1, AddsPlain
  <2> QED BY <2>1, <2>2 DEF g2
<1> QED BY <1>4, <1>7, MakesFits

LEMMA ReplacesInsFits == ProgramInv /\ ReplacesIns => ProgramInv'
<1> SUFFICES ASSUME ProgramInv, ReplacesIns PROVE ProgramInv'
  OBVIOUS
<1>1. program \in Seq(Meant)
  BY InvParts
<1>2. PICK i \in 1..Len(program) :
        /\ program[i].type = "none"
        /\ cg' = ReplaceIns(cg, i - 1, Ins("B")) /\ program' = [program EXCEPT ![i].op = "B"]
        /\ UNCHANGED <<defs, held>>
  <2>1. DOMAIN program = 1..Len(program)
    BY <1>1
  <2> QED BY <2>1, Zenon DEF ReplacesIns
<1>3. Ins("B") \in Instrs /\ Ins("B").op = "B"
  BY DEF Ins, Instrs, Ops
<1>4. PICK ins \in Instrs : ins = Ins("B")
  BY <1>3
<1>5. ProgramFits(ReplaceIns(cg, i - 1, ins), [program EXCEPT ![i].op = ins.op], defs, held)
  BY <1>2, ReplaceInsFits DEF ProgramInv
<1> QED BY <1>2, <1>3, <1>4, <1>5 DEF ProgramInv

\* Nothing is added to the program.
LEMMA MakesLabel ==
  ASSUME ProgramInv, NEW g, NEW d, Makes(g, <<>>, d), ProgramFits(g, program, d, held')
  PROVE  ProgramInv'
<1>1. program \o <<>> = program
  BY InvParts
<1> QED BY <1>1, MakesFits

LEMMA AddsLabelFits == ProgramInv /\ AddsLabel => ProgramInv'
<1> SUFFICES ASSUME ProgramInv, AddsLabel PROVE ProgramInv'
  OBVIOUS
<1> DEFINE g2 == AddLabelDefault(cg, Func)
           d2 == Given(defs, Func, <<"code", Len(program)>>)
<1>1. Makes(g2, <<>>, d2) /\ held' = held
  BY DEF AddsLabel, Defined, AtIns
<1>2. ProgramFits(g2, program, d2, held)
  BY AddLabelDefaultFits DEF ProgramInv
<1> HIDE DEF g2, d2
<1> QED BY <1>1, <1>2, MakesLabel

LEMMA AddsLabelInsFits == ProgramInv /\ AddsLabelIns => ProgramInv'
<1> SUFFICES ASSUME ProgramInv, AddsLabelIns PROVE ProgramInv'
  OBVIOUS
<1> DEFINE src == cg.cursrc
           m == PlainIns("NOP")
           g2 == AddLabelIns(cg, Func, Ins("NOP"))
           d2 == Given(defs, Func, <<"code", Len(program)>>)
<1>1. program \in Seq(Meant) /\ src \in Nat
  BY InvParts
<1>2. "NOP" \in Ops
  BY DEF Ops
<1>3. m = Plain("NOP", src)
  BY DEF PlainIns, Refers, Plain
<1>4. Makes(g2, <<m>>, d2) /\ held' = held
  BY DEF AddsLabelIns, Defined, AtIns
<1>5. PICK c \in Nat : c = src
  BY <1>1
<1> HIDE DEF m, g2, d2
<1>6. Longer(program, program \o <<m>>, m)
  BY <1>1, <1>2, <1>3, PlainMeant, OneLonger
<1>7. ProgramFits(g2, program \o <<m>>, d2, held)
  <2>1. PICK q : q = program \o <<m>>
    OBVIOUS
  <2>2. Longer(program, q, Plain("NOP", c)) /\ cg.cursrc = c /\ ProgramFits(cg, program, defs, held)
    BY <1>3, <1>5, <1>6, <2>1 DEF ProgramInv
  <2>3. ProgramFits(AddLabelIns(cg, Func, Ins("NOP")), q, Given(defs, Func, <<"code", Len(program)>>), held)
    BY <1>2, <2>2, AddLabelInsFits
  <2> QED BY <2>1, <2>3 DEF g2, d2
<1> QED BY <1>4, <1>7, MakesFits

LEMMA InvalidatesLabelFits == ProgramInv /\ InvalidatesLabel => ProgramInv'
<1> SUFFICES ASSUME ProgramInv, InvalidatesLabel PROVE ProgramInv'
  OBVIOUS
<1> DEFINE g2 == InvalidAddLabel(cg, Func)
           d2 == Undefined(Func)
<1>1. Makes(g2, <<>>, d2) /\ held' = held
  BY DEF InvalidatesLabel
<1>2. DOMAIN d2 = DOMAIN defs \ {Func} /\ \A x \in DOMAIN d2 : d2[x] = defs[x]
  BY DEF Undefined
<1>3. Func \in {Func, Anon} /\ Func # Anon /\ NameOf(Func) = Func
  BY DEF NameOf, Func, Anon
<1> HIDE DEF d2
<1>4. ProgramFits(InvalidAddLabel(cg, NameOf(Func)), program, d2,
                  IF Func = Anon THEN Len(InvalidAddLabel(cg, NameOf(Func)).labels) ELSE held)
  BY <1>2, <1>3, InvalidAddLabelFits DEF ProgramInv
<1>5. ProgramFits(g2, program, d2, held)
  BY <1>3, <1>4
<1> HIDE DEF g2
<1> QED BY <1>1, <1>5, MakesLabel

LEMMA PointsLabelFits == ProgramInv /\ PointsLabel => ProgramInv'
<1> SUFFICES ASSUME ProgramInv, PointsLabel PROVE ProgramInv'
  OBVIOUS
<1> DEFINE g2 == RedefinePointer(cg, Find(cg.labels, Func), Host)
           d2 == Given(defs, Func, <<"host", Host>>)
<1>1. Makes(g2, <<>>, d2) /\ held' = held /\ Find(cg.labels, Func) # 0
  BY DEF PointsLabel, Defined
<1>2. ProgramFits(g2, program, d2, held)
  BY <1>1, RedefinePointerFits DEF ProgramInv
<1> HIDE DEF g2, d2
<1> QED BY <1>1, <1>2, MakesLabel

LEMMA AddsFuncFits == ProgramInv /\ AddsFunc => ProgramInv'
<1> SUFFICES ASSUME ProgramInv, AddsFunc PROVE ProgramInv'
  OBVIOUS
<1> DEFINE ops == <<"NOP", "PUSHM", "MOV", "ADD", "MOV", "POPM", "BX">>
           src == cg.cursrc
           s == [i \in DOMAIN ops |-> PlainIns(ops[i])]
           g1 == FuncStart(cg, Func)
           g2 == FuncEnd(g1)
           d2 == Given(defs, Func, <<"code", Len(program) + 1>>)
<1>1. program \in Seq(Meant) /\ src \in Nat
  BY InvParts
<1>2. PICK c \in Nat : c = src
  BY <1>1
<1>3. /\ DOMAIN ops = 1..7 /\ \A i \in 1..7 : ops[i] \in Ops
      /\ ops[1] = "NOP" /\ ops[2] = "PUSHM" /\ ops[3] = "MOV" /\ ops[4] = "ADD"
      /\ ops[5] = "MOV" /\ ops[6] = "POPM" /\ ops[7] = "BX"
  <2>1. {"NOP", "PUSHM", "MOV", "ADD", "POPM", "BX"} \subseteq Ops
    BY DEF Ops
  <2>2. ops \in Seq(Ops) /\ Len(ops) = 7
    BY <2>1
  <2> QED BY <2>2
<1>4. Makes(g2, s, d2) /\ held' = held
  BY DEF AddsFunc, Defined, AtIns
<1> HIDE DEF ops, g1, g2, d2
<1>5. \A i \in 1..7 : s[i] = Plain(ops[i], c)
  BY <1>2, <1>3 DEF PlainIns, Refers, Plain
<1>6. s \in Seq(Meant) /\ Len(s) = 7
  <2>1. \A i \in 1..7 : Plain(ops[i], c) \in Meant
    BY <1>3, PlainMeant
  <2>2. DOMAIN s = 1..7 /\ s = [i \in DOMAIN s |-> s[i]]
    BY <1>3
  <2> HIDE DEF s
  <2>3. \A i \in 1..7 : s[i] \in Meant
    BY <1>5, <2>1
  <2>4. s \in [1..7 -> Meant]
    BY <2>2, <2>3
  <2>5. PICK n \in Nat : n = 7
    OBVIOUS
  <2>6. s \in [1..n -> Meant]
    BY <2>4, <2>5
  <2>7. s \in Seq(Meant) /\ Len(s) = n
    BY <2>6
  <2> QED BY <2>5, <2>7
<1> HIDE DEF s
<1>7. /\ s[1] = Plain("NOP", c) /\ s[2] = Plain("PUSHM", c) /\ s[3] = Plain("MOV", c)
      /\ s[4] = Plain("ADD", c) /\ s[5] = Plain("MOV", c) /\ s[6] = Plain("POPM", c)
      /\ s[7] = Plain("BX", c)
  BY <1>3, <1>5
<1>8. ProgramFits(g1, Upto(program, s, 4), d2, held) /\ g1.cursrc = c
  <2>1. ProgramFits(cg, program, defs, held) /\ cg.cursrc = c /\ Len(s) >= 4
    BY <1>2, <1>6 DEF ProgramInv
  <2>2. /\ ProgramFits(FuncStart(cg, Func), Upto(program, s, 4),
                       Given(defs, Func, <<"code", Len(program) + 1>>), held)
        /\ FuncStart(cg, Func).cursrc = c
    BY <1>6, <1>7, <2>1, FuncStartFits
  <2> QED BY <2>2 DEF g1, d2
<1>9. ProgramFits(g2, program \o s, d2, held)
  BY <1>1, <1>6, <1>7, <1>8, FuncEndFits DEF g2
<1> QED BY <1>4, <1>9, MakesFits

LEMMA AddsRefFits == ProgramInv /\ AddsRef => ProgramInv'
<1> SUFFICES ASSUME ProgramInv, AddsRef PROVE ProgramInv'
  OBVIOUS
<1>1. PICK ref \in ({"BRANCH", "JUMP", "DEFAULT"} \X {Func}) \cup ({"STRING", "BLOB"} \X {Str}) :
        Makes(AddRelocIns(cg, ref[1], ref[2], Ins("BL")), <<Refers("BL", ref[1], ref[2])>>, defs)
  BY DEF AddsRef
<1>2. held' = held
  BY DEF AddsRef
<1>3. PICK type \in RefTypes, key \in {Func, Str} :
        /\ type = ref[1] /\ key = ref[2]
        /\ type \in {"STRING", "BLOB"} <=> key = Str
  <2>1. Func # Str
    BY DEF Func, Str
  <2>2. CASE ref \in {"BRANCH", "JUMP", "DEFAULT"} \X {Func}
    BY <2>1, <2>2 DEF RefTypes
  <2>3. CASE ref \in {"STRING", "BLOB"} \X {Str}
    BY <2>1, <2>3 DEF RefTypes
  <2> QED BY <2>2, <2>3
<1>4. program \in Seq(Meant) /\ cg.cursrc \in Nat
  BY InvParts
<1>5. PICK m \in Meant : m = Refers("BL", type, key)
  <2>1. Refers("BL", type, key) \in Meant
    <3>1. "BL" \in Ops /\ key \in LabelNames
      BY DEF Ops, LabelNames
    <3> QED BY <1>4, <3>1 DEF Refers, Meant
  <2> QED BY <2>1
<1>6. m.op = "BL" /\ m.type = type /\ m.label = key /\ m.src = cg.cursrc
  BY <1>5 DEF Refers
<1>7. PICK ins \in Instrs : ins = Ins("BL") /\ ins.op = "BL"
  <2>1. Ins("BL") \in Instrs /\ Ins("BL").op = "BL"
    BY DEF Ins, Instrs, Ops
  <2> QED BY <2>1
<1>8. PICK q : q = program \o <<m>>
  OBVIOUS
<1>9. Longer(program, q, m)
  BY <1>4, <1>8, OneLonger
<1>10. ProgramFits(AddRelocIns(cg, type, key, ins), q, defs, held)
  <2>1. ProgramFits(cg, program, defs, held) /\ m.op = ins.op
    BY <1>6, <1>7 DEF ProgramInv
  <2> QED BY <1>3, <1>6, <1>9, <2>1, AddRelocInsFits
<1>11. Makes(AddRelocIns(cg, type, key, ins), <<m>>, defs)
  BY <1>1, <1>3, <1>5, <1>7
<1>12. ProgramFits(AddRelocIns(cg, type, key, ins), program \o <<m>>, defs, held')
  BY <1>2, <1>8, <1>10
<1> QED BY <1>11, <1>12, MakesFits

LEMMA AddsAnonFits == ProgramInv /\ AddsAnon => ProgramInv'
<1> SUFFICES ASSUME ProgramInv, AddsAnon PROVE ProgramInv'
  OBVIOUS
<1>1. /\ Anon \in {Func, Anon} /\ NameOf(Anon) = Nameless
      /\ held = 0 /\ Anon \notin DOMAIN defs /\ held' = Len(cg'.labels)
  BY InvParts DEF NameOf, AddsAnon
<1>2. CASE Makes(InvalidAddLabel(cg, Nameless), <<>>, defs)
  <2> DEFINE g2 == InvalidAddLabel(cg, Nameless)
  <2>1. cg' = g2
    BY <1>2 DEF Makes
  <2>2. DOMAIN defs = DOMAIN defs \ {Anon} /\ \A x \in DOMAIN defs : defs[x] = defs[x]
    BY <1>1
  <2>3. ProgramFits(InvalidAddLabel(cg, NameOf(Anon)), program, defs,
                    IF Anon = Anon THEN Len(InvalidAddLabel(cg, NameOf(Anon)).labels) ELSE held)
    BY <1>1, <2>2, InvalidAddLabelFits DEF ProgramInv
  <2>4. ProgramFits(g2, program, defs, Len(g2.labels))
    BY <1>1, <2>3
  <2> HIDE DEF g2
  <2>5. Makes(g2, <<>>, defs)
    BY <1>2 DEF g2
  <2>6. ProgramFits(g2, program, defs, held')
    BY <1>1, <2>1, <2>4
  <2> QED BY <2>5, <2>6, MakesLabel
<1>3. CASE Makes(AddLabelDefault(cg, Nameless), <<>>, Defined(Anon, AtIns(Len(program))))
  <2> DEFINE g2 == AddLabelDefault(cg, Nameless)
             d2 == Given(defs, Anon, <<"code", Len(program)>>)
  <2>1. Makes(g2, <<>>, d2) /\ cg' = g2
    BY <1>3 DEF Makes, Defined, AtIns
  <2>2. cg.code.len = Len(program) /\ Len(program) \in Nat
    BY InvParts
  <2>3. ProgramFits(AddLabel(cg, NameOf(Anon), Len(program)), program, d2,
                    IF Anon = Anon THEN Len(AddLabel(cg, NameOf(Anon), Len(program)).labels) ELSE held)
    BY <1>1, <2>2, AddLabelFits DEF ProgramInv
  <2>4. g2 = AddLabel(cg, NameOf(Anon), Len(program))
    BY <1>1, <2>2 DEF AddLabelDefault
  <2> HIDE DEF g2, d2
  <2>5. ProgramFits(g2, program, d2, Len(g2.labels))
    BY <2>3, <2>4
  <2>6. ProgramFits(g2, program, d2, held')
    BY <1>1, <2>1, <2>5
  <2> QED BY <2>1, <2>6, MakesLabel
<1> QED BY <1>2, <1>3 DEF AddsAnon

LEMMA RefersToAnonFits == ProgramInv /\ RefersToAnon => ProgramInv'
<1> SUFFICES ASSUME ProgramInv, RefersToAnon PROVE ProgramInv'
  OBVIOUS
<1>1. /\ held # 0 /\ held' = held
      /\ Makes(IndexAddRelocIns(cg, "BRANCH", held, Ins("B")), <<Refers("B", "BRANCH", Anon)>>, defs)
  BY DEF RefersToAnon
<1>2. program \in Seq(Meant) /\ cg.cursrc \in Nat
  BY InvParts
<1>3. PICK m \in Meant : m = Refers("B", "BRANCH", Anon)
  <2>1. Refers("B", "BRANCH", Anon) \in Meant
    <3>1. "B" \in Ops /\ Anon \in LabelNames /\ "BRANCH" \in RefTypes
      BY DEF Ops, LabelNames, RefTypes
    <3> QED BY <1>2, <3>1 DEF Refers, Meant
  <2> QED BY <2>1
<1>4. m.op = "B" /\ m.type = "BRANCH" /\ m.label = Anon /\ m.src = cg.cursrc
  BY <1>3 DEF Refers
<1>5. PICK ins \in Instrs : ins = Ins("B") /\ ins.op = "B"
  <2>1. Ins("B") \in Instrs /\ Ins("B").op = "B"
    BY DEF Ins, Instrs, Ops
  <2> QED BY <2>1
<1>6. PICK q : q = program \o <<m>>
  OBVIOUS
<1>7. Longer(program, q, m)
  BY <1>2, <1>6, OneLonger
<1>8. IndexOf(cg.labels, held, Anon) = held
  BY DEF IndexOf
<1>9. PICK type \in RefTypes, key \in LabelNames : type = "BRANCH" /\ key = Anon
  BY DEF RefTypes, LabelNames
<1>10. type \in {"STRING", "BLOB"} <=> key = Str
  BY <1>9 DEF Anon, Str
<1>11. ProgramFits(IndexAddRelocIns(cg, type, IndexOf(cg.labels, held, key), ins), q, defs, held)
  <2>1. /\ ProgramFits(cg, program, defs, held) /\ m.op = ins.op /\ m.type = type /\ m.label = key
        /\ IndexOf(cg.labels, held, key) # 0
    BY <1>1, <1>4, <1>5, <1>8, <1>9 DEF ProgramInv
  <2> QED BY <1>4, <1>7, <1>10, <2>1, IndexAddRelocInsFits
<1>12. Makes(IndexAddRelocIns(cg, "BRANCH", held, ins), <<m>>, defs)
  BY <1>1, <1>3, <1>5
<1>13. ProgramFits(IndexAddRelocIns(cg, "BRANCH", held, ins), program \o <<m>>, defs, held')
  BY <1>1, <1>6, <1>8, <1>9, <1>11
<1> QED BY <1>12, <1>13, MakesFits

LEMMA RedefinesAnonFits == ProgramInv /\ RedefinesAnon => ProgramInv'
<1> SUFFICES ASSUME ProgramInv, RedefinesAnon PROVE ProgramInv'
  OBVIOUS
<1> DEFINE g2 == RedefineLabelDefault(cg, held)
           d2 == Given(defs, Anon, <<"code", Len(program)>>)
<1>1. Makes(g2, <<>>, d2) /\ held' = held /\ held # 0
  BY DEF RedefinesAnon, Defined, AtIns
<1>2. cg.code.len = Len(program) /\ Len(program) \in Nat
  BY InvParts
<1>3. ProgramFits(RedefineLabel(cg, held, Len(program)), program, d2, held)
  BY <1>1, <1>2, RedefineLabelFits DEF ProgramInv
<1>4. g2 = RedefineLabel(cg, held, Len(program))
  BY <1>2 DEF RedefineLabelDefault
<1> HIDE DEF g2, d2
<1>5. ProgramFits(g2, program, d2, held')
  BY <1>1, <1>3, <1>4
<1> QED BY <1>1, <1>5, MakesLabel

LEMMA AddsStringFits == ProgramInv /\ AddsString => ProgramInv'
<1> SUFFICES ASSUME ProgramInv, AddsString PROVE ProgramInv'
  OBVIOUS
<1>1. held' = held
  BY DEF AddsString
<1>2. ASSUME NEW text \in Seq({"x", "y"}), NEW bytes, bytes = text \/ bytes = Append(text, Zero),
             Makes(AddData(cg, Str, bytes), <<>>, Given(defs, Str, <<"data", text>>))
      PROVE  ProgramInv'
  <2> DEFINE g2 == AddData(cg, Str, bytes)
             d2 == Given(defs, Str, <<"data", text>>)
  <2>1. ProgramFits(g2, program, d2, held)
    BY <1>2, AddDataFits DEF ProgramInv
  <2>2. Makes(g2, <<>>, d2)
    BY <1>2
  <2> HIDE DEF g2, d2
  <2>3. ProgramFits(g2, program, d2, held')
    BY <1>1, <2>1
  <2> QED BY <2>2, <2>3, MakesLabel
<1>3. CASE Makes(AddString(cg, Str, <<"x">>), <<>>, Defined(Str, <<"data", <<"x">>>>))
  <2>1. PICK text \in Seq({"x", "y"}) : text = <<"x">>
    <3>1. <<"x">> \in Seq({"x", "y"})
      OBVIOUS
    <3> QED BY <3>1, Zenon
  <2>2. PICK bytes : bytes = Append(text, Zero)
    OBVIOUS
  <2>3. Makes(AddData(cg, Str, bytes), <<>>, Given(defs, Str, <<"data", text>>))
    BY <1>3, <2>1, <2>2 DEF AddString, Defined
  <2> QED BY <1>2, <2>2, <2>3
<1>4. CASE Makes(AddData(cg, Str, <<"x", "x", "x">>), <<>>,
                 Defined(Str, <<"data", <<"x", "x", "x">>>>))
  <2>1. PICK text \in Seq({"x", "y"}) : text = <<"x", "x", "x">>
    <3>1. <<"x", "x", "x">> \in Seq({"x", "y"})
      OBVIOUS
    <3> QED BY <3>1, Zenon
  <2>2. Makes(AddData(cg, Str, text), <<>>, Given(defs, Str, <<"data", text>>))
    BY <1>4, <2>1 DEF Defined
  <2> QED BY <1>2, <2>2
<1> QED BY <1>3, <1>4 DEF AddsString

LEMMA ClearsFits == ProgramInv /\ Clears => ProgramInv'
<1> SUFFICES ASSUME ProgramInv, Clears PROVE ProgramInv'
  OBVIOUS
<1>1. ProgramFits(Clear(cg), <<>>, <<>>, 0)
  BY InvParts, ClearFits
<1>2. cg' = Clear(cg) /\ program' = <<>> /\ defs' = <<>> /\ held' = 0
  BY DEF Clears
<1> QED BY <1>1, <1>2 DEF ProgramInv

LEMMA RelocatesFits == ProgramInv /\ Relocates => ProgramInv'
<1> SUFFICES ASSUME ProgramInv, Relocates PROVE ProgramInv'
  OBVIOUS
<1>1. ProgramFits(Relocated(cg), program, defs, held)
  BY RelocatedRefers DEF ProgramInv
<1>2. cg' = Relocated(cg) /\ program' = program /\ defs' = defs /\ held' = held
  BY DEF Relocates
<1> QED BY <1>1, <1>2 DEF ProgramInv

\* The program after a relocation.
RelocatedInv ==
  /\ outcome = "relocated" => Waiting(program, defs) = {}
  /\ outcome = "failed" => Waiting(program, defs) # {}
  /\ outcome \in {"relocated", "failed"} =>
       \A i \in 1..Len(program) :
         /\ program[i].type # "none"
         /\ Waiting(program, defs) = {} \/ i < Min(Waiting(program, defs))
         => RefersTo(cg, program, i, defs[program[i].label])

LEMMA MadeOnly ==
  ASSUME outcome' = "made"
  PROVE  RelocatedInv'
  BY DEF RelocatedInv

LEMMA RelocatesRefers == ProgramInv /\ Relocates => RelocatedInv'
<1> SUFFICES ASSUME ProgramInv, Relocates PROVE RelocatedInv'
  OBVIOUS
<1>1. /\ cg' = Relocated(cg) /\ program' = program /\ defs' = defs
      /\ outcome' = IF Stuck(cg) = 0 THEN "relocated" ELSE "failed"
  BY DEF Relocates
<1>2. \A i \in 1..Len(program) :
        /\ program[i].type # "none"
        /\ Waiting(program, defs) = {} \/ i < Min(Waiting(program, defs))
        => RefersTo(Relocated(cg), program, i, defs[program[i].label])
  BY RelocatedRefers DEF ProgramInv
<1>3. /\ Waiting(program, defs) = {} => Stuck(cg) = 0
      /\ Waiting(program, defs) # {} => Stuck(cg) # 0
  BY StuckIs DEF ProgramInv
<1>4. /\ outcome' = "relocated" => Waiting(program, defs) = {}
      /\ outcome' = "failed" => Waiting(program, defs) # {}
  BY <1>1, <1>3
<1> QED BY <1>1, <1>2, <1>4 DEF RelocatedInv

LEMMA CodeStepKeeps ==
  ASSUME ProgramInv, RelocatedInv, CodeStep \/ UNCHANGED pvars
  PROVE  ProgramInv' /\ RelocatedInv'
<1>1. CASE AddsIns \/ AddsLabel \/ AddsLabelIns \/ InvalidatesLabel \/ PointsLabel
  <2>1. outcome' = "made"
    BY <1>1 DEF AddsIns, AddsLabel, AddsLabelIns, InvalidatesLabel, PointsLabel, Makes
  <2>2. ProgramInv'
    BY <1>1, AddsInsFits, AddsLabelFits, AddsLabelInsFits, InvalidatesLabelFits, PointsLabelFits
  <2> QED BY <2>1, <2>2, MadeOnly
<1>2. CASE AddsFunc \/ AddsRef \/ AddsAnon \/ RefersToAnon \/ RedefinesAnon
  <2>1. outcome' = "made"
    BY <1>2 DEF AddsFunc, AddsRef, AddsAnon, RefersToAnon, RedefinesAnon, Makes
  <2>2. ProgramInv'
    BY <1>2, AddsFuncFits, AddsRefFits, AddsAnonFits, RefersToAnonFits, RedefinesAnonFits
  <2> QED BY <2>1, <2>2, MadeOnly
<1>3. CASE ReplacesIns \/ AddsString \/ Clears
  <2>1. outcome' = "made"
    BY <1>3 DEF ReplacesIns, AddsString, Clears, Makes
  <2>2. ProgramInv'
    BY <1>3, ReplacesInsFits, AddsStringFits, ClearsFits
  <2> QED BY <2>1, <2>2, MadeOnly
<1>4. CASE Relocates
  BY <1>4, RelocatesFits, RelocatesRefers
<1>5. CASE UNCHANGED pvars
  BY <1>5 DEF pvars, ProgramInv, RelocatedInv
<1> QED BY <1>1, <1>2, <1>3, <1>4, <1>5 DEF CodeStep

\* What Linked says of any program, relocated or not.
LEMMA FitsLink ==
  ASSUME NEW g, NEW p, NEW d, NEW h, ProgramFits(g, p, d, h)
  PROVE  /\ g.code.len = Len(p)
         /\ \A i \in DOMAIN p : g.code.slots[i - 1].op = p[i].op /\ GetSource(g, i - 1) = p[i].src
         /\ h # 0 => (ValidIndex(g.labels, h) <=> Anon \in DOMAIN d)
<1>1. g \in Generators /\ p \in Seq(Meant) /\ CodeFits(g, p)
  BY DEF ProgramFits
<1>2. /\ g.code.len = Len(p) /\ Len(p) \in Nat /\ Len(p) <= g.sources.len
      /\ \A i \in 1..Len(p) : g.code.slots[i - 1].op = p[i].op
      /\ \A i \in 1..Len(p) : g.sources.slots[i - 1] = p[i].src
  BY <1>1 DEF CodeFits
<1>3. g.sources.len \in Nat
  <2>1. PICK a \in Arrays(Nat \cup {Zero}) : a = g.sources
    BY <1>1, GeneratorParts
  <2> QED BY <2>1, ArrayRoom
<1>4. ASSUME NEW i \in DOMAIN p
      PROVE  g.code.slots[i - 1].op = p[i].op /\ GetSource(g, i - 1) = p[i].src
  <2>1. i \in 1..Len(p)
    BY <1>1
  <2>2. ~(i - 1 >= g.sources.len)
    BY <1>2, <1>3, <2>1
  <2> QED BY <1>2, <2>1, <2>2 DEF GetSource
<1>5. ASSUME h # 0 PROVE ValidIndex(g.labels, h) <=> Anon \in DOMAIN d
  <2>1. h \in 1..Len(g.labels) /\ DOMAIN g.labels = 1..Len(g.labels)
    BY <1>5 DEF ProgramFits, LabelsFit
  <2>2. Anon \in LabelNames /\ IndexOf(g.labels, h, Anon) = h
    BY DEF LabelNames, IndexOf
  <2>3. CASE Anon \in DOMAIN d
    <3>1. Stands(g.labels, g.staticdata, g.labels[h], d[Anon])
      BY <2>2, <2>3 DEF ProgramFits, DefsFit
    <3>2. g.labels[h].type \in {"offset", "pointer"}
      BY <3>1 DEF Stands
    <3> QED BY <2>1, <2>3, <3>2 DEF ValidIndex
  <2>4. CASE Anon \notin DOMAIN d
    <3>1. g.labels[h].type = "invalid"
      BY <1>5, <2>2, <2>4 DEF ProgramFits, DefsFit
    <3> QED BY <2>4, <3>1 DEF ValidIndex
  <2> QED BY <2>3, <2>4
<1> QED BY <1>2, <1>4, <1>5

LEMMA InvLinked == ASSUME ProgramInv, RelocatedInv PROVE Linked
<1> DEFINE W == Waiting(program, defs)
<1>1. program \in Seq(Meant) /\ DOMAIN program = 1..Len(program)
  BY InvParts
<1>2. Open = W
  BY <1>1 DEF Open, References, Waiting
<1>3. References = {i \in 1..Len(program) : program[i].type # "none"}
  BY <1>1 DEF References
<1>4. \A i, as : RefersTo(cg, program, i, as) => LeadsTo(i, as)
  <2> SUFFICES ASSUME NEW i, NEW as, RefersTo(cg, program, i, as) PROVE LeadsTo(i, as)
    OBVIOUS
  <2>1. Leads(i) = LeadsFrom(cg, program[i].type, i - 1, cg.code.slots[i - 1].word)
    BY DEF Leads, LeadsFrom
  <2> QED BY <2>1 DEF LeadsTo, RefersTo
<1>5. /\ cg.code.len = Len(program)
      /\ \A i \in DOMAIN program :
           cg.code.slots[i - 1].op = program[i].op /\ GetSource(cg, i - 1) = program[i].src
      /\ held # 0 => (ValidIndex(cg.labels, held) <=> Anon \in DOMAIN defs)
  BY FitsLink DEF ProgramInv
<1>6. outcome = "relocated" =>
        Open = {} /\ \A i \in References : LeadsTo(i, defs[program[i].label])
  <2> SUFFICES ASSUME outcome = "relocated"
               PROVE  Open = {} /\ \A i \in References : LeadsTo(i, defs[program[i].label])
    OBVIOUS
  <2>1. W = {}
    BY DEF RelocatedInv
  <2>2. \A i \in References : RefersTo(cg, program, i, defs[program[i].label])
    BY <1>3, <2>1 DEF RelocatedInv
  <2> QED BY <1>2, <1>4, <2>1, <2>2
<1>7. outcome = "failed" =>
        /\ Open # {}
        /\ Stuck(cg) = IF program[Min(Open)].label = Anon THEN held
                        ELSE Find(cg.labels, program[Min(Open)].label)
        /\ \A i \in References : i < Min(Open) => LeadsTo(i, defs[program[i].label])
  <2> SUFFICES ASSUME outcome = "failed"
               PROVE  /\ Open # {}
                      /\ Stuck(cg) = IF program[Min(Open)].label = Anon THEN held
                                      ELSE Find(cg.labels, program[Min(Open)].label)
                      /\ \A i \in References :
                           i < Min(Open) => LeadsTo(i, defs[program[i].label])
    OBVIOUS
  <2>1. W # {}
    BY DEF RelocatedInv
  <2>2. Stuck(cg) = IndexOf(cg.labels, held, program[Min(W)].label)
    BY <2>1, StuckIs DEF ProgramInv
  <2>3. \A i \in References : i < Min(W) => RefersTo(cg, program, i, defs[program[i].label])
    BY <1>3 DEF RelocatedInv
  <2> HIDE DEF W
  <2> QED BY <1>2, <1>4, <2>1, <2>2, <2>3 DEF IndexOf
<1> QED BY <1>5, <1>6, <1>7 DEF Linked

-----------------------------------------------------------------------------
\* A name resolves to what it was last given, in every state the generator and
\* the scopes can reach: a reference in generated code leads to what its label
\* stands for after every relocation (rvm_relocmap_relocate and what the labels
\* of rvmcodemap.c say), and a lookup gives what the innermost scope that has
\* the name gave it last (rvm_scope_lookup).
THEOREM NamesAlwaysResolve == GeneratorSpec => []NamesResolve
<1> DEFINE Inv == ProgramInv /\ RelocatedInv /\ ScopeInv
<1>1. CodeInit /\ ScopeInit => Inv
  <2>1. CodeInit => RelocatedInv
    BY DEF CodeInit, RelocatedInv
  <2>2. ScopeInit => ScopeInv
    BY InitScopeInv
  <2> QED BY <2>1, <2>2, InitProgramInv
<1>2. Inv /\ [(CodeStep /\ UNCHANGED scopevars) \/ (ScopeStep /\ UNCHANGED pvars)]_<<pvars, scopevars>>
      => Inv'
  <2> SUFFICES ASSUME Inv,
                      [(CodeStep /\ UNCHANGED scopevars)
                         \/ (ScopeStep /\ UNCHANGED pvars)]_<<pvars, scopevars>>
               PROVE  Inv'
    OBVIOUS
  <2>1. CodeStep \/ UNCHANGED pvars
    OBVIOUS
  <2>2. ScopeStep \/ UNCHANGED scopevars
    OBVIOUS
  <2>3. ProgramInv' /\ RelocatedInv'
    BY <2>1, CodeStepKeeps
  <2>4. ScopeInv'
    BY <2>2, ScopeStepKeeps
  <2> QED BY <2>3, <2>4
<1>3. Inv => NamesResolve
  <2>1. ProgramInv /\ RelocatedInv => Linked
    BY InvLinked
  <2>2. ScopeInv => Scoped
    BY ScopeInvHolds
  <2> QED BY <2>1, <2>2 DEF NamesResolve
<1> HIDE DEF Inv
<1> QED BY <1>1, <1>2, <1>3, PTL DEF GeneratorSpec
=============================================================================
