--------------------------- MODULE RpaDbexProofs ----------------------------
(***************************************************************************)
(* Proofs about RpaDbex, for any texts, loaded in any number, with the     *)
(* database opened, closed and compiled in any order.                      *)
(***************************************************************************)
EXTENDS RpaDbex, RArrayProofs

-----------------------------------------------------------------------------
(* Code is a sequence, whatever its instructions hold.                     *)

IsSeq(s) == \E S : s \in Seq(S)

LEMMA SeqFacts ==
  ASSUME NEW s, IsSeq(s)
  PROVE  /\ Len(s) \in Nat
         /\ DOMAIN s = 1..Len(s)
         /\ s = [i \in 1..Len(s) |-> s[i]]
<1>1. PICK S : s \in Seq(S)
  BY DEF IsSeq
<1> QED BY <1>1

\* A function from 1 to n is a sequence.
LEMMA SeqMade ==
  ASSUME NEW n \in Nat, NEW s, DOMAIN s = 1..n, s = [i \in 1..n |-> s[i]]
  PROVE  IsSeq(s) /\ Len(s) = n
<1> DEFINE S == {s[i] : i \in 1..n}
<1>1. s \in [1..n -> S]
  BY SMT
<1>2. s \in Seq(S)
  BY <1>1
<1>3. Len(s) = n
  BY <1>1, <1>2
<1> QED BY <1>2, <1>3 DEF IsSeq

LEMMA SeqJoined ==
  ASSUME NEW s, NEW t, IsSeq(s), IsSeq(t)
  PROVE  /\ IsSeq(s \o t)
         /\ Len(s \o t) = Len(s) + Len(t)
         /\ \A i \in 1..Len(s) : (s \o t)[i] = s[i]
         /\ \A i \in 1..Len(t) : (s \o t)[Len(s) + i] = t[i]
<1>1. PICK S : s \in Seq(S)
  BY DEF IsSeq
<1>2. PICK T : t \in Seq(T)
  BY DEF IsSeq
<1>3. s \in Seq(S \union T) /\ t \in Seq(S \union T)
  BY <1>1, <1>2, SeqMonotonic
<1>4. s \o t \in Seq(S \union T)
  BY <1>3
<1> QED BY <1>3, <1>4 DEF IsSeq

LEMMA SeqAppended ==
  ASSUME NEW s, NEW x, IsSeq(s)
  PROVE  /\ IsSeq(Append(s, x))
         /\ Len(Append(s, x)) = Len(s) + 1
         /\ \A i \in 1..Len(s) : Append(s, x)[i] = s[i]
         /\ Append(s, x)[Len(s) + 1] = x
<1>1. PICK S : s \in Seq(S)
  BY DEF IsSeq
<1>2. s \in Seq(S \union {x})
  BY <1>1, SeqMonotonic
<1>3. Append(s, x) \in Seq(S \union {x})
  BY <1>2
<1> QED BY <1>2, <1>3 DEF IsSeq

LEMMA SeqNone == IsSeq(<<>>) /\ Len(<<>>) = 0
<1>1. <<>> \in Seq({})
  OBVIOUS
<1> QED BY <1>1 DEF IsSeq

LEMMA SeqJoin == \A s, t : IsSeq(s) /\ IsSeq(t) => IsSeq(s \o t)
BY SeqJoined

LEMMA SeqTuples ==
  /\ \A a : IsSeq(<<a>>)
  /\ \A a, b : IsSeq(<<a, b>>)
  /\ \A a, b, c : IsSeq(<<a, b, c>>)
  /\ \A a, b, c, d : IsSeq(<<a, b, c, d>>)
  /\ \A a, b, c, d, e : IsSeq(<<a, b, c, d, e>>)
<1>1. ASSUME NEW a PROVE IsSeq(<<a>>)
  <2>1. <<a>> \in Seq({a})
    OBVIOUS
  <2> QED BY <2>1 DEF IsSeq
<1>2. ASSUME NEW a, NEW b PROVE IsSeq(<<a, b>>)
  <2>1. <<a, b>> \in Seq({a, b})
    OBVIOUS
  <2> QED BY <2>1 DEF IsSeq
<1>3. ASSUME NEW a, NEW b, NEW c PROVE IsSeq(<<a, b, c>>)
  <2>1. <<a, b, c>> \in Seq({a, b, c})
    OBVIOUS
  <2> QED BY <2>1 DEF IsSeq
<1>4. ASSUME NEW a, NEW b, NEW c, NEW d PROVE IsSeq(<<a, b, c, d>>)
  <2>1. <<a, b, c, d>> \in Seq({a, b, c, d})
    OBVIOUS
  <2> QED BY <2>1 DEF IsSeq
<1>5. ASSUME NEW a, NEW b, NEW c, NEW d, NEW e PROVE IsSeq(<<a, b, c, d, e>>)
  <2>1. <<a, b, c, d, e>> \in Seq({a, b, c, d, e})
    OBVIOUS
  <2> QED BY <2>1 DEF IsSeq
<1> QED BY <1>1, <1>2, <1>3, <1>4, <1>5

LEMMA SeqUpdated ==
  ASSUME NEW s, NEW i, NEW x, IsSeq(s)
  PROVE  IsSeq([s EXCEPT ![i] = x])
<1> DEFINE t == [s EXCEPT ![i] = x]
<1>1. s = [j \in 1..Len(s) |-> s[j]] /\ Len(s) \in Nat
  BY SeqFacts
<1>2. DOMAIN t = 1..Len(s) /\ t = [j \in 1..Len(s) |-> t[j]]
  BY <1>1
<1> HIDE DEF t
<1> QED BY <1>1, <1>2, SeqMade

-----------------------------------------------------------------------------
(* The record of a path.                                                   *)

LEMMA AtUnfolds ==
  ASSUME NEW g, NEW p \in Seq(Nat), Len(p) > 0
  PROVE  \E f : /\ At(g, p) = f[Len(p)]
                /\ f[1] = g[p[1]]
                /\ \A d \in 2..Len(p) : f[d] = f[d - 1].kids[p[d]]
<1> DEFINE n == Len(p)
           Body(f, d) == IF d = 1 THEN g[p[1]] ELSE f[d - 1].kids[p[d]]
           P == {k \in 0..n : \E f : \A d \in 1..k : f[d] = Body(f, d)}
<1>1. n \in Nat /\ n > 0
  OBVIOUS
<1>2. 0 \in P
  <2>1. \A d \in 1..0 : <<>>[d] = Body(<<>>, d)
    OBVIOUS
  <2> QED BY <1>1, <2>1
<1>3. ASSUME NEW m \in 1..n, m - 1 \in P
      PROVE  m \in P
  <2>1. PICK f : \A d \in 1..(m - 1) : f[d] = Body(f, d)
    BY <1>3
  <2> DEFINE h == [d \in 1..m |-> IF d = m THEN Body(f, m) ELSE f[d]]
  <2>2. m \in Nat /\ \A d \in 1..(m - 1) : h[d] = f[d]
    OBVIOUS
  <2>3. h[m] = Body(f, m)
    OBVIOUS
  <2> HIDE DEF h
  <2>4. ASSUME NEW d \in 1..m PROVE h[d] = Body(h, d)
    <3>1. CASE d = 1
      <4>1. m = 1 \/ 1 \in 1..(m - 1)
        BY <2>2
      <4>2. h[1] = g[p[1]]
        BY <2>1, <2>2, <2>3, <4>1
      <4> QED BY <3>1, <4>2
    <3>2. CASE d # 1
      <4>1. d - 1 \in 1..(m - 1)
        BY <2>2, <3>2
      <4>2. h[d - 1] = f[d - 1]
        BY <2>2, <4>1
      <4>3. h[d] = Body(f, d)
        <5>1. CASE d = m
          BY <2>3, <5>1
        <5>2. CASE d # m
          <6>1. d \in 1..(m - 1)
            BY <2>2, <5>2
          <6> QED BY <2>1, <2>2, <6>1
        <5> QED BY <5>1, <5>2
      <4> QED BY <3>2, <4>2, <4>3 DEF Body
    <3> QED BY <3>1, <3>2
  <2>5. \A d \in 1..m : h[d] = Body(h, d)
    BY <2>4
  <2>6. \E e : \A d \in 1..m : e[d] = Body(e, d)
    BY <2>5, Zenon
  <2>7. m \in 0..n
    BY <1>1
  <2> HIDE DEF Body, n
  <2> QED BY <2>6, <2>7
<1>4. n \in P
  <2>1. P \in SUBSET (0..n)
    OBVIOUS
  <2> HIDE DEF P, n
  <2>2. P = 0..n
    BY <1>1, <1>2, <1>3, <2>1, HoldsUpto
  <2> QED BY <1>1, <2>2
<1>5. PICK f : \A d \in 1..n : f[d] = Body(f, d)
  BY <1>4
<1> DEFINE node == CHOOSE h : h = [d \in 1..n |-> Body(h, d)]
<1>6. node = [d \in 1..n |-> Body(node, d)]
  <2> DEFINE h == [d \in 1..n |-> f[d]]
  <2>1. \A d \in 1..n : h[d] = f[d]
    OBVIOUS
  <2>2. ASSUME NEW d \in 1..n PROVE h[d] = Body(h, d)
    <3>1. d # 1 => d - 1 \in 1..n
      BY <1>1
    <3> HIDE DEF h
    <3> QED BY <1>5, <2>1, <3>1
  <2>3. h = [d \in 1..n |-> Body(h, d)]
    <3>1. [d \in 1..n |-> Body(h, d)] = [d \in 1..n |-> h[d]]
      <4> HIDE DEF h
      <4> QED BY <2>2
    <3>2. [d \in 1..n |-> h[d]] = h
      OBVIOUS
    <3> QED BY <3>1, <3>2
  <2> HIDE DEF h
  <2> QED BY <2>3
<1>7. At(g, p) = node[n]
  BY DEF At
<1> HIDE DEF node
<1>8. \A d \in 1..n : node[d] = Body(node, d)
  BY <1>6
<1>9. node[1] = g[p[1]]
  <2>1. 1 \in 1..n
    BY <1>1
  <2> QED BY <1>8, <2>1
<1>10. ASSUME NEW d \in 2..n PROVE node[d] = node[d - 1].kids[p[d]]
  <2>1. d \in 1..n /\ d # 1
    BY <1>1
  <2> QED BY <1>8, <2>1
<1> QED BY <1>7, <1>9, <1>10

LEMMA AtRule ==
  ASSUME NEW g, NEW r \in Nat
  PROVE  At(g, <<r>>) = g[r]
<1>1. <<r>> \in Seq(Nat) /\ Len(<<r>>) = 1 /\ <<r>>[1] = r
  OBVIOUS
<1> DEFINE p == <<r>>
<1>2. p \in Seq(Nat) /\ Len(p) > 0
  BY <1>1
<1> HIDE DEF p
<1>3. PICK f : /\ At(g, p) = f[Len(p)]
               /\ f[1] = g[p[1]]
               /\ \A d \in 2..Len(p) : f[d] = f[d - 1].kids[p[d]]
  BY <1>2, AtUnfolds
<1> QED BY <1>1, <1>3 DEF p

LEMMA AtKid ==
  ASSUME NEW g, NEW p \in Seq(Nat), Len(p) > 0, NEW i \in Nat
  PROVE  At(g, Append(p, i)) = At(g, p).kids[i]
<1> DEFINE q == Append(p, i)
           n == Len(p)
<1>1. /\ n \in Nat /\ n > 0
      /\ q \in Seq(Nat) /\ Len(q) = n + 1
      /\ \A d \in 1..n : q[d] = p[d]
      /\ q[n + 1] = i
  OBVIOUS
<1> HIDE DEF q
<1>2. PICK f : /\ At(g, p) = f[n]
               /\ f[1] = g[p[1]]
               /\ \A d \in 2..n : f[d] = f[d - 1].kids[p[d]]
  BY AtUnfolds
<1>3. PICK h : /\ At(g, q) = h[Len(q)]
               /\ h[1] = g[q[1]]
               /\ \A d \in 2..Len(q) : h[d] = h[d - 1].kids[q[d]]
  <2>1. q \in Seq(Nat) /\ Len(q) > 0
    BY <1>1
  <2> QED BY <2>1, AtUnfolds
<1> HIDE DEF n
<1> DEFINE P == {k \in 0..n : \A d \in 1..k : h[d] = f[d]}
<1>4. 0 \in P
  BY <1>1
<1>5. ASSUME NEW m \in 1..n, m - 1 \in P
      PROVE  m \in P
  <2>1. \A d \in 1..(m - 1) : h[d] = f[d]
    BY <1>5
  <2>2. h[m] = f[m]
    <3>1. CASE m = 1
      <4>1. q[1] = p[1]
        BY <1>1
      <4> QED BY <1>2, <1>3, <3>1, <4>1
    <3>2. CASE m # 1
      <4>1. m \in 2..n /\ m \in 2..Len(q) /\ m - 1 \in 1..(m - 1) /\ m \in 1..n
        BY <1>1, <3>2
      <4>2. h[m] = h[m - 1].kids[q[m]]
        BY <1>3, <4>1
      <4>3. f[m] = f[m - 1].kids[p[m]]
        BY <1>2, <4>1
      <4> QED BY <1>1, <2>1, <4>1, <4>2, <4>3
    <3> QED BY <3>1, <3>2
  <2>3. \A d \in 1..m : d = m \/ d \in 1..(m - 1)
    OBVIOUS
  <2> QED BY <2>1, <2>2, <2>3
<1>6. n \in P
  <2>1. P \in SUBSET (0..n)
    OBVIOUS
  <2> HIDE DEF P
  <2>2. P = 0..n
    BY <1>1, <1>4, <1>5, <2>1, HoldsUpto
  <2> QED BY <1>1, <2>2
<1>7. h[n] = f[n]
  BY <1>1, <1>6
<1>8. h[n + 1] = h[n].kids[q[n + 1]]
  <2>1. n + 1 \in 2..Len(q) /\ (n + 1) - 1 = n
    BY <1>1
  <2> QED BY <1>3, <2>1
<1> QED BY <1>1, <1>2, <1>3, <1>7, <1>8 DEF q

-----------------------------------------------------------------------------
(* The code of a record is a sequence of instructions.                     *)

\* The code of records, one after the other.
Gathers(f, play, list, inlined) ==
  /\ f[0] = <<>>
  /\ \A k \in 1..Len(list) : f[k] = f[k - 1] \o play[<<list[k], inlined>>]

LEMMA CodesUnfold ==
  ASSUME NEW play, NEW list, IsSeq(list), NEW inlined
  PROVE  \E f : Codes(play, list, inlined) = f[Len(list)] /\ Gathers(f, play, list, inlined)
<1> DEFINE n == Len(list)
           Body(f, k) == IF k = 0 THEN <<>> ELSE f[k - 1] \o play[<<list[k], inlined>>]
           P == {k \in 0..n : \E f : \A i \in 0..k : f[i] = Body(f, i)}
           chain == CHOOSE f : f = [k \in 0..n |-> Body(f, k)]
<1>1. n \in Nat
  BY SeqFacts
<1>2. 0 \in P
  <2> DEFINE h == [k \in 0..0 |-> Body(<<>>, 0)]
  <2>1. \A k \in 0..0 : h[k] = Body(h, k)
    OBVIOUS
  <2> HIDE DEF h, Body
  <2>2. \E e : \A k \in 0..0 : e[k] = Body(e, k)
    BY <2>1, Zenon
  <2> QED BY <1>1, <2>2
<1>3. ASSUME NEW m \in 1..n, m - 1 \in P
      PROVE  m \in P
  <2>1. PICK f : \A k \in 0..(m - 1) : f[k] = Body(f, k)
    BY <1>3
  <2> HIDE DEF Body, n
  <2> DEFINE h == [k \in 0..m |-> IF k = m THEN Body(f, m) ELSE f[k]]
  <2>2. m \in Nat /\ m > 0 /\ \A k \in 0..(m - 1) : h[k] = f[k]
    BY <1>1
  <2>3. h[m] = Body(f, m)
    OBVIOUS
  <2> HIDE DEF h
  <2>4. ASSUME NEW k \in 0..m PROVE h[k] = Body(h, k)
    <3>1. CASE k = 0
      <4>1. 0 \in 0..(m - 1)
        BY <2>2
      <4> QED BY <2>1, <2>2, <3>1, <4>1 DEF Body
    <3>2. CASE k # 0
      <4>1. k - 1 \in 0..(m - 1)
        BY <2>2, <3>2
      <4>2. h[k - 1] = f[k - 1]
        BY <2>2, <4>1
      <4>3. h[k] = Body(f, k)
        <5>1. CASE k = m
          BY <2>3, <5>1
        <5>2. CASE k # m
          <6>1. k \in 0..(m - 1)
            BY <2>2, <5>2
          <6> QED BY <2>1, <2>2, <6>1
        <5> QED BY <5>1, <5>2
      <4> QED BY <3>2, <4>2, <4>3 DEF Body
    <3> QED BY <3>1, <3>2
  <2>5. \A k \in 0..m : h[k] = Body(h, k)
    BY <2>4
  <2>6. \E e : \A k \in 0..m : e[k] = Body(e, k)
    BY <2>5, Zenon
  <2> QED BY <2>6
<1>4. n \in P
  <2>1. P \in SUBSET (0..n)
    OBVIOUS
  <2> HIDE DEF P, n
  <2>2. P = 0..n
    BY <1>1, <1>2, <1>3, <2>1, HoldsUpto
  <2> QED BY <1>1, <2>2
<1>5. PICK f : \A k \in 0..n : f[k] = Body(f, k)
  BY <1>4
<1>6. chain = [k \in 0..n |-> Body(chain, k)]
  <2> DEFINE h == [k \in 0..n |-> f[k]]
  <2>1. \A k \in 0..n : h[k] = f[k]
    OBVIOUS
  <2>2. ASSUME NEW k \in 0..n PROVE h[k] = Body(h, k)
    <3>1. k # 0 => k - 1 \in 0..n
      BY <1>1
    <3> HIDE DEF h
    <3> QED BY <1>5, <2>1, <3>1
  <2>3. h = [k \in 0..n |-> Body(h, k)]
    <3>1. [k \in 0..n |-> Body(h, k)] = [k \in 0..n |-> h[k]]
      <4> HIDE DEF h
      <4> QED BY <2>2
    <3>2. [k \in 0..n |-> h[k]] = h
      OBVIOUS
    <3> QED BY <3>1, <3>2
  <2> HIDE DEF h
  <2> QED BY <2>3
<1>7. Codes(play, list, inlined) = chain[n]
  BY DEF Codes
<1> HIDE DEF chain
<1>8. \A k \in 0..n : chain[k] = Body(chain, k)
  BY <1>6
<1>9. chain[0] = <<>>
  <2>1. 0 \in 0..n
    BY <1>1
  <2> QED BY <1>8, <2>1
<1>10. ASSUME NEW k \in 1..n
       PROVE  chain[k] = chain[k - 1] \o play[<<list[k], inlined>>]
  <2>1. k \in 0..n /\ k # 0
    BY <1>1
  <2> QED BY <1>8, <2>1
<1>11. Gathers(chain, play, list, inlined)
  BY <1>9, <1>10 DEF Gathers
<1> QED BY <1>7, <1>11

LEMMA CodesSeq ==
  ASSUME NEW play, NEW list, IsSeq(list), NEW inlined,
         \A k \in 1..Len(list) : IsSeq(play[<<list[k], inlined>>])
  PROVE  IsSeq(Codes(play, list, inlined))
<1>1. PICK f : Codes(play, list, inlined) = f[Len(list)] /\ Gathers(f, play, list, inlined)
  BY CodesUnfold
<1> DEFINE n == Len(list)
<1>2. n \in Nat
  BY SeqFacts
<1> HIDE DEF n
<1> DEFINE P == {k \in 0..n : IsSeq(f[k])}
<1>3. 0 \in P
  BY <1>1, <1>2, SeqNone DEF Gathers
<1>4. ASSUME NEW k \in 1..n, k - 1 \in P
      PROVE  k \in P
  <2>1. IsSeq(f[k - 1])
    BY <1>4
  <2>2. IsSeq(play[<<list[k], inlined>>])
    BY DEF n
  <2>3. IsSeq(f[k])
    BY <1>1, <2>1, <2>2, SeqJoin DEF Gathers, n
  <2> QED BY <2>3
<1>5. n \in P
  <2>1. P \in SUBSET (0..n)
    OBVIOUS
  <2> HIDE DEF P
  <2>2. P = 0..n
    BY <1>2, <1>3, <1>4, <2>1, HoldsUpto
  <2> QED BY <1>2, <2>2
<1> QED BY <1>1, <1>5 DEF n

\* The parts that blocks are made of.
LEMMA ResolveSeq ==
  ASSUME NEW code, IsSeq(code), NEW label, NEW address
  PROVE  IsSeq(Resolve(code, label, address))
<1> DEFINE s == Resolve(code, label, address)
<1>1. DOMAIN code = 1..Len(code) /\ Len(code) \in Nat
  BY SeqFacts
<1>2. DOMAIN s = 1..Len(code) /\ s = [i \in 1..Len(code) |-> s[i]]
  BY <1>1 DEF Resolve
<1> HIDE DEF s
<1>3. IsSeq(s)
  BY <1>1, <1>2, SeqMade
<1> QED BY <1>3 DEF s

LEMMA EachSeq ==
  ASSUME NEW op, NEW regs, IsSeq(regs)
  PROVE  IsSeq(Each(op, regs))
<1> DEFINE s == Each(op, regs)
<1>1. DOMAIN regs = 1..Len(regs) /\ Len(regs) \in Nat
  BY SeqFacts
<1>2. DOMAIN s = 1..Len(regs) /\ s = [i \in 1..Len(regs) |-> s[i]]
  BY <1>1 DEF Each
<1> HIDE DEF s
<1>3. IsSeq(s)
  BY <1>1, <1>2, SeqMade
<1> QED BY <1>3 DEF s

LEMMA PartsSeq ==
  /\ IsSeq(BX) /\ IsSeq(BLES) /\ IsSeq(BGRE) /\ IsSeq(Failed)
  /\ IsSeq(Saved) /\ IsSeq(Restored) /\ IsSeq(Kept)
  /\ \A regs : IsSeq(regs) => IsSeq(Push(regs)) /\ IsSeq(Pop(regs))
  /\ \A from : IsSeq(Matched(from))
  /\ \A slots : IsSeq(Guarded(slots))
  /\ \A op, rule, loop, regs : IsSeq(Emit(op, rule, loop, regs))
  /\ \A rule : IsSeq(Aborts(rule))
<1>1. IsSeq(BX) /\ IsSeq(BLES) /\ IsSeq(BGRE) /\ IsSeq(Failed)
  BY SeqTuples DEF BX, BLES, BGRE, Failed
<1>2. \A regs : IsSeq(regs) => IsSeq(Push(regs)) /\ IsSeq(Pop(regs))
  BY EachSeq DEF Push, Pop
<1>3. \A from : IsSeq(Matched(from))
  BY SeqTuples DEF Matched
<1>4. IsSeq(Saved)
  BY <1>2, SeqTuples DEF Saved
<1>5. IsSeq(Pop(<<"LR", "TOP", "REC">>)) /\ IsSeq(Pop(<<"LR", "R1", "R0">>))
  BY <1>2, SeqTuples
<1>6. IsSeq(Restored)
  BY <1>1, <1>5, SeqJoin DEF Restored
<1>7. IsSeq(Kept)
  BY <1>3, <1>5, SeqJoin DEF Kept
<1>8. \A slots : IsSeq(Guarded(slots))
  BY SeqTuples, SeqNone DEF Guarded
<1>9. \A op, rule, loop, regs : IsSeq(Emit(op, rule, loop, regs))
  BY SeqTuples, SeqNone DEF Emit
<1>10. \A rule : IsSeq(Aborts(rule))
  BY SeqTuples, SeqNone DEF Aborts
<1> QED BY <1>1, <1>2, <1>3, <1>4, <1>6, <1>7, <1>8, <1>9, <1>10

Quantifiers == {"", "?", "+", "*"}

LEMMA ReferenceSeq ==
  ASSUME NEW q \in Quantifiers, NEW bl
  PROVE  IsSeq(Reference(q, bl))
<1>1. \A none : IsSeq(Repeated(bl, none))
  <2> SUFFICES ASSUME NEW none PROVE IsSeq(Repeated(bl, none))
    OBVIOUS
  <2> DEFINE s == Repeated(bl, none)
  <2>1. DOMAIN s = 1..8 /\ s = [i \in 1..8 |-> s[i]]
    BY DEF Repeated
  <2> HIDE DEF s
  <2>2. IsSeq(s)
    BY <2>1, SeqMade
  <2> QED BY <2>2 DEF s
<1>2. CASE q = ""
  BY <1>2, SeqTuples DEF Reference
<1>3. CASE q = "?"
  BY <1>3, SeqTuples DEF Reference
<1>4. CASE q = "+"
  BY <1>1, <1>4 DEF Reference
<1>5. CASE q = "*"
  BY <1>1, <1>5 DEF Reference
<1> QED BY <1>2, <1>3, <1>4, <1>5 DEF Quantifiers

LEMMA CalledSeq ==
  ASSUME NEW q \in Quantifiers, NEW enter, NEW body, NEW ok, NEW fail,
         IsSeq(enter), IsSeq(body), IsSeq(ok), IsSeq(fail)
  PROVE  IsSeq(Called(q, enter, body, ok, fail))
<1> DEFINE head == enter \o body \o ok
           code == Resolve(head \o fail, "end", Len(head) + 1)
           back == IF IsMultiple([q |-> q]) THEN -(Len(code) + 1) ELSE -Len(code)
<1>1. IsSeq(head)
  BY SeqJoin
<1>2. IsSeq(head \o fail)
  BY <1>1, SeqJoin
<1>3. IsSeq(code)
  BY <1>2, ResolveSeq
<1>4. Called(q, enter, body, ok, fail)
        = <<Jump("B", Len(code) + 1)>> \o code \o Reference(q, Jump("BL", back))
  BY DEF Called
<1> HIDE DEF code, back, head
<1>5. IsSeq(<<Jump("B", Len(code) + 1)>>) /\ IsSeq(Reference(q, Jump("BL", back)))
  BY SeqTuples, ReferenceSeq
<1>6. IsSeq(<<Jump("B", Len(code) + 1)>> \o code)
  BY <1>3, <1>5, SeqJoin
<1> QED BY <1>4, <1>5, <1>6, SeqJoin

LEMMA BlocksSeq ==
  ASSUME NEW q \in Quantifiers, NEW slots, NEW body, IsSeq(body)
  PROVE  /\ IsSeq(ExpBlock(q, slots, body))
         /\ IsSeq(BranchBlock(q, slots, body))
         /\ IsSeq(NonLoopyBlock(q, body))
         /\ IsSeq(AltBlock(q, slots, body))
         /\ IsSeq(NotBlock(q, body))
         /\ IsSeq(LoopRefBlock(q))
<1>1. /\ IsSeq(BX) /\ IsSeq(BLES) /\ IsSeq(BGRE) /\ IsSeq(Failed)
      /\ IsSeq(Saved) /\ IsSeq(Restored) /\ IsSeq(Kept)
      /\ IsSeq(Guarded(slots)) /\ IsSeq(Guarded({}))
      /\ IsSeq(Matched("R1"))
  BY PartsSeq
<1>2. /\ IsSeq(Push(<<"TOP", "LR">>))
      /\ IsSeq(Pop(<<"LR", "TOP">>))
      /\ IsSeq(Pop(<<"LR", "R1">>))
      /\ IsSeq(Pop(<<"LR", "TOP", "R0">>))
  BY PartsSeq, SeqTuples
<1>3. \A x \in Quantifiers : \A y, b :
        IsSeq(Guarded(y)) /\ IsSeq(b) => IsSeq(ExpBlock(x, y, b))
  <2> SUFFICES ASSUME NEW x \in Quantifiers, NEW y, NEW b, IsSeq(Guarded(y)), IsSeq(b)
               PROVE  IsSeq(ExpBlock(x, y, b))
    OBVIOUS
  <2>1. IsSeq(Guarded(y) \o Saved) /\ IsSeq(Kept \o BX)
    BY <1>1, SeqJoin
  <2> QED BY <1>1, <2>1, CalledSeq DEF ExpBlock
<1>4. IsSeq(ExpBlock(q, slots, body))
  BY <1>1, <1>3
<1>5. IsSeq(BranchBlock(q, slots, body))
  BY <1>1, <1>4, SeqJoin DEF BranchBlock
<1>6. IsSeq(NonLoopyBlock(q, body))
  <2> DEFINE enter == Saved \o <<Imm("CMP", <<"LOO">>, 0)>> \o BGRE
             ok == Kept \o <<Op("MOV", <<"LOO", "R0">>)>> \o BX
  <2>1. IsSeq(enter) /\ IsSeq(ok)
    BY <1>1, SeqTuples, SeqJoin
  <2>2. NonLoopyBlock(q, body) = Called(q, enter, body, ok, Restored) \o BGRE
    BY DEF NonLoopyBlock
  <2> HIDE DEF enter, ok
  <2>3. IsSeq(Called(q, enter, body, ok, Restored))
    BY <1>1, <2>1, CalledSeq
  <2> QED BY <1>1, <2>2, <2>3, SeqJoin
<1>7. IsSeq(AltBlock(q, slots, body))
  <2> DEFINE enter == Guarded(slots) \o Push(<<"TOP", "LR">>)
             ok == Pop(<<"LR", "TOP">>) \o Failed \o BX
             fail == Pop(<<"LR", "R1">>) \o Matched("R1") \o BX
  <2>1. IsSeq(enter) /\ IsSeq(ok) /\ IsSeq(fail)
    BY <1>1, <1>2, SeqJoin
  <2>2. AltBlock(q, slots, body) = Called(q, enter, body, ok, fail)
    BY DEF AltBlock
  <2> HIDE DEF enter, ok, fail
  <2> QED BY <2>1, <2>2, CalledSeq
<1>8. IsSeq(NotBlock(q, body))
  <2> DEFINE one == <<Ins("MATCH", <<>>, 0, [lo |-> 0, hi |-> 255, q |-> ""], "")>>
             fail == Pop(<<"LR", "TOP", "R0">>) \o one \o BX
  <2>1. IsSeq(one)
    BY SeqTuples
  <2>2. NotBlock(q, body) = Called(q, Saved, body, Restored, fail)
    BY DEF NotBlock
  <2> HIDE DEF one
  <2>3. IsSeq(fail)
    BY <1>1, <1>2, <2>1, SeqJoin
  <2> HIDE DEF fail
  <2> QED BY <1>1, <2>2, <2>3, CalledSeq
<1>9. IsSeq(LoopRefBlock(q))
  <2> DEFINE test == <<Imm("CMP", <<"LOO">>, 0), Jump("BGRE", 3)>>
             take == <<Op("ADD", <<"TOP", "TOP", "LOO">>), Op("MOVS", <<"R0", "LOO">>)>>
             optional == IF IsOptional([q |-> q]) THEN "?" ELSE ""
             code == test \o Failed \o BLES \o take \o BLES
  <2>1. IsSeq(test) /\ IsSeq(take) /\ optional \in Quantifiers
    BY SeqTuples DEF Quantifiers
  <2>2. LoopRefBlock(q) = ExpBlock(optional, {}, code)
    BY DEF LoopRefBlock
  <2> HIDE DEF test, take, optional
  <2>3. IsSeq(code)
    BY <1>1, <2>1, SeqJoin
  <2> HIDE DEF code
  <2> QED BY <1>1, <1>3, <2>1, <2>2, <2>3
<1> QED BY <1>4, <1>5, <1>6, <1>7, <1>8, <1>9

LEMMA RuleBlockSeq ==
  ASSUME NEW rule, NEW slots, NEW body, IsSeq(body)
  PROVE  IsSeq(RuleBlock(rule, slots, body))
<1> DEFINE emitEnd == Emit("EMITEND", rule, FALSE, <<"OTP", "R0">>)
           check == <<With("CHECKCACHE", <<"TOP">>, rule.name), Op("BXNEQ", <<"LR">>)>>
           jump == <<Jump("BEQ", 3 + Len(emitEnd))>>
           set == <<SetCache(rule, "R1", "REC")>>
           move == <<Op("MOV", <<"REC", "R1">>)>>
           moved == <<Op("MOV", <<"OTP", "TOP">>)>>
           unset == <<SetCache(rule, "REC", "REC")>>
           pop == Pop(<<"LR", "OTP", "R1">>)
           popped == Pop(<<"LR", "TOP", "REC">>)
           start == Emit("EMITSTART", rule, FALSE, <<"TOP">>)
           head == Guarded(slots) \o check \o Saved \o start \o body
                     \o pop \o Matched("OTP") \o jump \o emitEnd \o set \o BX
                     \o move \o Failed \o Aborts(rule) \o BX
           fails == popped \o moved \o Failed \o unset \o Aborts(rule) \o BX
<1>1. /\ IsSeq(BX) /\ IsSeq(Failed) /\ IsSeq(Saved) /\ IsSeq(Guarded(slots))
      /\ IsSeq(Matched("OTP")) /\ IsSeq(Aborts(rule)) /\ IsSeq(start) /\ IsSeq(emitEnd)
  BY PartsSeq
<1>2. /\ IsSeq(check) /\ IsSeq(jump) /\ IsSeq(set) /\ IsSeq(move) /\ IsSeq(moved)
      /\ IsSeq(unset)
  BY SeqTuples
<1>3. IsSeq(pop) /\ IsSeq(popped)
  BY PartsSeq, SeqTuples
<1>4. RuleFails(rule) = fails
  BY DEF RuleFails
<1>5. RuleBlock(rule, slots, body) = Resolve(head \o RuleFails(rule), "end", Len(head) + 1)
  BY DEF RuleBlock
<1> HIDE DEF emitEnd, check, jump, set, move, moved, unset, pop, popped, start
<1>6. IsSeq(fails)
  BY <1>1, <1>2, <1>3, SeqJoin
<1>7. IsSeq(head)
  <2>1. IsSeq(Guarded(slots) \o check \o Saved \o start \o body)
    BY <1>1, <1>2, SeqJoin
  <2> DEFINE first == Guarded(slots) \o check \o Saved \o start \o body
  <2> HIDE DEF first
  <2>2. IsSeq(first \o pop \o Matched("OTP") \o jump \o emitEnd)
    BY <1>1, <1>2, <1>3, <2>1, SeqJoin DEF first
  <2> DEFINE second == first \o pop \o Matched("OTP") \o jump \o emitEnd
  <2>3. head = second \o set \o BX \o move \o Failed \o Aborts(rule) \o BX
    BY DEF first
  <2> HIDE DEF second, head
  <2>4. IsSeq(second \o set \o BX \o move \o Failed \o Aborts(rule) \o BX)
    BY <1>1, <1>2, <2>2, SeqJoin DEF second
  <2> QED BY <2>3, <2>4
<1> HIDE DEF head, fails
<1>8. IsSeq(head \o fails)
  BY <1>6, <1>7, SeqJoin
<1>9. IsSeq(Resolve(head \o fails, "end", Len(head) + 1))
  BY <1>8, ResolveSeq
<1> QED BY <1>4, <1>5, <1>9

LEMMA InlineBlockSeq ==
  ASSUME NEW rule, NEW body, IsSeq(body)
  PROVE  IsSeq(InlineBlock(rule, body))
<1> DEFINE emitEnd == Emit("EMITEND", rule, TRUE, <<"OTP", "R0">>)
           start == Emit("EMITSTART", rule, TRUE, <<"TOP">>)
           pop == Pop(<<"LR", "OTP", "R1">>)
           jump == <<Jump("BEQ", 2 + Len(emitEnd))>>
           move == <<Op("MOV", <<"REC", "R1">>)>>
           enter == Saved \o start
           ok == pop \o Matched("OTP") \o jump \o emitEnd \o BX \o move \o Failed \o BX
<1>1. /\ IsSeq(BX) /\ IsSeq(Failed) /\ IsSeq(Saved) /\ IsSeq(Restored)
      /\ IsSeq(Matched("OTP")) /\ IsSeq(start) /\ IsSeq(emitEnd)
  BY PartsSeq
<1>2. IsSeq(jump) /\ IsSeq(move) /\ IsSeq(pop)
  BY SeqTuples, PartsSeq
<1>3. InlineBlock(rule, body) = Called("", enter, body, ok, Restored)
  BY DEF InlineBlock
<1> HIDE DEF emitEnd, start, pop, jump, move
<1>4. IsSeq(enter) /\ IsSeq(ok)
  BY <1>1, <1>2, SeqJoin
<1> HIDE DEF enter, ok
<1>5. "" \in Quantifiers
  BY DEF Quantifiers
<1> QED BY <1>1, <1>3, <1>4, <1>5, CalledSeq

LEMMA LoopBlockSeq ==
  ASSUME NEW rule, NEW body, IsSeq(body)
  PROVE  IsSeq(LoopBlock(rule, body))
<1> DEFINE clear == Each("CLR", <<"R3", "R0">>)
           save == <<Op("PUSHM", <<"REC", "LOO", "TOP", "LR">>), Op("PUSH", <<"R0">>),
                     Op("MOV", <<"LOO", "R3">>)>>
           start == Emit("EMITSTART", rule, TRUE, <<"TOP">>)
           load == <<Op("MOV", <<"R3", "LOO">>), Op("POP", <<"R0">>),
                     Op("POPM", <<"R1", "LOO", "OTP", "LR">>)>>
           jump == <<JumpTo("BEQ", "fail")>>
           emitEnd == Emit("EMITEND", rule, TRUE, <<"OTP", "R0">>)
           again == <<Op("MOV", <<"R3", "R0">>), Op("MOV", <<"TOP", "OTP">>),
                      JumpTo("B", "loop")>>
           move == <<Op("MOV", <<"REC", "R1">>)>>
           leave == <<Op("MOV", <<"R3", "LOO">>), Op("POP", <<"R0">>),
                      Op("POPM", <<"REC", "LOO", "TOP", "LR">>),
                      Imm("CMP", <<"R0">>, 0), Jump("BGRE", 3)>>
           failing == IF rule.abort THEN Aborts(rule) ELSE BX
           add == <<Op("ADD", <<"TOP", "TOP", "R3">>)>>
           head == save \o start \o body \o load \o Matched("OTP") \o jump \o emitEnd \o again
           fail == move \o Failed \o BX
           done == leave \o Failed \o failing \o add \o BX
           code == clear \o head \o fail \o done
           first == Len(clear) + 1
<1>1. /\ IsSeq(BX) /\ IsSeq(Failed) /\ IsSeq(Aborts(rule)) /\ IsSeq(Matched("OTP"))
      /\ IsSeq(start) /\ IsSeq(emitEnd)
  BY PartsSeq
<1>2. /\ IsSeq(save) /\ IsSeq(load) /\ IsSeq(jump) /\ IsSeq(again) /\ IsSeq(move)
      /\ IsSeq(add)
  BY SeqTuples
<1>3. IsSeq(leave)
  BY SeqTuples
<1>4. IsSeq(clear)
  BY SeqTuples, EachSeq
<1>5. IsSeq(failing)
  BY <1>1
<1>6. LoopBlock(rule, body)
        = Resolve(Resolve(Resolve(code, "loop", first), "fail", first + Len(head)),
                  "end", first + Len(head) + Len(fail))
  BY DEF LoopBlock
<1> HIDE DEF clear, save, start, load, jump, emitEnd, again, move, leave, failing, add, first
<1>7. IsSeq(head)
  BY <1>1, <1>2, SeqJoin
<1>8. IsSeq(fail) /\ IsSeq(done)
  BY <1>1, <1>2, <1>3, <1>5, SeqJoin
<1> HIDE DEF head, fail, done
<1>9. IsSeq(code)
  BY <1>4, <1>7, <1>8, SeqJoin
<1> HIDE DEF code
<1>10. IsSeq(Resolve(code, "loop", first))
  BY <1>9, ResolveSeq
<1>11. IsSeq(Resolve(Resolve(code, "loop", first), "fail", first + Len(head)))
  BY <1>10, ResolveSeq
<1>12. IsSeq(Resolve(Resolve(Resolve(code, "loop", first), "fail", first + Len(head)),
                     "end", first + Len(head) + Len(fail)))
  BY <1>11, ResolveSeq
<1> QED BY <1>6, <1>12

-----------------------------------------------------------------------------
(* Grammars.                                                               *)

Parts == {n \in Nodes : n.kind \in NodeKinds}

HasName(n) == n.name # ""

\* What a handler may be given, and what a database may hold.
IsNode(n) ==
  /\ n.kind \in {"rule"} \union NodeKinds
  /\ n.q \in Quantifiers
  /\ n.kids \in Seq(Parts)
  /\ n.kind = "ref" => HasName(n)

IsItem(n) ==
  /\ {"kind", "q", "kids", "name"} \subseteq DOMAIN n
  /\ n.kind \in {"rule", "directive"}
  /\ n.q \in Quantifiers
  /\ n.kids \in Seq(Parts)
  /\ HasName(n) <=> n.kind = "rule"

IsGrammar(g) == IsSeq(g) /\ \A r \in 1..Len(g) : IsItem(g[r])

LEMMA PartsAreNodes ==
  ASSUME NEW n \in Parts
  PROVE  IsNode(n)
<1>1. n \in Nodes /\ n.kind \in NodeKinds
  BY DEF Parts
<1>2. n.q \in Quantifiers /\ n.kids \in Seq(Parts)
  BY <1>1, TextsAssumption DEF Quantifiers, Parts
<1>3. n.kind = "ref" => HasName(n)
  BY <1>1, TextsAssumption DEF HasName
<1> QED BY <1>1, <1>2, <1>3 DEF IsNode

LEMMA RulesAreNodes ==
  ASSUME NEW n, IsItem(n), n.kind = "rule"
  PROVE  IsNode(n)
BY DEF IsItem, IsNode

\* The last rule of a name.
LEMMA RuleNamedIs ==
  ASSUME NEW g, IsSeq(g), NEW name
  PROVE  /\ RuleNamed(g, name) \in 0..Len(g)
         /\ RuleNamed(g, name) # 0 => g[RuleNamed(g, name)].name = name
         /\ \A s \in 1..Len(g) : g[s].name = name => s <= RuleNamed(g, name)
<1> DEFINE n == Len(g)
           I == {0} \union {r \in DOMAIN g : g[r].name = name}
<1>1. n \in Nat /\ DOMAIN g = 1..n
  BY SeqFacts
<1> HIDE DEF n
<1>2. I \in SUBSET (0..n) /\ I # {}
  BY <1>1
<1>3. RuleNamed(g, name) = Max(I)
  BY DEF RuleNamed
<1>4. \A s \in 1..n : g[s].name = name => s \in I
  BY <1>1
<1>5. \A s \in I : s # 0 => g[s].name = name
  OBVIOUS
<1> HIDE DEF I
<1>6. Max(I) \in I /\ \A i \in I : i <= Max(I)
  BY <1>1, <1>2, MaxOfPlaces
<1> QED BY <1>2, <1>3, <1>4, <1>5, <1>6 DEF n

\* What a reference stands for is a rule, never a directive.
LEMMA RuleNamedItem ==
  ASSUME NEW g, IsGrammar(g), NEW node, HasName(node), RuleNamed(g, node.name) # 0
  PROVE  /\ RuleNamed(g, node.name) \in 1..Len(g)
         /\ g[RuleNamed(g, node.name)].kind = "rule"
<1> DEFINE r == RuleNamed(g, node.name)
           n == Len(g)
<1>1. IsSeq(g)
  BY DEF IsGrammar
<1>2. n \in Nat
  BY <1>1, SeqFacts
<1>3. r \in 0..n
  BY <1>1, RuleNamedIs
<1>4. r # 0 => g[r].name = node.name
  BY <1>1, RuleNamedIs
<1>5. r # 0
  OBVIOUS
<1> HIDE DEF r, n
<1>6. r \in 1..n
  BY <1>2, <1>3, <1>5
<1>7. IsItem(g[r])
  BY <1>6 DEF IsGrammar, n
<1>8. g[r].name = node.name
  BY <1>4, <1>5
<1>9. HasName(g[r])
  BY <1>8, Zenon DEF HasName
<1>10. g[r].kind = "rule"
  BY <1>7, <1>9 DEF IsItem
<1> QED BY <1>6, <1>10 DEF r, n

\* Paths, in order or reversed, to records for a handler.
ToNodes(kids, g) ==
  /\ IsSeq(kids) /\ IsSeq(Reverse(kids))
  /\ \A i \in 1..Len(kids) :
       kids[i] \in Seq(Nat) /\ Len(kids[i]) > 0 /\ IsNode(At(g, kids[i]))
  /\ \A i \in 1..Len(Reverse(kids)) :
       \E k \in 1..Len(kids) : Reverse(kids)[i] = kids[k]

LEMMA KidPathsSeq ==
  ASSUME NEW g, NEW p \in Seq(Nat), Len(p) > 0, IsNode(At(g, p))
  PROVE  ToNodes(KidPaths(g, p), g)
<1> DEFINE nodes == At(g, p).kids
           kids == KidPaths(g, p)
           n == Len(nodes)
<1>1. nodes \in Seq(Parts)
  BY DEF IsNode
<1>2. n \in Nat /\ DOMAIN nodes = 1..n /\ \A i \in 1..n : nodes[i] \in Parts
  BY <1>1
<1>3. DOMAIN kids = 1..n /\ kids = [i \in 1..n |-> kids[i]]
  BY <1>2 DEF KidPaths
<1>4. \A i \in 1..n : kids[i] = Append(p, i)
  BY <1>2 DEF KidPaths
<1>5. \A i \in 1..n : At(g, Append(p, i)) = nodes[i]
  BY AtKid
<1> HIDE DEF kids, nodes, n
<1>6. IsSeq(kids) /\ Len(kids) = n
  BY <1>2, <1>3, SeqMade
<1>7. ASSUME NEW i \in 1..n
      PROVE  kids[i] \in Seq(Nat) /\ Len(kids[i]) > 0 /\ IsNode(At(g, kids[i]))
  <2>1. Append(p, i) \in Seq(Nat) /\ Len(Append(p, i)) > 0
    BY <1>2
  <2>2. IsNode(nodes[i])
    BY <1>2, PartsAreNodes
  <2> QED BY <1>4, <1>5, <2>1, <2>2
<1> DEFINE rev == Reverse(kids)
<1>8. DOMAIN rev = 1..n /\ rev = [i \in 1..n |-> rev[i]]
  BY <1>6 DEF Reverse
<1>9. \A i \in 1..n : rev[i] = kids[n - i + 1]
  BY <1>6 DEF Reverse
<1> HIDE DEF rev
<1>10. IsSeq(rev) /\ Len(rev) = n
  BY <1>2, <1>8, SeqMade
<1>11. ASSUME NEW i \in 1..n
       PROVE  \E k \in 1..n : rev[i] = kids[k]
  <2>1. n - i + 1 \in 1..n
    BY <1>2
  <2> QED BY <1>9, <2>1
<1> QED BY <1>6, <1>7, <1>10, <1>11 DEF kids, rev, ToNodes

-----------------------------------------------------------------------------
(* The handlers.                                                           *)

LEMMA MatchInsSeq == \A node, q : IsSeq(MatchIns(node, q))
BY SeqTuples DEF MatchIns

LEMMA NodeCodeSeq ==
  ASSUME NEW info, NEW p, IsNode(At(info.g, p)), At(info.g, p).kind \notin {"rule", "ref"},
         NEW body, NEW reversed, IsSeq(body), IsSeq(reversed)
  PROVE  IsSeq(NodeCode(info, p, body, reversed))
<1> DEFINE node == At(info.g, p)
           slots == info.env[p]
<1>1. node.kind \in NodeKinds \ {"ref"} /\ node.q \in Quantifiers
  BY DEF IsNode
<1>2. IsSeq(BLES) /\ IsSeq(BGRE)
  BY PartsSeq
<1>3. CASE node.kind = "char"
  <2>1. NodeCode(info, p, body, reversed) = MatchIns(node, node.q) \o BLES
    BY <1>3, Zenon DEF NodeCode
  <2>2. IsSeq(MatchIns(node, node.q))
    BY MatchInsSeq
  <2> QED BY <1>2, <2>1, <2>2, SeqJoin
<1>4. CASE node.kind = "any"
  <2>1. NodeCode(info, p, body, reversed) = MatchIns([lo |-> 0, hi |-> 255], node.q) \o BLES
    BY <1>4, Zenon DEF NodeCode
  <2>2. IsSeq(MatchIns([lo |-> 0, hi |-> 255], node.q))
    BY MatchInsSeq
  <2> QED BY <1>2, <2>1, <2>2, SeqJoin
<1>5. CASE node.kind = "clschar"
  <2>1. NodeCode(info, p, body, reversed) = MatchIns(node, "") \o BGRE
    BY <1>5, Zenon DEF NodeCode
  <2>2. IsSeq(MatchIns(node, ""))
    BY MatchInsSeq, Zenon
  <2>3. \A c : IsSeq(c) => IsSeq(c \o BGRE)
    BY <1>2, SeqJoin
  <2> QED BY <2>1, <2>2, <2>3, Zenon
<1>6. CASE node.kind = "cls"
  <2>1. NodeCode(info, p, body, reversed) = AltBlock(node.q, {}, body) \o BLES
    BY <1>6, Zenon DEF NodeCode
  <2>2. IsSeq(AltBlock(node.q, {}, body))
    BY <1>1, BlocksSeq
  <2> QED BY <1>2, <2>1, <2>2, SeqJoin
<1>7. CASE node.kind = "orop"
  <2>1. NodeCode(info, p, body, reversed) = AltBlock(node.q, slots, body) \o BLES
    BY <1>7, Zenon DEF NodeCode
  <2>2. IsSeq(AltBlock(node.q, slots, body))
    BY <1>1, BlocksSeq
  <2> QED BY <1>2, <2>1, <2>2, SeqJoin
<1>8. CASE node.kind \in {"bracket", "reqop"}
  <2>1. NodeCode(info, p, body, reversed) = ExpBlock(node.q, {}, body) \o BLES
    BY <1>8, Zenon DEF NodeCode
  <2>2. IsSeq(ExpBlock(node.q, {}, body))
    BY <1>1, BlocksSeq
  <2> QED BY <1>2, <2>1, <2>2, SeqJoin
<1>9. CASE node.kind = "norop"
  <2>1. NodeCode(info, p, body, reversed) = AltBlock(node.q, {}, body) \o BGRE
    BY <1>9, Zenon DEF NodeCode
  <2>2. IsSeq(AltBlock(node.q, {}, body))
    BY <1>1, BlocksSeq
  <2> QED BY <1>2, <2>1, <2>2, SeqJoin
<1>10. CASE node.kind = "minop"
  <2>1. NodeCode(info, p, body, reversed) = ExpBlock(node.q, slots, reversed) \o BLES
    BY <1>10, Zenon DEF NodeCode
  <2>2. IsSeq(ExpBlock(node.q, slots, reversed))
    BY <1>1, BlocksSeq
  <2> QED BY <1>2, <2>1, <2>2, SeqJoin
<1>11. CASE node.kind = "notop"
  <2>1. NodeCode(info, p, body, reversed) = NotBlock(node.q, body) \o BLES
    BY <1>11, Zenon DEF NodeCode
  <2>2. IsSeq(NotBlock(node.q, body))
    BY <1>1, BlocksSeq
  <2> QED BY <1>2, <2>1, <2>2, SeqJoin
<1>12. CASE node.kind \in {"altbranch", "negbranch"}
  <2>1. NodeCode(info, p, body, reversed)
          = IF p \in info.nonloop THEN NonLoopyBlock(node.q, body)
            ELSE BranchBlock(node.q, slots, body)
    BY <1>12, Zenon DEF NodeCode
  <2>2. IsSeq(NonLoopyBlock(node.q, body)) /\ IsSeq(BranchBlock(node.q, slots, body))
    BY <1>1, BlocksSeq
  <2> QED BY <2>1, <2>2
<1> QED
  BY <1>1, <1>3, <1>4, <1>5, <1>6, <1>7, <1>8, <1>9, <1>10, <1>11, <1>12 DEF NodeKinds

LEMMA RefCodeSeq ==
  ASSUME NEW info, NEW p, At(info.g, p).q \in Quantifiers, NEW inlined,
         NEW target, IsSeq(target)
  PROVE  IsSeq(RefCode(info, p, inlined, target))
<1> DEFINE node == At(info.g, p)
           bl == Ins("BL", <<>>, 0, "", node.name)
<1>1. IsSeq(Reference(node.q, bl)) /\ IsSeq(LoopRefBlock(node.q))
  BY ReferenceSeq, BlocksSeq, SeqNone, Zenon
<1>2. IsSeq(target \o BLES)
  BY PartsSeq, SeqJoin
<1>3. "?" \in Quantifiers
  BY Zenon DEF Quantifiers
<1>4. IsSeq(ExpBlock("?", {}, target \o BLES))
  BY <1>2, <1>3, BlocksSeq
<1> QED BY <1>1, <1>4, Zenon DEF RefCode

LEMMA RuleCodeSeq ==
  ASSUME NEW info, NEW r, NEW inlined, NEW body, IsSeq(body)
  PROVE  IsSeq(RuleCode(info, r, inlined, body))
<1>1. IsSeq(InlineBlock(info.g[r], body))
  BY InlineBlockSeq
<1>2. IsSeq(LoopBlock(info.g[r], body))
  BY LoopBlockSeq
<1>3. IsSeq(RuleBlock(info.g[r], info.env[<<r>>], body))
  BY RuleBlockSeq
<1> QED BY <1>1, <1>2, <1>3 DEF RuleCode

\* What play has to know of the calls below.
Plays(play, g) ==
  \A p, inlined \in Seq(Nat) :
    Len(p) > 0 /\ IsNode(At(g, p)) => IsSeq(play[<<p, inlined>>])

LEMMA RecordCodeSeq ==
  ASSUME NEW info, IsGrammar(info.g), NEW p \in Seq(Nat), Len(p) > 0,
         IsNode(At(info.g, p)), NEW inlined \in Seq(Nat),
         NEW play, Plays(play, info.g)
  PROVE  IsSeq(RecordCode(info, p, inlined, play))
<1> DEFINE g == info.g
           node == At(g, p)
           kids == KidPaths(g, p)
           begun == IF node.kind = "rule" THEN Append(inlined, p[1]) ELSE inlined
           r == RuleNamed(g, node.name)
           target == IF r = 0 THEN <<>> ELSE play[<<<<r>>, inlined>>]
           body == Codes(play, kids, begun)
           reversed == Codes(play, Reverse(kids), begun)
<1>1. begun \in Seq(Nat)
  <2>1. p[1] \in Nat
    OBVIOUS
  <2> QED BY <2>1
<1>2. ToNodes(kids, g)
  BY KidPathsSeq
<1> HIDE DEF begun, kids, node
<1>3. \A i \in 1..Len(kids) : IsSeq(play[<<kids[i], begun>>])
  BY <1>1, <1>2 DEF Plays, ToNodes
<1>4. \A i \in 1..Len(Reverse(kids)) : IsSeq(play[<<Reverse(kids)[i], begun>>])
  BY <1>2, <1>3, Zenon DEF ToNodes
<1>5. IsSeq(body)
  BY <1>2, <1>3, CodesSeq DEF ToNodes
<1>6. IsSeq(reversed)
  BY <1>2, <1>4, CodesSeq DEF ToNodes
<1> HIDE DEF body, reversed
<1>7. CASE node.kind = "rule"
  <2>1. RecordCode(info, p, inlined, play) = RuleCode(info, p[1], inlined, body)
    BY <1>7, Zenon DEF RecordCode, body, kids, begun, node
  <2> QED BY <1>5, <2>1, RuleCodeSeq
<1>8. CASE node.kind = "ref"
  <2>1. IsSeq(target)
    <3>1. CASE r = 0
      BY <3>1, SeqNone
    <3>2. CASE r # 0
      <4>1. HasName(node)
        BY <1>8 DEF IsNode, node
      <4>2. r \in 1..Len(g) /\ g[r].kind = "rule"
        BY <3>2, <4>1, RuleNamedItem
      <4> HIDE DEF r
      <4>3. IsSeq(g)
        BY DEF IsGrammar
      <4>4. Len(g) \in Nat
        BY <4>3, SeqFacts
      <4>5. r \in Nat
        BY <4>2, <4>4
      <4>6. At(g, <<r>>) = g[r]
        BY <4>5, AtRule
      <4>7. IsNode(At(g, <<r>>))
        BY <4>2, <4>6, RulesAreNodes DEF IsGrammar
      <4>8. <<r>> \in Seq(Nat) /\ Len(<<r>>) > 0
        BY <4>5
      <4>9. IsSeq(play[<<<<r>>, inlined>>])
        BY <4>7, <4>8 DEF Plays
      <4> QED BY <3>2, <4>9
    <3> QED BY <3>1, <3>2
  <2> HIDE DEF target
  <2>2. RecordCode(info, p, inlined, play) = RefCode(info, p, inlined, target) \o BLES
    BY <1>8, Zenon DEF RecordCode, target, node
  <2>3. node.q \in Quantifiers
    BY DEF IsNode, node
  <2>4. IsSeq(RefCode(info, p, inlined, target))
    BY <2>1, <2>3, RefCodeSeq DEF node
  <2> QED BY <2>2, <2>4, PartsSeq, SeqJoin
<1>9. CASE node.kind \notin {"rule", "ref"}
  <2>1. RecordCode(info, p, inlined, play) = NodeCode(info, p, body, reversed)
    BY <1>9, Zenon DEF RecordCode, body, reversed, kids, begun, node
  <2> QED BY <1>5, <1>6, <1>9, <2>1, NodeCodeSeq DEF node
<1> QED BY <1>7, <1>8, <1>9

\* The code of a rule, or of any record in one, is a sequence of instructions.
LEMMA PlayedSeq ==
  ASSUME NEW info, IsGrammar(info.g), NEW path \in Seq(Nat), Len(path) > 0,
         IsNode(At(info.g, path))
  PROVE  IsSeq(Played(info, path))
<1> DEFINE n == MaxDepth * Len(info.g)
           S == Seq(Nat) \X Seq(Nat)
           Body(f, k) ==
             [call \in S |-> IF k = 0 THEN <<>>
                             ELSE RecordCode(info, call[1], call[2], f[k - 1])]
           P == {k \in 0..n : \E f : \A i \in 0..k : f[i] = Body(f, i)}
           chain == CHOOSE f : f = [k \in 0..n |-> Body(f, k)]
<1>1. n \in Nat
  <2>1. IsSeq(info.g)
    BY DEF IsGrammar
  <2>2. Len(info.g) \in Nat
    BY <2>1, SeqFacts
  <2> QED BY <2>2 DEF MaxDepth
<1>2. 0 \in P
  <2> DEFINE h == [k \in 0..0 |-> Body(<<>>, 0)]
  <2>1. \A k \in 0..0 : h[k] = Body(h, k)
    OBVIOUS
  <2> HIDE DEF h, Body
  <2>2. \E e : \A k \in 0..0 : e[k] = Body(e, k)
    BY <2>1, Zenon
  <2> QED BY <1>1, <2>2
<1>3. ASSUME NEW m \in 1..n, m - 1 \in P
      PROVE  m \in P
  <2>1. PICK f : \A k \in 0..(m - 1) : f[k] = Body(f, k)
    BY <1>3
  <2> HIDE DEF Body, n
  <2> DEFINE h == [k \in 0..m |-> IF k = m THEN Body(f, m) ELSE f[k]]
  <2>2. m \in Nat /\ m > 0 /\ \A k \in 0..(m - 1) : h[k] = f[k]
    BY <1>1
  <2>3. h[m] = Body(f, m)
    OBVIOUS
  <2> HIDE DEF h
  <2>4. ASSUME NEW k \in 0..m PROVE h[k] = Body(h, k)
    <3>1. CASE k = 0
      <4>1. 0 \in 0..(m - 1)
        BY <2>2
      <4> QED BY <2>1, <2>2, <3>1, <4>1 DEF Body
    <3>2. CASE k # 0
      <4>1. k - 1 \in 0..(m - 1)
        BY <2>2, <3>2
      <4>2. h[k - 1] = f[k - 1]
        BY <2>2, <4>1
      <4>3. h[k] = Body(f, k)
        <5>1. CASE k = m
          BY <2>3, <5>1
        <5>2. CASE k # m
          <6>1. k \in 0..(m - 1)
            BY <2>2, <5>2
          <6> QED BY <2>1, <2>2, <6>1
        <5> QED BY <5>1, <5>2
      <4> QED BY <3>2, <4>2, <4>3 DEF Body
    <3> QED BY <3>1, <3>2
  <2>5. \A k \in 0..m : h[k] = Body(h, k)
    BY <2>4
  <2>6. \E e : \A k \in 0..m : e[k] = Body(e, k)
    BY <2>5, Zenon
  <2> QED BY <2>6
<1>4. n \in P
  <2>1. P \in SUBSET (0..n)
    OBVIOUS
  <2> HIDE DEF P, n
  <2>2. P = 0..n
    BY <1>1, <1>2, <1>3, <2>1, HoldsUpto
  <2> QED BY <1>1, <2>2
<1>5. PICK f : \A k \in 0..n : f[k] = Body(f, k)
  BY <1>4
<1>6. chain = [k \in 0..n |-> Body(chain, k)]
  <2> DEFINE h == [k \in 0..n |-> f[k]]
  <2>1. \A k \in 0..n : h[k] = f[k]
    OBVIOUS
  <2>2. ASSUME NEW k \in 0..n PROVE h[k] = Body(h, k)
    <3>1. k # 0 => k - 1 \in 0..n
      BY <1>1
    <3> HIDE DEF h
    <3> QED BY <1>5, <2>1, <3>1
  <2>3. h = [k \in 0..n |-> Body(h, k)]
    <3>1. [k \in 0..n |-> Body(h, k)] = [k \in 0..n |-> h[k]]
      <4> HIDE DEF h
      <4> QED BY <2>2
    <3>2. [k \in 0..n |-> h[k]] = h
      OBVIOUS
    <3> QED BY <3>1, <3>2
  <2> HIDE DEF h
  <2> QED BY <2>3
<1>7. Played(info, path) = chain[n][<<path, <<>>>>]
  BY DEF Played
<1> HIDE DEF chain
<1>8. \A k \in 0..n : chain[k] = Body(chain, k)
  BY <1>6
<1> HIDE DEF n
<1> DEFINE Q == {k \in 0..n : Plays(chain[k], info.g)}
<1>9. 0 \in Q
  <2>1. ASSUME NEW p \in Seq(Nat), NEW inlined \in Seq(Nat)
        PROVE  IsSeq(chain[0][<<p, inlined>>])
    <3>1. 0 \in 0..n
      BY <1>1
    <3>2. <<p, inlined>> \in S
      OBVIOUS
    <3>3. chain[0][<<p, inlined>>] = <<>>
      BY <1>8, <3>1, <3>2
    <3> QED BY <3>3, SeqNone
  <2>2. Plays(chain[0], info.g)
    BY <2>1 DEF Plays
  <2> QED BY <1>1, <2>2
<1>10. ASSUME NEW k \in 1..n, k - 1 \in Q
       PROVE  k \in Q
  <2>1. Plays(chain[k - 1], info.g)
    BY <1>10
  <2>2. ASSUME NEW p \in Seq(Nat), NEW inlined \in Seq(Nat), Len(p) > 0,
               IsNode(At(info.g, p))
        PROVE  IsSeq(chain[k][<<p, inlined>>])
    <3>1. k \in 0..n /\ k # 0
      BY <1>1
    <3>2. <<p, inlined>> \in S /\ <<p, inlined>>[1] = p /\ <<p, inlined>>[2] = inlined
      OBVIOUS
    <3>3. chain[k][<<p, inlined>>] = RecordCode(info, p, inlined, chain[k - 1])
      BY <1>8, <3>1, <3>2
    <3>4. IsSeq(RecordCode(info, p, inlined, chain[k - 1]))
      BY <2>1, <2>2, RecordCodeSeq
    <3> QED BY <3>3, <3>4
  <2>3. Plays(chain[k], info.g)
    BY <2>2 DEF Plays
  <2> QED BY <2>3
<1>11. Plays(chain[n], info.g)
  <2>1. Q \in SUBSET (0..n)
    OBVIOUS
  <2> HIDE DEF Q
  <2>2. Q = 0..n
    BY <1>1, <1>9, <1>10, <2>1, HoldsUpto
  <2>3. n \in Q
    BY <1>1, <2>2
  <2> QED BY <2>3 DEF Q
<1>12. <<>> \in Seq(Nat)
  OBVIOUS
<1>13. IsSeq(chain[n][<<path, <<>>>>])
  BY <1>11, <1>12 DEF Plays
<1> QED BY <1>7, <1>13 DEF n

-----------------------------------------------------------------------------
(* Where code begins.                                                      *)
Stays(ins) == ins.to = "" /\ ins.op \notin {"CHECKCACHE", "SETCACHE"}

LEMMA EntryIns ==
  /\ Op("SHIFT", <<>>).op = "SHIFT" /\ Stays(Op("SHIFT", <<>>))
  /\ \A slots : /\ With("EXITONBITMAP", <<>>, slots).op # "BL"
                 /\ Stays(With("EXITONBITMAP", <<>>, slots))
  /\ Jump("BL", 3).op = "BL" /\ Jump("BL", 3).k = 3 /\ Stays(Jump("BL", 3))
BY Zenon DEF Op, With, Jump, Ins, Stays

\* The entry code of a rule at e: its call, at c, is the first one.
Starts(code, e, c) ==
  /\ c \in {e + 1, e + 2} /\ c + 2 <= Len(code)
  /\ code[e].op = "SHIFT"
  /\ code[c].op = "BL" /\ code[c].k = 3
  /\ \A i \in e..(c - 1) : code[i].op # "BL"
  /\ \A i \in e..c : Stays(code[i])

LEMMA EntryCodeStarts ==
  ASSUME NEW slots
  PROVE  /\ IsSeq(EntryCode(slots))
         /\ \E c : Starts(EntryCode(slots), 1, c) /\ Len(EntryCode(slots)) = c + 2
<1> DEFINE shift == Op("SHIFT", <<>>)
           exit == With("EXITONBITMAP", <<>>, slots)
           call == Jump("BL", 3)
           tail == Op("EMITTAIL", <<>>)
           ext == Op("EXT", <<>>)
           code == EntryCode(slots)
<1>1. /\ shift.op = "SHIFT" /\ Stays(shift)
      /\ exit.op # "BL" /\ Stays(exit)
      /\ call.op = "BL" /\ call.k = 3 /\ Stays(call)
  BY EntryIns
<1>2. code = <<shift>> \o (IF slots = {} THEN <<>> ELSE <<exit>>) \o <<call, tail, ext>>
  BY DEF EntryCode
<1> HIDE DEF shift, exit, call, tail, ext, code
<1> DEFINE head == <<shift>> \o (IF slots = {} THEN <<>> ELSE <<exit>>)
           rest == <<call, tail, ext>>
<1>3. IsSeq(rest) /\ Len(rest) = 3 /\ rest[1] = call
  BY SeqTuples
<1>4. CASE slots = {}
  <2>1. IsSeq(head) /\ Len(head) = 1 /\ head[1] = shift
    <3>1. IsSeq(<<shift>>) /\ IsSeq(<<>>)
      BY SeqTuples, SeqNone
    <3>2. head = <<shift>> \o <<>>
      BY <1>4
    <3> HIDE DEF head
    <3> QED BY <3>1, <3>2, SeqJoined
  <2> HIDE DEF head, rest
  <2>2. IsSeq(head \o rest) /\ Len(head \o rest) = Len(head) + Len(rest)
    BY <1>3, <2>1, SeqJoined
  <2>3. (head \o rest)[1] = shift /\ (head \o rest)[2] = call
    <3>0. IsSeq(head) /\ IsSeq(rest)
      BY <1>3, <2>1
    <3>1. \A i \in 1..Len(head) : (head \o rest)[i] = head[i]
      BY <3>0, SeqJoined
    <3>2. \A i \in 1..Len(rest) : (head \o rest)[Len(head) + i] = rest[i]
      BY <3>0, SeqJoined
    <3>3. (head \o rest)[1 + 1] = rest[1]
      BY <1>3, <2>1, <3>2
    <3> QED BY <1>3, <2>1, <3>1, <3>3
  <2>4. code = head \o rest
    BY <1>2, Zenon DEF head, rest
  <2>5. Len(code) = 4 /\ code[1] = shift /\ code[2] = call
    BY <1>3, <2>1, <2>2, <2>3, <2>4
  <2>6. Starts(code, 1, 2)
    <3>1. \A i \in 1..(2 - 1) : code[i].op # "BL"
      BY <1>1, <2>5
    <3>2. \A i \in 1..2 : Stays(code[i])
      BY <1>1, <2>5
    <3> QED BY <1>1, <2>5, <3>1, <3>2 DEF Starts
  <2> QED BY <2>2, <2>4, <2>5, <2>6 DEF code
<1>5. CASE slots # {}
  <2>1. IsSeq(head) /\ Len(head) = 2 /\ head[1] = shift /\ head[2] = exit
    <3>1. IsSeq(<<shift>>) /\ IsSeq(<<exit>>)
      BY SeqTuples
    <3>2. head = <<shift>> \o <<exit>>
      BY <1>5
    <3>3. Len(<<shift>>) = 1 /\ Len(<<exit>>) = 1 /\ <<shift>>[1] = shift /\ <<exit>>[1] = exit
      OBVIOUS
    <3> HIDE DEF head
    <3>4. \A i \in 1..Len(<<exit>>) : head[Len(<<shift>>) + i] = <<exit>>[i]
      BY <3>1, <3>2, SeqJoined
    <3>5. head[1 + 1] = exit
      BY <3>3, <3>4
    <3>6. \A i \in 1..Len(<<shift>>) : head[i] = <<shift>>[i]
      BY <3>1, <3>2, SeqJoined
    <3>7. IsSeq(head) /\ Len(head) = Len(<<shift>>) + Len(<<exit>>)
      BY <3>1, <3>2, SeqJoined
    <3> QED BY <3>3, <3>5, <3>6, <3>7
  <2> HIDE DEF head, rest
  <2>2. IsSeq(head \o rest) /\ Len(head \o rest) = Len(head) + Len(rest)
    BY <1>3, <2>1, SeqJoined
  <2>3. /\ (head \o rest)[1] = shift
        /\ (head \o rest)[2] = exit
        /\ (head \o rest)[3] = call
    <3>0. IsSeq(head) /\ IsSeq(rest)
      BY <1>3, <2>1
    <3>1. \A i \in 1..Len(head) : (head \o rest)[i] = head[i]
      BY <3>0, SeqJoined
    <3>2. \A i \in 1..Len(rest) : (head \o rest)[Len(head) + i] = rest[i]
      BY <3>0, SeqJoined
    <3>3. (head \o rest)[2 + 1] = rest[1]
      BY <1>3, <2>1, <3>2
    <3> QED BY <1>3, <2>1, <3>1, <3>3
  <2>4. code = head \o rest
    BY <1>2, Zenon DEF head, rest
  <2>5. Len(code) = 5 /\ code[1] = shift /\ code[2] = exit /\ code[3] = call
    BY <1>3, <2>1, <2>2, <2>3, <2>4
  <2>6. Starts(code, 1, 3)
    <3>1. \A i \in 1..(3 - 1) : code[i].op # "BL"
      BY <1>1, <2>5
    <3>2. \A i \in 1..3 : Stays(code[i])
      BY <1>1, <2>5
    <3> QED BY <1>1, <2>5, <3>1, <3>2 DEF Starts
  <2> QED BY <2>2, <2>4, <2>5, <2>6 DEF code
<1> QED BY <1>4, <1>5

\* Entry code stays what it is when other code is put after it or before it.
LEMMA StartsBefore ==
  ASSUME NEW code, NEW more, IsSeq(code), IsSeq(more),
         NEW e \in Nat, e > 0, NEW c, Starts(code, e, c)
  PROVE  Starts(code \o more, e, c)
<1> DEFINE joined == code \o more
<1>1. Len(code) \in Nat /\ Len(more) \in Nat
  BY SeqFacts
<1>2. Len(joined) = Len(code) + Len(more) /\ \A i \in 1..Len(code) : joined[i] = code[i]
  BY SeqJoined
<1> HIDE DEF joined
<1>3. c \in Nat /\ c \in {e + 1, e + 2} /\ c + 2 <= Len(code)
  BY DEF Starts
<1>4. \A i \in e..c : joined[i] = code[i]
  BY <1>1, <1>2, <1>3
<1>5. e \in e..c /\ c \in e..c /\ \A i \in e..(c - 1) : i \in e..c
  BY <1>3
<1>6. c + 2 <= Len(joined)
  BY <1>1, <1>2, <1>3
<1>7. \A i \in e..c : Stays(joined[i])
  BY <1>4 DEF Starts
<1>8. \A i \in e..(c - 1) : joined[i].op # "BL"
  BY <1>4, <1>5 DEF Starts
<1> QED BY <1>3, <1>4, <1>5, <1>6, <1>7, <1>8 DEF Starts, joined

LEMMA StartsAfter ==
  ASSUME NEW code, NEW entry, IsSeq(code), IsSeq(entry), NEW c, Starts(entry, 1, c)
  PROVE  Starts(code \o entry, Len(code) + 1, Len(code) + c)
<1> DEFINE joined == code \o entry
           n == Len(code)
<1>1. n \in Nat /\ Len(entry) \in Nat
  BY SeqFacts
<1>2. Len(joined) = n + Len(entry) /\ \A i \in 1..Len(entry) : joined[n + i] = entry[i]
  BY SeqJoined
<1> HIDE DEF joined, n
<1>3. c \in {2, 3} /\ c + 2 <= Len(entry)
  BY DEF Starts
<1>4. \A i \in 1..c : joined[n + i] = entry[i]
  BY <1>1, <1>2, <1>3
<1>5. joined[n + 1] = entry[1] /\ joined[n + c] = entry[c]
  BY <1>3, <1>4
<1>6. ASSUME NEW i \in (n + 1)..(n + c)
      PROVE  i - n \in 1..c /\ joined[i] = entry[i - n]
  <2>1. i - n \in 1..c /\ n + (i - n) = i
    BY <1>1, <1>3
  <2> QED BY <1>4, <2>1
<1>7. \A i \in (n + 1)..(n + c) : Stays(joined[i])
  BY <1>6 DEF Starts
<1>8. ASSUME NEW i \in (n + 1)..(n + c - 1)
      PROVE  joined[i].op # "BL"
  <2>1. i \in (n + 1)..(n + c) /\ i - n \in 1..(c - 1)
    BY <1>1, <1>3
  <2> QED BY <1>6, <2>1 DEF Starts
<1>9. n + c \in {(n + 1) + 1, (n + 1) + 2} /\ (n + c) + 2 <= Len(joined)
  BY <1>1, <1>2, <1>3
<1> QED BY <1>5, <1>7, <1>8, <1>9 DEF Starts, joined, n

-----------------------------------------------------------------------------
(* Code, the offsets into it and its labels, for the first n items of a     *)
(* grammar.                                                                  *)

\* The entry code of the rule r, with its call at c: before everything of the
\* rules after it, and just before what the name of the rule stands for, unless
\* one of those has the name too.
BeginsAt(g, code, entry, label, n, r, c) ==
  /\ Starts(code, entry[r], c)
  /\ \A s \in (r + 1)..n : c + 3 <= entry[s]
  /\ g[r].name \in DOMAIN label
  /\ (\A s \in (r + 1)..n : g[s].name # g[r].name) => label[g[r].name] = c + 3

Begins(g, code, entry, label, n, r) ==
  \E c : BeginsAt(g, code, entry, label, n, r, c)

Fits(g, code, entry, label, n) ==
  /\ IsSeq(code) /\ IsSeq(entry) /\ Len(entry) = n
  /\ \A r \in 1..n : entry[r] \in 1..(Len(code) + 1)
  /\ \A r \in 1..n : IsRule(g[r]) => Begins(g, code, entry, label, n, r)

\* A rule's code and entry code are put after the code there is.
LEMMA FitsRule ==
  ASSUME NEW g, NEW n \in Nat, n > 0, NEW obj0, NEW env0, NEW slots, NEW rule,
         NEW name, g[n].name = name, IsSeq(rule),
         Fits(g, obj0.code, obj0.entry, obj0.label, n - 1)
  PROVE  LET made == Appended(obj0, env0, EntryCode(slots), rule, name)
         IN  Fits(g, made.code, made.entry, made.label, n)
<1> DEFINE first == EntryCode(slots)
           size == Len(obj0.code)
           end == size + Len(first) + 1
           code == obj0.code \o first \o rule
           entry == Append(obj0.entry, size + 1)
           label == Labelled(obj0.label, name, end)
<1>1. /\ IsSeq(obj0.code) /\ IsSeq(obj0.entry) /\ Len(obj0.entry) = n - 1
      /\ \A r \in 1..(n - 1) : obj0.entry[r] \in 1..(size + 1)
  BY DEF Fits
<1>2. IsSeq(first)
  BY EntryCodeStarts
<1>3. PICK call : Starts(first, 1, call) /\ Len(first) = call + 2
  BY EntryCodeStarts
<1>4. call \in Nat /\ size \in Nat /\ Len(rule) \in Nat
  <2>1. call \in Nat
    BY <1>3 DEF Starts
  <2>2. size \in Nat /\ Len(rule) \in Nat
    BY <1>1, SeqFacts
  <2> QED BY <2>1, <2>2
<1>5. IsSeq(obj0.code \o first) /\ Len(obj0.code \o first) = size + Len(first)
  BY <1>1, <1>2, SeqJoined
<1>6. IsSeq(code) /\ Len(code) = size + Len(first) + Len(rule)
  BY <1>5, SeqJoined
<1>7. /\ IsSeq(entry) /\ Len(entry) = n
      /\ \A r \in 1..(n - 1) : entry[r] = obj0.entry[r]
      /\ entry[n] = size + 1
  <2> DEFINE place == size + 1
  <2> HIDE DEF size, place
  <2>1. /\ IsSeq(Append(obj0.entry, place))
        /\ Len(Append(obj0.entry, place)) = Len(obj0.entry) + 1
        /\ \A r \in 1..Len(obj0.entry) : Append(obj0.entry, place)[r] = obj0.entry[r]
        /\ Append(obj0.entry, place)[Len(obj0.entry) + 1] = place
    BY <1>1, SeqAppended
  <2> QED BY <1>1, <2>1 DEF place
<1>8. /\ DOMAIN label = DOMAIN obj0.label \union {name}
      /\ label[name] = end
      /\ \A m \in DOMAIN obj0.label : m # name => label[m] = obj0.label[m]
  BY DEF Labelled
<1>9. end = size + call + 3
  <2> HIDE DEF first, size
  <2>1. size \in Nat /\ call \in Nat /\ Len(first) = call + 2
    BY <1>3, <1>4
  <2> QED BY <2>1
<1> HIDE DEF first, end, size, code, entry, label
<1>10. \A r \in 1..n : entry[r] \in 1..(Len(code) + 1)
  <2>1. ASSUME NEW r \in 1..n PROVE entry[r] \in 1..(Len(code) + 1)
    <3>1. CASE r = n
      BY <1>3, <1>4, <1>6, <1>7, <3>1
    <3>2. CASE r # n
      <4>1. r \in 1..(n - 1)
        BY <3>2
      <4>2. entry[r] \in 1..(size + 1)
        BY <1>1, <1>7, <4>1
      <4> QED BY <1>3, <1>4, <1>6, <4>2
    <3> QED BY <3>1, <3>2
  <2> QED BY <2>1
<1>11. BeginsAt(g, code, entry, label, n, n, size + call)
  <2>1. Starts(obj0.code \o first, size + 1, size + call)
    BY <1>1, <1>2, <1>3, StartsAfter DEF size
  <2>2. size + 1 \in Nat /\ size + 1 > 0
    BY <1>4
  <2>3. Starts(code, size + 1, size + call)
    BY <1>5, <2>1, <2>2, StartsBefore DEF code
  <2>4. (n + 1)..n = {}
    OBVIOUS
  <2> QED BY <1>7, <1>8, <1>9, <2>3, <2>4 DEF BeginsAt
<1>12. ASSUME NEW r \in 1..(n - 1), IsRule(g[r])
       PROVE  Begins(g, code, entry, label, n, r)
  <2>1. PICK c : BeginsAt(g, obj0.code, obj0.entry, obj0.label, n - 1, r, c)
    BY <1>12 DEF Fits, Begins
  <2>2. Starts(obj0.code, entry[r], c) /\ entry[r] \in Nat /\ entry[r] > 0
    BY <1>1, <1>4, <1>7, <2>1 DEF BeginsAt
  <2>3. c \in Nat /\ c + 2 <= size
    BY <2>2 DEF Starts, size
  <2>4. Starts(code, entry[r], c)
    <3>1. Starts(obj0.code \o first, entry[r], c)
      BY <1>1, <1>2, <2>2, StartsBefore
    <3> QED BY <1>5, <2>2, <3>1, StartsBefore DEF code
  <2>5. \A s \in (r + 1)..n : c + 3 <= entry[s]
    <3>1. ASSUME NEW s \in (r + 1)..n PROVE c + 3 <= entry[s]
      <4>1. CASE s = n
        BY <1>4, <1>7, <2>3, <4>1
      <4>2. CASE s # n
        <5>1. s \in (r + 1)..(n - 1) /\ s \in 1..(n - 1)
          BY <4>2
        <5>2. c + 3 <= obj0.entry[s]
          BY <2>1, <5>1 DEF BeginsAt
        <5> QED BY <1>7, <5>1, <5>2
      <4> QED BY <4>1, <4>2
    <3> QED BY <3>1
  <2>6. g[r].name \in DOMAIN obj0.label
    BY <2>1 DEF BeginsAt
  <2>7. g[r].name \in DOMAIN label
    BY <1>8, <2>6
  <2>8. ASSUME \A s \in (r + 1)..n : g[s].name # g[r].name
        PROVE  label[g[r].name] = c + 3
    <3>1. n \in (r + 1)..n /\ \A s \in (r + 1)..(n - 1) : s \in (r + 1)..n
      OBVIOUS
    <3>2. name # g[r].name
      BY <2>8, <3>1
    <3>3. \A s \in (r + 1)..(n - 1) : g[s].name # g[r].name
      BY <2>8, <3>1
    <3>4. obj0.label[g[r].name] = c + 3
      BY <2>1, <3>3 DEF BeginsAt
    <3> QED BY <1>8, <2>6, <3>2, <3>4
  <2>9. BeginsAt(g, code, entry, label, n, r, c)
    BY <2>4, <2>5, <2>7, <2>8 DEF BeginsAt
  <2> QED BY <2>9 DEF Begins
<1>13. \A r \in 1..n : IsRule(g[r]) => Begins(g, code, entry, label, n, r)
  <2>1. ASSUME NEW r \in 1..n, IsRule(g[r])
        PROVE  Begins(g, code, entry, label, n, r)
    <3>1. CASE r = n
      BY <1>11, <3>1 DEF Begins
    <3>2. CASE r # n
      <4>1. r \in 1..(n - 1)
        BY <3>2
      <4> QED BY <1>12, <2>1, <4>1
    <3> QED BY <3>1, <3>2
  <2> QED BY <2>1
<1>14. Fits(g, code, entry, label, n)
  BY <1>6, <1>7, <1>10, <1>13 DEF Fits
<1>15. LET made == Appended(obj0, env0, EntryCode(slots), rule, name)
       IN  made.code = code /\ made.entry = entry /\ made.label = label
  BY DEF Appended, code, entry, label, first, size, end
<1> QED BY <1>14, <1>15

\* A directive has no code.
LEMMA FitsDirective ==
  ASSUME NEW g, NEW n \in Nat, n > 0, ~IsRule(g[n]), NEW code, NEW entry, NEW label,
         Fits(g, code, entry, label, n - 1)
  PROVE  Fits(g, code, Append(entry, Len(code) + 1), label, n)
<1> DEFINE size == Len(code)
           more == Append(entry, size + 1)
<1>1. /\ IsSeq(code) /\ IsSeq(entry) /\ Len(entry) = n - 1
      /\ \A r \in 1..(n - 1) : entry[r] \in 1..(size + 1)
  BY DEF Fits
<1>2. size \in Nat
  BY <1>1, SeqFacts
<1>3. /\ IsSeq(more) /\ Len(more) = n
      /\ \A r \in 1..(n - 1) : more[r] = entry[r]
      /\ more[n] = size + 1
  <2> DEFINE place == size + 1
  <2> HIDE DEF size, place
  <2>1. /\ IsSeq(Append(entry, place))
        /\ Len(Append(entry, place)) = Len(entry) + 1
        /\ \A r \in 1..Len(entry) : Append(entry, place)[r] = entry[r]
        /\ Append(entry, place)[Len(entry) + 1] = place
    BY <1>1, SeqAppended
  <2> QED BY <1>1, <2>1 DEF place
<1> HIDE DEF size, more
<1>4. \A r \in 1..n : r = n \/ r \in 1..(n - 1)
  OBVIOUS
<1>5. \A r \in 1..n : more[r] \in 1..(size + 1)
  BY <1>1, <1>2, <1>3, <1>4
<1>6. ASSUME NEW r \in 1..n, IsRule(g[r])
      PROVE  Begins(g, code, more, label, n, r)
  <2>1. r \in 1..(n - 1)
    BY <1>4, <1>6
  <2>2. PICK c : BeginsAt(g, code, entry, label, n - 1, r, c)
    BY <1>6, <2>1 DEF Fits, Begins
  <2>3. Starts(code, more[r], c)
    BY <1>3, <2>1, <2>2 DEF BeginsAt
  <2>4. c \in Nat /\ c + 2 <= size
    <3>1. more[r] \in Nat
      BY <1>5, <1>2
    <3> QED BY <2>3, <3>1 DEF Starts, size
  <2>5. ASSUME NEW s \in (r + 1)..n PROVE c + 3 <= more[s]
    <3>1. CASE s = n
      BY <1>2, <1>3, <2>4, <3>1
    <3>2. CASE s # n
      <4>1. s \in (r + 1)..(n - 1) /\ s \in 1..(n - 1)
        BY <3>2
      <4>2. c + 3 <= entry[s]
        BY <2>2, <4>1 DEF BeginsAt
      <4> QED BY <1>3, <4>1, <4>2
    <3> QED BY <3>1, <3>2
  <2>6. ASSUME \A s \in (r + 1)..n : g[s].name # g[r].name
        PROVE  label[g[r].name] = c + 3
    <3>1. \A s \in (r + 1)..(n - 1) : s \in (r + 1)..n
      OBVIOUS
    <3>2. \A s \in (r + 1)..(n - 1) : g[s].name # g[r].name
      BY <2>6, <3>1
    <3> QED BY <2>2, <3>2 DEF BeginsAt
  <2>7. g[r].name \in DOMAIN label
    BY <2>2 DEF BeginsAt
  <2>8. BeginsAt(g, code, more, label, n, r, c)
    BY <2>3, <2>5, <2>6, <2>7 DEF BeginsAt
  <2> QED BY <2>8 DEF Begins
<1>7. Fits(g, code, more, label, n)
  BY <1>1, <1>3, <1>5, <1>6 DEF Fits, size
<1> QED BY <1>7 DEF more, size

\* Linking leaves the entry code alone.
LEMMA FitsLinked ==
  ASSUME NEW g, NEW n \in Nat, NEW obj0, {"code", "entry", "label"} \subseteq DOMAIN obj0,
         Fits(g, obj0.code, obj0.entry, obj0.label, n)
  PROVE  Fits(g, Link(obj0).code, obj0.entry, Link(obj0).label, n)
<1> DEFINE code == obj0.code
           size == Len(code)
           linked(i) ==
             LET ins == code[i]
             IN  CASE ins.to # "" ->
                        [ins EXCEPT !.k = obj0.label[ins.to] - i, !.to = ""]
                   [] ins.to = "" /\ ins.op \in {"CHECKCACHE", "SETCACHE"} ->
                        [ins EXCEPT !.k = obj0.label[ins.arg]]
                   [] OTHER -> ins
           all == [i \in DOMAIN code |-> linked(i)]
           made == SubSeq(all, 1, size)
<1>1. IsSeq(code) /\ size \in Nat /\ DOMAIN code = 1..size
  <2>1. IsSeq(code)
    BY DEF Fits
  <2> QED BY <2>1, SeqFacts
<1>2. Link(obj0) = [obj0 EXCEPT !.code = made]
  BY Zenon DEF Link
<1>3. \A i : Stays(code[i]) => linked(i) = code[i]
  BY Zenon DEF Stays
<1> HIDE DEF linked
<1>4. IsSeq(all) /\ Len(all) = size /\ \A i \in 1..size : all[i] = linked(i)
  <2>1. DOMAIN all = 1..size /\ all = [i \in 1..size |-> all[i]] /\ \A i \in 1..size : all[i] = linked(i)
    BY <1>1
  <2> HIDE DEF all
  <2> QED BY <1>1, <2>1, SeqMade
<1> HIDE DEF all
<1>5. IsSeq(made) /\ Len(made) = size /\ \A i \in 1..size : made[i] = linked(i)
  <2>1. PICK S : all \in Seq(S)
    BY <1>4 DEF IsSeq
  <2>2. made \in Seq(S) /\ Len(made) = size /\ \A i \in 1..size : made[i] = all[i]
    BY <1>1, <1>4, <2>1
  <2> QED BY <1>4, <2>2 DEF IsSeq
<1> HIDE DEF made
<1>6. Link(obj0).code = made /\ Link(obj0).label = obj0.label
  BY <1>2
<1>7. ASSUME NEW e \in Nat, e > 0, NEW c, Starts(code, e, c)
      PROVE  Starts(made, e, c)
  <2>1. c \in {e + 1, e + 2} /\ c + 2 <= size
    BY <1>7 DEF Starts
  <2>2. \A i \in e..c : i \in 1..size
    BY <1>1, <1>7, <2>1
  <2>3. \A i \in e..c : Stays(code[i])
    BY <1>7 DEF Starts
  <2>4. \A i \in e..c : made[i] = code[i]
    BY <1>3, <1>5, <2>2, <2>3
  <2>5. e \in e..c /\ c \in e..c /\ \A i \in e..(c - 1) : i \in e..c
    BY <2>1
  <2>6. \A i \in e..c : Stays(made[i])
    BY <2>3, <2>4
  <2>7. \A i \in e..(c - 1) : made[i].op # "BL"
    BY <1>7, <2>4, <2>5 DEF Starts
  <2> QED BY <1>5, <1>7, <2>1, <2>4, <2>5, <2>6, <2>7 DEF Starts
<1>8. \A r \in 1..n : obj0.entry[r] \in 1..(Len(made) + 1)
  BY <1>5 DEF Fits
<1>9. ASSUME NEW r \in 1..n, IsRule(g[r])
      PROVE  Begins(g, made, obj0.entry, obj0.label, n, r)
  <2>1. PICK c : BeginsAt(g, code, obj0.entry, obj0.label, n, r, c)
    BY <1>9 DEF Fits, Begins
  <2>2. obj0.entry[r] \in Nat /\ obj0.entry[r] > 0
    BY <1>5, <1>8
  <2>3. Starts(made, obj0.entry[r], c)
    BY <1>7, <2>1, <2>2 DEF BeginsAt
  <2>4. BeginsAt(g, made, obj0.entry, obj0.label, n, r, c)
    BY <2>1, <2>3 DEF BeginsAt
  <2> QED BY <2>4 DEF Begins
<1>10. Fits(g, made, obj0.entry, obj0.label, n)
  BY <1>5, <1>8, <1>9 DEF Fits
<1> QED BY <1>6, <1>10

\* Preferences change nothing that the places of code depend on.
LEMMA PreferredGrammar ==
  ASSUME NEW g, IsGrammar(g), NEW prefs
  PROVE  /\ IsGrammar(Preferred(g, prefs))
         /\ Len(Preferred(g, prefs)) = Len(g)
         /\ \A r \in 1..Len(g) : /\ Preferred(g, prefs)[r].name = g[r].name
                                 /\ Preferred(g, prefs)[r].kind = g[r].kind
<1> DEFINE h == Preferred(g, prefs)
           n == Len(g)
<1>1. IsSeq(g) /\ n \in Nat /\ DOMAIN g = 1..n
  <2>1. IsSeq(g)
    BY DEF IsGrammar
  <2> QED BY <2>1, SeqFacts
<1>2. DOMAIN h = 1..n /\ h = [r \in 1..n |-> h[r]]
  BY <1>1 DEF Preferred
<1>3. ASSUME NEW r \in 1..n
      PROVE  /\ IsItem(h[r])
             /\ h[r].name = g[r].name /\ h[r].kind = g[r].kind
  <2>1. IsItem(g[r])
    BY DEF IsGrammar
  <2>2. \/ h[r] = g[r]
        \/ h[r] = [g[r] EXCEPT !.emit = prefs[g[r].name].emit,
                               !.abort = prefs[g[r].name].abort]
    BY <1>1 DEF Preferred
  <2>3. /\ DOMAIN h[r] = DOMAIN g[r]
        /\ h[r].kind = g[r].kind /\ h[r].q = g[r].q
        /\ h[r].kids = g[r].kids /\ h[r].name = g[r].name
    <3> HIDE DEF h
    <3> QED BY <2>1, <2>2 DEF IsItem
  <2>4. HasName(h[r]) <=> HasName(g[r])
    BY <2>3, Zenon DEF HasName
  <2> HIDE DEF h
  <2> QED BY <2>1, <2>3, <2>4 DEF IsItem
<1> HIDE DEF h
<1>4. IsSeq(h) /\ Len(h) = n
  BY <1>1, <1>2, SeqMade
<1> QED BY <1>3, <1>4 DEF IsGrammar, h

\* The code of one more rule.
LEMMA FitsCompiled ==
  ASSUME NEW g, IsGrammar(g), NEW h, IsGrammar(h), Len(h) = Len(g),
         NEW r \in 1..Len(g), IsRule(g[r]), h[r].name = g[r].name, h[r].kind = g[r].kind,
         NEW m, NEW bitmaps, NEW obj0,
         Fits(g, obj0.code, obj0.entry, obj0.label, r - 1)
  PROVE  LET made == CompileRule(h, m, bitmaps, obj0, r)
         IN  /\ DOMAIN made = {"code", "entry", "label", "env"}
             /\ Fits(g, made.code, made.entry, made.label, r)
<1> DEFINE made == CompileRule(h, m, bitmaps, obj0, r)
<1>1. Len(g) \in Nat
  <2>1. IsSeq(g)
    BY DEF IsGrammar
  <2> QED BY <2>1, SeqFacts
<1>2. r \in Nat /\ r > 0
  BY <1>1
<1>3. \E e : made = WithRule(h, m, obj0, e, r)
  BY Zenon DEF CompileRule
<1>4. PICK e : made = WithRule(h, m, obj0, e, r)
  BY <1>3
<1> DEFINE info == Info(h, m, e)
           played == Played(info, <<r>>)
<1>5. made = Appended(obj0, e, EntryCode(e[<<r>>]), played, h[r].name)
  BY <1>4, Zenon DEF WithRule
<1>6. info.g = h
  BY DEF Info
<1>7. IsSeq(played)
  <2> DEFINE p == <<r>>
  <2>1. p \in Seq(Nat) /\ Len(p) > 0
    BY <1>2
  <2>2. At(h, p) = h[r]
    BY <1>2, AtRule
  <2>3. IsNode(h[r])
    <3>1. IsItem(h[r]) /\ h[r].kind = "rule"
      BY DEF IsGrammar, IsRule
    <3> QED BY <3>1, RulesAreNodes
  <2> HIDE DEF p, info
  <2>4. IsSeq(Played(info, p))
    BY <1>6, <2>1, <2>2, <2>3, PlayedSeq
  <2> QED BY <2>4 DEF p
<1> HIDE DEF played, info
<1>8. DOMAIN made = {"code", "entry", "label", "env"}
  BY <1>5 DEF Appended
<1> HIDE DEF made
<1> DEFINE slots == e[<<r>>]
           name == h[r].name
<1>9. g[r].name = name /\ made = Appended(obj0, e, EntryCode(slots), played, name)
  BY <1>5
<1> HIDE DEF slots, name
<1>10. Fits(g, made.code, made.entry, made.label, r)
  BY <1>2, <1>7, <1>9, FitsRule
<1> QED BY <1>8, <1>10 DEF made

-----------------------------------------------------------------------------
(* One item after the other.                                               *)

NewMade(g, bitmaps) ==
  [failed |-> FALSE, prefs |-> NewPrefs(g), obj |-> NewObject(bitmaps)]

Makes(f, g, m, bitmaps) ==
  /\ f[0] = NewMade(g, bitmaps)
  /\ \A r \in 1..Len(g) : f[r] = CompileItem(g, m, f[r - 1], r)

LEMMA CompileUnfolds ==
  ASSUME NEW g, IsSeq(g), NEW marked, NEW bitmaps
  PROVE  \E f : CompileAll(g, marked, bitmaps) = f[Len(g)] /\ Makes(f, g, marked, bitmaps)
<1> DEFINE n == Len(g)
           Body(f, r) == IF r = 0 THEN NewMade(g, bitmaps)
                         ELSE CompileItem(g, marked, f[r - 1], r)
           P == {k \in 0..n : \E f : \A r \in 0..k : f[r] = Body(f, r)}
           chain == CHOOSE f : f = [r \in 0..n |-> Body(f, r)]
<1>1. n \in Nat
  BY SeqFacts
<1>2. 0 \in P
  <2> DEFINE h == [k \in 0..0 |-> Body(<<>>, 0)]
  <2>1. \A k \in 0..0 : h[k] = Body(h, k)
    OBVIOUS
  <2> HIDE DEF h, Body
  <2>2. \E e : \A k \in 0..0 : e[k] = Body(e, k)
    BY <2>1, Zenon
  <2> QED BY <1>1, <2>2
<1>3. ASSUME NEW m \in 1..n, m - 1 \in P
      PROVE  m \in P
  <2>1. PICK f : \A k \in 0..(m - 1) : f[k] = Body(f, k)
    BY <1>3
  <2> HIDE DEF Body, n
  <2> DEFINE h == [k \in 0..m |-> IF k = m THEN Body(f, m) ELSE f[k]]
  <2>2. m \in Nat /\ m > 0 /\ \A k \in 0..(m - 1) : h[k] = f[k]
    BY <1>1
  <2>3. h[m] = Body(f, m)
    OBVIOUS
  <2> HIDE DEF h
  <2>4. ASSUME NEW k \in 0..m PROVE h[k] = Body(h, k)
    <3>1. CASE k = 0
      <4>1. 0 \in 0..(m - 1)
        BY <2>2
      <4> QED BY <2>1, <2>2, <3>1, <4>1 DEF Body
    <3>2. CASE k # 0
      <4>1. k - 1 \in 0..(m - 1)
        BY <2>2, <3>2
      <4>2. h[k - 1] = f[k - 1]
        BY <2>2, <4>1
      <4>3. h[k] = Body(f, k)
        <5>1. CASE k = m
          BY <2>3, <5>1
        <5>2. CASE k # m
          <6>1. k \in 0..(m - 1)
            BY <2>2, <5>2
          <6> QED BY <2>1, <2>2, <6>1
        <5> QED BY <5>1, <5>2
      <4> QED BY <3>2, <4>2, <4>3 DEF Body
    <3> QED BY <3>1, <3>2
  <2>5. \A k \in 0..m : h[k] = Body(h, k)
    BY <2>4
  <2>6. \E e : \A k \in 0..m : e[k] = Body(e, k)
    BY <2>5, Zenon
  <2> QED BY <2>6
<1>4. n \in P
  <2>1. P \in SUBSET (0..n)
    OBVIOUS
  <2> HIDE DEF P, n
  <2>2. P = 0..n
    BY <1>1, <1>2, <1>3, <2>1, HoldsUpto
  <2> QED BY <1>1, <2>2
<1>5. PICK f : \A k \in 0..n : f[k] = Body(f, k)
  BY <1>4
<1>6. chain = [k \in 0..n |-> Body(chain, k)]
  <2> DEFINE h == [k \in 0..n |-> f[k]]
  <2>1. \A k \in 0..n : h[k] = f[k]
    OBVIOUS
  <2>2. ASSUME NEW k \in 0..n PROVE h[k] = Body(h, k)
    <3>1. k # 0 => k - 1 \in 0..n
      BY <1>1
    <3> HIDE DEF h
    <3> QED BY <1>5, <2>1, <3>1
  <2>3. h = [k \in 0..n |-> Body(h, k)]
    <3>1. [k \in 0..n |-> Body(h, k)] = [k \in 0..n |-> h[k]]
      <4> HIDE DEF h
      <4> QED BY <2>2
    <3>2. [k \in 0..n |-> h[k]] = h
      OBVIOUS
    <3> QED BY <3>1, <3>2
  <2> HIDE DEF h
  <2> QED BY <2>3
<1>7. CompileAll(g, marked, bitmaps) = chain[n]
  BY Zenon DEF CompileAll, NewMade
<1> HIDE DEF chain
<1>8. \A r \in 0..n : chain[r] = Body(chain, r)
  BY <1>6
<1>9. chain[0] = NewMade(g, bitmaps)
  <2>1. 0 \in 0..n
    BY <1>1
  <2> QED BY <1>8, <2>1
<1>10. ASSUME NEW r \in 1..n PROVE chain[r] = CompileItem(g, marked, chain[r - 1], r)
  <2>1. r \in 0..n /\ r # 0
    BY <1>1
  <2> QED BY <1>8, <2>1
<1>11. Makes(chain, g, marked, bitmaps)
  BY <1>9, <1>10 DEF Makes
<1> QED BY <1>7, <1>11

\* A directive that has lost its name, among the first n items.
Nameless(g, n) == \E r \in 1..n : ~IsRule(g[r]) /\ g[r].of = NoName

\* What the compiler has after n items: nothing more after one that failed.
Making(g, made, n) ==
  /\ DOMAIN made = {"failed", "prefs", "obj"}
  /\ DOMAIN made.obj = {"code", "entry", "label", "env"}
  /\ made.failed = Nameless(g, n)
  /\ ~made.failed => Fits(g, made.obj.code, made.obj.entry, made.obj.label, n)

LEMMA CompileItemMakes ==
  ASSUME NEW g, IsGrammar(g), NEW m, NEW r \in 1..Len(g), NEW made, Making(g, made, r - 1)
  PROVE  Making(g, CompileItem(g, m, made, r), r)
<1> DEFINE next == CompileItem(g, m, made, r)
<1>1. r \in Nat /\ r > 0 /\ \A s \in 1..r : s = r \/ s \in 1..(r - 1)
  <2>1. IsSeq(g)
    BY DEF IsGrammar
  <2>2. Len(g) \in Nat
    BY <2>1, SeqFacts
  <2> QED BY <2>2
<1>2. \A s \in 1..(r - 1) : s \in 1..r
  BY <1>1
<1>3. r \in 1..r
  BY <1>1
<1>4. CASE made.failed
  <2>1. next = made
    BY <1>4, Zenon DEF CompileItem
  <2>2. Nameless(g, r) /\ made.failed = TRUE
    BY <1>2, <1>4 DEF Nameless, Making
  <2> HIDE DEF next
  <2> QED BY <2>1, <2>2 DEF Making, next
<1>5. CASE ~made.failed /\ IsRule(g[r])
  <2> DEFINE h == Preferred(g, made.prefs)
             o == CompileRule(h, m, bitmap, made.obj, r)
  <2>1. next = [made EXCEPT !.obj = o]
    BY <1>5, Zenon DEF CompileItem
  <2>2. Fits(g, made.obj.code, made.obj.entry, made.obj.label, r - 1)
    BY <1>5 DEF Making
  <2>3. /\ IsGrammar(h) /\ Len(h) = Len(g)
        /\ h[r].name = g[r].name /\ h[r].kind = g[r].kind
    BY PreferredGrammar
  <2> HIDE DEF h
  <2>4. DOMAIN o = {"code", "entry", "label", "env"} /\ Fits(g, o.code, o.entry, o.label, r)
    BY <1>5, <2>2, <2>3, FitsCompiled
  <2> HIDE DEF o, next
  <2>5. /\ DOMAIN next = {"failed", "prefs", "obj"}
        /\ next.obj = o /\ next.failed = made.failed
    BY <2>1 DEF Making
  <2>6. ~Nameless(g, r) /\ made.failed = FALSE
    <3>1. ~Nameless(g, r - 1) /\ made.failed = FALSE
      BY <1>5 DEF Making, Nameless
    <3> QED BY <1>1, <1>5, <3>1 DEF Nameless
  <2>7. next.failed = Nameless(g, r)
    BY <2>5, <2>6 DEF Nameless
  <2> QED BY <2>4, <2>5, <2>7 DEF Making, next
<1>6. CASE ~made.failed /\ ~IsRule(g[r]) /\ g[r].of = NoName
  <2>1. next = [made EXCEPT !.failed = TRUE]
    BY <1>6, Zenon DEF CompileItem
  <2> HIDE DEF next
  <2>2. /\ DOMAIN next = {"failed", "prefs", "obj"}
        /\ next.obj = made.obj /\ next.failed = TRUE
    BY <2>1 DEF Making
  <2>3. Nameless(g, r) = TRUE
    BY <1>3, <1>6 DEF Nameless
  <2> QED BY <2>2, <2>3 DEF Making, next
<1>7. CASE ~made.failed /\ ~IsRule(g[r]) /\ g[r].of # NoName
  <2> DEFINE o == made.obj
             entry == Append(o.entry, Len(o.code) + 1)
  <2>1. next = [made EXCEPT !.prefs = Directed(made.prefs, g[r]), !.obj.entry = entry]
    BY <1>7, Zenon DEF CompileItem
  <2>2. Fits(g, o.code, o.entry, o.label, r - 1)
    BY <1>7 DEF Making
  <2>3. Fits(g, o.code, entry, o.label, r)
    BY <1>1, <1>7, <2>2, FitsDirective
  <2> DEFINE prefs == Directed(made.prefs, g[r])
  <2> HIDE DEF next, entry, prefs
  <2>4. /\ DOMAIN next = {"failed", "prefs", "obj"} /\ next.failed = made.failed
        /\ next.obj = [o EXCEPT !.entry = entry]
    BY <2>1 DEF Making, prefs
  <2>5. /\ DOMAIN next.obj = {"code", "entry", "label", "env"}
        /\ next.obj.code = o.code /\ next.obj.entry = entry /\ next.obj.label = o.label
    BY <2>4 DEF Making
  <2>6. ~Nameless(g, r) /\ made.failed = FALSE
    <3>1. ~Nameless(g, r - 1) /\ made.failed = FALSE
      BY <1>7 DEF Making, Nameless
    <3> QED BY <1>1, <1>7, <3>1 DEF Nameless
  <2>7. next.failed = Nameless(g, r)
    BY <2>4, <2>6 DEF Nameless
  <2>8. Fits(g, next.obj.code, next.obj.entry, next.obj.label, r)
    BY <2>3, <2>5
  <2> QED BY <2>4, <2>5, <2>7, <2>8 DEF Making, next
<1> QED BY <1>4, <1>5, <1>6, <1>7

\* Unless a directive has lost its name, there is code for every rule.
LEMMA CompileAllMakes ==
  ASSUME NEW g, IsGrammar(g), NEW m, NEW bitmaps
  PROVE  Making(g, CompileAll(g, m, bitmaps), Len(g))
<1> DEFINE n == Len(g)
<1>1. IsSeq(g)
  BY DEF IsGrammar
<1>2. n \in Nat
  BY <1>1, SeqFacts
<1>3. PICK f : CompileAll(g, m, bitmaps) = f[n] /\ Makes(f, g, m, bitmaps)
  BY <1>1, CompileUnfolds
<1> DEFINE P == {r \in 0..n : Making(g, f[r], r)}
<1>4. 0 \in P
  <2> DEFINE made == NewMade(g, bitmaps)
  <2>1. f[0] = made
    BY <1>3 DEF Makes
  <2>2. /\ DOMAIN made = {"failed", "prefs", "obj"} /\ made.failed = FALSE
        /\ DOMAIN made.obj = {"code", "entry", "label", "env"}
        /\ made.obj.code = <<>> /\ made.obj.entry = <<>>
    BY DEF NewMade, NewObject
  <2> HIDE DEF made
  <2>3. ~Nameless(g, 0)
    BY DEF Nameless
  <2>4. made.failed = Nameless(g, 0)
    BY <2>2, <2>3 DEF Nameless
  <2>5. Fits(g, made.obj.code, made.obj.entry, made.obj.label, 0)
    BY <2>2, SeqNone DEF Fits
  <2>6. Making(g, made, 0)
    BY <2>2, <2>4, <2>5 DEF Making
  <2> QED BY <1>2, <2>1, <2>6
<1>5. ASSUME NEW r \in 1..n, r - 1 \in P
      PROVE  r \in P
  <2>1. Making(g, f[r - 1], r - 1)
    BY <1>5
  <2>2. f[r] = CompileItem(g, m, f[r - 1], r)
    BY <1>3 DEF Makes
  <2>3. Making(g, f[r], r)
    BY <2>1, <2>2, CompileItemMakes
  <2>4. r \in 0..n
    BY <1>2
  <2> QED BY <2>3, <2>4
<1>6. n \in P
  <2>1. P \in SUBSET (0..n)
    OBVIOUS
  <2> HIDE DEF P, n
  <2>2. P = 0..n
    BY <1>2, <1>4, <1>5, <2>1, HoldsUpto
  <2> QED BY <1>2, <2>2
<1> QED BY <1>3, <1>6

-----------------------------------------------------------------------------
(* The database.                                                           *)

\* Code is offered only while the items it was made of are those of the
\* database: its entries and labels fit it, whatever was opened, loaded, closed
\* and compiled before, and no directive keeps it from being made again.  The
\* offsets are its entries for as long as the table of the rules is the one they
\* were put in.
IInv ==
  /\ opened \in BOOLEAN /\ compiled \in BOOLEAN
  /\ IsGrammar(items)
  /\ compiled => /\ ~opened
                 /\ ~Nameless(items, Len(items))
                 /\ Fits(items, obj.code, obj.entry, obj.label, Len(items))
                 /\ ~reclosed => offsets = obj.entry

LEMMA TextsAreGrammars ==
  ASSUME NEW text \in Texts, text # Garbled
  PROVE  IsGrammar(text)
<1> DEFINE I == {n \in Nodes : n.kind \in {"rule", "directive"}}
<1>1. text \in Seq(I)
  <2>1. text \in Texts \ {Garbled}
    OBVIOUS
  <2> QED BY <2>1, TextsAssumption
<1>2. IsSeq(text)
  BY <1>1 DEF IsSeq
<1>3. \A r \in 1..Len(text) : text[r] \in I
  BY <1>1
<1>4. ASSUME NEW r \in 1..Len(text) PROVE IsItem(text[r])
  <2> DEFINE n == text[r]
  <2>1. n \in Nodes /\ n.kind \in {"rule", "directive"}
    BY <1>3
  <2> HIDE DEF n
  <2>2. n.kind \notin NodeKinds
    BY <2>1 DEF NodeKinds
  <2>3. {"kind", "q", "kids", "name"} \subseteq DOMAIN n
    BY <2>1, TextsAssumption
  <2>4. n.q \in Quantifiers /\ n.kids \in Seq(Parts)
    BY <2>1, TextsAssumption DEF Quantifiers, Parts
  <2>5. HasName(n) <=> n.kind \in {"rule", "ref"}
    BY <2>1, TextsAssumption, Zenon DEF HasName
  <2>6. HasName(n) <=> n.kind = "rule"
    BY <2>1, <2>5
  <2> QED BY <2>1, <2>3, <2>4, <2>6 DEF IsItem, n
<1> QED BY <1>2, <1>4 DEF IsGrammar

LEMMA GrammarsJoin ==
  ASSUME NEW g, NEW h, IsGrammar(g), IsGrammar(h)
  PROVE  IsGrammar(g \o h)
<1> DEFINE n == Len(g)
           k == Len(h)
           both == g \o h
<1>1. IsSeq(g) /\ IsSeq(h)
  BY DEF IsGrammar
<1>2. n \in Nat /\ k \in Nat
  BY <1>1, SeqFacts
<1>3. /\ IsSeq(both) /\ Len(both) = n + k
      /\ \A i \in 1..n : both[i] = g[i]
      /\ \A i \in 1..k : both[n + i] = h[i]
  BY <1>1, SeqJoined
<1>4. (\A i \in 1..n : IsItem(g[i])) /\ (\A i \in 1..k : IsItem(h[i]))
  BY DEF IsGrammar
<1> HIDE DEF n, k, both
<1>5. ASSUME NEW r \in 1..(n + k) PROVE IsItem(both[r])
  <2>1. CASE r <= n
    <3>1. r \in 1..n
      BY <1>2, <2>1
    <3> QED BY <1>3, <1>4, <3>1
  <2>2. CASE ~(r <= n)
    <3>1. r - n \in 1..k /\ n + (r - n) = r
      BY <1>2, <2>2
    <3> QED BY <1>3, <1>4, <3>1
  <2> QED BY <2>1, <2>2
<1>6. IsGrammar(both)
  BY <1>3, <1>5 DEF IsGrammar
<1> QED BY <1>6 DEF both

\* Linking changes instructions only.
LEMMA LinkedEntry ==
  ASSUME NEW made, {"code", "entry", "label"} \subseteq DOMAIN made
  PROVE  Link(made).entry = made.entry
<1>1. PICK code : Link(made) = [made EXCEPT !.code = code]
  BY Zenon DEF Link
<1> QED BY <1>1

LEMMA InitInv == Init => IInv
<1> SUFFICES ASSUME Init PROVE IInv
  OBVIOUS
<1>1. opened = FALSE /\ compiled = FALSE /\ items = <<>>
  BY Zenon DEF Init
<1>2. IsGrammar(<<>>)
  BY SeqNone DEF IsGrammar
<1> QED BY <1>1, <1>2 DEF IInv

LEMMA LoadKeeps ==
  ASSUME IInv, NEW text \in Texts, Load(text)
  PROVE  IInv'
<1>1. UNCHANGED <<opened, offsets, compiled, obj, reclosed>>
  BY Zenon DEF Load
<1>2. CASE told' = "done"
  <2>1. opened /\ text # Garbled
    <3>1. told' = IF ~opened THEN "NOTOPEN"
                  ELSE IF text = Garbled THEN "SYNTAXERROR" ELSE "done"
      BY Zenon DEF Load
    <3> QED BY <1>2, <3>1
  <2>2. items' = items \o text
    BY <1>2, Zenon DEF Load
  <2>3. IsGrammar(items')
    BY <2>1, <2>2, TextsAreGrammars, GrammarsJoin DEF IInv
  <2>4. compiled = FALSE
    BY <2>1 DEF IInv
  <2> QED BY <1>1, <2>3, <2>4 DEF IInv
<1>3. CASE told' # "done"
  <2>1. UNCHANGED items
    BY <1>3, Zenon DEF Load
  <2> QED BY <1>1, <2>1 DEF IInv
<1> QED BY <1>2, <1>3

LEMMA CompileKeeps ==
  ASSUME IInv, Compile
  PROVE  IInv'
<1>1. UNCHANGED <<opened, items>>
  BY Zenon DEF Compile
<1>2. CASE opened
  <2>1. UNCHANGED <<offsets, compiled, obj, reclosed>>
    BY <1>2, Zenon DEF Compile
  <2> QED BY <1>1, <2>1 DEF IInv
<1>3. CASE ~opened
  <2> DEFINE all == CompileAll(items, marks, env)
             made == all.obj
             n == Len(items)
  <2>1. /\ offsets' = [r \in DOMAIN items |->
                         IF r \in DOMAIN made.entry THEN made.entry[r] ELSE offsets[r]]
        /\ told' = CASE all.failed -> "COMPILE"
                     [] ~all.failed /\ Named(made.code) \subseteq DOMAIN made.label -> "done"
                     [] OTHER -> "UNRESOLVEDSYMBOL"
        /\ obj' = IF told' = "done" THEN Link(made) ELSE made
        /\ compiled' = (compiled \/ told' = "done")
    BY <1>3, Zenon DEF Compile
  <2>2. Making(items, all, n)
    BY CompileAllMakes DEF IInv
  <2>3. IsSeq(items) /\ n \in Nat /\ DOMAIN items = 1..n
    <3>1. IsSeq(items)
      BY DEF IInv, IsGrammar
    <3> QED BY <3>1, SeqFacts
  <2> DEFINE code == made.code
  <2> HIDE DEF all
  <2>4. told' = "done" => ~all.failed
    <3>1. CASE all.failed
      <4>1. told' = "COMPILE"
        BY <2>1, <3>1
      <4> QED BY <4>1
    <3> QED BY <3>1
  <2>5. compiled' \in BOOLEAN
    BY <2>1 DEF IInv
  <2>6. ASSUME compiled' PROVE ~Nameless(items, n)
    <3>1. CASE compiled
      BY <3>1 DEF IInv
    <3>2. CASE ~compiled
      <4>1. told' = "done"
        BY <2>1, <2>6, <3>2
      <4> QED BY <2>2, <2>4, <4>1 DEF Making
    <3> QED BY <3>1, <3>2
  <2>7. ASSUME compiled'
        PROVE  /\ Fits(items, obj'.code, obj'.entry, obj'.label, n)
               /\ offsets' = obj'.entry
    <3>1. ~all.failed
      BY <2>2, <2>6, <2>7 DEF Making
    <3>2. /\ Fits(items, made.code, made.entry, made.label, n)
          /\ {"code", "entry", "label"} \subseteq DOMAIN made
      BY <2>2, <3>1 DEF Making
    <3>3. IsSeq(made.entry) /\ Len(made.entry) = n
      BY <3>2 DEF Fits
    <3>4. DOMAIN made.entry = 1..n /\ made.entry = [r \in 1..n |-> made.entry[r]]
      BY <3>3, SeqFacts
    <3> HIDE DEF made, n
    <3>5. offsets' = made.entry
      BY <2>1, <2>3, <3>4
    <3>6. CASE told' = "done"
      <4>1. obj' = Link(made)
        BY <2>1, <3>6
      <4>2. Fits(items, Link(made).code, made.entry, Link(made).label, n)
        BY <2>3, <3>2, FitsLinked
      <4>3. Link(made).entry = made.entry
        BY <3>2, LinkedEntry
      <4> QED BY <3>5, <4>1, <4>2, <4>3
    <3>7. CASE told' # "done"
      <4>1. obj' = made
        BY <2>1, <3>7
      <4> QED BY <3>2, <3>5, <4>1
    <3> QED BY <3>6, <3>7
  <2> HIDE DEF n
  <2>8. Len(items') = n /\ items' = items /\ opened' = opened
    BY <1>1 DEF n
  <2>9. opened' \in BOOLEAN /\ IsGrammar(items') /\ ~opened'
    BY <1>3, <2>8 DEF IInv
  <2> QED BY <2>5, <2>6, <2>7, <2>8, <2>9 DEF IInv
<1> QED BY <1>2, <1>3

LEMMA StepInv == IInv /\ [Next]_vars => IInv'
<1> SUFFICES ASSUME IInv, [Next]_vars PROVE IInv'
  OBVIOUS
<1>1. CASE Open
  <2>1. opened' = TRUE /\ compiled' = FALSE /\ items' = items
    BY <1>1, Zenon DEF Open
  <2> QED BY <2>1 DEF IInv
<1>2. ASSUME NEW text \in Texts, Load(text) PROVE IInv'
  BY <1>2, LoadKeeps
<1>3. CASE Close
  <2>1. /\ opened' = FALSE /\ reclosed' = compiled
        /\ UNCHANGED <<items, compiled, obj>>
    BY <1>3, Zenon DEF Close
  <2>2. compiled' => reclosed'
    BY <2>1
  <2>3. compiled' => /\ ~Nameless(items', Len(items'))
                     /\ Fits(items', obj'.code, obj'.entry, obj'.label, Len(items'))
    BY <2>1 DEF IInv
  <2>4. compiled' \in BOOLEAN /\ opened' \in BOOLEAN /\ ~opened' /\ IsGrammar(items')
    BY <2>1 DEF IInv
  <2> QED BY <2>2, <2>3, <2>4 DEF IInv
<1>4. CASE Compile
  BY <1>4, CompileKeeps
<1>5. CASE UNCHANGED vars
  <2>1. UNCHANGED <<opened, compiled, items, obj, offsets, reclosed>>
    BY <1>5, Zenon DEF vars
  <2> QED BY <2>1 DEF IInv
<1> QED BY <1>1, <1>2, <1>3, <1>4, <1>5, Zenon DEF Next

\* Where the program goes that starts with a rule's entry.
LEMMA EnteredIs ==
  ASSUME IInv, compiled, NEW r \in 1..Len(items), IsRule(items[r])
  PROVE  \E c : /\ BeginsAt(items, obj.code, obj.entry, obj.label, Len(items), r, c)
                /\ Entered(obj.entry[r]) = c + 3 /\ c \in Nat
                /\ obj.entry[r] \in Nat /\ obj.entry[r] > 0 /\ c + 2 <= Len(obj.code)
                /\ obj.entry[r] <= c
<1> DEFINE code == obj.code
           e == obj.entry[r]
           size == Len(code)
           Goes(i) == /\ code[i].op = "BL"
                      /\ \A j \in e..(i - 1) : code[j].op # "BL"
           call == CHOOSE i \in e..size : Goes(i)
<1>1. Fits(items, code, obj.entry, obj.label, Len(items))
  BY DEF IInv
<1>2. PICK c : BeginsAt(items, code, obj.entry, obj.label, Len(items), r, c)
  BY <1>1 DEF Fits, Begins
<1>3. size \in Nat
  <2>1. IsSeq(code)
    BY <1>1 DEF Fits
  <2> QED BY <2>1, SeqFacts
<1>4. e \in 1..(size + 1)
  BY <1>1 DEF Fits
<1>5. Starts(code, e, c)
  BY <1>2 DEF BeginsAt
<1>6. Entered(e) = call + code[call].k
  BY Zenon DEF Entered
<1> HIDE DEF e, size
<1>7. e \in Nat /\ e > 0
  BY <1>3, <1>4
<1>8. c \in {e + 1, e + 2} /\ c + 2 <= size
  BY <1>5 DEF Starts, size
<1>9. c \in e..size /\ c \in Nat
  BY <1>3, <1>7, <1>8
<1>10. Goes(c) /\ code[c].k = 3
  BY <1>5 DEF Starts
<1>11. ASSUME NEW i \in e..size, Goes(i) PROVE i = c
  <2>1. CASE i < c
    <3>1. i \in e..(c - 1)
      BY <1>7, <1>9, <2>1
    <3> QED BY <1>10, <1>11, <3>1
  <2>2. CASE c < i
    <3>1. c \in e..(i - 1)
      BY <1>7, <1>9, <2>2
    <3> QED BY <1>10, <1>11, <3>1
  <2> QED BY <1>3, <1>7, <1>9, <2>1, <2>2
<1> HIDE DEF Goes
<1>12. call = c
  BY <1>9, <1>10, <1>11
<1>13. Entered(e) = c + 3
  BY <1>6, <1>10, <1>12
<1> QED BY <1>2, <1>7, <1>8, <1>9, <1>13 DEF e, size

LEMMA OffersCurrentHolds == IInv => OffersUntilClosed
<1> SUFFICES ASSUME IInv, ~reclosed, Executable PROVE OffersCurrent
  BY Zenon DEF OffersUntilClosed, OffersCurrent
<1> DEFINE n == Len(items)
           rules == {r \in DOMAIN items : IsRule(items[r])}
<1>1. compiled /\ IsSeq(items)
  BY DEF Executable, IInv, IsGrammar
<1>2. DOMAIN items = 1..n /\ n \in Nat
  BY <1>1, SeqFacts
<1>3. Fits(items, obj.code, obj.entry, obj.label, n) /\ offsets = obj.entry
  BY <1>1 DEF IInv
<1>4. IsSeq(obj.code) /\ Len(offsets) = n
  BY <1>3 DEF Fits
<1>5. DOMAIN obj.code = 1..Len(obj.code) /\ Len(obj.code) \in Nat
  BY <1>4, SeqFacts
<1>6. ASSUME NEW r \in rules
      PROVE  offsets[r] \in DOMAIN obj.code /\ obj.code[offsets[r]].op = "SHIFT"
  <2>1. r \in 1..n /\ IsRule(items[r])
    BY <1>2
  <2>2. PICK c : /\ BeginsAt(items, obj.code, obj.entry, obj.label, n, r, c)
                 /\ c \in Nat /\ c + 2 <= Len(obj.code)
                 /\ obj.entry[r] \in Nat /\ obj.entry[r] > 0 /\ obj.entry[r] <= c
    BY <1>1, <2>1, EnteredIs
  <2>3. obj.entry[r] \in 1..Len(obj.code)
    BY <1>5, <2>2
  <2> QED BY <1>3, <1>5, <2>2, <2>3 DEF BeginsAt, Starts
<1>7. ASSUME NEW r \in rules, NEW s \in rules, r < s
      PROVE  Entered(offsets[r]) < Entered(offsets[s])
  <2>1. r \in 1..n /\ IsRule(items[r]) /\ s \in 1..n /\ IsRule(items[s])
    BY <1>2
  <2>2. PICK c : /\ BeginsAt(items, obj.code, obj.entry, obj.label, n, r, c)
                 /\ Entered(obj.entry[r]) = c + 3 /\ c \in Nat
    BY <1>1, <2>1, EnteredIs
  <2>3. PICK d : /\ Entered(obj.entry[s]) = d + 3 /\ d \in Nat
                 /\ obj.entry[s] \in Nat /\ obj.entry[s] <= d
    BY <1>1, <2>1, EnteredIs
  <2>4. s \in (r + 1)..n
    BY <1>2, <1>7, <2>1
  <2>5. c + 3 <= obj.entry[s]
    BY <2>2, <2>4 DEF BeginsAt
  <2> QED BY <1>3, <2>2, <2>3, <2>5
<1> HIDE DEF rules
<1> QED BY <1>4, <1>6, <1>7, Zenon DEF OffersCurrent, rules, n

LEMMA CallsLookedUpHolds == IInv => CallsLookedUp
<1> SUFFICES ASSUME IInv, Executable, NEW name \in RuleNames(items)
             PROVE  obj.label[name] = Entered(obj.entry[RuleNamed(items, name)])
  BY Zenon DEF CallsLookedUp
<1> DEFINE n == Len(items)
           r == RuleNamed(items, name)
<1>1. compiled /\ IsGrammar(items) /\ IsSeq(items)
  BY DEF Executable, IInv, IsGrammar
<1>2. DOMAIN items = 1..n /\ n \in Nat
  BY <1>1, SeqFacts
<1>3. PICK q \in 1..n : IsRule(items[q]) /\ items[q].name = name
  BY <1>2 DEF RuleNames
<1>4. HasName(items[q])
  BY <1>1, <1>3 DEF IsGrammar, IsItem, IsRule
<1>5. r \in 0..n
  BY <1>1, RuleNamedIs
<1>6. r # 0 => items[r].name = name
  BY <1>1, RuleNamedIs
<1>7. \A s \in 1..n : items[s].name = name => s <= r
  BY <1>1, RuleNamedIs
<1> HIDE DEF r
<1>8. r \in 1..n /\ items[r].name = name
  BY <1>2, <1>3, <1>5, <1>6, <1>7
<1>9. IsRule(items[r])
  <2>1. HasName(items[r])
    BY <1>3, <1>4, <1>8, Zenon DEF HasName
  <2>2. IsItem(items[r])
    BY <1>1, <1>8 DEF IsGrammar
  <2> QED BY <2>1, <2>2 DEF IsItem, IsRule
<1>10. PICK c : /\ BeginsAt(items, obj.code, obj.entry, obj.label, n, r, c)
                /\ Entered(obj.entry[r]) = c + 3
  BY <1>1, <1>8, <1>9, EnteredIs
<1>11. \A s \in (r + 1)..n : items[s].name # items[r].name
  <2>1. ASSUME NEW s \in (r + 1)..n, items[s].name = name PROVE FALSE
    <3>1. s \in 1..n /\ ~(s <= r)
      BY <1>2, <1>8
    <3> QED BY <1>7, <2>1, <3>1
  <2> QED BY <1>8, <2>1
<1>12. obj.label[items[r].name] = c + 3
  BY <1>10, <1>11 DEF BeginsAt
<1> QED BY <1>8, <1>10, <1>12 DEF r

\* rpa_dbex_executable and rpa_dbex_executableoffset: whenever there is code to
\* run, after opens, loads, closes and compiles in any order, it is that of the
\* items of the database, with an offset for each, and the offset of every rule
\* is that of its own entry code, in the order of the rules, unless the last call
\* that did something closed a database that was compiled.
THEOREM DbexOffersUntilClosed == Spec => []OffersUntilClosed
<1>1. Spec => []IInv
  BY InitInv, StepInv, PTL DEF Spec
<1>2. IInv => OffersUntilClosed
  BY OffersCurrentHolds
<1> QED BY <1>1, <1>2, PTL

\* rpa_dbex_lookup and the labels of the code generator agree, after opens,
\* loads, closes and compiles in any order, a close of a compiled database among
\* them: the code that a reference to a name calls is where the entry leads of
\* the rule a lookup of the name finds, the last of that name, however often it
\* was defined.
THEOREM DbexCallsLookedUp == Spec => []CallsLookedUp
<1>1. Spec => []IInv
  BY InitInv, StepInv, PTL DEF Spec
<1>2. IInv => CallsLookedUp
  BY CallsLookedUpHolds
<1> QED BY <1>1, <1>2, PTL
=============================================================================
