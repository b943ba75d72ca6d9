-------------------------- MODULE RpaEngineProofs ---------------------------
(***************************************************************************)
(* A proof about RpaEngine, for any grammars, inputs and compiled code, any*)
(* stack size and any number of calls and aborts: rpa_stat_abort that is   *)
(* made while the machine runs is heeded, wherever its three writes fall.  *)
(***************************************************************************)
EXTENDS RpaEngine, SequenceTheorems, TLAPS

\* Which of the three writes of rpa_stat_abort the k-th of this call is: 1 is
\* that of the error.
WriteKind(k) == (aborts - Len(touched) + k - 1) % 3

WritesCounted ==
  /\ phase \in {"idle", "init", "run"}
  /\ error \in BOOLEAN
  /\ touched \in Seq({"init", "run"})
  /\ aborts \in Nat /\ Len(touched) <= aborts

\* Until the machine runs no write can have come while it ran, and from then
\* on an error that was written stays: only the start of the machine clears
\* it, and a parse or a match starts the machine once.
ErrorKept ==
  ~Scanning =>
    /\ phase = "init" => \A k \in 1..Len(touched) : touched[k] = "init"
    /\ phase = "run" =>
         \A k \in 1..Len(touched) :
           touched[k] = "run" /\ WriteKind(k) = 1 => error = TRUE

AbortInv == WritesCounted /\ ErrorKept /\ AbortHeeded

-----------------------------------------------------------------------------
\* What every instruction does to what the invariant is about: an error may be
\* raised, and is never taken back.
Undisturbed ==
  /\ UNCHANGED <<call, phase, ret, runs, aborts, touched>>
  /\ error' = error \/ error' = TRUE

LEMMA StepUndisturbed == ASSUME Step PROVE Undisturbed
<1>1. PICK ins \in Now :
        \/ Branches(ins) \/ CallBlock(ins) \/ LeaveBlock(ins)
        \/ Mov(ins) \/ Clr(ins) \/ Add(ins) \/ Movs(ins) \/ Subs(ins) \/ Cmp(ins)
        \/ Pushes(ins) \/ PushFails(ins) \/ Pops(ins)
        \/ Exits(ins) \/ Shifts(ins) \/ TestsBitmap(ins) \/ Matches(ins)
        \/ EmitsStart(ins) \/ EmitsEnd(ins) \/ EmitsTail(ins) \/ RuleAborts(ins)
        \/ ChecksCache(ins) \/ SetsCache(ins)
  BY DEF Step
<1> USE DEF Undisturbed, clientVars
<1>2. CASE Branches(ins) \/ CallBlock(ins) \/ LeaveBlock(ins)
  BY <1>2 DEF Branches, CallBlock, LeaveBlock, Runs, Same
<1>3. CASE Mov(ins) \/ Clr(ins) \/ Add(ins)
  BY <1>3 DEF Mov, Clr, Add, Assigns, Runs, Same
<1>4. CASE Movs(ins) \/ Subs(ins) \/ Cmp(ins)
  BY <1>4 DEF Movs, Subs, Cmp, SetsFlags, Runs, Same
<1>5. CASE Pushes(ins) \/ PushFails(ins) \/ Pops(ins)
  BY <1>5 DEF Pushes, PushFails, Pops, Runs, Stops, Same
<1>6. CASE Exits(ins) \/ Shifts(ins) \/ Matches(ins)
  BY <1>6 DEF Exits, Shifts, Matches, Runs, Stops, Same
<1>7. CASE TestsBitmap(ins)
  BY <1>7 DEF TestsBitmap, Runs, Stops, Same
<1>8. CASE EmitsStart(ins) \/ EmitsEnd(ins) \/ EmitsTail(ins)
  BY <1>8 DEF EmitsStart, EmitsEnd, EmitsTail, Runs, Same
<1>9. CASE RuleAborts(ins)
  BY <1>9 DEF RuleAborts, Stops
<1>10. CASE ChecksCache(ins) \/ SetsCache(ins)
  BY <1>10 DEF ChecksCache, SetsCache, Runs, Same
<1> QED
  BY <1>1, <1>2, <1>3, <1>4, <1>5, <1>6, <1>7, <1>8, <1>9, <1>10

-----------------------------------------------------------------------------
LEMMA InitAbortInv == ASSUME Init PROVE AbortInv
<1>1. touched = <<>> /\ Len(touched) = 0
  BY DEF Init
<1>2. WritesCounted
  <2>1. error \in BOOLEAN
    BY DEF Init
  <2>2. touched \in Seq({"init", "run"})
    BY <1>1
  <2> QED BY <1>1, <2>1, <2>2 DEF Init, WritesCounted
<1>3. ErrorKept
  BY DEF Init, ErrorKept
<1>4. AbortHeeded
  BY DEF Init, AbortHeeded, Returned
<1> QED BY <1>2, <1>3, <1>4 DEF AbortInv

\* A call begins, or a scan goes on: no write has come in this call, or the call
\* is a scan.
LEMMA CallKeeps == ASSUME AbortInv, Call PROVE AbortInv'
<1>1. phase' = "init" /\ touched' = <<>> /\ error' = error /\ aborts' = aborts
  BY DEF Call, Exec
<1>2. Len(touched') = 0 /\ touched' \in Seq({"init", "run"})
  BY <1>1
<1>3. WritesCounted'
  BY <1>1, <1>2 DEF AbortInv, WritesCounted
<1>4. ErrorKept'
  BY <1>1, <1>2 DEF ErrorKept
<1>5. AbortHeeded'
  BY <1>1 DEF AbortHeeded, Returned
<1> QED BY <1>3, <1>4, <1>5 DEF AbortInv

LEMMA ScanOnKeeps == ASSUME AbortInv, ScanOn PROVE AbortInv'
<1>1. phase' = "init" /\ UNCHANGED <<touched, error, aborts>> /\ Scanning
  BY DEF ScanOn, Exec
<1>2. Scanning'
  <2>1. call'.kind = call.kind
    BY DEF ScanOn
  <2> QED BY <1>1, <2>1 DEF Scanning
<1>3. WritesCounted'
  BY <1>1 DEF AbortInv, WritesCounted
<1>4. ErrorKept' /\ AbortHeeded'
  BY <1>2 DEF ErrorKept, AbortHeeded
<1> QED BY <1>3, <1>4 DEF AbortInv

LEMMA StartMachineKeeps == ASSUME AbortInv, StartMachine PROVE AbortInv'
<1>1. /\ phase = "init" /\ phase' = "run" /\ error' = FALSE
      /\ UNCHANGED <<call, touched, aborts>>
  BY DEF StartMachine, clientVars
<1>2. WritesCounted'
  BY <1>1 DEF AbortInv, WritesCounted
<1>3. ErrorKept'
  BY <1>1 DEF AbortInv, ErrorKept, Scanning
<1>4. AbortHeeded'
  BY <1>1 DEF AbortHeeded, Returned
<1> QED BY <1>2, <1>3, <1>4 DEF AbortInv

\* Of three writes one after the other one is that of the error.
LEMMA ReturnKeeps == ASSUME AbortInv, Return PROVE AbortInv'
<1>1. /\ phase = "run" /\ phase' = "idle"
      /\ UNCHANGED <<call, touched, aborts, error>>
  BY DEF Return, Stopped, clientVars
<1>2. WritesCounted'
  BY <1>1 DEF AbortInv, WritesCounted
<1>3. ErrorKept'
  BY <1>1 DEF ErrorKept
<1>4. AbortHeeded'
  <2> SUFFICES ASSUME ~Scanning, touched = <<"run", "run", "run">>
               PROVE  ret' = -1
    BY <1>1 DEF AbortHeeded, Scanning
  <2>1. PICK k \in 1..3 : WriteKind(k) = 1
    <3>1. Len(touched) = 3 /\ aborts \in Nat
      BY DEF AbortInv, WritesCounted
    <3>2. \E k \in 1..3 : (aborts - 3 + k - 1) % 3 = 1
      BY <3>1
    <3> QED BY <3>1, <3>2 DEF WriteKind
  <2>2. touched[k] = "run" /\ k \in 1..Len(touched)
    <3>1. touched[1] = "run" /\ touched[2] = "run" /\ touched[3] = "run" /\ Len(touched) = 3
      OBVIOUS
    <3> QED BY <2>1, <3>1
  <2>3. error = TRUE
    BY <1>1, <2>1, <2>2 DEF AbortInv, ErrorKept
  <2> QED BY <2>3 DEF Return, Executed
<1> QED BY <1>2, <1>3, <1>4 DEF AbortInv

LEMMA SwitchCacheKeeps == ASSUME AbortInv, SwitchCache PROVE AbortInv'
<1>1. UNCHANGED <<call, phase, ret, runs, touched, aborts, error>>
  BY DEF SwitchCache, clientVars
<1> QED BY <1>1 DEF AbortInv, WritesCounted, ErrorKept, AbortHeeded, WriteKind,
                    Scanning, Returned

LEMMA StepKeeps == ASSUME AbortInv, Step PROVE AbortInv'
<1>1. Undisturbed
  BY StepUndisturbed
<1>2. WritesCounted'
  BY <1>1 DEF Undisturbed, AbortInv, WritesCounted
<1>3. ErrorKept'
  BY <1>1 DEF Undisturbed, AbortInv, ErrorKept, WriteKind, Scanning
<1>4. AbortHeeded'
  BY <1>1 DEF Undisturbed, AbortInv, AbortHeeded, Scanning, Returned
<1> QED BY <1>2, <1>3, <1>4 DEF AbortInv

\* A write of rpa_stat_abort, which is of the n-th kind.
LEMMA WriteKeeps ==
  ASSUME AbortInv, NEW n \in 0..2, Writes(n),
         error' = error \/ error' = TRUE, n = 1 => error' = TRUE
  PROVE  AbortInv'
<1>1. /\ aborts % 3 = n /\ aborts' = aborts + 1
      /\ UNCHANGED <<call, phase, ret, runs>>
      /\ touched' = IF phase = "idle" THEN touched ELSE Append(touched, phase)
  BY DEF Writes, clientVars
<1>2. WritesCounted
  BY DEF AbortInv
<1>5. error' \in BOOLEAN
  BY <1>2, Zenon DEF WritesCounted
<1>3. CASE phase = "idle"
  <2>1. touched' = touched
    BY <1>1, <1>3
  <2>2. WritesCounted'
    BY <1>1, <1>2, <1>3, <1>5, <2>1 DEF WritesCounted
  <2>3. ErrorKept' /\ AbortHeeded'
    BY <1>1, <1>3, <2>1 DEF AbortInv, ErrorKept, AbortHeeded, Scanning, Returned
  <2> QED BY <2>2, <2>3 DEF AbortInv
<1>4. CASE phase # "idle"
  <2>1. /\ touched' = Append(touched, phase) /\ phase \in {"init", "run"}
        /\ touched' \in Seq({"init", "run"}) /\ Len(touched') = Len(touched) + 1
        /\ \A k \in 1..Len(touched) : touched'[k] = touched[k]
        /\ touched'[Len(touched) + 1] = phase
    BY <1>1, <1>2, <1>4 DEF WritesCounted
  <2>2. WritesCounted'
    BY <1>1, <1>2, <1>5, <2>1 DEF WritesCounted
  <2>3. \A k \in Int : aborts' - Len(touched') + k - 1 = aborts - Len(touched) + k - 1
    <3>1. aborts' = aborts + 1 /\ Len(touched') = Len(touched) + 1
      BY <1>1, <2>1
    <3>2. aborts \in Int /\ Len(touched) \in Int
      BY <1>2 DEF WritesCounted
    <3> QED BY <3>1, <3>2
  <2>4. aborts' - Len(touched') + (Len(touched) + 1) - 1 = aborts
    BY <1>1, <1>2, <2>1 DEF WritesCounted
  <2>5. ErrorKept'
    <3> SUFFICES ASSUME ~Scanning
                 PROVE  /\ phase = "init" => \A k \in 1..Len(touched') : touched'[k] = "init"
                        /\ phase = "run" =>
                             \A k \in 1..Len(touched') :
                               /\ touched'[k] = "run"
                               /\ (aborts' - Len(touched') + k - 1) % 3 = 1
                               => error' = TRUE
      BY <1>1 DEF ErrorKept, Scanning, WriteKind
    <3>1. \A k \in 1..Len(touched') : k \in 1..Len(touched) \/ k = Len(touched) + 1
      BY <1>2, <2>1 DEF WritesCounted
    <3>2. phase = "init" => \A k \in 1..Len(touched') : touched'[k] = "init"
      BY <2>1, <3>1 DEF AbortInv, ErrorKept
    <3>3. ASSUME phase = "run", NEW k \in 1..Len(touched'),
                 touched'[k] = "run", (aborts' - Len(touched') + k - 1) % 3 = 1
          PROVE  error' = TRUE
      <4>1. CASE k \in 1..Len(touched)
        <5>1. touched[k] = "run" /\ WriteKind(k) = 1
          BY <2>1, <2>3, <3>3, <4>1 DEF WriteKind
        <5>2. error = TRUE
          BY <3>3, <4>1, <5>1 DEF AbortInv, ErrorKept
        <5> QED BY <5>2
      <4>2. CASE k = Len(touched) + 1
        BY <1>1, <2>4, <3>3, <4>2
      <4> QED BY <3>1, <4>1, <4>2
    <3> QED BY <3>2, <3>3
  <2>6. AbortHeeded'
    BY <1>1, <1>4 DEF AbortHeeded, Returned
  <2> QED BY <2>2, <2>5, <2>6 DEF AbortInv
<1> QED BY <1>3, <1>4

-----------------------------------------------------------------------------
\* An abort made while the machine runs is heeded (AbortHeeded): the call
\* returns -1, for any program and any interleaving of its instructions with
\* the three writes of rpa_stat_abort (src/rpa/rpastat.c, src/rvm/rvmcpu.c).
THEOREM AbortIsHeeded == Spec => []AbortHeeded
<1>1. Init => AbortInv
  BY InitAbortInv
<1>2. AbortInv /\ [Next]_vars => AbortInv'
  <2> SUFFICES ASSUME AbortInv, [Next]_vars PROVE AbortInv'
    OBVIOUS
  <2>1. CASE Call
    BY <2>1, CallKeeps
  <2>2. CASE StartMachine
    BY <2>2, StartMachineKeeps
  <2>3. CASE ScanOn
    BY <2>3, ScanOnKeeps
  <2>4. CASE Return
    BY <2>4, ReturnKeeps
  <2>5. CASE SwitchCache
    BY <2>5, SwitchCacheKeeps
  <2>6. CASE UserAborts
    <3>1. Writes(0) /\ error' = error
      BY <2>6 DEF UserAborts
    <3> QED BY <3>1, WriteKeeps
  <2>7. CASE SetsError
    <3>1. Writes(1) /\ error' = TRUE
      BY <2>7 DEF SetsError
    <3> QED BY <3>1, WriteKeeps
  <2>8. CASE SetsAbort
    <3>1. Writes(2) /\ error' = error
      BY <2>8 DEF SetsAbort
    <3> QED BY <3>1, WriteKeeps
  <2>9. CASE Step
    BY <2>9, StepKeeps
  <2>10. CASE UNCHANGED vars
    <3>1. UNCHANGED <<call, phase, ret, runs, touched, aborts, error>>
      BY <2>10 DEF vars
    <3> QED BY <3>1 DEF AbortInv, WritesCounted, ErrorKept, AbortHeeded, WriteKind,
                        Scanning, Returned
  <2> QED
    BY <2>1, <2>2, <2>3, <2>4, <2>5, <2>6, <2>7, <2>8, <2>9, <2>10 DEF Next
<1>3. AbortInv => AbortHeeded
  BY DEF AbortInv
<1> QED BY <1>1, <1>2, <1>3, PTL DEF Spec
=============================================================================
