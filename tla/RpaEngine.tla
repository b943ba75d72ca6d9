------------------------------ MODULE RpaEngine -----------------------------
(***************************************************************************)
(* A parser (rpastat_t) at work: the calls of src/rpa/rpastat.c, and the   *)
(* virtual machine of src/rvm/rvmcpu.c running compiled grammars with the  *)
(* instructions that src/rpa/rpavm.c adds to it, one action per            *)
(* instruction.  The memo table is that of RpaCacheOps.                    *)
(*                                                                         *)
(* The input is a sequence of characters, decoded and shifted into the     *)
(* instack one by one; TOP is the index of the slot of the next character. *)
(* A slot holds the character of its index, or is the slot of the end of   *)
(* the input; the slots below serial have been filled.                     *)
(* What the machine keeps in registers is kept there: R0 the result, TOP   *)
(* the position, REC the last record, LOO the last match of the loop in    *)
(* progress, OTP the position a rule began at, LR the return address.      *)
(***************************************************************************)
EXTENDS RpaCompiler, RpaMeaning, RpaCacheOps

CONSTANTS
  Catalog,          \* grammars, each with the switches of its database and
                    \* the inputs it is tried on
  Kinds,            \* the calls that are made: parse, match, scan
  StackSize,        \* the stack of the machine, 4096 words by default
  MaxRuns,          \* bound: calls of one parser
  MaxAborts         \* bound: calls of rpa_stat_abort

VARIABLES
  db,               \* the compiled database, an index into Catalog
  call,             \* the arguments of the call in progress
  phase,            \* idle, init (the parser is set up), run (the machine is)
  abort, error,     \* of the machine
  err,              \* the error code of the parser
  ret,              \* what the last call returned, in characters
  runs, aborts,     \* the calls so far, and the writes of rpa_stat_abort
  touched,          \* the phases in which those of the last call came
  pc, reg, flags, stack, serial, records, cache

clientVars == <<db, call, runs>>
machine == <<pc, reg, flags, stack, serial, records, cache>>
vars == <<db, call, phase, abort, error, err, ret, runs, aborts, touched, machine>>

Program ==
  Table([d \in DOMAIN Catalog |->
           Compiled(Catalog[d].grammar, Catalog[d].bitmaps)])

Registers == {"R0", "R1", "R3", "TOP", "REC", "LOO", "OTP", "LR"}

NoCall == [kind |-> "match", rule |-> 0, input |-> <<>>, from |-> 0]

\* from is where in the input a call has got to: rpa_stat_scan tries one
\* character after the other.
Calls(d) ==
  [kind : Kinds, rule : DOMAIN Catalog[d].grammar, input : Catalog[d].inputs,
   from : {0}]

Recording == call.kind = "parse"
Scanning == call.kind = "scan"

Init ==
  /\ db \in DOMAIN Catalog
  /\ call = NoCall
  /\ phase = "idle"
  /\ abort = FALSE /\ error = FALSE
  /\ err = "none"
  /\ ret = 0 /\ runs = 0 /\ aborts = 0 /\ touched = <<>>
  /\ pc = 0 /\ reg = [r \in Registers |-> 0] /\ flags = {} /\ stack = <<>>
  /\ serial = 0 /\ records = <<>> /\ cache = NewCache

-----------------------------------------------------------------------------
(* The calls: rpa_stat_parse, which is given an empty array of records, and *)
(* rpa_stat_match and rpa_stat_scan, which are given none.                  *)

\* rpa_stat_exec up to the machine: rpa_stat_cacheinvalidate, rpa_stat_init.
Exec ==
  /\ phase' = "init"
  /\ err' = "none"
  /\ cache' = CacheInvalidate(cache)
  /\ reg' = [reg EXCEPT !.REC = IF Recording' THEN -1 ELSE 0,
                        !.LOO = 0, !.TOP = -1]
  /\ stack' = <<>>
  /\ serial' = 0
  /\ records' = <<>>
  /\ UNCHANGED <<db, abort, error, ret, aborts, pc, flags>>

\* A scan of nothing does nothing.
Call ==
  /\ phase = "idle"
  /\ runs < MaxRuns
  /\ call' \in Calls(db)
  /\ Scanning' => call'.input # <<>>
  /\ runs' = runs + 1
  /\ touched' = <<>>
  /\ Exec

\* Mutant: the machine is still stopped from the last call.
BadStartMachine ==
  /\ phase = "init"
  /\ phase' = "run"
  /\ error' = FALSE
  /\ pc' = Program[db].entry[call.rule]
  /\ UNCHANGED <<clientVars, abort, err, ret, aborts, touched, reg, flags, stack,
                 serial, records, cache>>

\* rvm_cpu_exec before its first instruction.
StartMachine ==
  /\ phase = "init"
  /\ phase' = "run"
  /\ abort' = FALSE /\ error' = FALSE
  /\ pc' = Program[db].entry[call.rule]
  /\ UNCHANGED <<clientVars, err, ret, aborts, touched, reg, flags, stack, serial,
                 records, cache>>

\* The machine looks at abort behind an instruction, never before the first.
AtFirst == pc = Program[db].entry[call.rule]
Stopped == phase = "run" /\ abort /\ ~AtFirst

\* What rpa_stat_exec returns.  The test of cpu->error for zero in it is that
\* of the code: an error of the machine leaves the error code as it is.
Executed == IF error THEN -1 ELSE IF reg.R0 > 0 THEN reg.R0 ELSE 0

\* To rpa_stat_scan a rule that aborts is a rule that does not match here.
Misses == Executed = 0 \/ (Executed < 0 /\ err = "RULEABORT")

\* Mutant: the last character is not tried.
BadHasMore == call.from + 2 < Len(call.input)

\* Whether the scan has characters left to start from.
HasMore == call.from + 1 < Len(call.input)

\* rpa_stat_scan, one character on.
ScanOn ==
  /\ Stopped /\ Scanning /\ Misses /\ HasMore
  /\ call' = [call EXCEPT !.from = @ + 1]
  /\ UNCHANGED <<runs, touched>>
  /\ Exec

\* The end of rpa_stat_scan and of rpa_stat_exec_rid.
Return ==
  /\ Stopped
  /\ (Scanning /\ Misses) => ~HasMore
  /\ phase' = "idle"
  /\ ret' = IF Scanning /\ Misses THEN 0 ELSE Executed
  /\ records' = IF ret' > 0 THEN Normalized(records) ELSE records
  /\ UNCHANGED <<clientVars, abort, error, err, aborts, touched, pc, reg, flags,
                 stack, serial, cache>>

\* rpa_stat_abort, from another thread than the one in the call: three
\* writes, and whatever that one does between them.
Writes(n) ==
  /\ aborts % 3 = n
  /\ aborts' = aborts + 1
  /\ touched' = IF phase = "idle" THEN touched ELSE Append(touched, phase)
  /\ UNCHANGED <<clientVars, phase, ret, machine>>

UserAborts ==
  /\ phase # "idle"
  /\ aborts < 3 * MaxAborts
  /\ Writes(0)
  /\ err' = "USERABORT"
  /\ UNCHANGED <<abort, error>>

\* rvm_cpu_abort, called by it.
SetsError == Writes(1) /\ error' = TRUE /\ UNCHANGED <<abort, err>>
SetsAbort == Writes(2) /\ abort' = TRUE /\ UNCHANGED <<error, err>>

\* rpa_stat_cachedisable, between the calls.
SwitchCache ==
  /\ phase = "idle"
  /\ runs < MaxRuns
  /\ cache' = CacheDisable(cache, ~cache.disabled)
  /\ UNCHANGED <<clientVars, phase, abort, error, err, ret, aborts, touched, pc,
                 reg, flags, stack, serial, records>>

-----------------------------------------------------------------------------
(* The machine.  An instruction that does not say otherwise goes on to the *)
(* next one.                                                               *)

\* The next instruction, as long as the machine is not stopped.
Now == IF phase = "run" /\ ~Stopped THEN {Program[db].code[pc]} ELSE {}

Get(ins, i) == reg[ins.regs[i]]
Set(ins, v) == reg' = [reg EXCEPT ![ins.regs[1]] = v]

Sign(v) == CASE v < 0 -> {"N"} [] v = 0 -> {"Z"} [] v > 0 -> {}

OnNext == pc' = pc + 1
Same(v) == UNCHANGED <<clientVars, phase, err, ret, aborts, touched, v>>
Runs == UNCHANGED <<abort, error>>
Stops(e) == abort' = TRUE /\ error' = e

\* rvm_op_b, rvm_op_beq, rvm_op_bgre, rvm_op_bles.
Taken(op) ==
  \/ op = "B"
  \/ op = "BEQ" /\ "Z" \in flags
  \/ op = "BGRE" /\ flags = {}
  \/ op = "BLES" /\ "N" \in flags

Branches(ins) ==
  /\ ins.op \in {"B", "BEQ", "BGRE", "BLES"}
  /\ pc' = IF Taken(ins.op) THEN pc + ins.k ELSE pc + 1
  /\ Runs /\ Same(<<reg, flags, stack, serial, records, cache>>)

\* rvm_op_bl: the return address is the call's, and BX goes beyond it.
CallBlock(ins) ==
  /\ ins.op = "BL"
  /\ reg' = [reg EXCEPT !.LR = pc]
  /\ pc' = pc + ins.k
  /\ Runs /\ Same(<<flags, stack, serial, records, cache>>)

\* rvm_op_bx, rvm_op_bxles, rvm_op_bxneq.
LeaveBlock(ins) ==
  /\ ins.op \in {"BX", "BXLES", "BXNEQ"}
  /\ pc' = IF \/ ins.op = "BX"
              \/ ins.op = "BXLES" /\ "N" \in flags
              \/ ins.op = "BXNEQ" /\ "Z" \notin flags
           THEN reg.LR + 1 ELSE pc + 1
  /\ Runs /\ Same(<<reg, flags, stack, serial, records, cache>>)

\* rvm_op_mov, rvm_op_clr, rvm_op_add leave the flags alone.
Assigns(ins, v) ==
  /\ Set(ins, v)
  /\ OnNext /\ Runs /\ Same(<<flags, stack, serial, records, cache>>)

Mov(ins) == ins.op = "MOV" /\ Assigns(ins, Get(ins, 2))
Clr(ins) == ins.op = "CLR" /\ Assigns(ins, 0)
Add(ins) == ins.op = "ADD" /\ Assigns(ins, Get(ins, 2) + Get(ins, 3))

\* rvm_op_movs, rvm_op_subs, rvm_op_cmp set them.
SetsFlags(v) ==
  /\ flags' = Sign(v)
  /\ OnNext /\ Runs /\ Same(<<stack, serial, records, cache>>)

Movs(ins) ==
  LET v == IF Len(ins.regs) = 1 THEN ins.k ELSE Get(ins, 2)
  IN  ins.op = "MOVS" /\ Set(ins, v) /\ SetsFlags(v)

Subs(ins) ==
  LET v == Get(ins, 2) - Get(ins, 3)
  IN  ins.op = "SUBS" /\ Set(ins, v) /\ SetsFlags(v)

Cmp(ins) == ins.op = "CMP" /\ UNCHANGED reg /\ SetsFlags(Get(ins, 1) - ins.k)

\* rvm_op_push and rvm_op_pushm, which asks for room for all the registers.
\* Mutant: the stack is filled to the last word.
BadHasRoom(op) == Len(stack) + (IF op = "PUSH" THEN 1 ELSE 16) <= StackSize

HasRoom(op) == Len(stack) + (IF op = "PUSH" THEN 1 ELSE 16) < StackSize

Pushes(ins) ==
  /\ ins.op \in {"PUSH", "PUSHM"}
  /\ HasRoom(ins.op)
  /\ stack' = stack \o [i \in DOMAIN ins.regs |-> Get(ins, i)]
  /\ OnNext /\ Runs /\ Same(<<reg, flags, serial, records, cache>>)

PushFails(ins) ==
  /\ ins.op \in {"PUSH", "PUSHM"}
  /\ ~HasRoom(ins.op)
  /\ Stops(TRUE)
  /\ OnNext /\ Same(<<reg, flags, stack, serial, records, cache>>)

\* rvm_op_pop and rvm_op_popm.
Pops(ins) ==
  /\ ins.op \in {"POP", "POPM"}
  /\ LET base == Len(stack) - Len(ins.regs)
     IN  /\ reg' = [r \in Registers |->
                      IF r \in ToSet(ins.regs)
                      THEN stack[base + (CHOOSE i \in DOMAIN ins.regs :
                                           ins.regs[i] = r)]
                      ELSE reg[r]]
         /\ stack' = SubSeq(stack, 1, base)
  /\ OnNext /\ Runs /\ Same(<<flags, serial, records, cache>>)

\* Mutant: an error is forgotten at the end of the program.
BadExits(ins) ==
  /\ ins.op = "EXT"
  /\ Stops(FALSE)
  /\ OnNext /\ Same(<<reg, flags, stack, serial, records, cache>>)

\* rvm_op_exit.
Exits(ins) ==
  /\ ins.op = "EXT"
  /\ Stops(error)
  /\ OnNext /\ Same(<<reg, flags, stack, serial, records, cache>>)

-----------------------------------------------------------------------------
(* The instructions of rpavm.c.                                            *)
Length == Len(call.input) - call.from
Character(top) == call.input[call.from + top + 1]
AtEnd(top) == top >= Length

\* Mutant: a shift does not fill its last slot.
BadFilled(top) == Max({serial, Min({top, Length})})

\* rpa_stat_shift, from one slot on to another: the slots it has filled.
Filled(top) == Max({serial, Min({top + 1, Length})})

\* rpavm_swi_shift: to the first character.
Shifts(ins) ==
  /\ ins.op = "SHIFT"
  /\ reg' = [reg EXCEPT !.TOP = @ + 1]
  /\ serial' = Filled(reg.TOP + 1)
  /\ OnNext /\ Runs /\ Same(<<flags, stack, records, cache>>)

\* rpa_stat_matchbitmap.
InBitmap(bitmap) == ~AtEnd(reg.TOP) /\ BitSlot(Character(reg.TOP)) \in bitmap

\* rpavm_swi_matchbitmap and rpavm_swi_exitonbitmap.
TestsBitmap(ins) ==
  /\ ins.op \in {"MATCHBITMAP", "EXITONBITMAP"}
  /\ LET in == InBitmap(ins.arg)
     IN  /\ flags' = IF in THEN {} ELSE {"N"}
         /\ reg' = IF in THEN reg ELSE [reg EXCEPT !.R0 = -1]
         /\ IF ins.op = "EXITONBITMAP" /\ ~in THEN Stops(error) ELSE Runs
  /\ OnNext /\ Same(<<stack, serial, records, cache>>)

\* How many characters there are from TOP on that lie between lo and hi.
RunLength(lo, hi) ==
  CHOOSE n \in 0..(Length - reg.TOP) :
    /\ \A i \in 0..(n - 1) : Character(reg.TOP + i) \in lo..hi
    /\ ~AtEnd(reg.TOP + n) => Character(reg.TOP + n) \notin lo..hi

\* rpavm_swi_matchchr_..., _matchspchr_... and _matchrng_...: as many
\* characters as the quantifier takes.
Matches(ins) ==
  /\ ins.op = "MATCH"
  /\ LET run == RunLength(ins.arg.lo, ins.arg.hi)
         n == IF IsMultiple(ins.arg) THEN run ELSE Min({run, 1})
         r0 == IF n = 0 /\ ~IsOptional(ins.arg) THEN -1 ELSE n
     IN  /\ reg' = [reg EXCEPT !.R0 = r0, !.TOP = @ + n]
         /\ flags' = Sign(r0)
         /\ serial' = IF n > 0 THEN Filled(reg.TOP + n) ELSE serial
  /\ OnNext /\ Runs /\ Same(<<stack, records, cache>>)

\* r_array_replace at an index, r_array_setlength.
Put(s, i, rec) == IF i < Len(s) THEN [s EXCEPT ![i + 1] = rec] ELSE Append(s, rec)

Cut(s, n) == SubSeq(s, 1, n)

\* rpavm_swi_emitstart.
EmitsStart(ins) ==
  /\ ins.op = "EMITSTART"
  /\ IF Recording
     THEN /\ records' = Put(records, reg.REC + 1,
                            Record(Start, ins.arg.name, Get(ins, 1), 0,
                                   ins.arg.loop))
          /\ reg' = [reg EXCEPT !.REC = @ + 1]
     ELSE UNCHANGED <<records, reg>>
  /\ OnNext /\ Runs /\ Same(<<flags, stack, serial, cache>>)

\* rpavm_swi_emitend: R1 is the record before the START record.
EmitsEnd(ins) ==
  /\ ins.op = "EMITEND"
  /\ IF Recording
     THEN /\ records' = [Put(records, reg.REC + 1,
                             Record(End, ins.arg.name, Get(ins, 1),
                                    Get(ins, 2), ins.arg.loop))
                           EXCEPT ![reg.R1 + 2].size = Get(ins, 2)]
          /\ reg' = [reg EXCEPT !.REC = @ + 1]
     ELSE UNCHANGED <<records, reg>>
  /\ OnNext /\ Runs /\ Same(<<flags, stack, serial, cache>>)

\* rpavm_swi_emittail.
EmitsTail(ins) ==
  /\ ins.op = "EMITTAIL"
  /\ records' = IF Recording THEN Cut(records, reg.REC + 1) ELSE records
  /\ OnNext /\ Runs /\ Same(<<reg, flags, stack, serial, cache>>)

\* rpavm_swi_abort, of a rule that must not fail.
RuleAborts(ins) ==
  /\ ins.op = "ABORT"
  /\ records' = IF Recording THEN Cut(records, reg.REC + 1) ELSE records
  /\ err' = "RULEABORT"
  /\ Stops(TRUE)
  /\ OnNext
  /\ UNCHANGED <<clientVars, phase, ret, aborts, touched, reg, flags, stack,
                 serial, cache>>

\* rpavm_swi_checkcache.
ChecksCache(ins) ==
  /\ ins.op = "CHECKCACHE"
  /\ LET hit == CacheHit(cache, Get(ins, 1), ins.k)
         e == CacheEntry(cache, Get(ins, 1), ins.k)
         r0 == IF hit THEN e.ret ELSE 0
         replays == r0 > 0 /\ e.records # <<>>
         last == IF replays THEN Cut(records, reg.REC + 1) \o e.records
                 ELSE records
     IN  /\ records' = last
         /\ reg' = [reg EXCEPT !.R0 = r0,
                      !.REC = IF replays THEN Len(last) - 1 ELSE @,
                      !.TOP = IF r0 > 0 THEN @ + r0 ELSE @]
         /\ flags' = Sign(r0)
  /\ OnNext /\ Runs /\ Same(<<stack, serial, cache>>)

\* Mutant: the last record is left out.
BadEmitted(prev, last) == SubSeq(records, prev + 2, last)

\* The records behind prev, up to last.
Emitted(prev, last) == SubSeq(records, prev + 2, last + 1)

\* rpavm_swi_setcache.
SetsCache(ins) ==
  /\ ins.op = "SETCACHE"
  /\ LET kept == IF reg.R0 > 0
                 THEN Emitted(Get(ins, 1), Get(ins, 2))
                 ELSE <<>>
     IN  cache' = CacheSet(cache, reg.OTP, ins.k, reg.R0, kept)
  /\ OnNext /\ Runs /\ Same(<<reg, flags, stack, serial, records>>)

Step ==
  \E ins \in Now :
    \/ Branches(ins) \/ CallBlock(ins) \/ LeaveBlock(ins)
    \/ Mov(ins) \/ Clr(ins) \/ Add(ins) \/ Movs(ins) \/ Subs(ins) \/ Cmp(ins)
    \/ Pushes(ins) \/ PushFails(ins) \/ Pops(ins)
    \/ Exits(ins) \/ Shifts(ins) \/ TestsBitmap(ins) \/ Matches(ins)
    \/ EmitsStart(ins) \/ EmitsEnd(ins) \/ EmitsTail(ins) \/ RuleAborts(ins)
    \/ ChecksCache(ins) \/ SetsCache(ins)

Next ==
  \/ Call \/ StartMachine \/ ScanOn \/ Return \/ SwitchCache
  \/ UserAborts \/ SetsError \/ SetsAbort
  \/ Step

Spec == Init /\ [][Next]_vars
LiveSpec == Spec /\ WF_vars(StartMachine) /\ WF_vars(Step) /\ WF_vars(ScanOn)
              /\ WF_vars(Return)
-----------------------------------------------------------------------------
\* What every rule is meant to yield at every position of every input.
Questions ==
  UNION {UNION {{<<d, input, r, pos>> : r \in DOMAIN Catalog[d].grammar,
                                        pos \in 0..Len(input)} :
                  input \in Catalog[d].inputs} : d \in DOMAIN Catalog}

Reaching == Table([d \in DOMAIN Catalog |-> Reaches(Catalog[d].meant)])

Meanings ==
  Table([q \in Questions |->
           RuleMeaning(Catalog[q[1]].meant, Reaching[q[1]], q[2], q[3], q[4])])

Returned == phase = "idle" /\ runs > 0

\* A call has returned an answer, and was left alone by rpa_stat_abort.
Answered == Returned /\ ret >= 0 /\ touched = <<>>
Running == phase = "run"

MeantAt(r, pos) == Meanings[<<db, call.input, r, call.from + pos>>]
Meant == MeantAt(call.rule, 0)

\* The registers and the arrays hold what the C types and the array bounds
\* say: no jump leaves the code, the record register stays in the array.
TypeOK ==
  /\ phase \in {"idle", "init", "run"}
  /\ abort \in BOOLEAN /\ error \in BOOLEAN
  /\ err \in {"none", "RULEABORT", "USERABORT"}
  /\ ToSet(touched) \subseteq {"init", "run"} /\ Len(touched) <= aborts
  /\ Running => pc \in 1..(Len(Program[db].code) + 1)
  /\ reg \in [Registers -> Int]
  /\ flags \in {{}, {"N"}, {"Z"}}
  /\ Len(stack) < StackSize
  /\ serial \in 0..Length
  /\ Recording => reg.REC \in -1..(Len(records) - 1)

\* A call returns the size of the match the grammar gives, or 0
\* (rpastat.h): compiling, bitmaps, the class optimisation, the memo table
\* and the loops of left recursion change nothing.
ReturnsMeaning ==
  (Answered /\ ~Scanning) => ret = Max({0, Meant.n})

\* A scan finds the first match there is, and has a look everywhere before it
\* finds none, as long as no rule aborts.
ScansToFirst ==
  (Answered /\ Scanning /\ err = "none") =>
    /\ ret = Max({0, Meant.n})
    /\ \A p \in 1..call.from : MeantAt(call.rule, -p).n <= 0
    /\ ret = 0 => call.from + 1 = Len(call.input)

\* The records of a parse are those of the match: none of an alternative
\* that failed, each once, in order, the left recursive ones nested.
RecordsMeaning ==
  Answered => records = IF Recording THEN Meant.recs ELSE <<>>

\* What is in the memo table of this call is what the rule yields there,
\* in whatever context it was evaluated.
CacheMeaning ==
  Running =>
    \A b \in Buckets, r \in DOMAIN Catalog[db].grammar :
      LET e == cache.entry[b]
          v == MeantAt(r, e.top)
      IN  (e.serial = cache.serial /\ e.ruleid = Program[db].label[Catalog[db].grammar[r].name]) =>
            /\ e.ret = v.n
            /\ Recording =>
                 [i \in DOMAIN e.records |-> [e.records[i] EXCEPT !.loop = FALSE]]
                   = v.recs

\* A slot of the instack is read only when it has been filled: matching,
\* taking back a failed branch, replaying a memo and taking the last match
\* of a loop again never leave TOP on a slot of another input.
InputFilled ==
  (Running /\ reg.TOP >= 0) =>
    \/ reg.TOP < serial
    \/ reg.TOP = serial /\ serial = Length

\* The machine ends a program with the stack it began with, wherever the
\* rules failed.
StackEmptied == \A ins \in Now : ins.op = "EXT" => stack = <<>>

\* RPA_ABORT is reached only when the rule has failed.
AbortMeansFailure ==
  \A ins \in Now, r \in DOMAIN Catalog[db].grammar :
    (ins.op = "ABORT" /\ Catalog[db].grammar[r].name = ins.arg.name) =>
      MeantAt(r, reg.OTP).n < 0

\* rpa_stat_abort made while the machine runs aborts a parse or a match,
\* wherever its three writes fall between the instructions, the last one
\* included.  (An abort before the machine has started is forgotten.)
AbortHeeded ==
  (Returned /\ ~Scanning /\ touched = <<"run", "run", "run">>) => ret = -1

\* Every call returns.
CallsReturn == (phase # "idle") ~> (phase = "idle")
=============================================================================
