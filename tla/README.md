# RPA in TLA+

RPA is a library for parsing: a grammar in a notation close to BNF is compiled
to instructions of a virtual machine, which a parser runs on an input. This
directory specifies the parts of it in which an error would be hard to see in
a test, checks the specifications with TLC, and proves what does not depend on
a small instance with TLAPS.

    tlc -config MCRpaEngine.cfg MCRpaEngine.tla     (a run; see "Runs")
    tlapm RpaCacheProofs.tla                        (the proofs of a module)

## The system

    grammar text --rpaparser--> records --rpadbex/rpacompiler/rpabitmap--> code
                                                                            |
    input --rpastat: instack--> rvmcpu + rpavm (memo table: rpacache) <-----+
                                     |
                                     +--> length of the match, records (rparecord)

| component | source | state | operations |
|---|---|---|---|
| grammar compiler | `rpa/rpadbex.c`, `rpacompiler.c` | rules by name, loop marks, labels, code | open, load, close, compile, executable, lookup |
| first-character bitmaps | `rpa/rpabitmap.c` | a set of 64 slots on each record of the grammar | built on demand, rule by rule |
| class optimisation | `rpa/rpaoptimization.c` | - | replaces an alternation on loading |
| grammar parser | `rpa/rpaparser.c` | - | a hand-written program for the same machine |
| parser | `rpa/rpastat.c` | instack, error code, records, the machine, the memo table | parse, match, scan, exec, abort, cachedisable |
| machine instructions | `rpa/rpavm.c` | registers, records | shift, match, bitmap tests, emit, checkcache, setcache, abort |
| virtual machine | `rvm/rvmcpu.c` | registers, flags, stack, abort and error | exec, abort, one handler per opcode |
| memo table | `rpa/rpacache.c` | 1024 buckets, a serial number | set, lookup, invalidate, disable |
| record trees | `rpa/rparecord.c` | an array of START and END records | navigation, copy, move, walk |
| code generation | `rvm/rvmcodegen.c`, `rvmcodemap.c`, `rvmrelocmap.c`, `rvmscope.c` | code, labels, relocations; scopes | add, redefine, relocate; push, pop, look up |
| containers | `rlib/r*array.c`, `rhash.c`, `rmap.c`, `rlist.c`, `rstring.c`, `rbuffer.c` | slots and lengths, buckets, lists of used and of free nodes | add, insert, move, look up, delete |
| reference count | `rlib/rref.c`, `rspinlock.c`, `ratomic.c` | count, lock | inc, dec, get |
| memory accounting | `rlib/rmem.c` | bytes allocated, maximum, lock, the size in front of each block | malloc, calloc, realloc, free, reset |
| characters | `rlib/rutf.c`, `rcharconv.c` | - | read, write |
| regular expressions | `rex/` | compiler with a stack of fragments; automata; a scan with a hash | add an expression, convert, run, match, scan |
| JSON | `rexjson/` | values; an array of records that the caller owns | read, write, walk |
| RPC | `rexjsonrpc/` | a tree of properties, a map of methods | call, add, navigate, get, set |
| tools, bindings | `rpagrep/`, `rexgrep/`, `rexcc/`, `phpext/` | options | - |

How they interact: the calls of a parser are synchronous, and one thread uses
a parser at a time, except that any thread may call `rpa_stat_abort` while
another one is in a call. Databases are read only once they are compiled. The
memo table belongs to a parser and outlives its calls; the array of records
belongs to the caller and is written by the machine. Reference counts, and the
counters of the debug allocator, are the only things meant to be shared by
threads. A regular expression becomes one of the accepting sub-states of an
automaton that several expressions share; `rexcc` writes such an automaton out
as C, and the JSON reader has one of these for its tokens. An RPC call is a
JSON value; a method may read or write the properties of the program.

What is hard about it, and what makes a component correct:

* *parser and machine*: a match is taken back whenever an alternative fails,
  characters, records and saved registers together; a left recursive rule is
  compiled to a loop that goes back into the middle of the rule; results are
  reused from a memo table in other contexts than the one they were computed
  in; bitmaps skip work. None of it may change what a grammar matches, or the
  records. Nothing of a call may be left to the next one.
* *memo table*: entries are overwritten by nested evaluations, and never
  cleared: they are told apart by a serial number.
* *compiler*: loop detection decides which references are left recursive.
* *database*: it is opened and closed many times; marks and bitmaps live in
  the records of the grammar and outlive each compilation, the tables do not.
* *grammar parser*: alternatives are ordered, and the first that consumes wins.
* *record trees*: positions are found by going forwards and backwards through
  sizes, and the edges of the array are near.
* *reference count*: it is destroyed by the last reference, with its own lock
  taken.
* *debug allocator*: a realloc is two critical sections with the C library's
  between them, and a reset of the maximum takes no lock.
* *containers*: growth, gaps, names that repeat and nodes that are used again.
* *words*: the carry is derived by comparing a result with its operands.
* *regular expressions*: the worklist of the subset construction grows while
  it is read, transitions are merged while they are walked, and a scan skips
  positions by a filter that is never cleared.
* *JSON and RPC*: two readers of one notation that must agree; errors at each
  step between a text and a property, of which the caller must be told.

## Modules

Part A, the memo table:

* `RpaCacheOps`: the functions of `rpacache.c`, as operators on a record
  (`entry` of each bucket, `serial`, `disabled`). The hash is a constant.
* `RpaMemo`: what a memo promises. It holds some of the results of this call,
  may forget any of them at any time, and answers with one it holds or not at
  all.
* `RpaCache`: the table as the machine uses it. An evaluation is begun by a
  miss (`CheckMiss`, rpavm_swi_checkcache) and ended by `SetCache`
  (rpavm_swi_setcache); those in progress nest, `open` is their stack. `Exec`
  begins a new call, whether the last one ended properly or by `Abort`.
* `RpaCacheProofs`: theorems.

Part B, from grammars to matches:

* `RpaGrammar`: a grammar as a tree of nodes, the class optimisation, and the
  loop detection of `rpadbex.c` (`LoopDetect`, `LoopPath`, `NonLoopPath`).
* `RpaBitmap`: the sets of first characters, one `CASE` per handler.
* `RpaCompiler`: a block of code for each `rpa_compiler_*_begin`/`_end` pair,
  and `NodeCode`, `RefCode`, `RuleCode` for the handlers of `rpadbex.c` that
  play the records of a grammar: `RecordCode` is the handler of a record, from
  the code of those it plays, and `Played` nests it to the depth there can be,
  the depth of a rule's records for each rule, since a rule that is being
  inlined is not inlined again. `Compiled(g, bitmaps)` is the code, where
  each rule is entered, and what is emitted for it.
* `RpaRecords`: records, the functions of `rparecord.c`, and
  `Normalized`, the nesting of the records of left recursion in `rpastat.c`.
* `RpaMeaning`: what a grammar means. It models no code. It is the reading of
  a grammar as a parsing expression grammar; left recursion grows a seed.
* `RpaEngine`: a parser. Its variables are those of rpastat_t and rvmcpu_t
  (`call`: the arguments; `phase`: outside a call, between rpa_stat_init and
  rvm_cpu_exec, in the machine). The calls are `Call`, `StartMachine`,
  `ScanOn`, `Return`; every instruction is an action; `UserAborts`,
  `SetsError`, `SetsAbort` are the three writes of rpa_stat_abort from another
  thread.
* `RpaExamples`: grammars. `MCRpaEngine`: the catalogs of grammars and inputs
  of the runs, one for each.
* `RpaEngineProofs`: a theorem.

The instructions are those of the machine, at its own grain, save for two
abstractions: `MATCH` stands for the twelve matching instructions, which differ
in the kind of character and the quantifier; and `serial` stands for the
contents of the instack, a slot below it holding the character of its index.
A position in the input is the index of a character, not of a byte. `pc`
is an index into the code, and a jump is relative, as in the code. `R0` is
what an instruction yields, `TOP` the position, `REC` the last record, `LOO`
the last match of the loop in progress, `OTP` where the rule began.

Part C, `RpaRecordTree`: an array of records built by START and END records
the way the machine does it, with the tree it stands for beside it.
`Navigates` is about the way through it, record by record, `ComesBack` among
other things about walks and moves. `RpaRecordTreeProofs` has the theorem.

Part D, what threads share:

* `RRefAtomic` is a counter that changes at once; `RRef` has each read and
  write of `r_ref_inc`, `r_ref_dec` and `r_ref_get` and of the spinlock as an
  action of a thread. The callers are the environment: a thread calls with a
  reference it holds (`owner`), and may give one away.
* `RMemDebug`: the debug allocator. `pc` is where a thread is: in a malloc,
  calloc, free or realloc before, inside or after a critical section, or in
  `r_debug_reset_maxmem`. `header` is the size in front of each block. `peak`
  and `overtaken` record what the maximum should be. Threads are
  interchangeable, and so are addresses; the run uses that symmetry.
* `RlibProofs` (for `RRef`; part F has more of it), `RMemDebugProofs`: theorems.

Part E, databases and the notation:

* `RpaDbex`: `Open`, `Load`, `Close`, `Compile` of a database, on top of
  `RpaCompiler`, each in any state: the code lets a database be closed that is
  closed and compiled, and `reclosed` remembers that it was. What is in the records (`items`, `marks`, `env`) outlives the
  cycles; `offsets` are those of the last table of rules and `obj` is the last
  compiler's. A compilation may fail at a rule or at an unresolved name. A text
  is a constant: `TextsAssumption` says what the parser lets through, that a
  text is rules and directives made of nodes of the kinds there are, and that
  rules and references are what has a name.
* `RpaDbexProofs`: the theorems about databases, and about the code of the
  compiler what they need.
* `RpaParser`: the hand-written program of `rpaparser.c`, production by
  production, as operators from a position in a text to the one behind the
  match and the records that are emitted; the loop of `bnf` as actions; and
  what `rpa_dbex_load` makes of the records.
* `RpaNotation`: how grammars are written down. It models no code: a grammar
  has many texts, which `RpaParser` must read as that grammar.

Part F, containers: `RArrays` (`rarray.c`, `rcarray.c`), `RHArray`
(`rhash.c`, `rharray.c`), `RMap` (`rmap.c`, `rlist.c`). The functions of an
array are operators on a record, and `RArrayUse` is a user of one: an action
for each call, and `elements`, what the user knows to be in the slots. A
harray and a map have an action for each call, too, and next to them a
sequence of what was put in. `RArrayProofs` has the theorem about arrays and
lemmas about every one of their functions, `RlibProofs` the theorems about
the two that use a hash.

Part G, machine words: `RvmAlu` has the flags after each arithmetic
instruction, the conditions of the branches, and `chain`, the numbers of
several words that a program is adding or subtracting.

Part H, regular expressions:

* `RexTransitions`: the lists of transitions (`rextransition.c`), in which
  ranges of characters are cut, put in order and merged.
* `RexCompiler`: `rexcompiler.c` and `rexfragment.c`. The compiler is a record
  that is passed on; a fragment is a start and the transitions that lead
  nowhere yet.
* `RexDfa`: the subset construction, the flat automaton, the simulators, and
  the scan with its filter. `RexMachine`: a user that adds expressions, builds
  the automata and feeds characters to all of them at once.
* `RexMeaning`: what expressions mean; models no code.

Part I, JSON and RPC:

* `RUtf`: UTF-8 and UTF-16, with the theorem in `RlibProofs`. `RexJson`, on
  tokens: the reader of streams and the writer of `rexjson++.cpp`; the reader of
  `rexjson.c`, into an array of bounded size, and the walk over it.
* `RexJsonTexts`: which texts mean which values, by size; models no code.
* `RpcServer`: properties (`Navigate`, `GetProp`, `SetProp`, `Enumerated`) and
  the server's dispatch (`Call`, `CallText`), for a program with four numbers
  in properties of every shape; and a client, with what it can conclude from
  the answers alone (`known`).

Part J, the generator of code:

* `RvmCode`: `rvmcodegen.c`, `rvmcodemap.c`, `rvmrelocmap.c` as operators on a
  record that is the generator. The two blocks of memory are the arrays of
  part F, with what a former program has left in them; a block that grows
  moves (`CodeAt`, `DataAt`), the worst that a reallocation may do.
* `RvmProgram`: a program that calls the generator in any order; `program` and
  `defs` are what it meant, and `held` is the number of its label without a
  name. `varstack` and `scopestack` are those of `rvmscope.c`, `frames` what
  the scopes were given. `RpaCompiler` has its own, simpler code and labels:
  the code of a grammar never moves between two relocations, since there is
  only one.
* `RvmProofs`: the theorems of parts G and J.

`MCStructures` puts parts C, E (the notation), F, G, I and J into one run: `kind`
says which of them a behaviour is about.

## Runs

| run | bounds | shows |
|---|---|---|
| `cache` | three keys in one bucket of the real hash, two calls, nesting of two, one record kept of at most two | the table is sound and implements `RpaMemo` |
| `engine` | thirteen grammars, all inputs of 2 to 4 characters and chosen longer ones, parse and match, two buckets | what is returned, the records, the memo table, the instack, the stack |
| `reuse` | three grammars, two calls each, parse and scan, inputs of up to 2, a stack of 12 words, one abort | nothing of a call reaches the next |
| `live` | four grammars, match and scan | every call returns |
| `ref` | three threads, three references | the count, the destruction, atomicity, the release of the lock |
| `mem` | three threads, two blocks, sizes 0 and 1, words of 2 bytes | the counters account for every block; the maximum is the maximum |
| `rex` | 11 000 expressions of up to five tokens, pairs of them, inputs of up to four of four characters, searches in all texts of up to four | three automata agree with the meaning; a scan finds the first match; a failed compilation leaves nothing |
| `structures` | see below | arrays, maps, record trees, generated code, scopes, the flags of words, the grammar notation, JSON, RPC |
| `dbex` | six texts, one of them garbled, three loaded in any order with closes and compilations anywhere in between | a database offers the code of what is in it, until it is closed once more |

The kinds of `structures`: maps, harrays and arrays under six calls, with
names a and b in one bucket and c in another, entries of a map with a value or
without; arrays of up to 5 elements; all forests of up to six branches (12
records) and every prefix of their construction; all programs of up to four
calls of the generator, and a relocation after them; the calls append, label,
refer in five ways, add data, clear and relocate, in new memory and in used
memory; up to four names in two scopes and the outermost; words of 3 bits with
all operands, in chains of four words; three grammars in nine layouts, without
a mistake and with each mistake in a bracket; all JSON texts of up to 9 tokens
over one scalar that is null, one number, two names (one with an escape) and
all containers, each text also with a token more or less; the values these
texts mean, their names as they are meant and as they are spelled, in all four
layouts; strings of up to four characters of seven kinds; the characters on
both sides of every limit of UTF-8 and UTF-16; and any sequence of calls to a
server, of some 170 that include malformed ones.

*Why the bounds are enough.* Three keys in one bucket have the same rule at
another position and another rule at the same position, all that a bucket can
confuse; two calls make one serial number old. The grammars are chosen so
that each block of the compiler, and each way it fails, is run: TLC's
coverage shows every instruction taken. Two buckets, with the parity of
position and rule as the hash, make nearly every evaluation collide with
one nested in it. An input of four characters takes a left recursive rule
three times round its loop, and the records of three turns are
the first that can be nested wrongly in the middle. The stack of 12 words
fails `PUSHM`, which asks for 16, at once and `PUSH` in the middle of a rule;
60 words are enough for all else. Six branches have all trees of depth three with
siblings on both sides. Three threads are one in the call, one waiting for
the lock and one with a reference to hand over; for the allocator, one in
between the two halves of a realloc, one that takes memory meanwhile, and one
that resets the maximum. Expressions of five tokens have a group with an
alternation in it; those that need more (counted groups, classes of four
items) are added by shape. Chunks of two elements put a boundary inside every
array of three; two buckets make two names collide and a third not. Three
loads are the first at which a rule refers to one loaded later and a third
text redefines either. Words of three bits have every combination of
signs, carries and edges; the theorems are for any width. JSON texts of nine
tokens have a member after a container that is a member, three levels deep;
the run gives the readers enough levels and records, too few of
either, and one level. Five calls of the generator are a reference, its label,
a relocation, something that makes the memory move, and another relocation.

*Deadlock* is not checked where a system stops by design: the calls of a
parser, the records of an array, the references of an object, the expressions
and characters of an automaton, the calls on a container, the texts loaded
are bounded. It is checked for `mem`, which never stops.

*Fairness.* `live` assumes that the machine runs (WF of each of its steps and
of the steps of the calls): it is a sequential program in its own thread.
Nothing is assumed of the callers. `ref` assumes that a thread in
`r_ref_inc` or `r_ref_dec` goes on; weak fairness per thread is what any
scheduler gives, and no thread is promised the lock: a spinlock is not fair,
and that a given thread gets it is not claimed. Nothing else needs fairness:
the other parts are called and return.

### What the code does otherwise

The runs `find...` each check one sentence of the documentation that the code
does not keep; TLC shows how.

| run | grammar or scenario | what happens |
|---|---|---|
| `findBracketed` | `A ::= ('x') <:A:> \| 'z'` on `xz` | loop detection takes a bracket for empty: no match |
| `findReopened` | `A ::= <:B:> \| 'y'` compiled, then `B ::= 'x'` loaded and all compiled again | A keeps the bitmap made without B, and turns `x` away |
| `findReclosed` | two texts loaded, close, compile, close | the second close makes a table of rules without offsets and leaves `compiled` set: the code is still offered, and every rule's offset is 0 |

More of the kind, without a run of its own. The passing runs leave these
inputs out, or their properties say what holds instead:

* The bitmap of `('x'?) 'y'` is that of `'x'` (no match on `y`); the records of
  `A ::= <:A:> '+' <:A:> | 'z'` do not nest; `A ::= <:A:> | 'z'` does not
  return on `z` from `rpa_stat_match`; a full machine stack yields -1 and no error code; and
  `rpa_recordtree_copy` copies from the beginning of the array.
* With bitmaps, an indirectly left recursive rule can miss a match, for the
  set of a rule is used while that of the other one is still being built
  (`A ::= <:B:> 'x' | 'y'`, `B ::= <:A:> 'z' | 'w'` on `wx`). The catalog
  compiles such grammars without bitmaps, with which they are right. Likewise
  `CompiledAfresh` is not about inlined rules with bitmaps.
* `rpa_stat_abort` is forgotten when it comes between rpa_stat_init and the
  start of rvm_cpu_exec, which clears `abort` and `error` (rvmcpu.c:1428), or
  between two tries of a scan. `AbortHeeded` is about the aborts that come
  while the machine runs.
* `r_debug_reset_maxmem` that is overtaken by an allocation stores an old
  maximum (`overtaken` in `PeakKept`).
* ADC of the two greatest words with a carry, and SBC of the greatest one with
  a borrow, give the wrong carry (`exact` in `ChainExact`); V of a subtraction
  is set where the difference fits (`SignKept`).
* `(a{2}){3}` is `a{4}`; a range with its ends exchanged is lost beside
  another item of its class; an escape behind `{0,0}` loses its backslash;
  `|` and `)` without anything in front take a fragment from an empty stack.
* The JSON reader of streams loses what it has read behind the longest token:
  `[1.]` is read as `[1]`, which the reader of buffers refuses. `\uXXXX` becomes
  the bytes of UTF-8 with the last one first. A string with a backslash is
  written so that it does not come back. A member's name is neither unescaped by
  that reader (`parse_name`, rexjson++.cpp:644) nor escaped by the writer
  (`write_stream_namevalue`, 493): `{"\n":1}` is read with a name of two
  characters where the string `"\n"` is read as one, and an object with a quote
  or a line feed in a name is written as a text that is not read back as that
  object. `JsonReads` compares the reader of streams with the members as they
  are spelled (`spelled` in `RexJsonTexts`) and the records of the other reader,
  which leaves names to its caller, with those as they are meant; `ComesBack` says that a
  value comes back if and only if every name in it may stand between quotes as
  it is, and is checked on names with a line feed, as such and spelled `\n`. `rexjson_parse_buffer` returns one
  less than the size of a container that ends the buffer, and sizes of nested
  ones may include a blank behind them (rexjson.h:85).
* `r_harray_taillookup_s` finds the first entry of a name, not the last as
  `r_harray_taillookup` does (`TailLookupS` in `NamesFound`).
* `r_map_add` without a value leaves in the entry what a deleted one had there
  (`stored` in `MapAdd`).
* A range of properties can be read without the right to, is written up to the
  first value that cannot be, and an index that is no number is 0.

## Proofs

The assumptions are those the modules declare (`ASSUME`), evaluated by the
runs: the hash maps every key to a bucket, rule numbers, positions and results
are integers, the references are a finite set, `Nobody` is not a thread, the texts
are what the parser lets through (`TextsAssumption`), the bound on the length
of an array is a number, instructions and words have a size, and no character
of a string is the zero that ends it. Two theorems state theirs themselves:
`HashesKeys` and `HashesNames`, that the hash of a key of a map or of a name of
a harray is one of the buckets; the code masks it with the number of buckets
(`r_map_hashmask`, `r_hash_create`). The sets themselves, the hash and the
numbers are arbitrary.

`RpaCacheProofs` proves `TypeOK`, `TableSound` and `MemoSpec`. `TableSound`
says that an entry with the current serial number holds a result that was
stored in this call for that very key; it is inductive together with two
facts: no entry has a serial number greater than the table's, so that the
increment in `CacheInvalidate` makes all of them old, and an evaluation's key
is determined by its place in `open`. The refinement maps the entries with the
current serial number to the memo's contents; a collision maps to forgetting.

`RlibProofs` proves `TypeOK`, `Counts`, `DestroyedUnused`, `LastDestroys`,
`SoleIsSole` and `AtomicSpec` of reference counts. The inductive invariant `IInv` adds to them
what holds between the actions:
that at most one thread is inside the lock (`Alone`), that what it has read is
still the count when it stores (`Steps`), and that a thread in a call has its
reference until it has stored. `Alone` alone is not inductive, for
the object is destroyed with the lock taken, and what keeps others out then is
that there are none: `DestroyedUnused`. The cardinality of the set of
references changes by one with each call: that is what the lemmas of
`FiniteSetTheorems` are for.

`RMemDebugProofs` proves `TypeOK`, `Accounted`, `PeakKept` and `CallocRoom`,
for any threads, addresses and sizes. The inductive invariant adds that a
block is in the hands of one thread at a time (`Own`), which knows its size,
and that the counter changes only under the lock. That the counters never
wrap round follows: what is taken off is the size of a block that is counted.
The sum of the sizes is the number of bytes, a set of pairs of block and
offset, so that one block more or less is a disjoint union.

`RvmProofs` proves `ChainExact` and `FlagsTell`, for words of any even
number of values. The lemmas about one word (`SumCarries`,
`DifferenceBorrows`, `ProductCarries`) say what comparing a result with its
operands tells; the chain is by induction over its words, where the carry in
front of a word is the one by which the words below it are off.

`RpaEngineProofs` proves `AbortHeeded`: in a parse or a match, the three writes
of an abort that come while the machine runs make the call return -1, wherever
between the instructions they fall. The reason is the write of the error:
`AbortInv` says which of the writes of this call wrote it (`WriteKind`, by
counting), and that from then on `error` stays, since no instruction takes an
error back and only the start of the machine clears it, before which, in a
parse or a match, no write that counts can have come. `StepUndisturbed` goes
through all the instructions for that, whatever the code is.

`RArrayProofs` proves `ArrayHolds`: an array has the elements its user put
into it, in order, those that were known before it grew or shrank included,
and those it grew by are zero. `ArrayHolds` is not
inductive, for a slot behind the length comes back when the length is set to
more: `ArrayInv` is about the memory (`Slot`), what is allocated and what is
not, and adds that the slots from `used` on, the greatest length there has
been, are zero. Each function has lemmas of its own: `r_array_insert` and
`r_array_delete` shift what is behind, `r_array_move` reads no slot it has
already written, whichever way the blocks overlap; a carray's chunks give each
index a slot of its own. The loops of the code are recursive functions on
numbers, of which the steps, and so what holds after each, are proved by the
induction of the natural numbers.

`RlibProofs` also proves `MapHolds`: the entries that a map enumerates, and those it
finds by key, are those that were added and not deleted, in order. `MapInv`
says where every node is: an entry's is in the list of active ones, in the
entries' order, and in the bucket of its key and no other (`ActiveListed`,
`BucketsTrue`, `BucketsFull`); of the rest none is marked as hashed
(`RestUnhashed`), and those in the list of inactive ones are there once
(`InactiveFree`), so that a node that is given out again was free. `BucketsOrdered`, that
the older entry is first in a bucket, is needed because names repeat, and the
first one wins. `NamesFound` is proved in the same way: `HashFits`
says that a bucket has the indices of the names that are hashed to it, each
once, in the order they were added, which a copy has to build anew. That a name
taken out of the hash is found no more is a second induction, over the turns of
the loop of `r_hash_remove`: each takes the first node of the name from its
bucket and keeps the order of the others (`Thinned`), and the bucket is longer
than the turns it takes.

`CharsComeBack`, also in `RlibProofs`, is the part of `ComesBack` that is about
`rutf.c`, for every character and whatever bytes follow (`CharComesBack`). `Cuts`
follows the switch of `r_utf8_wctomb` down to the first byte; `Code2` to `Code4`
say that the mark left in it announces as many bytes as were cut off, and that the
remainders put together again are the character. That some of the bytes are read
as the first one only (`SomeRead`) is because that byte announces more.

`RpaRecordTreeProofs` proves `Navigates`, for arrays of any length and in every
state of their construction. `TreeInv` says what the machine's way of emitting
records makes of them: START and END records are paired one to one, two
branches are either nested or apart, `open` has the branches that have not
ended, the outer ones first, and `parent` is the innermost branch that had not
ended. The functions of `rparecord.c` find the end of a branch by counting
records, up by one for a START, down by one for an END. They stop at the
branch's own END and at no other, for it is the first place where the two
counts agree: before it, every END within the branch has its START within the
branch, too, and the branch's own START has no END there, so that there are
fewer ENDs (with the lemmas of `FiniteSetTheorems` on cardinality).
That the parent is found by way of the last sibling is an induction from
the end of the array downwards.

`RvmProofs` also proves `NamesResolve`, for instructions and words of any size.
For the scopes, `ScopeInv` says that the entries between two marks of
`scopestack` are those of one scope, and that the last of a name among them is
what the scope was given last (`FrameTrue`): a lookup from the top of the stack
therefore finds the innermost scope that has the name. For the code,
`ProgramInv` relates the generator to what was asked of it:

* every name has one label, the two sections included (`LabelsFit`), so that
  a lookup finds the one that was added and a redefinition replaces it;
* a label stands for what its name stands for (`DefsFit`): an index into the
  code, an address of the host, or a place in the static data where its text
  is, with a zero behind it, aligned, and overwritten by nothing later; a name
  that stands for nothing has no label or one that is invalid;
* there is one relocation for each reference, in their order, with the label of
  the reference's name (`RelocsFit`): this is why the label that a relocation
  stops at is that of the first reference without a definition.

None of it mentions addresses: they are put into the instructions by the
relocation, and they are stale as soon as a block moves. `RelocatedInv` says
that they are right until the next call of the generator, each reference by
itself. The loop over the relocations is a recursive function of
the number done; each turn changes its own instruction only, and a word that
holds the distance of a branch is counted in instructions, of which the
addresses are multiples (`QuotientIs`). A generator that was used and cleared
(`Used`) starts with the same invariant as a new one, whatever is in its
memory.

`RpaDbexProofs` proves `OffersUntilClosed` and `CallsLookedUp`, for any texts, loaded
in any order and number between opens, closes and compilations that may fail,
each at any time. `OffersCurrent` alone does not hold, as `findReclosed` shows:
a second close takes the offsets away and leaves the code. `OffersUntilClosed`
leaves out just that, from the close to the next compilation or open;
`CallsLookedUp` is about the code and its labels, which a close does not touch.
Neither is inductive, for what is offered was made by a compilation, and then
the database may have been opened, and more loaded. `IInv` says that code is
only offered while the items are those it was made of: `compiled` implies that
the database is not open, that the code, the entries it was compiled with and
the labels fit the items (`Fits`), and that the offsets are these entries unless
the database was closed again. The argument goes along the compilation:

* the entry code of a rule begins with SHIFT and its first BL goes three
  instructions on, to the rule's own code (`Starts`), with a bitmap or without;
* this stays true when more code is put behind it (`StartsBefore`) and when
  names become addresses (`FitsLinked`), since the instructions of an entry
  name nothing;
* the rules come one behind the other, and the label of a name is moved to the
  last rule of that name (`BeginsAt`). `CompileAllMakes` is the induction over
  the items, directives among them, which have an offset and no code.

That code which is appended is code at all, a sequence, whatever the grammar,
is a lemma for each block of the compiler (`BlocksSeq` to `RecordCodeSeq`), and
an induction over the depth of inlining (`PlayedSeq`). `IInv` also says that a
compiled database has no directive that fails (`Nameless`). It is needed because
`rpa_dbex_compile` may be called again without an open: had it stopped half way,
it would leave offsets of a new program beside those of the old one, while the
database still counts as compiled.

*Only model-checked*:

* liveness, which needs fairness and `ENABLED`;
* what the results of parts B, E, H and I mean (`ReturnsMeaning`,
  `RecordsMeaning`, `CacheMeaning`, `ScansToFirst`, `AdmitsMatches`, `RunsAgree`,
  `TakesReadable`, `ScanFindsFirst`, `LoadsMeant`, `JsonReads`, and `ComesBack` but
  for the characters): the meanings are
  recursive evaluations of grammars, expressions and texts, and a proof would be
  an induction over these;
* `CompiledAfresh`, which compares the bitmaps of the grammar that are there with
  those made from nothing: both are recursive over the grammar;
* `TransitionsComplete`, about the worklist of the subset construction, and
  `CallsAnswered`, about properties found by recursion over a tree and a path;
* the rest of the engine: its type invariant, the stack discipline
  (`StackEmptied`, `AbortMeansFailure`) and the instack (`InputFilled`) hold because of how compiled code is put together, so that they, too,
  are inductions over grammars;
* of part C `WalksBranch` and `MovesBlock`, both within `ComesBack`: the walk is
  a recursion over the tree, with a limit on its depth in the code
  (128 levels), and the move a fold.

## Not modelled

* Decoding of UTF-8 and UTF-16 and folding of case within a parse (the
  functions that decode are, in `RUtf`), the names of special and numeric
  characters beyond what the notation needs: the parser is modelled from
  characters on.
* User types and `#!emitid`, and changes of a database's configuration between
  its compilations.
* A parse into an array that already holds records, and
  `rpa_recordtree_copy`, which copies the first records whichever is asked for.
* The machine's loads and stores, the values that its shifts and logical
  instructions compute, the types of registers, `CALL` and `SWP`: compiled
  grammars use none of them, the assembler programs of `tests/` do.
* In the generator the insertion and the cutting off of instructions, which
  nothing uses and which would leave labels and relocations where they were.
* Strings and buffers of `rlib`, the callbacks of containers, the hash
  functions (parameters of the models), the list of objects to destroy.
* Blanks and the spelling of numbers in regular expressions; the expressions
  on which the compiler's behaviour is undefined.
* In JSON the spelling of numbers, indentation, error positions; properties
  that hold reals, strings or enumerations; the texts of help.
* Failing allocation: the code does not handle it.
* The size of integers, but for the machine's words: serial numbers, counts and
  positions are unbounded in the models. A serial number has 64 bits and goes
  up by one with every call.
* The tools, which read options and files and print, and the PHP extension,
  which wraps each call: they keep no state of their own. `googletest/` and
  the automata generated by `rexcc` are not this project's code.

## Plan

1. Done: parts A to J, and the theorems about the memo table, the reference
   count, the debug allocator, machine words, aborts, the containers, record
   trees, scopes, the generator of code, characters as bytes and the life of a
   database.
2. Proofs: the lists of transitions of part H (that they stay in order and
   disjoint); the discipline of the machine's stack, from a statement about
   the blocks of the compiler; the client's knowledge in part I.
3. The rest of the machine's instructions (`rvmcpu.c`): loads and stores of
   every size against the stack and the registers they may alias.
4. User types, with the records a user adds to the tree.
