------------------------------ MODULE RpaDbex -------------------------------
(***************************************************************************)
(* The rule database of src/rpa/rpadbex.c over its life: it is opened,     *)
(* texts are loaded into it, it is closed and compiled, and opened again   *)
(* to load more (as rpagrep does for every pattern it is given).           *)
(*                                                                         *)
(* Nothing keeps the calls in that order: a database is closed that is not *)
(* open, compiled twice, or opened before it was compiled.                 *)
(*                                                                         *)
(* What outlives a cycle sits in the records: the rules, the marks that    *)
(* rpa_dbex_close ORs into them, and the bitmaps, which are built only     *)
(* where there is none yet.  The table of the rules, with the offsets of   *)
(* their code, is made anew by every close, the compiler by every compile. *)
(*                                                                         *)
(* A text is what the RPA parser makes of it: a sequence of rules and      *)
(* directives, or Garbled.  An item's rule id is its place in items.       *)
(***************************************************************************)
EXTENDS RpaCompiler, RpaMeaning

CONSTANTS
  Texts,        \* what may be loaded
  Inputs,       \* what the bitmaps are held against, by AdmitsMatches
  MaxLoads      \* bound: the number of texts loaded

VARIABLES
  opened,       \* dbex->rules is NULL
  items,        \* the rules and directives in dbex->records
  marks,        \* their usertype: the paths marked loop and nonloop
  env,          \* their userdata: the bitmap of every path
  offsets,      \* codeoff in dbex->rules, counted from 1
  compiled,
  obj,          \* dbex->co: the code and the labels of the last compile
  bitmap,       \* RPA_DBEXCFG_BITMAP
  loads,        \* the number of texts loaded
  told,         \* what the last call returned: "done", or its error
  looked,       \* the names looked up by every close, and the rules found
  reclosed      \* was the table of the rules made anew since the code was?

vars == <<opened, items, marks, env, offsets, compiled, obj, bitmap, loads, told,
          looked, reclosed>>

Garbled == <<[kind |-> "garbled"]>>

\* The records of the texts: rules and directives, and what is in them.
Nodes == UNION {{At(text, p) : p \in Paths(text)} : text \in Texts \ {Garbled}}

\* What the parser lets through.
ASSUME TextsAssumption ==
  /\ \A text \in Texts \ {Garbled} :
       text \in Seq({n \in Nodes : n.kind \in {"rule", "directive"}})
  /\ \A n \in Nodes :
       /\ {"kind", "q", "kids", "name"} \subseteq DOMAIN n
       /\ n.kind \in {"rule", "directive"} \union NodeKinds
       /\ n.q \in {"", "?", "+", "*"}
       /\ n.kids \in Seq({kid \in Nodes : kid.kind \in NodeKinds})
       /\ n.name # "" <=> n.kind \in {"rule", "ref"}

IsRule(item) == item.kind = "rule"
RuleNames(g) == {g[r].name : r \in {r \in DOMAIN g : IsRule(g[r])}}

-----------------------------------------------------------------------------
\* The preferences of a new compiler, after rpa_dbex_setemit(dbex, TRUE).
NewPrefs(g) == [name \in RuleNames(g) |-> [emit |-> TRUE, abort |-> FALSE]]

\* rpa_dbex_rh_emit, _noemit, _emitall, _emitnone and _abort.
Directed(prefs, item) ==
  [name \in DOMAIN prefs |->
     IF item.of \notin {name, ""} THEN prefs[name]
     ELSE CASE item.does \in {"emit", "emitall"} -> [prefs[name] EXCEPT !.emit = TRUE]
            [] item.does \in {"noemit", "emitnone"} -> [prefs[name] EXCEPT !.emit = FALSE]
            [] item.does = "abort" -> [prefs[name] EXCEPT !.abort = TRUE]]

Preferred(g, prefs) ==
  [r \in DOMAIN g |->
     IF IsRule(g[r])
     THEN [g[r] EXCEPT !.emit = prefs[g[r].name].emit,
                       !.abort = prefs[g[r].name].abort]
     ELSE g[r]]

\* rpa_dbex_compile_rule.  A directive has no code, and is heeded from there
\* on: by the rules compiled and the bitmaps built after it.
CompileItem(g, m, made, r) ==
  CASE made.failed -> made
    [] ~made.failed /\ IsRule(g[r]) ->
         [made EXCEPT
            !.obj = CompileRule(Preferred(g, made.prefs), m, bitmap, made.obj, r)]
    [] ~made.failed /\ ~IsRule(g[r]) ->
         IF g[r].of = NoName THEN [made EXCEPT !.failed = TRUE]
         ELSE [made EXCEPT !.prefs = Directed(made.prefs, g[r]),
                           !.obj.entry = Append(@, Len(made.obj.code) + 1)]

\* The loop of rpa_dbex_compile over the rules, with a new compiler.
CompileAll(g, m, bitmaps) ==
  LET made[r \in 0..Len(g)] ==
        IF r = 0
        THEN [failed |-> FALSE, prefs |-> NewPrefs(g), obj |-> NewObject(bitmaps)]
        ELSE CompileItem(g, m, made[r - 1], r)
  IN  made[Len(g)]

\* The names that the nodes of a grammar refer to, and what they stand for.
Mentions(g) == {At(g, p).name : p \in {p \in Paths(g) : At(g, p).kind = "ref"}}
Lookups(g) == {<<name, RuleNamed(g, name)>> : name \in Mentions(g)}

-----------------------------------------------------------------------------
\* rpa_dbex_create.
Init ==
  /\ opened = FALSE
  /\ items = <<>>
  /\ marks = [loop |-> {}, nonloop |-> {}]
  /\ env = <<>>
  /\ offsets = <<>>
  /\ compiled = FALSE
  /\ obj = NewObject(<<>>)
  /\ bitmap \in BOOLEAN
  /\ loads = 0
  /\ told = "done"
  /\ looked = {}
  /\ reclosed = FALSE

\* Mutant: what was compiled is not withdrawn.
BadOpen ==
  /\ opened' = TRUE
  /\ offsets' = <<>>
  /\ told' = "done"
  /\ reclosed' = FALSE
  /\ UNCHANGED <<items, marks, env, compiled, obj, bitmap, loads, looked>>

Open ==
  /\ opened' = TRUE
  /\ offsets' = <<>>
  /\ compiled' = FALSE
  /\ told' = "done"
  /\ reclosed' = FALSE
  /\ UNCHANGED <<items, marks, env, obj, bitmap, loads, looked>>

\* rpa_dbex_load: nothing of a text is kept that is not one to its end.
Load(text) ==
  /\ loads < MaxLoads
  /\ told' = IF ~opened THEN "NOTOPEN"
             ELSE IF text = Garbled THEN "SYNTAXERROR" ELSE "done"
  /\ IF told' = "done"
     THEN /\ loads' = loads + 1
          /\ items' = items \o text
          /\ env' = env @@ NoBitmaps(items')
     ELSE UNCHANGED <<loads, items, env>>
  /\ UNCHANGED <<opened, marks, offsets, compiled, obj, bitmap, looked, reclosed>>

\* Mutant: the loops are looked for by the first close only.
BadClose ==
  /\ opened' = FALSE
  /\ offsets' = [r \in DOMAIN items |-> 1]
  /\ LET loop == LoopPath(items)
     IN  marks' = IF looked # {} THEN marks
                  ELSE [loop |-> loop, nonloop |-> NonLoopPath(items, loop)]
  /\ told' = "done"
  /\ looked' = looked \union Lookups(items)
  /\ reclosed' = compiled
  /\ UNCHANGED <<items, env, compiled, obj, bitmap, loads>>

\* rpa_dbex_close, of a database that is open or of one that is not.  The code
\* stays compiled, but the offsets of the new table are all that of its first
\* instruction, until rpa_dbex_compile sets them.
Close ==
  /\ opened' = FALSE
  /\ offsets' = [r \in DOMAIN items |-> 1]
  /\ LET loop == marks.loop \union LoopPath(items)
     IN  marks' = [loop |-> loop,
                   nonloop |-> marks.nonloop \union NonLoopPath(items, loop)]
  /\ told' = "done"
  /\ looked' = looked \union Lookups(items)
  /\ reclosed' = compiled
  /\ UNCHANGED <<items, env, compiled, obj, bitmap, loads>>

\* rpa_dbex_compile: the code of every rule, up to one that fails, then the
\* names become addresses, if there is a rule for each.
Compile ==
  /\ IF opened THEN /\ told' = "NOTCLOSED"
                    /\ UNCHANGED <<env, offsets, compiled, obj, reclosed>>
     ELSE LET all == CompileAll(items, marks, env)
              made == all.obj
          IN  /\ env' = made.env
              /\ offsets' = [r \in DOMAIN items |->
                               IF r \in DOMAIN made.entry THEN made.entry[r]
                               ELSE offsets[r]]
              /\ told' = CASE all.failed -> "COMPILE"
                           [] ~all.failed /\ Named(made.code) \subseteq DOMAIN made.label -> "done"
                           [] OTHER -> "UNRESOLVEDSYMBOL"
              /\ obj' = IF told' = "done" THEN Link(made) ELSE made
              /\ compiled' = (compiled \/ told' = "done")
              /\ reclosed' = FALSE
  /\ UNCHANGED <<opened, items, marks, bitmap, loads, looked>>

Next == Open \/ (\E text \in Texts : Load(text)) \/ Close \/ Compile

Spec == Init /\ [][Next]_vars

-----------------------------------------------------------------------------
\* rpa_dbex_executable and rpa_dbex_executableoffset have something to offer.
Executable == ~opened /\ compiled /\ obj.code # <<>>

\* The code of a program that starts with the instruction at e: where the
\* first BL from there goes.
Entered(e) ==
  LET call == CHOOSE i \in e..Len(obj.code) :
                /\ obj.code[i].op = "BL"
                /\ \A j \in e..(i - 1) : obj.code[j].op # "BL"
  IN  call + obj.code[call].k

\* rpadbex.h: "rpa_dbex_executable and @ref rpa_dbex_executableoffset work
\* together to locate the beginning of the executable byte code for the
\* specified ID".  Every rule has an offset, which is that of its own entry
\* code, in the order of the rules.
OffersCurrent ==
  Executable =>
    /\ Len(offsets) = Len(items)
    /\ LET rules == {r \in DOMAIN items : IsRule(items[r])}
       IN  /\ \A r \in rules : /\ offsets[r] \in DOMAIN obj.code
                              /\ obj.code[offsets[r]].op = "SHIFT"
           /\ \A r, s \in rules :
                r < s => Entered(offsets[r]) < Entered(offsets[s])

\* What is offered is the code of the rules that are in the database now, all of
\* them, in spite of opens, loads, closes and compiles in any order, unless the
\* database was closed once more after the code was made, and not compiled again.
OffersUntilClosed == ~reclosed => OffersCurrent

\* A name stands for one rule: the code that a reference to it calls is the
\* code which the entry of the rule that rpa_dbex_lookup finds goes to, also when
\* several rules have the name.  A close of a database that is closed does not
\* disturb it, since the code and its labels stay.
CallsLookedUp ==
  Executable =>
    \A name \in RuleNames(items) :
      obj.label[name] = Entered(obj.entry[RuleNamed(items, name)])

\* No name that was looked up by a close stands for another rule today.
Settled == \A pair \in looked : RuleNamed(items, pair[1]) = pair[2]

\* A rule's code is put in the place of a reference to it, in another rule.
Inlining ==
  \E p \in marks.loop : /\ At(items, p).kind = "ref"
                        /\ At(items, p).name # items[p[1]].name

\* rpadbex.h: "The database can opened and closed multiple times as long it
\* is not destroyed".  Compiling again, after more was loaded or not, gives
\* what compiling everything at once gives: the bitmaps and marks kept in the
\* records are still right.  Not so when a name has got another rule since,
\* and not for an inlined rule, whose bitmaps may be there or not yet.
CompiledAfresh ==
  (Executable /\ Settled /\ ~(bitmap /\ Inlining)) =>
    obj = Link(CompileAll(items, Marks(items), NoBitmaps(items)).obj)

\* A rule is not turned away by its bitmap from what it matches.
AdmitsMatches ==
  Executable =>
    LET reaches == Reaches(items)
    IN  \A r \in DOMAIN items, input \in Inputs :
          (/\ IsRule(items[r])
           /\ RuleMeaning(items, reaches, input, r, 0).n > 0)
             => env[<<r>>] = {} \/ BitSlot(Head(input)) \in env[<<r>>]
=============================================================================
