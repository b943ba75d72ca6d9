------------------------------- MODULE RvmCode -------------------------------
(***************************************************************************)
(* The generator of code for the machine (src/rvm/rvmcodegen.c), with its  *)
(* labels (rvmcodemap.c) and the instructions that wait for an address     *)
(* (rvmrelocmap.c).  A block of memory that grows moves, so addresses are  *)
(* written by the relocation, which may be done again after more was added.*)
(*                                                                         *)
(* What is left out: inserting instructions and cutting them off, which    *)
(* nobody does; the names kept for debugging; the registers behind         *)
(* dynamicdata, which the generator only creates and destroys.             *)
(***************************************************************************)
EXTENDS RArrays

CONSTANTS InsSize,   \* sizeof(rvm_asmins_t)
          WordSize   \* sizeof(ruword)

ASSUME CodeAssumption == InsSize \in Nat \ {0} /\ WordSize \in Nat \ {0}

Nameless == "none"   \* NULL

-----------------------------------------------------------------------------
(* rvmcodemap.c.  Labels are numbered from 1; 0 is no label.               *)

Label(type, base, value, name) == [type |-> type, base |-> base, value |-> value, name |-> name]

\* rvm_codemap_lookup.  A label without a name is not found.
Find(labels, name) == SelectInSeq(labels, LAMBDA l : name # Nameless /\ l.name = name)

\* rvm_codemap_add: the label of that name, or a new one.
WithLabel(labels, name) ==
  IF Find(labels, name) # 0 THEN labels ELSE Append(labels, Label("offset", 0, 0, name))
LabelOf(labels, name) == IF name = Nameless THEN Len(labels) ELSE Find(labels, name)

SetLabel(labels, index, type, base, value) ==
  [labels EXCEPT ![index] = Label(type, base, value, @.name)]

\* rvm_codemap_addoffset, _addpointer and _invalid_add.
AddAs(labels, name, type, base, value) ==
  LET more == WithLabel(labels, name)
  IN  SetLabel(more, LabelOf(more, name), type, base, value)
AddOffset(labels, name, base, offset) == AddAs(labels, name, "offset", base, offset)
AddPointer(labels, name, address) == AddAs(labels, name, "pointer", 0, address)
InvalidAdd(labels, name) == AddAs(labels, name, "invalid", 0, 0)

LookupAdd(labels, name) == IF Find(labels, name) # 0 THEN labels ELSE InvalidAdd(labels, name)

ValidIndex(labels, index) == index \in DOMAIN labels /\ labels[index].type # "invalid"

Unresolved == -1

\* rvm_codemap_resolve.
Shifted(base, value) == IF base = Unresolved THEN Unresolved ELSE base + value
Resolve(labels, index) ==
  LET resolve[i \in DOMAIN labels] ==
        IF labels[i].type = "pointer" THEN labels[i].value
        ELSE IF labels[i].type = "offset" THEN Shifted(resolve[labels[i].base], labels[i].value)
        ELSE Unresolved
  IN  resolve[index]

-----------------------------------------------------------------------------
(* rvmcodegen.c.  An instruction is its op and the word and size of its    *)
(* data.                                                                   *)

Ins(op) == [op |-> op, word |-> 0, size |-> 0]

Create ==
  [code |-> ArrayCreate, sources |-> ArrayCreate, cursrc |-> 0, staticdata |-> ArrayCreate,
   labels |-> <<>>, relocs |-> <<>>]

\* r_array_setlength keeps what is in the slots; the sources stay altogether.
Clear(cg) ==
  [cg EXCEPT !.code = SetLength(@, 0), !.staticdata = SetLength(@, 0),
             !.labels = <<>>, !.relocs = <<>>]

SetSource(cg, srcidx) == [cg EXCEPT !.cursrc = srcidx]

GetSource(cg, codeidx) ==
  IF codeidx >= cg.sources.len THEN -1 ELSE cg.sources.slots[codeidx]

AddIns(cg, ins) ==
  [cg EXCEPT !.code = ArrayAdd(@, ins),
             !.sources = ArrayReplace(@, cg.code.len, cg.cursrc)]

ReplaceIns(cg, index, ins) == [cg EXCEPT !.code = ArrayReplace(@, index, ins)]

\* The base of an offset: a label without an address until the relocation.
Based(cg, section) == [cg EXCEPT !.labels = LookupAdd(@, section)]

AddLabel(cg, name, offset) ==
  LET based == Based(cg, ".code")
  IN  [based EXCEPT !.labels =
         AddOffset(@, name, Find(based.labels, ".code"), offset * InsSize)]
AddLabelDefault(cg, name) == AddLabel(cg, name, cg.code.len)

AddLabelIns(cg, name, ins) == AddIns(AddLabelDefault(cg, name), ins)

InvalidAddLabel(cg, name) == [cg EXCEPT !.labels = InvalidAdd(@, name)]

RedefineLabel(cg, index, offset) ==
  LET based == Based(cg, ".code")
  IN  [based EXCEPT !.labels =
         SetLabel(@, index, "offset", Find(based.labels, ".code"), offset * InsSize)]
RedefineLabelDefault(cg, index) == RedefineLabel(cg, index, cg.code.len)

RedefinePointer(cg, index, address) ==
  [cg EXCEPT !.labels = SetLabel(@, index, "pointer", 0, address)]

IndexAddRelocIns(cg, type, index, ins) ==
  AddIns([cg EXCEPT !.relocs =
            Append(@, [type |-> type, offset |-> cg.code.len, label |-> index])], ins)

AddRelocIns(cg, type, name, ins) ==
  LET labels == LookupAdd(cg.labels, name)
  IN  IndexAddRelocIns([cg EXCEPT !.labels = labels], type, Find(labels, name), ins)

FuncStart(cg, name) ==
  AddIns(AddIns(AddLabelIns(AddIns(cg, Ins("NOP")), name, Ins("PUSHM")), Ins("MOV")), Ins("ADD"))
FuncEnd(cg) == AddIns(AddIns(AddIns(cg, Ins("MOV")), Ins("POPM")), Ins("BX"))

Aligned(size) == ((size + WordSize - 1) \div WordSize) * WordSize

\* A word of zeros is written behind the bytes.
WriteData(array, start, bytes) ==
  LET room == SetLength(array, start + Len(bytes) + WordSize + 1)
      written == [i \in 0..(Len(bytes) + WordSize - 1) |->
                    IF i < Len(bytes) THEN bytes[i + 1] ELSE Zero]
  IN  [room EXCEPT !.slots = [i \in DOMAIN room.slots |->
         IF i - start \in DOMAIN written THEN written[i - start] ELSE room.slots[i]]]

AddData(cg, name, bytes) ==
  LET start == Aligned(cg.staticdata.len)
      based == Based([cg EXCEPT !.staticdata = WriteData(@, start, bytes)], ".data")
  IN  [based EXCEPT !.labels = AddOffset(@, name, Find(based.labels, ".data"), start)]
AddString(cg, name, bytes) == AddData(cg, name, Append(bytes, Zero))

-----------------------------------------------------------------------------
(* Relocation.  Where the blocks of memory are depends on their size: one  *)
(* that grows moves.                                                       *)

CodeAt(cg) == 1000 * InsSize * AllocSize(cg.code)
DataAt(cg) == 1000 * InsSize * AllocSize(cg.staticdata) + 500 * InsSize

\* r_strlen at an address of the static data.
StringSize(cg, address) ==
  LET slots == cg.staticdata.slots
  IN  Min({i \in DOMAIN slots : address - DataAt(cg) <= i /\ slots[i] = Zero})
        - (address - DataAt(cg))

\* A division in C.
Quotient(a, b) == IF a < 0 THEN -((-a) \div b) ELSE a \div b

Patch(cg, reloc) ==
  LET value == Resolve(cg.labels, reloc.label)
      here == CodeAt(cg) + reloc.offset * InsSize
      word == CASE reloc.type = "BRANCH" -> Quotient(value - here, InsSize)
                [] reloc.type = "JUMP" -> value - InsSize
                [] OTHER -> value
      size == IF reloc.type = "STRING" THEN StringSize(cg, value)
              ELSE cg.code.slots[reloc.offset].size
  IN  [cg EXCEPT !.code.slots[reloc.offset] = [@ EXCEPT !.word = word, !.size = size]]

\* Mutant: a block that has an address keeps it.
BadPlaced(cg) ==
  LET kept(labels, name, address) ==
        IF Find(labels, name) # 0 /\ labels[Find(labels, name)].type = "pointer" THEN labels
        ELSE AddPointer(labels, name, address)
  IN  [cg EXCEPT !.labels = kept(kept(@, ".code", CodeAt(cg)), ".data", DataAt(cg))]

\* The labels of the two blocks get their addresses.
Placed(cg) ==
  [cg EXCEPT !.labels = AddPointer(AddPointer(@, ".code", CodeAt(cg)), ".data", DataAt(cg))]

\* The relocations that are done, which are those before the first that cannot.
Done(cg) ==
  LET stuck == SelectInSeq(cg.relocs, LAMBDA r : Resolve(cg.labels, r.label) = Unresolved)
  IN  IF stuck = 0 THEN Len(cg.relocs) ELSE stuck - 1

\* rvm_codegen_relocate, and the label it could not resolve.
Relocated(cg) ==
  LET placed == Placed(cg)
      patched[n \in 0..Done(placed)] ==
        IF n = 0 THEN placed ELSE Patch(patched[n - 1], placed.relocs[n])
  IN  patched[Done(placed)]
Stuck(cg) ==
  LET placed == Placed(cg)
  IN  IF Done(placed) = Len(placed.relocs) THEN 0 ELSE placed.relocs[Done(placed) + 1].label
=============================================================================
