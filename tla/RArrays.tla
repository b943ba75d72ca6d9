------------------------------- MODULE RArrays -------------------------------
(***************************************************************************)
(* The two arrays of src/rlib: rarray.c, one block of memory that is       *)
(* reallocated as it grows, and rcarray.c, a list of chunks that stay      *)
(* where they are.  Positions count from 0.  Memory is Zero until it is    *)
(* written; what is behind the length of an array stays in its slots.      *)
(***************************************************************************)
EXTENDS Integers, SequencesExt

CONSTANTS Zero,       \* an element of zero bytes
          ChunkSize   \* R_CARRAY_CHUNKSIZE

ASSUME ChunkAssumption == ChunkSize \in Nat \ {0}

Zeros(n) == [i \in 0..(n - 1) |-> Zero]

-----------------------------------------------------------------------------
(* rarray.c                                                                *)

ArrayCreate == [slots |-> Zeros(2), len |-> 0]

AllocSize(array) == Cardinality(DOMAIN array.slots)

\* 2 * size + 1, again and again, up to len at least.
Grown(size, len) ==
  LET grown[n \in Nat] == IF n < len THEN grown[2 * n + 1] ELSE n IN grown[size]

\* r_array_check_resize.  What is added is zeroed.
CheckResize(array, len) ==
  [array EXCEPT !.slots = [i \in 0..(Grown(AllocSize(array), len) - 1) |->
                             IF i < AllocSize(array) THEN array.slots[i] ELSE Zero]]

SetLength(array, len) == [CheckResize(array, len) EXCEPT !.len = len]

ExistReplace(array, index, data) == [array EXCEPT !.slots[index] = data]

ArrayAdd(array, data) ==
  ExistReplace(SetLength(array, array.len + 1), array.len, data)

RemoveLast(array) ==
  IF array.len > 0 THEN SetLength(array, array.len - 1) ELSE array

\* Mutant: room is made for the index and not for what moves up.
BadArrayInsert(array, index, data) ==
  LET room == CheckResize(array, index + 1)
      moved == [i \in DOMAIN room.slots |->
                  IF i \in (index + 1)..(room.len) THEN room.slots[i - 1] ELSE room.slots[i]]
  IN  ExistReplace(IF index < room.len THEN [slots |-> moved, len |-> room.len + 1]
                   ELSE SetLength(room, index + 1), index, data)

\* r_array_insert.  Behind the end it leaves a gap, of what is in the slots.
ArrayInsert(array, index, data) ==
  LET room == CheckResize(array, index + 1)
      longer == SetLength(room, room.len + 1)
      moved == [i \in DOMAIN longer.slots |->
                  IF i \in (index + 1)..(room.len) THEN longer.slots[i - 1] ELSE longer.slots[i]]
  IN  ExistReplace(IF index < room.len THEN [longer EXCEPT !.slots = moved]
                   ELSE SetLength(room, index + 1), index, data)

ArrayReplace(array, index, data) ==
  IF index >= array.len THEN ArrayInsert(array, index, data)
  ELSE ExistReplace(array, index, data)

\* r_array_move, one element after the other, from the end that is not
\* overwritten; refused (as it stands) if it does not fit.
ArrayMove(array, dst, src, size) ==
  LET place(n) == IF dst < src THEN n - 1 ELSE size - n
      moved[n \in 0..size] ==
        IF n = 0 THEN array
        ELSE ArrayReplace(moved[n - 1], dst + place(n), moved[n - 1].slots[src + place(n)])
  IN  IF dst + size > array.len \/ dst = src THEN array ELSE moved[size]

ArrayDelete(array, index) ==
  IF array.len <= index THEN array
  ELSE RemoveLast(ArrayMove(array, index, index + 1, array.len - (index + 1)))

ArrayCopy(array) ==
  LET copied[n \in 0..array.len] ==
        IF n = 0 THEN ArrayCreate
        ELSE ArrayReplace(copied[n - 1], n - 1, array.slots[n - 1])
  IN  copied[array.len]

\* The elements, as a sequence.
ArrayElements(array) == [i \in 1..array.len |-> array.slots[i - 1]]

-----------------------------------------------------------------------------
(* rcarray.c                                                               *)

AddChunks(carray, n) ==
  [carray EXCEPT !.chunks = @ \o [i \in 1..n |-> Zeros(ChunkSize)]]

CArrayCreate == AddChunks([chunks |-> <<>>, len |-> 0], 1)

CAllocSize(carray) == ChunkSize * Len(carray.chunks)

\* r_carray_checkexpand.  The division can add one chunk too many, never too few.
CheckExpand(carray, size) ==
  IF CAllocSize(carray) < size
    THEN AddChunks(carray, (size - CAllocSize(carray) + ChunkSize) \div ChunkSize)
    ELSE carray

\* r_carray_slot: the chunk, and the place in it.
CSlot(carray, index) ==
  carray.chunks[index \div ChunkSize + 1][index % ChunkSize]

CReplace(carray, index, data) ==
  [CheckExpand(carray, index + 1)
     EXCEPT !.chunks[index \div ChunkSize + 1][index % ChunkSize] = data]

CArrayAdd(carray, data) ==
  CReplace([CheckExpand(carray, carray.len + 1) EXCEPT !.len = @ + 1], carray.len, data)

\* r_carray_copy: a chunk more than the source has.
CArrayCopy(carray) ==
  LET n == Len(carray.chunks)
      dst == AddChunks(CArrayCreate, n)
  IN  [chunks |-> carray.chunks \o SubSeq(dst.chunks, n + 1, n + 1), len |-> carray.len]
=============================================================================
