------------------------------ MODULE RArrayUse ------------------------------
(***************************************************************************)
(* An array of src/rlib/rarray.c and what its user has put into it.        *)
(***************************************************************************)
EXTENDS RArrays

CONSTANTS Elements,
          Unknown,   \* what may be in a slot that was used before
          MaxLen     \* the greatest length and index that are tried

ASSUME LengthAssumption == MaxLen \in Nat

VARIABLES array,
          elements,  \* history: what the array holds
          used       \* history: how far it has ever been written

-----------------------------------------------------------------------------
ArrayInit == array = ArrayCreate /\ elements = <<>> /\ used = 0

\* Elements up to n, with whatever the slots hold: zeros where nothing was
\* ever written.
Padded(n) ==
  [i \in 1..(IF n > Len(elements) THEN n ELSE Len(elements)) |->
     IF i <= Len(elements) THEN elements[i] ELSE IF i > used THEN Zero ELSE Unknown]

Becomes(newarray, newelements) ==
  /\ newarray.len <= MaxLen
  /\ array' = newarray /\ elements' = newelements
  /\ used' = IF Len(newelements) > used THEN Len(newelements) ELSE used

Appends(v) == Becomes(ArrayAdd(array, v), Append(elements, v))

Inserts(index, v) ==
  Becomes(ArrayInsert(array, index, v), InsertAt(Padded(index), index + 1, v))

Replaces(index, v) ==
  Becomes(ArrayReplace(array, index, v), [Padded(index + 1) EXCEPT ![index + 1] = v])

RemovesLast ==
  Becomes(RemoveLast(array), IF elements = <<>> THEN <<>> ELSE Front(elements))

Deletes(index) ==
  Becomes(ArrayDelete(array, index),
          IF index < Len(elements) THEN RemoveAt(elements, index + 1) ELSE elements)

SetsLength(len) == Becomes(SetLength(array, len), SubSeq(Padded(len), 1, len))

\* What does not fit is refused; reading behind the length is not for a user.
Moves(dst, src, size) ==
  /\ src + size <= array.len /\ dst + size <= array.len
  /\ Becomes(ArrayMove(array, dst, src, size),
             [i \in DOMAIN elements |->
                IF i - 1 \in dst..(dst + size - 1) THEN elements[i - dst + src]
                ELSE elements[i]])

\* The copy is used from here on, and its memory is new.
Copies == array' = ArrayCopy(array) /\ used' = Len(elements) /\ UNCHANGED elements

ArrayStep ==
  \/ \E v \in Elements : Appends(v) \/ \E index \in 0..MaxLen : Inserts(index, v) \/ Replaces(index, v)
  \/ RemovesLast \/ Copies
  \/ \E n \in 0..MaxLen : Deletes(n) \/ SetsLength(n)
  \/ \E dst, src, size \in 0..array.len : Moves(dst, src, size)

ArraySpec == ArrayInit /\ [][ArrayStep]_<<array, elements, used>>
-----------------------------------------------------------------------------
\* An array holds the elements it was given, where they belong, however it has
\* grown, shrunk and moved them, and a gap that was never written is zero,
\* which the marks of the conversion to a DFA rely on (src/rex/rexdfaconv.c:139).
ArrayHolds ==
  /\ array.len = Len(elements) /\ array.len <= AllocSize(array)
  /\ \A i \in DOMAIN elements :
       elements[i] # Unknown => ArrayElements(array)[i] = elements[i]
  /\ \A i \in DOMAIN array.slots : i >= used => array.slots[i] = Zero
=============================================================================
