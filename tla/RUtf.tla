-------------------------------- MODULE RUtf --------------------------------
(***************************************************************************)
(* Characters as bytes: src/rlib/rutf.c.  A reader returns the character   *)
(* and how many bytes it took, a writer the bytes, none if it cannot.      *)
(***************************************************************************)
EXTENDS Integers, Sequences

Took(wc, n) == [wc |-> wc, n |-> n]

\* Where the bytes cannot be read, the first one is the character.
Misread(bytes) == Took(bytes[1], 1)

MaxChar == 1114111       \* 0x10FFFF
Surrogates == 55296..57343 \* 0xD800..0xDFFF

\* How many bytes the first one announces, 0 if it announces none.
Announced(c) ==
  CASE c < 128 -> 1
    [] 194 <= c /\ c < 224 -> 2
    [] 224 <= c /\ c < 240 -> 3
    [] 240 <= c /\ c < 245 -> 4
    [] OTHER -> 0

\* What n bytes bring: the first one what its mark leaves, the others six bits.
Brought(bytes, n) ==
  LET six(i) == bytes[i] % 64
  IN  CASE n = 1 -> bytes[1]
        [] n = 2 -> (bytes[1] % 32) * 64 + six(2)
        [] n = 3 -> (bytes[1] % 16) * 4096 + six(2) * 64 + six(3)
        [] n = 4 -> (bytes[1] % 8) * 262144 + six(2) * 4096 + six(3) * 64 + six(4)

\* The upper two bits tell a byte that trails the first one.
Trails(c) == c \div 64 = 2

\* r_utf8_mbtowc
Utf8Read(bytes) ==
  LET n == Announced(bytes[1])
  IN  IF bytes = <<>> THEN Took(0, 0)
      ELSE IF n = 0 \/ n > Len(bytes) \/ \E i \in 2..n : ~ Trails(bytes[i])
      THEN Misread(bytes)
      ELSE Took(Brought(bytes, n), n)

Utf8Size(wc) ==
  IF wc < 128 THEN 1 ELSE IF wc < 2048 THEN 2 ELSE IF wc < 65536 THEN 3
  ELSE IF wc <= MaxChar THEN 4 ELSE 0

\* The switch of r_utf8_wctomb, each case of which goes on with the next one:
\* the last byte is cut off, and what is left of the word gets a mark above it,
\* which becomes the upper bits of the first byte.
Last6(word) == 128 + (word % 64)
Marked(word, mark) == word \div 64 + mark
CutBytes(wc, count) ==
  LET three == IF count >= 4 THEN Marked(wc, 65536) ELSE wc
      two == IF count >= 3 THEN Marked(three, 2048) ELSE three
      one == IF count >= 2 THEN Marked(two, 192) ELSE two
  IN  SubSeq(<<one, Last6(two), Last6(three), Last6(wc)>>, 1, count)

\* r_utf8_wctomb, given room for size bytes.
Utf8Write(wc, size) ==
  IF Utf8Size(wc) \in 1..size THEN CutBytes(wc, Utf8Size(wc)) ELSE <<>>

Unit(bytes, i) == bytes[i] + 256 * bytes[i + 1]
HighHalf == 55296..56319 \* 0xD800..0xDBFF
LowHalf == 56320..57343  \* 0xDC00..0xDFFF

\* r_utf16_mbtowc
Utf16Read(bytes) ==
  CASE bytes = <<>> -> Took(0, 0)
    [] Len(bytes) = 1 -> Misread(bytes)
    [] Len(bytes) > 1 /\ Unit(bytes, 1) \notin Surrogates -> Took(Unit(bytes, 1), 2)
    [] Len(bytes) > 3 /\ Unit(bytes, 1) \in HighHalf /\ Unit(bytes, 3) \in LowHalf ->
         Took(65536 + (Unit(bytes, 1) - 55296) * 1024 + Unit(bytes, 3) - 56320, 4)
    [] OTHER -> Misread(bytes)

\* r_utf16_wctomb
Utf16Write(wc, size) ==
  LET wc1 == 55296 + (wc - 65536) \div 1024
      wc2 == 56320 + ((wc - 65536) % 1024)
  IN  CASE wc < 65536 /\ wc \notin Surrogates /\ size >= 2 -> <<wc % 256, wc \div 256>>
        [] 65536 <= wc /\ wc <= MaxChar /\ size >= 4 ->
             <<wc1 % 256, wc1 \div 256, wc2 % 256, wc2 \div 256>>
        [] OTHER -> <<>>

-----------------------------------------------------------------------------
\* A character comes back from its bytes, whatever follows them, and is not
\* made up from some of them; the halves of UTF-16 pairs are no characters
\* (src/rlib/rutf.c:23).
CharComesBack(wc, after) ==
  LET bytes == Utf8Write(wc, 4)
      units == Utf16Write(wc, 4)
  IN  /\ bytes # <<>> <=> wc <= MaxChar
      /\ units # <<>> <=> wc <= MaxChar /\ wc \notin Surrogates
      /\ bytes # <<>> => Utf8Read(bytes \o after) = Took(wc, Len(bytes))
      /\ units # <<>> => Utf16Read(units \o after) = Took(wc, Len(units))
      /\ \A n \in 1..(Len(bytes) - 1) :
           Utf8Read(SubSeq(bytes, 1, n)) = Took(bytes[1], 1) /\ Utf8Write(wc, n) = <<>>
      /\ \A n \in 1..(Len(units) - 1) :
           Utf16Read(SubSeq(units, 1, n)).n < Len(units) /\ Utf16Write(wc, n) = <<>>
=============================================================================
