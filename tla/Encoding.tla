------------------------------ MODULE Encoding ------------------------------
(***************************************************************************)
(* How a code point is written: as bytes (marpatcl_to_utf, to_utf.c, with  *)
(* its variants CESU-8 and MUTF-8) and as UTF-16 elements (marpatcl_to_char,*)
(* to_char.c).  The alternatives that asbr.c and assr.c build of them are  *)
(* sequences of ranges of such elements.  All of it is pure.               *)
(***************************************************************************)
EXTENDS Integers, Sequences

BmpMax == 65535             \* UNI_BMP, the last code point of the first plane

(* unflags.h: Tcl's own encoding is both variants together. *)
FlagSets == SUBSET {"mutf", "cesu"}

(* (x >> shift) & mask, for a mask of low bits: scale and size are powers of
   two.  The marker bits or-ed to it in the code are above the mask, so that
   `or` is `+`. *)
Bits(x, scale, size) == (x \div scale) % size

(* A trailing byte: the six bits from the given position on. *)
Trail(x, scale) == 128 + Bits(x, scale, 64)

One(code) == <<code>>
Two(code) == <<192 + Bits(code, 64, 32), Trail(code, 1)>>
Three(code) == <<224 + Bits(code, 4096, 16), Trail(code, 64), Trail(code, 1)>>
Four(code) ==
  <<240 + Bits(code, 262144, 8), Trail(code, 4096), Trail(code, 64), Trail(code, 1)>>

(* A supplementary code point, less 65536, as two surrogates of three bytes. *)
Six(rest) ==
  <<237, 160 + Bits(rest, 65536, 16), Trail(rest, 1024),
    237, 176 + Bits(rest, 64, 16), Trail(rest, 1)>>

(* marpatcl_to_utf.  Flag "mutf" keeps 0 out of the bytes, "cesu" writes a
   code point outside of the first plane as two sequences of three bytes. *)
Utf(code, flags) ==
  IF code = 0 /\ "mutf" \in flags THEN <<192, 128>>
  ELSE IF code < 128 THEN One(code)
  ELSE IF code < 2048 THEN Two(code)
  ELSE IF code < 65536 THEN Three(code)
  ELSE IF "cesu" \in flags THEN Six(code - 65536) ELSE Four(code)

(* Mutant: the offset of the supplementary planes is not taken away. *)
CharsNoOffset(code) ==
  IF code <= BmpMax THEN <<code>>
  ELSE <<55296 + Bits(code, 1024, 1024), 56320 + Bits(code, 1, 1024)>>

(* marpatcl_to_char. *)
Chars(code) ==
  IF code <= BmpMax THEN <<code>>
  ELSE LET rest == code - (BmpMax + 1)
       IN  <<55296 + Bits(rest, 1024, 1024), 56320 + Bits(rest, 1, 1024)>>

-----------------------------------------------------------------------------
(* Alternatives: an alternative is a sequence of ranges [start, end], it stands
   for the words of the same length with an element of each range. *)

Single(word) == [i \in 1 .. Len(word) |-> [start |-> word[i], end |-> word[i]]]

Matches(word, alt) ==
  /\ Len(word) = Len(alt)
  /\ \A i \in 1 .. Len(alt) : alt[i].start <= word[i] /\ word[i] <= alt[i].end

(* R_ADJ, R_EQU, UP, EQ of asbr.c and assr.c. *)
Adjacent(prev, top, i) == prev[i].end + 1 = top[i].start
SameBut(prev, top, i) == \A j \in 1 .. Len(prev) : j # i => prev[j] = top[j]

(* The lengths `merging` has a case for: five bytes do not occur. *)
MergeLengths == {1, 2, 3, 4, 6}

(* Mutant: the other elements are not compared. *)
CanMergeLoose(prev, top) ==
  /\ Len(prev) = Len(top)
  /\ Len(prev) \in MergeLengths
  /\ \E i \in 1 .. Len(prev) : Adjacent(prev, top, i)

(* merge2 with merging: two alternatives of one length that are next to each
   other in one element, and equal in all others. *)
CanMerge(prev, top) ==
  /\ Len(prev) = Len(top)
  /\ Len(prev) \in MergeLengths
  /\ \E i \in 1 .. Len(prev) : Adjacent(prev, top, i) /\ SameBut(prev, top, i)

Merged(prev, top) ==
  [i \in 1 .. Len(prev) |->
     IF Adjacent(prev, top, i) THEN [prev[i] EXCEPT !.end = top[i].end] ELSE prev[i]]
=============================================================================
