---------------------------- MODULE MCCharClass -----------------------------
(***************************************************************************)
(* Character classes for TLC.  The code points are the real ones; ranges   *)
(* are taken at the boundaries of the encodings.                           *)
(***************************************************************************)
EXTENDS CharClass

MCUniMax == 1114111

R(a, b) == [start |-> a, end |-> b]

\* Ranges that touch, overlap, contain each other, start together, are equal,
\* and reach the first and the last code point.
Small == {R(0, 1), R(0, 4), R(2, 2), R(4, 6), R(65535, 65535), R(65536, MCUniMax)}

\* Supplementary planes, and the same at both of their ends.
Smp == {R(65536, 65537), R(65536, 65540), R(65539, 65541), R(1114110, 1114111)}

\* Classes to encode: the boundaries between the lengths, and runs long enough
\* for alternatives to be merged in more than one element.
Boundaries == << R(2046, 2049), R(126, 129), R(0, 1), R(65534, 65537) >>
Long == {<< R(126, 260) >>, << R(65470, 65601) >>, << R(66556, 66570) >>}

MCLists ==
    {<< >>} \cup {<< a, b, c >> : a \in Small, b \in Small, c \in Small \ {R(65536, MCUniMax)}}
    \cup {<< a, b >> : a \in Smp, b \in Smp}
    \cup {Boundaries} \cup Long

MCFoldClasses == {{0, 1}, {2, 65535, 70000}, {6, 7}, {65537, 129}}

MCProbes == {-1, 0, 1, 2, 3, 4, 5, 6, 7, 8, 126, 127, 128, 129, 2047, 2048, 65534, 65535,
             65536, 65537, 65538, 65540, 65541, 65542, 66559, 66560, 66752, 66753, 70000,
             1114109, 1114110, 1114111, 1114112}

MCWords ==
    LET codes == {c \in MCProbes : c \in 0 .. MCUniMax}
    IN  {Utf(c, f) : c \in codes, f \in FlagSets} \cup {Chars(c) : c \in codes}
          \cup {<< 192, 129 >>, << 128 >>, << 55296 >>, << 237, 160, 128 >>}
=============================================================================
