----------------------------- MODULE MCInbound -----------------------------
(***************************************************************************)
(* Texts for TLC.                                                          *)
(***************************************************************************)
EXTENDS Inbound

\* All texts of up to three bytes, malformed ones included, and some where the
\* length of the characters changes several times.
MCTexts ==
    UNION { [1 .. k -> 0 .. 3] : k \in 0 .. 3 } \cup
    { << 1, 2, 0, 1, 3, 0, 0, 1 >>, << 2, 0, 2, 0, 1, 1, 2, 0 >>,
      << 1, 4, 0, 0, 0, 1, 1 >>, << 1, 1, 2, 0, 3, 0 >> }

MCExtensions == { << 0, 1 >>, << 2, 0, 1 >> }

\* The texts of the runs that break the discipline.
ShortTexts == { << 1, 1 >>, << 2, 0, 1 >>, << 1, 3, 0, 0, 1 >> }

\* A wide character behind a narrow one.
WideTexts == { << 1, 2, 0, 1 >> }

=============================================================================
