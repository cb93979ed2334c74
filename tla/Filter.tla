------------------------------- MODULE Filter -------------------------------
(***************************************************************************)
(* The elements of a sequence that differ from one of them, as a recursive *)
(* function that the provers can expand.                                   *)
(***************************************************************************)
EXTENDS Integers, Sequences

\* What is left of the first i elements of s without f, for every i.
Kept(s, f) ==
    LET kept[i \in 0 .. Len(s)] ==
            IF i = 0 THEN <<>>
            ELSE IF s[i] = f THEN kept[i - 1] ELSE Append(kept[i - 1], s[i])
    IN  kept

\* s without f.
Without(s, f) == Kept(s, f)[Len(s)]
=============================================================================
