-------------------------------- MODULE Rows --------------------------------
(* Lists of rows, oldest first.                                             *)
EXTENDS Naturals, Sequences

\* The rows of s that are not in D, in the order they have in s.
Without(s, D) ==
    LET kept[n \in 0..Len(s)] ==
            IF n = 0 THEN << >>
            ELSE IF s[n] \in D THEN kept[n - 1] ELSE Append(kept[n - 1], s[n])
    IN  kept[Len(s)]
=============================================================================
