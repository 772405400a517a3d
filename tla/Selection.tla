------------------------------ MODULE Selection ------------------------------
(* What of a sequence is not in a set, in its order: SelectSeq, by a definition *)
(* that can be reasoned from.                                                   *)
EXTENDS Integers, Sequences

Without(s, S) ==
    LET f[n \in 0 .. Len(s)] == IF n = 0 THEN <<>>
                                ELSE IF s[n] \in S THEN f[n - 1] ELSE Append(f[n - 1], s[n])
    IN f[Len(s)]
=============================================================================
