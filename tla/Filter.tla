------------------------------- MODULE Filter -------------------------------
(* What is left of a sequence, as a recursive function: a proof can use it, *)
(* as it cannot use the recursive operator behind SelectSeq.                *)
EXTENDS Integers, Sequences

\* The elements of a sequence that are in a set, in their order.
Only(s, S) ==
    LET upTo[n \in 0 .. Len(s)] ==
            IF n = 0 THEN <<>>
            ELSE IF s[n] \in S THEN Append(upTo[n - 1], s[n])
            ELSE upTo[n - 1]
    IN  upTo[Len(s)]
=============================================================================
