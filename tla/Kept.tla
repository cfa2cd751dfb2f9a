-------------------------------- MODULE Kept --------------------------------
(***************************************************************************)
(* What is kept of a list when its other elements are removed, written as a *)
(* recursive function so that proofs can open it.                           *)
(***************************************************************************)
EXTENDS Integers, Sequences

\* The elements of seq that are in S, in their order.
Keep(seq, S) ==
    LET upTo[n \in 0 .. Len(seq)] ==
            IF n = 0 THEN <<>>
            ELSE IF seq[n] \in S THEN Append(upTo[n - 1], seq[n]) ELSE upTo[n - 1]
    IN  upTo[Len(seq)]

=============================================================================
