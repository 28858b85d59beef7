----------------------------- MODULE Selection -----------------------------
(***************************************************************************)
(* A loop over a list that keeps some of its elements.                     *)
(***************************************************************************)
EXTENDS Integers, Sequences

\* The elements of l that are in S, in the order of l: SelectSeq with a set for
\* its test, written out so that it can be reasoned about.
Select(l, S) ==
    LET kept[i \in 0..Len(l)] ==
            IF i = 0 THEN <<>>
            ELSE IF l[i] \in S THEN Append(kept[i - 1], l[i]) ELSE kept[i - 1]
    IN  kept[Len(l)]
=============================================================================
