------------------------------ MODULE Filters ------------------------------
(***************************************************************************)
(* What a query with a WHERE clause and an ORDER BY makes of a log: the    *)
(* wanted elements, given by their positions, in the order they are in.    *)
(* (The standard SelectSeq has no definition that a prover can see.)       *)
(***************************************************************************)
EXTENDS Naturals, Sequences

\* What is picked of the first i elements, for every i.
Picked(s, wanted) ==
  LET taken[i \in 0 .. Len(s)] ==
        IF i = 0 THEN <<>>
        ELSE IF i \in wanted THEN Append(taken[i - 1], s[i]) ELSE taken[i - 1]
  IN  taken

Pick(s, wanted) == Picked(s, wanted)[Len(s)]
=============================================================================
