------------------------------- MODULE Mirror -------------------------------
(***************************************************************************)
(* What exchanging bundles promises of every link, a source of a sender    *)
(* and a receiver of it: the receiver's copy is at every moment a prefix   *)
(* of what the sender may hand over, in the sender's order, and it only    *)
(* gets longer.                                                            *)
(***************************************************************************)
EXTENDS Sequences, SequencesExt

CONSTANT Link

VARIABLES
  origin,  \* the sender's observations that may travel, in log order
  copy     \* the receiver's observations of the same source, in its own

Init ==
  /\ origin = [k \in Link |-> <<>>]
  /\ copy = [k \in Link |-> <<>>]

\* A sender observes something; every link of its source gets longer.
Record ==
  /\ \A k \in Link : IsPrefix(origin[k], origin'[k])
  /\ UNCHANGED copy

\* A receiver gets further observations, never past what there is.
CatchUp ==
  /\ \A k \in Link : IsPrefix(copy[k], copy'[k]) /\ IsPrefix(copy'[k], origin[k])
  /\ UNCHANGED origin

Next == Record \/ CatchUp

Spec == Init /\ [][Next]_<<origin, copy>>
=============================================================================
