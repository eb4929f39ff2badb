------------------------------- MODULE MCGit -------------------------------
(***************************************************************************)
(* A root with two branches and their merge:                               *)
(*     1 <- 2 <- 4,  1 <- 3 <- 4                                           *)
(* A scanned folder that contains the work tree holds the file at a.       *)
(***************************************************************************)
EXTENDS Git, TLC

CONSTANTS a, b, scanned, p1, p2

MCParents == <<{}, {1}, {1}, {2, 3}>>

MCTouches == <<{a}, {b}, {a, b}, {}>>

MCPathOf == scanned :> a

Workers == Permutations(Process)
=============================================================================
