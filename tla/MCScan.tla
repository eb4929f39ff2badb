------------------------------- MODULE MCScan -------------------------------
(***************************************************************************)
(* Two small trees for Scan, in the order WalkDir visits them.             *)
(*   plain:   d/, d/g, f          strings sort the same way                *)
(*   crossed: a/, a/b, a.txt      "a.txt" < "a/b" as strings               *)
(* In both, inner is the file in the directory and outer the one beside.   *)
(***************************************************************************)
EXTENDS Scan, TLC

CONSTANTS inner, outer, dir, top, v1, v2, s1, s2

CONSTANT Crossed  \* which of the two trees

MCParent == [e \in {inner, outer, dir} |-> IF e = inner THEN dir ELSE top]

MCWalkPos == [e \in {inner, outer, dir, top} |->
                CASE e = top -> 0 [] e = dir -> 1 [] e = inner -> 2 [] OTHER -> 3]

MCStrPos == [l \in {inner, outer} |-> IF (l = inner) = Crossed THEN 2 ELSE 1]

Interchangeable == Permutations(Version) \cup Permutations(Scanner)
=============================================================================
