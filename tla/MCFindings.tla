----------------------------- MODULE MCFindings -----------------------------
(***************************************************************************)
(* Two findings whose rules consult different queries, say a duplicate and *)
(* a source that has not been scanned for long.                            *)
(***************************************************************************)
EXTENDS Findings

CONSTANTS copies, stale, d1, d2

MCQueryOf == [f \in Finding |-> IF f = copies THEN 1 ELSE 2]
=============================================================================
