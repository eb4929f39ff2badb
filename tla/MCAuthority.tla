---------------------------- MODULE MCAuthority ----------------------------
(***************************************************************************)
(* A widget in revisions 1 and 2, the second also by another spelling, one *)
(* that is numbered 3 without a marker, a copy of it under a name of its   *)
(* own, and a copy in a dependency directory.                              *)
(***************************************************************************)
EXTENDS Authority, TLC

CONSTANTS rev1, rev2, also2, num3, copy, dep, one, two, empty, p1, p2

MCLocOrder == <<copy, dep, num3, rev1, rev2, also2>>

Trailing(kind, n) == [kind |-> kind, n |-> n]

Widget(stem, tail) == [stem |-> stem, base |-> "widget", tail |-> tail]

MCNameOf ==
  copy :> Widget("widget copy", <<Trailing("word", 0)>>) @@
  dep :> [stem |-> "dep", base |-> "dep", tail |-> <<>>] @@
  num3 :> Widget("widget_3", <<Trailing("num", 3)>>) @@
  rev1 :> Widget("widget_rev1", <<Trailing("rev", 1)>>) @@
  rev2 :> Widget("widget_rev2", <<Trailing("rev", 2)>>) @@
  also2 :> Widget("widget_v2", <<Trailing("rev", 2)>>)

MCContentOf ==
  copy :> {two, empty} @@ dep :> {two} @@ num3 :> {empty} @@
  rev1 :> {one} @@ rev2 :> {two} @@ also2 :> {one}

Tree(present) == [l \in Locator |-> IF l \in DOMAIN present THEN present[l] ELSE Gone]

MCTrees ==
  {Tree(copy :> two @@ rev2 :> two)}

Workers == Permutations(Process)
=============================================================================
