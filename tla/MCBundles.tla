----------------------------- MODULE MCBundles -----------------------------
(***************************************************************************)
(* Three Gysts in a row: alice hands bundles to bob, bob to carol, and     *)
(* each runs one command at a time.  The README's findings take one of the *)
(* other hands below, or two processes: alice and bob alone, and a carol   *)
(* who gets bundles of both, while both may call a source "eng".           *)
(***************************************************************************)
EXTENDS Bundles, TLC

CONSTANTS f, g, v1, v2

CONSTANT SameName  \* do both senders call their source alike?

MCOwn == [n \in Node |->
            CASE n = "alice" -> {"eng"}
              [] n = "bob"   -> IF SameName THEN {"eng"} ELSE {}
              [] OTHER       -> {}]

MCHands == {<<"alice", "bob">>, <<"bob", "carol">>}

MCHandsPair == {<<"alice", "bob">>}

MCHandsCollide == {<<"alice", "carol">>, <<"bob", "carol">>}

Interchangeable == Permutations(Version) \cup Permutations(Locator)
=============================================================================
