---------------------------- MODULE MCInference ----------------------------
(***************************************************************************)
(* A folder with two files, a manifest and a .git, and a file in a         *)
(* dependency directory that an older scanner took for a project.  What    *)
(* they contain may also be written where the manifest is, which is then   *)
(* none.                                                                   *)
(***************************************************************************)
EXTENDS Inference, TLC

CONSTANTS text, empty, whole, p1, p2

MCLocOrder ==
  << <<"_env", Manifest>>, <<"_env", "x">>, <<"_env", "y">>, <<"venv", "z">> >>

MCManifestOf ==
  whole :> [valid |-> TRUE, id |-> <<"id", "widget">>, members |-> {<<"**">>, <<"/", "*", "z">>}] @@
  text :> [valid |-> FALSE]

MCContentOf ==
  [l \in ToSet(MCLocOrder) |-> IF IsManifest(l) THEN {whole, text}
                               ELSE IF Vendored(l) THEN {text} ELSE {text, empty}]

MCTrees ==
  LET z == <<"venv", "z">>
      m == <<"_env", Manifest>>
      x == <<"_env", "x">>
  IN  {x :> text, z :> text @@ x :> text @@ m :> whole}

MCAlike == {<< <<"_env">>, <<"venv", "z">> >>}

\* A "*" does not match across a "/", which the manifest's segment has.
MCAccepts ==
  LET names == {"venv", "_env", "x", "y", "z", Manifest}
  IN  [s \in names \cup {"*"} |-> IF s = "*" THEN names \ {Manifest} ELSE {s}]

MCMarked == {<<"_env">>}

MCOldMarked == {<<"venv">>}

Workers == Permutations(Process)
=============================================================================
