---------------------------- MODULE MCProjection ----------------------------
(***************************************************************************)
(* Small databases for Projection: two files.  The first is observed twice *)
(* in different states; a manifest claim about it is in the log too, which *)
(* the fold must pass over.                                                *)
(***************************************************************************)
EXTENDS Projection

CONSTANTS a1, a2, b1, manifest, fileA, fileB, p1, p2

MCLocator == {fileA, fileB}

MCLocatorOf == [o \in Obs |-> IF o = b1 THEN fileB ELSE fileA]

MCFileStates == Obs \ {manifest}

MCState == {"draft", "final", "none", "unseen"}

MCStateOf == [o \in Obs \cup {NoObs} |->
                CASE o = a1 -> "draft" [] o = a2 -> "final" [] o = b1 -> "final"
                  [] o = NoObs -> "unseen" [] OTHER -> "none"]
=============================================================================
