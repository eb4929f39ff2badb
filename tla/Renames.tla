------------------------------ MODULE Renames ------------------------------
(***************************************************************************)
(* Rename detection: internal/project/rename.go and the two queries of     *)
(* internal/store/relations.go it works on.                                *)
(*                                                                         *)
(* A row of the log is [claim, loc, dig, prior, pass]; a digest in Blank   *)
(* identifies nothing: that of an empty file, or none because policy keeps *)
(* the file from being read.  Locators are those of one source: the key of *)
(* a bucket holds the source, and passes of two sources have different     *)
(* clocks anyway.                                                          *)
(***************************************************************************)
EXTENDS Naturals, Sequences, FiniteSets, SequencesExt

CONSTANTS
  Blank,         \* digests that identify no content
  LocOrder,      \* the locators of the source, in string order
  MaxCandidates  \* arrivals offered for one disappearance

Absent(row) == row.claim = "absent"

\* Disappearances, each with the digest of the row it superseded.
Tombstones(rows) ==
  {[loc |-> rows[i].loc, dig |-> rows[rows[i].prior].dig, pass |-> rows[i].pass] :
     i \in {i \in DOMAIN rows : Absent(rows[i])}}

\* Mutant: every row of a file counts, so an edit arrives.
Arrivals_Edits(rows) ==
  {[loc |-> rows[i].loc, dig |-> rows[i].dig, pass |-> rows[i].pass] :
     i \in {i \in DOMAIN rows : rows[i].claim = "file"}}

\* Files at their first observation; a file that merely changed has not arrived.
Arrivals(rows) ==
  {[loc |-> rows[i].loc, dig |-> rows[i].dig, pass |-> rows[i].pass] :
     i \in {i \in DOMAIN rows :
              /\ rows[i].claim = "file"
              /\ \A j \in 1 .. i - 1 : rows[j].loc = rows[i].loc => Absent(rows[j])}}

\* Mutant: of whatever pass.
Bucket_AnyPass(side, s) == {t \in side : t.dig = s.dig}

\* Those of one side that share pass and content with s.
Bucket(side, s) == {t \in side : t.pass = s.pass /\ t.dig = s.dig}

Call(type, new, old) == [type |-> type, new |-> new.loc, old |-> old.loc, pass |-> new.pass]

\* The first few of a set of arrivals by locator.
Shown(arrived) ==
  LET order == SelectSeq(LocOrder, LAMBDA l : \E a \in arrived : a.loc = l)
      first == {order[i] : i \in 1 .. IF Len(order) < MaxCandidates THEN Len(order)
                                                                     ELSE MaxCandidates}
  IN  {a \in arrived : a.loc \in first}

\* A rename is one file gone and one arrived with a content no other on either
\* side of the pass has; otherwise candidates are offered.
DetectRenames(gone, arrived) ==
  LET G == {g \in gone : g.dig \notin Blank}
      A == {a \in arrived : a.dig \notin Blank}
  IN  UNION {LET as == Bucket(A, g)
             IN  IF Cardinality(as) = 1 /\ Cardinality(Bucket(G, g)) = 1
                 THEN {Call("renamed-from", a, g) : a \in as}
                 ELSE {Call("compare-set-with", a, g) : a \in Shown(as)} : g \in G}
=============================================================================
