------------------------------ MODULE Identity ------------------------------
(***************************************************************************)
(* Identity profiles: internal/identity/profile.go, which reads a name,    *)
(* and Build and rankMembers of internal/identity/project.go, which group  *)
(* the files that are present and say which of a group is current.         *)
(*                                                                         *)
(* A name is a base, folder and extension included, and what trails it: a  *)
(* token is a number behind a revision marker (widget_rev3), a bare number *)
(* (connector_124) or a qualifier (final, copy).  Its stem is the whole of *)
(* it as it is spelt.  In both the extension is in lower case: a.PDF and   *)
(* a.pdf have one stem.  Confidences are in percent.                       *)
(***************************************************************************)
EXTENDS Integers, Sequences, FiniteSets, SequencesExt, Filters

CONSTANTS
  LocOrder,  \* the files' locators, in string order
  None,      \* no file
  NameOf     \* per locator: [stem, base, tail], tail a sequence of [kind, n]

Locator == ToSet(LocOrder)

\* A number is what a run of digits spells.
Token == [kind : {"rev", "num", "word"}, n : Nat]

\* A stem has one reading.  Two stems of one reading differ in the marker of
\* their last number only.
ASSUME IdentityAssumption ==
  /\ LocOrder \in Seq(Locator) /\ None \notin Locator
  /\ \A l \in Locator : NameOf[l].tail \in Seq(Token)
  /\ \A k, l \in Locator : NameOf[k].stem = NameOf[l].stem => NameOf[k] = NameOf[l]
  /\ \A k, l \in Locator :
       /\ NameOf[k].base = NameOf[l].base /\ NameOf[k].tail = NameOf[l].tail
       /\ NameOf[k].stem # NameOf[l].stem
       => NameOf[k].tail # <<>> /\ Last(NameOf[k].tail).kind # "word"

Profiles == <<"content-path-exact", "suffix-as-version", "suffix-as-identity",
              "canonical-name", "compare-set">>

SupersedesThreshold == 80

NoLabel == -1

\* versionRules: an explicit marker, a bare number, neither.
AsVersion(name) ==
  LET last == Last(name.tail)
      key == <<name.base, Front(name.tail)>>
  IN  IF name.tail # <<>> /\ last.kind = "rev" THEN [key |-> key, label |-> last.n, conf |-> 88]
      ELSE IF name.tail # <<>> /\ last.kind = "num" THEN [key |-> key, label |-> last.n, conf |-> 35]
      ELSE [key |-> <<name.base, name.tail>>, label |-> NoLabel, conf |-> 100]

\* canonicalBase strips every token; content-path-exact looks at the path only.
Classify(p, l) ==
  IF p = "suffix-as-version" THEN AsVersion(NameOf[l])
  ELSE IF p = "canonical-name" THEN [key |-> NameOf[l].base, label |-> NoLabel, conf |-> 70]
  ELSE IF p = "compare-set" THEN [key |-> NameOf[l].base, label |-> NoLabel, conf |-> 40]
  ELSE IF p = "suffix-as-identity" THEN [key |-> NameOf[l].stem, label |-> NoLabel, conf |-> 100]
  ELSE [key |-> l, label |-> NoLabel, conf |-> 100]

Label(p, l) == Classify(p, l).label

\* Mutant: one confident member is enough.
Confident_Any(p, group) == \E l \in group : Classify(p, l).conf >= SupersedesThreshold

\* A group is only as trustworthy as its least confident member.
Confident(p, group) == \A l \in group : Classify(p, l).conf >= SupersedesThreshold

Numbered(p, group) == \A l \in group : Label(p, l) # NoLabel

\* The orders rankMembers may leave the group in: the sort by number is not
\* stable, so files of one number come in either order.
Orders(p, group) ==
  IF Numbered(p, group) /\ Confident(p, group)
  THEN {s \in SetToSeqs(group) : \A i, j \in DOMAIN s : i < j => Label(p, s[i]) <= Label(p, s[j])}
  ELSE {Pick(LocOrder, {i \in DOMAIN LocOrder : LocOrder[i] \in group})}

\* The member marked current; a group of one has one whatever the profile.
Current(p, order) ==
  IF (Numbered(p, ToSet(order)) /\ Confident(p, ToSet(order))) \/ Len(order) = 1
  THEN Last(order) ELSE None

RelationFor(p, newer, older) ==
  LET ordered == Label(p, older) # NoLabel /\ Label(p, newer) > Label(p, older)
  IN  [from |-> newer, to |-> older,
       type |-> IF p = "suffix-as-version" /\ ordered /\ Confident(p, {newer, older})
                THEN "supersedes" ELSE "compare-set-with"]

\* An artifact, and the relations between neighbours in its order.
Artifact(p, order) ==
  [members |-> ToSet(order), current |-> Current(p, order),
   relations |-> {RelationFor(p, order[i], order[i - 1]) : i \in 2 .. Len(order)}]

Groups(p, present) ==
  {{k \in present : Classify(p, k).key = Classify(p, l).key} : l \in present}

\* The groups that members of one number leave in several orders.
Tied(p, groups) == {g \in groups : \E s, t \in Orders(p, g) : s # t}

\* The plans Build may compute: a set of artifacts, one of each group.
Plans(p, present) ==
  LET groups == Groups(p, present)
      tied == Tied(p, groups)
      settled == UNION {Orders(p, g) : g \in groups \ tied}
      chosen == {o \in [tied -> UNION {Orders(p, g) : g \in tied}] :
                   \A g \in tied : o[g] \in Orders(p, g)}
  IN  {{Artifact(p, s) : s \in settled \cup {o[g] : g \in tied}} : o \in chosen}
=============================================================================
