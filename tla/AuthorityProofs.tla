--------------------------- MODULE AuthorityProofs ---------------------------
(***************************************************************************)
(* Proofs about module Authority, for every inventory, every profile and   *)
(* any number of overlapping commands.                                     *)
(***************************************************************************)
EXTENDS Authority, FilterProofs

-----------------------------------------------------------------------------
(* The resolver.                                                           *)

Inventory == [l \in Present |-> files[l]]

Artifacts == IF active = None THEN {} ELSE policies[active].artifacts

\* What the resolver takes for one thing is what is one thing.
LEMMA PeersAreSame ==
  ASSUME NEW l \in Present \ Vendored
  PROVE  Peers(Inventory, Artifacts, l) \cap Locator = Same(l)
<1>1. l \in Locator /\ l \in DOMAIN Inventory /\ DOMAIN Inventory = Present
  BY DEF Inventory, Present
<1>2. \A k \in Locator : k \in Copies(Inventory, l) <=>
        /\ files[k] = files[l] /\ files[k] \notin Blank \cup {Gone} /\ k \notin Vendored
  BY <1>1 DEF Copies, Inventory, Present
<1>3. \A k \in Locator :
        (\E a \in GroupOf(Artifacts, l) : k \in a.members)
          <=> (active # None /\ \E a \in policies[active].artifacts : {k, l} \subseteq a.members)
  BY DEF GroupOf, Artifacts
<1> QED BY <1>1, <1>2, <1>3 DEF Peers, Same

\* The subjects of assertions are finitely many.
LEMMA SubjectsFinite ==
  ASSUME NEW kind, NEW said, NEW n \in Nat, DOMAIN said = 1..n
  PROVE  IsFiniteSet(Subjects(kind, said))
<1> DEFINE spoken == {i \in DOMAIN said : said[i].kind = kind /\ ~ said[i].retracted}
           loc == [i \in spoken |-> said[i].loc]
           T == Subjects(kind, said)
<1>1. IsFiniteSet(spoken)
  <2>1. IsFiniteSet(1..n)
    BY FS_Interval
  <2>2. spoken \in SUBSET (1..n)
    OBVIOUS
  <2> HIDE DEF spoken
  <2> QED BY <2>1, <2>2, FS_Subset
<1>2. loc \in Surjection(spoken, T)
  BY DEF Subjects, Surjection
<1> HIDE DEF spoken, loc, T
<1>3. IsFiniteSet(T)
  BY <1>1, <1>2, FS_Surjection
<1> QED BY <1>3 DEF T

\* Assertions are about files there may be.
SaidOK == \E n \in Nat : DOMAIN assertions = 1..n /\ \A i \in DOMAIN assertions : assertions[i].loc \in Locator

LEMMA SubjectsSay ==
  ASSUME NEW kind, NEW l
  PROVE  l \in Subjects(kind, assertions) <=> Says(kind, l)
BY DEF Subjects, Says

\* What the resolver answers of a file when it read what is there.
LEMMA ResolvedHears ==
  ASSUME SaidOK, NEW l \in Present \ Vendored
  PROVE  LET row == Resolve(Inventory, Artifacts, assertions)[l]
         IN  /\ \A k \in Same(l) : Says("authority", k) /\ ~ Says("not-authority", k) =>
                  /\ row.basis = "explicit"
                  /\ row.of \in {k, None}
                  /\ row.of = None => \E j \in Same(l) \ {k} : Says("authority", j)
             /\ row.of # None => ~ Says("not-authority", row.of)
             /\ row.state = "declared" => Says("authority", row.of)
<1> DEFINE declared == Peers(Inventory, Artifacts, l) \cap Declared(assertions)
           likely == Likely(Artifacts, assertions, l)
           row == Resolve(Inventory, Artifacts, assertions)[l]
<1>1. row = ResolveOne(Inventory, Artifacts, assertions, l)
  BY DEF Resolve, Inventory
<1>2. declared = {k \in Same(l) : Says("authority", k) /\ ~ Says("not-authority", k)}
  <2>1. Declared(assertions) \subseteq Locator
    BY DEF Declared, Subjects, SaidOK
  <2>2. \A k : k \in Declared(assertions) <=> Says("authority", k) /\ ~ Says("not-authority", k)
    BY SubjectsSay DEF Declared
  <2>3. declared = Same(l) \cap Declared(assertions)
    BY <2>1, PeersAreSame
  <2> QED BY <2>2, <2>3
<1>3. IsFiniteSet(declared)
  <2>1. IsFiniteSet(Subjects("authority", assertions))
    BY SubjectsFinite DEF SaidOK
  <2>2. declared \in SUBSET Subjects("authority", assertions)
    BY DEF Declared
  <2> HIDE DEF declared
  <2> QED BY <2>1, <2>2, FS_Subset
<1>4. \A k \in declared : k # None
  BY <1>2, IdentityAssumption DEF Same
<1>5. CASE Cardinality(declared) = 1
  <2>1. PICK k : declared = {k}
    <3> HIDE DEF declared
    <3> QED BY <1>3, <1>5, FS_Singleton
  <2>2. row = Row("declared", "explicit", CHOOSE j \in declared : TRUE)
    BY <1>1, <1>5 DEF ResolveOne
  <2>3. row.state = "declared" /\ row.basis = "explicit" /\ row.of = k
    <3>1. (CHOOSE j \in declared : TRUE) = k
      <4> HIDE DEF declared
      <4> QED BY <2>1
    <3> HIDE DEF declared, row
    <3> QED BY <2>2, <3>1 DEF Row
  <2> HIDE DEF declared, row
  <2>4. \A j \in Same(l) : Says("authority", j) /\ ~ Says("not-authority", j) => j = k
    BY <1>2, <2>1
  <2>5. Says("authority", k) /\ ~ Says("not-authority", k) /\ k # None
    BY <1>2, <1>4, <2>1
  <2> QED BY <2>3, <2>4, <2>5 DEF row
<1>6. CASE Cardinality(declared) # 1 /\ declared # {}
  <2>1. row = Row("multiple", "explicit", None)
    BY <1>1, <1>6 DEF ResolveOne
  <2>2. row.state = "multiple" /\ row.basis = "explicit" /\ row.of = None
    <3> HIDE DEF row
    <3> QED BY <2>1 DEF Row
  <2>3. ASSUME NEW k \in declared PROVE \E j \in declared : j # k
    <3>1. declared # {k}
      <4> HIDE DEF declared
      <4> QED BY <1>6, FS_Singleton
    <3> HIDE DEF declared
    <3> QED BY <2>3, <3>1
  <2> HIDE DEF declared, row
  <2> QED BY <1>2, <2>2, <2>3 DEF row
<1>7. CASE declared = {}
  <2>1. Cardinality(declared) # 1
    <3> HIDE DEF declared
    <3> QED BY <1>7, FS_EmptySet
  <2>2. \/ row = Row("likely", "identity-profile", (CHOOSE a \in likely : TRUE).current) /\ likely # {}
        \/ \E state \in {"multiple", "none"} : row = Row(state, "", None)
    BY <1>1, <1>7, <2>1 DEF ResolveOne
  <2> DEFINE current == (CHOOSE a \in likely : TRUE).current
  <2>3. likely # {} => ~ Says("not-authority", current)
    <3>1. likely # {} => (CHOOSE a \in likely : TRUE) \in likely
      <4> HIDE DEF likely
      <4> QED OBVIOUS
    <3>2. \A a \in likely : a.current \notin Subjects("not-authority", assertions)
      BY DEF Likely
    <3> HIDE DEF likely
    <3> QED BY <3>1, <3>2, SubjectsSay
  <2>4. row.state # "declared" /\ (row.of # None => ~ Says("not-authority", row.of))
    <3>1. row.state # "declared" /\ row.of \in {current, None} /\ (row.of # None => likely # {})
      <4> HIDE DEF likely, row, current
      <4>1. \/ row = Row("likely", "identity-profile", current) /\ likely # {}
            \/ \E state \in {"multiple", "none"} : row = Row(state, "", None)
        BY <2>2 DEF current
      <4>2. ASSUME row = Row("likely", "identity-profile", current)
            PROVE  row.state = "likely" /\ row.of = current
        BY <4>2 DEF Row
      <4>3. ASSUME NEW state \in {"multiple", "none"}, row = Row(state, "", None)
            PROVE  row.state # "declared" /\ row.of = None
        BY <4>3 DEF Row
      <4> QED BY <4>1, <4>2, <4>3
    <3> HIDE DEF likely, row, current
    <3> QED BY <2>3, <3>1
  <2> HIDE DEF declared, row
  <2> QED BY <1>2, <1>7, <2>4 DEF row
<1> QED BY <1>5, <1>6, <1>7

-----------------------------------------------------------------------------
(* What a projection has read.                                             *)

Projecting == {"files", "policy", "members", "said", "replace"}

\* While nothing changes under its reads, what a projection has read is what is
\* there.
Fits(w) ==
  /\ "pc" \in DOMAIN w
  /\ w.pc \in Projecting => "calm" \in DOMAIN w
  /\ w.pc = "assert" => w.loc \in Locator
  /\ w.pc \in {"policy", "members", "said"} /\ w.calm => w.inventory = Inventory
  /\ w.pc = "members" /\ w.calm => active # None /\ w.version = active
  /\ w.pc = "said" /\ w.calm => w.artifacts = Artifacts
  /\ w.pc = "replace" /\ w.calm => w.rows = Resolve(Inventory, Artifacts, assertions)

Heard(p) == Fits(run[p])

RunIsFunction == run = [p \in Process |-> run[p]]

HeardInv ==
  /\ SaidOK
  /\ RunIsFunction
  /\ \A p \in Process : Heard(p)

readVars == <<files, policies, active, assertions>>

LEMMA HeardInvInit == Init => HeardInv
<1> SUFFICES ASSUME Init PROVE HeardInv
  OBVIOUS
<1>1. SaidOK
  <2>1. DOMAIN assertions = 1..0
    BY DEF Init
  <2> QED BY <2>1 DEF SaidOK
<1>2. RunIsFunction
  BY DEF Init, RunIsFunction
<1>3. \A p \in Process : Heard(p)
  BY DEF Init, Idle, Heard, Fits, Projecting
<1> QED BY <1>1, <1>2, <1>3 DEF HeardInv

\* A step that leaves the tables alone, of one process.
LEMMA HeardGoto ==
  ASSUME HeardInv, NEW p \in Process, NEW step, Goto(p, step), UNCHANGED readVars, Fits(step)
  PROVE  HeardInv'
<1>1. SaidOK'
  BY DEF HeardInv, SaidOK, readVars
<1>2. RunIsFunction'
  BY DEF HeardInv, RunIsFunction, Goto
<1>3. run'[p] = step /\ \A q \in Process \ {p} : run'[q] = run[q]
  BY DEF HeardInv, RunIsFunction, Goto
<1>4. Inventory' = Inventory
  BY DEF Inventory, Present, readVars
<1>5. Artifacts' = Artifacts
  BY DEF Artifacts, readVars
<1>6. active' = active /\ assertions' = assertions
  BY DEF readVars
<1>7. Resolve(Inventory, Artifacts, assertions)' = Resolve(Inventory, Artifacts, assertions)
  BY <1>4, <1>5, <1>6
<1>8. ASSUME NEW q \in Process PROVE Heard(q)'
  <2>1. CASE q = p
    BY <1>3, <1>4, <1>5, <1>6, <1>7, <2>1 DEF Heard, Fits
  <2>2. CASE q # p
    <3>1. Heard(q)
      BY DEF HeardInv
    <3> QED BY <1>3, <1>4, <1>5, <1>6, <1>7, <2>2, <3>1 DEF Heard, Fits
  <2> QED BY <2>1, <2>2
<1> QED BY <1>1, <1>2, <1>8 DEF HeardInv

\* A step that changes the tables: what others have read is out of date.
LEMMA HeardMoves ==
  ASSUME HeardInv, NEW p \in Process, NEW step, Moves(p, step), SaidOK',
         "pc" \in DOMAIN step, step.pc # "assert",
         step.pc \in Projecting => step.pc = "files" /\ "calm" \in DOMAIN step
  PROVE  HeardInv'
<1>1. RunIsFunction'
  BY DEF RunIsFunction, Moves
<1>2. run'[p] = step
  BY DEF Moves
<1>3. ASSUME NEW q \in Process \ {p}
      PROVE  /\ "pc" \in DOMAIN run'[q]
             /\ run'[q].pc \in Projecting => "calm" \in DOMAIN run'[q] /\ ~ run'[q].calm
             /\ run'[q].pc = "assert" => run'[q].loc \in Locator
  <2>1. Heard(q)
    BY DEF HeardInv
  <2>2. CASE "calm" \in DOMAIN run[q]
    <3>1. run'[q] = [run[q] EXCEPT !.calm = FALSE]
      BY <2>2 DEF Moves
    <3>2. run[q].pc = "assert" => run[q].loc \in Locator /\ "pc" \in DOMAIN run[q]
      BY <2>1 DEF Heard, Fits
    <3>3. /\ "pc" \in DOMAIN run[q] /\ DOMAIN run'[q] = DOMAIN run[q]
          /\ run'[q].pc = run[q].pc /\ run'[q].loc = run[q].loc /\ ~ run'[q].calm
      BY <2>1, <2>2, <3>1 DEF Heard, Fits
    <3> QED BY <2>2, <3>2, <3>3
  <2>3. CASE "calm" \notin DOMAIN run[q]
    <3>1. run'[q] = run[q]
      BY <2>3 DEF Moves
    <3> QED BY <2>1, <2>3, <3>1 DEF Heard, Fits
  <2> QED BY <2>2, <2>3
<1>4. ASSUME NEW q \in Process PROVE Heard(q)'
  BY <1>2, <1>3 DEF Heard, Fits, Projecting
<1> QED BY <1>1, <1>4 DEF HeardInv

-----------------------------------------------------------------------------
(* Every step keeps it.                                                    *)

LEMMA HeardInvStep == HeardInv /\ [Next]_vars => HeardInv'
<1> SUFFICES ASSUME HeardInv, [Next]_vars PROVE HeardInv'
  OBVIOUS
<1> USE DEF tables
<1>s. UNCHANGED readVars => SaidOK'
  BY DEF HeardInv, SaidOK, readVars
<1>1. ASSUME NEW p \in Process, Scan(p) PROVE HeardInv'
  <2>1. SaidOK'
    BY <1>1 DEF Scan, HeardInv, SaidOK
  <2>2. Moves(p, ProjectFrom)
    BY <1>1 DEF Scan
  <2> QED BY <2>1, <2>2, HeardMoves DEF ProjectFrom
<1>2. ASSUME NEW p \in Process, AssertKind(p) PROVE HeardInv'
  <2>1. PICK kind \in {"authority", "not-authority"}, l \in Present :
          Goto(p, [pc |-> "assert", kind |-> kind, loc |-> l])
    BY <1>2 DEF AssertKind
  <2>2. Fits([pc |-> "assert", kind |-> kind, loc |-> l])
    BY DEF Fits, Projecting, Present
  <2>3. UNCHANGED readVars
    BY <1>2 DEF AssertKind, readVars
  <2> QED BY <2>1, <2>2, <2>3, HeardGoto
<1>3. ASSUME NEW p \in Process, InsertAssertion(p) PROVE HeardInv'
  <2>1. run[p].loc \in Locator
    BY <1>3 DEF InsertAssertion, HeardInv, Heard, Fits
  <2> DEFINE new == [kind |-> run[p].kind, loc |-> run[p].loc, retracted |-> FALSE]
  <2>2. new.loc \in Locator
    BY <2>1
  <2>3. SaidOK'
    BY <1>3, <2>2 DEF InsertAssertion, HeardInv, SaidOK
  <2>4. Moves(p, ProjectFrom)
    BY <1>3 DEF InsertAssertion
  <2> QED BY <2>3, <2>4, HeardMoves DEF ProjectFrom
<1>4. ASSUME NEW p \in Process, Retract(p) PROVE HeardInv'
  <2>1. PICK i \in DOMAIN assertions : assertions' = [assertions EXCEPT ![i].retracted = TRUE]
    BY <1>4 DEF Retract
  <2>2. SaidOK'
    BY <2>1 DEF HeardInv, SaidOK
  <2>3. Moves(p, ProjectFrom)
    BY <1>4 DEF Retract
  <2> QED BY <2>2, <2>3, HeardMoves DEF ProjectFrom
<1>5. ASSUME NEW p \in Process, Apply(p) PROVE HeardInv'
  <2>1. PICK todo : Goto(p, [pc |-> "build", todo |-> todo])
    BY <1>5 DEF Apply
  <2>2. Fits([pc |-> "build", todo |-> todo])
    BY DEF Fits, Projecting
  <2>3. UNCHANGED readVars
    BY <1>5 DEF Apply, readVars
  <2> QED BY <2>1, <2>2, <2>3, HeardGoto
<1>6. ASSUME NEW p \in Process, Build(p) PROVE HeardInv'
  <2>1. PICK plan : Goto(p, [pc |-> "apply", todo |-> run[p].todo, plan |-> plan])
    BY <1>6 DEF Build
  <2>2. Fits([pc |-> "apply", todo |-> run[p].todo, plan |-> plan])
    BY DEF Fits, Projecting
  <2>3. UNCHANGED readVars
    BY <1>6 DEF Build, readVars
  <2> QED BY <2>1, <2>2, <2>3, HeardGoto
<1>7. ASSUME NEW p \in Process, ApplyIdentityPlan(p) PROVE HeardInv'
  <2> DEFINE step == IF Tail(run[p].todo) = <<>> THEN Idle
                     ELSE [pc |-> "build", todo |-> Tail(run[p].todo)]
  <2>1. Moves(p, step)
    BY <1>7 DEF ApplyIdentityPlan
  <2>2. SaidOK'
    BY <1>7 DEF ApplyIdentityPlan, HeardInv, SaidOK
  <2>3. "pc" \in DOMAIN step /\ step.pc \in {"idle", "build"}
    BY DEF Idle
  <2> HIDE DEF step
  <2> QED BY <2>1, <2>2, <2>3, HeardMoves DEF Projecting
<1>8. ASSUME NEW p \in Process, ReadFiles(p) PROVE HeardInv'
  <2> DEFINE step == [pc |-> "policy", calm |-> run[p].calm,
                      inventory |-> [l \in Present |-> files[l]]]
  <2>1. Goto(p, step) /\ UNCHANGED readVars
    BY <1>8 DEF ReadFiles, readVars
  <2>2. Fits(step)
    BY DEF Fits, Projecting, Inventory
  <2> HIDE DEF step
  <2> QED BY <2>1, <2>2, HeardGoto
<1>9. ASSUME NEW p \in Process, ReadPolicy(p) PROVE HeardInv'
  <2> DEFINE step == IF active = None
                     THEN [pc |-> "said", artifacts |-> {},
                           inventory |-> run[p].inventory, calm |-> run[p].calm]
                     ELSE [pc |-> "members", version |-> active,
                           inventory |-> run[p].inventory, calm |-> run[p].calm]
  <2>1. Goto(p, step) /\ UNCHANGED readVars
    BY <1>9 DEF ReadPolicy, readVars
  <2>2. run[p].pc = "policy" /\ Heard(p)
    BY <1>9 DEF ReadPolicy, HeardInv
  <2>3. Fits(step)
    BY <2>2 DEF Fits, Heard, Projecting, Artifacts
  <2> HIDE DEF step
  <2> QED BY <2>1, <2>3, HeardGoto
<1>10. ASSUME NEW p \in Process, ReadMembers(p) PROVE HeardInv'
  <2> DEFINE step == [pc |-> "said", artifacts |-> policies[run[p].version].artifacts,
                      inventory |-> run[p].inventory, calm |-> run[p].calm]
  <2>1. Goto(p, step) /\ UNCHANGED readVars
    BY <1>10 DEF ReadMembers, readVars
  <2>2. run[p].pc = "members" /\ Heard(p)
    BY <1>10 DEF ReadMembers, HeardInv
  <2>3. Fits(step)
    BY <2>2 DEF Fits, Heard, Projecting, Artifacts
  <2> HIDE DEF step
  <2> QED BY <2>1, <2>3, HeardGoto
<1>11. ASSUME NEW p \in Process, ReadAssertions(p) PROVE HeardInv'
  <2> DEFINE step == [pc |-> "replace", calm |-> run[p].calm,
                      rows |-> Resolve(run[p].inventory, run[p].artifacts, assertions)]
  <2>1. Goto(p, step) /\ UNCHANGED readVars
    BY <1>11 DEF ReadAssertions, readVars
  <2>2. run[p].pc = "said" /\ Heard(p)
    BY <1>11 DEF ReadAssertions, HeardInv
  <2>3. Fits(step)
    BY <2>2 DEF Fits, Heard, Projecting
  <2> HIDE DEF step
  <2> QED BY <2>1, <2>3, HeardGoto
<1>12. ASSUME NEW p \in Process, ReplaceFileAuthority(p) \/ Abandon(p) PROVE HeardInv'
  <2>1. Goto(p, Idle) /\ UNCHANGED readVars
    BY <1>12 DEF ReplaceFileAuthority, Abandon, readVars
  <2>2. Fits(Idle)
    BY DEF Fits, Projecting, Idle
  <2> QED BY <2>1, <2>2, HeardGoto
<1>13. CASE UNCHANGED vars
  <2>1. run' = run /\ Inventory' = Inventory /\ Artifacts' = Artifacts /\ active' = active
          /\ assertions' = assertions
    BY <1>13 DEF vars, Inventory, Artifacts, Present
  <2>2. Resolve(Inventory, Artifacts, assertions)' = Resolve(Inventory, Artifacts, assertions)
    BY <2>1
  <2>3. SaidOK' /\ RunIsFunction'
    BY <2>1 DEF HeardInv, SaidOK, RunIsFunction
  <2>4. ASSUME NEW q \in Process PROVE Heard(q)'
    <3>1. Heard(q)
      BY DEF HeardInv
    <3> QED BY <2>1, <2>2, <3>1 DEF Heard, Fits
  <2> QED BY <2>3, <2>4 DEF HeardInv
<1> QED BY <1>1, <1>2, <1>3, <1>4, <1>5, <1>6, <1>7, <1>8, <1>9, <1>10, <1>11, <1>12, <1>13
        DEF Next

\* A projection whose four reads nothing came between gives every person's word
\* its effect: authority.Project and the resolver.
THEOREM PersonsAreHeardAlways == Spec => PersonsAreHeard
<1>1. HeardInv => \A p \in Process :
        run[p].pc = "replace" /\ authority' = run[p].rows /\ run[p].calm =>
          authority' = Resolve(Inventory, Artifacts, assertions)
  BY DEF HeardInv, Heard, Fits
<1>2. HeardInv =>
        [\A p \in Process :
           run[p].pc = "replace" /\ authority' = run[p].rows /\ run[p].calm =>
             \A l \in Present \ Vendored :
               /\ \A k \in Same(l) : Says("authority", k) /\ ~ Says("not-authority", k) =>
                    /\ authority'[l].basis = "explicit"
                    /\ authority'[l].of \in {k, None}
                    /\ authority'[l].of = None =>
                         \E j \in Same(l) \ {k} : Says("authority", j)
               /\ authority'[l].of # None => ~ Says("not-authority", authority'[l].of)
               /\ authority'[l].state = "declared" => Says("authority", authority'[l].of)]_vars
  BY <1>1, ResolvedHears DEF HeardInv
<1> QED BY <1>2, HeardInvInit, HeardInvStep, PTL DEF Spec, PersonsAreHeard

-----------------------------------------------------------------------------
(* What a profile makes of names.                                          *)

\* An artifact that is what a person would read off the names of its members.
ArtifactOK(a) ==
  /\ a.members \subseteq Locator
  /\ a.current \in a.members \cup {None}
  /\ \A r \in a.relations : r.type = "supersedes" =>
       SameButRevision(r.from, r.to) /\ Revision(r.from) > Revision(r.to)
  /\ (a.current # None) => \A l \in a.members \ {a.current} :
       SameButRevision(a.current, l) /\ Revision(a.current) >= Revision(l)

\* And a set of them that share no file.
PlanOK(plan) ==
  /\ \A a \in plan : ArtifactOK(a)
  /\ \A a, b \in plan : a # b => a.members \cap b.members = {}

LEMMA LastElement ==
  ASSUME NEW X, NEW s \in Seq(X), s # <<>>
  PROVE  Len(s) \in Nat \ {0} /\ Last(s) = s[Len(s)] /\ Last(s) \in X
<1>1. Len(s) # 0
  BY EmptySeq
<1>2. Len(s) \in 1 .. Len(s)
  BY <1>1
<1> QED BY <1>1, <1>2 DEF Last

\* A number that may say which of two files is the newer stands behind a marker,
\* and the profile is the one that reads such numbers.
LEMMA MarkedRevision ==
  ASSUME NEW p, NEW l \in Locator, Label(p, l) # NoLabel,
         Classify(p, l).conf >= SupersedesThreshold
  PROVE  /\ p = "suffix-as-version"
         /\ NameOf[l].tail # <<>> /\ Last(NameOf[l].tail).kind = "rev"
         /\ Label(p, l) = Revision(l) /\ Revision(l) \in Nat
         /\ Classify(p, l).key = <<NameOf[l].base, Front(NameOf[l].tail)>>
<1> DEFINE name == NameOf[l]
<1>1. p = "suffix-as-version"
  BY DEF Label, Classify
<1>2. Classify(p, l) = AsVersion(name)
  BY <1>1 DEF Classify
<1>3. name.tail # <<>> /\ Last(name.tail).kind = "rev"
  <2>1. SUFFICES ASSUME ~(name.tail # <<>> /\ Last(name.tail).kind = "rev") PROVE FALSE
    OBVIOUS
  <2>2. \/ AsVersion(name).label = NoLabel
        \/ AsVersion(name).conf = 35
    BY <2>1 DEF AsVersion
  <2> QED BY <1>2, <2>2 DEF Label, SupersedesThreshold
<1>4. /\ AsVersion(name).label = Last(name.tail).n
      /\ AsVersion(name).key = <<name.base, Front(name.tail)>>
  BY <1>3 DEF AsVersion
<1>5. Last(name.tail).n \in Nat
  <2>1. name.tail \in Seq(Token)
    BY IdentityAssumption
  <2>2. Last(name.tail) \in Token
    BY <1>3, <2>1, LastElement
  <2> QED BY <2>2 DEF Token
<1> QED BY <1>1, <1>2, <1>3, <1>4, <1>5 DEF Label, Revision

\* Files of one key with such a number differ in it only.
LEMMA RevisionsOfOneKey ==
  ASSUME NEW p, NEW k \in Locator, NEW l \in Locator,
         Label(p, k) # NoLabel, Classify(p, k).conf >= SupersedesThreshold,
         Label(p, l) # NoLabel, Classify(p, l).conf >= SupersedesThreshold,
         Classify(p, k).key = Classify(p, l).key
  PROVE  SameButRevision(k, l)
<1>1. /\ NameOf[k].tail # <<>> /\ Last(NameOf[k].tail).kind = "rev"
      /\ Classify(p, k).key = <<NameOf[k].base, Front(NameOf[k].tail)>>
  BY MarkedRevision
<1>2. /\ NameOf[l].tail # <<>> /\ Last(NameOf[l].tail).kind = "rev"
      /\ Classify(p, l).key = <<NameOf[l].base, Front(NameOf[l].tail)>>
  BY MarkedRevision
<1>3. <<NameOf[k].base, Front(NameOf[k].tail)>> = <<NameOf[l].base, Front(NameOf[l].tail)>>
  BY <1>1, <1>2
<1>4. NameOf[k].base = NameOf[l].base /\ Front(NameOf[k].tail) = Front(NameOf[l].tail)
  BY <1>3
<1> QED BY <1>1, <1>2, <1>4 DEF SameButRevision

\* A relation that says supersedes is between two such files, the newer first.
LEMMA SupersedesIsMarked ==
  ASSUME NEW p, NEW newer \in Locator, NEW older \in Locator,
         Classify(p, newer).key = Classify(p, older).key,
         RelationFor(p, newer, older).type = "supersedes"
  PROVE  SameButRevision(newer, older) /\ Revision(newer) > Revision(older)
<1>1. /\ Label(p, older) # NoLabel /\ Label(p, newer) > Label(p, older)
      /\ Confident(p, {newer, older})
  BY DEF RelationFor
<1>2. /\ Classify(p, newer).conf >= SupersedesThreshold
      /\ Classify(p, older).conf >= SupersedesThreshold
  BY <1>1 DEF Confident
<1>3. Label(p, older) = Revision(older) /\ Revision(older) \in Nat
  BY <1>1, <1>2, MarkedRevision
<1>4. Label(p, newer) # NoLabel
  BY <1>1, <1>3 DEF NoLabel
<1>5. Label(p, newer) = Revision(newer)
  BY <1>2, <1>4, MarkedRevision
<1> QED BY <1>1, <1>2, <1>3, <1>4, <1>5, RevisionsOfOneKey

LEMMA LocatorFinite == IsFiniteSet(Locator)
<1> DEFINE n == Len(LocOrder)
           f == [i \in 1 .. n |-> LocOrder[i]]
<1>1. n \in Nat /\ DOMAIN LocOrder = 1 .. n
  BY IdentityAssumption
<1>2. f \in Surjection(1 .. n, Locator)
  BY <1>1 DEF Locator, ToSet, Surjection
<1>3. IsFiniteSet(1 .. n)
  BY <1>1, FS_Interval
<1> HIDE DEF n, f
<1> QED BY <1>2, <1>3, FS_Surjection

\* An order of a group has its members and no others.
LEMMA OrderHasGroup ==
  ASSUME NEW p, NEW g \in SUBSET Locator, NEW o \in Orders(p, g)
  PROVE  /\ o \in Seq(Locator) /\ ToSet(o) = g
         /\ Numbered(p, g) /\ Confident(p, g) =>
              \A i, j \in DOMAIN o : i < j => Label(p, o[i]) <= Label(p, o[j])
<1>1. CASE Numbered(p, g) /\ Confident(p, g)
  <2> DEFINE n == Cardinality(g)
  <2>1. IsFiniteSet(g) /\ n \in Nat
    BY LocatorFinite, FS_Subset, FS_CardinalityType
  <2>2. /\ o \in SetToSeqs(g)
        /\ \A i, j \in DOMAIN o : i < j => Label(p, o[i]) <= Label(p, o[j])
    BY <1>1 DEF Orders
  <2>3. o \in [1 .. n -> g] /\ \A i, j \in 1 .. n : i # j => o[i] # o[j]
    BY <2>2 DEF SetToSeqs
  <2>4. o \in Injection(1 .. n, g)
    BY <2>3 DEF Injection, IsInjective
  <2>5. IsFiniteSet(1 .. n) /\ Cardinality(1 .. n) = n
    BY <2>1, FS_Interval
  <2>6. o \in Surjection(1 .. n, g)
    BY <2>1, <2>4, <2>5, FS_Injection
  <2> HIDE DEF n
  <2>7. ToSet(o) = g
    BY <2>3, <2>6 DEF ToSet, Surjection
  <2>8. o \in Seq(Locator)
    <3>1. o \in [1 .. n -> Locator]
      BY <2>3
    <3> QED BY <2>1, <3>1, SeqDef
  <2> QED BY <2>2, <2>7, <2>8
<1>2. CASE ~(Numbered(p, g) /\ Confident(p, g))
  <2>1. o = Pick(LocOrder, {i \in DOMAIN LocOrder : LocOrder[i] \in g})
    BY <1>2 DEF Orders
  <2>2. o = Filter(LocOrder, g)
    BY <2>1, FilterIsPick
  <2>3. Filter(LocOrder, g) \in Seq(Locator) /\ ToSet(Filter(LocOrder, g)) = Locator \cap g
    BY IdentityAssumption, FilterType, FilterElements DEF Locator
  <2> QED BY <1>2, <2>2, <2>3
<1> QED BY <1>1, <1>2

\* Files of one key.
GroupOK(p, g) ==
  /\ g \in SUBSET Locator /\ g # {}
  /\ \A k, l \in g : Classify(p, k).key = Classify(p, l).key

\* rankMembers and RelationFor make a sound artifact of a group.
LEMMA ArtifactSound ==
  ASSUME NEW p, NEW g, GroupOK(p, g), NEW o \in Orders(p, g)
  PROVE  Artifact(p, o).members = g /\ ArtifactOK(Artifact(p, o))
<1> DEFINE a == Artifact(p, o)
<1>1. g \in SUBSET Locator /\ g # {} /\ \A k, l \in g : Classify(p, k).key = Classify(p, l).key
  BY DEF GroupOK
<1>2. /\ o \in Seq(Locator) /\ ToSet(o) = g
      /\ Numbered(p, g) /\ Confident(p, g) =>
           \A i, j \in DOMAIN o : i < j => Label(p, o[i]) <= Label(p, o[j])
  BY <1>1, OrderHasGroup
<1>3. Len(o) \in Nat /\ DOMAIN o = 1 .. Len(o) /\ \A i \in 1 .. Len(o) : o[i] \in g
  BY <1>2 DEF ToSet
<1>4. Len(o) # 0
  <2>1. PICK k \in g : TRUE
    BY <1>1
  <2> QED BY <1>2, <1>3, <2>1 DEF ToSet
<1>5. Last(o) = o[Len(o)] /\ Last(o) \in g
  BY <1>3, <1>4 DEF Last
<1>6. a.members = g
  BY <1>2 DEF Artifact
<1>7. a.current = IF (Numbered(p, g) /\ Confident(p, g)) \/ Len(o) = 1 THEN Last(o) ELSE None
  BY <1>2 DEF Artifact, Current
<1>8. \A r \in a.relations : \E i \in 2 .. Len(o) : r = RelationFor(p, o[i], o[i - 1])
  BY DEF Artifact
<1> HIDE DEF a
<1>9. ASSUME NEW r \in a.relations, r.type = "supersedes"
      PROVE  SameButRevision(r.from, r.to) /\ Revision(r.from) > Revision(r.to)
  <2>1. PICK i \in 2 .. Len(o) : r = RelationFor(p, o[i], o[i - 1])
    BY <1>8
  <2> DEFINE newer == o[i]
             older == o[i - 1]
  <2>2. newer \in g /\ older \in g
    BY <1>3
  <2>3. r = RelationFor(p, newer, older)
    BY <2>1
  <2> HIDE DEF newer, older
  <2>4. r.from = newer /\ r.to = older
    BY <2>3 DEF RelationFor
  <2> QED BY <1>1, <1>9, <2>2, <2>3, <2>4, SupersedesIsMarked
<1>10. ASSUME a.current # None, NEW l \in g, l # a.current
       PROVE  SameButRevision(a.current, l) /\ Revision(a.current) >= Revision(l)
  <2>1. a.current = Last(o)
    BY <1>7, <1>10
  <2>2. PICK i \in 1 .. Len(o) : l = o[i]
    BY <1>2, <1>3 DEF ToSet
  <2>3. i < Len(o)
    BY <1>3, <1>5, <1>10, <2>1, <2>2
  <2>4. Numbered(p, g) /\ Confident(p, g)
    <3>1. Len(o) # 1
      BY <1>3, <2>2, <2>3
    <3> QED BY <1>7, <1>10, <3>1
  <2>5. Label(p, l) <= Label(p, a.current)
    BY <1>2, <1>3, <1>4, <1>5, <2>1, <2>2, <2>3, <2>4
  <2> DEFINE k == a.current
  <2>6. k \in Locator /\ l \in Locator /\ Classify(p, k).key = Classify(p, l).key
    BY <1>1, <1>5, <2>1
  <2>7. /\ Label(p, k) # NoLabel /\ Classify(p, k).conf >= SupersedesThreshold
        /\ Label(p, l) # NoLabel /\ Classify(p, l).conf >= SupersedesThreshold
    BY <1>5, <2>1, <2>4 DEF Numbered, Confident
  <2> HIDE DEF k
  <2>8. SameButRevision(k, l)
    BY <2>6, <2>7, RevisionsOfOneKey
  <2>9. /\ Label(p, k) = Revision(k) /\ Revision(k) \in Nat
        /\ Label(p, l) = Revision(l) /\ Revision(l) \in Nat
    BY <2>6, <2>7, MarkedRevision
  <2> QED BY <2>5, <2>8, <2>9 DEF k
<1>11. a.current \in g \cup {None}
  BY <1>5, <1>7
<1> QED BY <1>1, <1>6, <1>9, <1>10, <1>11 DEF ArtifactOK, a

\* So does Build of all the files that are present.
LEMMA PlanSound ==
  ASSUME NEW p, NEW present \in SUBSET Locator, NEW plan \in Plans(p, present)
  PROVE  PlanOK(plan)
<1> DEFINE groups == Groups(p, present)
<1>1. ASSUME NEW g \in groups PROVE GroupOK(p, g)
  <2>1. PICK l \in present :
          g = {k \in present : Classify(p, k).key = Classify(p, l).key}
    BY DEF Groups
  <2> QED BY <2>1 DEF GroupOK
<1>2. ASSUME NEW g \in groups, NEW h \in groups, g # h PROVE g \cap h = {}
  <2>1. PICK l \in present :
          g = {k \in present : Classify(p, k).key = Classify(p, l).key}
    BY DEF Groups
  <2>2. PICK m \in present :
          h = {k \in present : Classify(p, k).key = Classify(p, m).key}
    BY DEF Groups
  <2> QED BY <1>2, <2>1, <2>2
<1> DEFINE tied == Tied(p, groups)
           settled == UNION {Orders(p, g) : g \in groups \ tied}
<1>3. PICK o : /\ plan = {Artifact(p, s) : s \in settled \cup {o[g] : g \in tied}}
               /\ \A g \in tied : o[g] \in Orders(p, g)
  BY DEF Plans
<1>4. /\ tied \subseteq groups
      /\ \A g \in groups \ tied : \A s, t \in Orders(p, g) : s = t
  BY DEF Tied
<1>5. \A s \in settled : \E g \in groups \ tied : s \in Orders(p, g)
  OBVIOUS
<1> HIDE DEF groups, tied, settled
\* An artifact is made of a group in the one order it has, or the one chosen.
<1>6. ASSUME NEW a \in plan
      PROVE  \E g \in groups : \E s \in Orders(p, g) :
               a = Artifact(p, s) /\ (g \in tied => s = o[g])
  <2>1. PICK s \in settled \cup {o[g] : g \in tied} : a = Artifact(p, s)
    BY <1>3
  <2>2. CASE s \in settled
    BY <1>5, <2>1, <2>2
  <2>3. CASE s \in {o[g] : g \in tied}
    BY <1>3, <1>4, <2>1, <2>3
  <2> QED BY <2>1, <2>2, <2>3
<1>7. ASSUME NEW g \in groups, NEW s \in Orders(p, g)
      PROVE  Artifact(p, s).members = g /\ ArtifactOK(Artifact(p, s))
  BY <1>1, ArtifactSound
<1>8. ASSUME NEW a \in plan PROVE ArtifactOK(a)
  BY <1>6, <1>7
<1>9. ASSUME NEW a \in plan, NEW b \in plan, a # b PROVE a.members \cap b.members = {}
  <2>1. PICK g \in groups : \E s \in Orders(p, g) :
          a = Artifact(p, s) /\ (g \in tied => s = o[g])
    BY <1>6
  <2>2. PICK h \in groups : \E t \in Orders(p, h) :
          b = Artifact(p, t) /\ (h \in tied => t = o[h])
    BY <1>6
  <2>3. g # h
    <3> SUFFICES ASSUME g = h PROVE a = b
      BY <1>9
    <3> QED BY <1>4, <2>1, <2>2
  <2>4. a.members = g /\ b.members = h
    BY <1>7, <2>1, <2>2
  <2> QED BY <1>2, <2>3, <2>4
<1> QED BY <1>8, <1>9 DEF PlanOK

-----------------------------------------------------------------------------
(* What the resolver answers, whatever the age of what it read.             *)

RowsOK(rows) ==
  /\ DOMAIN rows \subseteq Locator
  /\ \A l \in DOMAIN rows :
       /\ rows[l].state \in {"declared", "likely", "multiple", "none"}
       /\ (rows[l].of # None) <=> (rows[l].state \in {"declared", "likely"})

LEMMA ResolvedTyped ==
  ASSUME NEW inventory, NEW artifacts, DOMAIN inventory \subseteq Locator, SaidOK
  PROVE  RowsOK(Resolve(inventory, artifacts, assertions))
<1> SUFFICES ASSUME NEW l \in DOMAIN inventory
             PROVE  LET row == ResolveOne(inventory, artifacts, assertions, l)
                    IN  /\ row.state \in {"declared", "likely", "multiple", "none"}
                        /\ (row.of # None) <=> (row.state \in {"declared", "likely"})
  BY DEF RowsOK, Resolve
<1> DEFINE declared == Peers(inventory, artifacts, l) \cap Declared(assertions)
           likely == Likely(artifacts, assertions, l)
           row == ResolveOne(inventory, artifacts, assertions, l)
           chosen == CHOOSE k \in declared : TRUE
           marked == (CHOOSE a \in likely : TRUE).current
<1>1. \/ row = Row("declared", "explicit", chosen) /\ Cardinality(declared) = 1
      \/ row = Row("likely", "identity-profile", marked) /\ likely # {}
      \/ row = Row("multiple", "explicit", None)
      \/ row = Row("multiple", "", None)
      \/ row = Row("none", "", None)
  BY DEF ResolveOne
<1>2. Cardinality(declared) = 1 => chosen # None
  <2> SUFFICES ASSUME Cardinality(declared) = 1 PROVE chosen # None
    OBVIOUS
  <2>1. declared \subseteq Locator
    BY DEF Declared, Subjects, SaidOK
  <2> HIDE DEF declared
  <2>2. declared # {}
    BY FS_EmptySet
  <2>3. chosen \in declared
    BY <2>2
  <2> QED BY <2>1, <2>3, IdentityAssumption
<1>3. likely # {} => marked # None
  <2>1. \A a \in likely : a.current # None
    BY DEF Likely
  <2> HIDE DEF likely
  <2> QED BY <2>1
<1> HIDE DEF declared, likely, row, chosen, marked
<1>4. /\ row.state \in {"declared", "likely", "multiple", "none"}
      /\ (row.of # None) <=> (row.state \in {"declared", "likely"})
  <2>1. ASSUME NEW state, NEW basis, NEW of, row = Row(state, basis, of)
        PROVE  row.state = state /\ row.of = of
    BY <2>1 DEF Row
  <2>2. CASE row = Row("declared", "explicit", chosen) /\ Cardinality(declared) = 1
    <3>1. row.state = "declared" /\ row.of = chosen
      BY <2>1, <2>2
    <3> QED BY <1>2, <2>2, <3>1
  <2>3. CASE row = Row("likely", "identity-profile", marked) /\ likely # {}
    <3>1. row.state = "likely" /\ row.of = marked
      BY <2>1, <2>3
    <3> QED BY <1>3, <2>3, <3>1
  <2>4. ASSUME NEW state \in {"multiple", "none"}, NEW basis, row = Row(state, basis, None)
        PROVE  row.state \in {"multiple", "none"} /\ row.of = None
    BY <2>1, <2>4
  <2> QED BY <1>1, <2>2, <2>3, <2>4
<1> QED BY <1>4 DEF row

-----------------------------------------------------------------------------
(* The type invariant: what a command carries from step to step is as well  *)
(* typed as the tables are.                                                 *)

Versions == {<<"label">>} \cup {<<"ip", Profiles[i]>> : i \in DOMAIN Profiles}
                          \cup {<<"verify", Profiles[i]>> : i \in DOMAIN Profiles}

\* What of the profiles a command is still to apply, one at least.
Todo == Seq([version : Versions, profile : ToSet(Profiles)]) \ {<<>>}

StepOK(w, versions) ==
  \/ w = Idle
  \/ w \in [pc : {"assert"}, kind : {"authority", "not-authority"}, loc : Locator]
  \/ w \in [pc : {"build"}, todo : Todo]
  \/ /\ DOMAIN w = {"pc", "todo", "plan"} /\ w.pc = "apply"
     /\ w.todo \in Todo /\ PlanOK(w.plan)
  \/ DOMAIN w = {"pc", "calm"} /\ w.pc = "files"
  \/ /\ DOMAIN w = {"pc", "calm", "inventory"} /\ w.pc = "policy"
     /\ DOMAIN w.inventory \subseteq Locator
  \/ /\ DOMAIN w = {"pc", "calm", "inventory", "version"} /\ w.pc = "members"
     /\ DOMAIN w.inventory \subseteq Locator /\ w.version \in versions
  \/ /\ DOMAIN w = {"pc", "calm", "inventory", "artifacts"} /\ w.pc = "said"
     /\ DOMAIN w.inventory \subseteq Locator /\ PlanOK(w.artifacts)
  \/ /\ DOMAIN w = {"pc", "calm", "rows"} /\ w.pc = "replace"
     /\ RowsOK(w.rows)

FilesOK ==
  /\ files = [l \in Locator |-> files[l]]
  /\ \A l \in Locator : files[l] \in ContentOf[l] \cup {Gone}

PoliciesOK ==
  /\ active \in DOMAIN policies \cup {None}
  /\ active = None => policies = <<>>
  /\ DOMAIN policies \subseteq Versions
  /\ \A v \in DOMAIN policies :
       policies[v].profile \in ToSet(Profiles) /\ PlanOK(policies[v].artifacts)

TypeInv ==
  /\ FilesOK /\ PoliciesOK /\ SaidOK /\ RowsOK(authority)
  /\ RunIsFunction
  /\ \A p \in Process : StepOK(run[p], DOMAIN policies)

LEMMA TypeInvInit == Init => TypeInv
<1> SUFFICES ASSUME Init PROVE TypeInv
  OBVIOUS
<1>1. FilesOK
  BY AuthorityAssumption DEF Init, FilesOK
<1>2. PoliciesOK /\ RowsOK(authority)
  <2>1. DOMAIN <<>> = {}
    OBVIOUS
  <2> QED BY <2>1 DEF Init, PoliciesOK, RowsOK
<1>3. SaidOK /\ RunIsFunction
  BY HeardInvInit DEF HeardInv
<1>4. \A p \in Process : StepOK(run[p], DOMAIN policies)
  BY DEF Init, StepOK
<1> QED BY <1>1, <1>2, <1>3, <1>4 DEF TypeInv

LEMMA StepUndisturbed ==
  ASSUME NEW w, NEW versions, NEW more, StepOK(w, versions), versions \subseteq more,
         NEW v, v = w \/ ("calm" \in DOMAIN w /\ v = [w EXCEPT !.calm = FALSE])
  PROVE  StepOK(v, more)
<1>1. CASE v = w
  BY <1>1 DEF StepOK
<1>2. CASE "calm" \in DOMAIN w /\ v = [w EXCEPT !.calm = FALSE]
  <2>1. w # Idle /\ ~ w \in [pc : {"build"}, todo : Todo]
    BY <1>2 DEF Idle
  <2>2. ~ w \in [pc : {"assert"}, kind : {"authority", "not-authority"}, loc : Locator]
    BY <1>2
  <2>3. DOMAIN v = DOMAIN w /\ \A x \in DOMAIN w : x # "calm" => v[x] = w[x]
    BY <1>2
  <2>4. "calm" \in DOMAIN w
    BY <1>2
  <2> QED BY <2>1, <2>2, <2>3, <2>4 DEF StepOK
<1> QED BY <1>1, <1>2

\* A step of one process, which the steps of the others do not mind.
LEMMA StepsStay ==
  ASSUME TypeInv, NEW p \in Process, NEW step, Goto(p, step) \/ Moves(p, step),
         NEW more, more = DOMAIN policies', DOMAIN policies \subseteq more, StepOK(step, more)
  PROVE  RunIsFunction' /\ \A q \in Process : StepOK(run'[q], DOMAIN policies')
<1>1. RunIsFunction' /\ run'[p] = step
  BY DEF TypeInv, RunIsFunction, Goto, Moves
<1>2. ASSUME NEW q \in Process \ {p} PROVE StepOK(run'[q], more)
  <2> DEFINE w == run[q]
             v == run'[q]
  <2>1. StepOK(w, DOMAIN policies)
    BY DEF TypeInv
  <2>2. v = w \/ ("calm" \in DOMAIN w /\ v = [w EXCEPT !.calm = FALSE])
    BY DEF Goto, Moves, TypeInv, RunIsFunction
  <2> HIDE DEF w, v
  <2>3. StepOK(v, more)
    BY <2>1, <2>2, StepUndisturbed
  <2> QED BY <2>3 DEF v
<1> QED BY <1>1, <1>2

LEMMA TodoElements ==
  ASSUME NEW todo \in Todo
  PROVE  /\ Head(todo).version \in Versions /\ Head(todo).profile \in ToSet(Profiles)
         /\ Tail(todo) # <<>> => Tail(todo) \in Todo
<1> DEFINE T == [version : Versions, profile : ToSet(Profiles)]
<1>1. todo \in Seq(T) /\ todo # <<>>
  BY DEF Todo
<1>2. Head(todo) \in T /\ Tail(todo) \in Seq(T)
  <2> HIDE DEF T
  <2> QED BY <1>1
<1> QED BY <1>2 DEF Todo

LEMMA ProfilesSeq == DOMAIN Profiles = 1 .. 5 /\ ToSet(Profiles) = {Profiles[i] : i \in 1 .. 5}
  BY DEF Profiles, ToSet

LEMMA VerifyTodo == Verify \in Todo
<1> DEFINE T == [version : Versions, profile : ToSet(Profiles)]
<1>1. Verify = [i \in 1 .. 5 |-> [version |-> <<"verify", Profiles[i]>>, profile |-> Profiles[i]]]
  BY ProfilesSeq DEF Verify
<1>2. \A i \in 1 .. 5 : [version |-> <<"verify", Profiles[i]>>, profile |-> Profiles[i]] \in T
  BY ProfilesSeq DEF Versions
<1> HIDE DEF T
<1>3. Verify \in [1 .. 5 -> T]
  BY <1>1, <1>2
<1>4. Verify \in Seq(T) /\ Len(Verify) = 5
  <2> DEFINE n == 5
             v == Verify
  <2>1. n \in Nat /\ v \in [1 .. n -> T]
    BY <1>3
  <2> HIDE DEF n, v
  <2>2. v \in Seq(T)
    BY <2>1, SeqDef
  <2>3. Len(v) = n
    BY <2>1, <2>2
  <2> QED BY <2>2, <2>3 DEF n, v
<1>5. Verify # <<>>
  BY <1>4, EmptySeq
<1> QED BY <1>4, <1>5 DEF Todo, T

LEMMA ApplyTodo ==
  ASSUME NEW c \in Chosen, NEW v \in {<<"label">>, <<"ip", c>>}
  PROVE  OneVersion(v, c) \in Todo
<1> DEFINE t == [version |-> v, profile |-> c]
<1>0. c \in ToSet(Profiles) /\ v \in Versions
  BY AuthorityAssumption, ProfilesSeq DEF Versions
<1>1. t \in [version : Versions, profile : ToSet(Profiles)]
  BY <1>0
<1> HIDE DEF t
<1>2. <<t>> \in Seq([version : Versions, profile : ToSet(Profiles)]) /\ Len(<<t>>) = 1
  BY <1>1
<1>3. <<t>> # <<>>
  BY <1>2, EmptySeq
<1> QED BY <1>2, <1>3 DEF Todo, t, OneVersion

LEMMA NoneIsNoVersion == None \notin Versions
  BY AuthorityAssumption DEF Versions

\* Of a step that leaves the policies alone it is enough to know what it goes to.
LEMMA TypeInvTables ==
  ASSUME TypeInv, NEW p \in Process, NEW step, Goto(p, step) \/ Moves(p, step),
         StepOK(step, DOMAIN policies), UNCHANGED <<policies, active>>,
         FilesOK', SaidOK', RowsOK(authority')
  PROVE  TypeInv'
<1>1. PoliciesOK'
  BY DEF TypeInv, PoliciesOK
<1>2. RunIsFunction' /\ \A q \in Process : StepOK(run'[q], DOMAIN policies')
  BY StepsStay
<1> QED BY <1>1, <1>2 DEF TypeInv

LEMMA TypeInvStep == TypeInv /\ [Next]_vars => TypeInv'
<1> SUFFICES ASSUME TypeInv, [Next]_vars PROVE TypeInv'
  OBVIOUS
<1> USE DEF tables
<1>f. UNCHANGED files => FilesOK'
  BY DEF TypeInv, FilesOK
<1>s. UNCHANGED assertions => SaidOK'
  BY DEF TypeInv, SaidOK
<1>r. UNCHANGED authority => RowsOK(authority')
  BY DEF TypeInv
<1>i. StepOK(Idle, DOMAIN policies)
  BY DEF StepOK
<1>p. StepOK(ProjectFrom, DOMAIN policies)
  BY DEF StepOK, ProjectFrom
<1>1. ASSUME NEW p \in Process, Scan(p) PROVE TypeInv'
  <2>1. PICK l \in Locator : \E d \in ContentOf[l] \cup {Gone} : files' = [files EXCEPT ![l] = d]
    BY <1>1 DEF Scan
  <2>2. FilesOK'
    BY <2>1 DEF TypeInv, FilesOK
  <2>3. Moves(p, ProjectFrom) /\ UNCHANGED <<policies, active, assertions, authority>>
    BY <1>1 DEF Scan
  <2> QED BY <1>s, <1>r, <1>p, <2>2, <2>3, TypeInvTables
<1>2. ASSUME NEW p \in Process, AssertKind(p) PROVE TypeInv'
  <2>1. PICK kind \in {"authority", "not-authority"}, l \in Present :
          Goto(p, [pc |-> "assert", kind |-> kind, loc |-> l])
    BY <1>2 DEF AssertKind
  <2> DEFINE step == [pc |-> "assert", kind |-> kind, loc |-> l]
  <2>2. StepOK(step, DOMAIN policies)
    BY DEF StepOK, Present
  <2>3. UNCHANGED <<files, policies, active, assertions, authority>>
    BY <1>2 DEF AssertKind
  <2> HIDE DEF step
  <2> QED BY <1>f, <1>s, <1>r, <2>1, <2>2, <2>3, TypeInvTables DEF step
<1>3. ASSUME NEW p \in Process, InsertAssertion(p) PROVE TypeInv'
  <2>1. run[p].loc \in Locator
    BY <1>3 DEF InsertAssertion, TypeInv, StepOK, Idle
  <2> DEFINE new == [kind |-> run[p].kind, loc |-> run[p].loc, retracted |-> FALSE]
  <2>2. new.loc \in Locator
    BY <2>1
  <2>3. SaidOK'
    BY <1>3, <2>2 DEF InsertAssertion, TypeInv, SaidOK
  <2>4. Moves(p, ProjectFrom) /\ UNCHANGED <<files, policies, active, authority>>
    BY <1>3 DEF InsertAssertion
  <2> QED BY <1>f, <1>r, <1>p, <2>3, <2>4, TypeInvTables
<1>4. ASSUME NEW p \in Process, Retract(p) PROVE TypeInv'
  <2>1. PICK i \in DOMAIN assertions : assertions' = [assertions EXCEPT ![i].retracted = TRUE]
    BY <1>4 DEF Retract
  <2>2. SaidOK'
    BY <2>1 DEF TypeInv, SaidOK
  <2>3. Moves(p, ProjectFrom) /\ UNCHANGED <<files, policies, active, authority>>
    BY <1>4 DEF Retract
  <2> QED BY <1>f, <1>r, <1>p, <2>2, <2>3, TypeInvTables
<1>5. ASSUME NEW p \in Process, Apply(p) PROVE TypeInv'
  <2>1. PICK todo \in {OneVersion(<<"ip", c>>, c) : c \in Chosen}
                      \cup {OneVersion(<<"label">>, c) : c \in Chosen} \cup {Verify} :
          Goto(p, [pc |-> "build", todo |-> todo])
    BY <1>5 DEF Apply
  <2>2. todo \in Todo
    BY <2>1, VerifyTodo, ApplyTodo
  <2> DEFINE step == [pc |-> "build", todo |-> todo]
  <2>3. StepOK(step, DOMAIN policies)
    BY <2>2 DEF StepOK
  <2>4. UNCHANGED <<files, policies, active, assertions, authority>>
    BY <1>5 DEF Apply
  <2> HIDE DEF step
  <2> QED BY <1>f, <1>s, <1>r, <2>1, <2>3, <2>4, TypeInvTables DEF step
<1>6. ASSUME NEW p \in Process, Build(p) PROVE TypeInv'
  <2>1. run[p].todo \in Todo
    BY <1>6 DEF Build, TypeInv, StepOK, Idle
  <2>2. PICK plan \in Plans(Head(run[p].todo).profile, Present) :
          Goto(p, [pc |-> "apply", todo |-> run[p].todo, plan |-> plan])
    BY <1>6 DEF Build
  <2>3. PlanOK(plan)
    <3>1. Present \in SUBSET Locator
      BY DEF Present
    <3> DEFINE profile == Head(run[p].todo).profile
    <3> HIDE DEF profile
    <3>2. plan \in Plans(profile, Present)
      BY DEF profile
    <3> QED BY <3>1, <3>2, PlanSound
  <2> DEFINE step == [pc |-> "apply", todo |-> run[p].todo, plan |-> plan]
  <2>4. StepOK(step, DOMAIN policies)
    <3>1. DOMAIN step = {"pc", "todo", "plan"} /\ step.pc = "apply"
          /\ step.todo \in Todo /\ PlanOK(step.plan)
      BY <2>1, <2>3
    <3> HIDE DEF step
    <3> QED BY <3>1 DEF StepOK
  <2>5. UNCHANGED <<files, policies, active, assertions, authority>>
    BY <1>6 DEF Build
  <2> HIDE DEF step
  <2> QED BY <1>f, <1>s, <1>r, <2>2, <2>4, <2>5, TypeInvTables DEF step
<1>7. ASSUME NEW p \in Process, ApplyIdentityPlan(p) PROVE TypeInv'
  <2> DEFINE new == Head(run[p].todo)
             rest == Tail(run[p].todo)
             step == IF rest = <<>> THEN Idle ELSE [pc |-> "build", todo |-> rest]
             row == [profile |-> new.profile, artifacts |-> run[p].plan]
  <2>1. run[p].todo \in Todo /\ PlanOK(run[p].plan)
    <3> DEFINE w == run[p]
    <3>1. StepOK(w, DOMAIN policies) /\ w.pc = "apply"
      BY <1>7 DEF ApplyIdentityPlan, TypeInv
    <3> HIDE DEF w
    <3>2. w.todo \in Todo /\ PlanOK(w.plan)
      BY <3>1 DEF StepOK, Idle
    <3> QED BY <3>2 DEF w
  <2>2. /\ new.version \in Versions /\ new.profile \in ToSet(Profiles)
        /\ rest # <<>> => rest \in Todo
    BY <2>1, TodoElements
  <2>3. /\ policies' = [v \in DOMAIN policies \cup {new.version} |->
                          IF v = new.version THEN row ELSE policies[v]]
        /\ active' = new.version
        /\ Moves(p, step)
        /\ UNCHANGED <<files, assertions, authority>>
    BY <1>7 DEF ApplyIdentityPlan
  <2>4. StepOK(step, DOMAIN policies')
    BY <2>2 DEF StepOK
  <2>5. row.profile = new.profile /\ row.artifacts = run[p].plan
    OBVIOUS
  <2> HIDE DEF new, rest, step, row
  <2>6. PoliciesOK'
    BY <2>1, <2>2, <2>3, <2>5, NoneIsNoVersion DEF TypeInv, PoliciesOK
  <2>7. RunIsFunction' /\ \A q \in Process : StepOK(run'[q], DOMAIN policies')
    <3> DEFINE more == DOMAIN policies'
    <3>1. DOMAIN policies \subseteq more /\ StepOK(step, more)
      BY <2>3, <2>4
    <3>2. more = DOMAIN policies'
      OBVIOUS
    <3> HIDE DEF more
    <3> QED BY <2>3, <3>1, <3>2, StepsStay
  <2> QED BY <1>f, <1>s, <1>r, <2>3, <2>6, <2>7 DEF TypeInv
<1>8. ASSUME NEW p \in Process, ReadFiles(p) PROVE TypeInv'
  <2> DEFINE step == [pc |-> "policy", calm |-> run[p].calm,
                      inventory |-> [l \in Present |-> files[l]]]
  <2>1. Goto(p, step) /\ UNCHANGED <<files, policies, active, assertions, authority>>
    BY <1>8 DEF ReadFiles
  <2>2. StepOK(step, DOMAIN policies)
    <3>1. DOMAIN step = {"pc", "calm", "inventory"} /\ step.pc = "policy"
          /\ DOMAIN step.inventory \subseteq Locator
      BY DEF Present
    <3> HIDE DEF step
    <3> QED BY <3>1 DEF StepOK
  <2> HIDE DEF step
  <2> QED BY <1>f, <1>s, <1>r, <2>1, <2>2, TypeInvTables
<1>9. ASSUME NEW p \in Process, ReadPolicy(p) PROVE TypeInv'
  <2> DEFINE some == [pc |-> "members", version |-> active,
                      inventory |-> run[p].inventory, calm |-> run[p].calm]
             none == [pc |-> "said", artifacts |-> {},
                      inventory |-> run[p].inventory, calm |-> run[p].calm]
             step == IF active = None THEN none ELSE some
  <2>1. Goto(p, step) /\ UNCHANGED <<files, policies, active, assertions, authority>>
    BY <1>9 DEF ReadPolicy
  <2>2. DOMAIN run[p].inventory \subseteq Locator
    BY <1>9 DEF ReadPolicy, TypeInv, StepOK, Idle
  <2>3. /\ DOMAIN some = {"pc", "calm", "inventory", "version"} /\ some.pc = "members"
        /\ DOMAIN some.inventory \subseteq Locator /\ some.version = active
    BY <2>2
  <2>4. /\ DOMAIN none = {"pc", "calm", "inventory", "artifacts"} /\ none.pc = "said"
        /\ DOMAIN none.inventory \subseteq Locator /\ PlanOK(none.artifacts)
    BY <2>2 DEF PlanOK
  <2> HIDE DEF some, none
  <2>5. StepOK(step, DOMAIN policies)
    BY <2>3, <2>4 DEF StepOK, TypeInv, PoliciesOK
  <2> HIDE DEF step
  <2> QED BY <1>f, <1>s, <1>r, <2>1, <2>5, TypeInvTables
<1>10. ASSUME NEW p \in Process, ReadMembers(p) PROVE TypeInv'
  <2> DEFINE step == [pc |-> "said", artifacts |-> policies[run[p].version].artifacts,
                      inventory |-> run[p].inventory, calm |-> run[p].calm]
  <2>1. Goto(p, step) /\ UNCHANGED <<files, policies, active, assertions, authority>>
    BY <1>10 DEF ReadMembers
  <2>2. run[p].version \in DOMAIN policies /\ DOMAIN run[p].inventory \subseteq Locator
    BY <1>10 DEF ReadMembers, TypeInv, StepOK, Idle
  <2>3. PlanOK(policies[run[p].version].artifacts)
    BY <2>2 DEF TypeInv, PoliciesOK
  <2>4. StepOK(step, DOMAIN policies)
    <3>1. /\ DOMAIN step = {"pc", "calm", "inventory", "artifacts"} /\ step.pc = "said"
          /\ DOMAIN step.inventory \subseteq Locator /\ PlanOK(step.artifacts)
      BY <2>2, <2>3
    <3> HIDE DEF step
    <3> QED BY <3>1 DEF StepOK
  <2> HIDE DEF step
  <2> QED BY <1>f, <1>s, <1>r, <2>1, <2>4, TypeInvTables
<1>11. ASSUME NEW p \in Process, ReadAssertions(p) PROVE TypeInv'
  <2> DEFINE rows == Resolve(run[p].inventory, run[p].artifacts, assertions)
             step == [pc |-> "replace", calm |-> run[p].calm, rows |-> rows]
  <2>1. Goto(p, step) /\ UNCHANGED <<files, policies, active, assertions, authority>>
    BY <1>11 DEF ReadAssertions
  <2>2. DOMAIN run[p].inventory \subseteq Locator
    BY <1>11 DEF ReadAssertions, TypeInv, StepOK, Idle
  <2>3. RowsOK(rows)
    BY <2>2, ResolvedTyped DEF TypeInv
  <2> HIDE DEF rows
  <2>4. StepOK(step, DOMAIN policies)
    <3>1. DOMAIN step = {"pc", "calm", "rows"} /\ step.pc = "replace" /\ RowsOK(step.rows)
      BY <2>3
    <3> HIDE DEF step
    <3> QED BY <3>1 DEF StepOK
  <2> HIDE DEF step
  <2> QED BY <1>f, <1>s, <1>r, <2>1, <2>4, TypeInvTables
<1>12. ASSUME NEW p \in Process, ReplaceFileAuthority(p) PROVE TypeInv'
  <2>1. /\ Goto(p, Idle) /\ authority' = run[p].rows
        /\ UNCHANGED <<files, policies, active, assertions>>
    BY <1>12 DEF ReplaceFileAuthority
  <2>2. RowsOK(authority')
    BY <1>12, <2>1 DEF ReplaceFileAuthority, TypeInv, StepOK, Idle
  <2> QED BY <1>f, <1>s, <1>i, <2>1, <2>2, TypeInvTables
<1>13. ASSUME NEW p \in Process, Abandon(p) PROVE TypeInv'
  <2>1. Goto(p, Idle) /\ UNCHANGED <<files, policies, active, assertions, authority>>
    BY <1>13 DEF Abandon
  <2> QED BY <1>f, <1>s, <1>r, <1>i, <2>1, TypeInvTables
<1>14. CASE UNCHANGED vars
  BY <1>14, <1>f, <1>s, <1>r DEF vars, TypeInv, PoliciesOK, RunIsFunction
<1> QED BY <1>1, <1>2, <1>3, <1>4, <1>5, <1>6, <1>7, <1>8, <1>9, <1>10, <1>11, <1>12, <1>13,
           <1>14 DEF Next

\* Every table is well typed, and the artifacts of a policy share no file
\* (internal/identity/project.go, internal/authority).
THEOREM TypeCorrect == Spec => []TypeOK
<1>1. TypeInv => TypeOK
  BY DEF TypeInv, FilesOK, PoliciesOK, SaidOK, RowsOK, PlanOK, ArtifactOK, TypeOK
<1> QED BY <1>1, TypeInvInit, TypeInvStep, PTL DEF Spec

\* Nothing supersedes another by a bare number, nor is marked current before it:
\* the classification, the order and the relations of internal/identity.
THEOREM SupersessionEarnedAlways == Spec => []SupersessionEarned
<1>1. TypeInv => SupersessionEarned
  BY DEF TypeInv, PoliciesOK, PlanOK, ArtifactOK, SupersessionEarned
<1> QED BY <1>1, TypeInvInit, TypeInvStep, PTL DEF Spec

-----------------------------------------------------------------------------
(* What a projection does not say.                                          *)

LEMMA PeersAreSameToo ==
  ASSUME TypeInv, NEW l \in Present \ Vendored
  PROVE  Peers(Inventory, Artifacts, l) = Same(l) /\ PlanOK(Artifacts)
<1>1. PlanOK(Artifacts)
  BY DEF TypeInv, PoliciesOK, Artifacts, PlanOK
<1>2. Peers(Inventory, Artifacts, l) \subseteq Locator
  BY <1>1 DEF Peers, Copies, GroupOf, PlanOK, ArtifactOK, Inventory, Present
<1> QED BY <1>1, <1>2, PeersAreSame

\* Of a file the resolver names an authority it knows to be one thing with it,
\* and leaves open what there is no word and no single candidate for.
LEMMA ResolvedInventsNothing ==
  ASSUME TypeInv, NEW l \in Present
  PROVE  LET row  == Resolve(Inventory, Artifacts, assertions)[l]
             live == {k \in Same(l) : ~ Says("not-authority", k)}
         IN  /\ row.state \in {"declared", "likely"} => row.of \in Same(l) /\ l \notin Vendored
             /\ row.state = "likely" => ~ \E k \in live : Says("authority", k)
             /\ row.state = "multiple" => Cardinality(Same(l)) > 1 /\ Cardinality(live) # 1
             /\ row.state = "none" =>
                  l \in Vendored \/ Cardinality(Same(l)) = 1 \/ Cardinality(live) = 1
<1> DEFINE row == Resolve(Inventory, Artifacts, assertions)[l]
           live == {k \in Same(l) : ~ Says("not-authority", k)}
           peers == Peers(Inventory, Artifacts, l)
           declared == peers \cap Declared(assertions)
           likely == Likely(Artifacts, assertions, l)
           rest == peers \ Subjects("not-authority", assertions)
           chosen == CHOOSE k \in declared : TRUE
           marked == (CHOOSE a \in likely : TRUE).current
<1>1. row = ResolveOne(Inventory, Artifacts, assertions, l)
  BY DEF Resolve, Inventory
<1>2. ASSUME NEW state, NEW basis, NEW of, row = Row(state, basis, of)
      PROVE  row.state = state /\ row.of = of
  <2> HIDE DEF row
  <2> QED BY <1>2 DEF Row
<1>3. CASE l \in Vendored
  <2>1. row = Row("none", "", None)
    BY <1>1, <1>3 DEF ResolveOne
  <2> HIDE DEF row
  <2>2. row.state = "none"
    BY <1>2, <2>1
  <2> QED BY <1>3, <2>2 DEF row
<1>4. CASE l \notin Vendored
  <2>1. peers = Same(l) /\ PlanOK(Artifacts)
    BY <1>4, PeersAreSameToo
  <2>2. rest = live
    BY <2>1, SubjectsSay
  <2>3. declared = {k \in live : Says("authority", k)}
    BY <2>1, SubjectsSay DEF Declared
  <2>4. \A a \in likely : a.current \in Same(l)
    <3> SUFFICES ASSUME NEW a \in likely PROVE a.current \in Same(l)
      OBVIOUS
    <3>1. a \in Artifacts /\ l \in a.members /\ a.current # None
      BY DEF Likely, GroupOf
    <3>2. a.current \in a.members /\ a.members \subseteq Locator
      BY <2>1, <3>1 DEF PlanOK, ArtifactOK
    <3>3. active # None /\ a \in policies[active].artifacts
      BY <3>1 DEF Artifacts
    <3> QED BY <3>1, <3>2, <3>3 DEF Same
  <2>5. IF Cardinality(declared) = 1 THEN row = Row("declared", "explicit", chosen)
        ELSE IF declared # {} THEN row = Row("multiple", "explicit", None)
        ELSE IF likely # {} THEN row = Row("likely", "identity-profile", marked)
        ELSE IF Cardinality(peers) > 1 /\ Cardinality(rest) # 1 THEN row = Row("multiple", "", None)
        ELSE row = Row("none", "", None)
    BY <1>1, <1>4 DEF ResolveOne
  <2>6. l \in Same(l) /\ Same(l) \subseteq Locator
    BY DEF Same, Present
  <2>7. IsFiniteSet(Same(l)) /\ Cardinality(Same(l)) \in Nat
    BY <2>6, LocatorFinite, FS_Subset, FS_CardinalityType
  <2>8. live \subseteq Same(l) /\ declared \subseteq live
    BY <2>3
  <2> HIDE DEF row, live, peers, declared, likely, rest, chosen, marked
  <2>9. /\ IsFiniteSet(live) /\ Cardinality(live) \in Nat
        /\ Cardinality(live) <= Cardinality(Same(l))
    BY <2>7, <2>8, FS_Subset, FS_CardinalityType
  <2>10. /\ IsFiniteSet(declared) /\ Cardinality(declared) \in Nat
         /\ Cardinality(declared) <= Cardinality(live)
    BY <2>8, <2>9, FS_Subset, FS_CardinalityType
  <2>11. CASE Cardinality(declared) = 1
    <3>1. declared # {}
      BY <2>11, FS_EmptySet
    <3>2. chosen \in declared
      BY <3>1 DEF chosen
    <3>3. row.state = "declared" /\ row.of = chosen
      BY <1>2, <2>5, <2>11
    <3> QED BY <1>4, <2>8, <3>2, <3>3 DEF row, live
  <2>12. CASE Cardinality(declared) # 1 /\ declared # {}
    <3>1. Cardinality(declared) # 0
      BY <2>10, <2>12, FS_EmptySet
    <3>2. Cardinality(live) > 1 /\ Cardinality(Same(l)) > 1
      BY <2>7, <2>9, <2>10, <2>12, <3>1
    <3>3. row.state = "multiple"
      BY <1>2, <2>5, <2>12
    <3> QED BY <3>2, <3>3 DEF row, live
  <2>13. CASE declared = {}
    <3>1. Cardinality(declared) # 1
      BY <2>13, FS_EmptySet
    <3>2. CASE likely # {}
      <4>1. (CHOOSE a \in likely : TRUE) \in likely
        BY <3>2
      <4>2. marked \in Same(l)
        BY <2>4, <4>1 DEF marked
      <4>3. row.state = "likely" /\ row.of = marked
        BY <1>2, <2>5, <2>13, <3>1, <3>2
      <4> QED BY <1>4, <2>3, <2>13, <4>2, <4>3 DEF row, live
    <3>3. CASE likely = {} /\ Cardinality(peers) > 1 /\ Cardinality(rest) # 1
      <4>1. row.state = "multiple"
        BY <1>2, <2>5, <2>13, <3>1, <3>3
      <4> QED BY <2>1, <2>2, <3>3, <4>1 DEF row, live
    <3>4. CASE likely = {} /\ ~(Cardinality(peers) > 1 /\ Cardinality(rest) # 1)
      <4>1. row.state = "none"
        <5>1. row = Row("none", "", None)
          BY <2>5, <2>13, <3>1, <3>4
        <5> QED BY <1>2, <5>1
      <4>2. Cardinality(Same(l)) # 0
        BY <2>6, <2>7, FS_EmptySet
      <4>3. Cardinality(Same(l)) = 1 \/ Cardinality(live) = 1
        BY <2>1, <2>2, <2>7, <3>4, <4>2
      <4> QED BY <4>1, <4>3 DEF row, live
    <3> QED BY <3>2, <3>3, <3>4
  <2> QED BY <2>11, <2>12, <2>13
<1> QED BY <1>3, <1>4

\* A projection whose four reads nothing came between leaves undecided what
\* nobody and no policy decides: authority.Project and the resolver.
THEOREM NothingInventedAlways == Spec => NothingInvented
<1>1. HeardInv => \A p \in Process :
        run[p].pc = "replace" /\ authority' = run[p].rows /\ run[p].calm =>
          authority' = Resolve(Inventory, Artifacts, assertions)
  BY DEF HeardInv, Heard, Fits
<1>2. DOMAIN Resolve(Inventory, Artifacts, assertions) = Present
  BY DEF Resolve, Inventory
<1>3. HeardInv /\ TypeInv =>
        [\A p \in Process :
           run[p].pc = "replace" /\ authority' = run[p].rows /\ run[p].calm =>
             /\ DOMAIN authority' = Present
             /\ \A l \in Present :
                  LET live == {k \in Same(l) : ~ Says("not-authority", k)}
                  IN  /\ authority'[l].state \in {"declared", "likely"} =>
                           authority'[l].of \in Same(l) /\ l \notin Vendored
                      /\ authority'[l].state = "likely" =>
                           ~ \E k \in live : Says("authority", k)
                      /\ authority'[l].state = "multiple" =>
                           Cardinality(Same(l)) > 1 /\ Cardinality(live) # 1
                      /\ authority'[l].state = "none" =>
                           l \in Vendored \/ Cardinality(Same(l)) = 1 \/ Cardinality(live) = 1]_vars
  BY <1>1, <1>2, ResolvedInventsNothing
<1> QED BY <1>3, HeardInvInit, HeardInvStep, TypeInvInit, TypeInvStep, PTL
        DEF Spec, NothingInvented
=============================================================================
