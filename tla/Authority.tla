----------------------------- MODULE Authority -----------------------------
(***************************************************************************)
(* Which file is the one to trust: internal/authority (the resolver, its   *)
(* projection, assertions) over the tables of internal/store/authority.go  *)
(* and identity.go, and the commands gyst assert, gyst identity and the    *)
(* end of gyst scan (cmd/gyst).                                            *)
(*                                                                         *)
(* authority.Project reads the inventory, the active policy, its members   *)
(* and the assertions in four queries and replaces file_authority in a     *)
(* transaction of its own.  Commands overlap and are killed in between.    *)
(***************************************************************************)
EXTENDS Identity

CONSTANTS
  ContentOf,   \* per locator: the digests its file may have
  Gone,        \* no file
  Blank,       \* digests that identify no content
  Vendored,    \* locators inside a dependency or build directory
  Trees,       \* bound: the inventories to start from
  Chosen,      \* bound: profiles that people apply
  Process,     \* processes that run commands
  MaxCommands  \* bound: commands

ASSUME AuthorityAssumption ==
  /\ \A l \in Locator : Gone \notin ContentOf[l]
  /\ \A t \in Trees : /\ t = [l \in Locator |-> t[l]]
                       /\ \A l \in Locator : t[l] \in ContentOf[l] \cup {Gone}
  /\ Vendored \subseteq Locator /\ MaxCommands \in Nat
  /\ Chosen \subseteq ToSet(Profiles)
  /\ None # <<"label">>
  /\ \A i \in DOMAIN Profiles : None # <<"ip", Profiles[i]>> /\ None # <<"verify", Profiles[i]>>

VARIABLES
  files,       \* current_files: per locator its digest
  policies,    \* per version that was applied: [profile, artifacts]
  active,      \* the version whose row is active
  assertions,  \* in the order made: [kind, loc, retracted]
  authority,   \* file_authority: per locator its row
  commands,    \* commands begun
  run          \* the command of a process: its step, and what it has read

vars == <<files, policies, active, assertions, authority, commands, run>>

Idle == [pc |-> "idle"]

Present == {l \in Locator : files[l] # Gone}

-----------------------------------------------------------------------------
(***************************************************************************)
(* Resolve, a pure function.                                               *)
(***************************************************************************)
\* Mutant: empty files are each other's copies.
Copies_Blank(inventory, l) ==
  {k \in DOMAIN inventory : inventory[k] = inventory[l] /\ k \notin Vendored}

\* Files with the content of l.
Copies(inventory, l) ==
  {k \in DOMAIN inventory : inventory[k] = inventory[l] /\ inventory[l] \notin Blank
                              /\ k \notin Vendored}

GroupOf(artifacts, l) == {a \in artifacts : l \in a.members}

Peers(inventory, artifacts, l) ==
  {l} \cup Copies(inventory, l) \cup UNION {a.members : a \in GroupOf(artifacts, l)}

\* Subjects of the active assertions of a kind.
Subjects(kind, said) == {said[i].loc : i \in {i \in DOMAIN said :
                                               said[i].kind = kind /\ ~ said[i].retracted}}

\* Mutant: not-authority is no answer to a person's authority.
Declared_Denied(said) == Subjects("authority", said)

Declared(said) == Subjects("authority", said) \ Subjects("not-authority", said)

Row(state, basis, of) == [state |-> state, basis |-> basis, of |-> of]

\* The artifact whose current member is likely.  A current member of several has
\* the confidence the threshold asks for; denied, it is not replaced by another.
Likely(artifacts, said, l) ==
  {a \in GroupOf(artifacts, l) : /\ Cardinality(a.members) > 1
                                 /\ a.current # None
                                 /\ a.current \notin Subjects("not-authority", said)}

ResolveOne(inventory, artifacts, said, l) ==
  LET peers == Peers(inventory, artifacts, l)
      declared == peers \cap Declared(said)
      likely == Likely(artifacts, said, l)
      live == peers \ Subjects("not-authority", said)
  IN  IF l \in Vendored THEN Row("none", "", None)
      ELSE IF Cardinality(declared) = 1
           THEN Row("declared", "explicit", CHOOSE k \in declared : TRUE)
      ELSE IF declared # {} THEN Row("multiple", "explicit", None)
      ELSE IF likely # {} THEN Row("likely", "identity-profile", (CHOOSE a \in likely : TRUE).current)
      ELSE IF Cardinality(peers) > 1 /\ Cardinality(live) # 1 THEN Row("multiple", "", None)
      ELSE Row("none", "", None)

Resolve(inventory, artifacts, said) ==
  [l \in DOMAIN inventory |-> ResolveOne(inventory, artifacts, said, l)]

-----------------------------------------------------------------------------
(***************************************************************************)
(* Commands.                                                               *)
(***************************************************************************)
\* p moves on; what the others have read of these tables is out of date.  That,
\* calm, is there for the properties.
Moves(p, step) ==
  run' = [q \in Process |-> IF q = p THEN step
                            ELSE IF "calm" \in DOMAIN run[q] THEN [run[q] EXCEPT !.calm = FALSE]
                            ELSE run[q]]

Goto(p, step) == run' = [run EXCEPT ![p] = step]

Begin(p) ==
  /\ run[p].pc = "idle"
  /\ commands < MaxCommands
  /\ commands' = commands + 1

ProjectFrom == [pc |-> "files", calm |-> TRUE]

\* A scan has folded what it found of one file, or nothing new; what it infers
\* before authority is module Inference's.
Scan(p) ==
  /\ Begin(p)
  /\ \E l \in Locator : \E d \in ContentOf[l] \cup {Gone} : files' = [files EXCEPT ![l] = d]
  /\ Moves(p, ProjectFrom)
  /\ UNCHANGED <<policies, active, assertions, authority>>

\* gyst assert: the file must be present when it is looked up.
AssertKind(p) ==
  /\ Begin(p)
  /\ \E kind \in {"authority", "not-authority"}, l \in Present :
       Goto(p, [pc |-> "assert", kind |-> kind, loc |-> l])
  /\ UNCHANGED <<files, policies, active, assertions, authority>>

InsertAssertion(p) ==
  /\ run[p].pc = "assert"
  /\ assertions' = Append(assertions, [kind |-> run[p].kind, loc |-> run[p].loc,
                                       retracted |-> FALSE])
  /\ Moves(p, ProjectFrom)
  /\ UNCHANGED <<files, policies, active, authority, commands>>

\* gyst assert retract: the row remains.
Retract(p) ==
  /\ Begin(p)
  /\ \E i \in DOMAIN assertions :
       /\ ~ assertions[i].retracted
       /\ assertions' = [assertions EXCEPT ![i].retracted = TRUE]
  /\ Moves(p, ProjectFrom)
  /\ UNCHANGED <<files, policies, active, authority>>

\* gyst identity apply writes one version, named ip_ and the profile or with the
\* label a person gives; gyst identity verify one after the other.
OneVersion(version, c) == <<[version |-> version, profile |-> c]>>

Verify == [i \in DOMAIN Profiles |-> [version |-> <<"verify", Profiles[i]>>, profile |-> Profiles[i]]]

Apply(p) ==
  /\ Begin(p)
  /\ \E todo \in {OneVersion(<<"ip", c>>, c) : c \in Chosen}
                  \cup {OneVersion(<<"label">>, c) : c \in Chosen} \cup {Verify} :
       Goto(p, [pc |-> "build", todo |-> todo])
  /\ UNCHANGED <<files, policies, active, assertions, authority>>

Build(p) ==
  /\ run[p].pc = "build"
  /\ \E plan \in Plans(Head(run[p].todo).profile, Present) :
       Goto(p, [pc |-> "apply", todo |-> run[p].todo, plan |-> plan])
  /\ UNCHANGED <<files, policies, active, assertions, authority, commands>>

\* Mutant: the row of a version that is there gets a new profile and no more.
ApplyIdentityPlan_Again(p) ==
  LET new == Head(run[p].todo)
      rest == Tail(run[p].todo)
  IN  /\ run[p].pc = "apply"
      /\ policies' = [v \in DOMAIN policies \cup {new.version} |->
                        IF v = new.version THEN [profile |-> new.profile, artifacts |-> run[p].plan]
                        ELSE policies[v]]
      /\ active' = IF new.version \in DOMAIN policies THEN None ELSE new.version
      /\ Moves(p, IF rest = <<>> THEN Idle ELSE [pc |-> "build", todo |-> rest])
      /\ UNCHANGED <<files, assertions, authority, commands>>

\* One transaction.  Authority is not projected again: file_authority follows
\* with the next scan, import or assertion.
ApplyIdentityPlan(p) ==
  LET new == Head(run[p].todo)
      rest == Tail(run[p].todo)
  IN  /\ run[p].pc = "apply"
      /\ policies' = [v \in DOMAIN policies \cup {new.version} |->
                        IF v = new.version THEN [profile |-> new.profile, artifacts |-> run[p].plan]
                        ELSE policies[v]]
      /\ active' = new.version
      /\ Moves(p, IF rest = <<>> THEN Idle ELSE [pc |-> "build", todo |-> rest])
      /\ UNCHANGED <<files, assertions, authority, commands>>

(***************************************************************************)
(* authority.Project.                                                      *)
(***************************************************************************)
tables == <<files, policies, active, assertions, authority, commands>>

ReadFiles(p) ==
  /\ run[p].pc = "files"
  /\ Goto(p, [pc |-> "policy", calm |-> run[p].calm,
              inventory |-> [l \in Present |-> files[l]]])
  /\ UNCHANGED tables

\* Without an active policy there are no members to read.
ReadPolicy(p) ==
  /\ run[p].pc = "policy"
  /\ LET read == run[p]
     IN  Goto(p, IF active = None
                 THEN [pc |-> "said", artifacts |-> {},
                       inventory |-> read.inventory, calm |-> read.calm]
                 ELSE [pc |-> "members", version |-> active,
                       inventory |-> read.inventory, calm |-> read.calm])
  /\ UNCHANGED tables

ReadMembers(p) ==
  /\ run[p].pc = "members"
  /\ Goto(p, [pc |-> "said", artifacts |-> policies[run[p].version].artifacts,
              inventory |-> run[p].inventory, calm |-> run[p].calm])
  /\ UNCHANGED tables

ReadAssertions(p) ==
  /\ run[p].pc = "said"
  /\ Goto(p, [pc |-> "replace", calm |-> run[p].calm,
              rows |-> Resolve(run[p].inventory, run[p].artifacts, assertions)])
  /\ UNCHANGED tables

ReplaceFileAuthority(p) ==
  /\ run[p].pc = "replace"
  /\ authority' = run[p].rows
  /\ Goto(p, Idle)
  /\ UNCHANGED <<files, policies, active, assertions, commands>>

\* A kill, or an error, which ends the command: what it wrote stays.
Abandon(p) ==
  /\ run[p].pc # "idle"
  /\ Goto(p, Idle)
  /\ UNCHANGED tables

Init ==
  /\ files \in Trees
  /\ policies = <<>> /\ active = None /\ assertions = <<>> /\ authority = <<>>
  /\ commands = 0
  /\ run = [p \in Process |-> Idle]

Next ==
  \E p \in Process :
    \/ Scan(p)
    \/ AssertKind(p) \/ InsertAssertion(p) \/ Retract(p)
    \/ Apply(p) \/ Build(p) \/ ApplyIdentityPlan(p)
    \/ ReadFiles(p) \/ ReadPolicy(p) \/ ReadMembers(p) \/ ReadAssertions(p)
    \/ ReplaceFileAuthority(p)
    \/ Abandon(p)

Spec == Init /\ [][Next]_vars

-----------------------------------------------------------------------------
(***************************************************************************)
(* Properties.                                                             *)
(***************************************************************************)
\* The tables are well typed; a version's artifacts share no file, and what is
\* active has been applied.
TypeOK ==
  /\ \A l \in Locator : files[l] \in ContentOf[l] \cup {Gone}
  /\ active \in DOMAIN policies \cup {None}
  /\ (active = None) => (policies = <<>>)
  /\ \A v \in DOMAIN policies :
       /\ policies[v].profile \in ToSet(Profiles)
       /\ \A a, b \in policies[v].artifacts : a # b => a.members \cap b.members = {}
       /\ \A a \in policies[v].artifacts : a.current \in a.members \cup {None}
  /\ \A i \in DOMAIN assertions : assertions[i].loc \in Locator
  /\ DOMAIN authority \subseteq Locator
  /\ \A l \in DOMAIN authority :
       /\ authority[l].state \in {"declared", "likely", "multiple", "none"}
       /\ (authority[l].of # None) <=> (authority[l].state \in {"declared", "likely"})

\* What a person reads off two names: they are one but for the number behind an
\* explicit marker at their end.
SameButRevision(k, l) ==
  /\ NameOf[k].base = NameOf[l].base
  /\ NameOf[k].tail # <<>> /\ NameOf[l].tail # <<>>
  /\ Front(NameOf[k].tail) = Front(NameOf[l].tail)
  /\ Last(NameOf[k].tail).kind = "rev" /\ Last(NameOf[l].tail).kind = "rev"

Revision(l) == Last(NameOf[l].tail).n

\* No version that was ever applied says that a file supersedes another, or is
\* the current one among several, unless their names differ in an explicit
\* revision only and its own is the greater, or none is greater: connector_124
\* does not replace connector_123 (profile.go, SupersedesThreshold).
SupersessionEarned ==
  \A v \in DOMAIN policies : \A a \in policies[v].artifacts :
    /\ \A r \in a.relations : r.type = "supersedes" =>
         SameButRevision(r.from, r.to) /\ Revision(r.from) > Revision(r.to)
    /\ (a.current # None) => \A l \in a.members \ {a.current} :
         SameButRevision(a.current, l) /\ Revision(a.current) >= Revision(l)

\* Files that are one thing with l, as content and the active policy have it.
Same(l) ==
  {k \in Locator : \/ k = l
                   \/ /\ files[k] = files[l] /\ files[k] \notin Blank \cup {Gone}
                      /\ k \notin Vendored
                   \/ /\ active # None
                      /\ \E a \in policies[active].artifacts : {k, l} \subseteq a.members}

Says(kind, l) ==
  \E i \in DOMAIN assertions :
    assertions[i].kind = kind /\ assertions[i].loc = l /\ ~ assertions[i].retracted

\* When nothing changed under its four reads, a projection has heard everybody:
\* a person's answer about a file is the answer for all that is one thing with
\* it, unless another person gave another; a file that was denied is named
\* nowhere, and one whose assertion was retracted is not declared.
PersonsAreHeard ==
  [][\A p \in Process :
       run[p].pc = "replace" /\ authority' = run[p].rows /\ run[p].calm =>
         \A l \in Present \ Vendored :
           /\ \A k \in Same(l) : Says("authority", k) /\ ~ Says("not-authority", k) =>
                /\ authority'[l].basis = "explicit"
                /\ authority'[l].of \in {k, None}
                /\ authority'[l].of = None =>
                     \E j \in Same(l) \ {k} : Says("authority", j)
           /\ authority'[l].of # None => ~ Says("not-authority", authority'[l].of)
           /\ authority'[l].state = "declared" => Says("authority", authority'[l].of)]_vars

\* And it has decided nothing that nobody said: each present file has its row and
\* no other has; a file is declared by a person's word about what is one thing
\* with it, likely by a revision marked current while no person has spoken, and
\* without an authority where there is nothing to choose between, and only there:
\* it is the only one, or the others were ruled out.  Ruling out is not declaring.
NothingInvented ==
  [][\A p \in Process :
       run[p].pc = "replace" /\ authority' = run[p].rows /\ run[p].calm =>
         /\ DOMAIN authority' = Present
         /\ \A l \in Present :
              LET live == {k \in Same(l) : ~ Says("not-authority", k)}
              IN  /\ authority'[l].state \in {"declared", "likely"} =>
                       authority'[l].of \in Same(l) /\ l \notin Vendored
                  /\ authority'[l].state = "likely" =>
                       ~ \E k \in live : Says("authority", k)
                  /\ authority'[l].state = "multiple" =>
                       Cardinality(Same(l)) > 1 /\ Cardinality(live) # 1
                  /\ authority'[l].state = "none" =>
                       l \in Vendored \/ Cardinality(Same(l)) = 1 \/ Cardinality(live) = 1]_vars
=============================================================================
