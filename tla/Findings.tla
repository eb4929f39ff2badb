------------------------------ MODULE Findings ------------------------------
(***************************************************************************)
(* The life of findings: detection passes (findings.Project, at the end of *)
(* every scan and import), the persons who acknowledge and waive, and the  *)
(* retention of resolved findings.                                         *)
(*                                                                         *)
(* What a rule finds is left abstract: a finding has a condition that      *)
(* comes and goes with the files and passes it is about.  A pass reads the *)
(* conditions with several queries, then records finding by finding, then  *)
(* resolves by the clock; each is a transaction of its own, and recording  *)
(* reads a status before it writes it.                                     *)
(***************************************************************************)
EXTENDS Naturals, FiniteSets

CONSTANTS
  Finding,    \* findings, by id
  QueryOf,    \* the query of load that a finding's rule consults
  Queries,    \* number of queries
  Detector,   \* processes that run detection passes
  Engine,     \* which database the store is on
  NoWaiver,
  Forever,    \* a waiver without an expiry
  Age,        \* resolvedFindingAge
  MaxTime,    \* bound on the clock, and so on the passes
  MaxChanges  \* bound on the changes of conditions

ASSUME FindingsAssumption ==
  /\ Queries \in Nat \ {0} /\ QueryOf \in [Finding -> 1..Queries]
  /\ Engine \in {"sqlite", "postgres"}
  /\ NoWaiver \notin Nat /\ Forever \notin Nat /\ NoWaiver # Forever
  /\ Age \in Nat /\ MaxTime \in Nat /\ MaxChanges \in Nat

VARIABLES
  clock,      \* no two readings of it are equal
  condition,  \* findings whose rule would fire
  changes,    \* number of changes of conditions so far
  table,      \* findings
  pass,       \* the state of every detector
  away,       \* history: findings not in condition at some moment of the pass
  there,      \* history: findings in condition at some moment of the pass
  decided     \* history: findings waived during the pass

history == <<away, there, decided>>
vars == <<clock, condition, changes, table, pass, history>>

Time == 0..MaxTime
Waivers == Time \cup {NoWaiver, Forever}

\* A row of findings.  Status "none" is a row that does not exist.
Statuses == {"none", "open", "acknowledged", "waived", "resolved"}
RowType == [status : Statuses, seen : Time, resolved : Time, waiver : Waivers]
NoRow == [status |-> "none", seen |-> 0, resolved |-> 0, waiver |-> NoWaiver]

Tables == [Finding -> RowType]
NoTable == [f \in Finding |-> NoRow]

Idle == [pc |-> "idle", now |-> 0, query |-> 1, todo |-> {}, subject |-> {}, base |-> NoTable]

PassType ==
  [pc      : {"idle", "load", "read", "write", "resolve", "prune"},
   now     : Time,             \* the clock of the pass
   query   : 1..Queries + 1,   \* the next query
   todo    : SUBSET Finding,   \* detected and not recorded yet
   subject : SUBSET Finding,   \* the finding UpsertFinding is at, if any
   base    : Tables]           \* the database its transaction has read

Init ==
  /\ clock = 0
  /\ condition \in SUBSET Finding
  /\ changes = 0
  /\ table = NoTable
  /\ pass = [d \in Detector |-> Idle]
  /\ away = [d \in Detector |-> {}]
  /\ there = [d \in Detector |-> {}]
  /\ decided = [d \in Detector |-> {}]

Step(d, r) == pass' = [pass EXCEPT ![d] = r]

Running == {d \in Detector : pass[d].pc # "idle"}

\* What the history h of the passes becomes when f joins it.
Noted(h, f) == [d \in Detector |-> IF d \in Running THEN h[d] \cup {f} ELSE h[d]]

Forget(d) ==
  /\ away' = [away EXCEPT ![d] = {}]
  /\ there' = [there EXCEPT ![d] = {}]
  /\ decided' = [decided EXCEPT ![d] = {}]

-----------------------------------------------------------------------------
(* Files come and go.                                                       *)

Change(f) ==
  /\ changes < MaxChanges
  /\ changes' = changes + 1
  /\ \/ /\ f \in condition
        /\ condition' = condition \ {f}
        /\ away' = Noted(away, f)
        /\ UNCHANGED there
     \/ /\ f \notin condition
        /\ condition' = condition \cup {f}
        /\ there' = Noted(there, f)
        /\ UNCHANGED away
  /\ UNCHANGED <<clock, table, pass, decided>>

-----------------------------------------------------------------------------
(* A person's dispositions: one UPDATE each, refused in any other status.   *)

Acknowledge(f) ==
  /\ table[f].status = "open"
  /\ table' = [table EXCEPT ![f].status = "acknowledged"]
  /\ UNCHANGED <<clock, condition, changes, pass, history>>

\* A day that is past is taken too.
Waive(f, until) ==
  /\ table[f].status \in {"open", "acknowledged"}
  /\ until # NoWaiver
  /\ table' = [table EXCEPT ![f].status = "waived", ![f].waiver = until]
  /\ decided' = Noted(decided, f)
  /\ UNCHANGED <<clock, condition, changes, pass, away, there>>

-----------------------------------------------------------------------------
(* A detection pass.                                                        *)

Begin(d) ==
  /\ pass[d].pc = "idle"
  /\ clock < MaxTime
  /\ clock' = clock + 1
  /\ Step(d, [Idle EXCEPT !.pc = "load", !.now = clock'])
  /\ away' = [away EXCEPT ![d] = Finding \ condition]
  /\ there' = [there EXCEPT ![d] = condition]
  /\ decided' = [decided EXCEPT ![d] = {}]
  /\ UNCHANGED <<condition, changes, table>>

\* One query of load, and after the last one Detect.
Load(d) ==
  /\ pass[d].pc = "load"
  /\ LET q == pass[d].query
         fires == {f \in condition : QueryOf[f] = q}
     IN  Step(d, [pass[d] EXCEPT !.pc = IF q = Queries THEN "read" ELSE "load",
                                 !.query = q + 1, !.todo = @ \cup fires])
  /\ UNCHANGED <<clock, condition, changes, table, history>>

\* UpsertFinding, as far as its SELECT.
ReadPrior(d, f) ==
  /\ pass[d].pc = "read"
  /\ f \in pass[d].todo
  /\ Step(d, [pass[d] EXCEPT !.pc = "write", !.subject = {f}, !.base = table])
  /\ UNCHANGED <<clock, condition, changes, table, history>>

\* Mutant: no waiver is ever over.
Expired_Never(waiver, now) == FALSE

\* waiverExpired: strictly before.
Expired(waiver, now) == waiver \in Nat /\ waiver < now

\* Mutant: every detection reopens.
StatusAfter_Open(prior, now) == "open"

\* The status a detection leaves: a disposition stands unless it was
\* "resolved" or a waiver that is over.
StatusAfter(prior, now) ==
  IF \/ prior.status \in {"none", "resolved"}
     \/ prior.status = "waived" /\ Expired(prior.waiver, now)
  THEN "open"
  ELSE prior.status

\* SQLite refuses to write from a snapshot that is no longer the newest, and
\* the command fails; PostgreSQL writes over what it has not read.
MayWrite(d) == Engine = "postgres" \/ pass[d].base = table

\* Mutant: resolved_at is not reset.
WriteBack_StaysResolved(d, f) ==
  /\ pass[d].pc = "write"
  /\ f \in pass[d].subject
  /\ MayWrite(d)
  /\ table' = [table EXCEPT ![f] =
       [status |-> IF table[f].status = "none" THEN "open"
                   ELSE StatusAfter(pass[d].base[f], pass[d].now),
        seen |-> pass[d].now, resolved |-> table[f].resolved, waiver |-> table[f].waiver]]
  /\ Step(d, [pass[d] EXCEPT !.pc = "read", !.todo = @ \ {f}, !.subject = {}, !.base = NoTable])
  /\ UNCHANGED <<clock, condition, changes, history>>

\* The INSERT ... ON CONFLICT DO UPDATE, and the commit.  A row it inserts is
\* open whatever was computed.
WriteBack(d, f) ==
  /\ pass[d].pc = "write"
  /\ f \in pass[d].subject
  /\ MayWrite(d)
  /\ table' = [table EXCEPT ![f] =
       [status |-> IF table[f].status = "none" THEN "open"
                   ELSE StatusAfter(pass[d].base[f], pass[d].now),
        seen |-> pass[d].now, resolved |-> 0, waiver |-> table[f].waiver]]
  /\ Step(d, [pass[d] EXCEPT !.pc = "read", !.todo = @ \ {f}, !.subject = {}, !.base = NoTable])
  /\ UNCHANGED <<clock, condition, changes, history>>

AllRecorded(d) ==
  /\ pass[d].pc = "read"
  /\ pass[d].todo = {}
  /\ Step(d, [pass[d] EXCEPT !.pc = "resolve"])
  /\ UNCHANGED <<clock, condition, changes, table, history>>

Standing(row) == row.status \in {"open", "acknowledged", "waived"}

\* Mutant: what this pass has recorded counts as not seen since.
Unseen_Inclusive(row, now) == Standing(row) /\ row.seen <= now

Unseen(row, now) == Standing(row) /\ row.seen < now

ResolveUnseen(d) ==
  /\ pass[d].pc = "resolve"
  /\ table' = [f \in Finding |->
                 IF Unseen(table[f], pass[d].now)
                 THEN [table[f] EXCEPT !.status = "resolved", !.resolved = pass[d].now]
                 ELSE table[f]]
  /\ Step(d, [pass[d] EXCEPT !.pc = "prune"])
  /\ UNCHANGED <<clock, condition, changes, history>>

\* Mutant: retention goes by age alone.
Prunable_Waived(row) == row.status = "resolved" /\ row.resolved + Age < clock

Prunable(row) ==
  row.status = "resolved" /\ row.resolved + Age < clock /\ row.waiver = NoWaiver

\* PruneResolvedFindings, by the clock of the moment.  An import has no such
\* step: its pass ends here, as Fail does.
Prune(d) ==
  /\ pass[d].pc = "prune"
  /\ table' = [f \in Finding |-> IF Prunable(table[f]) THEN NoRow ELSE table[f]]
  /\ Step(d, Idle)
  /\ UNCHANGED <<clock, condition, changes>>
  /\ Forget(d)

\* The command is killed or fails, or SQLite refuses its write.
Fail(d) ==
  /\ pass[d].pc # "idle"
  /\ Step(d, Idle)
  /\ UNCHANGED <<clock, condition, changes, table>>
  /\ Forget(d)

-----------------------------------------------------------------------------

Person ==
  \E f \in Finding : Acknowledge(f) \/ \E until \in Waivers : Waive(f, until)

Detect(d) ==
  \/ Begin(d)
  \/ Load(d)
  \/ \E f \in Finding : ReadPrior(d, f) \/ WriteBack(d, f)
  \/ AllRecorded(d)
  \/ ResolveUnseen(d)
  \/ Prune(d)
  \/ Fail(d)

Next ==
  \/ \E f \in Finding : Change(f)
  \/ Person
  \/ \E d \in Detector : Detect(d)

Spec == Init /\ [][Next]_vars

-----------------------------------------------------------------------------
(* Properties.                                                              *)

\* What the findings table and the passes hold; a waived finding has a waiver,
\* as the table's check constraint demands, a resolved one says since when.
TypeOK ==
  /\ clock \in Time
  /\ table \in Tables
  /\ pass \in [Detector -> PassType]
  /\ \A f \in Finding : /\ table[f].status = "waived" => table[f].waiver # NoWaiver
                        /\ table[f].status = "resolved" <=> table[f].resolved # 0

Concludes(d) == pass[d].pc = "resolve" /\ pass'[d].pc = "prune"

\* A pass leaves standing what was there to be found from its beginning to its
\* end, and resolves what was not there at any moment of it, whatever an
\* earlier pass left half done and a person decided meanwhile.
PassAgrees ==
  [][\A d \in Detector : Concludes(d) =>
       \A f \in Finding : /\ f \notin away[d] => Standing(table'[f])
                          /\ f \notin there[d] => ~Standing(table'[f])]_vars

\* A person's decision is not undone by a pass, unless the waiver is over or the
\* finding was away.
DispositionStands ==
  [][\A f \in Finding :
       table[f].status \in {"acknowledged", "waived"}
         /\ table'[f].status \notin {"acknowledged", "waived"} =>
         \/ table[f].status = "waived" /\ table[f].waiver \in 0..clock - 1
         \/ \E d \in Detector : pass[d].pc # "idle" /\ f \in away[d]]_vars

\* A waiver that was over when a pass began does not outlive it; only one a
\* person gave meanwhile may.
WaiverEnds ==
  [][\A d \in Detector : Concludes(d) =>
       \A f \in Finding \ decided[d] :
         table'[f].status = "waived" /\ table'[f].waiver \in Nat =>
           pass[d].now <= table'[f].waiver]_vars

\* The record of a person's waiver outlives the finding: neither detection nor
\* retention removes it.
WaiverRecorded ==
  [][\A f \in Finding : table[f].waiver # NoWaiver => table'[f].waiver # NoWaiver]_vars
=============================================================================
