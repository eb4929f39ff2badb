----------------------------- MODULE FindingsProofs -----------------------------
(***************************************************************************)
(* Theorems about Findings, for any number of findings, queries and        *)
(* readings of the clock.  What types a row holds for any number of        *)
(* detection passes and on both engines; that a pass agrees with what was  *)
(* there, and that decisions stand, as long as one pass runs at a time.    *)
(***************************************************************************)
EXTENDS Findings, TLAPS

-----------------------------------------------------------------------------
(* Types.                                                                   *)

RowOK(row) == /\ row.status = "waived" => row.waiver # NoWaiver
              /\ row.status = "resolved" <=> row.resolved # 0

\* A waiver once read is still on record when the decision is written back;
\* without it the upsert of a stale "waived" could meet a row without a waiver.
PassOK(d) ==
  /\ pass[d].pc # "idle" => 0 < pass[d].now /\ pass[d].now <= clock
  /\ pass[d].pc = "load" => pass[d].query <= Queries
  /\ \A f \in Finding : /\ pass[d].base[f].status = "waived" => pass[d].base[f].waiver # NoWaiver
                        /\ pass[d].base[f].waiver # NoWaiver => table[f].waiver # NoWaiver

TypeInv ==
  /\ TypeOK
  /\ condition \in SUBSET Finding
  /\ away \in [Detector -> SUBSET Finding]
  /\ there \in [Detector -> SUBSET Finding]
  /\ decided \in [Detector -> SUBSET Finding]
  /\ \A f \in Finding : table[f].seen <= clock
  /\ \A d \in Detector : PassOK(d)

LEMMA IdleTyped == Idle \in PassType /\ NoTable \in Tables
  BY FindingsAssumption
  DEF Idle, PassType, NoTable, NoRow, Tables, RowType, Statuses, Waivers, Time

LEMMA StepTyped ==
  ASSUME NEW d \in Detector, NEW r \in PassType, pass \in [Detector -> PassType], Step(d, r)
  PROVE  /\ pass' \in [Detector -> PassType] /\ pass'[d] = r
         /\ \A e \in Detector \ {d} : pass'[e] = pass[e]
  BY DEF Step

LEMMA NotedTyped ==
  ASSUME NEW h \in [Detector -> SUBSET Finding], NEW f \in Finding
  PROVE  Noted(h, f) \in [Detector -> SUBSET Finding]
  BY DEF Noted

\* What a step may do to the table: its rows stay well formed, and no waiver
\* is taken off.
TableStep ==
  /\ table' \in Tables
  /\ \A f \in Finding : /\ RowOK(table'[f])
                        /\ table'[f].seen <= clock'
                        /\ table[f].waiver # NoWaiver => table'[f].waiver # NoWaiver

LEMMA StatusAfterStands ==
  ASSUME NEW row \in RowType, NEW now
  PROVE  /\ StatusAfter(row, now) \in {"open", "acknowledged", "waived"}
         /\ StatusAfter(row, now) = "waived" => row.status = "waived" /\ ~Expired(row.waiver, now)
         /\ row.status = "acknowledged" => StatusAfter(row, now) = "acknowledged"
         /\ row.status = "waived" /\ ~Expired(row.waiver, now) => StatusAfter(row, now) = "waived"
  BY DEF StatusAfter, RowType, Statuses

LEMMA TableSteps ==
  ASSUME TypeInv, [Next]_vars
  PROVE  TableStep
<1> USE DEF TypeInv, TypeOK
<1>0. \A f \in Finding : table[f] \in RowType /\ RowOK(table[f])
  BY DEF Tables, RowOK
<1>1. ASSUME table' = table, clock <= clock', clock' \in Time PROVE TableStep
  <2>1. \A f \in Finding : table[f].seen \in Nat /\ clock \in Nat /\ clock' \in Nat
    BY <1>0, <1>1, FindingsAssumption DEF RowType, Time
  <2> QED BY <1>0, <1>1, <2>1 DEF TableStep
<1>2. ASSUME NEW f \in Finding, Change(f) PROVE TableStep
  BY <1>1, <1>2, FindingsAssumption DEF Change, Time
<1>3. ASSUME NEW f \in Finding, Acknowledge(f) PROVE TableStep
  <2>1. /\ clock' = clock
        /\ table' = [table EXCEPT ![f] = [table[f] EXCEPT !.status = "acknowledged"]]
        /\ table[f].status = "open"
    BY <1>3 DEF Acknowledge, Tables
  <2>2. [table[f] EXCEPT !.status = "acknowledged"] \in RowType
    BY <1>0 DEF RowType, Statuses
  <2> QED BY <1>0, <2>1, <2>2 DEF TableStep, Tables, RowOK, RowType
<1>4. ASSUME NEW f \in Finding, NEW until \in Waivers, Waive(f, until) PROVE TableStep
  <2>1. /\ clock' = clock /\ until # NoWaiver
        /\ table' = [table EXCEPT ![f] = [table[f] EXCEPT !.status = "waived", !.waiver = until]]
        /\ table[f].status \in {"open", "acknowledged"}
    BY <1>4 DEF Waive, Tables
  <2>2. [table[f] EXCEPT !.status = "waived", !.waiver = until] \in RowType
    BY <1>0 DEF RowType, Statuses
  <2> QED BY <1>0, <2>1, <2>2 DEF TableStep, Tables, RowOK, RowType
<1>5. ASSUME NEW d \in Detector, Begin(d) PROVE TableStep
  BY <1>1, <1>5, FindingsAssumption DEF Begin, Time
<1>6. ASSUME NEW d \in Detector, Load(d) PROVE TableStep
  BY <1>1, <1>6, FindingsAssumption DEF Load, Time
<1>7. ASSUME NEW d \in Detector, NEW f \in Finding, ReadPrior(d, f) PROVE TableStep
  BY <1>1, <1>7, FindingsAssumption DEF ReadPrior, Time
<1>8. ASSUME NEW d \in Detector, NEW f \in Finding, WriteBack(d, f) PROVE TableStep
  <2> DEFINE now == pass[d].now
             status == IF table[f].status = "none" THEN "open"
                       ELSE StatusAfter(pass[d].base[f], now)
             row == [status |-> status, seen |-> now, resolved |-> 0, waiver |-> table[f].waiver]
  <2>1. table' = [table EXCEPT ![f] = row] /\ clock' = clock
    BY <1>8 DEF WriteBack
  <2>2. pass[d].base[f] \in RowType /\ now \in Time /\ now <= clock
    BY <1>8 DEF WriteBack, PassType, PassOK, Tables
  <2>3. /\ status \in {"open", "acknowledged", "waived"}
        /\ status = "waived" => table[f].waiver # NoWaiver
    BY <2>2, StatusAfterStands DEF PassOK
  <2> HIDE DEF now, status
  <2>4. row \in RowType /\ RowOK(row) /\ row.seen <= clock /\ row.waiver = table[f].waiver
    BY <1>0, <2>2, <2>3, FindingsAssumption DEF RowType, RowOK, Statuses, Time
  <2> HIDE DEF row
  <2> QED BY <1>0, <2>1, <2>4 DEF TableStep, Tables
<1>9. ASSUME NEW d \in Detector, AllRecorded(d) PROVE TableStep
  BY <1>1, <1>9, FindingsAssumption DEF AllRecorded, Time
<1>10. ASSUME NEW d \in Detector, ResolveUnseen(d) PROVE TableStep
  <2> DEFINE now == pass[d].now
             Resolved(f) == [table[f] EXCEPT !.status = "resolved", !.resolved = now]
  <2>1. /\ table' = [f \in Finding |-> IF Unseen(table[f], now) THEN Resolved(f) ELSE table[f]]
        /\ clock' = clock
    BY <1>10 DEF ResolveUnseen
  <2>2. now \in Time /\ now # 0
    <3>1. now \in Time /\ 0 < now
      BY <1>10 DEF ResolveUnseen, PassType, PassOK
    <3> QED BY <3>1, FindingsAssumption DEF Time
  <2> HIDE DEF now
  <2>3. \A f \in Finding : /\ Resolved(f) \in RowType /\ RowOK(Resolved(f))
                           /\ Resolved(f).seen = table[f].seen
                           /\ Resolved(f).waiver = table[f].waiver
    BY <1>0, <2>2 DEF RowType, RowOK, Statuses
  <2> HIDE DEF Resolved
  <2> QED BY <1>0, <2>1, <2>3 DEF TableStep, Tables
<1>11. ASSUME NEW d \in Detector, Prune(d) PROVE TableStep
  <2>1. /\ table' = [f \in Finding |-> IF Prunable(table[f]) THEN NoRow ELSE table[f]]
        /\ clock' = clock /\ clock \in Nat
    BY <1>11, FindingsAssumption DEF Prune, Time
  <2>2. /\ NoRow \in RowType /\ RowOK(NoRow) /\ NoRow.seen = 0
        /\ \A f \in Finding : Prunable(table[f]) => table[f].waiver = NoWaiver
    BY FindingsAssumption DEF NoRow, RowType, RowOK, Statuses, Waivers, Time, Prunable
  <2> QED BY <1>0, <2>1, <2>2 DEF TableStep, Tables
<1>12. ASSUME NEW d \in Detector, Fail(d) PROVE TableStep
  BY <1>1, <1>12, FindingsAssumption DEF Fail, Time
<1>13. ASSUME UNCHANGED vars PROVE TableStep
  BY <1>1, <1>13, FindingsAssumption DEF vars, Time
<1> QED
  BY <1>2, <1>3, <1>4, <1>5, <1>6, <1>7, <1>8, <1>9, <1>10, <1>11, <1>12, <1>13
  DEF Next, Person, Detect

PassStep ==
  /\ pass' \in [Detector -> PassType]
  /\ \A d \in Detector : PassOK(d)'

LEMMA PassSteps ==
  ASSUME TypeInv, [Next]_vars
  PROVE  PassStep
<1> USE DEF TypeInv, TypeOK
<1>0. TableStep /\ TypeInv
  BY TableSteps
<1>1. ASSUME pass' = pass, clock' = clock
      PROVE  PassStep
  BY <1>0, <1>1 DEF PassOK, TableStep, PassStep
\* A pass that takes a step to r, which fits its clock and what it has read.
<1>2. ASSUME NEW d \in Detector, NEW r \in PassType, Step(d, r),
             clock <= clock', clock' \in Time,
             r.pc # "idle" => 0 < r.now /\ r.now <= clock',
             r.pc = "load" => r.query <= Queries,
             r.base \in {NoTable, pass[d].base} \/ (r.base = table /\ table' = table)
      PROVE  PassStep
  <2>1. /\ pass' \in [Detector -> PassType] /\ pass'[d] = r
        /\ \A e \in Detector \ {d} : pass'[e] = pass[e]
    BY <1>2, StepTyped
  <2>2. \A e \in Detector : /\ pass[e].now \in Nat /\ PassOK(e)
                            /\ clock \in Nat /\ clock' \in Nat
    BY <1>2, FindingsAssumption DEF PassType, Time
  <2>3. \A f \in Finding : NoTable[f].status = "none" /\ NoTable[f].waiver = NoWaiver
    BY DEF NoTable, NoRow
  <2>4. PassOK(d)'
    <3>1. \A f \in Finding : /\ r.base[f].status = "waived" => r.base[f].waiver # NoWaiver
                             /\ r.base[f].waiver # NoWaiver => table'[f].waiver # NoWaiver
      <4>1. CASE r.base = NoTable
        BY <2>3, <4>1
      <4>2. CASE r.base = pass[d].base
        BY <1>0, <2>2, <4>2 DEF PassOK, TableStep
      <4>3. CASE r.base = table /\ table' = table
        BY <1>0, <4>3
      <4> QED BY <1>2, <4>1, <4>2, <4>3
    <3> QED BY <1>2, <2>1, <3>1 DEF PassOK
  <2>5. ASSUME NEW e \in Detector \ {d} PROVE PassOK(e)'
    BY <1>0, <1>2, <2>1, <2>2, <2>5 DEF PassOK, TableStep
  <2> QED BY <2>1, <2>4, <2>5 DEF PassStep
<1>3. clock \in Nat /\ 0 \in Time /\ \A d \in Detector : pass[d] \in PassType /\ PassOK(d)
  BY FindingsAssumption DEF Time
<1>4. ASSUME NEW f \in Finding, Change(f) \/ Acknowledge(f)
      PROVE  pass' = pass /\ clock' = clock
  BY <1>4 DEF Change, Acknowledge
<1>5. ASSUME NEW f \in Finding, NEW until \in Waivers, Waive(f, until)
      PROVE  pass' = pass /\ clock' = clock
  BY <1>5 DEF Waive
<1>6. ASSUME NEW d \in Detector, Begin(d) PROVE PassStep
  <2> DEFINE r == [Idle EXCEPT !.pc = "load", !.now = clock']
  <2>1. Step(d, r) /\ clock' = clock + 1 /\ clock' \in Time
    BY <1>3, <1>6, FindingsAssumption DEF Begin, Time
  <2>2. r \in PassType /\ r.base = NoTable /\ r.now = clock' /\ r.query <= Queries
    <3>1. /\ Idle \in PassType /\ Idle.base = NoTable /\ Idle.query = 1
          /\ Queries \in Nat /\ 1 <= Queries
      BY IdleTyped, FindingsAssumption DEF Idle
    <3> QED BY <2>1, <3>1 DEF PassType
  <2> HIDE DEF r
  <2> QED BY <1>2, <1>3, <2>1, <2>2
<1>7. ASSUME NEW d \in Detector, Load(d) PROVE PassStep
  <2>1. PICK r \in PassType : /\ Step(d, r) /\ r.base = pass[d].base /\ r.now = pass[d].now
                              /\ r.pc = "load" => r.query <= Queries
    <3> DEFINE fires == {f \in condition : QueryOf[f] = pass[d].query}
               pc == IF pass[d].query = Queries THEN "read" ELSE "load"
               r == [pass[d] EXCEPT !.pc = pc, !.query = pass[d].query + 1, !.todo = @ \cup fires]
    <3>1. Step(d, r)
      BY <1>7 DEF Load
    <3>2. pass[d].query \in 1..Queries
      BY <1>3, <1>7, FindingsAssumption DEF Load, PassOK, PassType
    <3>3. pc \in {"read", "load"} /\ (pc = "load" => pass[d].query + 1 <= Queries)
      BY <3>2, FindingsAssumption
    <3>4. fires \in SUBSET Finding /\ pass[d].query + 1 \in 1..Queries + 1
      BY <3>2, FindingsAssumption
    <3> HIDE DEF fires, pc
    <3>5. r \in PassType /\ r.pc = pc /\ r.query = pass[d].query + 1
          /\ r.base = pass[d].base /\ r.now = pass[d].now
      BY <1>3, <3>3, <3>4 DEF PassType
    <3> QED BY <3>1, <3>3, <3>5
  <2>2. pass[d].pc # "idle" /\ clock' = clock /\ clock \in Time
    BY <1>7 DEF Load
  <2> QED BY <1>2, <1>3, <2>1, <2>2 DEF PassOK
<1>8. ASSUME NEW d \in Detector, NEW f \in Finding, ReadPrior(d, f) PROVE PassStep
  <2> DEFINE r == [pass[d] EXCEPT !.pc = "write", !.subject = {f}, !.base = table]
  <2>1. Step(d, r) /\ clock' = clock /\ table' = table /\ pass[d].pc # "idle"
    BY <1>8 DEF ReadPrior
  <2>2. r \in PassType /\ r.base = table /\ r.now = pass[d].now /\ r.pc = "write"
    BY <1>3 DEF PassType
  <2> HIDE DEF r
  <2> QED BY <1>2, <1>3, <2>1, <2>2 DEF PassOK
<1>9. ASSUME NEW d \in Detector, NEW f \in Finding, WriteBack(d, f) PROVE PassStep
  <2> DEFINE r == [pass[d] EXCEPT !.pc = "read", !.todo = @ \ {f}, !.subject = {}, !.base = NoTable]
  <2>1. Step(d, r) /\ clock' = clock /\ pass[d].pc # "idle"
    BY <1>9 DEF WriteBack
  <2>2. r \in PassType /\ r.base = NoTable /\ r.now = pass[d].now /\ r.pc = "read"
    BY <1>3, IdleTyped DEF PassType
  <2> HIDE DEF r
  <2> QED BY <1>2, <1>3, <2>1, <2>2 DEF PassOK
<1>10. ASSUME NEW d \in Detector, AllRecorded(d) PROVE PassStep
  <2> DEFINE r == [pass[d] EXCEPT !.pc = "resolve"]
  <2>1. Step(d, r) /\ clock' = clock /\ pass[d].pc # "idle"
    BY <1>10 DEF AllRecorded
  <2>2. r \in PassType /\ r.base = pass[d].base /\ r.now = pass[d].now /\ r.pc = "resolve"
    BY <1>3 DEF PassType
  <2> HIDE DEF r
  <2> QED BY <1>2, <1>3, <2>1, <2>2 DEF PassOK
<1>11. ASSUME NEW d \in Detector, ResolveUnseen(d) PROVE PassStep
  <2> DEFINE r == [pass[d] EXCEPT !.pc = "prune"]
  <2>1. Step(d, r) /\ clock' = clock /\ pass[d].pc # "idle"
    BY <1>11 DEF ResolveUnseen
  <2>2. r \in PassType /\ r.base = pass[d].base /\ r.now = pass[d].now /\ r.pc = "prune"
    BY <1>3 DEF PassType
  <2> HIDE DEF r
  <2> QED BY <1>2, <1>3, <2>1, <2>2 DEF PassOK
<1>12. ASSUME NEW d \in Detector, Prune(d) \/ Fail(d) PROVE PassStep
  <2>1. Step(d, Idle) /\ clock' = clock
    BY <1>12 DEF Prune, Fail
  <2>2. Idle \in PassType /\ Idle.pc = "idle" /\ Idle.base = NoTable
    BY IdleTyped DEF Idle
  <2> QED BY <1>2, <1>3, <2>1, <2>2
<1>13. ASSUME UNCHANGED vars PROVE pass' = pass /\ clock' = clock
  BY <1>13 DEF vars
<1> QED
  BY <1>1, <1>4, <1>5, <1>6, <1>7, <1>8, <1>9, <1>10, <1>11, <1>12, <1>13
  DEF Next, Person, Detect

LEMMA HistorySteps ==
  ASSUME TypeInv, [Next]_vars
  PROVE  /\ condition' \in SUBSET Finding
         /\ away' \in [Detector -> SUBSET Finding]
         /\ there' \in [Detector -> SUBSET Finding]
         /\ decided' \in [Detector -> SUBSET Finding]
<1> USE DEF TypeInv
<1>1. ASSUME NEW f \in Finding, Change(f)
      PROVE  /\ condition' \in SUBSET Finding
             /\ away' \in {away, Noted(away, f)} /\ there' \in {there, Noted(there, f)}
             /\ decided' = decided
  BY <1>1 DEF Change
<1>2. ASSUME NEW f \in Finding, NEW until \in Waivers, Waive(f, until)
      PROVE  /\ condition' = condition /\ away' = away /\ there' = there
             /\ decided' = Noted(decided, f)
  BY <1>2 DEF Waive
<1>3. ASSUME NEW d \in Detector, Begin(d) \/ Prune(d) \/ Fail(d)
      PROVE  /\ condition' = condition
             /\ away' \in [Detector -> SUBSET Finding]
             /\ there' \in [Detector -> SUBSET Finding]
             /\ decided' \in [Detector -> SUBSET Finding]
  BY <1>3 DEF Begin, Prune, Fail, Forget
<1>4. ASSUME UNCHANGED vars \/ (\E f \in Finding : Acknowledge(f))
             \/ (\E d \in Detector : Load(d) \/ AllRecorded(d) \/ ResolveUnseen(d)
                   \/ \E f \in Finding : ReadPrior(d, f) \/ WriteBack(d, f))
      PROVE  /\ condition' = condition /\ away' = away /\ there' = there /\ decided' = decided
  BY <1>4 DEF vars, history, Acknowledge, Load, AllRecorded, ResolveUnseen, ReadPrior, WriteBack
<1> QED
  BY <1>1, <1>2, <1>3, <1>4, NotedTyped DEF Next, Person, Detect

LEMMA TypeInvAlways == Spec => []TypeInv
<1>1. Init => TypeInv
  BY IdleTyped, FindingsAssumption
  DEF Init, TypeInv, TypeOK, PassOK, Idle, NoTable, NoRow, Time
<1>2. TypeInv /\ [Next]_vars => TypeInv'
  <2> SUFFICES ASSUME TypeInv, [Next]_vars PROVE TypeInv'
    OBVIOUS
  <2>1. TableStep /\ PassStep
    BY TableSteps, PassSteps
  <2>2. clock' \in Time
    <3>1. clock \in Time
      BY DEF TypeInv, TypeOK
    <3>2. clock' = clock \/ (clock < MaxTime /\ clock' = clock + 1)
      BY DEF Next, Person, Detect, vars, Change, Acknowledge, Waive, Begin, Load, ReadPrior,
             WriteBack, AllRecorded, ResolveUnseen, Prune, Fail
    <3> QED BY <3>1, <3>2, FindingsAssumption DEF Time
  <2>3. TypeOK'
    BY <2>1, <2>2 DEF TypeOK, TableStep, PassStep, RowOK
  <2> QED BY <2>1, <2>3, HistorySteps DEF TypeInv, TableStep, PassStep
<1> QED BY <1>1, <1>2, PTL DEF Spec

\* The findings table and the passes are well typed in every reachable state,
\* for any number of passes at a time and on both engines: in particular no
\* upsert puts back a "waived" that has lost its waiver, which the table's
\* check constraint would refuse.
THEOREM TypeCorrect == Spec => []TypeOK
  BY TypeInvAlways, PTL DEF TypeInv

\* Whatever passes and persons do at the same time, on both engines, the
\* record of a waiver is never removed.
THEOREM WaiverRecordedAlways == Spec => WaiverRecorded
<1>1. TypeInv /\ [Next]_vars =>
        \A f \in Finding : table[f].waiver # NoWaiver => table'[f].waiver # NoWaiver
  BY TableSteps DEF TableStep
<1> QED BY <1>1, TypeInvAlways, PTL DEF Spec, WaiverRecorded

-----------------------------------------------------------------------------
(* One pass at a time.                                                      *)

OnePass == \A d, e \in Detector : d = e

Active == {"load", "read", "write", "resolve"}

Kept(d, f) == table[f].seen = pass[d].now /\ Standing(table[f])

\* What is known of a finding while pass d runs.  The history of the pass is
\* about its condition; what it did not see is older than the pass; what it
\* must see is still to be recorded or stands recorded; and a waiver recorded
\* by this pass was not over.
FindingInv(d, f) ==
  /\ f \in condition \/ f \in away[d]
  /\ f \in condition => f \in there[d]
  /\ f \notin there[d] => table[f].seen < pass[d].now
  /\ f \notin away[d] /\ pass[d].pc = "load" /\ QueryOf[f] < pass[d].query => f \in pass[d].todo
  /\ f \notin away[d] /\ pass[d].pc \in {"read", "write"} => f \in pass[d].todo \/ Kept(d, f)
  /\ f \notin away[d] /\ pass[d].pc = "resolve" => Kept(d, f)
  /\ f \notin decided[d] /\ table[f].seen = pass[d].now /\ table[f].status = "waived" =>
       ~Expired(table[f].waiver, pass[d].now)
  /\ f \notin decided[d] /\ pass[d].pc = "write" /\ f \in pass[d].subject =>
       pass[d].base[f].waiver = table[f].waiver

LifeInv ==
  \A d \in Detector : pass[d].pc \in Active =>
    /\ pass[d].now = clock
    /\ pass[d].todo \subseteq there[d]
    /\ pass[d].subject \subseteq pass[d].todo
    /\ \A f \in Finding : FindingInv(d, f)

\* LifeInv when the pass d is the only one.
LifeInvOf(d) ==
  pass[d].pc \in Active =>
    /\ pass[d].now = clock
    /\ pass[d].todo \subseteq there[d]
    /\ pass[d].subject \subseteq pass[d].todo
    /\ \A f \in Finding : FindingInv(d, f)

\* Files and persons, while the pass stands still.
LEMMA LifeInvBeside ==
  ASSUME TypeInv, NEW d \in Detector, LifeInvOf(d), NEW f \in Finding,
         \/ Change(f)
         \/ Acknowledge(f)
         \/ \E until \in Waivers : Waive(f, until)
  PROVE  LifeInvOf(d)'
<1> SUFFICES ASSUME pass'[d].pc \in Active PROVE LifeInvOf(d)'
  BY DEF LifeInvOf
<1>1. pass' = pass /\ clock' = clock /\ d \in Running
  BY DEF Change, Acknowledge, Waive, Active, Running
<1>2. /\ pass[d].now = clock /\ pass[d].todo \subseteq there[d]
      /\ pass[d].subject \subseteq pass[d].todo
      /\ \A g \in Finding : FindingInv(d, g)
  BY <1>1 DEF LifeInvOf
<1>3. /\ \A h \in [Detector -> SUBSET Finding] : Noted(h, f)[d] = h[d] \cup {f}
      /\ \A g \in Finding : table[g] \in RowType
      /\ away \in [Detector -> SUBSET Finding] /\ there \in [Detector -> SUBSET Finding]
      /\ decided \in [Detector -> SUBSET Finding]
  BY <1>1 DEF Noted, TypeInv, TypeOK, Tables
<1>4. there[d] \subseteq there'[d] /\ \A g \in Finding : FindingInv(d, g)'
  <2>1. CASE Change(f)
    <3>1. /\ table' = table /\ decided' = decided
          /\ \/ f \in condition /\ condition' = condition \ {f} /\ there' = there
                /\ away' = Noted(away, f)
             \/ f \notin condition /\ condition' = condition \cup {f} /\ away' = away
                /\ there' = Noted(there, f)
      BY <2>1 DEF Change
    <3> QED BY <1>1, <1>2, <1>3, <3>1 DEF FindingInv, Kept
  <2>2. CASE Acknowledge(f)
    <3>1. /\ condition' = condition /\ away' = away /\ there' = there /\ decided' = decided
          /\ table' = [table EXCEPT ![f] = [table[f] EXCEPT !.status = "acknowledged"]]
          /\ table[f].status = "open"
      BY <2>2 DEF Acknowledge, history, TypeInv, TypeOK, Tables
    <3>2. ASSUME NEW g \in Finding
          PROVE  /\ table'[g].seen = table[g].seen /\ table'[g].waiver = table[g].waiver
                 /\ Standing(table[g]) => Standing(table'[g])
                 /\ table'[g].status = "waived" => table[g].status = "waived"
      BY <1>3, <3>1 DEF RowType, Standing, TypeInv, TypeOK, Tables
    <3> QED BY <1>1, <1>2, <3>1, <3>2 DEF FindingInv, Kept
  <2>3. ASSUME NEW until \in Waivers, Waive(f, until)
        PROVE  there[d] \subseteq there'[d] /\ \A g \in Finding : FindingInv(d, g)'
    <3>1. /\ condition' = condition /\ away' = away /\ there' = there
          /\ decided' = Noted(decided, f)
          /\ table' = [table EXCEPT ![f] = [table[f] EXCEPT !.status = "waived", !.waiver = until]]
          /\ table[f].status \in {"open", "acknowledged"}
      BY <2>3 DEF Waive, TypeInv, TypeOK, Tables
    <3>2. ASSUME NEW g \in Finding
          PROVE  /\ table'[g].seen = table[g].seen
                 /\ Standing(table[g]) => Standing(table'[g])
                 /\ g # f => table'[g] = table[g]
      BY <1>3, <3>1 DEF RowType, Standing, TypeInv, TypeOK, Tables
    <3> QED BY <1>1, <1>2, <1>3, <3>1, <3>2 DEF FindingInv, Kept
  <2> QED BY <2>1, <2>2, <2>3
<1> QED BY <1>1, <1>2, <1>4 DEF LifeInvOf

\* The pass itself, up to the end of its recording.
LEMMA LifeInvPass ==
  ASSUME TypeInv, NEW d \in Detector, LifeInvOf(d),
         \/ Begin(d)
         \/ Load(d)
         \/ AllRecorded(d)
         \/ \E f \in Finding : ReadPrior(d, f) \/ WriteBack(d, f)
  PROVE  LifeInvOf(d)'
<1>0. /\ pass[d] \in PassType /\ PassOK(d) /\ clock \in Nat /\ pass[d].now \in Nat
      /\ \A g \in Finding : table[g] \in RowType /\ table[g].seen \in Nat /\ table[g].seen <= clock
      /\ away \in [Detector -> SUBSET Finding] /\ there \in [Detector -> SUBSET Finding]
      /\ decided \in [Detector -> SUBSET Finding] /\ condition \in SUBSET Finding
  BY FindingsAssumption DEF TypeInv, TypeOK, PassType, Tables, RowType, Time
<1>1. \A r : Step(d, r) => pass'[d] = r
  BY DEF Step, TypeInv, TypeOK
<1>2. CASE Begin(d)
  <2>1. /\ clock' = clock + 1 /\ condition' = condition /\ table' = table
        /\ pass'[d] = [Idle EXCEPT !.pc = "load", !.now = clock']
        /\ away'[d] = Finding \ condition /\ there'[d] = condition
    BY <1>0, <1>1, <1>2 DEF Begin
  <2>2. /\ pass'[d].pc = "load" /\ pass'[d].now = clock + 1 /\ pass'[d].query = 1
        /\ pass'[d].todo = {} /\ pass'[d].subject = {}
    BY <2>1 DEF Idle
  <2>3. \A f \in Finding : /\ QueryOf[f] \in Nat /\ 1 <= QueryOf[f]
                           /\ table[f].seen < clock + 1
    BY <1>0, FindingsAssumption
  <2>4. \A f \in Finding : FindingInv(d, f)'
    BY <1>0, <2>1, <2>2, <2>3 DEF FindingInv
  <2> QED BY <2>1, <2>2, <2>4 DEF LifeInvOf
<1>3. ASSUME pass[d].pc \in Active
      PROVE  /\ pass[d].now = clock /\ pass[d].todo \subseteq there[d]
             /\ pass[d].subject \subseteq pass[d].todo
             /\ \A g \in Finding : FindingInv(d, g)
  BY <1>3 DEF LifeInvOf
<1>4. CASE Load(d)
  <2> DEFINE fires == {f \in condition : QueryOf[f] = pass[d].query}
             pc == IF pass[d].query = Queries THEN "read" ELSE "load"
  <2>1. /\ pass[d].pc = "load" /\ UNCHANGED <<clock, condition, table, away, there, decided>>
        /\ pass'[d] = [pass[d] EXCEPT !.pc = pc, !.query = pass[d].query + 1, !.todo = @ \cup fires]
    BY <1>1, <1>4 DEF Load, history
  <2>2. /\ pass'[d].pc = pc /\ pass'[d].query = pass[d].query + 1
        /\ pass'[d].todo = pass[d].todo \cup fires /\ pass'[d].now = pass[d].now
        /\ pass'[d].subject = pass[d].subject
    BY <1>0, <2>1 DEF PassType
  <2>3. \A f \in fires : f \in there[d]
    BY <1>0, <1>3, <2>1 DEF FindingInv, Active
  <2>4. pass[d].query \in Nat /\ Queries \in Nat /\ \A f \in Finding : QueryOf[f] \in 1..Queries
    BY <1>0, FindingsAssumption DEF PassType
  <2>5. ASSUME NEW f \in Finding, f \notin away[d], QueryOf[f] < pass[d].query + 1
        PROVE  f \in pass'[d].todo
    BY <1>3, <2>1, <2>2, <2>4, <2>5 DEF FindingInv, Active
  <2>6. pc \in {"read", "load"} /\ (pc = "read" => pass[d].query = Queries)
    OBVIOUS
  <2> HIDE DEF fires, pc
  <2>7. \A f \in Finding : FindingInv(d, f)'
    BY <1>3, <2>1, <2>2, <2>4, <2>5, <2>6 DEF FindingInv, Active
  <2> QED BY <1>3, <2>1, <2>2, <2>3, <2>7 DEF LifeInvOf, Active
<1>5. CASE AllRecorded(d)
  <2>1. /\ pass[d].pc = "read" /\ pass[d].todo = {}
        /\ UNCHANGED <<clock, condition, table, away, there, decided>>
        /\ pass'[d] = [pass[d] EXCEPT !.pc = "resolve"]
    BY <1>1, <1>5 DEF AllRecorded, history
  <2>2. /\ pass'[d].pc = "resolve" /\ pass'[d].todo = pass[d].todo
        /\ pass'[d].now = pass[d].now /\ pass'[d].subject = pass[d].subject
    BY <1>0, <2>1 DEF PassType
  <2>3. \A f \in Finding : FindingInv(d, f)'
    BY <1>3, <2>1, <2>2 DEF FindingInv, Active, Kept
  <2> QED BY <1>3, <2>1, <2>2, <2>3 DEF LifeInvOf, Active
<1>6. ASSUME NEW f \in Finding, ReadPrior(d, f) PROVE LifeInvOf(d)'
  <2>1. /\ pass[d].pc = "read" /\ f \in pass[d].todo
        /\ UNCHANGED <<clock, condition, table, away, there, decided>>
        /\ pass'[d] = [pass[d] EXCEPT !.pc = "write", !.subject = {f}, !.base = table]
    BY <1>1, <1>6 DEF ReadPrior, history
  <2>2. /\ pass'[d].pc = "write" /\ pass'[d].todo = pass[d].todo /\ pass'[d].base = table
        /\ pass'[d].now = pass[d].now /\ pass'[d].subject = {f}
    BY <1>0, <2>1 DEF PassType
  <2>3. \A g \in Finding : FindingInv(d, g)'
    BY <1>3, <2>1, <2>2 DEF FindingInv, Active, Kept
  <2> QED BY <1>3, <2>1, <2>2, <2>3 DEF LifeInvOf, Active
<1>7. ASSUME NEW f \in Finding, WriteBack(d, f) PROVE LifeInvOf(d)'
  <2> DEFINE now == pass[d].now
             status == IF table[f].status = "none" THEN "open"
                       ELSE StatusAfter(pass[d].base[f], now)
             row == [status |-> status, seen |-> now, resolved |-> 0, waiver |-> table[f].waiver]
  <2>1. /\ pass[d].pc = "write" /\ f \in pass[d].subject
        /\ UNCHANGED <<clock, condition, away, there, decided>>
        /\ table' = [table EXCEPT ![f] = row]
        /\ pass'[d] = [pass[d] EXCEPT !.pc = "read", !.todo = @ \ {f}, !.subject = {}, !.base = NoTable]
    BY <1>1, <1>7 DEF WriteBack, history
  <2>2. /\ pass'[d].pc = "read" /\ pass'[d].todo = pass[d].todo \ {f}
        /\ pass'[d].now = now /\ pass'[d].subject = {}
    BY <1>0, <2>1 DEF PassType
  <2>3. /\ status \in {"open", "acknowledged", "waived"}
        /\ status = "waived" => ~Expired(pass[d].base[f].waiver, now)
    <3>1. pass[d].base[f] \in RowType
      BY <1>0 DEF PassType, Tables
    <3> QED BY <3>1, StatusAfterStands
  <2>4. /\ f \in there[d]
        /\ f \notin decided[d] => pass[d].base[f].waiver = table[f].waiver
    BY <1>3, <2>1 DEF FindingInv, Active
  <2>5. /\ table'[f] = row /\ \A g \in Finding \ {f} : table'[g] = table[g]
        /\ row.seen = now /\ row.status = status /\ row.waiver = table[f].waiver
    BY <2>1 DEF TypeInv, TypeOK, Tables
  <2> HIDE DEF status, row
  <2>6. FindingInv(d, f)'
    BY <1>3, <2>1, <2>2, <2>3, <2>4, <2>5 DEF FindingInv, Active, Kept, Standing
  <2>7. \A g \in Finding \ {f} : FindingInv(d, g)'
    BY <1>3, <2>1, <2>2, <2>5 DEF FindingInv, Active, Kept
  <2> QED BY <1>3, <2>1, <2>2, <2>6, <2>7 DEF LifeInvOf, Active
<1> QED BY <1>2, <1>4, <1>5, <1>6, <1>7

LEMMA LifeInvStep ==
  ASSUME OnePass, TypeInv, LifeInv, [Next]_vars
  PROVE  LifeInv'
<1> SUFFICES ASSUME NEW d \in Detector PROVE LifeInvOf(d)'
  BY DEF LifeInv, LifeInvOf
<1>0. LifeInvOf(d)
  BY DEF LifeInv, LifeInvOf
<1>1. ASSUME NEW f \in Finding, Change(f) PROVE LifeInvOf(d)'
  BY <1>0, <1>1, LifeInvBeside
<1>2. ASSUME Person PROVE LifeInvOf(d)'
  BY <1>0, <1>2, LifeInvBeside DEF Person
<1>3. ASSUME NEW e \in Detector, Detect(e) PROVE LifeInvOf(d)'
  <2>1. e = d
    BY DEF OnePass
  <2>2. CASE ResolveUnseen(d) \/ Prune(d) \/ Fail(d)
    <3>1. \A r : Step(d, r) => pass'[d] = r
      BY DEF Step, TypeInv, TypeOK
    <3>2. pass[d] \in PassType
      BY DEF TypeInv, TypeOK
    <3>3. pass'[d].pc \in {"prune", "idle"}
      <4>1. CASE ResolveUnseen(d)
        BY <3>1, <3>2, <4>1 DEF ResolveUnseen, PassType
      <4>2. CASE Prune(d) \/ Fail(d)
        BY <3>1, <4>2 DEF Prune, Fail, Idle
      <4> QED BY <2>2, <4>1, <4>2
    <3> QED BY <3>3 DEF LifeInvOf, Active
  <2> QED BY <1>0, <1>3, <2>1, <2>2, LifeInvPass DEF Detect
<1>4. ASSUME UNCHANGED vars PROVE LifeInvOf(d)'
  BY <1>0, <1>4 DEF vars, history, LifeInvOf, FindingInv, Kept
<1> QED BY <1>1, <1>2, <1>3, <1>4 DEF Next

LEMMA LifeInvAlways ==
  ASSUME OnePass
  PROVE  Spec => []LifeInv
<1>1. Init => LifeInv
  BY DEF Init, LifeInv, Idle, Active
<1> QED BY <1>1, LifeInvStep, TypeInvAlways, PTL DEF Spec

LEMMA ConcludesIsResolve ==
  ASSUME OnePass, TypeInv, [Next]_vars, NEW d \in Detector, Concludes(d)
  PROVE  ResolveUnseen(d)
<1>1. pass[d].pc = "resolve" /\ pass'[d].pc = "prune" /\ pass' # pass
  BY DEF Concludes
<1>2. PICK e \in Detector : Detect(e)
  BY <1>1 DEF Next, Person, Change, Acknowledge, Waive, vars
<1>3. e = d
  BY DEF OnePass
<1>4. ASSUME Prune(d) \/ Fail(d) PROVE FALSE
  BY <1>1, <1>4 DEF Prune, Fail, Step, Idle, TypeInv, TypeOK
<1> QED
  BY <1>1, <1>2, <1>3, <1>4 DEF Detect, Begin, Load, ReadPrior, WriteBack, AllRecorded

\* What the UPDATE of ResolveUnseen leaves standing is what this pass has
\* recorded.
LEMMA ResolveLeaves ==
  ASSUME TypeInv, LifeInv, NEW d \in Detector, ResolveUnseen(d), NEW f \in Finding
  PROVE  /\ Standing(table'[f]) <=> Standing(table[f]) /\ table[f].seen = pass[d].now
         /\ Standing(table'[f]) => table'[f] = table[f]
         /\ FindingInv(d, f) /\ pass[d].pc = "resolve" /\ pass[d].now \in Nat
<1>1. /\ pass[d].pc = "resolve"
      /\ table'[f] = IF Unseen(table[f], pass[d].now)
                     THEN [table[f] EXCEPT !.status = "resolved", !.resolved = pass[d].now]
                     ELSE table[f]
  BY DEF ResolveUnseen
<1>2. FindingInv(d, f) /\ pass[d].now = clock /\ table[f].seen <= clock
  BY <1>1 DEF LifeInv, Active, TypeInv
<1>3. table[f] \in RowType /\ table[f].seen \in Nat /\ clock \in Nat
  BY FindingsAssumption DEF TypeInv, TypeOK, Tables, RowType, Time
<1>4. CASE Unseen(table[f], pass[d].now)
  <2>1. table'[f].status = "resolved"
    BY <1>1, <1>3, <1>4 DEF RowType
  <2> QED BY <1>1, <1>2, <1>3, <1>4, <2>1 DEF Unseen, Standing
<1>5. CASE ~Unseen(table[f], pass[d].now)
  BY <1>1, <1>2, <1>3, <1>5 DEF Unseen
<1> QED BY <1>4, <1>5

\* A pass leaves standing what was there from its beginning to its end, and
\* resolves what was not there at any moment of it, on both engines, whatever
\* a person decides meanwhile and an earlier pass has left half done, as long
\* as passes do not overlap.
THEOREM PassAgreesAlone ==
  ASSUME OnePass
  PROVE  Spec => PassAgrees
<1>1. ASSUME TypeInv, LifeInv, [Next]_vars, NEW d \in Detector, Concludes(d), NEW f \in Finding
      PROVE  /\ f \notin away[d] => Standing(table'[f])
             /\ f \notin there[d] => ~Standing(table'[f])
  <2>1. ResolveUnseen(d)
    BY <1>1, ConcludesIsResolve
  <2> QED BY <1>1, <2>1, ResolveLeaves DEF FindingInv, Kept
<1>2. TypeInv /\ LifeInv /\ [Next]_vars =>
        \A d \in Detector : Concludes(d) =>
          \A f \in Finding : /\ f \notin away[d] => Standing(table'[f])
                             /\ f \notin there[d] => ~Standing(table'[f])
  BY <1>1
<1> QED BY <1>2, TypeInvAlways, LifeInvAlways, PTL DEF Spec, PassAgrees

\* A waiver that was over when a pass began does not outlive the pass, on both
\* engines, as long as passes do not overlap.
THEOREM WaiverEndsAlone ==
  ASSUME OnePass
  PROVE  Spec => WaiverEnds
<1>1. ASSUME TypeInv, LifeInv, [Next]_vars, NEW d \in Detector, Concludes(d),
             NEW f \in Finding \ decided[d],
             table'[f].status = "waived", table'[f].waiver \in Nat
      PROVE  pass[d].now <= table'[f].waiver
  <2>1. ResolveUnseen(d)
    BY <1>1, ConcludesIsResolve
  <2>2. Standing(table'[f])
    BY <1>1 DEF Standing
  <2> QED BY <1>1, <2>1, <2>2, ResolveLeaves DEF FindingInv, Expired
<1>2. TypeInv /\ LifeInv /\ [Next]_vars =>
        \A d \in Detector : Concludes(d) =>
          \A f \in Finding \ decided[d] :
            table'[f].status = "waived" /\ table'[f].waiver \in Nat =>
              pass[d].now <= table'[f].waiver
  BY <1>1
<1> QED BY <1>2, TypeInvAlways, LifeInvAlways, PTL DEF Spec, WaiverEnds

\* A person's decision is not undone by a pass, unless the waiver is over or the
\* finding was away, on SQLite and as long as passes do not overlap.  Neither
\* condition can go: MCFindings with Engine = "postgres", or with two detectors,
\* breaks it.
THEOREM DispositionStandsAlone ==
  ASSUME OnePass, Engine = "sqlite"
  PROVE  Spec => DispositionStands
<1> DEFINE Decided(row) == row.status \in {"acknowledged", "waived"}
           Excused(f) == \/ table[f].status = "waived" /\ table[f].waiver \in 0..clock - 1
                         \/ \E d \in Detector : pass[d].pc # "idle" /\ f \in away[d]
<1>1. ASSUME TypeInv, LifeInv, [Next]_vars, NEW f \in Finding,
             Decided(table[f]), ~Decided(table'[f])
      PROVE  Excused(f)
  <2>1. /\ table[f] \in RowType /\ clock \in Nat /\ table'[f] # table[f]
        /\ table \in Tables
    BY <1>1, FindingsAssumption DEF TypeInv, TypeOK, Tables, Time
  <2>2. ASSUME NEW g \in Finding, Acknowledge(g) PROVE FALSE
    <3>1. table' = [table EXCEPT ![g] = [table[g] EXCEPT !.status = "acknowledged"]]
      BY <2>1, <2>2 DEF Acknowledge, Tables
    <3> QED BY <1>1, <2>1, <3>1 DEF Tables, RowType
  <2>3. ASSUME NEW g \in Finding, NEW until \in Waivers, Waive(g, until) PROVE FALSE
    <3>1. table' = [table EXCEPT ![g] = [table[g] EXCEPT !.status = "waived", !.waiver = until]]
      BY <2>1, <2>3 DEF Waive, Tables
    <3> QED BY <1>1, <2>1, <3>1 DEF Tables, RowType
  <2>4. ASSUME NEW d \in Detector, NEW g \in Finding, WriteBack(d, g) PROVE Excused(f)
    <3> DEFINE now == pass[d].now
               status == IF table[g].status = "none" THEN "open"
                         ELSE StatusAfter(pass[d].base[g], now)
               row == [status |-> status, seen |-> now, resolved |-> 0, waiver |-> table[g].waiver]
    <3>1. /\ pass[d].pc = "write" /\ pass[d].base = table
          /\ table' = [table EXCEPT ![g] = row]
      BY <2>4 DEF WriteBack, MayWrite
    <3>2. g = f /\ table'[f] = row
      BY <2>1, <3>1 DEF Tables
    <3>3. status = StatusAfter(table[f], now) /\ ~Decided([status |-> status])
      BY <1>1, <3>1, <3>2
    <3> HIDE DEF status
    <3>4. table[f].status = "waived" /\ Expired(table[f].waiver, now)
      BY <1>1, <2>1, <3>3, StatusAfterStands
    <3>5. now = clock
      BY <1>1, <3>1 DEF LifeInv, Active
    <3> QED BY <2>1, <3>4, <3>5 DEF Expired
  <2>5. ASSUME NEW d \in Detector, ResolveUnseen(d) PROVE Excused(f)
    <3>1. ~Standing(table'[f]) /\ Standing(table[f])
      <4>1. table'[f] = [table[f] EXCEPT !.status = "resolved", !.resolved = pass[d].now]
        BY <2>1, <2>5 DEF ResolveUnseen
      <4>2. table'[f].status = "resolved"
        BY <2>1, <4>1 DEF RowType
      <4> QED BY <1>1, <4>2 DEF Standing
    <3>2. f \in away[d] /\ pass[d].pc = "resolve"
      BY <1>1, <2>5, <3>1, ResolveLeaves DEF FindingInv, Kept
    <3> QED BY <3>2
  <2>6. ASSUME NEW d \in Detector, Prune(d) PROVE FALSE
    BY <1>1, <2>1, <2>6 DEF Prune, Prunable
  <2>7. ASSUME table' = table PROVE FALSE
    BY <2>1, <2>7
  <2> HIDE DEF Excused
  <2> QED
    BY <1>1, <2>2, <2>3, <2>4, <2>5, <2>6, <2>7
    DEF Next, Person, Detect, Change, Begin, Load, ReadPrior, AllRecorded, Fail, vars
<1>2. TypeInv /\ LifeInv /\ [Next]_vars =>
        \A f \in Finding :
          table[f].status \in {"acknowledged", "waived"}
            /\ table'[f].status \notin {"acknowledged", "waived"} =>
            \/ table[f].status = "waived" /\ table[f].waiver \in 0..clock - 1
            \/ \E d \in Detector : pass[d].pc # "idle" /\ f \in away[d]
  BY <1>1
<1> QED BY <1>2, TypeInvAlways, LifeInvAlways, PTL DEF Spec, DispositionStands
=============================================================================
