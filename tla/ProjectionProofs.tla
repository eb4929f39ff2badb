-------------------------- MODULE ProjectionProofs --------------------------
(***************************************************************************)
(* Proofs about module Projection, for every number of processes and       *)
(* observations.                                                           *)
(***************************************************************************)
EXTENDS Projection, TLAPS, FiniteSetTheorems, WellFoundedInduction

-----------------------------------------------------------------------------
(* Type correctness.                                                        *)

LEMMA IdleType == Idle \in Process
<1>1. NoPrint \in [Locator -> State]
  BY ObsAssumption DEF NoPrint, Fingerprint, EmptyView, NoRow
<1> QED BY <1>1 DEF Idle, Process, PC

\* A set of numbers that is not empty has a least one.
LEMMA NatMin ==
  ASSUME NEW S, S \subseteq Nat, S # {}
  PROVE  \E m \in S : \A n \in S : m <= n
<1> DEFINE R == {ss \in Nat \X Nat : ss[1] < ss[2]}
<1>1. IsWellFoundedOn(R, Nat)
  BY NatLessThanWellFounded DEF OpToRel
<1>2. PICK m \in S : \A n \in S : ~(<<n, m>> \in R)
  <2> HIDE DEF R
  <2> QED BY <1>1, WFMin
<1>3. ASSUME NEW n \in S, ~(m <= n) PROVE FALSE
  <2>1. m \in Nat /\ n \in Nat
    OBVIOUS
  <2>2. <<n, m>> \in R
    BY <1>3, <2>1, SMT
  <2> QED BY <2>2, <1>2
<1> QED BY <1>3

\* Newest finds the row with the highest seq, in any bounded set of rows.
LEMMA NewestIsNewest ==
  ASSUME NEW rows, rows # {}, NEW bound \in Nat,
         \A r \in rows : r.seq \in Nat /\ r.seq <= bound
  PROVE  /\ Newest(rows) \in rows
         /\ \A s \in rows : s.seq <= Newest(rows).seq
<1> DEFINE Gaps == {bound - r.seq : r \in rows}
<1>1. Gaps \subseteq Nat /\ Gaps # {}
  BY SMT
<1>2. PICK gap \in Gaps : \A g \in Gaps : gap <= g
  <2> HIDE DEF Gaps
  <2> QED BY <1>1, NatMin
<1>3. PICK r \in rows : gap = bound - r.seq
  OBVIOUS
<1>4. ASSUME NEW s \in rows PROVE s.seq <= r.seq
  <2>1. gap <= bound - s.seq
    BY <1>2
  <2> QED BY <2>1, <1>3, SMT
<1> QED BY <1>4 DEF Newest

LEMMA AboutType ==
  ASSUME NEW batch \in SUBSET Row, NEW l \in Locator
  PROVE  About(l, batch) \in SUBSET Row
  BY DEF About

\* A fold over a batch with bounded seqs: every entry is one of the candidates
\* and none of them is newer.
LEMMA FoldIsNewest ==
  ASSUME NEW v \in View, NEW batch \in SUBSET Row, NEW l \in Locator, NEW bound \in Nat,
         \A r \in batch : r.seq <= bound
  PROVE  /\ Fold(v, batch)[l] \in About(l, batch) \cup {v[l]}
         /\ \A s \in About(l, batch) \cup {v[l]} : s.seq <= Fold(v, batch)[l].seq
<1> DEFINE cands == About(l, batch) \cup {v[l]}
           top == IF v[l].seq > bound THEN v[l].seq ELSE bound
<1>1. v[l].seq \in Nat
  BY DEF View, Row, NoRow
<1>2. \A r \in cands : r.seq \in Nat /\ r.seq <= top
  BY <1>1 DEF About, Row
<1>3. /\ Newest(cands) \in cands
      /\ \A s \in cands : s.seq <= Newest(cands).seq
  <2>1. top \in Nat
    BY <1>1
  <2> HIDE DEF cands, top
  <2>2. cands # {}
    BY DEF cands
  <2> QED BY <1>2, <2>1, <2>2, NewestIsNewest
<1>4. Fold(v, batch)[l] = Newest(cands)
  BY DEF Fold
<1> QED BY <1>3, <1>4

LEMMA FoldType ==
  ASSUME NEW v \in View, NEW batch \in SUBSET Row, NEW bound \in Nat,
         \A r \in batch : r.seq <= bound
  PROVE  Fold(v, batch) \in View
<1>1. ASSUME NEW l \in Locator PROVE Fold(v, batch)[l] \in Row \cup {NoRow}
  <2>1. Fold(v, batch)[l] \in About(l, batch) \cup {v[l]}
    BY FoldIsNewest
  <2>2. About(l, batch) \subseteq Row /\ v[l] \in Row \cup {NoRow}
    BY AboutType DEF View
  <2> QED BY <2>1, <2>2
<1> HIDE DEF View
<1> QED BY <1>1 DEF Fold, View

-----------------------------------------------------------------------------
(* Type correctness.  TypeOK is not inductive by itself: what FoldBatch puts *)
(* into last_seq is a number only if the batch has a newest row, which it   *)
(* has because all its seqs lie below the sequence; and the sequence, which *)
(* SQLite rolls back with a transaction, stays above the log only because   *)
(* no other process inserts in the meantime.                                *)

LogBelow == \A r \in log : r.seq < nextSeq

RowsBelow == \A p \in Proc : \A r \in proc[p].rows : r.seq < nextSeq

RowsInTransaction ==
  \A p \in Proc : proc[p].rows # {} => proc[p].pc = "insert"

BatchFromLog ==
  \A p \in Proc : /\ proc[p].batch \subseteq log
                  /\ proc[p].pc = "fold" => proc[p].batch # {}

\* A database that nobody else uses.
Solo == \A p, q \in Proc : p = q

\* SQLite, or a single process: one transaction inserts, and the log stands
\* still meanwhile.
OneWriter ==
  Engine = "sqlite" \/ Solo =>
    \A p \in Proc : proc[p].pc = "insert" =>
      /\ proc[p].base \in Nat \ {0} /\ proc[p].base <= nextSeq
      /\ \A r \in log : r.seq < proc[p].base
      /\ \A r \in proc[p].rows : proc[p].base <= r.seq
      /\ \A q \in Proc \ {p} : proc[q].pc # "insert"

SeqInv ==
  TypeOK /\ LogBelow /\ RowsBelow /\ RowsInTransaction /\ BatchFromLog /\ OneWriter

LEMMA SeqInvInit == Init => SeqInv
<1> SUFFICES ASSUME Init PROVE SeqInv
  OBVIOUS
<1>1. TypeOK
  BY IdleType DEF Init, TypeOK, EmptyView, View
<1>2. \A p \in Proc : proc[p] = Idle
  BY DEF Init
<1> QED BY <1>1, <1>2 DEF Init, SeqInv, LogBelow, RowsBelow, RowsInTransaction,
             BatchFromLog, OneWriter, Idle

\* Outside a transaction of Append: process p, which inserts nothing before or
\* after, changes its own record, the view and the cursor.
OtherProcs(p) == \A q \in Proc \ {p} : proc'[q] = proc[q]

LEMMA ProcStepTyped ==
  ASSUME NEW p \in Proc, proc \in [Proc -> Process], NEW r \in Process,
         proc' = [proc EXCEPT ![p] = r]
  PROVE  proc' \in [Proc -> Process] /\ proc'[p] = r /\ OtherProcs(p)
  BY DEF OtherProcs

LEMMA SeqInvOutside ==
  ASSUME SeqInv, NEW p \in Proc,
         proc' \in [Proc -> Process], OtherProcs(p),
         proc[p].rows = {}, proc'[p].rows = {}, proc'[p].pc # "insert",
         proc'[p].batch \subseteq log,
         proc'[p].pc = "fold" => proc'[p].batch # {},
         log' = log, nextSeq' = nextSeq,
         view' \in View, lastSeq' \in Nat,
         verdict' \in {"none", "clean", "diverged"}, killed' \subseteq {"fold", "rebuild"}
  PROVE  SeqInv'
<1> USE DEF SeqInv
<1>1. TypeOK'
  BY DEF TypeOK
<1>2. LogBelow'
  BY DEF LogBelow
<1>3. RowsBelow'
  BY DEF RowsBelow, OtherProcs
<1>4. RowsInTransaction'
  BY DEF RowsInTransaction, OtherProcs
<1>5. BatchFromLog'
  BY DEF BatchFromLog, OtherProcs
<1>6. OneWriter'
  BY DEF OneWriter, OtherProcs
<1> QED BY <1>1, <1>2, <1>3, <1>4, <1>5, <1>6

LEMMA FoldedBatchHasNewest ==
  ASSUME SeqInv, NEW p \in Proc, proc[p].pc = "fold"
  PROVE  /\ proc[p].batch \subseteq log
         /\ Newest(proc[p].batch) \in proc[p].batch
         /\ \A r \in proc[p].batch : r.seq <= Newest(proc[p].batch).seq
         /\ Fold(view, proc[p].batch) \in View
<1> USE DEF SeqInv
<1> DEFINE B == proc[p].batch
<1>1. B \in SUBSET Row /\ B # {} /\ B \subseteq log
  BY DEF BatchFromLog, TypeOK
<1>2. nextSeq \in Nat /\ \A r \in B : r.seq \in Nat /\ r.seq <= nextSeq
  BY <1>1 DEF LogBelow, TypeOK, Row
<1> HIDE DEF B
<1>3. Newest(B) \in B /\ \A r \in B : r.seq <= Newest(B).seq
  BY <1>1, <1>2, NewestIsNewest
<1>4. Fold(view, B) \in View
  BY <1>1, <1>2, FoldType DEF TypeOK
<1> QED BY <1>1, <1>3, <1>4 DEF B

LEMMA SeqInvStep == SeqInv /\ [Next]_vars => SeqInv'
<1> SUFFICES ASSUME SeqInv, [Next]_vars PROVE SeqInv'
  OBVIOUS
<1> USE DEF SeqInv
<1>0. CASE UNCHANGED vars
  BY <1>0 DEF vars, TypeOK, LogBelow, RowsBelow, RowsInTransaction, BatchFromLog, OneWriter
<1>1. ASSUME NEW p \in Proc, NEW batch \in SUBSET Obs, StartScan(p, batch) PROVE SeqInv'
  <2> DEFINE r == [proc[p] EXCEPT !.pc = IF batch = {} THEN "open" ELSE "begin", !.todo = batch]
  <2>1. r \in Process /\ proc' = [proc EXCEPT ![p] = r]
    BY <1>1 DEF StartScan, TypeOK, Process, PC
  <2>2. proc[p].rows = {} /\ r.rows = {} /\ r.pc \notin {"insert", "fold"} /\ r.batch \subseteq log
    BY <1>1 DEF StartScan, TypeOK, Process, PC, RowsInTransaction, BatchFromLog
  <2> HIDE DEF r
  <2> QED BY <1>1, <2>1, <2>2, ProcStepTyped, SeqInvOutside DEF StartScan, TypeOK
<1>2. ASSUME NEW p \in Proc, StartProject(p) PROVE SeqInv'
  <2> DEFINE r == [proc[p] EXCEPT !.pc = "open"]
  <2>1. r \in Process /\ proc' = [proc EXCEPT ![p] = r]
    BY <1>2 DEF StartProject, TypeOK, Process, PC, Goto
  <2>2. proc[p].rows = {} /\ r.rows = {} /\ r.pc \notin {"insert", "fold"} /\ r.batch \subseteq log
    BY <1>2 DEF StartProject, TypeOK, Process, PC, RowsInTransaction, BatchFromLog, Goto
  <2> HIDE DEF r
  <2> QED BY <1>2, <2>1, <2>2, ProcStepTyped, SeqInvOutside DEF StartProject, TypeOK
<1>3. ASSUME NEW p \in Proc, StartRebuild(p) PROVE SeqInv'
  <2> DEFINE r == [proc[p] EXCEPT !.pc = "clear"]
  <2>1. r \in Process /\ proc' = [proc EXCEPT ![p] = r]
    BY <1>3 DEF StartRebuild, TypeOK, Process, PC, Goto
  <2>2. proc[p].rows = {} /\ r.rows = {} /\ r.pc \notin {"insert", "fold"} /\ r.batch \subseteq log
    BY <1>3 DEF StartRebuild, TypeOK, Process, PC, RowsInTransaction, BatchFromLog, Goto
  <2> HIDE DEF r
  <2> QED BY <1>3, <2>1, <2>2, ProcStepTyped, SeqInvOutside DEF StartRebuild, TypeOK
<1>4. ASSUME NEW p \in Proc, StartVerify(p) PROVE SeqInv'
  <2> DEFINE r == [proc[p] EXCEPT !.pc = "open", !.verify = TRUE]
  <2>1. r \in Process /\ proc' = [proc EXCEPT ![p] = r]
    BY <1>4 DEF StartVerify, TypeOK, Process, PC
  <2>2. proc[p].rows = {} /\ r.rows = {} /\ r.pc \notin {"insert", "fold"} /\ r.batch \subseteq log
    BY <1>4 DEF StartVerify, TypeOK, Process, PC, RowsInTransaction, BatchFromLog
  <2> HIDE DEF r
  <2> QED BY <1>4, <2>1, <2>2, ProcStepTyped, SeqInvOutside DEF StartVerify, TypeOK
<1>5. ASSUME NEW p \in Proc, OpenProjector(p) PROVE SeqInv'
  <2> DEFINE r == [proc[p] EXCEPT !.pc = "read", !.last = lastSeq]
  <2>1. r \in Process /\ proc' = [proc EXCEPT ![p] = r]
    BY <1>5 DEF OpenProjector, TypeOK, Process, PC
  <2>2. proc[p].rows = {} /\ r.rows = {} /\ r.pc \notin {"insert", "fold"} /\ r.batch \subseteq log
    BY <1>5 DEF OpenProjector, TypeOK, Process, PC, RowsInTransaction, BatchFromLog
  <2> HIDE DEF r
  <2> QED BY <1>5, <2>1, <2>2, ProcStepTyped, SeqInvOutside DEF OpenProjector, TypeOK
<1>6. ASSUME NEW p \in Proc, ReadBatch(p) PROVE SeqInv'
  <2> DEFINE B == Since(proc[p].last)
             r == [proc[p] EXCEPT !.pc = "fold", !.batch = B]
  <2>0. B \subseteq log /\ B # {} /\ log \subseteq Row
    BY <1>6 DEF Since, TypeOK, ReadBatch
  <2>1. r \in Process /\ proc' = [proc EXCEPT ![p] = r]
    <3>1. proc' = [proc EXCEPT ![p] = r]
      BY <1>6 DEF ReadBatch, TypeOK, Process
    <3> HIDE DEF B
    <3>2. r \in Process
      BY <2>0 DEF TypeOK, Process, PC
    <3> QED BY <3>1, <3>2
  <2>2. proc[p].rows = {} /\ r.rows = {} /\ r.pc # "insert" /\ r.batch = B
    BY <1>6 DEF ReadBatch, TypeOK, Process, PC, RowsInTransaction
  <2> HIDE DEF r, B
  <2> QED
    BY <1>6, <2>0, <2>1, <2>2, ProcStepTyped, SeqInvOutside DEF ReadBatch, TypeOK
<1>7. ASSUME NEW p \in Proc, FoldBatch(p) PROVE SeqInv'
  <2> DEFINE B == proc[p].batch
             r == [proc[p] EXCEPT !.pc = "read", !.last = Newest(B).seq, !.batch = {}]
  <2>1. Newest(B) \in B /\ B \subseteq log
    BY <1>7, FoldedBatchHasNewest DEF FoldBatch
  <2>2. Newest(B).seq \in Nat
    BY <2>1 DEF TypeOK, Row
  <2>3. view' \in View
    BY <1>7, FoldedBatchHasNewest DEF FoldBatch
  <2>4. r \in Process /\ proc' = [proc EXCEPT ![p] = r]
    <3>1. proc' = [proc EXCEPT ![p] = r]
      BY <1>7 DEF FoldBatch, TypeOK, Process
    <3> HIDE DEF B
    <3>2. r \in Process
      BY <2>2 DEF TypeOK, Process, PC
    <3> QED BY <3>1, <3>2
  <2>5. proc[p].rows = {} /\ r.rows = {} /\ r.pc \notin {"insert", "fold"} /\ r.batch = {}
    BY <1>7 DEF FoldBatch, TypeOK, Process, PC, RowsInTransaction
  <2> HIDE DEF r
  <2> QED
    BY <1>7, <2>2, <2>3, <2>4, <2>5, ProcStepTyped, SeqInvOutside DEF FoldBatch, TypeOK
<1>8. ASSUME NEW p \in Proc, CaughtUp(p) PROVE SeqInv'
  <2> DEFINE r == IF proc[p].verify
                  THEN [proc[p] EXCEPT !.pc = "fingerprint", !.last = 0] ELSE Idle
  <2>1. r \in Process /\ proc' = [proc EXCEPT ![p] = r]
    BY <1>8, IdleType DEF CaughtUp, TypeOK, Process, PC
  <2>2. proc[p].rows = {} /\ r.rows = {} /\ r.pc \notin {"insert", "fold"} /\ r.batch \subseteq log
    BY <1>8 DEF CaughtUp, TypeOK, Process, PC, RowsInTransaction, BatchFromLog, Idle
  <2> HIDE DEF r
  <2> QED BY <1>8, <2>1, <2>2, ProcStepTyped, SeqInvOutside DEF CaughtUp, TypeOK
<1>9. ASSUME NEW p \in Proc, ClearRows(p) PROVE SeqInv'
  <2> DEFINE r == [proc[p] EXCEPT !.pc = "rewind"]
  <2>1. r \in Process /\ proc' = [proc EXCEPT ![p] = r]
    BY <1>9 DEF ClearRows, Goto, TypeOK, Process, PC
  <2>2. proc[p].rows = {} /\ r.rows = {} /\ r.pc \notin {"insert", "fold"} /\ r.batch \subseteq log
    BY <1>9 DEF ClearRows, TypeOK, Process, PC, RowsInTransaction, BatchFromLog
  <2>3. view' \in View
    BY <1>9 DEF ClearRows, EmptyView, View
  <2> HIDE DEF r
  <2> QED BY <1>9, <2>1, <2>2, <2>3, ProcStepTyped, SeqInvOutside DEF ClearRows, TypeOK
<1>10. ASSUME NEW p \in Proc, RewindCursor(p) PROVE SeqInv'
  <2> DEFINE r == [proc[p] EXCEPT !.pc = "open"]
  <2>1. r \in Process /\ proc' = [proc EXCEPT ![p] = r]
    BY <1>10 DEF RewindCursor, TypeOK, Process, PC, Goto
  <2>2. proc[p].rows = {} /\ r.rows = {} /\ r.pc \notin {"insert", "fold"} /\ r.batch \subseteq log
    BY <1>10 DEF RewindCursor, TypeOK, Process, PC, RowsInTransaction, BatchFromLog, Goto
  <2> HIDE DEF r
  <2> QED BY <1>10, <2>1, <2>2, ProcStepTyped, SeqInvOutside DEF RewindCursor, TypeOK
<1>11. ASSUME NEW p \in Proc, TakeFingerprint(p) PROVE SeqInv'
  <2> DEFINE r == [proc[p] EXCEPT !.pc = "replay", !.before = Fingerprint(view)]
  <2>0. Fingerprint(view) \in [Locator -> State]
    BY ObsAssumption DEF Fingerprint, TypeOK, View, Row, NoRow
  <2>1. r \in Process /\ proc' = [proc EXCEPT ![p] = r]
    BY <1>11, <2>0 DEF TakeFingerprint, TypeOK, Process, PC
  <2>2. proc[p].rows = {} /\ r.rows = {} /\ r.pc \notin {"insert", "fold"} /\ r.batch \subseteq log
    BY <1>11 DEF TakeFingerprint, TypeOK, Process, PC, RowsInTransaction, BatchFromLog
  <2> HIDE DEF r
  <2> QED BY <1>11, <2>1, <2>2, ProcStepTyped, SeqInvOutside DEF TakeFingerprint, TypeOK
<1>12. ASSUME NEW p \in Proc, Replay(p) PROVE SeqInv'
  <2>1. proc[p].rows = {} /\ Idle.rows = {} /\ Idle.pc \notin {"insert", "fold"} /\ Idle.batch = {}
    BY <1>12 DEF Replay, TypeOK, Process, PC, RowsInTransaction, Idle
  <2> QED BY <1>12, <2>1, IdleType, ProcStepTyped, SeqInvOutside DEF Replay, TypeOK
<1>13. ASSUME NEW p \in Proc, BeginAppend(p) PROVE SeqInv'
  <2> DEFINE r == [proc[p] EXCEPT !.pc = "insert", !.base = nextSeq]
  <2>1. r \in Process /\ proc' = [proc EXCEPT ![p] = r]
    BY <1>13 DEF BeginAppend, TypeOK, Process, PC
  <2>2. /\ proc[p].rows = {} /\ r.rows = {} /\ r.pc = "insert" /\ r.base = nextSeq
        /\ r.batch \subseteq log
    BY <1>13 DEF BeginAppend, TypeOK, Process, PC, RowsInTransaction, BatchFromLog
  <2> HIDE DEF r
  <2>3. proc' \in [Proc -> Process] /\ proc'[p] = r /\ OtherProcs(p)
    BY <2>1, ProcStepTyped DEF TypeOK
  <2>4. TypeOK'
    BY <1>13, <2>3 DEF BeginAppend, TypeOK
  <2>5. (LogBelow /\ RowsBelow /\ RowsInTransaction /\ BatchFromLog)'
    BY <1>13, <2>2, <2>3
       DEF BeginAppend, LogBelow, RowsBelow, RowsInTransaction, BatchFromLog, OtherProcs
  <2>6. OneWriter'
    BY <1>13, <2>2, <2>3 DEF BeginAppend, CanWrite, OneWriter, Solo, OtherProcs, TypeOK, LogBelow
  <2> QED BY <2>4, <2>5, <2>6
<1>14. ASSUME NEW p \in Proc, NEW o \in Obs, InsertNew(p, o) PROVE SeqInv'
  <2> DEFINE new == [seq |-> nextSeq, obs |-> o]
             r == [proc[p] EXCEPT !.todo = @ \ {o}, !.rows = @ \cup {new}]
  <2>0. new \in Row /\ new.seq = nextSeq
    BY DEF TypeOK, Row
  <2>1. r \in Process /\ proc' = [proc EXCEPT ![p] = r]
    <3>1. proc' = [proc EXCEPT ![p] = r]
      BY <1>14 DEF InsertNew, TypeOK, Process
    <3> HIDE DEF new
    <3> QED BY <2>0, <3>1 DEF TypeOK, Process, PC
  <2>2. /\ proc[p].pc = "insert" /\ r.pc = "insert" /\ r.base = proc[p].base
        /\ r.rows = proc[p].rows \cup {new} /\ r.batch = proc[p].batch
    BY <1>14 DEF InsertNew, TypeOK, Process, PC
  <2> HIDE DEF r, new
  <2>3. proc' \in [Proc -> Process] /\ proc'[p] = r /\ OtherProcs(p)
    BY <2>1, ProcStepTyped DEF TypeOK
  <2>4. nextSeq \in Nat \ {0} /\ nextSeq' = nextSeq + 1 /\ log' = log
    BY <1>14 DEF InsertNew, TypeOK
  <2>5. TypeOK'
    BY <1>14, <2>3, <2>4 DEF InsertNew, TypeOK
  <2>6. LogBelow'
    BY <2>4 DEF LogBelow, TypeOK, Row
  <2>7. RowsBelow'
    <3> SUFFICES ASSUME NEW q \in Proc, NEW t \in proc'[q].rows PROVE t.seq < nextSeq'
      BY DEF RowsBelow
    <3>1. t \in proc[q].rows \/ t = new
      BY <2>2, <2>3 DEF OtherProcs
    <3>2. CASE t = new
      BY <3>2, <2>0, <2>4
    <3>3. CASE t \in proc[q].rows
      <4>1. t.seq < nextSeq /\ t.seq \in Nat
        BY <3>3 DEF RowsBelow, TypeOK, Process, Row
      <4> QED BY <4>1, <2>4
    <3> QED BY <3>1, <3>2, <3>3
  <2>8. (RowsInTransaction /\ BatchFromLog)'
    BY <2>2, <2>3, <2>4 DEF RowsInTransaction, BatchFromLog, OtherProcs
  <2>9. OneWriter'
    BY <2>0, <2>2, <2>3, <2>4 DEF OneWriter, OtherProcs
  <2> QED BY <2>5, <2>6, <2>7, <2>8, <2>9
<1>15. ASSUME NEW p \in Proc, NEW o \in Obs, InsertDuplicate(p, o) PROVE SeqInv'
  <2> DEFINE r == [proc[p] EXCEPT !.todo = @ \ {o}]
  <2>1. r \in Process /\ proc' = [proc EXCEPT ![p] = r]
    BY <1>15 DEF InsertDuplicate, TypeOK, Process, PC
  <2>2. /\ proc[p].pc = "insert" /\ r.pc = "insert" /\ r.base = proc[p].base
        /\ r.rows = proc[p].rows /\ r.batch = proc[p].batch
    BY <1>15 DEF InsertDuplicate, TypeOK, Process, PC
  <2> HIDE DEF r
  <2>3. proc' \in [Proc -> Process] /\ proc'[p] = r /\ OtherProcs(p)
    BY <2>1, ProcStepTyped DEF TypeOK
  <2>4. nextSeq \in Nat \ {0} /\ nextSeq' = nextSeq + 1 /\ log' = log
    BY <1>15 DEF InsertDuplicate, TypeOK
  <2>5. TypeOK'
    BY <1>15, <2>3, <2>4 DEF InsertDuplicate, TypeOK
  <2>6. LogBelow'
    BY <2>4 DEF LogBelow, TypeOK, Row
  <2>7. RowsBelow'
    <3> SUFFICES ASSUME NEW q \in Proc, NEW t \in proc'[q].rows PROVE t.seq < nextSeq'
      BY DEF RowsBelow
    <3>1. t \in proc[q].rows
      BY <2>2, <2>3 DEF OtherProcs
    <3>2. t.seq < nextSeq /\ t.seq \in Nat
      BY <3>1 DEF RowsBelow, TypeOK, Process, Row
    <3> QED BY <3>2, <2>4
  <2>8. (RowsInTransaction /\ BatchFromLog)'
    BY <2>2, <2>3, <2>4 DEF RowsInTransaction, BatchFromLog, OtherProcs
  <2>9. OneWriter'
    BY <2>2, <2>3, <2>4 DEF OneWriter, OtherProcs
  <2> QED BY <2>5, <2>6, <2>7, <2>8, <2>9
<1>16. ASSUME NEW p \in Proc, CommitAppend(p) PROVE SeqInv'
  <2> DEFINE r == [proc[p] EXCEPT !.pc = "open", !.rows = {}, !.base = 0]
  <2>1. r \in Process /\ proc' = [proc EXCEPT ![p] = r]
    BY <1>16 DEF CommitAppend, TypeOK, Process, PC
  <2>2. /\ proc[p].pc = "insert" /\ r.pc = "open" /\ r.rows = {} /\ r.batch = proc[p].batch
    BY <1>16 DEF CommitAppend, TypeOK, Process, PC
  <2> HIDE DEF r
  <2>3. proc' \in [Proc -> Process] /\ proc'[p] = r /\ OtherProcs(p)
    BY <2>1, ProcStepTyped DEF TypeOK
  <2>4. log' = log \cup proc[p].rows /\ nextSeq' = nextSeq /\ proc[p].rows \subseteq Row
    BY <1>16 DEF CommitAppend, TypeOK, Process
  <2>5. TypeOK'
    BY <1>16, <2>3, <2>4 DEF CommitAppend, TypeOK
  <2>6. LogBelow'
    BY <2>4 DEF LogBelow, RowsBelow
  <2>7. (RowsBelow /\ RowsInTransaction /\ BatchFromLog)'
    BY <2>2, <2>3, <2>4 DEF RowsBelow, RowsInTransaction, BatchFromLog, OtherProcs
  <2>8. OneWriter'
    BY <2>2, <2>3, <2>4 DEF OneWriter, OtherProcs
  <2> QED BY <2>5, <2>6, <2>7, <2>8
<1>17. ASSUME NEW p \in Proc, Abandon(p) PROVE SeqInv'
  <2>1. proc' \in [Proc -> Process] /\ proc'[p] = Idle /\ OtherProcs(p)
    BY <1>17, IdleType, ProcStepTyped DEF Abandon, TypeOK
  <2>2. log' = log /\ Idle.rows = {} /\ Idle.pc = "idle" /\ Idle.batch = {}
    BY <1>17 DEF Abandon, Idle
  <2>3. (RowsInTransaction /\ BatchFromLog)'
    BY <2>1, <2>2 DEF RowsInTransaction, BatchFromLog, OtherProcs
  <2>4. CASE Engine = "sqlite" /\ proc[p].pc = "insert"
    <3>1. nextSeq' = proc[p].base /\ proc[p].base \in Nat \ {0}
      BY <1>17, <2>4 DEF Abandon, OneWriter
    <3>2. \A q \in Proc : proc'[q].pc # "insert" /\ proc'[q].rows = {}
      BY <2>1, <2>2, <2>4 DEF OneWriter, OtherProcs, RowsInTransaction
    <3>3. TypeOK'
      BY <1>17, <2>1, <3>1 DEF Abandon, TypeOK
    <3>4. (LogBelow /\ RowsBelow /\ OneWriter)'
      BY <2>2, <2>4, <3>1, <3>2 DEF LogBelow, RowsBelow, OneWriter
    <3> QED BY <2>3, <3>3, <3>4
  <2>5. CASE ~(Engine = "sqlite" /\ proc[p].pc = "insert")
    <3>1. nextSeq' = nextSeq
      BY <1>17, <2>5 DEF Abandon
    <3>2. TypeOK'
      BY <1>17, <2>1, <3>1 DEF Abandon, TypeOK
    <3>3. (LogBelow /\ RowsBelow /\ OneWriter)'
      BY <2>1, <2>2, <3>1 DEF LogBelow, RowsBelow, OneWriter, OtherProcs
    <3> QED BY <2>3, <3>2, <3>3
  <2> QED BY <2>4, <2>5
<1> QED
  BY <1>0, <1>1, <1>2, <1>3, <1>4, <1>5, <1>6, <1>7, <1>8, <1>9, <1>10, <1>11, <1>12,
     <1>13, <1>14, <1>15, <1>16, <1>17 DEF Next, Start, Run

LEMMA SeqInvAlways == Spec => []SeqInv
<1>1. SeqInv /\ [Next]_vars => SeqInv'
  BY SeqInvStep
<1> QED BY <1>1, SeqInvInit, PTL DEF Spec

\* On either engine, with any number of processes appending, folding,
\* rebuilding and being killed, the state has its type.
THEOREM TypeCorrect == Spec => []TypeOK
<1>1. SeqInv => TypeOK
  BY DEF SeqInv
<1> QED BY <1>1, SeqInvAlways, PTL

-----------------------------------------------------------------------------
(* One row per observation, on either engine.                               *)

AllRows == log \cup UNION {proc[p].rows : p \in Proc}

UniqueInv == \A r, s \in AllRows : (r.seq = s.seq) <=> (r.obs = s.obs)

\* Every step but an insert and its commit leaves the rows where they are, or
\* drops them.
RowsKept ==
  log' = log /\ \A p \in Proc : proc'[p].rows \subseteq proc[p].rows

LEMMA KeepsRows ==
  ASSUME proc \in [Proc -> Process], log' = log, NEW p \in Proc, OtherProcs(p),
         proc'[p].rows \subseteq proc[p].rows
  PROVE  RowsKept
  BY DEF RowsKept, OtherProcs

LEMMA RowsKeptButInsertAndCommit ==
  ASSUME SeqInv, NEW p \in Proc,
         Start(p) \/ Run(p) \/ Abandon(p),
         ~CommitAppend(p), ~\E o \in Obs : InsertNew(p, o)
  PROVE  RowsKept
<1> USE DEF SeqInv
<1>0. proc \in [Proc -> Process] /\ Idle.rows = {}
  BY DEF TypeOK, Idle
<1>1. ASSUME NEW batch \in SUBSET Obs, StartScan(p, batch) PROVE RowsKept
  BY <1>0, <1>1, KeepsRows DEF StartScan, Process, OtherProcs
<1>2. CASE \E o \in Obs : InsertDuplicate(p, o)
  BY <1>0, <1>2, KeepsRows DEF InsertDuplicate, Process, OtherProcs
<1>3. CASE Abandon(p)
  BY <1>0, <1>3, KeepsRows DEF Abandon, Process, OtherProcs
<1>4. CASE CaughtUp(p)
  BY <1>0, <1>4, KeepsRows DEF CaughtUp, Process, OtherProcs
<1>5. CASE Replay(p)
  BY <1>0, <1>5, KeepsRows DEF Replay, Process, OtherProcs
<1>6. CASE StartProject(p)
  BY <1>0, <1>6, KeepsRows DEF StartProject, Goto, Process, OtherProcs
<1>7. CASE StartRebuild(p)
  BY <1>0, <1>7, KeepsRows DEF StartRebuild, Goto, Process, OtherProcs
<1>8. CASE StartVerify(p)
  BY <1>0, <1>8, KeepsRows DEF StartVerify, Process, OtherProcs
<1>9. CASE BeginAppend(p)
  BY <1>0, <1>9, KeepsRows DEF BeginAppend, Process, OtherProcs
<1>10. CASE OpenProjector(p)
  BY <1>0, <1>10, KeepsRows DEF OpenProjector, Process, OtherProcs
<1>11. CASE ReadBatch(p)
  BY <1>0, <1>11, KeepsRows DEF ReadBatch, Process, OtherProcs
<1>12. CASE FoldBatch(p)
  BY <1>0, <1>12, KeepsRows DEF FoldBatch, Process, OtherProcs
<1>13. CASE ClearRows(p)
  BY <1>0, <1>13, KeepsRows DEF ClearRows, Goto, Process, OtherProcs
<1>14. CASE RewindCursor(p)
  BY <1>0, <1>14, KeepsRows DEF RewindCursor, Goto, Process, OtherProcs
<1>15. CASE TakeFingerprint(p)
  BY <1>0, <1>15, KeepsRows DEF TakeFingerprint, Process, OtherProcs
<1> QED
  BY <1>1, <1>2, <1>3, <1>4, <1>5, <1>6, <1>7, <1>8, <1>9, <1>10, <1>11, <1>12, <1>13, <1>14, <1>15 DEF Start, Run

LEMMA InsertNewIsUnique ==
  ASSUME SeqInv, UniqueInv, NEW p \in Proc, NEW o \in Obs, InsertNew(p, o)
  PROVE  UniqueInv'
<1> USE DEF SeqInv
<1> DEFINE new == [seq |-> nextSeq, obs |-> o]
<1>1. AllRows' \subseteq AllRows \cup {new}
  <2>1. proc \in [Proc -> Process]
    BY DEF TypeOK
  <2>2. proc'[p].rows = proc[p].rows \cup {new} /\ OtherProcs(p) /\ log' = log
    BY <2>1 DEF InsertNew, Process, OtherProcs
  <2> HIDE DEF new
  <2> QED BY <2>2 DEF AllRows, OtherProcs
<1>2. \A r \in AllRows : r.seq < nextSeq /\ r.obs # o /\ r.seq \in Nat
  <2>1. \A r \in log : r.seq < nextSeq /\ r.obs # o /\ r.seq \in Nat
    BY DEF InsertNew, Ids, LogBelow, TypeOK, Row
  <2>2. \A q \in Proc : \A r \in proc[q].rows : r.seq < nextSeq /\ r.obs # o /\ r.seq \in Nat
    <3> SUFFICES ASSUME NEW q \in Proc, NEW r \in proc[q].rows
                 PROVE  r.seq < nextSeq /\ r.obs # o /\ r.seq \in Nat
      OBVIOUS
    <3>1. r.seq < nextSeq /\ r.seq \in Nat
      BY DEF RowsBelow, TypeOK, Process, Row
    <3>2. r.obs # o
      BY DEF InsertNew, InsertedElsewhere, Ids
    <3> QED BY <3>1, <3>2
  <2> QED BY <2>1, <2>2 DEF AllRows
<1>3. new.seq = nextSeq /\ new.obs = o /\ nextSeq \in Nat
  BY DEF TypeOK
<1> HIDE DEF new
<1>4. \A r, s \in AllRows \cup {new} : (r.seq = s.seq) <=> (r.obs = s.obs)
  BY <1>2, <1>3 DEF UniqueInv
<1> QED BY <1>1, <1>4 DEF UniqueInv

LEMMA UniqueInvAlways == Spec => []UniqueInv
<1>1. Init => UniqueInv
  <2> SUFFICES ASSUME Init PROVE AllRows = {}
    BY DEF UniqueInv
  <2> QED BY DEF Init, AllRows, Idle
<1>2. SeqInv /\ UniqueInv /\ [Next]_vars => UniqueInv'
  <2> SUFFICES ASSUME SeqInv, UniqueInv, [Next]_vars PROVE UniqueInv'
    OBVIOUS
  <2>1. CASE UNCHANGED vars
    BY <2>1 DEF vars, UniqueInv, AllRows
  <2>2. CASE RowsKept
    BY <2>2 DEF UniqueInv, RowsKept, AllRows
  <2>3. ASSUME NEW p \in Proc, CommitAppend(p) PROVE UniqueInv'
    <3>1. AllRows' \subseteq AllRows
      BY <2>3 DEF SeqInv, TypeOK, CommitAppend, Process, AllRows
    <3> QED BY <3>1 DEF UniqueInv
  <2>4. ASSUME NEW p \in Proc, NEW o \in Obs, InsertNew(p, o) PROVE UniqueInv'
    BY <2>4, InsertNewIsUnique
  <2> QED BY <2>1, <2>2, <2>3, <2>4, RowsKeptButInsertAndCommit DEF Next
<1> QED BY <1>1, <1>2, SeqInvAlways, PTL DEF Spec

\* Two processes that append the same observations at the same time record
\* each of them once, whichever engine resolves the conflict.
THEOREM UniqueRowsAlways == Spec => []UniqueRows
<1>1. UniqueInv => UniqueRows
  BY DEF UniqueInv, UniqueRows, AllRows
<1> QED BY <1>1, UniqueInvAlways, PTL

-----------------------------------------------------------------------------
(* Reflected, on SQLite and without rebuild.  A cursor, of the projector or *)
(* of a process at work, is 0 or the seq of a row of the log; a transaction *)
(* of Append commits rows above the whole log, so above every cursor.       *)

AtRow(n) == n = 0 \/ \E r \in log : r.seq = n

FiniteRows == IsFiniteSet(log) /\ \A p \in Proc : IsFiniteSet(proc[p].rows)

\* What a process holds between its read and its fold is everything the log
\* had next, whatever was committed or folded since.
NextInLog(p) ==
  \A s \in proc[p].batch :
    /\ proc[p].last < s.seq
    /\ \A r \in log : proc[p].last < r.seq /\ r.seq <= s.seq => r \in proc[p].batch

CursorInv ==
  /\ AtRow(lastSeq) /\ Reflected
  /\ \A p \in Proc : /\ proc[p].pc \notin {"clear", "rewind"}
                     /\ AtRow(proc[p].last)
                     /\ ReflectedUpTo(view, log, proc[p].last)
                     /\ proc[p].pc = "fold" => NextInLog(p)

\* Since returns the rows that come next: none of them without those before.
LEMMA SinceIsNext ==
  ASSUME TypeOK, IsFiniteSet(log), NEW n \in Nat, NEW s \in Since(n),
         NEW r \in log, n < r.seq, r.seq <= s.seq
  PROVE  r \in Since(n)
<1> DEFINE newer == {t \in log : t.seq > n}
           Below(x) == {t \in newer : t.seq < x.seq}
<1>1. IsFiniteSet(newer)
  BY FS_Subset
<1>2. Below(s) \in SUBSET newer /\ Below(r) \in SUBSET Below(s)
  BY DEF TypeOK, Row, Since
<1>3. IsFiniteSet(Below(s)) /\ IsFiniteSet(Below(r))
      /\ Cardinality(Below(r)) <= Cardinality(Below(s))
  <2> HIDE DEF newer, Below
  <2>1. IsFiniteSet(Below(s))
    BY <1>1, <1>2, FS_Subset
  <2> QED BY <2>1, <1>2, FS_Subset
<1>4. Cardinality(Below(s)) \in Nat /\ Cardinality(Below(r)) \in Nat
  <2> HIDE DEF Below
  <2> QED BY <1>3, FS_CardinalityType
<1>5. Cardinality(Below(s)) < BatchLimit
  BY DEF Since
<1>6. Cardinality(Below(r)) < BatchLimit
  <2> HIDE DEF Below
  <2> QED BY <1>3, <1>4, <1>5, ProjectionAssumption
<1>7. r \in newer
  BY DEF TypeOK, Row
<1> QED BY <1>6, <1>7 DEF Since

LEMMA FiniteRowsStep == SeqInv /\ FiniteRows /\ [Next]_vars => FiniteRows'
<1> SUFFICES ASSUME SeqInv, FiniteRows, [Next]_vars PROVE FiniteRows'
  OBVIOUS
<1>0. proc \in [Proc -> Process]
  BY DEF SeqInv, TypeOK
<1>1. CASE UNCHANGED vars
  BY <1>1 DEF vars, FiniteRows
<1>2. CASE RowsKept
  <2>1. \A p \in Proc : IsFiniteSet(proc'[p].rows)
    BY <1>2, FS_Subset DEF RowsKept, FiniteRows
  <2> QED BY <1>2, <2>1 DEF RowsKept, FiniteRows
<1>3. ASSUME NEW p \in Proc, CommitAppend(p) PROVE FiniteRows'
  <2>1. log' = log \cup proc[p].rows /\ proc'[p].rows = {} /\ OtherProcs(p)
    BY <1>0, <1>3 DEF CommitAppend, Process, OtherProcs
  <2>2. IsFiniteSet(log')
    BY <2>1, FS_Union DEF FiniteRows
  <2>3. \A q \in Proc : IsFiniteSet(proc'[q].rows)
    BY <2>1, FS_EmptySet DEF FiniteRows, OtherProcs
  <2> QED BY <2>2, <2>3 DEF FiniteRows
<1>4. ASSUME NEW p \in Proc, NEW o \in Obs, InsertNew(p, o) PROVE FiniteRows'
  <2> DEFINE new == [seq |-> nextSeq, obs |-> o]
  <2>1. proc'[p].rows = proc[p].rows \cup {new} /\ log' = log /\ OtherProcs(p)
    BY <1>0, <1>4 DEF InsertNew, Process, OtherProcs
  <2>2. \A q \in Proc : IsFiniteSet(proc'[q].rows)
    <3> HIDE DEF new
    <3>1. IsFiniteSet(proc[p].rows \cup {new})
      BY FS_AddElement DEF FiniteRows
    <3> QED BY <2>1, <3>1 DEF FiniteRows, OtherProcs
  <2> QED BY <2>1, <2>2 DEF FiniteRows
<1> QED BY <1>1, <1>2, <1>3, <1>4, RowsKeptButInsertAndCommit DEF Next

\* A step that leaves the log, the view and the projector's cursor alone, and
\* after which the process has no batch in hand.
LEMMA CursorInvQuiet ==
  ASSUME TypeOK, CursorInv, NEW p \in Proc, OtherProcs(p),
         log' = log, view' = view, lastSeq' = lastSeq,
         proc'[p].last \in {proc[p].last, lastSeq, 0},
         proc'[p].pc \notin {"clear", "rewind", "fold"}
  PROVE  CursorInv'
<1>1. AtRow(0) /\ ReflectedUpTo(view, log, 0)
  BY DEF AtRow, ReflectedUpTo, TypeOK, Row
<1>2. \A n : AtRow(n)' <=> AtRow(n)
  BY DEF AtRow
<1>3. \A q \in Proc \ {p} : NextInLog(q) => NextInLog(q)'
  BY DEF NextInLog, OtherProcs
<1>4. AtRow(lastSeq)' /\ Reflected'
  BY DEF CursorInv, Reflected, AtRow
<1>5. AtRow(proc'[p].last) /\ ReflectedUpTo(view, log, proc'[p].last)
  BY <1>1 DEF CursorInv, Reflected
<1> QED BY <1>2, <1>3, <1>4, <1>5 DEF CursorInv, OtherProcs, AtRow

LEMMA CursorInvStep ==
  ASSUME Engine = "sqlite", "rebuild" \notin Commands,
         SeqInv, FiniteRows, CursorInv, [Next]_vars
  PROVE  CursorInv'
<1>0. TypeOK /\ proc \in [Proc -> Process] /\ Idle.last = 0 /\ Idle.pc = "idle"
  BY DEF SeqInv, TypeOK, Idle
<1>1. CASE UNCHANGED vars
  BY <1>1 DEF vars, CursorInv, AtRow, Reflected, NextInLog
<1>2. ASSUME NEW p \in Proc, NEW batch \in SUBSET Obs, StartScan(p, batch) PROVE CursorInv'
  BY <1>0, <1>2, CursorInvQuiet DEF StartScan, Process, OtherProcs, CursorInv
<1>3. ASSUME NEW p \in Proc, StartProject(p) PROVE CursorInv'
  BY <1>0, <1>3, CursorInvQuiet DEF StartProject, Process, OtherProcs, CursorInv, Goto
<1>4. ASSUME NEW p \in Proc, StartVerify(p) PROVE CursorInv'
  BY <1>0, <1>4, CursorInvQuiet DEF StartVerify, Process, OtherProcs, CursorInv
<1>5. ASSUME NEW p \in Proc, BeginAppend(p) PROVE CursorInv'
  BY <1>0, <1>5, CursorInvQuiet DEF BeginAppend, Process, OtherProcs, CursorInv
<1>6. ASSUME NEW p \in Proc, NEW o \in Obs, InsertNew(p, o) PROVE CursorInv'
  BY <1>0, <1>6, CursorInvQuiet DEF InsertNew, Process, OtherProcs, CursorInv
<1>7. ASSUME NEW p \in Proc, NEW o \in Obs, InsertDuplicate(p, o) PROVE CursorInv'
  BY <1>0, <1>7, CursorInvQuiet DEF InsertDuplicate, Process, OtherProcs, CursorInv
<1>8. ASSUME NEW p \in Proc, OpenProjector(p) PROVE CursorInv'
  BY <1>0, <1>8, CursorInvQuiet DEF OpenProjector, Process, OtherProcs, CursorInv
<1>9. ASSUME NEW p \in Proc, CaughtUp(p) PROVE CursorInv'
  BY <1>0, <1>9, CursorInvQuiet DEF CaughtUp, Process, OtherProcs, CursorInv
<1>10. ASSUME NEW p \in Proc, TakeFingerprint(p) PROVE CursorInv'
  BY <1>0, <1>10, CursorInvQuiet DEF TakeFingerprint, Process, OtherProcs, CursorInv
<1>11. ASSUME NEW p \in Proc, Replay(p) PROVE CursorInv'
  BY <1>0, <1>11, CursorInvQuiet DEF Replay, Process, OtherProcs, CursorInv
<1>12. ASSUME NEW p \in Proc, Abandon(p) PROVE CursorInv'
  BY <1>0, <1>12, CursorInvQuiet DEF Abandon, Process, OtherProcs, CursorInv
<1>13. ASSUME NEW p \in Proc, StartRebuild(p) \/ ClearRows(p) \/ RewindCursor(p) PROVE FALSE
  BY <1>13 DEF StartRebuild, ClearRows, RewindCursor, CursorInv
<1>14. ASSUME NEW p \in Proc, ReadBatch(p) PROVE CursorInv'
  <2> DEFINE B == Since(proc[p].last)
  <2>1. /\ OtherProcs(p) /\ proc'[p].batch = B /\ proc'[p].last = proc[p].last
        /\ proc'[p].pc = "fold" /\ proc[p].last \in Nat
    BY <1>0, <1>14 DEF ReadBatch, Process, OtherProcs
  <2>2. log' = log /\ view' = view /\ lastSeq' = lastSeq
    BY <1>14 DEF ReadBatch
  <2>3. \A s \in B : /\ proc[p].last < s.seq
                     /\ \A r \in log : proc[p].last < r.seq /\ r.seq <= s.seq => r \in B
    <3>1. \A s \in B : proc[p].last < s.seq
      BY <1>0, <2>1 DEF Since, TypeOK, Row
    <3> HIDE DEF B
    <3>2. \A s \in B : \A r \in log : proc[p].last < r.seq /\ r.seq <= s.seq => r \in B
      BY <1>0, <2>1, SinceIsNext DEF FiniteRows, B
    <3> QED BY <3>1, <3>2
  <2> HIDE DEF B
  <2> QED BY <2>1, <2>2, <2>3 DEF CursorInv, NextInLog, OtherProcs, Reflected, AtRow
<1>15. ASSUME NEW p \in Proc, FoldBatch(p) PROVE CursorInv'
  <2> DEFINE B == proc[p].batch
             m == Newest(B).seq
  <2>1. /\ OtherProcs(p) /\ proc'[p].last = m /\ proc'[p].pc = "read"
        /\ log' = log /\ lastSeq' = m /\ view' = Fold(view, B)
    BY <1>0, <1>15 DEF FoldBatch, Process, OtherProcs
  <2>2. B \subseteq log /\ Newest(B) \in B /\ \A r \in B : r.seq <= m
    BY <1>15, FoldedBatchHasNewest DEF FoldBatch
  <2>3. B \in SUBSET Row /\ m \in Nat
    BY <1>0, <2>2 DEF TypeOK, Row
  <2>4. NextInLog(p) /\ ReflectedUpTo(view, log, proc[p].last)
    BY <1>15 DEF CursorInv, FoldBatch
  <2> HIDE DEF m, B
  <2>5. \A l \in Locator : \A s \in About(l, B) \cup {view[l]} : s.seq <= view'[l].seq
    BY <1>0, <2>1, <2>2, <2>3, FoldIsNewest DEF TypeOK
  <2>6. \A l \in Locator : view[l].seq <= view'[l].seq
    BY <2>5
  <2>7. \A l \in Locator : view[l].seq \in Nat /\ view'[l].seq \in Nat
    <3>1. view \in View /\ view' \in View
      BY <1>0, <1>15, FoldedBatchHasNewest DEF TypeOK, FoldBatch
    <3> QED BY <3>1 DEF View, Row, NoRow
  <2>8. \A n \in Nat : ReflectedUpTo(view, log, n) => ReflectedUpTo(view', log, n)
    BY <1>0, <2>6, <2>7, ObsAssumption DEF ReflectedUpTo, TypeOK, Row
  <2>9. ReflectedUpTo(view', log, m)
    <3> SUFFICES ASSUME NEW r \in log, r.obs \in FileStates, r.seq <= m
                 PROVE  r.seq <= view'[LocatorOf[r.obs]].seq
      BY DEF ReflectedUpTo
    <3>1. r.seq \in Nat /\ proc[p].last \in Nat /\ LocatorOf[r.obs] \in Locator
      BY <1>0, ObsAssumption DEF TypeOK, Row, Process
    <3>2. CASE r.seq <= proc[p].last
      BY <2>4, <2>6, <2>7, <3>1, <3>2 DEF ReflectedUpTo
    <3>3. CASE proc[p].last < r.seq
      <4>1. r \in B
        BY <2>2, <2>4, <3>3 DEF NextInLog, B, m
      <4>2. r \in About(LocatorOf[r.obs], B)
        BY <4>1 DEF About
      <4> QED BY <2>5, <3>1, <4>2
    <3> QED BY <3>1, <3>2, <3>3
  <2>10. AtRow(m)
    BY <2>2 DEF AtRow, m
  <2>11. \A q \in Proc : proc[q].last \in Nat
    BY <1>0 DEF Process
  <2>12. AtRow(lastSeq)' /\ Reflected'
    BY <2>1, <2>9, <2>10 DEF Reflected, AtRow
  <2>13. ASSUME NEW q \in Proc
         PROVE  /\ proc'[q].pc \notin {"clear", "rewind"}
                /\ AtRow(proc[q].last)'
                /\ ReflectedUpTo(view, log, proc[q].last)'
                /\ proc'[q].pc = "fold" => NextInLog(q)'
    <3>1. CASE q = p
      BY <2>1, <2>9, <2>10, <3>1 DEF AtRow
    <3>2. CASE q # p
      <4>1. proc'[q] = proc[q]
        BY <2>1, <3>2 DEF OtherProcs
      <4>2. ReflectedUpTo(view', log, proc[q].last)
        BY <2>8, <2>11 DEF CursorInv
      <4>3. /\ proc[q].pc \notin {"clear", "rewind"} /\ AtRow(proc[q].last)
            /\ proc[q].pc = "fold" => NextInLog(q)
        BY DEF CursorInv
      <4>4. AtRow(proc[q].last)' /\ (proc'[q].pc = "fold" => NextInLog(q)')
        BY <2>1, <4>1, <4>3 DEF AtRow, NextInLog
      <4> QED BY <2>1, <4>1, <4>2, <4>3, <4>4
    <3> QED BY <3>1, <3>2
  <2> QED BY <2>12, <2>13 DEF CursorInv
<1>16. ASSUME NEW p \in Proc, CommitAppend(p) PROVE CursorInv'
  <2>1. /\ OtherProcs(p) /\ proc'[p].last = proc[p].last /\ proc'[p].pc = "open"
        /\ log' = log \cup proc[p].rows /\ view' = view /\ lastSeq' = lastSeq
    BY <1>0, <1>16 DEF CommitAppend, Process, OtherProcs
  <2>2. proc[p].rows \subseteq Row /\ log \subseteq Row
    BY <1>0 DEF Process, TypeOK
  <2>3. \A r \in log, s \in proc[p].rows : r.seq < s.seq
    <3>1. /\ proc[p].base \in Nat /\ \A r \in log : r.seq < proc[p].base
          /\ \A s \in proc[p].rows : proc[p].base <= s.seq
      BY <1>16 DEF CommitAppend, SeqInv, OneWriter
    <3> QED BY <2>2, <3>1 DEF Row
  <2>4. \A n : AtRow(n) => AtRow(n)' /\ \A s \in proc[p].rows : n < s.seq
    BY <2>1, <2>2, <2>3 DEF AtRow, Row
  <2>5. \A n \in Nat : AtRow(n) /\ ReflectedUpTo(view, log, n) => ReflectedUpTo(view, log', n)
    BY <2>1, <2>2, <2>4 DEF ReflectedUpTo, Row
  <2>6. \A q \in Proc \ {p} : proc[q].pc = "fold" /\ NextInLog(q) => NextInLog(q)'
    <3> SUFFICES ASSUME NEW q \in Proc \ {p}, proc[q].pc = "fold", NextInLog(q),
                        NEW s \in proc[q].batch, NEW r \in log',
                        proc[q].last < r.seq, r.seq <= s.seq
                 PROVE  r \in proc[q].batch
      BY <2>1 DEF NextInLog, OtherProcs
    <3>1. s \in log
      BY DEF SeqInv, BatchFromLog
    <3>2. r \in log
      BY <2>1, <2>2, <2>3, <3>1 DEF Row
    <3> QED BY <3>2 DEF NextInLog
  <2>7. lastSeq \in Nat /\ \A q \in Proc : proc[q].last \in Nat
    BY <1>0 DEF TypeOK, Process
  <2>8. AtRow(lastSeq)' /\ Reflected'
    <3>1. AtRow(lastSeq) /\ ReflectedUpTo(view, log, lastSeq)
      BY DEF CursorInv, Reflected
    <3>2. ReflectedUpTo(view, log', lastSeq)
      BY <2>5, <2>7, <3>1
    <3>3. AtRow(lastSeq)'
      BY <2>1, <3>1 DEF AtRow
    <3> QED BY <2>1, <3>2, <3>3 DEF Reflected
  <2>9. ASSUME NEW q \in Proc
        PROVE  /\ proc'[q].pc \notin {"clear", "rewind"}
               /\ AtRow(proc[q].last)'
               /\ ReflectedUpTo(view, log, proc[q].last)'
               /\ proc'[q].pc = "fold" => NextInLog(q)'
    <3>1. proc'[q].last = proc[q].last /\ (q = p \/ proc'[q] = proc[q])
      BY <2>1 DEF OtherProcs
    <3>2. /\ AtRow(proc[q].last) /\ ReflectedUpTo(view, log, proc[q].last)
          /\ proc[q].pc \notin {"clear", "rewind"}
      BY DEF CursorInv
    <3>3. AtRow(proc[q].last)'
      BY <2>1, <3>1, <3>2 DEF AtRow
    <3>4. ReflectedUpTo(view, log', proc[q].last)
      BY <2>5, <2>7, <3>2
    <3>5. proc'[q].pc \notin {"clear", "rewind"}
      BY <2>1, <3>1, <3>2
    <3>6. proc'[q].pc = "fold" => NextInLog(q)'
      BY <2>1, <2>6, <3>1 DEF CursorInv
    <3> QED BY <2>1, <3>1, <3>3, <3>4, <3>5, <3>6
  <2> QED BY <2>8, <2>9 DEF CursorInv
<1> QED
  BY <1>1, <1>2, <1>3, <1>4, <1>5, <1>6, <1>7, <1>8, <1>9, <1>10, <1>11, <1>12, <1>13, <1>14, <1>15, <1>16 DEF Next, Start, Run

LEMMA CursorInvAlways ==
  ASSUME Engine = "sqlite", "rebuild" \notin Commands
  PROVE  Spec => []CursorInv
<1>1. Init => FiniteRows /\ CursorInv
  <2> SUFFICES ASSUME Init PROVE FiniteRows /\ CursorInv
    OBVIOUS
  <2>1. FiniteRows
    BY FS_EmptySet DEF Init, FiniteRows, Idle
  <2>2. CursorInv
    BY DEF Init, CursorInv, AtRow, Reflected, ReflectedUpTo, NextInLog, Idle
  <2> QED BY <2>1, <2>2
<1>2. SeqInv /\ FiniteRows /\ CursorInv /\ [Next]_vars => (FiniteRows /\ CursorInv)'
  BY FiniteRowsStep, CursorInvStep
<1> QED BY <1>1, <1>2, SeqInvAlways, PTL DEF Spec

\* On SQLite, as long as nobody rebuilds: whatever scans append and fold at
\* the same time, and wherever they are killed, no committed file observation
\* that the cursor has passed is missing from current_files.
THEOREM ReflectedOnSQLite ==
  ASSUME Engine = "sqlite", "rebuild" \notin Commands
  PROVE  Spec => []Reflected
<1>1. CursorInv => Reflected
  BY DEF CursorInv
<1> QED BY <1>1, CursorInvAlways, PTL

-----------------------------------------------------------------------------
(* One process at a time: rebuild and verify included, on either engine.    *)
(* A rebuild killed between its two statements leaves an empty view under a *)
(* cursor that is not 0, and later folds put only newer rows into it: what  *)
(* remains true is that a file is either missing as a whole or up to date.  *)

ShownUpTo(n) ==
  \A r \in log : r.obs \in FileStates /\ r.seq <= n =>
    \/ view[LocatorOf[r.obs]] = NoRow
    \/ r.seq <= view[LocatorOf[r.obs]].seq

\* No rebuild is, or was left, between its two statements.
Unbroken == "rebuild" \notin killed /\ \A p \in Proc : proc[p].pc # "rewind"

SoloInv ==
  /\ AtRow(lastSeq)
  /\ ShownUpTo(lastSeq)
  /\ Unbroken => Reflected
  /\ \A p \in Proc :
       /\ proc[p].pc \in {"read", "fold"} => proc[p].last = lastSeq
       /\ proc[p].pc = "fold" => NextInLog(p)
       /\ proc[p].pc \in {"fingerprint", "replay"} => \A r \in log : r.seq <= lastSeq
       /\ proc[p].pc = "replay" => proc[p].before = Fingerprint(view)

\* Since comes back empty only at the end of the log: the first row after the
\* cursor has none before it, and a batch has room for one.
LEMMA SinceEmptyAtEnd ==
  ASSUME TypeOK, NEW n \in Nat, Since(n) = {}
  PROVE  \A r \in log : r.seq <= n
<1> SUFFICES ASSUME NEW r \in log, ~(r.seq <= n) PROVE FALSE
  OBVIOUS
<1> DEFINE newer == {t \in log : t.seq > n}
           Seqs == {t.seq : t \in newer}
<1>1. \A t \in log : t.seq \in Nat
  BY DEF TypeOK, Row
<1>2. Seqs \subseteq Nat /\ Seqs # {}
  BY <1>1
<1>3. PICK m \in Seqs : \A k \in Seqs : m <= k
  <2> HIDE DEF Seqs
  <2> QED BY <1>2, NatMin
<1>4. PICK s \in newer : s.seq = m
  OBVIOUS
<1>5. {t \in newer : t.seq < s.seq} = {}
  BY <1>1, <1>3, <1>4
<1>6. Cardinality({t \in newer : t.seq < s.seq}) < BatchLimit
  <2>1. Cardinality({}) = 0
    BY FS_EmptySet
  <2>2. 0 < BatchLimit
    BY ProjectionAssumption
  <2> HIDE DEF newer
  <2> QED BY <1>5, <2>1, <2>2
<1>7. s \in Since(n)
  BY <1>4, <1>6 DEF Since
<1> QED BY <1>7

\* A step that leaves the log, the view and the cursor alone, and after which
\* the process is at a point that promises nothing.
LEMMA SoloInvQuiet ==
  ASSUME Solo, SoloInv, NEW p \in Proc,
         log' = log, view' = view, lastSeq' = lastSeq,
         proc'[p].pc \in {"idle", "begin", "insert", "open", "clear"},
         "rebuild" \in killed => "rebuild" \in killed',
         proc[p].pc = "rewind" => "rebuild" \in killed'
  PROVE  SoloInv'
<1>1. \A q \in Proc : q = p
  BY DEF Solo
<1>2. (AtRow(lastSeq) /\ ShownUpTo(lastSeq))'
  BY DEF SoloInv, AtRow, ShownUpTo
<1>3. Unbroken' => Unbroken
  BY <1>1 DEF Unbroken
<1>4. Reflected <=> Reflected'
  BY DEF Reflected, ReflectedUpTo
<1> QED BY <1>1, <1>2, <1>3, <1>4 DEF SoloInv

LEMMA SoloInvFold ==
  ASSUME Solo, SeqInv, SoloInv, NEW p \in Proc, FoldBatch(p)
  PROVE  SoloInv'
<1>0. TypeOK /\ proc \in [Proc -> Process] /\ \A q \in Proc : q = p
  BY DEF SeqInv, TypeOK, Solo
<1> DEFINE B == proc[p].batch
           m == Newest(B).seq
<1>1. /\ proc'[p].last = m /\ proc'[p].pc = "read" /\ killed' = killed
      /\ log' = log /\ lastSeq' = m /\ view' = Fold(view, B)
  BY <1>0 DEF FoldBatch, Process
<1>2. B \subseteq log /\ Newest(B) \in B /\ \A r \in B : r.seq <= m
  BY FoldedBatchHasNewest DEF FoldBatch
<1>3. B \in SUBSET Row /\ m \in Nat /\ lastSeq \in Nat
  BY <1>0, <1>2 DEF TypeOK, Row
<1>4. NextInLog(p) /\ proc[p].last = lastSeq /\ proc[p].pc = "fold"
  BY DEF SoloInv, FoldBatch
<1>4a. /\ \A s \in B : lastSeq < s.seq
       /\ \A r \in log : lastSeq < r.seq /\ r.seq <= m => r \in B
  BY <1>2, <1>4 DEF NextInLog
<1> HIDE DEF m, B
<1>5. \A l \in Locator : /\ view'[l] \in About(l, B) \cup {view[l]}
                         /\ \A s \in About(l, B) \cup {view[l]} : s.seq <= view'[l].seq
  BY <1>0, <1>1, <1>2, <1>3, FoldIsNewest DEF TypeOK
<1>6. \A l \in Locator : view[l].seq \in Nat /\ view'[l].seq \in Nat
  <2>1. view \in View /\ view' \in View
    BY <1>0, FoldedBatchHasNewest DEF TypeOK, FoldBatch
  <2> QED BY <2>1 DEF View, Row, NoRow
<1>7. \A r \in log : r.seq \in Nat /\ LocatorOf[r.obs] \in Locator
  BY <1>0, ObsAssumption DEF TypeOK, Row
<1>8. ASSUME NEW r \in log, r.obs \in FileStates, lastSeq < r.seq, r.seq <= m
      PROVE  r.seq <= view'[LocatorOf[r.obs]].seq
  <2>1. r \in About(LocatorOf[r.obs], B)
    BY <1>4a, <1>8 DEF About
  <2> QED BY <2>1, <1>5, <1>7
<1>9. ShownUpTo(lastSeq)'
  <2> SUFFICES ASSUME NEW r \in log, r.obs \in FileStates, r.seq <= m,
                      view'[LocatorOf[r.obs]] # NoRow
               PROVE  r.seq <= view'[LocatorOf[r.obs]].seq
    BY <1>1 DEF ShownUpTo
  <2> DEFINE l == LocatorOf[r.obs]
  <2>0. l \in Locator /\ r.seq \in Nat
    BY <1>7
  <2>1. CASE lastSeq < r.seq
    BY <2>1, <1>8
  <2>2. CASE r.seq <= lastSeq /\ view[l] = NoRow
    <3>1. view'[l] \in B
      BY <1>5, <2>0, <2>2 DEF About
    <3>2. lastSeq < view'[l].seq /\ view'[l].seq \in Nat
      BY <1>4a, <1>6, <2>0, <3>1
    <3> QED BY <1>3, <2>0, <2>2, <3>2
  <2>3. CASE r.seq <= lastSeq /\ view[l] # NoRow
    <3>1. r.seq <= view[l].seq
      BY <2>3 DEF SoloInv, ShownUpTo
    <3>2. view[l].seq <= view'[l].seq
      BY <1>5, <2>0
    <3> QED BY <1>6, <2>0, <3>1, <3>2
  <2> QED BY <2>0, <2>1, <2>2, <2>3, <1>3
<1>10. Unbroken' => Reflected'
  <2> SUFFICES ASSUME Unbroken', NEW r \in log, r.obs \in FileStates, r.seq <= m
               PROVE  r.seq <= view'[LocatorOf[r.obs]].seq
    BY <1>1 DEF Reflected, ReflectedUpTo
  <2> DEFINE l == LocatorOf[r.obs]
  <2>0. l \in Locator /\ r.seq \in Nat
    BY <1>7
  <2>1. CASE lastSeq < r.seq
    BY <2>1, <1>8
  <2>2. CASE r.seq <= lastSeq
    <3>0. Unbroken
      BY <1>0, <1>1, <1>4 DEF Unbroken
    <3>1. r.seq <= view[l].seq
      BY <2>2, <3>0 DEF SoloInv, Reflected, ReflectedUpTo
    <3>2. view[l].seq <= view'[l].seq
      BY <1>5, <2>0
    <3> QED BY <1>6, <2>0, <3>1, <3>2
  <2> QED BY <2>0, <2>1, <2>2, <1>3
<1>11. AtRow(lastSeq)'
  BY <1>1, <1>2 DEF AtRow, m
<1> QED BY <1>0, <1>1, <1>9, <1>10, <1>11 DEF SoloInv

LEMMA SoloInvCommit ==
  ASSUME Solo, SeqInv, SoloInv, NEW p \in Proc, CommitAppend(p)
  PROVE  SoloInv'
<1>0. TypeOK /\ proc \in [Proc -> Process] /\ \A q \in Proc : q = p
  BY DEF SeqInv, TypeOK, Solo
<1>1. /\ proc[p].pc = "insert" /\ proc'[p].pc = "open" /\ killed' = killed
      /\ log' = log \cup proc[p].rows /\ view' = view /\ lastSeq' = lastSeq
  BY <1>0 DEF CommitAppend, Process
<1>2. proc[p].rows \subseteq Row /\ log \subseteq Row
  BY <1>0 DEF Process, TypeOK
<1>3. \A s \in proc[p].rows : lastSeq < s.seq
  <2>1. /\ proc[p].base \in Nat /\ \A r \in log : r.seq < proc[p].base
        /\ \A s \in proc[p].rows : proc[p].base <= s.seq
    BY <1>1 DEF SeqInv, OneWriter
  <2>2. lastSeq = 0 \/ \E r \in log : r.seq = lastSeq
    BY DEF SoloInv, AtRow
  <2> QED BY <1>2, <2>1, <2>2 DEF Row
<1>4. lastSeq \in Nat
  BY <1>0 DEF TypeOK
<1>5. \A r \in log' : r.seq <= lastSeq => r \in log
  BY <1>1, <1>2, <1>3, <1>4 DEF Row
<1>6. (AtRow(lastSeq) /\ ShownUpTo(lastSeq))'
  BY <1>1, <1>5 DEF SoloInv, AtRow, ShownUpTo
<1>7. Unbroken' => Reflected'
  BY <1>0, <1>1, <1>5 DEF SoloInv, Unbroken, Reflected, ReflectedUpTo
<1> QED BY <1>0, <1>1, <1>6, <1>7 DEF SoloInv

LEMMA SoloInvStep ==
  ASSUME Solo, SeqInv, FiniteRows, SoloInv, [Next]_vars
  PROVE  SoloInv'
<1>0. TypeOK /\ proc \in [Proc -> Process] /\ Idle.pc = "idle"
  BY DEF SeqInv, TypeOK, Idle
<1>00. \A p, q \in Proc : q = p
  BY DEF Solo
<1>1. CASE UNCHANGED vars
  BY <1>1 DEF vars, SoloInv, AtRow, ShownUpTo, Unbroken, Reflected, NextInLog
<1>2. ASSUME NEW p \in Proc, NEW batch \in SUBSET Obs, StartScan(p, batch) PROVE SoloInv'
  BY <1>0, <1>2, SoloInvQuiet DEF StartScan, Process
<1>3. ASSUME NEW p \in Proc, StartProject(p) PROVE SoloInv'
  BY <1>0, <1>3, SoloInvQuiet DEF StartProject, Process, Goto
<1>4. ASSUME NEW p \in Proc, StartVerify(p) PROVE SoloInv'
  BY <1>0, <1>4, SoloInvQuiet DEF StartVerify, Process
<1>5. ASSUME NEW p \in Proc, StartRebuild(p) PROVE SoloInv'
  BY <1>0, <1>5, SoloInvQuiet DEF StartRebuild, Process, Goto
<1>6. ASSUME NEW p \in Proc, BeginAppend(p) PROVE SoloInv'
  BY <1>0, <1>6, SoloInvQuiet DEF BeginAppend, Process
<1>7. ASSUME NEW p \in Proc, NEW o \in Obs, InsertNew(p, o) PROVE SoloInv'
  BY <1>0, <1>7, SoloInvQuiet DEF InsertNew, Process
<1>8. ASSUME NEW p \in Proc, NEW o \in Obs, InsertDuplicate(p, o) PROVE SoloInv'
  BY <1>0, <1>8, SoloInvQuiet DEF InsertDuplicate, Process
<1>9. ASSUME NEW p \in Proc, CommitAppend(p) PROVE SoloInv'
  BY <1>9, SoloInvCommit
<1>10. ASSUME NEW p \in Proc, Replay(p) PROVE SoloInv'
  BY <1>0, <1>10, SoloInvQuiet DEF Replay
<1>11. ASSUME NEW p \in Proc, Abandon(p) PROVE SoloInv'
  BY <1>0, <1>11, SoloInvQuiet DEF Abandon
<1>12. ASSUME NEW p \in Proc, FoldBatch(p) PROVE SoloInv'
  BY <1>12, SoloInvFold
<1>13. ASSUME NEW p \in Proc, OpenProjector(p) PROVE SoloInv'
  <2>1. proc'[p].pc = "read" /\ proc'[p].last = lastSeq /\ proc[p].pc = "open"
    BY <1>0, <1>13 DEF OpenProjector, Process
  <2>2. UNCHANGED <<log, view, lastSeq, killed>>
    BY <1>13 DEF OpenProjector
  <2> QED
    BY <1>00, <2>1, <2>2 DEF SoloInv, AtRow, ShownUpTo, Unbroken, Reflected
<1>14. ASSUME NEW p \in Proc, ReadBatch(p) PROVE SoloInv'
  <2> DEFINE B == Since(lastSeq)
  <2>1. /\ proc[p].pc = "read" /\ proc'[p].pc = "fold"
        /\ proc'[p].last = lastSeq /\ proc'[p].batch = B
    BY <1>0, <1>14 DEF ReadBatch, Process, SoloInv
  <2>2. UNCHANGED <<log, view, lastSeq, killed>>
    BY <1>14 DEF ReadBatch
  <2>3. \A s \in B : lastSeq < s.seq
    BY <1>0 DEF Since, TypeOK, Row
  <2>4. \A s \in B : \A r \in log : lastSeq < r.seq /\ r.seq <= s.seq => r \in B
    BY <1>0, SinceIsNext DEF FiniteRows, TypeOK
  <2> HIDE DEF B
  <2>5. NextInLog(p)'
    BY <2>1, <2>2, <2>3, <2>4 DEF NextInLog
  <2> QED
    BY <1>00, <2>1, <2>2, <2>5 DEF SoloInv, AtRow, ShownUpTo, Unbroken, Reflected
<1>15. ASSUME NEW p \in Proc, CaughtUp(p) PROVE SoloInv'
  <2>1. CASE ~proc[p].verify
    BY <1>0, <1>15, <2>1, SoloInvQuiet DEF CaughtUp
  <2>2. CASE proc[p].verify
    <3>1. proc[p].pc = "read" /\ proc'[p].pc = "fingerprint"
      BY <1>0, <1>15, <2>2 DEF CaughtUp, Process
    <3>2. UNCHANGED <<log, view, lastSeq, killed>>
      BY <1>15 DEF CaughtUp
    <3>3. \A r \in log : r.seq <= lastSeq
      BY <1>0, <1>15, <3>1, SinceEmptyAtEnd DEF CaughtUp, SoloInv, TypeOK
    <3> QED
      BY <1>00, <3>1, <3>2, <3>3 DEF SoloInv, AtRow, ShownUpTo, Unbroken, Reflected
  <2> QED BY <2>1, <2>2
<1>16. ASSUME NEW p \in Proc, ClearRows(p) PROVE SoloInv'
  <2>1. proc'[p].pc = "rewind" /\ view' = EmptyView
    BY <1>0, <1>16 DEF ClearRows, Goto, Process
  <2>2. UNCHANGED <<log, lastSeq, killed>>
    BY <1>16 DEF ClearRows
  <2>3. (AtRow(lastSeq) /\ ShownUpTo(lastSeq))'
    BY <1>0, <2>1, <2>2, ObsAssumption
       DEF SoloInv, AtRow, ShownUpTo, EmptyView, TypeOK, Row
  <2>4. ~Unbroken'
    BY <2>1 DEF Unbroken
  <2> QED BY <1>00, <2>1, <2>2, <2>3, <2>4 DEF SoloInv
<1>17. ASSUME NEW p \in Proc, RewindCursor(p) PROVE SoloInv'
  <2>1. proc'[p].pc = "open" /\ lastSeq' = 0 /\ log' = log
    BY <1>0, <1>17 DEF RewindCursor, Goto, Process
  <2>2. \A r \in log : ~(r.seq <= 0)
    BY <1>0 DEF TypeOK, Row
  <2>3. (AtRow(lastSeq) /\ ShownUpTo(lastSeq) /\ Reflected)'
    BY <2>1, <2>2 DEF AtRow, ShownUpTo, Reflected, ReflectedUpTo
  <2> QED BY <1>00, <2>1, <2>3 DEF SoloInv
<1>18. ASSUME NEW p \in Proc, TakeFingerprint(p) PROVE SoloInv'
  <2>1. /\ proc[p].pc = "fingerprint" /\ proc'[p].pc = "replay"
        /\ proc'[p].before = Fingerprint(view)
    BY <1>0, <1>18 DEF TakeFingerprint, Process
  <2>2. UNCHANGED <<log, view, lastSeq, killed>>
    BY <1>18 DEF TakeFingerprint
  <2>3. (Unbroken => Reflected)'
    BY <1>00, <2>1, <2>2 DEF SoloInv, Unbroken, Reflected
  <2>4. Fingerprint(view)' = Fingerprint(view)
    BY <2>2
  <2> QED
    BY <1>00, <2>1, <2>2, <2>3, <2>4 DEF SoloInv, AtRow, ShownUpTo
<1> QED
  BY <1>1, <1>2, <1>3, <1>4, <1>5, <1>6, <1>7, <1>8, <1>9, <1>10, <1>11, <1>12, <1>13, <1>14, <1>15, <1>16, <1>17, <1>18 DEF Next, Start, Run

LEMMA SoloInvAlways ==
  ASSUME Solo
  PROVE  Spec => [](SeqInv /\ FiniteRows /\ SoloInv)
<1>1. Init => FiniteRows /\ SoloInv
  <2> SUFFICES ASSUME Init PROVE FiniteRows /\ SoloInv
    OBVIOUS
  <2>1. FiniteRows
    BY FS_EmptySet DEF Init, FiniteRows, Idle
  <2>2. SoloInv
    BY DEF Init, SoloInv, AtRow, ShownUpTo, Reflected, ReflectedUpTo, NextInLog, Idle
  <2> QED BY <2>1, <2>2
<1>2. SeqInv /\ FiniteRows /\ SoloInv /\ [Next]_vars => (FiniteRows /\ SoloInv)'
  BY FiniteRowsStep, SoloInvStep
<1> QED BY <1>1, <1>2, SeqInvAlways, PTL DEF Spec

\* Whenever no command is at work, and no rebuild was killed halfway since the
\* last that finished, current_files has every committed file observation up
\* to its cursor: with one process at a time on either engine, whatever it
\* runs and wherever it is killed, and with any number of them on SQLite if
\* none rebuilds.
THEOREM QuietReflectedAlways ==
  ASSUME Solo \/ (Engine = "sqlite" /\ "rebuild" \notin Commands)
  PROVE  Spec => []QuietReflected
<1>1. CASE Solo
  <2>1. SoloInv => QuietReflected
    BY DEF SoloInv, QuietReflected, Unbroken, Idle
  <2> QED BY <1>1, <2>1, SoloInvAlways, PTL
<1>2. CASE Engine = "sqlite" /\ "rebuild" \notin Commands
  <2>1. Reflected => QuietReflected
    BY DEF QuietReflected
  <2> QED BY <1>2, <2>1, ReflectedOnSQLite, PTL
<1> QED BY <1>1, <1>2

\* In a replay of the log every file has the row of its newest observation.
LEMMA ReplayShowsAll ==
  ASSUME SeqInv, NEW r \in log, r.obs \in FileStates
  PROVE  Replayed(log)[LocatorOf[r.obs]].obs \in FileStates
<1> DEFINE l == LocatorOf[r.obs]
<1>1. /\ log \in SUBSET Row /\ nextSeq \in Nat /\ \A s \in log : s.seq <= nextSeq
      /\ r.seq \in Nat \ {0} /\ l \in Locator
  BY ObsAssumption DEF SeqInv, TypeOK, LogBelow, Row
<1>2. EmptyView \in View /\ EmptyView[l] = NoRow
  BY <1>1 DEF EmptyView, View
<1>3. /\ Replayed(log)[l] \in About(l, log) \cup {NoRow}
      /\ \A s \in About(l, log) \cup {NoRow} : s.seq <= Replayed(log)[l].seq
  BY <1>1, <1>2, FoldIsNewest DEF Replayed
<1>4. r \in About(l, log)
  BY DEF About
<1>5. Replayed(log)[l] # NoRow
  BY <1>1, <1>3, <1>4 DEF NoRow
<1> QED BY <1>3, <1>5 DEF About

\* Run with nobody else at work, verify does not pass a view that misses a
\* row, although its fingerprint leaves latest_seq out: a file that a killed
\* rebuild dropped differs from the replay, and a file that is there is up to
\* date.
THEOREM CleanMeansCompleteAlone ==
  ASSUME Solo
  PROVE  Spec => CleanMeansComplete
<1> DEFINE Complete == \A r \in log : r.obs \in FileStates
                         => r.seq <= view[LocatorOf[r.obs]].seq
<1>1. SeqInv /\ SoloInv /\ [Next]_vars
        => [verdict # "clean" /\ verdict' = "clean" => Complete]_vars
  <2> SUFFICES ASSUME SeqInv, SoloInv, Next, verdict # "clean", verdict' = "clean",
                      NEW r \in log, r.obs \in FileStates
               PROVE  r.seq <= view[LocatorOf[r.obs]].seq
    OBVIOUS
  <2>1. PICK p \in Proc : Replay(p)
    BY DEF Next, Start, Run, StartScan, StartProject, StartRebuild, StartVerify, BeginAppend,
           InsertNew, InsertDuplicate, CommitAppend, OpenProjector, ReadBatch, FoldBatch,
           CaughtUp, ClearRows, RewindCursor, TakeFingerprint, Abandon
  <2> DEFINE l == LocatorOf[r.obs]
  <2>2. Fingerprint(Replayed(log)) = Fingerprint(view) /\ r.seq <= lastSeq
    BY <2>1 DEF Replay, SoloInv
  <2>3. l \in Locator
    BY ObsAssumption DEF SeqInv, TypeOK, Row
  <2>4. StateOf[Replayed(log)[l].obs] = StateOf[view[l].obs]
    BY <2>2, <2>3 DEF Fingerprint
  <2>5. view[l] # NoRow
    BY <2>4, ReplayShowsAll, ObsAssumption DEF NoRow
  <2> QED BY <2>2, <2>5 DEF SoloInv, ShownUpTo
<1> QED BY <1>1, SoloInvAlways, PTL DEF Spec, CleanMeansComplete

-----------------------------------------------------------------------------
(* Folding a prefix of the log and then what comes next is folding both.   *)

Prefix(n) == {r \in log : r.seq <= n}

LEMMA EmptyIsView == EmptyView \in View /\ \A l \in Locator : EmptyView[l] = NoRow
  BY DEF EmptyView, View

\* In a log without repetitions a file has one newest row.
LEMMA FoldTwice ==
  ASSUME SeqInv, UniqueInv, NEW P \in SUBSET log, NEW B \in SUBSET log
  PROVE  Fold(Fold(EmptyView, P), B) = Fold(EmptyView, P \cup B)
<1> DEFINE F == Fold(EmptyView, P)
           G == Fold(F, B)
           H == Fold(EmptyView, P \cup B)
<1>1. /\ P \in SUBSET Row /\ B \in SUBSET Row /\ P \cup B \in SUBSET Row
      /\ nextSeq \in Nat
      /\ \A r \in P : r.seq <= nextSeq
      /\ \A r \in B : r.seq <= nextSeq
      /\ \A r \in P \cup B : r.seq <= nextSeq
  BY DEF SeqInv, TypeOK, LogBelow, Row
<1>2. F \in View
  BY <1>1, EmptyIsView, FoldType
<1>3. ASSUME NEW l \in Locator PROVE G[l] = H[l]
  <2> DEFINE all == About(l, P \cup B) \cup {NoRow}
  <2>1. F[l] \in About(l, P) \cup {NoRow} /\ \A s \in About(l, P) \cup {NoRow} : s.seq <= F[l].seq
    BY <1>1, EmptyIsView, FoldIsNewest
  <2>2. G[l] \in About(l, B) \cup {F[l]} /\ \A s \in About(l, B) \cup {F[l]} : s.seq <= G[l].seq
    <3> HIDE DEF F
    <3> QED BY <1>1, <1>2, FoldIsNewest
  <2>3. H[l] \in all /\ \A s \in all : s.seq <= H[l].seq
    BY <1>1, EmptyIsView, FoldIsNewest
  <2>4. all = About(l, P) \cup About(l, B) \cup {NoRow}
    BY DEF About
  <2>5. all \subseteq Row \cup {NoRow} /\ \A r \in all : r.seq \in Nat
    BY <1>1 DEF About, Row, NoRow
  <2>6. \A r, s \in all : r.seq = s.seq => r = s
    <3> SUFFICES ASSUME NEW r \in all, NEW s \in all, r.seq = s.seq PROVE r = s
      OBVIOUS
    <3>1. CASE r \in Row /\ s \in Row
      <4>1. r \in log /\ s \in log
        BY <3>1, ObsAssumption DEF About, Row, NoRow
      <4>2. r.obs = s.obs
        BY <4>1 DEF UniqueInv, AllRows
      <4> QED BY <3>1, <4>2 DEF Row
    <3>2. CASE r = NoRow \/ s = NoRow
      <4>1. NoRow.seq = 0 /\ \A x \in Row : x.seq # 0
        BY DEF Row, NoRow
      <4> HIDE DEF all
      <4> QED BY <2>5, <3>2, <4>1
    <3> HIDE DEF all
    <3> QED BY <2>5, <3>1, <3>2
  <2> HIDE DEF F, G, H, all
  <2>7. G[l] \in all
    BY <2>1, <2>2, <2>4
  <2>8. \A s \in all : s.seq <= G[l].seq
    BY <2>1, <2>2, <2>4, <2>5, <2>7
  <2>9. G[l].seq = H[l].seq
    BY <2>3, <2>5, <2>7, <2>8
  <2> QED BY <2>3, <2>6, <2>7, <2>9
<1>4. G = [l \in Locator |-> G[l]] /\ H = [l \in Locator |-> H[l]]
  BY DEF Fold
<1> HIDE DEF G, H, F
<1>5. G = H
  BY <1>3, <1>4
<1> QED BY <1>5 DEF G, H, F

-----------------------------------------------------------------------------
(* The view is the fold of a prefix of the log, and no cursor, the stored  *)
(* one or that of a process at work, is past its end.                      *)

FoldedTo(k) ==
  /\ AtRow(k)
  /\ view = Fold(EmptyView, Prefix(k))
  /\ lastSeq <= k
  /\ \A p \in Proc : proc[p].last <= k

PrefixInv == \E k \in Nat : FoldedTo(k)

ImplInv == SeqInv /\ UniqueInv /\ CursorInv

\* A step of a process that changes neither the log nor the view, and moves its
\* cursor at most to the stored one.
Quiet(p) ==
  /\ OtherProcs(p)
  /\ log' = log /\ view' = view /\ lastSeq' = lastSeq
  /\ proc'[p].last \in {proc[p].last, lastSeq, 0}

LEMMA QuietButFoldAndCommit ==
  ASSUME ImplInv, "rebuild" \notin Commands, NEW p \in Proc, Start(p) \/ Run(p) \/ Abandon(p),
         ~ FoldBatch(p), ~ CommitAppend(p)
  PROVE  Quiet(p)
<1>0. proc \in [Proc -> Process] /\ Idle.last = 0
  BY DEF ImplInv, SeqInv, TypeOK, Idle
<1>1. ASSUME NEW batch \in SUBSET Obs, StartScan(p, batch) PROVE Quiet(p)
  BY <1>0, <1>1 DEF StartScan, Process, OtherProcs, Quiet
<1>2. CASE StartProject(p)
  BY <1>0, <1>2 DEF StartProject, Process, OtherProcs, Quiet, Goto
<1>3. CASE StartVerify(p)
  BY <1>0, <1>3 DEF StartVerify, Process, OtherProcs, Quiet
<1>4. CASE BeginAppend(p)
  BY <1>0, <1>4 DEF BeginAppend, Process, OtherProcs, Quiet
<1>5. ASSUME NEW o \in Obs, InsertNew(p, o) PROVE Quiet(p)
  BY <1>0, <1>5 DEF InsertNew, Process, OtherProcs, Quiet
<1>6. ASSUME NEW o \in Obs, InsertDuplicate(p, o) PROVE Quiet(p)
  BY <1>0, <1>6 DEF InsertDuplicate, Process, OtherProcs, Quiet
<1>7. CASE OpenProjector(p)
  BY <1>0, <1>7 DEF OpenProjector, Process, OtherProcs, Quiet
<1>8. CASE ReadBatch(p)
  BY <1>0, <1>8 DEF ReadBatch, Process, OtherProcs, Quiet
<1>9. CASE CaughtUp(p)
  BY <1>0, <1>9 DEF CaughtUp, Process, OtherProcs, Quiet
<1>10. CASE TakeFingerprint(p)
  BY <1>0, <1>10 DEF TakeFingerprint, Process, OtherProcs, Quiet
<1>11. CASE Replay(p)
  BY <1>0, <1>11 DEF Replay, Process, OtherProcs, Quiet
<1>12. CASE Abandon(p)
  BY <1>0, <1>12 DEF Abandon, Process, OtherProcs, Quiet
<1>13. CASE StartRebuild(p) \/ ClearRows(p) \/ RewindCursor(p)
  BY <1>13 DEF StartRebuild, ClearRows, RewindCursor, ImplInv, CursorInv
<1> QED BY <1>1, <1>2, <1>3, <1>4, <1>5, <1>6, <1>7, <1>8, <1>9, <1>10, <1>11, <1>12, <1>13
        DEF Start, Run

LEMMA QuietKeepsPrefix ==
  ASSUME ImplInv, PrefixInv, NEW p \in Proc, Quiet(p)
  PROVE  PrefixInv'
<1>1. PICK k \in Nat : FoldedTo(k)
  BY DEF PrefixInv
<1>2. (AtRow(k) /\ view = Fold(EmptyView, Prefix(k)))'
  BY <1>1 DEF FoldedTo, Quiet, AtRow, Prefix
<1>3. \A q \in Proc : proc'[q].last <= k
  BY <1>1 DEF FoldedTo, Quiet, OtherProcs
<1> QED BY <1>1, <1>2, <1>3 DEF PrefixInv, FoldedTo, Quiet

\* An append commits above the whole log, and so above what has been folded.
LEMMA CommitIsAbove ==
  ASSUME Engine = "sqlite", ImplInv, NEW p \in Proc, CommitAppend(p)
  PROVE  /\ OtherProcs(p) /\ proc'[p].last = proc[p].last
         /\ log' = log \cup proc[p].rows /\ view' = view /\ lastSeq' = lastSeq
         /\ log \subseteq Row /\ proc[p].rows \subseteq Row
         /\ \A r \in log, s \in proc[p].rows : r.seq < s.seq
<1>1. proc \in [Proc -> Process]
  BY DEF ImplInv, SeqInv, TypeOK
<1>2. /\ OtherProcs(p) /\ proc'[p].last = proc[p].last
      /\ log' = log \cup proc[p].rows /\ view' = view /\ lastSeq' = lastSeq
  BY <1>1 DEF CommitAppend, Process, OtherProcs
<1>3. log \subseteq Row /\ proc[p].rows \subseteq Row
  BY <1>1 DEF Process, ImplInv, SeqInv, TypeOK
<1>4. /\ proc[p].base \in Nat /\ \A r \in log : r.seq < proc[p].base
      /\ \A s \in proc[p].rows : proc[p].base <= s.seq
  BY DEF CommitAppend, ImplInv, SeqInv, OneWriter
<1> QED BY <1>2, <1>3, <1>4 DEF Row

LEMMA CommitKeepsPrefix ==
  ASSUME Engine = "sqlite", ImplInv, PrefixInv, NEW p \in Proc, CommitAppend(p)
  PROVE  PrefixInv'
<1>1. PICK k \in Nat : FoldedTo(k)
  BY DEF PrefixInv
<1>2. \A s \in proc[p].rows : k < s.seq
  BY <1>1, CommitIsAbove DEF FoldedTo, AtRow, Row
<1>3. Prefix(k)' = Prefix(k)
  BY <1>2, CommitIsAbove DEF Prefix, Row
<1>4. AtRow(k)'
  BY <1>1, CommitIsAbove DEF FoldedTo, AtRow
<1>5. view' = Fold(EmptyView, Prefix(k)')
  BY <1>1, <1>3, CommitIsAbove DEF FoldedTo
<1>6. \A q \in Proc : proc'[q].last <= k
  BY <1>1, CommitIsAbove DEF FoldedTo, OtherProcs
<1> QED BY <1>1, <1>4, <1>5, <1>6, CommitIsAbove DEF PrefixInv, FoldedTo

\* A fold takes the view to the end of its batch, or leaves it where another
\* process has taken it already.
LEMMA FoldExtends ==
  ASSUME ImplInv, NEW k \in Nat, FoldedTo(k), NEW p \in Proc, FoldBatch(p)
  PROVE  \E m \in Nat : /\ k <= m /\ \E r \in log : r.seq = m
                        /\ FoldedTo(m)'
                        /\ view' = Fold(EmptyView, Prefix(m))
<1> DEFINE B == proc[p].batch
           n == Newest(B).seq
<1>0. TypeOK /\ proc \in [Proc -> Process]
  BY DEF ImplInv, SeqInv, TypeOK
<1>1. /\ OtherProcs(p) /\ proc'[p].last = n
      /\ log' = log /\ lastSeq' = n /\ view' = Fold(view, B)
  BY <1>0 DEF FoldBatch, Process, OtherProcs
<1>2. B \subseteq log /\ Newest(B) \in B /\ \A r \in B : r.seq <= n
  BY FoldedBatchHasNewest DEF FoldBatch, ImplInv
<1>3. n \in Nat /\ n > 0 /\ \A r \in log : r.seq \in Nat
  BY <1>0, <1>2 DEF TypeOK, Row
<1>4. NextInLog(p) /\ proc[p].last <= k /\ proc[p].last \in Nat
  BY <1>0 DEF ImplInv, CursorInv, FoldBatch, FoldedTo, Process
<1>m. PICK m \in Nat : m = IF k < n THEN n ELSE k
  BY <1>3
<1>5. Prefix(k) \cup B = Prefix(m)
  <2> HIDE DEF B, n
  <2>1. \A r \in B : r \in Prefix(m)
    BY <1>2, <1>3, <1>m DEF Prefix
  <2>2. \A r \in log : k < r.seq /\ r.seq <= n => r \in B
    <3> SUFFICES ASSUME NEW r \in log, k < r.seq, r.seq <= n PROVE r \in B
      OBVIOUS
    <3>1. proc[p].last < r.seq
      BY <1>3, <1>4
    <3> QED BY <1>2, <1>4, <3>1 DEF NextInLog, B, n
  <2>3. \A r \in Prefix(m) : r \in Prefix(k) \cup B
    BY <1>3, <1>m, <2>2 DEF Prefix
  <2>4. \A r \in Prefix(k) : r \in Prefix(m)
    BY <1>3, <1>m DEF Prefix
  <2> QED BY <2>1, <2>3, <2>4
<1>6. view' = Fold(EmptyView, Prefix(m))
  <2>1. Prefix(k) \subseteq log
    BY DEF Prefix
  <2> HIDE DEF B, n
  <2>2. Fold(Fold(EmptyView, Prefix(k)), B) = Fold(EmptyView, Prefix(k) \cup B)
    BY <1>2, <2>1, FoldTwice DEF ImplInv
  <2> QED BY <1>1, <1>5, <2>2 DEF FoldedTo
<1>7. \E r \in log : r.seq = m
  <2>1. \E r \in log : r.seq = n
    BY <1>2
  <2>2. k = 0 \/ \E r \in log : r.seq = k
    BY DEF FoldedTo, AtRow
  <2> HIDE DEF B, n
  <2> QED BY <1>3, <1>m, <2>1, <2>2
<1> HIDE DEF B, n
<1>8. m \in Nat /\ k <= m /\ n <= m
  BY <1>3, <1>m
<1>9. FoldedTo(m)'
  <2>1. AtRow(m)'
    BY <1>1, <1>7 DEF AtRow
  <2>2. view' = Fold(EmptyView, Prefix(m)')
    BY <1>1, <1>6 DEF Prefix
  <2>3. ASSUME NEW q \in Proc PROVE proc'[q].last <= m
    <3>1. proc[q].last \in Nat /\ proc[q].last <= k
      BY <1>0 DEF FoldedTo, Process
    <3> QED BY <1>1, <1>8, <3>1 DEF OtherProcs
  <2> QED BY <1>1, <1>8, <2>1, <2>2, <2>3 DEF FoldedTo
<1> QED BY <1>6, <1>7, <1>8, <1>9

LEMMA PrefixInvStep ==
  ASSUME Engine = "sqlite", "rebuild" \notin Commands, ImplInv, PrefixInv, [Next]_vars
  PROVE  PrefixInv'
<1>1. CASE UNCHANGED vars
  BY <1>1 DEF vars, PrefixInv, FoldedTo, AtRow, Prefix
<1>2. ASSUME NEW p \in Proc, FoldBatch(p) PROVE PrefixInv'
  <2>1. PICK k \in Nat : FoldedTo(k)
    BY DEF PrefixInv
  <2>2. \E m \in Nat : FoldedTo(m)'
    BY <1>2, <2>1, FoldExtends
  <2> QED BY <2>2 DEF PrefixInv
<1>3. ASSUME NEW p \in Proc, Start(p) \/ Run(p) \/ Abandon(p), ~ FoldBatch(p) PROVE PrefixInv'
  BY <1>3, QuietButFoldAndCommit, QuietKeepsPrefix, CommitKeepsPrefix
<1> QED BY <1>1, <1>2, <1>3 DEF Next

-----------------------------------------------------------------------------
(* Every step is one of LogView's, or changes nothing it speaks of.        *)

LEMMA SameOperators ==
  /\ LV!EmptyView = EmptyView
  /\ \A v, batch : LV!Fold(v, batch) = Fold(v, batch)
  BY DEF LV!EmptyView, EmptyView, LV!Fold, Fold, LV!NoRow, NoRow, LV!Newest, Newest,
     LV!About, About

LEMMA CommitImplements ==
  ASSUME Engine = "sqlite", ImplInv, NEW p \in Proc, CommitAppend(p)
  PROVE  LV!Next
<1> DEFINE rows == log' \ log
<1>1. rows \subseteq proc[p].rows /\ log' = log \cup rows /\ view' = view
  BY CommitIsAbove
<1>2. \A r, s \in log \cup proc[p].rows : (r.seq = s.seq) <=> (r.obs = s.obs)
  BY DEF ImplInv, UniqueInv, AllRows
<1>3. \A r \in rows, s \in log : s.seq < r.seq /\ s.obs # r.obs
  <2> SUFFICES ASSUME NEW r \in rows, NEW s \in log PROVE s.seq < r.seq /\ s.obs # r.obs
    OBVIOUS
  <2>1. r \in proc[p].rows /\ r \in Row /\ s \in Row
    BY <1>1, CommitIsAbove
  <2>2. s.seq < r.seq
    BY <2>1, CommitIsAbove
  <2>3. s.seq # r.seq
    BY <2>1, <2>2 DEF Row
  <2> QED BY <1>2, <2>1, <2>2, <2>3
<1>4. \A r, s \in rows : (r.seq = s.seq) <=> (r.obs = s.obs)
  BY <1>1, <1>2
<1> HIDE DEF rows
<1>5. LV!Commit(rows)
  BY <1>1, <1>3, <1>4 DEF LV!Commit
<1> QED BY <1>5 DEF LV!Next, rows

LEMMA FoldImplements ==
  ASSUME ImplInv, PrefixInv, NEW p \in Proc, FoldBatch(p)
  PROVE  LV!Next
<1>1. PICK k \in Nat : FoldedTo(k)
  BY DEF PrefixInv
<1>2. PICK r \in log : view' = Fold(EmptyView, Prefix(r.seq))
  BY <1>1, FoldExtends
<1>3. ASSUME NEW l \in Locator PROVE view[l].seq <= view'[l].seq
  <2> DEFINE B == proc[p].batch
  <2>1. B \subseteq log /\ view' = Fold(view, B)
    BY FoldedBatchHasNewest DEF FoldBatch, ImplInv
  <2>2. /\ view \in View /\ nextSeq \in Nat
        /\ B \in SUBSET Row /\ \A s \in B : s.seq <= nextSeq
    BY <2>1 DEF ImplInv, SeqInv, TypeOK, LogBelow, Row
  <2> HIDE DEF B
  <2>3. \A s \in About(l, B) \cup {view[l]} : s.seq <= Fold(view, B)[l].seq
    BY <2>2, FoldIsNewest
  <2> QED BY <2>1, <2>3
<1>4. log' = log
  BY DEF FoldBatch
<1>5. LV!Publish(r.seq)
  BY <1>2, <1>3, <1>4, SameOperators DEF LV!Publish, LV!Prefix, Prefix
<1> QED BY <1>5 DEF LV!Next

\* What the store promises its readers (LogView): batches become visible at once
\* and in order, and current_files is at every moment the fold of a prefix of the
\* log that only grows.  ApplyCurrentFiles and Append keep it on SQLite, with any
\* number of processes killed anywhere, as long as nobody rebuilds.
THEOREM ImplementsLogViewOnSQLite ==
  ASSUME Engine = "sqlite", "rebuild" \notin Commands
  PROVE  Spec => ImplementsLogView
<1>1. Init => PrefixInv /\ LV!Init
  <2> SUFFICES ASSUME Init PROVE PrefixInv /\ LV!Init
    OBVIOUS
  <2>1. LV!Init
    BY SameOperators DEF Init, LV!Init
  <2>2. view = Fold(EmptyView, Prefix(0))
    <3>1. Prefix(0) = {}
      BY DEF Init, Prefix
    <3>2. \A l \in Locator : Newest(About(l, {}) \cup {EmptyView[l]}) = NoRow
      BY DEF Newest, About, EmptyView
    <3>3. Fold(EmptyView, {}) = EmptyView
      BY <3>2 DEF Fold, EmptyView
    <3> QED BY <3>1, <3>3 DEF Init
  <2>3. FoldedTo(0)
    BY <2>2 DEF Init, FoldedTo, AtRow, Idle
  <2> QED BY <2>1, <2>3 DEF PrefixInv
<1>2. ImplInv /\ PrefixInv /\ [Next]_vars => PrefixInv'
  BY PrefixInvStep
<1>3. ImplInv /\ PrefixInv /\ [Next]_vars => [LV!Next]_(LV!logViewVars)
  <2> SUFFICES ASSUME ImplInv, PrefixInv, [Next]_vars
               PROVE  LV!Next \/ UNCHANGED LV!logViewVars
    OBVIOUS
  <2>1. CASE UNCHANGED vars
    BY <2>1 DEF vars, LV!logViewVars
  <2>2. ASSUME NEW p \in Proc, Quiet(p) PROVE UNCHANGED LV!logViewVars
    BY <2>2 DEF Quiet, LV!logViewVars
  <2>3. ASSUME NEW p \in Proc, Start(p) \/ Run(p) \/ Abandon(p)
        PROVE  LV!Next \/ UNCHANGED LV!logViewVars
    BY <2>2, <2>3, QuietButFoldAndCommit, CommitImplements, FoldImplements
  <2> QED BY <2>1, <2>3 DEF Next
<1>4. Spec => []ImplInv
  BY SeqInvAlways, UniqueInvAlways, CursorInvAlways, PTL DEF ImplInv
<1> QED BY <1>1, <1>2, <1>3, <1>4, PTL DEF Spec, ImplementsLogView, LV!Spec
=============================================================================
