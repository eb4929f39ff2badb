----------------------------- MODULE Projection -----------------------------
(***************************************************************************)
(* The observation log and the current_files projection of internal/store, *)
(* with the gyst processes that work on one database at the same time:     *)
(* `scan` and `import` append a batch and then fold, `project` folds,      *)
(* `project --rebuild` clears and folds, `verify` folds and then replays.  *)
(*                                                                         *)
(* Every statement outside a transaction is a step of its own.  Inside a   *)
(* transaction the row-by-row insert of Append is kept as steps, because a *)
(* row takes its seq when it is inserted and not when it is committed; the *)
(* fold's and the replay's transactions are one step, as no other process  *)
(* sees their insides.                                                     *)
(***************************************************************************)
EXTENDS Rows

CONSTANTS
  Proc,        \* process slots; a slot is reused by the next command
  Engine,      \* which database the store is on
  Commands,    \* the commands that are run
  BatchLimit,  \* projectionBatch
  MayAbandon,  \* whether a command may be killed or fail midway
  MaxSeq       \* bound: no batch is started once the sequence is past this

ASSUME ProjectionAssumption ==
  /\ Engine \in {"sqlite", "postgres"}
  /\ Commands \subseteq {"scan", "project", "rebuild", "verify"}
  /\ BatchLimit \in Nat \ {0}
  /\ MayAbandon \in BOOLEAN
  /\ MaxSeq \in Nat

VARIABLES
  log,      \* committed rows of observations
  nextSeq,  \* the next value of the seq sequence
  view,     \* current_files
  lastSeq,  \* projector_state.last_seq of current_files
  proc,     \* where each process stands
  verdict,  \* what the last verify printed
  killed    \* history: what killed commands may have left undone

vars == <<log, nextSeq, view, lastSeq, proc, verdict, killed>>

PC == {"idle", "begin", "insert", "open", "read", "fold",
       "clear", "rewind", "fingerprint", "replay"}

NoPrint == Fingerprint(EmptyView)

Process ==
  [pc     : PC,
   verify : BOOLEAN,      \* go on to VerifyProjection after the fold
   todo   : SUBSET Obs,   \* observations of the batch not inserted yet
   rows   : SUBSET Row,   \* rows inserted and not committed
   base   : Nat,          \* nextSeq when the transaction began
   last   : Nat,          \* local variable last of ApplyCurrentFiles
   batch  : SUBSET Row,   \* what Since returned
   before : [Locator -> State]]

Idle == [pc |-> "idle", verify |-> FALSE, todo |-> {}, rows |-> {}, base |-> 0,
         last |-> 0, batch |-> {}, before |-> NoPrint]

\* What the tables, the processes and the verdict hold.
TypeOK ==
  /\ log \subseteq Row
  /\ nextSeq \in Nat \ {0}
  /\ view \in View
  /\ lastSeq \in Nat
  /\ proc \in [Proc -> Process]
  /\ verdict \in {"none", "clean", "diverged"}
  /\ killed \subseteq {"fold", "rebuild"}

Init ==
  /\ log = {}
  /\ nextSeq = 1
  /\ view = EmptyView
  /\ lastSeq = 0
  /\ proc = [p \in Proc |-> Idle]
  /\ verdict = "none"
  /\ killed = {}

-----------------------------------------------------------------------------
(* Locking.  SQLite has one writer: a transaction holds the write lock from *)
(* its first write to its commit.  A writer that waits longer than          *)
(* busy_timeout fails: that is Abandon.  PostgreSQL blocks a writer only on *)
(* an uncommitted row with the same observation_id.                         *)

CanWrite(p) ==
  \/ Engine = "postgres"
  \/ \A q \in Proc \ {p} : proc[q].pc # "insert"

Ids(rows) == {r.obs : r \in rows}

InsertedElsewhere(p, o) == \E q \in Proc \ {p} : o \in Ids(proc[q].rows)

\* Mutant: the next batch starts one row late.
Since_SkipsOne(seq) ==
  LET newer == {r \in log : r.seq > seq + 1}
  IN  {r \in newer : Cardinality({s \in newer : s.seq < r.seq}) < BatchLimit}

Since(seq) ==
  LET newer == {r \in log : r.seq > seq}
  IN  {r \in newer : Cardinality({s \in newer : s.seq < r.seq}) < BatchLimit}

Goto(p, pc) == proc' = [proc EXCEPT ![p].pc = pc]

-----------------------------------------------------------------------------
(* Commands.                                                                *)

StartScan(p, batch) ==
  /\ "scan" \in Commands
  /\ proc[p].pc = "idle"
  /\ nextSeq <= MaxSeq
  /\ proc' = [proc EXCEPT ![p].pc = IF batch = {} THEN "open" ELSE "begin",
                          ![p].todo = batch]
  /\ UNCHANGED <<log, nextSeq, view, lastSeq, verdict, killed>>

StartProject(p) ==
  /\ "project" \in Commands
  /\ proc[p].pc = "idle"
  /\ Goto(p, "open")
  /\ UNCHANGED <<log, nextSeq, view, lastSeq, verdict, killed>>

StartRebuild(p) ==
  /\ "rebuild" \in Commands
  /\ proc[p].pc = "idle"
  /\ Goto(p, "clear")
  /\ UNCHANGED <<log, nextSeq, view, lastSeq, verdict, killed>>

StartVerify(p) ==
  /\ "verify" \in Commands
  /\ proc[p].pc = "idle"
  /\ proc' = [proc EXCEPT ![p].pc = "open", ![p].verify = TRUE]
  /\ verdict' = "none"
  /\ UNCHANGED <<log, nextSeq, view, lastSeq, killed>>

-----------------------------------------------------------------------------
(* Append: one transaction, ON CONFLICT (observation_id) DO NOTHING.        *)

BeginAppend(p) ==
  /\ proc[p].pc = "begin"
  /\ CanWrite(p)
  /\ proc' = [proc EXCEPT ![p].pc = "insert", ![p].base = nextSeq]
  /\ UNCHANGED <<log, nextSeq, view, lastSeq, verdict, killed>>

\* Mutant: no ON CONFLICT and no unique index.
InsertNew_NoConflict(p, o) ==
  /\ proc[p].pc = "insert"
  /\ o \in proc[p].todo
  /\ proc' = [proc EXCEPT ![p].todo = @ \ {o},
                          ![p].rows = @ \cup {[seq |-> nextSeq, obs |-> o]}]
  /\ nextSeq' = nextSeq + 1
  /\ UNCHANGED <<log, view, lastSeq, verdict, killed>>

\* Mutant: seqs count from zero, which readers take for "nothing yet".
InsertNew_FromZero(p, o) ==
  /\ proc[p].pc = "insert"
  /\ o \in proc[p].todo
  /\ o \notin Ids(log) \cup Ids(proc[p].rows)
  /\ ~InsertedElsewhere(p, o)
  /\ proc' = [proc EXCEPT ![p].todo = @ \ {o},
                          ![p].rows = @ \cup {[seq |-> nextSeq - 1, obs |-> o]}]
  /\ nextSeq' = nextSeq + 1
  /\ UNCHANGED <<log, view, lastSeq, verdict, killed>>

InsertNew(p, o) ==
  /\ proc[p].pc = "insert"
  /\ o \in proc[p].todo
  /\ o \notin Ids(log) \cup Ids(proc[p].rows)
  /\ ~InsertedElsewhere(p, o)
  /\ proc' = [proc EXCEPT ![p].todo = @ \ {o},
                          ![p].rows = @ \cup {[seq |-> nextSeq, obs |-> o]}]
  /\ nextSeq' = nextSeq + 1
  /\ UNCHANGED <<log, view, lastSeq, verdict, killed>>

\* The sequence advances before the conflict is found, on both engines.
InsertDuplicate(p, o) ==
  /\ proc[p].pc = "insert"
  /\ o \in proc[p].todo
  /\ o \in Ids(log) \cup Ids(proc[p].rows)
  /\ proc' = [proc EXCEPT ![p].todo = @ \ {o}]
  /\ nextSeq' = nextSeq + 1
  /\ UNCHANGED <<log, view, lastSeq, verdict, killed>>

CommitAppend(p) ==
  /\ proc[p].pc = "insert"
  /\ proc[p].todo = {}
  /\ log' = log \cup proc[p].rows
  /\ proc' = [proc EXCEPT ![p].pc = "open", ![p].rows = {}, ![p].base = 0]
  /\ UNCHANGED <<nextSeq, view, lastSeq, verdict, killed>>

-----------------------------------------------------------------------------
(* ApplyCurrentFiles.                                                       *)

OpenProjector(p) ==
  /\ proc[p].pc = "open"
  /\ proc' = [proc EXCEPT ![p].pc = "read", ![p].last = lastSeq]
  /\ UNCHANGED <<log, nextSeq, view, lastSeq, verdict, killed>>

ReadBatch(p) ==
  /\ proc[p].pc = "read"
  /\ Since(proc[p].last) # {}
  /\ proc' = [proc EXCEPT ![p].pc = "fold", ![p].batch = Since(proc[p].last)]
  /\ UNCHANGED <<log, nextSeq, view, lastSeq, verdict, killed>>

\* Mutant: the cursor is set to the head of the log, not the end of the batch.
FoldBatch_JumpsToHead(p) ==
  /\ proc[p].pc = "fold"
  /\ CanWrite(p)
  /\ view' = Fold(view, proc[p].batch)
  /\ lastSeq' = Newest(log).seq
  /\ proc' = [proc EXCEPT ![p].pc = "read", ![p].last = lastSeq', ![p].batch = {}]
  /\ UNCHANGED <<log, nextSeq, verdict, killed>>

\* Mutant: the upsert has no WHERE latest_seq < EXCLUDED.latest_seq.
FoldBatch_Overwrites(p) ==
  /\ proc[p].pc = "fold"
  /\ CanWrite(p)
  /\ view' = [l \in Locator |->
                LET new == About(l, proc[p].batch)
                IN  IF new = {} THEN view[l] ELSE Newest(new)]
  /\ lastSeq' = Newest(proc[p].batch).seq
  /\ proc' = [proc EXCEPT ![p].pc = "read", ![p].last = lastSeq', ![p].batch = {}]
  /\ UNCHANGED <<log, nextSeq, verdict, killed>>

\* One transaction: the upserts and the projector's cursor.
FoldBatch(p) ==
  /\ proc[p].pc = "fold"
  /\ CanWrite(p)
  /\ view' = Fold(view, proc[p].batch)
  /\ lastSeq' = Newest(proc[p].batch).seq
  /\ proc' = [proc EXCEPT ![p].pc = "read", ![p].last = lastSeq', ![p].batch = {}]
  /\ UNCHANGED <<log, nextSeq, verdict, killed>>

CaughtUp(p) ==
  /\ proc[p].pc = "read"
  /\ Since(proc[p].last) = {}
  /\ proc' = [proc EXCEPT ![p] =
                IF @.verify THEN [@ EXCEPT !.pc = "fingerprint", !.last = 0] ELSE Idle]
  /\ UNCHANGED <<log, nextSeq, view, lastSeq, verdict, killed>>

-----------------------------------------------------------------------------
(* ClearProjection: two statements, each committed by itself.               *)

ClearRows(p) ==
  /\ proc[p].pc = "clear"
  /\ CanWrite(p)
  /\ view' = EmptyView
  /\ Goto(p, "rewind")
  /\ UNCHANGED <<log, nextSeq, lastSeq, verdict, killed>>

\* Mutant: the projector is not rewound.
RewindCursor_Forgets(p) ==
  /\ proc[p].pc = "rewind"
  /\ CanWrite(p)
  /\ Goto(p, "open")
  /\ killed' = killed \ {"rebuild"}
  /\ UNCHANGED <<log, nextSeq, view, lastSeq, verdict>>

RewindCursor(p) ==
  /\ proc[p].pc = "rewind"
  /\ CanWrite(p)
  /\ lastSeq' = 0
  /\ Goto(p, "open")
  /\ killed' = killed \ {"rebuild"}
  /\ UNCHANGED <<log, nextSeq, view, verdict>>

-----------------------------------------------------------------------------
(* VerifyProjection.                                                        *)

TakeFingerprint(p) ==
  /\ proc[p].pc = "fingerprint"
  /\ proc' = [proc EXCEPT ![p].pc = "replay", ![p].before = Fingerprint(view)]
  /\ UNCHANGED <<log, nextSeq, view, lastSeq, verdict, killed>>

\* Mutant: the replay neither drops the rows nor starts at seq 0.
Replay_Incremental(p) ==
  /\ proc[p].pc = "replay"
  /\ CanWrite(p)
  /\ verdict' = IF Fingerprint(Fold(view, {r \in log : r.seq > lastSeq})) = proc[p].before
                THEN "clean" ELSE "diverged"
  /\ proc' = [proc EXCEPT ![p] = Idle]
  /\ UNCHANGED <<log, nextSeq, view, lastSeq, killed>>

\* A transaction that deletes, folds the whole log and is rolled back.
Replay(p) ==
  /\ proc[p].pc = "replay"
  /\ CanWrite(p)
  /\ verdict' = IF Fingerprint(Replayed(log)) = proc[p].before
                THEN "clean" ELSE "diverged"
  /\ proc' = [proc EXCEPT ![p] = Idle]
  /\ UNCHANGED <<log, nextSeq, view, lastSeq, killed>>

-----------------------------------------------------------------------------
\* A command is killed or returns an error: its open transaction rolls back.
\* SQLite rolls the sequence back with it, PostgreSQL leaves a gap.
Abandon(p) ==
  /\ MayAbandon
  /\ proc[p].pc # "idle"
  /\ proc' = [proc EXCEPT ![p] = Idle]
  /\ nextSeq' = IF Engine = "sqlite" /\ proc[p].pc = "insert"
                THEN proc[p].base ELSE nextSeq
  /\ killed' = killed \cup {IF proc[p].pc = "rewind" THEN "rebuild" ELSE "fold"}
  /\ UNCHANGED <<log, view, lastSeq, verdict>>

-----------------------------------------------------------------------------

Start(p) ==
  \/ \E batch \in SUBSET Obs : StartScan(p, batch)
  \/ StartProject(p)
  \/ StartRebuild(p)
  \/ StartVerify(p)

\* What a command does once it is started.
Run(p) ==
  \/ BeginAppend(p)
  \/ \E o \in Obs : InsertNew(p, o) \/ InsertDuplicate(p, o)
  \/ CommitAppend(p)
  \/ OpenProjector(p)
  \/ ReadBatch(p)
  \/ FoldBatch(p)
  \/ CaughtUp(p)
  \/ ClearRows(p)
  \/ RewindCursor(p)
  \/ TakeFingerprint(p)
  \/ Replay(p)

Next == \E p \in Proc : Start(p) \/ Run(p) \/ Abandon(p)

Spec == Init /\ [][Next]_vars

\* A command that was started and is not killed keeps running.
FairSpec == Spec /\ \A p \in Proc : WF_vars(Run(p))

-----------------------------------------------------------------------------
(* Properties.                                                              *)

\* The promise behind last_seq: every committed file observation up to it
\* is in current_files, or has been superseded there by a newer one.
\* ApplyCurrentFiles never looks below last_seq again, so a row this misses
\* stays missing until somebody rebuilds.
Reflected == ReflectedUpTo(view, log, lastSeq)

\* The same, when no command is at work: a rebuild may be caught between
\* its two statements, but leaves the database there only if it is killed,
\* and then until the next rebuild.
QuietReflected ==
  (\A p \in Proc : proc[p] = Idle) /\ "rebuild" \notin killed => Reflected

\* The log records an observation once, and one observation per seq, with
\* any number of processes appending the same ids at the same time.
UniqueRows ==
  \A r, s \in log : (r.seq = s.seq) <=> (r.obs = s.obs)

\* A clean verdict of verify means no row is missing from the live view,
\* although the fingerprint leaves latest_seq out: a rebuild killed halfway
\* does not pass.  (With nobody else at work between the two readings.)
CleanMeansComplete ==
  [][verdict # "clean" /\ verdict' = "clean"
       => \A r \in log : r.obs \in FileStates
                           => r.seq <= view[LocatorOf[r.obs]].seq]_vars

Projected(o) == \E r \in log : r.obs = o /\ r.seq <= view[LocatorOf[o]].seq

\* Every committed file observation reaches the view or is superseded there,
\* unless a command is killed: whoever keeps a process from folding it by
\* holding the write lock folds it in its place.
EveryRowProjected ==
  \A o \in FileStates : (o \in Ids(log)) ~> (Projected(o) \/ killed # {})

\* What a reader is promised: the log in commit order and a view that only
\* moves forward along it.
LV == INSTANCE LogView WITH log <- log, view <- view
ImplementsLogView == LV!Spec
=============================================================================
