-------------------------------- MODULE Scan --------------------------------
(***************************************************************************)
(* `gyst scan` of one local folder: the walk of localfolder.Discover over  *)
(* a disk that changes under it, deletion detection, the log, the cursor   *)
(* and the pass table, with scanners that crash and that run concurrently. *)
(*                                                                         *)
(* A pass is: read the cursor (--resume), begin the pass, load the known   *)
(* state, walk, append, store the cursor, finish the pass, project.  Each  *)
(* is a statement or transaction of its own; the walk touches the disk     *)
(* entry by entry.  The projection is what module Projection shows it to   *)
(* be, the fold of the log up to some seq, and is kept as that seq.        *)
(*                                                                         *)
(* Not modelled here: folder markers and manifests, which say nothing      *)
(* about a file's presence; placeholders; symlinks, which are counted and  *)
(* passed over; .git.                                                      *)
(***************************************************************************)
EXTENDS Naturals, Sequences, FiniteSets

CONSTANTS
  Locator,      \* files of the source
  Dir,          \* directories below the root
  Root,         \* the root directory
  Parent,       \* the directory an entry is listed in
  WalkPos,      \* position of an entry in WalkDir's order
  StrPos,       \* position of a locator in the order of Go strings
  Version,      \* native versions; two states of a file differ in theirs
  Gone,         \* "no such file"
  NoCursor,
  Scanner,      \* scan processes
  Engine,       \* which database the store is on
  Limits,       \* values of --max-files
  Resumes,      \* values of --resume
  RootStates,   \* what the root may look like: up, missing
  MayFail,      \* whether a scan may be killed, or a write of it fail
  MayRestore,   \* whether a deleted file may come back as it was
  MayHide,      \* whether directories become unreadable and files ignored
  MaxEdits,     \* bound on the changes of the disk
  MaxPasses     \* bound on the passes begun

ASSUME ScanAssumption ==
  /\ IsFiniteSet(Locator)
  /\ Parent \in [Locator \cup Dir -> Dir \cup {Root}]
  /\ WalkPos \in [Locator \cup Dir \cup {Root} -> Nat]
  /\ StrPos \in [Locator -> Nat]
  /\ \A k, l \in Locator : StrPos[k] = StrPos[l] => k = l
  /\ Locator \cap (Dir \cup {Root}) = {}
  /\ NoCursor \notin Locator /\ Gone \notin Version /\ Root \notin Dir
  /\ RootStates \subseteq {"up", "missing"} /\ "up" \in RootStates
  /\ Engine \in {"sqlite", "postgres"}
  /\ Limits \subseteq Nat \ {0} /\ Resumes \subseteq BOOLEAN
  /\ MayFail \in BOOLEAN /\ MayRestore \in BOOLEAN /\ MayHide \in BOOLEAN
  /\ MaxEdits \in Nat /\ MaxPasses \in Nat

\* Directories above an entry, up to the root: those that are in every set that has
\* its parent and the parents of its own.
Upward == {S \in SUBSET (Dir \cup {Root}) : \A d \in S \ {Root} : Parent[d] \in S}

Above(e) ==
  IF e = Root THEN {}
  ELSE {d \in Dir \cup {Root} : \A S \in Upward : Parent[e] \in S => d \in S}

\* The directories are a tree, and the walk comes to a directory before it comes to
\* what is in it.
ASSUME TreeAssumption ==
  \A e \in Locator \cup Dir : Root \in Above(e) /\ WalkPos[Parent[e]] < WalkPos[e]

VARIABLES
  disk,       \* the version of every file, or Gone
  root,       \* the state of the root directory
  unreadable, \* directories that cannot be listed
  rules,      \* entries .gystignore excludes
  edits,      \* number of changes so far
  life,       \* history: versions each file has had since it was last created
  bygone,     \* history: versions it had before it was last deleted
  log,        \* observations about the source, by seq
  lastSeq,    \* last seq in current_files
  cursor,     \* source_cursors
  passes,     \* status of every pass begun
  scan,       \* the state of every scanner
  missed,     \* history: files not on disk at some moment of the pass
  calm        \* history: nothing but the scanner moved during the pass

diskVars == <<disk, root, unreadable, rules, edits, life, bygone>>
storeVars == <<log, lastSeq, cursor, passes>>
history == <<missed, calm>>
vars == <<diskVars, storeVars, scan, history>>

Entry == Locator \cup Dir \cup {Root}
Nothing == [l \in {} |-> 0]

Idle == [pc |-> "idle", resume |-> FALSE, limit |-> 0, cursor |-> NoCursor,
         visible |-> 0, pass |-> 0, known |-> Nothing, rules |-> {}, todo |-> {}, seen |-> {},
         ignored |-> {}, skipped |-> FALSE, complete |-> TRUE, scanned |-> 0,
         next |-> NoCursor, file |-> <<>>, obs |-> <<>>, status |-> "running"]

-----------------------------------------------------------------------------
(* Observations and their ids.                                              *)

\* DeriveID: source, locator, version, claim and the seq superseded; neither
\* the clock nor the content.
FileObs(l, nv, sum, prior) ==
  [kind |-> "file", loc |-> l, nv |-> nv, sum |-> sum, prior |-> prior]

\* TombstoneID leaves the version out.
Tombstone(l, prior) ==
  [kind |-> "absent", loc |-> l, nv |-> Gone, sum |-> Gone, prior |-> prior]

Id(o) == <<o.kind, o.loc, o.nv, o.prior>>

\* Seq of the newest observation of l up to seq n, or 0.
Latest(l, n) ==
  LET seqs == {i \in 1..n : log[i].loc = l}
  IN  IF seqs = {} THEN 0 ELSE CHOOSE i \in seqs : \A j \in seqs : j <= i

\* What current_files says of l after the fold up to n.
Current(l, n) == IF Latest(l, n) = 0 THEN Gone ELSE log[Latest(l, n)].nv

\* KnownState reads the entries that are present.
KnownState(n) ==
  [l \in {k \in Locator : Current(k, n) # Gone} |->
     [nv |-> Current(l, n), seq |-> Latest(l, n)]]

PriorSeq(known, l) == IF l \in DOMAIN known THEN known[l].seq ELSE 0

-----------------------------------------------------------------------------
(* The disk.                                                                *)

Reachable(e) == root = "up" /\ Above(e) \cap unreadable = {}

Listing(d) == {e \in Locator \cup Dir : Parent[e] = d /\ (e \in Locator => disk[e] # Gone)}

Init ==
  /\ disk \in [Locator -> Version \cup {Gone}]
  /\ root = "up"
  /\ unreadable = {}
  /\ rules = {}
  /\ edits = 0
  /\ life = [l \in Locator |-> {disk[l]} \ {Gone}]
  /\ bygone = [l \in Locator |-> {}]
  /\ log = <<>>
  /\ lastSeq = 0
  /\ cursor = NoCursor
  /\ passes = <<>>
  /\ scan = [s \in Scanner |-> Idle]
  /\ missed = [s \in Scanner |-> {}]
  /\ calm = [s \in Scanner |-> FALSE]

Change ==
  /\ edits < MaxEdits
  /\ edits' = edits + 1
  /\ calm' = [s \in Scanner |-> FALSE]
  /\ UNCHANGED <<storeVars, scan>>

\* Unless MayRestore, a file that was deleted does not come back, at once or later, as
\* it was before.
Edit(l, v) ==
  /\ v # disk[l]
  /\ MayRestore \/ v \notin bygone[l]
  /\ disk' = [disk EXCEPT ![l] = v]
  /\ life' = [life EXCEPT ![l] = IF v = Gone THEN {} ELSE @ \cup {v}]
  /\ bygone' = [bygone EXCEPT ![l] = IF v = Gone THEN @ \cup life[l] ELSE @]
  /\ missed' = [s \in Scanner |-> IF v = Gone THEN missed[s] \cup {l} ELSE missed[s]]
  /\ Change
  /\ UNCHANGED <<root, unreadable, rules>>

Mount(state) ==
  /\ state # root
  /\ root' = state
  /\ Change
  /\ UNCHANGED <<disk, life, bygone, unreadable, rules, missed>>

Forbid(d) ==
  /\ MayHide
  /\ unreadable' = IF d \in unreadable THEN unreadable \ {d} ELSE unreadable \cup {d}
  /\ Change
  /\ UNCHANGED <<disk, life, bygone, root, rules, missed>>

EditIgnores(e) ==
  /\ MayHide
  /\ rules' = IF e \in rules THEN rules \ {e} ELSE rules \cup {e}
  /\ Change
  /\ UNCHANGED <<disk, life, bygone, root, unreadable, missed>>

-----------------------------------------------------------------------------
(* Before the walk.                                                         *)

StartScan(s, resume, limit) ==
  /\ scan[s].pc = "idle"
  /\ Len(passes) < MaxPasses
  /\ scan' = [scan EXCEPT ![s] =
       [Idle EXCEPT !.pc = "begin", !.resume = resume, !.limit = limit,
                    !.cursor = IF resume THEN cursor ELSE NoCursor]]
  /\ UNCHANGED <<diskVars, storeVars, history>>

\* A pass is begun: those of the first n that are still running are concluded
\* interrupted, whoever runs them.
Begins(s, n) ==
  /\ passes' = Append([k \in DOMAIN passes |->
                         IF k <= n /\ passes[k] = "running" THEN "interrupted" ELSE passes[k]],
                      "running")
  /\ scan' = [scan EXCEPT ![s].pc = "known", ![s].pass = Len(passes'), ![s].visible = 0]
  /\ missed' = [missed EXCEPT ![s] = {l \in Locator : disk[l] = Gone}]
  /\ UNCHANGED <<diskVars, log, lastSeq, cursor, calm>>

\* Mutant: earlier passes are left alone.
BeginPass_Leaves(s) ==
  /\ Engine = "sqlite" /\ scan[s].pc = "begin"
  /\ Begins(s, 0)

\* On SQLite its UPDATE has the only write lock until the row is in.
BeginPass(s) ==
  /\ Engine = "sqlite" /\ scan[s].pc = "begin"
  /\ Begins(s, Len(passes))

\* On PostgreSQL the UPDATE sees the rows committed when it runs, and looks again
\* at one that another transaction has held; a pass begun meanwhile it misses.
SweepPasses(s) ==
  /\ Engine = "postgres" /\ scan[s].pc = "begin"
  /\ scan' = [scan EXCEPT ![s].pc = "insert", ![s].visible = Len(passes)]
  /\ UNCHANGED <<diskVars, storeVars, history>>

CommitPass(s) ==
  /\ scan[s].pc = "insert"
  /\ Begins(s, scan[s].visible)

LoadKnown(s) ==
  /\ scan[s].pc = "known"
  /\ scan' = [scan EXCEPT ![s].pc = "open", ![s].known = KnownState(lastSeq)]
  /\ calm' = [calm EXCEPT ![s] = lastSeq = Len(log)]
  /\ UNCHANGED <<diskVars, storeVars, missed>>

\* Nothing moves but the pass.
RootUnavailable(s) ==
  /\ scan[s].pc = "open"
  /\ root = "missing"
  /\ passes' = [passes EXCEPT ![scan[s].pass] = "unavailable"]
  /\ scan' = [scan EXCEPT ![s] = Idle]
  /\ UNCHANGED <<diskVars, log, lastSeq, cursor, history>>

OpenRoot(s) ==
  /\ scan[s].pc = "open"
  /\ root # "missing"
  /\ scan' = [scan EXCEPT ![s].pc = "walk", ![s].todo = {Root}, ![s].rules = rules]
  /\ UNCHANGED <<diskVars, storeVars, history>>

-----------------------------------------------------------------------------
(* The walk, depth first: an entry is visited when none before it is left.  *)

Visits(s, e) ==
  /\ scan[s].pc = "walk"
  /\ e \in scan[s].todo
  /\ \A f \in scan[s].todo : WalkPos[e] <= WalkPos[f]

Ignored(s, e) == e \in scan[s].rules

\* The walk goes on with the scanner's record changed to r.
Walk(s, r) ==
  /\ scan' = [scan EXCEPT ![s] = r]
  /\ UNCHANGED <<diskVars, storeVars, history>>

Done(s, e) == [scan[s] EXCEPT !.todo = @ \ {e}]

SkipIgnored(s, e) ==
  /\ Visits(s, e) /\ Ignored(s, e)
  /\ Walk(s, [Done(s, e) EXCEPT !.ignored = @ \cup {e}])

EnterDir(s, d) ==
  /\ Visits(s, d) /\ ~Ignored(s, d) /\ d \notin unreadable
  /\ Reachable(d)
  /\ Walk(s, [Done(s, d) EXCEPT !.todo = @ \cup Listing(d)])

EnterDirFails(s, d) ==
  /\ Visits(s, d) /\ ~Ignored(s, d)
  /\ d \in unreadable \/ ~Reachable(d)
  /\ Walk(s, [Done(s, d) EXCEPT !.skipped = TRUE])

AtOrBeforeCursor(s, l) ==
  scan[s].cursor # NoCursor /\ StrPos[l] <= StrPos[scan[s].cursor]

PassOver(s, l) ==
  /\ Visits(s, l) /\ ~Ignored(s, l) /\ AtOrBeforeCursor(s, l)
  /\ Walk(s, Done(s, l))

VisitsFile(s, l) == Visits(s, l) /\ ~Ignored(s, l) /\ ~AtOrBeforeCursor(s, l)

\* Mutant: the cursor is put on the file the walk stopped at.
Truncate_OnTheFile(s, l) ==
  /\ VisitsFile(s, l)
  /\ scan[s].scanned >= scan[s].limit
  /\ Walk(s, [scan[s] EXCEPT !.complete = FALSE, !.todo = {}, !.next = l])

Truncate(s, l) ==
  /\ VisitsFile(s, l)
  /\ scan[s].scanned >= scan[s].limit
  /\ Walk(s, [scan[s] EXCEPT !.complete = FALSE, !.todo = {}])

Within(s, l) == VisitsFile(s, l) /\ scan[s].scanned < scan[s].limit

StatFails(s, l) ==
  /\ Within(s, l)
  /\ disk[l] = Gone \/ ~Reachable(l)
  /\ Walk(s, [Done(s, l) EXCEPT !.skipped = TRUE])

Stat(s, l) == Within(s, l) /\ disk[l] # Gone /\ Reachable(l)

\* Mutant: a known file is taken to be unchanged.
IsUnchanged_Known(s, l) == l \in DOMAIN scan[s].known

IsUnchanged(s, l) == l \in DOMAIN scan[s].known /\ scan[s].known[l].nv = disk[l]

Unchanged(s, l) ==
  /\ Stat(s, l) /\ IsUnchanged(s, l)
  /\ Walk(s, [Done(s, l) EXCEPT !.seen = @ \cup {l}, !.next = l])

\* Mutant: only what was not read again counts as seen.
Changed_Unseen(s, l) ==
  /\ Stat(s, l) /\ ~IsUnchanged(s, l)
  /\ Walk(s, [Done(s, l) EXCEPT !.pc = "hash", !.file = <<l, disk[l]>>])

Changed(s, l) ==
  /\ Stat(s, l) /\ ~IsUnchanged(s, l)
  /\ Walk(s, [Done(s, l) EXCEPT !.pc = "hash", !.seen = @ \cup {l}, !.file = <<l, disk[l]>>])

\* A second stat within the stability window finds the file moved on.
Unstable(s) ==
  /\ scan[s].pc = "hash"
  /\ LET l == scan[s].file[1]
     IN  disk[l] # scan[s].file[2] \/ ~Reachable(l)
  /\ Walk(s, [scan[s] EXCEPT !.pc = "walk", !.file = <<>>])

HashFails(s) ==
  /\ scan[s].pc = "hash"
  /\ LET l == scan[s].file[1] IN disk[l] = Gone \/ ~Reachable(l)
  /\ Walk(s, [scan[s] EXCEPT !.pc = "walk", !.file = <<>>, !.skipped = TRUE])

\* The version is that of the stat, the digest that of the read.
HashFile(s) ==
  /\ scan[s].pc = "hash"
  /\ LET l == scan[s].file[1]
         o == FileObs(l, scan[s].file[2], disk[l], PriorSeq(scan[s].known, l))
     IN  /\ disk[l] # Gone /\ Reachable(l)
         /\ Walk(s, [scan[s] EXCEPT !.pc = "walk", !.file = <<>>, !.next = l,
                                    !.scanned = @ + 1, !.obs = Append(@, o)])

-----------------------------------------------------------------------------
(* After the walk.                                                          *)

\* Mutant: an unreadable directory does not count against coverage.
Coverage_IgnoresSkips(r, resumed) ==
  IF r.complete /\ ~resumed THEN "complete" ELSE "partial"

\* Result.Coverage.
Coverage(r, resumed) ==
  IF r.complete /\ ~resumed /\ ~r.skipped THEN "complete" ELSE "partial"

IsHidden(l, ignored) == ({l} \cup Above(l)) \cap ignored # {}

\* The elements of a set by their positions: there is one such sequence.
Ascending(S, pos) ==
  {s \in [1..Cardinality(S) -> S] : \A i, j \in DOMAIN s : i < j => pos[s[i]] < pos[s[j]]}

\* Mutant: a newly ignored file is taken for a deleted one.
Missing_OrIgnored(r) ==
  IF Coverage(r, r.cursor # NoCursor) = "complete"
  THEN {l \in DOMAIN r.known : l \notin r.seen}
  ELSE {}

\* Tombstones asks Coverage whether there was a cursor, not whether --resume
\* was given.
Missing(r) ==
  IF Coverage(r, r.cursor # NoCursor) = "complete"
  THEN {l \in DOMAIN r.known : l \notin r.seen /\ ~IsHidden(l, r.ignored)}
  ELSE {}

Tombstones(r) ==
  {[i \in DOMAIN l |-> Tombstone(l[i], r.known[l[i]].seq)] : l \in Ascending(Missing(r), StrPos)}

\* store.Append: one transaction, DO NOTHING on an id the log has.
NewRows(batch) ==
  LET ids == {Id(log[i]) : i \in DOMAIN log}
      fresh == {i \in DOMAIN batch : Id(batch[i]) \notin ids}
  IN  {[i \in DOMAIN k |-> batch[k[i]]] : k \in Ascending(fresh, [i \in fresh |-> i])}

AppendObservations(s) ==
  /\ scan[s].pc = "walk"
  /\ scan[s].todo = {}
  /\ \E absent \in Tombstones(scan[s]) :
       \E new \in NewRows(scan[s].obs \o absent) :
         /\ log' = log \o new
         /\ calm' = [t \in Scanner |-> calm[t] /\ (t = s \/ new = <<>>)]
  /\ scan' = [scan EXCEPT ![s].pc = "cursor"]
  /\ UNCHANGED <<diskVars, lastSeq, cursor, passes, missed>>

SetCursor(s) ==
  /\ scan[s].pc = "cursor"
  /\ cursor' = IF scan[s].next # NoCursor THEN scan[s].next ELSE cursor
  /\ scan' = [scan EXCEPT ![s].pc = "finish"]
  /\ UNCHANGED <<diskVars, log, lastSeq, passes, history>>

\* Unconditional: it may overwrite an "interrupted" put there by another that began.
FinishPass(s) ==
  /\ scan[s].pc = "finish"
  /\ LET status == Coverage(scan[s], scan[s].resume)
     IN  /\ passes' = [passes EXCEPT ![scan[s].pass] = status]
         /\ scan' = [scan EXCEPT ![s].pc = "apply", ![s].status = status]
  /\ UNCHANGED <<diskVars, log, lastSeq, cursor, history>>

\* Mutant: the projector stores the seq it expects next.
Apply_OneAhead(s) ==
  /\ scan[s].pc = "apply"
  /\ lastSeq' = Len(log) + 1
  /\ scan' = [scan EXCEPT ![s] = Idle]
  /\ UNCHANGED <<diskVars, log, cursor, passes, history>>

Apply(s) ==
  /\ scan[s].pc = "apply"
  /\ lastSeq' = Len(log)
  /\ scan' = [scan EXCEPT ![s] = Idle]
  /\ UNCHANGED <<diskVars, log, cursor, passes, history>>

\* Append or SetCursor returns an error: finishInterrupted.
WriteFails(s) ==
  /\ MayFail
  /\ scan[s].pc = "cursor" \/ (scan[s].pc = "walk" /\ scan[s].todo = {})
  /\ passes' = [passes EXCEPT ![scan[s].pass] = "interrupted"]
  /\ scan' = [scan EXCEPT ![s] = Idle]
  /\ UNCHANGED <<diskVars, log, lastSeq, cursor, history>>

\* The process is killed, or an error ends it that it does not record.
Crash(s) ==
  /\ MayFail
  /\ scan[s].pc # "idle"
  /\ scan' = [scan EXCEPT ![s] = Idle]
  /\ UNCHANGED <<diskVars, storeVars, history>>

-----------------------------------------------------------------------------

User ==
  \/ \E l \in Locator, v \in Version \cup {Gone} : Edit(l, v)
  \/ \E state \in RootStates : Mount(state)
  \/ \E d \in Dir : Forbid(d)
  \/ \E e \in Locator \cup Dir : EditIgnores(e)
  \/ \E s \in Scanner, resume \in Resumes, limit \in Limits : StartScan(s, resume, limit)

Visit(s, e) ==
  \/ SkipIgnored(s, e)
  \/ e \notin Locator /\ (EnterDir(s, e) \/ EnterDirFails(s, e))
  \/ e \in Locator /\ (PassOver(s, e) \/ Truncate(s, e) \/ StatFails(s, e)
                         \/ Unchanged(s, e) \/ Changed(s, e))

Run(s) ==
  \/ BeginPass(s) \/ SweepPasses(s) \/ CommitPass(s)
  \/ LoadKnown(s)
  \/ RootUnavailable(s)
  \/ OpenRoot(s)
  \/ \E e \in Entry : Visit(s, e)
  \/ Unstable(s)
  \/ HashFails(s)
  \/ HashFile(s)
  \/ AppendObservations(s)
  \/ SetCursor(s)
  \/ FinishPass(s)
  \/ Apply(s)

Next == User \/ \E s \in Scanner : Run(s) \/ WriteFails(s) \/ Crash(s)

Spec == Init /\ [][Next]_vars

-----------------------------------------------------------------------------
(* Properties.                                                              *)

\* What the disk, the store and the scanners hold.
TypeOK ==
  /\ disk \in [Locator -> Version \cup {Gone}]
  /\ root \in {"up", "missing"}
  /\ unreadable \subseteq Dir
  /\ rules \subseteq Locator \cup Dir
  /\ lastSeq \in 0..Len(log)
  /\ cursor \in Locator \cup {NoCursor}
  /\ \A k \in DOMAIN passes :
       passes[k] \in {"running", "complete", "partial", "interrupted", "unavailable"}
  /\ \A s \in Scanner :
       /\ scan[s].pass \in 0..Len(passes)
       /\ scan[s].todo \subseteq Entry
       /\ scan[s].seen \subseteq Locator
       /\ DOMAIN scan[s].known \subseteq Locator
       /\ (scan[s].pc = "hash") = (scan[s].file # <<>>)

Row(i) == log'[i]
NewSeqs == DOMAIN log' \ DOMAIN log

\* Absence is claimed only of a file that really was not there at some moment
\* of the pass that claims it: not of one behind an unreadable directory, an
\* ignore rule, a truncated or resumed walk, a vanished mount, nor of one
\* that another scanner found first.
TombstoneHonest ==
  [][\A s \in Scanner : scan[s].pc = "walk" /\ scan'[s].pc = "cursor" =>
       \A i \in NewSeqs : Row(i).kind = "absent" => Row(i).loc \in missed[s]]_vars

\* A pass recorded as complete looked everywhere: every file that stayed on
\* disk for the whole pass and is not ignored was seen.
CompleteSawEverything ==
  [][\A s \in Scanner :
       scan[s].pc = "finish" /\ scan'[s].pc = "apply" /\ scan'[s].status = "complete" =>
         \A l \in Locator \ missed[s] : l \in scan[s].seen \/ IsHidden(l, scan[s].rules)]_vars

\* After a complete pass during which nothing else moved, current_files says
\* of every file that is not ignored what the disk says.
CalmPassIsAccurate ==
  [][\A s \in Scanner :
       scan[s].pc = "apply" /\ scan'[s].pc = "idle" /\ lastSeq' = Len(log)
         /\ scan[s].status = "complete" /\ calm[s] =>
         \A l \in Locator : IsHidden(l, rules) \/ Current(l, Len(log)) = disk[l]]_vars

\* Everything at or before the stored cursor has been emitted, on a disk that
\* does not change while it is read.
CursorCovers ==
  cursor # NoCursor /\ edits = 0 =>
    \A l \in Locator :
      StrPos[l] <= StrPos[cursor] /\ disk[l] # Gone /\ ~IsHidden(l, rules)
        => \E i \in DOMAIN log : log[i].loc = l

\* However scanners die and overlap, one pass at most is running.  On PostgreSQL
\* that is so of one scanner at a time.
OneRunningPass ==
  Cardinality({k \in DOMAIN passes : passes[k] = "running"}) <= 1
=============================================================================
