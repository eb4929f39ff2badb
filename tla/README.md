# gyst in TLA+

gyst watches folders and git repositories and keeps what it saw as an
append-only log of *observations*; every table a person reads is a projection
of that log. These modules specify the parts of gyst whose correctness depends
on order: who writes what when, what a reader may conclude from it, and what is
left behind when a command is killed.

    tlc -workers 2 -config MCProjection.cfg MCProjection.tla     (and the other .cfg files)
    tlapm ProjectionProofs.tla                                   (and the other *Proofs.tla)

`PROJECT.json` lists the components, the runs, for every mapped definition the
lines of source it stands for, the hazards the properties are for, the findings
and the theorems.

## The system

| component | state | operations | hard because |
|---|---|---|---|
| observation log (`internal/store/store.go`, `engine.go`) | `observations`, its sequence | `Append`, `Since` | several processes append; a seq is taken at insertion and becomes visible at commit; ids are derived, so an id can repeat |
| `current_files` projection (`internal/store/projection.go`) | `current_files`, `projector_state` | `ApplyCurrentFiles`, `ClearProjection`, `VerifyProjection` | read and fold are separate transactions, clearing is two of them; several commands fold at once; any can be killed |
| local-folder connector (`internal/connector/localfolder`) | the walk's `Result`, `source_cursors` | `Discover`, `Coverage`, `Tombstones` | the disk changes under the walk; absence must be told from not having looked |
| scan passes (`internal/store/passes.go`) | `scan_passes` | `BeginPass`, `FinishPass` | scanners crash and overlap; beginning a pass is an UPDATE and an INSERT |
| envelope (`internal/observe`) | - | `DeriveID`, `TombstoneID` | what an id leaves out decides what the log drops |
| rename detection (`internal/project/rename.go`) | `artifact_relations` | `DetectRenames`, `ProjectRenames` | swaps, copies, equal contents |
| findings (`internal/findings`, `internal/store/findings.go`) | `findings` | detection pass, `Acknowledge`, `Waive` | a pass reads, a person writes, the pass writes back; two passes have two clocks |
| bundles (`internal/bundle`) | `bundles`, `trusted_keys`, `sources.imported_from` | `Export`, `Import`, `trust add` | files lost, repeated, reordered; an export is several reads, an import several transactions, and nothing keeps commands of one Gyst apart |
| projects and membership (`internal/manifest`, `internal/project/membership.go`) | `projects`, `file_projects` | rebuild from the newest manifests and markers | a manifest can be moved, broken or deleted; folders get no tombstones |
| identity profiles (`internal/identity`) | `identity_policies`, `artifacts`, `artifact_members` | apply, verify | a trailing number is a revision or a name |
| authority and assertions (`internal/authority`) | `file_authority`, `authority_assertions` | assert, retract, project | four reads and a replacement in five transactions; an assertion outlives what it was made about |
| git connector (`internal/connector/git`, `reconcile.go`) | commit observations | ingest, reconcile | a branch is rewritten between two ingests |
| retention (`internal/store/retention.go`) | `scan_passes`, `findings` | prune | deletes what others cite |
| location probing, report, explain, changes, status, discover | - | reads | not order-dependent |

Processes meet in the database only: every command (`gyst scan`, `project`,
`verify`, `import`, `findings`) is an operating-system process with a store of
its own, and `cmdScan` calls the components in a row: connector, log, cursor,
pass, projection, renames, membership, findings, authority, retention.

What makes each of them correct:

- the log records an observation once, and never changes or reuses a seq;
- the projection never passes a committed row over, never goes back, gets to
  every row, and a clean `verify` means that it is complete;
- absence is claimed only of what was not there; a pass that calls itself
  complete saw everything; a cursor covers what lies before it; what a quiet
  complete pass leaves in the view is what the disk holds;
- a rename pairs two files only when, of what left and came in a pass, no other
  pairing is possible;
- a person's disposition of a finding is not undone by a machine before its
  time, and a finding that is still detected is not resolved;
- a receiver's copy of an imported source is a prefix of its sender's log of it
  and grows along it; a recorded bundle has arrived whole; nothing arrives under
  another's name or another key;
- a project row is never that of a manifest that is gone or broken;
- a number supersedes a smaller one only behind an explicit revision marker; a
  person's word is the answer for everything that is one thing with the file;
- a git cursor reaches nothing that was not observed, and no commit of the log
  stays unreconciled behind a command that ended.

## Modules

| module | what it is |
|---|---|
| `Filters` | what a query picks from a log, in order |
| `FilterProofs` | what picking, concatenating and prefixes have to do with each other |
| `Rows` | rows of the log, the upsert fold, the fingerprint |
| `LogView` | abstract: a log in commit order and a view that is the fold of a growing prefix |
| `Projection` | the log and the projection with the commands that share a database |
| `MCProjection` | two files, up to four observations, one of them a manifest claim |
| `ProjectionProofs` | theorems about `Projection`, and that it implements `LogView` |
| `Scan` | `gyst scan` of one folder over a disk that changes |
| `ScanProofs` | theorems about `Scan` |
| `MCScan` | two trees of a directory, a file in it and a file beside it |
| `Findings` | detection passes, dispositions and retention of findings |
| `MCFindings` | two findings whose rules consult different queries |
| `FindingsProofs` | theorems about `Findings` |
| `Mirror` | abstract: copies that are growing prefixes of their originals |
| `Bundles` | observation, export, trust and import among several Gysts; implements `Mirror` |
| `MCBundles` | three Gysts in a row, or two, or two and their common receiver |
| `BundlesProofs` | theorems about `Bundles`, and that it implements `Mirror` |
| `Git` | `gyst git` over a history that is rewritten, and the reconciliation of commits with files |
| `MCGit` | two branches and their merge |
| `GitProofs` | theorems about `Git` |
| `Renames` | `DetectRenames` and its two queries, as functions of a log |
| `Membership` | patterns, manifests, markers and `ResolveProjects`, as functions |
| `Inference` | the tail of `gyst scan` and `gyst import`: renames, membership, findings |
| `InferenceProofs` | theorems about `Inference` |
| `MCInference` | a marked folder with a manifest and files, one whose name LIKE takes for the first, a dependency directory |
| `Identity` | `Classify`, `rankMembers`, `RelationFor` and `Build`, as functions |
| `Authority` | the resolver, its projection, assertions and identity profiles |
| `MCAuthority` | revisions of one file, a copy, a number that is a name |
| `AuthorityProofs` | theorems about `Authority` |

### Projection

`log`, `view` and `lastSeq` are the tables `observations`, `current_files` and
`projector_state`; `nextSeq` is the sequence; `proc[p]` holds the local
variables of a command and `pc` the statement it is about to execute.
`verdict` is what `verify` printed. `killed` is a history variable.

| action | code |
|---|---|
| `StartScan`, `StartProject`, `StartRebuild`, `StartVerify` | the commands, `cmd/gyst/main.go` |
| `BeginAppend`, `InsertNew`, `InsertDuplicate`, `CommitAppend` | `Append`: one transaction, row by row because a row gets its seq when it is inserted |
| `OpenProjector`, `ReadBatch`, `FoldBatch`, `CaughtUp` | `ApplyCurrentFiles`: `last` is read once, batches are read outside the transaction that folds them |
| `ClearRows`, `RewindCursor` | the two statements of `ClearProjection` |
| `TakeFingerprint`, `Replay` | `VerifyProjection`: the fingerprint is taken before the transaction |
| `Abandon` | a kill, or an error returned: the open transaction rolls back |

`Engine` decides three things: whether a second writer waits (`CanWrite`),
whether a rolled back transaction gives its seqs back, and so whether commit
order can differ from seq order. `INSERT ... ON CONFLICT DO NOTHING` takes a
seq for a row it then drops, on both engines.

Abstractions: an observation is a model value with a locator, a state and
whether it is a file-state claim; a row of `current_files` is the row of the log
it was written from. The fold's transaction is one step, and the replay's too:
no other process sees their insides, and the order in which a fold upserts
distinct keys does not matter.

### Scan

`disk`, `root`, `unreadable` and `rules` are the folder, its mount, its
permissions and its `.gystignore`; `log`, `lastSeq`, `cursor` and `passes` the
store; `scan[s]` the local state of a scanner, with the `Result` of its walk.
The view is kept as the seq it is folded to: `Current(l, lastSeq)`, which is
what `Projection` shows about it. `missed`, `calm`, `life` and `bygone` are
history variables: what was not on disk at some moment of a pass, the passes
nothing disturbed, the versions a file has had since it was last created, and
those it had before it was last deleted. With `MayRestore = FALSE` a deleted
file does not come back, at once or by way of another version, as it was then.
`Engine` decides how a pass is begun.

| action | code |
|---|---|
| `StartScan`, `LoadKnown` | `cmdScan` up to the walk |
| `BeginPass` on SQLite; `SweepPasses`, `CommitPass` on PostgreSQL | the transaction of `BeginPass`: under SQLite's write lock one step; on PostgreSQL its UPDATE sees the passes committed so far, its INSERT comes later, and of two that overlap neither sees the other's row |
| `RootUnavailable`, `OpenRoot` | `os.Stat` of the root, `loadIgnores` |
| `SkipIgnored`, `EnterDir`, `EnterDirFails`, `PassOver`, `Truncate`, `StatFails`, `Unchanged`, `Changed` | one call of the `WalkDir` callback each |
| `Unstable`, `HashFails`, `HashFile` | the second stat and the read of a changed file |
| `AppendObservations` | `Tombstones` and `Append` |
| `SetCursor`, `FinishPass`, `Apply` | the statements that follow |
| `WriteFails`, `Crash` | `finishInterrupted`; a kill |
| `Edit`, `Mount`, `Forbid`, `EditIgnores` | the user and the operating system |

Abstractions: a file's content and its native version (mtime and size) are one
value, so every change is visible to a stat; an observation records the version
of the stat and the content of the read separately. An observation's id is what
`DeriveID` hashes: locator, version, claim and the seq superseded, not the
content. Two locators and a directory have two orders, the walk's (`WalkPos`)
and that of Go strings (`StrPos`). Left out: folder markers and manifests,
symlinks, placeholders, `.git`, an unmounted share that leaves an empty mount
point (the scanner cannot tell it from a user who deleted everything, and the
source says so).

### Findings

`table` is the table `findings`, one row per finding id, of which the columns
`status`, `last_seen_at`, `resolved_at` and the expiry in `waiver` matter;
`condition` holds the findings whose rule would fire on what the other tables
contain at the moment; `pass[d]` the local state of a detection pass. `away`,
`there` and `decided` are history variables about the running passes.

| action | code |
|---|---|
| `Begin`, `Load` | `findings.Project`: its clock is an argument; `load` runs four queries that share no snapshot |
| `ReadPrior`, `WriteBack` | `UpsertFinding`: a SELECT, a decision in Go, an upsert |
| `AllRecorded`, `ResolveUnseen` | the end of the loop; one UPDATE that goes by `last_seen_at` |
| `Prune` | `PruneResolvedFindings`, which `cmdScan` calls after the pass |
| `Fail` | a kill, an error returned, or a write that SQLite refuses because its snapshot is old |
| `Acknowledge`, `Waive` | a person, one UPDATE each, refused in any other status |
| `Change` | the files, relations and passes the rules read |

Abstractions: which condition a rule has is left open (it comes and goes at any
moment, also between the queries of a pass), and so are the columns that are
only shown. `Engine` decides whether a row may be written from a snapshot that
is no longer the newest (`MayWrite`). What the rules find is module `Inference`'s.

### Bundles

A node has its tables `log`, `registered` and `marked` (`sources`,
`imported_from`), `trusted` (`trusted_keys`), `received` (`bundles`), its signing
`key`, and `run[n][p]`, the command that process `p` of it is running; a node has
as many processes as the constant `Process`. `bundles` is the set of bundle
files there are: files are never taken out of it, so each may be imported late,
twice or never, in any order.

| action | code |
|---|---|
| `Observe` | a scan that appends one observation of one of the node's own sources |
| `NewKey` | `key init` after a key was lost |
| `BeginExport` | the key is loaded; `Export` reads the sources and leaves the imported ones out, or takes those named |
| `ReadSource` | one query of `Observations` per source, with `Permits`, each of the log as it is by then |
| `FinishExport`, `Truncate` | digest, signature and file; a bundle file that was cut short |
| `BeginImport` | `Read`: digest and signature; `TrustedKeyOf` and the decision to import |
| `TrustKey`, `TrustAdd` | trust on first use, which changes nothing if a key has been recorded meanwhile; `gyst trust add` |
| `RegisterSource`, `MarkImported`, `AppendBundle`, `RecordBundle` | the transactions of `Import`, one by one |
| `Abandon` | a kill or an error between two statements of an export or import |

`log[n]` is in seq order and an append puts its rows at the end: appends commit in
the order of their seqs, as on SQLite (`commit_order` shows PostgreSQL). Scans,
exports and imports of one node interleave; no property is claimed of what
processes beyond the first make possible unless it says so (findings 13, 14).

`FollowsSender` says that the exchange implements `Mirror`: for every link (a
receiver, a sender, a source, a level of egress) the receiver's copy is a prefix
of what the sender may hand over. An observation is what `DeriveID` hashes plus
its egress; `by` and `under` are history variables of a row. `Body`, `NewRows` and
`Copy` are queries on a log, `Pick` of module `Filters`: the standard `SelectSeq`
would do, but has no definition the provers can see.

### Git

`objects` and `refs` are the repository, which people change (`Move`, `Collect`);
`log` (the set of commits that were observed), `cursor`, `passes` the store;
`commits` and `contains` what reconciliation writes; `run[p]` the command of a process. A commit is a number,
and numbers are in the order of dates, which is the order `git log` lists.

| action | code |
|---|---|
| `Start`, `BeginPass` | `cmdGit` up to the walk, the read of the cursor with `--resume` |
| `Discover`, `DiscoverFails` | `rev-parse` and `git log --reverse --no-merges --max-count`; a ref or cursor git does not know |
| `AppendCommits`, `SetCursor`, `FinishPass` | the statements after it, `Coverage` between them |
| `CommitObservations`, `PresentFiles`, `WriteCommits` | `ProjectCommits`: two reads and one transaction |
| `WriteFails`, `Crash` | `finishInterrupted`; a kill |

### Renames, Membership, Inference

`Renames` and `Membership` are functions. `DetectRenames` works on the
tombstones and arrivals of a log; a digest in `Blank` identifies nothing.
`ResolveProjects` makes of manifests and marked folders a set of projects with
patterns; `Match` is the glob over segments, and the constant `Accepts` says which
names `path.Match`, of Go's library, takes a segment of a pattern for.

`Alike` (a constant) are the pairs of a folder and a file which is not beneath it but which
`LIKE` takes to be, because of a `_` or `%` in the folder's name or, on SQLite,
because case is ignored (`Beneath`). Which folders are marked does not change.

`Inference` runs them as commands do. `disk` is what the tree holds; `log` and
`applied` the observations and how far they are folded; `relations`, `projects`
and `findings` the tables; `run[p]` what a command has read. A read is kept as
the length of the log it saw, since the log only grows. `from` and `calm` are
history variables: the log as the command has left it, and whether anything was
appended or folded since by another one.

| action | code |
|---|---|
| `Scan` | a pass of module `Scan` over a tree whose files moved, swapped, changed or went: what it appends |
| `Import` | `gyst import` with nothing new for these locators: the tail alone |
| `Apply` | `ApplyCurrentFiles` |
| `ReadTombstones`, `ReadArrivals`, `InsertRelations` | `ProjectRenames` |
| `ReadManifests`, `ReadMarkers`, `ReadMembers`, `ReplaceProjects` | `ProjectMembership` |
| `ReadFiles`, `ReadAmbiguities`, `ReadInvalid`, `Detect` | `findings.Project` up to what it stores, which is `Findings` |
| `Abandon` | a kill |

Properties about what a reader leaves behind are about one that nobody disturbed
(`calm`); `RenameSound` and `RenamesComplete` hold whatever happens in between.

### Identity, Authority

`Identity` is functions. A name is a base and trailing tokens, each a revision
behind a marker, a bare number or a word, which is what the rules of
`versionRules` tell apart; `Plans` is the set of outcomes of `Build`, more than
one because the sort by number is not stable.

`Authority` has the inventory `files`, `policies` and `active`
(`identity_policies` with their artifacts), `assertions`, and `authority`, the
table `file_authority`.

| action | code |
|---|---|
| `Scan` | a scan up to `authority.Project` |
| `AssertKind`, `InsertAssertion`, `Retract` | `gyst assert`: the file is looked up, then the row inserted; retract |
| `Apply`, `Build`, `ApplyIdentityPlan` | `gyst identity apply`, and `verify`, which applies every profile in turn |
| `ReadFiles`, `ReadPolicy`, `ReadMembers`, `ReadAssertions`, `ReplaceFileAuthority` | `authority.Project` |
| `Abandon` | a kill |

## Runs

| run | instance | shows |
|---|---|---|
| `projection` | SQLite, 2 processes, 3 observations of 2 files, `scan` and `project`, kills, batches of 2 | no row is passed over; none is recorded twice; `LogView` is implemented; every committed row reaches the view |
| `repair` | SQLite, 1 process, 4 observations, all commands, kills | whatever a killed rebuild leaves, the next one repairs; `verify` does not call an incomplete view clean |
| `commit_order` | PostgreSQL, 2 scans | **violates** `Reflected` |
| `scan` | PostgreSQL, 1 scanner, 3 passes, 2 changes of the disk, resume, cap of 1, failing writes, kills | absence, coverage and the cursor tell the truth |
| `scan_two` | SQLite, 2 scanners, 3 passes, 1 edit, kills | scanners that overlap record no absence of what was there, and on SQLite one pass at most is running (on PostgreSQL two may be, finding 12); that their passes leave an accurate view is not claimed (finding 9) |
| `restored` | SQLite, 1 scanner, 3 passes, a file is deleted and restored with its old mtime | **violates** `CalmPassIsAccurate` |
| `findings` | SQLite, 1 detector, 2 findings on 2 queries, 3 clock readings, 3 changes, failures anywhere, a person at any moment | a pass concludes what was there; decisions stand until their time; waivers end and stay on record |
| `bundles` | 3 nodes in a row, one command at a time on each, 1 file, 2 observations, 3 bundles, 2 keys, one source scanned at two levels | whatever happens to the files, the exports and the imports, a copy follows its sender, under one key and the right name |
| `git` | 2 processes, 2 commands, 4 commits of which one is a merge, 2 moves of the branch, caps of 2 and 9 | the cursor covers what it reaches as long as no cap cuts; a complete pass saw all; who ends has reconciled |
| `git_capped` | the same, no file comes or goes | **violates** `ResumeLosesNothing` |
| `inference` | 2 processes, 4 locators, 2 passes, up to 4 files changed between them, at most 2 candidates | what is called a rename moved, alone of its content; what moved so is called; projects and findings are those of the view |
| `authority` | 2 processes, 6 locators, 3 commands, 5 profiles | nothing supersedes by a bare number; persons are heard and nothing is invented |

Bounds. `MaxSeq` stops new batches once the sequence has passed it; with a
batch per command it lets two processes commit, fold and repeat three
observations in every interleaving, and a batch limit of 2 makes a fold need
two rounds. A third process or file adds no new relation between a row, a
cursor and a fold: each property relates one row to one cursor. `MaxEdits` and
`MaxPasses` bound the changes of the disk and the passes begun; two changes are
a deletion and something that hides another file, or a change and a change
during the walk; three passes are one that learns the tree, one that draws
conclusions and one that meets what a killed one left. `MaxTime` bounds the
detection passes: three are one that detects, one that resolves or lets a waiver
lapse, and one that prunes (`Age` is 0, so what a pass has resolved the next one
may prune) or detects again. All configurations but those of `Projection` switch
off deadlock checking because these bounds do stop the system.

In `bundles` a third node is what makes an imported source a thing to hand on;
two observations and three bundles make one bundle overtake another and a third
repeat; a second key is one lost. In `git` four commits are a fork and its
merge, the least at which the order of dates is no order of ancestry, and two
commands are one that leaves a cursor and one that resumes or overlaps. In
`inference` all four files may change between two passes: two that swap, a file
that moves beside a manifest that breaks, equal files of which one stays while
another goes and a third comes, more arrivals of a content than candidates are
shown (`MaxCandidates` 2); two processes and two passes let a killed tail be made
up for by the other. In `authority` three commands are a projection and two that
change what it reads; the tree starts as one revision and its copy, and the other
files come by scans.

`restored` and `scan` differ in `MayRestore`: the passing run excludes the one
situation that `restored` shows to go wrong, a deleted file that comes back as
it was. `scan` has one scanner for the same reason, finding 9, and `scan_two` is on SQLite
because of finding 12. `bundles` has one process per Gyst because of findings 13
and 14. `commit_order` and `projection` differ in the engine. `git_capped` and
`git` differ in the property: `CursorCovers` says the same of walks that no cap
has cut.

Symmetry permutes versions, locators, scanners or processes that nothing but
equality tells apart; it is not used where liveness is checked.

## Fairness

`FairSpec` assumes `WF_vars(Run(p))` of each process: a command that was started
and not killed is scheduled and takes its next statement. Nothing is assumed of
starting, of kills, nor of which of two waiting writers SQLite lets through. A
command has one statement at a time to execute, so weak fairness of their
disjunction is fairness of each. `EveryRowProjected` holds without strong
fairness because whoever holds the write lock in a scan's way goes on to fold,
and folds the waiting process's rows with its own.

## What is proved

`ProjectionProofs` proves for any number of processes, files and observations,
from `ObsAssumption` and `ProjectionAssumption`:

- `TypeCorrect`: `Spec => []TypeOK`, on both engines. `TypeOK` is not inductive:
  what a fold writes to `last_seq` is a number only if the batch has a newest
  row. `SeqInv` adds that every row, committed or not, lies below the sequence
  (`LogBelow`, `RowsBelow`), that only an open transaction holds rows, that a
  batch is a nonempty part of the log and, for SQLite, that there is one
  inserting transaction and that the log stands still under it (`OneWriter`):
  otherwise its rollback could take the sequence back below a committed row.
- `UniqueRowsAlways`: `Spec => []UniqueRows`, on both engines. `UniqueInv` says
  the same of the inserted rows of all open transactions together with the log.
- `ReflectedOnSQLite`: `Spec => []Reflected` when the engine is SQLite and nobody
  rebuilds; `commit_order` and finding 4 show that neither assumption can go.
  `CursorInv` says that every cursor, the stored one and each
  process's `last`, stands at 0 or at a row of the log, that the view reflects
  the log up to each of them, and that the batch a process has in hand is what
  the log has next (`NextInLog`). A commit cannot put a row below a cursor,
  since on SQLite all its seqs lie above the whole log.

The lemmas on `Newest` and `Fold` (the newest row of a bounded set exists; a
fold gives each file the newest of its candidates) and `SinceIsNext` (a limited
read returns a gapless piece of the log) carry the data.

- `ImplementsLogViewOnSQLite`, the refinement, under the same two conditions.
  `PrefixInv` says that the view is the fold of the log up to some row and that no
  cursor is past it; a lagging process may fold what another has folded already,
  and then leaves the view as it is. `FoldTwice`, folding a part of the log and
  then another is folding their union, rests on `UniqueInv`: with two newest rows a
  file could show either. An append is `Commit` because SQLite's one writer puts
  it above the log (`CommitIsAbove`), a fold is `Publish` (`FoldExtends`), all
  other steps stutter.
- `QuietReflectedAlways`: what a killed rebuild leaves, the next command repairs,
  when one process has the database at a time (`Solo`), or on SQLite without
  rebuilds; `CleanMeansCompleteAlone`: a `verify` that prints "clean" has looked at
  a complete view, when one process has the database. Finding 4 shows what two
  processes do. `SoloInv` says what `CursorInv` cannot say while a
  rebuild is half done: the stored cursor is at a row and the view shows no row
  beyond it, unless a rebuild is broken off the view reflects the log up to there,
  and the fingerprint a `verify` holds is that of the view. That two views of the
  same fingerprint reflect the same rows needs that a row which shows no
  file is told from one that does (a clause of `ObsAssumption`).

`FindingsProofs` proves for any number of findings, queries and clock readings,
from `FindingsAssumption`:

- `TypeCorrect` and `WaiverRecordedAlways`, for any number of overlapping passes
  and on both engines. `TypeInv` adds to `TypeOK` that a waiver which an upsert has
  read is still on record when it writes (`PassOK`), which holds because nothing
  ever removes a waiver (`TableStep`); without it a stale `waived` could be
  written to a row that has no waiver. It also adds that no row is younger than
  the clock and that the queries of a pass are counted.
- `PassAgreesAlone` and `WaiverEndsAlone`, on both engines, and
  `DispositionStandsAlone`, on SQLite, when passes do not overlap (`OnePass`).
  Findings 5 and 6 show that neither condition can go.
  `LifeInv` says of every finding and every running pass (`FindingInv`): a finding
  that never was away is still to be recorded or stands recorded with the
  clock of the pass; one that never was there is older than the pass; and a waiver
  that the pass has recorded and no person touched was not over.

`ScanProofs` proves for any tree of finite directories, any order of the walk,
any number of scanners, passes, edits and failures, from `ScanAssumption` and
`TreeAssumption` (the root lies above every entry, and the walk comes to a
directory before what is in it):

- `TypeCorrect`, on both engines, and `OneRunningPassOnSQLite`; finding 12 shows
  that the engine matters. `TypeInv` adds what a scanner holds at
  each step: a pass that exists, a resume point that is an entry, a size of the
  log it read that the log has.
- `TombstoneHonestAlways` and `CompleteSawEverythingAlways`. `HonestInv` follows a
  walk: what is gone now was missed (`MissedInv`), and every entry that never was
  missed is accounted for (`Accounted`): seen, hidden, or still to come, itself or
  a directory above it. The end of the walk has nothing to come; a directory that
  could not be entered, a cap or a cursor make the pass incomplete or leave the
  entry out of what absence is concluded from (`WalkInv`).
- `CursorCoversInOrder`: a stored cursor has nothing unobserved before it, for any
  number of scanners, if the walk's order is that of strings (`SortedAlike`;
  finding 2 shows that it must be). `CursorInv` says that the cursor a scanner
  set out from is covered by the log, and that what its walk has behind it, up to the
  file the cursor will be put on, is in the log or in its batch; nothing before the
  file it visits is still ahead (`NoneAhead`). The log only grows, so that two
  scanners cannot undo it for each other (`AppendGrows`).
- `CalmPassIsAccurateAlone`: after a complete pass that nothing disturbed the view
  is what the disk holds, whatever was killed, capped, resumed or edited before
  it, when there is one scanner and no file comes back as it was; findings 9 and 1
  show that both conditions are needed. The difficulty is `ON CONFLICT DO NOTHING`:
  an observation the pass needs may be taken for a known one. `CalmInv` keeps
  the lives of a file apart: versions of its present life are none of a bygone
  one (`LivesOK`), a row supersedes an earlier one, and what lies before a
  tombstone is of an earlier life (`RowsOK`); `HandOK` says the same of what a pass
  holds and has not appended, and `CalmOK` that a calm pass knows what the
  log says and has in hand what differs. An id that the log has already could
  only be that of a row under a later tombstone (`RowsSettled`), whose version is
  bygone.

`GitProofs` proves for any finite history, any number of commands and any
rewriting of refs, from `GitAssumption`:

- `TypeCorrect`; `TypeInv` adds that what a walk emits and a cursor names are
  commits, and that a process finishes a pass it began.
- `CursorCoversAlways` and `CompleteSawAllAlways`. `HistoryInv` says that what a
  walk has emitted and not appended, together with the log, is all that its ref
  reached beyond the cursor it set out from, if no cap cut it (`WalkSaw`), and
  that the cursors running commands have read are covered too.
- `EndsReconciledAlways`. `SteadyInv` says that a command reads every file that has
  been present since it began.

`AuthorityProofs` proves for any inventory, any profiles and any number of
commands, from `IdentityAssumption` and `AuthorityAssumption`:

- `TypeCorrect` and `SupersessionEarnedAlways`. A profile is planned from an
  inventory that is older than the tables it is stored in, so `TypeInv` says of
  every plan, in the tables and in the hands of a command, that its artifacts share
  no file, that a relation `supersedes` is between explicit revisions of one name,
  and that the member marked current is of the greatest revision (`PlanSound`,
  `ArtifactSound`); and of what `Resolve` makes of such a plan that a row names a file
  exactly if it is declared or likely (`ResolvedTyped`).
- `PersonsAreHeardAlways` and `NothingInventedAlways`. `ResolvedHears` and
  `ResolvedInventsNothing` are about `Resolve` as a function; `HeardInv` says that
  what a calm projection has read is what the tables hold (`Fits`), because whoever
  changes them ends its calm.

`BundlesProofs` proves for any number of Gysts, sources, keys, levels of egress and
bundle files, imported late, twice or never, from `BundlesAssumption`:

- `TypeCorrect`, of any exchange and any number of processes on each Gyst.
- `AttributedApart`, if no Gyst exports while it imports (`Apart`: it runs one
  command at a time, `Solo`, or nobody who is handed bundles hands on any,
  `NoRelay`); finding 13 shows that this is needed. `Inv` says of
  every row of a log whose it is (`OwnRow`, `ImportedRow`: the source it is filed
  under, the id it derives from, the key it came by), of every bundle file that
  what was signed is, per source, a prefix of what its sender may hand over
  (`BundleOK`), of an import how far it has come (`RunOK`), and of an export which of
  the sources it lists have been read and that none is another's (`ExportOK`,
  `ReadOK`).
- `OneKeyAlone`, if a Gyst runs one command at a time; finding 14 shows what two
  do. Trust is given once, so the key of a row that came is the key a later bundle
  is held to.
- `NoneLostApart`, under `Apart`, when no two Gysts call a source alike
  (`NamesApart`), which finding 8
  shows it needs: ids then tell whose row it is (`WhoseId`), so that a row which is
  taken for known has been there under the right name (`AppendArrives`).
- `FollowsSenderApart`, the refinement of `Mirror`, if in addition
  bundles are made for one level of egress (`OneLevel`). `CopiesOK` is inductive
  with `Inv`: what an import appends of a source are exactly the rows of the bundle
  that lie past the copy (`KnownIsCopied`, `RestContinues`). With two levels a
  sender hands over the private rows between the public ones later than
  those, and the copy is out of order.

`FilterProofs` holds what these proofs need of queries: `Pick` has what is wanted
and nothing else, distributes over concatenation, keeps order, distinctness and
prefixes. The induction along a sequence is an induction over a set of
positions (`SeqSetInduction`), since a theorem with an operator parameter is out
of the provers' reach.

`InferenceProofs` proves for any tree, any edits between passes, any number of
passes and of commands that overlap and are killed, from `InferenceAssumption`:

- `TypeCorrect`. `TypeInv` adds to `TypeOK` what the other proofs need of the log
  (`LogOK`): passes only go up along it, and a pass has one row per claim and
  file. That is the work of `ObservationsAre`: what a scan concatenates out of the
  rows of folders, files and tombstones is the set `Emitted`, and no id or key is
  twice in it (`EmittedKeys`); a known id is left out (`NewRowsAre`), so that ids
  stay unique, and where the log ends a pass ends (`GrownSettled`).
- `RenameSoundAlways` and `RenamesCompleteAlways`. A command reads the tombstones
  first and the arrivals later, and others append between the two. Both proofs
  rest on `Settled`, a part of `RunOK`: a read ends where a pass ends, so that
  whatever it sees of a pass it sees all of. `GoneOfPass` and `CameOfPass` say that
  the buckets `DetectRenames` counts are then what `Left` and `Came` say of the
  whole log, and `MovedStays` that later passes do not change what an earlier one
  moved. The second half of `RenameSound`, and `RenamesComplete`, are about
  moves of the only file with its content (`MovedAlone`: of all that the pass
  `Held`), and so say nothing of a file that had an equal beside it; finding 11
  is about those.
- `MembershipCurrentAlways` and `FindingsCurrentAlways`. `CalmInv` says that what a
  calm command has read is what the queries would give it now, and that it has
  folded the whole log. That the tables are right then needs `SeenInv`: the newest
  row of a file that is there has its content, although a view that lags or a
  known id may have kept an observation out of the log; the newest manifest
  observation agrees with the newest row of the file it was read from
  (`LatestManifestsAre`), although the two rows are appended or left out each by its
  own id; and a marked folder is in the log with the first file beneath it.
  `MatchBeneath` is about `Match`: the pattern a marker suggests matches all that is
  under the folder if the folder is `Plain`, that is, if each name on the way to
  it, taken as a pattern, matches itself. `*` and `**` do; finding 10 shows that the
  condition is needed.

Every property the passing runs check is the subject of a theorem, under the
conditions given with it, except `EveryRowProjected`: it is liveness under
fairness, which the prover does not reach.

## Findings

Three have a run, `restored`, `commit_order` and `git_capped`. The others are
reached by the instance given with them, which is that of a passing run with the
constants named changed.

1. *A restored file stays absent* (`restored`). `KnownState` reads present rows
   only (`store.go:162`), so a file that was deleted, tombstoned and restored
   with its modification time is observed with `priorSeq` 0, derives the id of
   its first observation and is dropped by `ON CONFLICT DO NOTHING`, on every
   later scan again. So is one that is created anew and then given the
   modification time of a version it had. `envelope.go:132-138` describes this
   failure for edits and says that `priorSeq` rules it out.
2. *The cursor is not in walk order* (`MCScan`, `Crossed = TRUE`, `MaxEdits = 0`;
   `CursorCovers`). `WalkDir` orders by path component, `rel <= opts.Cursor` by
   string: with `a/b` and `a.txt` a resumed scan passes over `a.txt`, which
   nobody has emitted.
3. *The projector passes rows over on PostgreSQL* (`commit_order`): `seq > last`
   skips rows whose transaction commits after one with larger seqs.
4. *A rebuild can be undone by a fold beside it* (`MCProjection`, two processes,
   `Commands = {"scan", "rebuild"}`; `QuietReflected`): `ClearProjection` and the
   following read of `last_seq` are three transactions.
5. *A pass resolves what it has detected* (`MCFindings`, two detectors;
   `PassAgrees`): of two overlapping passes the one that began first writes an
   older `last_seen_at` over the other's, which then resolves the finding
   (`store/findings.go:122` and `:163`). The next pass reopens it, without its
   acknowledgement.
6. *A disposition can be lost on PostgreSQL* (`MCFindings`,
   `Engine = "postgres"`; `DispositionStands`): `UpsertFinding` writes back the
   status it has read, and its SELECT takes no lock.
7. *A capped git walk loses history* (`git_capped`): git applies `--max-count`
   before `--reverse`, so the newest commits are emitted, the cursor is put
   behind them, and `--resume`, which the printed detail advises, never gets to
   the older ones (`git.go:88`; `git.go:59`, `cmd/gyst/git.go:85`).
8. *Two senders with a source of one name* (`MCBundles`, `SameName = TRUE`,
   `Hands <- MCHandsCollide`, and to find it soon `ScanLevels = {"facility"}`,
   `MaxObs = 1`, `MaxKeys = 1`, `MaxExports = 2`; `NoneLost`): `Namespace` renames the
   source of an observation but keeps its id, which the sender derived from its own
   name of the source; of two equal observations of two senders the second is
   dropped.
9. *A stale tombstone outlives a file* (`MCScan_two.cfg` with `MayFail = FALSE`,
   `MaxEdits = 2`, `MaxPasses = 4` and the PROPERTY `CalmPassIsAccurate`). One scanner
   reads the known state and walks while a file is gone; the file is created
   anew, and another scanner, which had read an empty known state, appends it with
   `priorSeq` 0; then the first appends its tombstone. Every later scan finds no
   present row, derives with `priorSeq` 0 the id of that observation again, and
   `Append` drops it: the file stays absent until it is changed. Nothing holds
   two scans of one source apart (`cmdScan` takes no lock).
10. *A folder name is read as a pattern* (`MCInference`, with the folder named
   `p[1]`, `Accepts["p[1]"] = {"p1"}` and `Plain` left out of `ProjectsAreCurrent`;
   `MembershipCurrent`). `ResolveProjects` writes the folder in front of `/**`
   (`membership.go:144`), and `Resolve` in front of a manifest's patterns
   (`manifest.go:130`), unescaped; `path.Match` takes `[1]` for a class. The pattern
   `p[1]/**` matches `p1/x` and nothing under `p[1]`, so a project marked or declared
   there has no files, although "the manifest's own folder is assumed"
   (`manifest.go:77`).
11. *A move is called although an equal file stayed* (`MCInference`, with
   `MovedAlone` for `Moved` in the first conjunct of `RenameSound`). "If two files
   already hold identical bytes, deleting one and adding a third elsewhere gives no
   basis for choosing which moved" (`rename.go:70-71`; `rename_test.go:68-70`). `pair`
   counts what has gone and what has come with a digest (`rename.go:135`); the
   original that is still there is in neither bucket, and the move is stored.
12. *Two passes run at once on PostgreSQL* (`MCScan_two.cfg` with
   `Engine = "postgres"`; `OneRunningPass`). `BeginPass` is an UPDATE and an INSERT
   in a READ COMMITTED transaction (`passes.go:83-98`): of two that overlap neither
   sees the row of the other, and neither pass is concluded interrupted.
13. *A bundle hands on what was imported* (`MCBundles`, `Process = {"p", "q"}`;
   `Attributed`). An export reads which sources are imported at `transfer.go:30` and
   their rows at `transfer.go:61-65`, in no transaction; an import that has registered a
   source, and marks it and appends to it between the two, has its rows signed by this
   Gyst, which did not observe them (`transfer.go:24-27`: imported sources are
   excluded by default, because attribution would be lost).
14. *Rows of one sender under two keys* (`MCBundles`, `Process = {"p", "q"}`,
   `Hands <- MCHandsPair`, `ScanLevels = {"facility"}`, `MaxExports = 2`; `OneKey`).
   `TrustedKeyOf` finds nothing (`transfer.go:106`); another import or `gyst trust add`
   records another key; `TrustKey` then does nothing (`store/bundles.go:22-24`), and the
   import goes on under its own key, which `ErrKeyChanged` would have refused.

Read in the code, and not of a kind a run could settle:

- A file moved back to where it was is no arrival (`Arrivals` asks for
  a first observation), so its way back is not called; `Renames` says the same.
- Relations are never taken back: candidates that were edited since are still
  offered as matching (`findings.go:258`), which `FindingsCurrent` does not deny,
  and those of an identity policy no longer active count too.
- `LatestMarkers` and `FindPresentFile` match with LIKE, for which `_` and `%` in
  a folder name are wildcards (`store/projects.go:65`, `store/files.go:72`). The first
  is modelled (`Beneath`, `Alike`): a marked folder with nothing in it may count as
  being there because of a file that is elsewhere. The second is not.
- A group whose greatest number two members share marks either one current
  (`rankMembers` sorts unstably; `Orders`, `Tied`).
- A commit collected by git leaves a cursor with which every `--resume` fails
  until a full run (`DiscoverFails`). Paths that begin with a dot are never
  reconciled (`reconcile.go:101`; `Dotted`).
- `authority.Project` and `ProjectMembership` replace whole tables from reads of
  other transactions: the slower of two commands may write the older answer.
  `calm` restricts the properties to commands nobody disturbed.
- `identity apply` does not project authority again, and `identity verify` leaves
  the last profile it tried active.
- A sender that exports one source at two levels to one receiver hands it rows
  out of their order. `bundles` has one level of export.

## Not modelled

- location probing: what the operating system says of a mount, and a table;
- the report and the commands that only read: no state of their own;
- the rules `source-stale`, `-interrupted`, `-unavailable` of `findings.go`, which
  compare the newest pass with a clock;
- `PruneScanPasses`: a SELECT and DELETEs of at most 500 passes each, which keep the
  newest of a source and its first; of passes only the newest is read again;
- folder markers that are removed (`Marked` is constant in `Inference`);
- renames over imported sources, where `last_known_seq` of a tombstone is a seq of
  the sender's log and is looked up in the receiver's (`store/relations.go:161-211`);
- opening and migrating a database, placeholders of SQL, formats (YAML, JSON,
  HTML), signatures, which are taken to hold exactly when nothing was altered;
- symlinks and cloud placeholders in a folder, sources nested in each other.
