-------------------------------- MODULE Git --------------------------------
(***************************************************************************)
(* History as observations: the command gyst git (cmd/gyst/git.go) over    *)
(* internal/connector/git, and the reconciliation of commits with scanned  *)
(* files (internal/project/reconcile.go, internal/store/commits.go).       *)
(*                                                                         *)
(* One repository is one source.  Its commits are numbers in the order of  *)
(* their dates, which is the order git log lists them in.  People commit,  *)
(* merge, reset and rebase while commands walk; a commit no ref reaches    *)
(* may be collected.  A command's statements are separate transactions and *)
(* it may be killed between them.                                          *)
(***************************************************************************)
EXTENDS Naturals, Sequences, FiniteSets

CONSTANTS
  Commit,       \* commits there may ever be: numbers, by date
  Parents,      \* the parents of a commit; a merge has more than one
  Touches,      \* the paths a commit changes
  Ref,          \* refs of the repository
  File,         \* files scanning sources may hold
  PathOf,       \* the resolved filesystem path of a file
  Dotted,       \* files whose locator starts with a dot
  Cap,          \* values of --max-commits commands are given
  Process,      \* processes that run gyst git
  MaxCommands,  \* bound: commands run
  MaxMoves,     \* bound: refs moved
  MaxEdits      \* bound: files that appear or go

ASSUME GitAssumption ==
  /\ Commit \subseteq Nat \ {0} /\ IsFiniteSet(Commit)
  /\ Parents \in [Commit -> SUBSET Commit]
  /\ \A c \in Commit : \A p \in Parents[c] : p < c
  /\ Cap \subseteq Nat \ {0}
  /\ Dotted \subseteq File
  /\ MaxCommands \in Nat /\ MaxMoves \in Nat /\ MaxEdits \in Nat

None == 0  \* no commit: an unborn ref, an empty cursor

VARIABLES
  objects,   \* commits the repository holds
  refs,      \* what each ref points at
  present,   \* files current_files holds as present
  log,       \* commits there is a git.commit observation of
  cursor,    \* source_cursors: the last commit a walk emitted
  passes,    \* scan_passes; head and cut are what the walk of the pass saw
  commits,   \* the table commits
  contains,  \* relations from a commit to a file it changed
  run,       \* the command a process runs
  moves, edits  \* counters of MaxMoves and MaxEdits

repoVars  == <<objects, refs, moves>>
fileVars  == <<present, edits>>
storeVars == <<log, cursor, passes>>
tableVars == <<commits, contains>>
vars == <<repoVars, fileVars, storeVars, tableVars, run>>

Idle == [pc |-> "idle"]

Init ==
  /\ objects = {}
  /\ refs = [r \in Ref |-> None]
  /\ present \in SUBSET File
  /\ log = {} /\ cursor = None /\ passes = <<>>
  /\ commits = {} /\ contains = {}
  /\ run = [p \in Process |-> Idle]
  /\ moves = 0 /\ edits = 0

(***************************************************************************)
(* The repository and the scanned tree.                                    *)
(***************************************************************************)
Closed == {S \in SUBSET Commit : \A c \in S : Parents[c] \subseteq S}

\* A commit and its ancestors: what is in every set of commits and their parents
\* that it is in.
Reach(c) == {d \in Commit : c # None /\ \A S \in Closed : c \in S => d \in S}

\* Commit, merge, reset, rebase, push: a ref comes to point at some commit.
Move(r, c) ==
  /\ moves < MaxMoves
  /\ refs' = [refs EXCEPT ![r] = c]
  /\ objects' = objects \cup Reach(c)
  /\ moves' = moves + 1
  /\ UNCHANGED <<fileVars, storeVars, tableVars, run>>

Collect ==
  /\ objects' = UNION {Reach(refs[r]) : r \in Ref}
  /\ objects' # objects
  /\ UNCHANGED <<refs, moves, fileVars, storeVars, tableVars, run>>

\* A scan projects a file as present, or as gone.
Scanned(f) ==
  /\ edits < MaxEdits
  /\ present' = IF f \in present THEN present \ {f} ELSE present \cup {f}
  /\ edits' = edits + 1
  /\ run' = [p \in Process |->
       IF run[p].pc = "idle" THEN run[p]
       ELSE [run[p] EXCEPT !.steady = @ \ {f}]]
  /\ UNCHANGED <<repoVars, storeVars, tableVars>>

(***************************************************************************)
(* The walk.                                                               *)
(***************************************************************************)
\* Mutant: merges are listed too.
Listed_Merges(from, head) == Reach(head) \ Reach(from)

\* git log --no-merges ref, or cursor..ref.
Listed(from, head) ==
  {c \in Reach(head) \ Reach(from) : Cardinality(Parents[c]) < 2}

\* --max-count takes the newest; --reverse only puts them oldest first.
Walk(from, head, cap) ==
  LET all == Listed(from, head)
  IN  {c \in all : Cardinality({d \in all : d > c}) < cap}

Newest(S) == CHOOSE c \in S : \A d \in S : d <= c

\* RegisterSource and, with --resume, the read of the cursor.  steady (the
\* files present ever since) is there for the properties only.
Start(p, r, cap, resume) ==
  /\ run[p].pc = "idle"
  /\ Len(passes) + Cardinality({q \in Process : run[q].pc = "begin"}) < MaxCommands
  /\ run' = [run EXCEPT ![p] =
       [pc |-> "begin", ref |-> r, cap |-> cap, resume |-> resume,
        cursor |-> IF resume THEN cursor ELSE None, pass |-> 0, emitted |-> {},
        steady |-> present \ Dotted, due |-> {}]]
  /\ UNCHANGED <<repoVars, fileVars, storeVars, tableVars>>

BeginPass(p) ==
  /\ run[p].pc = "begin"
  /\ passes' = Append([k \in DOMAIN passes |->
                         IF passes[k].status = "running"
                         THEN [passes[k] EXCEPT !.status = "interrupted"]
                         ELSE passes[k]],
                      [status |-> "running", head |-> None, cut |-> FALSE])
  /\ run' = [run EXCEPT ![p].pc = "walk", ![p].pass = Len(passes')]
  /\ UNCHANGED <<repoVars, fileVars, log, cursor, tableVars>>

\* git cannot resolve the ref, or the cursor is a commit it no longer has.
DiscoverFails(p) ==
  /\ run[p].pc = "walk"
  /\ \/ refs[run[p].ref] = None
     \/ run[p].cursor \notin objects \cup {None}
  /\ passes' = [passes EXCEPT ![run[p].pass].status = "interrupted"]
  /\ run' = [run EXCEPT ![p] = Idle]
  /\ UNCHANGED <<repoVars, fileVars, log, cursor, tableVars>>

\* Mutant: the cursor is put down as soon as the walk has ended.
Discover_SetsCursor(p) ==
  LET head == refs[run[p].ref]
      emitted == Walk(run[p].cursor, head, run[p].cap)
  IN  /\ run[p].pc = "walk"
      /\ head # None
      /\ run[p].cursor \in objects \cup {None}
      /\ run' = [run EXCEPT ![p].pc = "append", ![p].emitted = emitted]
      /\ cursor' = IF emitted = {} THEN cursor ELSE Newest(emitted)
      /\ passes' = [passes EXCEPT
           ![run[p].pass].head = head, ![run[p].pass].cut = Cardinality(emitted) >= run[p].cap]
      /\ UNCHANGED <<repoVars, fileVars, log, tableVars>>

Discover(p) ==
  LET head == refs[run[p].ref]
      emitted == Walk(run[p].cursor, head, run[p].cap)
  IN  /\ run[p].pc = "walk"
      /\ head # None
      /\ run[p].cursor \in objects \cup {None}
      /\ run' = [run EXCEPT ![p].pc = "append", ![p].emitted = emitted]
      /\ passes' = [passes EXCEPT
           ![run[p].pass].head = head, ![run[p].pass].cut = Cardinality(emitted) >= run[p].cap]
      /\ UNCHANGED <<repoVars, fileVars, log, cursor, tableVars>>

(***************************************************************************)
(* The store.                                                              *)
(***************************************************************************)
\* A commit's id hashes its object id alone: observed again, it is dropped.
AppendCommits(p) ==
  /\ run[p].pc = "append"
  /\ log' = log \cup run[p].emitted
  /\ run' = [run EXCEPT ![p].pc = "cursor", ![p].due = log']
  /\ UNCHANGED <<repoVars, fileVars, cursor, passes, tableVars>>

NextCursor(w) == IF w.emitted = {} THEN w.cursor ELSE Newest(w.emitted)

SetCursor(p) ==
  /\ run[p].pc = "cursor"
  /\ cursor' = IF NextCursor(run[p]) = None THEN cursor ELSE NextCursor(run[p])
  /\ run' = [run EXCEPT ![p].pc = "finish"]
  /\ UNCHANGED <<repoVars, fileVars, log, passes, tableVars>>

\* Mutant: a resumed walk that reaches the head of the ref is complete.
Coverage_Resumed(w) == IF Cardinality(w.emitted) >= w.cap THEN "partial" ELSE "complete"

Coverage(w) ==
  IF Cardinality(w.emitted) >= w.cap \/ w.resume THEN "partial" ELSE "complete"

FinishPass(p) ==
  /\ run[p].pc = "finish"
  /\ passes' = [passes EXCEPT ![run[p].pass].status = Coverage(run[p])]
  /\ run' = [run EXCEPT ![p] =
       [pc |-> "read", rows |-> {}, files |-> {}, steady |-> @.steady, due |-> @.due]]
  /\ UNCHANGED <<repoVars, fileVars, log, cursor, tableVars>>

(***************************************************************************)
(* ProjectCommits.                                                         *)
(***************************************************************************)
CommitObservations(p) ==
  /\ run[p].pc = "read"
  /\ run' = [run EXCEPT ![p].pc = "files", ![p].rows = log]
  /\ UNCHANGED <<repoVars, fileVars, storeVars, tableVars>>

PresentFiles(p) ==
  /\ run[p].pc = "files"
  /\ run' = [run EXCEPT ![p].pc = "write", ![p].files = present]
  /\ UNCHANGED <<repoVars, fileVars, storeVars, tableVars>>

\* fileAtPath: the file found at a path, in whichever source is asked first.
FilesAt(files, path) == {f \in files \ Dotted : PathOf[f] = path}

Touch(rows) == {t \in rows \X UNION {Touches[c] : c \in rows} : t[2] \in Touches[t[1]]}

\* Mutant: commits of the table are not looked at again.
WriteCommits_New(p) ==
  LET w == run[p]
      found == {t \in Touch(w.rows \ commits) : FilesAt(w.files, t[2]) # {}}
  IN  /\ w.pc = "write"
      /\ commits' = commits \cup w.rows
      /\ \E at \in {g \in [found -> File] : \A t \in found : g[t] \in FilesAt(w.files, t[2])} :
           contains' = contains \cup {<<t[1], at[t]>> : t \in found}
      /\ run' = [run EXCEPT ![p] = Idle]
      /\ UNCHANGED <<repoVars, fileVars, storeVars>>

\* One transaction: commits are upserted, relations only ever added.
WriteCommits(p) ==
  LET w == run[p]
      found == {t \in Touch(w.rows) : FilesAt(w.files, t[2]) # {}}
  IN  /\ w.pc = "write"
      /\ commits' = commits \cup w.rows
      /\ \E at \in {g \in [found -> File] : \A t \in found : g[t] \in FilesAt(w.files, t[2])} :
           contains' = contains \cup {<<t[1], at[t]>> : t \in found}
      /\ run' = [run EXCEPT ![p] = Idle]
      /\ UNCHANGED <<repoVars, fileVars, storeVars>>

\* Append or SetCursor fails, and finishInterrupted says so.  An error of a later
\* statement leaves what a kill leaves.
WriteFails(p) ==
  /\ run[p].pc \in {"append", "cursor"}
  /\ passes' = [passes EXCEPT ![run[p].pass].status = "interrupted"]
  /\ run' = [run EXCEPT ![p] = Idle]
  /\ UNCHANGED <<repoVars, fileVars, log, cursor, tableVars>>

Crash(p) ==
  /\ run[p].pc # "idle"
  /\ run' = [run EXCEPT ![p] = Idle]
  /\ UNCHANGED <<repoVars, fileVars, storeVars, tableVars>>

Next ==
  \/ \E r \in Ref, c \in Commit : Move(r, c)
  \/ Collect
  \/ \E f \in File : Scanned(f)
  \/ \E p \in Process :
       \/ \E r \in Ref, cap \in Cap, resume \in BOOLEAN : Start(p, r, cap, resume)
       \/ BeginPass(p)
       \/ DiscoverFails(p)
       \/ Discover(p)
       \/ AppendCommits(p)
       \/ SetCursor(p)
       \/ FinishPass(p)
       \/ CommitObservations(p)
       \/ PresentFiles(p)
       \/ WriteCommits(p)
       \/ WriteFails(p)
       \/ Crash(p)

Spec == Init /\ [][Next]_vars

-----------------------------------------------------------------------------
(***************************************************************************)
(* Properties.                                                             *)
(***************************************************************************)
\* The repository holds what it holds with all ancestors, the tables are well
\* typed, a commit is in the table commits only when it is in the log, and no
\* merge is observed.
TypeOK ==
  /\ objects \subseteq Commit /\ refs \in [Ref -> Commit \cup {None}]
  /\ \A c \in objects : Parents[c] \subseteq objects
  /\ present \subseteq File
  /\ log \subseteq Commit
  /\ cursor \in log \cup {None}
  /\ commits \subseteq log
  /\ contains \subseteq commits \X (File \ Dotted)
  /\ \A c \in log : Cardinality(Parents[c]) < 2
  /\ \A k \in DOMAIN passes :
       passes[k] \in [status : {"running", "interrupted", "complete", "partial"},
                      head : Commit \cup {None}, cut : BOOLEAN]
  /\ \A p \in Process : run[p].pc \in {"walk", "append", "cursor", "finish"} => run[p].pass \in DOMAIN passes

Observed(c) == \A d \in Reach(c) : Cardinality(Parents[d]) < 2 => d \in log

\* A resumed walk leaves out what the cursor reaches (git.go, Cursor: "the last
\* commit already observed. Discovery resumes after it"), and never a commit
\* nobody has observed: while no walk has been cut short by its cap, all the
\* cursor reaches is in the log, whatever ref each command walked, however
\* history was rewritten under it, wherever commands were killed.
CursorCovers == (\A k \in DOMAIN passes : ~ passes[k].cut) => Observed(cursor)

\* The same without the restriction to walks that were not cut.
ResumeLosesNothing == Observed(cursor)

\* A pass that says complete, "walked to the end of history", has it all in the
\* log: every commit its ref reached when it looked.
CompleteSawAll ==
  \A k \in DOMAIN passes : passes[k].status = "complete" => Observed(passes[k].head)

\* A command that ends well leaves no commit unprojected that was in the log
\* when it appended its own, also those of commands killed before they got
\* there, and ties each to a file at every path it changed where one has been
\* present all along (reconcile.go, "Reconciliation is the point").
EndsReconciled ==
  [][\A p \in Process :
       run[p].pc = "write" /\ run'[p].pc = "idle" /\ tableVars' # tableVars =>
         /\ run[p].due \subseteq commits'
         /\ \A c \in run[p].due, path \in UNION {Touches[d] : d \in Commit} :
              path \in Touches[c] /\ FilesAt(run[p].steady, path) # {} =>
                \E f \in FilesAt(File, path) : <<c, f>> \in contains']_vars
=============================================================================
