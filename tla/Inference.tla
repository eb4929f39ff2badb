----------------------------- MODULE Inference -----------------------------
(***************************************************************************)
(* What a command infers after it has appended: the tail of gyst scan      *)
(* (cmd/gyst/main.go) and gyst import, which is Apply, ProjectRenames,     *)
(* ProjectMembership and findings.Project.  Each reads the log and the     *)
(* tables of the one before it in several queries and writes in a          *)
(* transaction of its own; commands overlap and are killed between any two *)
(* of those.  The walk before it is module Scan's: here a pass sees the    *)
(* tree as it is, and knows of files what the view says of them.           *)
(***************************************************************************)
EXTENDS Renames, Membership, Filters

CONSTANTS
  ContentOf,  \* per locator: the contents it may have; a content is its digest
  Gone,       \* no content: the file is not there
  Marked,     \* folders that carry a native marker
  OldMarked,  \* vendored folders an older scanner has recorded as marked
  Alike,      \* external: folders, each with a file not beneath it that LIKE takes for one
  Process,    \* processes that scan
  Trees,      \* bound: what the first pass may find
  MaxPasses,  \* bound: passes
  MaxChanged  \* bound: files that change between two passes

Locator == ToSet(LocOrder)

Content == UNION {ContentOf[l] : l \in Locator}

ASSUME InferenceAssumption ==
  /\ Gone \notin Content
  /\ LocOrder \in Seq(Locator)
  /\ \A i, j \in DOMAIN LocOrder : LocOrder[i] = LocOrder[j] => i = j
  /\ \A l \in Locator : l \in Seq(STRING) /\ l # <<>>
  /\ IsFiniteSet(Marked)
  /\ \A d \in Marked \cup OldMarked : d \in Seq(STRING) /\ d \notin Locator
  /\ \A d \in Marked : ~ Vendored(d)
  /\ \A t \in Trees : /\ DOMAIN t \subseteq Locator
                      /\ \A l \in DOMAIN t : t[l] \in ContentOf[l] \cup {Gone}
  /\ MaxCandidates \in Nat \ {0} /\ MaxPasses \in Nat /\ MaxChanged \in Nat

VARIABLES
  disk,       \* per locator: its content and the pass that found it changed
  log,        \* the observations
  applied,    \* projector_state.last_seq: the view is the fold of the log up to it
  passes,     \* passes made
  relations,  \* renamed-from and compare-set-with
  projects,   \* file_projects
  findings,   \* what the last detection found
  run,        \* the command of a process: its step, and what its reads saw
  from,       \* history: the length of the log as the command has left it
  calm        \* history: nothing was appended or folded since by another one

history == <<from, calm>>
vars == <<disk, log, applied, passes, relations, projects, findings, run, history>>

Idle == [pc |-> "idle"]

(***************************************************************************)
(* The view: current_files after the rows up to n.                         *)
(***************************************************************************)
StateRows(n, l) ==
  {i \in 1 .. n : log[i].loc = l /\ log[i].claim \in {"file", "absent"}}

Latest(n, l) == CHOOSE i \in StateRows(n, l) : \A j \in StateRows(n, l) : j <= i

Present(n) == {l \in Locator : StateRows(n, l) # {} /\ ~ Absent(log[Latest(n, l)])}

DigestOf(n, l) == log[Latest(n, l)].dig

(***************************************************************************)
(* A pass.                                                                 *)
(***************************************************************************)
Known(l) == IF l \in Present(applied) THEN Latest(applied, l) ELSE 0

\* found is the disk of the pass.  id is what DeriveID and TombstoneID hash.
Row(claim, l, found, prior) ==
  [claim |-> claim, loc |-> l, dig |-> found[l].dig, prior |-> prior,
   pass |-> passes + 1, id |-> <<claim, l, found[l].at, prior>>]

Tombstone(l) ==
  [claim |-> "absent", loc |-> l, dig |-> Gone, prior |-> Known(l),
   pass |-> passes + 1, id |-> <<"absent", l, 0, Known(l)>>]

FolderRow(dir) ==
  [claim |-> "folder", loc |-> dir, dig |-> Gone, prior |-> 0,
   pass |-> passes + 1, id |-> <<"folder", dir, 0, 0>>]

\* A manifest is read again even when it has not changed.
FileRows(found, l) ==
  IF found[l].dig = Gone THEN <<>>
  ELSE (IF Known(l) # 0 /\ log[Known(l)].id[3] = found[l].at THEN <<>>
        ELSE <<Row("file", l, found, Known(l))>>)
    \o (IF IsManifest(l) THEN <<Row("manifest", l, found, Known(l))>> ELSE <<>>)

\* Marked folders there are: those with a file beneath.
Seen(found) ==
  {d \in Marked : \E l \in Locator : found[l].dig # Gone /\ IsPrefix(d, l)}

Observations(found) ==
  LET walked == [i \in DOMAIN LocOrder |-> FileRows(found, LocOrder[i])]
      gone == Pick(LocOrder, {i \in DOMAIN LocOrder : Known(LocOrder[i]) # 0
                                                     /\ found[LocOrder[i]].dig = Gone})
  IN  FlattenSeq(<<[i \in 1 .. Cardinality(Seen(found)) |->
                      FolderRow(SetToSeq(Seen(found))[i])]>> \o walked)
        \o [i \in DOMAIN gone |-> Tombstone(gone[i])]

\* Mutant: nothing collides.
NewRows_All(rows) == rows

NewRows(rows) == Pick(rows, {k \in DOMAIN rows : \A i \in DOMAIN log : log[i].id # rows[k].id})

\* What may have changed since the last pass.
Edits ==
  IF passes = 0 THEN Trees
  ELSE UNION {{edit \in [S -> Content \cup {Gone}] :
                 \A l \in S : edit[l] \in (IF disk[l].dig = Gone THEN ContentOf[l]
                                           ELSE ContentOf[l] \cup {Gone})} :
              S \in {S \in SUBSET Locator : Cardinality(S) <= MaxChanged}}

Found(edit) ==
  [l \in Locator |-> IF l \in DOMAIN edit THEN [dig |-> edit[l], at |-> passes + 1]
                                          ELSE disk[l]]

tables == <<relations, projects, findings>>

\* A command of p begins its tail with a log of n rows, those of its own included.
Begin(p, n) ==
  /\ run' = [run EXCEPT ![p] = [pc |-> "apply"]]
  /\ from' = [from EXCEPT ![p] = n]

\* The walk and the append of a scan.
Scan(p) ==
  /\ run[p].pc = "idle"
  /\ passes < MaxPasses
  /\ \E edit \in Edits :
       LET new == NewRows(Observations(Found(edit)))
       IN  /\ disk' = Found(edit)
           /\ log' = log \o new
           /\ Begin(p, Len(log) + Len(new))
  /\ calm' = [q \in Process |-> q = p]
  /\ passes' = passes + 1
  /\ UNCHANGED <<applied, tables>>

\* A step of p that only moves on, with what it has read.
Goto(p, step) ==
  /\ run' = [run EXCEPT ![p] = step]
  /\ UNCHANGED history

Stop(p) ==
  /\ run' = [run EXCEPT ![p] = Idle]
  /\ from' = [from EXCEPT ![p] = 0]
  /\ calm' = [calm EXCEPT ![p] = FALSE]

\* gyst import of a bundle that was imported before, or brings rows of other
\* sources only: of these locators it has nothing new.  Bound: after the last pass.
Import(p) ==
  /\ run[p].pc = "idle"
  /\ passes = MaxPasses
  /\ Begin(p, Len(log))
  /\ calm' = [calm EXCEPT ![p] = TRUE]
  /\ UNCHANGED <<disk, log, applied, passes, tables>>

Apply(p) ==
  /\ run[p].pc = "apply"
  /\ applied' = Len(log)
  /\ run' = [run EXCEPT ![p] = [pc |-> "gone"]]
  /\ calm' = [q \in Process |-> calm[q] /\ (q = p \/ applied' = applied)]
  /\ UNCHANGED <<disk, log, passes, tables, from>>

(***************************************************************************)
(* ProjectRenames.  Of a read it is enough to keep how long the log was.   *)
(***************************************************************************)
Rows(n) == SubSeq(log, 1, n)

\* Without a tombstone the arrivals are not read.
ReadTombstones(p) ==
  /\ run[p].pc = "gone"
  /\ Goto(p, IF Tombstones(log) = {} THEN [pc |-> "manifests"]
             ELSE [pc |-> "arrived", gone |-> Len(log)])
  /\ UNCHANGED <<disk, log, applied, passes, tables>>

ReadArrivals(p) ==
  /\ run[p].pc = "arrived"
  /\ Goto(p, [pc |-> "insert", gone |-> run[p].gone, arrived |-> Len(log)])
  /\ UNCHANGED <<disk, log, applied, passes, tables>>

\* A relation that is there already is left alone, none is ever taken back.
InsertRelations(p) ==
  LET gone == Tombstones(Rows(run[p].gone))
  IN  /\ run[p].pc = "insert"
      /\ relations' = relations \cup DetectRenames(gone, Arrivals(Rows(run[p].arrived)))
      /\ Goto(p, [pc |-> "manifests"])
      /\ UNCHANGED <<disk, log, applied, passes, projects, findings>>

(***************************************************************************)
(* ProjectMembership.                                                      *)
(***************************************************************************)
Newest(claim) ==
  {i \in DOMAIN log : /\ log[i].claim = claim
                      /\ \A j \in i + 1 .. Len(log) :
                           log[j].claim = claim => log[j].loc # log[i].loc}

\* Mutant: the manifest need not be there any more.
LatestManifests_Gone == {[loc |-> log[i].loc, dig |-> log[i].dig] : i \in Newest("manifest")}

\* The newest manifest observation of every manifest that is present.
LatestManifests ==
  {[loc |-> log[i].loc, dig |-> log[i].dig] :
     i \in {i \in Newest("manifest") : log[i].loc \in Present(applied)}}

\* Folders get no tombstones: one with nothing present beneath it is gone.  What
\* is beneath it is asked of LIKE, for which "_" and "%" in its name are wildcards,
\* and on SQLite upper case is lower case.
Beneath(dir, l) == IsStrictPrefix(dir, l) \/ <<dir, l>> \in Alike

LatestMarkers ==
  {log[i].loc : i \in {i \in Newest("folder") :
     log[i].loc = <<>> \/ \E l \in Present(applied) : Beneath(log[i].loc, l)}}

ReadManifests(p) ==
  /\ run[p].pc = "manifests"
  /\ Goto(p, [pc |-> "markers", manifests |-> LatestManifests])
  /\ UNCHANGED <<disk, log, applied, passes, tables>>

ReadMarkers(p) ==
  /\ run[p].pc = "markers"
  /\ Goto(p, [pc |-> "members", plan |-> ResolveProjects(run[p].manifests, LatestMarkers)])
  /\ UNCHANGED <<disk, log, applied, passes, tables>>

ReadMembers(p) ==
  /\ run[p].pc = "members"
  /\ Goto(p, [pc |-> "replace", rows |-> FileProjects(run[p].plan, Present(applied))])
  /\ UNCHANGED <<disk, log, applied, passes, tables>>

ReplaceProjects(p) ==
  /\ run[p].pc = "replace"
  /\ projects' = run[p].rows
  /\ Goto(p, [pc |-> "files"])
  /\ UNCHANGED <<disk, log, applied, passes, relations, findings>>

(***************************************************************************)
(* findings.Project, up to what it does with what it finds (Findings).     *)
(***************************************************************************)
\* Mutant: files nobody reads are compared by their missing digests.
Duplicates_Blank(files) ==
  {[rule |-> "duplicate-content", key |-> d] :
     d \in {d \in Content : Cardinality({l \in files : DigestOf(applied, l) = d
                                                        /\ ~ Vendored(l)}) > 1}}

Duplicates(files) ==
  {[rule |-> "duplicate-content", key |-> d] :
     d \in {d \in Content \ Blank : Cardinality({l \in files : DigestOf(applied, l) = d
                                                               /\ ~ Vendored(l)}) > 1}}

\* Candidates of a file that is gone, still offered by any pass: gone itself,
\* they present.
Candidates(old) ==
  {r.new : r \in {r \in relations : r.type = "compare-set-with" /\ r.old = old}}
    \cap Present(applied)

Ambiguous ==
  {[rule |-> "ambiguous-origin", key |-> {old} \cup Candidates(old)] :
     old \in {old \in Locator \ Present(applied) : Cardinality(Candidates(old)) > 1}}

BadManifests ==
  {[rule |-> "manifest-invalid", key |-> m.loc] :
     m \in {m \in LatestManifests : ~ ManifestOf[m.dig].valid}}

ReadFiles(p) ==
  /\ run[p].pc = "files"
  /\ Goto(p, [pc |-> "ambiguous", found |-> Duplicates(Present(applied))])
  /\ UNCHANGED <<disk, log, applied, passes, tables>>

ReadAmbiguities(p) ==
  /\ run[p].pc = "ambiguous"
  /\ Goto(p, [pc |-> "invalid", found |-> run[p].found \cup Ambiguous])
  /\ UNCHANGED <<disk, log, applied, passes, tables>>

ReadInvalid(p) ==
  /\ run[p].pc = "invalid"
  /\ Goto(p, [pc |-> "detect", found |-> run[p].found \cup BadManifests])
  /\ UNCHANGED <<disk, log, applied, passes, tables>>

Detect(p) ==
  /\ run[p].pc = "detect"
  /\ findings' = run[p].found
  /\ Stop(p)
  /\ UNCHANGED <<disk, log, applied, passes, relations, projects>>

\* A kill, or an error, which ends the command: what it wrote stays.
Abandon(p) ==
  /\ run[p].pc # "idle"
  /\ Stop(p)
  /\ UNCHANGED <<disk, log, applied, passes, tables>>

Init ==
  /\ disk = [l \in Locator |-> [dig |-> Gone, at |-> 0]]
  /\ log \in {<<[claim |-> "folder", loc |-> d, dig |-> Gone, prior |-> 0,
                 pass |-> 0, id |-> <<"folder", d, 0, 0>>]>> : d \in OldMarked}
  /\ applied = 0 /\ passes = 0
  /\ relations = {} /\ projects = {} /\ findings = {}
  /\ run = [p \in Process |-> Idle]
  /\ from = [p \in Process |-> 0]
  /\ calm = [p \in Process |-> FALSE]

Next ==
  \E p \in Process :
    \/ Scan(p) \/ Import(p) \/ Apply(p)
    \/ ReadTombstones(p) \/ ReadArrivals(p) \/ InsertRelations(p)
    \/ ReadManifests(p) \/ ReadMarkers(p) \/ ReadMembers(p) \/ ReplaceProjects(p)
    \/ ReadFiles(p) \/ ReadAmbiguities(p) \/ ReadInvalid(p) \/ Detect(p)
    \/ Abandon(p)

Spec == Init /\ [][Next]_vars

-----------------------------------------------------------------------------
(***************************************************************************)
(* Properties.                                                             *)
(***************************************************************************)
\* The tables are well typed, and speak of nothing the log does not have.
TypeOK ==
  /\ disk \in [Locator -> [dig : Content \cup {Gone}, at : 0 .. passes]]
  /\ \A i, j \in DOMAIN log : log[i].id = log[j].id => i = j
  /\ \A i \in DOMAIN log :
       /\ log[i].pass \in 0 .. passes
       /\ Absent(log[i]) => /\ log[i].prior \in 1 .. i - 1
                            /\ log[log[i].prior].claim = "file"
                            /\ log[log[i].prior].loc = log[i].loc
  /\ applied \in 0 .. Len(log)
  /\ relations \subseteq [type : {"renamed-from", "compare-set-with"},
                          new : Locator, old : Locator, pass : 1 .. passes]
  /\ \A m \in projects : m.loc \in Locator /\ m.basis \in {"manifest", "native-marker"}
  /\ \A f \in findings :
       f.rule \in {"duplicate-content", "ambiguous-origin", "manifest-invalid"}

\* Rows of a pass that say a content has gone from a place, or come to a new one.
Left(pass, d) ==
  {log[i].loc : i \in {i \in DOMAIN log :
     log[i].pass = pass /\ Absent(log[i]) /\ log[log[i].prior].dig = d}}

Came(pass, d) ==
  {l \in Locator : \E i \in DOMAIN log :
     /\ log[i].pass = pass /\ log[i].claim = "file" /\ log[i].loc = l /\ log[i].dig = d
     /\ \A j \in 1 .. i - 1 : log[j].loc = l => Absent(log[j])}

\* Old was renamed to new in the pass, as far as content can tell.
Moved(pass, old, new) ==
  \E d \in Content \ Blank : Left(pass, d) = {old} /\ Came(pass, d) = {new}

\* Files that have a content once the pass is in the log.
Held(pass, d) ==
  {l \in Locator : \E i \in DOMAIN log :
     /\ log[i].loc = l /\ log[i].claim = "file" /\ log[i].dig = d /\ log[i].pass <= pass
     /\ \A j \in i + 1 .. Len(log) :
          log[j].loc = l /\ log[j].claim \in {"file", "absent"} => log[j].pass > pass}

\* And no third file has that content, which could as well be the origin of the
\* new one (rename.go:69-71, "duplicated content").
MovedAlone(pass, old, new) ==
  \E d \in Content \ Blank :
    Left(pass, d) = {old} /\ Came(pass, d) = {new} /\ Held(pass, d) \subseteq {new}

\* A rename is never called where the content that left and came in the pass does
\* not single out both ends: not for empty files, not for an edit, not among
\* several gone or several arrived, not across passes.  And a move of the only
\* file with a content is never offered as a mere candidate.  Whatever was in the
\* log when the tombstones were read and when the arrivals were.  Nothing is
\* said of a move beside a third file that stays: rename.go:69-71 wants it
\* refused, rename.go:135 calls it.
RenameSound ==
  \A r \in relations :
    /\ r.type = "renamed-from" => Moved(r.pass, r.old, r.new)
    /\ MovedAlone(r.pass, r.old, r.new) => r.type = "renamed-from"

\* A command that gets past its renames has stored one for every move of the only
\* file with a content in the log it began with, those too that killed commands
\* have left behind.
RenamesComplete ==
  [][\A p \in Process :
       run[p].pc \in {"gone", "insert"} /\ run'[p].pc = "manifests" =>
         \A i \in 1 .. from[p], old, new \in Locator :
           MovedAlone(log[i].pass, old, new) =>
             [type |-> "renamed-from", new |-> new, old |-> old, pass |-> log[i].pass]
               \in relations']_vars

\* What a person sees in the tree the view describes: the manifest of a folder.
ManifestIn(dir) ==
  LET l == dir \o <<Manifest>>
  IN  IF l \in Present(applied) THEN DigestOf(applied, l) ELSE Gone

Speaks(dir) == ManifestIn(dir) # Gone /\ ManifestOf[ManifestIn(dir)].valid

\* Folders whose name, taken for a pattern, matches itself: not those with a "["
\* in it, which no file beneath them matches.
Plain(dir) == \A i \in DOMAIN dir : dir[i] = "**" \/ dir[i] \in Accepts[dir[i]]

\* Rows that a person would write in the tree that the view describes.
ProjectsAreCurrent(rows) ==
  /\ \A m \in rows :
       /\ m.loc \in Present(applied)
       /\ m.basis = "manifest" =>
            \E l \in Locator : IsManifest(l) /\ Speaks(Dir(l))
                                 /\ ManifestOf[ManifestIn(Dir(l))].id = m.project
       /\ m.basis = "native-marker" => ~ Speaks(m.project[2]) /\ ~ Vendored(m.project[2])
  /\ \A dir \in Marked, l \in Present(applied) :
       IsPrefix(dir, l) /\ Plain(dir) /\ ~ Speaks(dir) =>
         [loc |-> l, project |-> <<"mark", dir>>, basis |-> "native-marker"] \in rows

\* When nothing was appended or folded meanwhile, ProjectMembership leaves no
\* row of a manifest that has been deleted, changed or broken, or of a folder that
\* has emptied (membership.go: "the output must never carry a stale row"), and
\* a file of a marked folder is in a project: that of the manifest where there is
\* a valid one, else the one the marker suggests, if the folder's name is plain.
MembershipCurrent ==
  [][\A p \in Process :
       run[p].pc = "replace" /\ run'[p].pc = "files" /\ calm[p] =>
         ProjectsAreCurrent(projects')]_vars

\* Findings that a person would have in the tree that the view describes.
FindingsAreCurrent(found) ==
  /\ \A d \in Content :
       [rule |-> "duplicate-content", key |-> d] \in found <=>
         /\ d \notin Blank
         /\ \E k, l \in Present(applied) :
              /\ k # l /\ DigestOf(applied, k) = d /\ DigestOf(applied, l) = d
              /\ ~ Vendored(k) /\ ~ Vendored(l)
  /\ \A l \in Locator :
       [rule |-> "manifest-invalid", key |-> l] \in found <=>
         IsManifest(l) /\ ManifestIn(Dir(l)) # Gone /\ ~ Speaks(Dir(l))
  /\ \A f \in found : f.rule = "ambiguous-origin" =>
       Cardinality(f.key \ Present(applied)) = 1 /\ Cardinality(f.key) > 2

\* When nothing was appended or folded meanwhile, detection finds of the present
\* files every content that is there twice and identifies something, and only
\* those; every present manifest that does not parse; and asks about a file only
\* while it is gone and at least two files it may have gone to are there.
FindingsCurrent ==
  [][\A p \in Process :
       run[p].pc = "detect" /\ findings' = run[p].found /\ calm[p] =>
         FindingsAreCurrent(findings')]_vars
=============================================================================
