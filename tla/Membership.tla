----------------------------- MODULE Membership -----------------------------
(***************************************************************************)
(* What project a file belongs to: internal/manifest, the part of          *)
(* internal/discover that says what is vendored, and ResolveProjects of    *)
(* internal/project/membership.go.                                         *)
(*                                                                         *)
(* A locator and a member pattern are sequences of segments.  The file     *)
(* .gyst/project.yaml is one segment.  A pattern that starts with "/" is   *)
(* rooted at the source; the folder of the root is <<>>.  The name of a    *)
(* folder becomes a segment of a pattern as it is, and may there mean      *)
(* something else: "[" and "?" are not escaped.                            *)
(***************************************************************************)
EXTENDS Naturals, Sequences, FiniteSets, SequencesExt

CONSTANTS
  ManifestOf,  \* what Parse makes of a manifest's content: [valid, id, members]
  Pruned,      \* names of dependency, build and version-control directories
  Accepts      \* external: per segment of a pattern, the names path.Match takes it for

Manifest == ".gyst/project.yaml"

IsManifest(loc) == Last(loc) = Manifest

Dir(loc) == Front(loc)

Vendored(loc) == \E i \in DOMAIN loc : loc[i] \in Pruned

Resolve(dir, pattern) ==
  IF Head(pattern) = "/" THEN Tail(pattern) ELSE dir \o pattern

\* Matched[i][j]: the pattern from i on matches the locator from j on.
Matched(pattern, loc) ==
  LET n == Len(pattern)
      k == Len(loc)
      matched[i \in 1 .. n + 1] ==
        [j \in 1 .. k + 1 |->
           IF i > n THEN j > k
           ELSE IF pattern[i] = "**"
           THEN IF i = n THEN j <= k ELSE \E q \in j .. k + 1 : matched[i + 1][q]
           ELSE j <= k /\ loc[j] \in Accepts[pattern[i]] /\ matched[i + 1][j + 1]]
  IN  matched

Match(pattern, loc) == pattern = <<"**">> \/ Matched(pattern, loc)[1][1]

\* The project of one manifest, and that of one marked folder.
Declared(loc, man) ==
  [id |-> man.id, basis |-> "manifest",
   patterns |-> {Resolve(Dir(loc), pattern) : pattern \in man.members}]

Suggested(dir) ==
  [id |-> <<"mark", dir>>, basis |-> "native-marker", patterns |-> {dir \o <<"**">>}]

\* Valid manifests declare, those of one id together; a marked folder without
\* a valid manifest of its own suggests.
ResolveProjects(manifests, markers) ==
  LET valid == {m \in manifests : ManifestOf[m.dig].valid}
  IN  {Declared(m.loc, ManifestOf[m.dig]) : m \in valid}
        \cup {Suggested(dir) : dir \in {d \in markers : ~ Vendored(d) /\
                                          ~ \E m \in valid : Dir(m.loc) = d}}

\* file_projects: the files each project's patterns match.
FileProjects(plan, files) ==
  UNION {{[loc |-> f, project |-> p.id, basis |-> p.basis] :
            f \in {f \in files : \E pattern \in p.patterns : Match(pattern, f)}} : p \in plan}
=============================================================================
