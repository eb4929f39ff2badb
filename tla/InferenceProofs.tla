-------------------------- MODULE InferenceProofs --------------------------
(***************************************************************************)
(* What TLAPS proves of Inference: the type invariant; that renames are    *)
(* called exactly where a pass singles out both ends, whatever is appended *)
(* between the two reads; that a command leaves none out; and that a       *)
(* command nobody came between stores the projects and the findings of the *)
(* tree its view describes.                                                *)
(***************************************************************************)
EXTENDS Inference, FilterProofs

-----------------------------------------------------------------------------
(* The inductive invariant: the log.                                        *)

Place == Locator \cup Marked \cup OldMarked

Claims == {"file", "manifest", "absent", "folder"}

RowType ==
  [claim : Claims, loc : Place, dig : Content \cup {Gone}, prior : Nat, pass : Nat,
   id : Claims \X Place \X Nat \X Nat]

State == [dig : Content \cup {Gone}, at : Nat]

\* A row by itself: what its id is made of, and what it is about.
RowOK(r) ==
  /\ r.id[1] = r.claim /\ r.id[2] = r.loc /\ r.id[4] = r.prior
  /\ r.claim # "folder" => r.loc \in Locator /\ r.pass # 0
  /\ r.claim = "folder" => r.id[3] = 0 /\ r.prior = 0
  /\ r.claim \in {"file", "manifest"} => r.dig \in Content

\* A tombstone is about the file that the row it supersedes has seen.
Supersedes(i) ==
  Absent(log[i]) => /\ log[i].prior \in 1 .. i - 1
                    /\ log[log[i].prior].claim = "file"
                    /\ log[log[i].prior].loc = log[i].loc

LogOK ==
  /\ log \in Seq(RowType)
  /\ \A i \in 1 .. Len(log) :
       RowOK(log[i]) /\ log[i].pass <= passes /\ Supersedes(i)
  /\ \A i, j \in 1 .. Len(log) :
       /\ log[i].id = log[j].id => i = j
       /\ i <= j => log[i].pass <= log[j].pass
       /\ log[i].claim = log[j].claim /\ log[i].loc = log[j].loc
            /\ log[i].pass = log[j].pass => i = j

DiskOK ==
  /\ passes \in Nat
  /\ disk \in [Locator -> State]
  /\ \A l \in Locator : disk[l].at <= passes

TablesOK ==
  /\ applied \in 0 .. Len(log)
  /\ relations \subseteq [type : {"renamed-from", "compare-set-with"},
                          new : Locator, old : Locator, pass : 1 .. passes]
  /\ \A m \in projects : m.loc \in Locator /\ m.basis \in {"manifest", "native-marker"}
  /\ \A f \in findings :
       f.rule \in {"duplicate-content", "ambiguous-origin", "manifest-invalid"}

Steps ==
  {"idle", "apply", "gone", "arrived", "insert", "manifests", "markers", "members",
   "replace", "files", "ambiguous", "invalid", "detect"}

\* No pass has rows on both sides of n.
Settled(n) ==
  /\ n \in 0 .. Len(log)
  /\ \A i \in 1 .. n, j \in n + 1 .. Len(log) : log[i].pass < log[j].pass

\* What a command holds.
RunOK(p) ==
  /\ run[p].pc \in Steps
  /\ Settled(from[p])
  /\ run[p].pc \in {"arrived", "insert"} => Settled(run[p].gone) /\ from[p] <= run[p].gone
  /\ run[p].pc = "insert" => Settled(run[p].arrived) /\ run[p].gone <= run[p].arrived
  /\ run[p].pc = "members" => \A q \in run[p].plan : q.basis \in {"manifest", "native-marker"}
  /\ run[p].pc = "replace" =>
       \A m \in run[p].rows : m.loc \in Locator /\ m.basis \in {"manifest", "native-marker"}
  /\ run[p].pc \in {"ambiguous", "invalid", "detect"} =>
       \A f \in run[p].found :
         f.rule \in {"duplicate-content", "ambiguous-origin", "manifest-invalid"}

RunsOK ==
  /\ DOMAIN run = Process /\ DOMAIN from = Process /\ DOMAIN calm = Process
  /\ \A p \in Process : RunOK(p)

TypeInv == LogOK /\ DiskOK /\ TablesOK /\ RunsOK

-----------------------------------------------------------------------------
(* The view.                                                                *)

LEMMA BoundedMaximum ==
  ASSUME NEW n \in Nat, NEW S, S \subseteq 1 .. n, S # {}
  PROVE  \E i \in S : \A j \in S : j <= i
<1> DEFINE P == {k \in Nat : \A T : T \subseteq 1 .. k /\ T # {} =>
                                      \E i \in T : \A j \in T : j <= i}
<1>1. 0 \in P
  OBVIOUS
<1>2. ASSUME NEW k \in Nat, k \in P PROVE k + 1 \in P
  <2> SUFFICES ASSUME NEW T, T \subseteq 1 .. k + 1, T # {}
               PROVE  \E i \in T : \A j \in T : j <= i
    OBVIOUS
  <2>1. CASE k + 1 \in T
    BY <2>1
  <2>2. CASE k + 1 \notin T
    <3>1. T \subseteq 1 .. k
      BY <2>2
    <3> QED BY <1>2, <3>1
  <2> QED BY <2>1, <2>2
<1> HIDE DEF P
<1>3. n \in P
  BY <1>1, <1>2, NatSetInduction
<1> QED BY <1>3 DEF P

LEMMA LatestIs ==
  ASSUME LogOK, NEW n \in 0 .. Len(log), NEW l, StateRows(n, l) # {}
  PROVE  /\ Latest(n, l) \in 1 .. n
         /\ Latest(n, l) \in StateRows(n, l)
         /\ \A j \in StateRows(n, l) : j <= Latest(n, l)
<1>1. StateRows(n, l) \subseteq 1 .. n /\ n \in Nat
  BY DEF StateRows, LogOK
<1>2. \E i \in StateRows(n, l) : \A j \in StateRows(n, l) : j <= i
  BY <1>1, BoundedMaximum
<1> QED BY <1>1, <1>2 DEF Latest

\* What is known of a file is a row that has seen it.
LEMMA KnownIs ==
  ASSUME LogOK, applied \in 0 .. Len(log), NEW l
  PROVE  /\ Known(l) \in 0 .. Len(log)
         /\ Known(l) # 0 => /\ l \in Present(applied) /\ Known(l) = Latest(applied, l)
                            /\ log[Known(l)].claim = "file" /\ log[Known(l)].loc = l
                            /\ log[Known(l)] \in RowType
<1>1. Len(log) \in Nat
  BY DEF LogOK
<1>2. CASE l \in Present(applied)
  <2>1. StateRows(applied, l) # {} /\ ~ Absent(log[Latest(applied, l)])
    BY <1>2 DEF Present
  <2>2. Latest(applied, l) \in 1 .. applied /\ Latest(applied, l) \in StateRows(applied, l)
    BY <2>1, LatestIs
  <2>3. log[Latest(applied, l)].loc = l /\ log[Latest(applied, l)].claim = "file"
    BY <2>1, <2>2 DEF StateRows, Absent
  <2>4. Known(l) = Latest(applied, l) /\ Known(l) \in 1 .. Len(log)
    BY <1>1, <1>2, <2>2 DEF Known
  <2>5. log[Known(l)] \in RowType
    BY <2>4 DEF LogOK
  <2> QED BY <1>2, <2>3, <2>4, <2>5
<1>3. CASE l \notin Present(applied)
  BY <1>1, <1>3 DEF Known
<1> QED BY <1>2, <1>3

-----------------------------------------------------------------------------
(* What a pass emits.                                                       *)

Changed(found, l) ==
  ~ (Known(l) # 0 /\ log[Known(l)].id[3] = found[l].at)

Emitted(found) ==
  {FolderRow(d) : d \in Seen(found)}
    \cup {Row("file", l, found, Known(l)) : l \in {l \in Locator :
            found[l].dig # Gone /\ Changed(found, l)}}
    \cup {Row("manifest", l, found, Known(l)) : l \in {l \in Locator :
            found[l].dig # Gone /\ IsManifest(l)}}
    \cup {Tombstone(l) : l \in {l \in Locator : found[l].dig = Gone /\ Known(l) # 0}}

KeyOf == [r \in RowType |-> <<r.claim, r.loc>>]

\* What every row that is emitted is like.
LEMMA EmittedType ==
  ASSUME TypeInv, NEW found \in [Locator -> State], NEW r \in Emitted(found)
  PROVE  /\ r \in RowType /\ RowOK(r) /\ r.pass = passes + 1
         /\ Absent(r) => /\ r.prior \in 1 .. Len(log)
                         /\ log[r.prior].claim = "file" /\ log[r.prior].loc = r.loc
<1>1. /\ passes \in Nat /\ passes + 1 # 0 /\ Len(log) \in Nat
      /\ \A l \in Locator : /\ Known(l) \in Nat /\ Known(l) \in 0 .. Len(log)
                            /\ Known(l) # 0 => log[Known(l)].claim = "file"
                                               /\ log[Known(l)].loc = l
  BY KnownIs DEF TypeInv, TablesOK, DiskOK, LogOK
<1>2. CASE \E d \in Seen(found) : r = FolderRow(d)
  BY <1>1, <1>2 DEF FolderRow, RowType, RowOK, Claims, Place, Seen, Absent
<1>3. ASSUME NEW l \in Locator, NEW c \in {"file", "manifest"}, found[l].dig # Gone,
             r = Row(c, l, found, Known(l))
      PROVE  r \in RowType /\ RowOK(r) /\ r.pass = passes + 1 /\ ~ Absent(r)
  <2>1. found[l].dig \in Content /\ found[l].at \in Nat
    BY <1>3 DEF State
  <2> QED BY <1>1, <1>3, <2>1 DEF Row, RowType, RowOK, Claims, Place, Absent
<1>4. ASSUME NEW l \in Locator, Known(l) # 0, r = Tombstone(l)
      PROVE  /\ r \in RowType /\ RowOK(r) /\ r.pass = passes + 1
             /\ r.prior \in 1 .. Len(log)
             /\ log[r.prior].claim = "file" /\ log[r.prior].loc = r.loc
  BY <1>1, <1>4 DEF Tombstone, RowType, RowOK, Claims, Place
<1> QED BY <1>2, <1>3, <1>4 DEF Emitted

\* Distinct rows that are emitted differ in claim or file.
LEMMA EmittedKeys ==
  ASSUME TypeInv, NEW found \in [Locator -> State],
         NEW q \in Emitted(found), NEW r \in Emitted(found), KeyOf[q] = KeyOf[r]
  PROVE  q = r
<1>1. q \in RowType /\ r \in RowType
  BY EmittedType
<1>2. q.claim = r.claim /\ q.loc = r.loc
  <2> HIDE DEF Emitted
  <2> QED BY <1>1 DEF KeyOf
<1>3. CASE r.claim = "folder"
  BY <1>2, <1>3 DEF Emitted, FolderRow, Row, Tombstone
<1>4. CASE r.claim = "absent"
  BY <1>2, <1>4 DEF Emitted, FolderRow, Row, Tombstone
<1>5. CASE r.claim = "file"
  BY <1>2, <1>5 DEF Emitted, FolderRow, Row, Tombstone
<1>6. CASE r.claim = "manifest"
  BY <1>2, <1>6 DEF Emitted, FolderRow, Row, Tombstone
<1> QED BY <1>1, <1>3, <1>4, <1>5, <1>6 DEF RowType, Claims

LEMMA PairOf ==
  ASSUME NEW X, NEW x \in X, NEW y \in X
  PROVE  <<x>> \o <<y>> = <<x, y>>
<1> DEFINE a == <<x>>
           b == <<y>>
           c == <<x, y>>
<1>1. /\ a \in Seq(X) /\ b \in Seq(X) /\ c \in Seq(X)
      /\ Len(a) = 1 /\ Len(b) = 1 /\ Len(c) = 2
      /\ a[1] = x /\ b[1] = y /\ c[1] = x /\ c[2] = y
  OBVIOUS
<1> HIDE DEF a, b, c
<1>2. /\ a \o b \in Seq(X) /\ Len(a \o b) = 2
      /\ \A i \in 1 .. 2 : (a \o b)[i] = IF i <= 1 THEN a[i] ELSE b[i - 1]
  <2>1. /\ a \o b \in Seq(X) /\ Len(a \o b) = Len(a) + Len(b)
        /\ \A i \in 1 .. Len(a) + Len(b) :
             (a \o b)[i] = IF i <= Len(a) THEN a[i] ELSE b[i - Len(a)]
    BY <1>1, ConcatProperties
  <2> QED BY <1>1, <2>1
<1>3. \A i \in 1 .. 2 : (a \o b)[i] = c[i]
  BY <1>1, <1>2
<1>4. a \o b = c
  BY <1>1, <1>2, <1>3, SeqEqual
<1> QED BY <1>4 DEF a, b, c

\* Sequences of at most two elements.
LEMMA AtMostTwo ==
  ASSUME NEW X, NEW x \in X, NEW y \in X, NEW s, s \in {<<>>, <<x>>, <<y>>, <<x, y>>}
  PROVE  /\ s \in Seq(X)
         /\ s = <<>> => ToSet(s) = {}
         /\ s = <<x>> => ToSet(s) = {x}
         /\ s = <<y>> => ToSet(s) = {y}
         /\ s = <<x, y>> => ToSet(s) = {x, y}
         /\ \A key : key[x] # key[y] => Distinct(s, key)
<1>1. CASE s = <<x, y>>
  <2>1. s \in Seq(X) /\ Len(s) = 2 /\ s[1] = x /\ s[2] = y
    BY <1>1
  <2>2. DOMAIN s = 1 .. 2 /\ 1 .. 2 = {1, 2}
    BY <2>1
  <2>3. ToSet(s) = {x, y}
    BY <2>1, <2>2 DEF ToSet
  <2>4. \A key : key[x] # key[y] => Distinct(s, key)
    BY <2>1, <2>2 DEF Distinct
  <2>5. s # <<>> /\ s # <<x>> /\ s # <<y>>
    BY <1>1
  <2> QED BY <2>1, <2>3, <2>4, <2>5
<1>2. ASSUME NEW z \in {x, y}, s = <<z>>
      PROVE  s \in Seq(X) /\ ToSet(s) = {z} /\ \A key : Distinct(s, key)
  <2>1. s \in Seq(X) /\ Len(s) = 1 /\ s[1] = z
    BY <1>2
  <2>2. DOMAIN s = 1 .. 1 /\ 1 .. 1 = {1}
    BY <2>1
  <2>3. ToSet(s) = {z}
    BY <2>1, <2>2 DEF ToSet
  <2>4. \A key : Distinct(s, key)
    BY <2>1, <2>2 DEF Distinct
  <2> QED BY <2>1, <2>3, <2>4
<1>3. CASE s = <<>>
  <2>1. s \in Seq(X) /\ Len(s) = 0
    BY <1>3
  <2>2. ToSet(s) = {}
    BY <1>3 DEF ToSet
  <2>3. \A key : Distinct(s, key)
    BY <2>1 DEF Distinct
  <2>4. s # <<x, y>> /\ s # <<x>> /\ s # <<y>>
    BY <1>3
  <2> QED BY <2>1, <2>2, <2>3, <2>4
<1>4. CASE s = <<x>> \/ s = <<y>>
  <2>1. Len(s) = 1
    BY <1>4
  <2>2. Len(<<>>) = 0 /\ Len(<<x, y>>) = 2
    OBVIOUS
  <2>3. s # <<>> /\ s # <<x, y>>
    BY <2>1, <2>2
  <2> QED BY <1>2, <1>4, <2>3
<1> QED BY <1>1, <1>3, <1>4

LEMMA FileRowsAre ==
  ASSUME TypeInv, NEW found \in [Locator -> State], NEW l \in Locator
  PROVE  /\ FileRows(found, l) \in Seq(RowType)
         /\ ToSet(FileRows(found, l)) =
              {Row("file", m, found, Known(m)) : m \in {m \in {l} :
                   found[m].dig # Gone /\ Changed(found, m)}}
              \cup {Row("manifest", m, found, Known(m)) : m \in {m \in {l} :
                   found[m].dig # Gone /\ IsManifest(m)}}
         /\ Distinct(FileRows(found, l), KeyOf)
<1> DEFINE s == FileRows(found, l)
           x == Row("file", l, found, Known(l))
           y == Row("manifest", l, found, Known(l))
           B == Last(l) = Manifest
<1>1. CASE found[l].dig = Gone
  <2>1. s = <<>>
    BY <1>1 DEF FileRows
  <2>2. s \in Seq(RowType) /\ Len(s) = 0 /\ ToSet(s) = {}
    BY <2>1 DEF ToSet
  <2>3. Distinct(s, KeyOf)
    BY <2>2 DEF Distinct
  <2> QED BY <1>1, <2>2, <2>3
<1>2. CASE found[l].dig # Gone
  <2>1. x \in RowType /\ y \in RowType
    <3>1. /\ passes \in Nat /\ passes + 1 \in Nat /\ Known(l) \in Nat
      BY KnownIs DEF TypeInv, TablesOK, DiskOK, LogOK
    <3>2. found[l].dig \in Content /\ found[l].at \in Nat
      BY <1>2 DEF State
    <3> QED BY <3>1, <3>2 DEF Row, RowType, Claims, Place
  <2>2. KeyOf[x] # KeyOf[y]
    <3>1. x.claim = "file" /\ y.claim = "manifest"
      BY DEF Row
    <3> HIDE DEF x, y
    <3> QED BY <2>1, <3>1 DEF KeyOf
  <2>3. s = (IF Changed(found, l) THEN <<x>> ELSE <<>>) \o (IF B THEN <<y>> ELSE <<>>)
    BY <1>2 DEF FileRows, Changed, IsManifest
  <2>4. s = IF Changed(found, l) THEN IF B THEN <<x, y>> ELSE <<x>>
                                 ELSE IF B THEN <<y>> ELSE <<>>
    <3>1. <<x>> \in Seq(RowType) /\ <<y>> \in Seq(RowType) /\ <<>> \in Seq(RowType)
      BY <2>1
    <3>2. <<x>> \o <<>> = <<x>> /\ <<>> \o <<y>> = <<y>> /\ <<>> \o <<>> = <<>>
      BY <3>1, ConcatEmptySeq
    <3> HIDE DEF s, x, y, B
    <3>3. <<x>> \o <<y>> = <<x, y>>
      BY <2>1, PairOf
    <3> QED BY <2>3, <3>2, <3>3
  <2>5. /\ s \in Seq(RowType)
        /\ ToSet(s) = (IF Changed(found, l) THEN {x} ELSE {}) \cup (IF B THEN {y} ELSE {})
        /\ Distinct(s, KeyOf)
    <3> HIDE DEF s, x, y, B
    <3>1. s \in {<<>>, <<x>>, <<y>>, <<x, y>>}
      BY <2>4
    <3>2. /\ s \in Seq(RowType)
          /\ s = <<>> => ToSet(s) = {}
          /\ s = <<x>> => ToSet(s) = {x}
          /\ s = <<y>> => ToSet(s) = {y}
          /\ s = <<x, y>> => ToSet(s) = {x, y}
          /\ \A key : key[x] # key[y] => Distinct(s, key)
      BY <2>1, <3>1, AtMostTwo
    <3> QED BY <2>2, <2>4, <3>2
  <2>6. {Row("file", m, found, Known(m)) : m \in {m \in {l} :
                   found[m].dig # Gone /\ Changed(found, m)}}
          = IF Changed(found, l) THEN {x} ELSE {}
    BY <1>2
  <2>7. {Row("manifest", m, found, Known(m)) : m \in {m \in {l} :
                   found[m].dig # Gone /\ IsManifest(m)}} = IF B THEN {y} ELSE {}
    BY <1>2 DEF IsManifest
  <2> QED BY <2>5, <2>6, <2>7
<1> QED BY <1>1, <1>2

\* Rows made one each of distinct files.
LEMMA RowPerFile ==
  ASSUME NEW P, NEW s \in Seq(P), \A i, j \in 1 .. Len(s) : s[i] = s[j] => i = j,
         NEW t, t \in [1 .. Len(s) -> RowType],
         \A i \in 1 .. Len(s) : t[i].loc = s[i]
  PROVE  t \in Seq(RowType) /\ Distinct(t, KeyOf) /\ ToSet(t) = {t[i] : i \in 1 .. Len(s)}
<1>1. t \in Seq(RowType) /\ Len(t) = Len(s) /\ DOMAIN t = 1 .. Len(s)
  OBVIOUS
<1>2. ToSet(t) = {t[i] : i \in 1 .. Len(s)}
  BY <1>1 DEF ToSet
<1>3. ASSUME NEW i \in 1 .. Len(t), NEW j \in 1 .. Len(t), KeyOf[t[i]] = KeyOf[t[j]]
      PROVE  i = j
  <2>1. t[i] \in RowType /\ t[j] \in RowType
    BY <1>1
  <2>2. t[i].loc = t[j].loc
    BY <1>3, <2>1 DEF KeyOf
  <2>3. s[i] = s[j]
    BY <1>1, <2>2
  <2> QED BY <1>1, <2>3
<1>4. Distinct(t, KeyOf)
  BY <1>3 DEF Distinct
<1> QED BY <1>1, <1>2, <1>4

Folders(found) ==
  [i \in 1 .. Cardinality(Seen(found)) |-> FolderRow(SetToSeq(Seen(found))[i])]

LEMMA FoldersAre ==
  ASSUME TypeInv, NEW found
  PROVE  /\ Folders(found) \in Seq(RowType)
         /\ Distinct(Folders(found), KeyOf)
         /\ ToSet(Folders(found)) = {FolderRow(d) : d \in Seen(found)}
<1> DEFINE S == Seen(found)
           s == SetToSeq(S)
           t == Folders(found)
<1>1. S \subseteq Marked /\ IsFiniteSet(S)
  BY InferenceAssumption, FS_Subset DEF Seen
<1>2. passes \in Nat
  BY DEF TypeInv, DiskOK
<1>3. \A d \in S : FolderRow(d) \in RowType /\ FolderRow(d).loc = d
  BY <1>1, <1>2 DEF FolderRow, RowType, Claims, Place
<1> HIDE DEF S
<1>4. /\ s \in Seq(S)
      /\ \A x \in S : \E i \in 1 .. Len(s) : s[i] = x
      /\ \A i, j \in 1 .. Len(s) : s[i] = s[j] => i = j
  BY <1>1, SetToSeqLists
<1>5. Cardinality(S) = Len(s)
  <2>1. s \in [1 .. Len(s) -> S] /\ Len(s) \in Nat
    BY <1>4
  <2>2. s \in Bijection(1 .. Len(s), S)
    <3> HIDE DEF s
    <3>1. \A i, j \in 1 .. Len(s) : s[i] = s[j] => i = j
      BY <1>4
    <3>2. \A x \in S : \E i \in 1 .. Len(s) : s[i] = x
      BY <1>4
    <3>3. IsInjective(s)
      BY <2>1, <3>1 DEF IsInjective
    <3> QED BY <2>1, <3>2, <3>3 DEF Bijection, Injection, Surjection
  <2> HIDE DEF s
  <2>3. ExistsBijection(1 .. Len(s), S)
    BY <2>2 DEF ExistsBijection
  <2> QED BY <2>1, <2>3, FS_CountingElements
<1>6. t = [i \in 1 .. Len(s) |-> FolderRow(s[i])]
  BY <1>5 DEF Folders, S
<1> HIDE DEF s, t
<1>7. \A i \in 1 .. Len(s) : s[i] \in S
  BY <1>4
<1>8. t \in [1 .. Len(s) -> RowType] /\ \A i \in 1 .. Len(s) : t[i].loc = s[i]
  BY <1>3, <1>6, <1>7
<1>9. t \in Seq(RowType) /\ Distinct(t, KeyOf) /\ ToSet(t) = {t[i] : i \in 1 .. Len(s)}
  <2>1. s \in Seq(S) /\ \A i, j \in 1 .. Len(s) : s[i] = s[j] => i = j
    BY <1>4
  <2>2. t \in Seq(RowType)
    BY <1>8, <2>1, RowPerFile
  <2>3. Distinct(t, KeyOf)
    BY <1>8, <2>1, RowPerFile
  <2>4. ToSet(t) = {t[i] : i \in 1 .. Len(s)}
    BY <1>8, <2>1, RowPerFile
  <2> QED BY <2>2, <2>3, <2>4
<1>10. {t[i] : i \in 1 .. Len(s)} = {FolderRow(d) : d \in S}
  <2>1. \A i \in 1 .. Len(s) : t[i] = FolderRow(s[i])
    BY <1>6
  <2>2. \A x \in S : \E i \in 1 .. Len(s) : s[i] = x
    BY <1>4
  <2> QED BY <1>7, <2>1, <2>2
<1> QED BY <1>9, <1>10 DEF t, S

Vanished(found) ==
  Pick(LocOrder, {i \in DOMAIN LocOrder : Known(LocOrder[i]) # 0
                                            /\ found[LocOrder[i]].dig = Gone})

Tombs(found) == [i \in DOMAIN Vanished(found) |-> Tombstone(Vanished(found)[i])]

LEMMA TombsAre ==
  ASSUME TypeInv, NEW found \in [Locator -> State]
  PROVE  /\ Tombs(found) \in Seq(RowType)
         /\ Distinct(Tombs(found), KeyOf)
         /\ ToSet(Tombs(found)) = {Tombstone(l) : l \in {l \in Locator :
                                     found[l].dig = Gone /\ Known(l) # 0}}
<1> DEFINE keep == {l \in Locator : found[l].dig = Gone /\ Known(l) # 0}
           same == [l \in Locator |-> l]
           s == Vanished(found)
           t == Tombs(found)
<1>1. /\ LocOrder \in Seq(Locator)
      /\ \A i, j \in 1 .. Len(LocOrder) : LocOrder[i] = LocOrder[j] => i = j
      /\ \A i \in 1 .. Len(LocOrder) : LocOrder[i] \in Locator
      /\ DOMAIN LocOrder = 1 .. Len(LocOrder)
  BY InferenceAssumption
<1>2. s = Filter(LocOrder, keep)
  <2>1. {i \in DOMAIN LocOrder : Known(LocOrder[i]) # 0 /\ found[LocOrder[i]].dig = Gone}
          = {i \in DOMAIN LocOrder : LocOrder[i] \in keep}
    BY <1>1
  <2> HIDE DEF keep
  <2> QED BY <2>1, FilterIsPick DEF Vanished
<1>3. Distinct(LocOrder, same)
  BY <1>1 DEF Distinct
<1>4. s \in Seq(Locator) /\ ToSet(s) = Locator \cap keep /\ Distinct(s, same)
  <2>1. ToSet(LocOrder) = Locator
    BY DEF Locator
  <2> HIDE DEF keep, same, s
  <2> QED BY <1>1, <1>2, <1>3, <2>1, FilterType, FilterElements, FilterDistinct
<1>5. \A l \in keep : Tombstone(l) \in RowType /\ Tombstone(l).loc = l
  <2>1. \A l \in Locator : Known(l) \in Nat
    BY KnownIs DEF TypeInv, TablesOK, LogOK
  <2>2. passes \in Nat
    BY DEF TypeInv, DiskOK
  <2> QED BY <2>1, <2>2 DEF Tombstone, RowType, Claims, Place
<1>6. t = [i \in 1 .. Len(s) |-> Tombstone(s[i])] /\ DOMAIN s = 1 .. Len(s)
  <2>1. DOMAIN s = 1 .. Len(s)
    <3> HIDE DEF s
    <3> QED BY <1>4
  <2> QED BY <2>1 DEF Tombs
<1> HIDE DEF s, t
<1>7. /\ \A i \in 1 .. Len(s) : s[i] \in keep /\ s[i] \in Locator
      /\ \A l \in keep : \E i \in 1 .. Len(s) : s[i] = l
      /\ \A i, j \in 1 .. Len(s) : s[i] = s[j] => i = j
  <2>1. ToSet(s) = {s[i] : i \in 1 .. Len(s)}
    BY <1>6 DEF ToSet
  <2>2. ToSet(s) = keep
    BY <1>4
  <2>3. \A i \in 1 .. Len(s) : s[i] \in keep /\ s[i] \in Locator
    <3> HIDE DEF keep
    <3> QED BY <1>4, <2>1, <2>2
  <2>4. \A l \in keep : \E i \in 1 .. Len(s) : s[i] = l
    <3> HIDE DEF keep
    <3> QED BY <2>1, <2>2
  <2>5. \A i, j \in 1 .. Len(s) : s[i] = s[j] => i = j
    BY <1>4, <2>3 DEF Distinct
  <2> QED BY <2>3, <2>4, <2>5
<1> HIDE DEF keep
<1>8. t \in [1 .. Len(s) -> RowType] /\ \A i \in 1 .. Len(s) : t[i].loc = s[i]
  BY <1>5, <1>6, <1>7
<1>9. t \in Seq(RowType) /\ Distinct(t, KeyOf) /\ ToSet(t) = {t[i] : i \in 1 .. Len(s)}
  <2>1. s \in Seq(Locator) /\ \A i, j \in 1 .. Len(s) : s[i] = s[j] => i = j
    BY <1>4, <1>7
  <2>2. t \in Seq(RowType)
    BY <1>8, <2>1, RowPerFile
  <2>3. Distinct(t, KeyOf)
    BY <1>8, <2>1, RowPerFile
  <2>4. ToSet(t) = {t[i] : i \in 1 .. Len(s)}
    BY <1>8, <2>1, RowPerFile
  <2> QED BY <2>2, <2>3, <2>4
<1>10. {t[i] : i \in 1 .. Len(s)} = {Tombstone(l) : l \in keep}
  BY <1>6, <1>7
<1> QED BY <1>9, <1>10 DEF t, keep

LEMMA ConsProperties ==
  ASSUME NEW X, NEW x \in X, NEW w \in Seq(X)
  PROVE  /\ <<x>> \o w \in Seq(X)
         /\ Len(<<x>> \o w) = Len(w) + 1
         /\ (<<x>> \o w)[1] = x
         /\ \A i \in 2 .. Len(w) + 1 : (<<x>> \o w)[i] = w[i - 1]
<1> DEFINE a == <<x>>
<1>1. a \in Seq(X) /\ Len(a) = 1 /\ a[1] = x
  OBVIOUS
<1> HIDE DEF a
<1>2. /\ a \o w \in Seq(X) /\ Len(a \o w) = Len(a) + Len(w)
      /\ \A i \in 1 .. Len(a) + Len(w) :
           (a \o w)[i] = IF i <= Len(a) THEN a[i] ELSE w[i - Len(a)]
  BY <1>1, ConcatProperties
<1>3. Len(w) \in Nat
  OBVIOUS
<1>4. \A i \in 2 .. Len(w) + 1 : (a \o w)[i] = w[i - 1]
  BY <1>1, <1>2, <1>3
<1>5. Len(a \o w) = Len(w) + 1 /\ (a \o w)[1] = x
  BY <1>1, <1>2, <1>3
<1> QED BY <1>2, <1>4, <1>5 DEF a

LEMMA ObservationsAre ==
  ASSUME TypeInv, NEW found \in [Locator -> State]
  PROVE  /\ Observations(found) \in Seq(RowType)
         /\ Distinct(Observations(found), KeyOf)
         /\ ToSet(Observations(found)) = Emitted(found)
<1> DEFINE w == [i \in DOMAIN LocOrder |-> FileRows(found, LocOrder[i])]
           F == Folders(found)
           T == Tombs(found)
           ss == <<F>> \o w
           n == Len(LocOrder)
           files(l) == {Row("file", m, found, Known(m)) : m \in {m \in {l} :
                          found[m].dig # Gone /\ Changed(found, m)}}
           manifests(l) == {Row("manifest", m, found, Known(m)) : m \in {m \in {l} :
                              found[m].dig # Gone /\ IsManifest(m)}}
           folders == {FolderRow(d) : d \in Seen(found)}
           tombs == {Tombstone(l) : l \in {l \in Locator : found[l].dig = Gone /\ Known(l) # 0}}
<1>1. Observations(found) = FlattenSeq(ss) \o T
  BY DEF Observations, Folders, Tombs, Vanished
<1>2. /\ n \in Nat /\ DOMAIN LocOrder = 1 .. n
      /\ \A i \in 1 .. n : LocOrder[i] \in Locator
      /\ \A i, j \in 1 .. n : LocOrder[i] = LocOrder[j] => i = j
      /\ \A l \in Locator : \E i \in 1 .. n : LocOrder[i] = l
  <2>1. LocOrder \in Seq(Locator) /\ Locator = {LocOrder[i] : i \in DOMAIN LocOrder}
    BY InferenceAssumption DEF Locator, ToSet
  <2> QED BY <2>1, InferenceAssumption
<1>3. \A l \in Locator : /\ FileRows(found, l) \in Seq(RowType)
                         /\ ToSet(FileRows(found, l)) = files(l) \cup manifests(l)
                         /\ Distinct(FileRows(found, l), KeyOf)
  BY FileRowsAre
<1>4. /\ F \in Seq(RowType) /\ Distinct(F, KeyOf) /\ ToSet(F) = folders
      /\ T \in Seq(RowType) /\ Distinct(T, KeyOf) /\ ToSet(T) = tombs
  BY FoldersAre, TombsAre
<1>5. \A l \in Locator : files(l) \cup manifests(l) \subseteq Emitted(found)
  BY DEF Emitted
<1>6. folders \subseteq Emitted(found) /\ tombs \subseteq Emitted(found)
  BY DEF Emitted
<1>7. Emitted(found) = folders \cup tombs
                         \cup UNION {files(l) \cup manifests(l) : l \in Locator}
  BY DEF Emitted
<1> HIDE DEF F, T, files, manifests, folders, tombs
<1>8. w \in Seq(Seq(RowType)) /\ Len(w) = n
      /\ \A i \in 1 .. n : w[i] = FileRows(found, LocOrder[i])
  BY <1>2, <1>3
<1> HIDE DEF w
<1>9. /\ ss \in Seq(Seq(RowType)) /\ Len(ss) = n + 1 /\ ss[1] = F
      /\ \A i \in 2 .. n + 1 : ss[i] = FileRows(found, LocOrder[i - 1])
  <2> DEFINE X == Seq(RowType)
  <2>1. F \in X /\ w \in Seq(X) /\ Len(w) = n /\ n \in Nat
    BY <1>2, <1>4, <1>8
  <2> HIDE DEF X
  <2>2. /\ ss \in Seq(X) /\ Len(ss) = Len(w) + 1 /\ ss[1] = F
        /\ \A i \in 2 .. Len(w) + 1 : ss[i] = w[i - 1]
    BY <2>1, ConsProperties
  <2> HIDE DEF ss
  <2>3. ASSUME NEW i \in 2 .. n + 1 PROVE ss[i] = FileRows(found, LocOrder[i - 1])
    <3>1. i - 1 \in 1 .. n /\ ss[i] = w[i - 1]
      BY <2>1, <2>2
    <3> QED BY <1>8, <3>1
  <2> QED BY <2>1, <2>2, <2>3 DEF X
<1> HIDE DEF ss
\* An element of one of the sequences, and where it comes from.
<1>10. ASSUME NEW i \in 1 .. Len(ss)
       PROVE  /\ ss[i] \in Seq(RowType) /\ Distinct(ss[i], KeyOf)
              /\ IF i = 1 THEN ToSet(ss[i]) = folders
                 ELSE /\ LocOrder[i - 1] \in Locator
                      /\ i - 1 \in 1 .. n
                      /\ ToSet(ss[i]) = files(LocOrder[i - 1]) \cup manifests(LocOrder[i - 1])
  <2>1. CASE i = 1
    BY <1>4, <1>9, <2>1
  <2>2. CASE i # 1
    <3>1. i \in 2 .. n + 1 /\ i - 1 \in 1 .. n
      BY <1>2, <1>9, <2>2
    <3> QED BY <1>2, <1>3, <1>9, <2>2, <3>1
  <2> QED BY <2>1, <2>2
<1>11. ToSet(FlattenSeq(ss)) = folders \cup UNION {files(l) \cup manifests(l) : l \in Locator}
  <2>1. ToSet(FlattenSeq(ss)) = UNION {ToSet(t) : t \in ToSet(ss)}
    BY <1>9, FlattenElements
  <2>2. ToSet(ss) = {ss[i] : i \in 1 .. n + 1}
    <3>1. DOMAIN ss = 1 .. n + 1
      BY <1>9
    <3> QED BY <3>1 DEF ToSet
  <2>3. ASSUME NEW i \in 1 .. n + 1
        PROVE  ToSet(ss[i]) \subseteq folders \cup UNION {files(l) \cup manifests(l) : l \in Locator}
    BY <1>9, <1>10
  <2>4. folders \subseteq UNION {ToSet(t) : t \in ToSet(ss)}
    <3>1. 1 \in 1 .. n + 1 /\ 1 \in 1 .. Len(ss)
      BY <1>2, <1>9
    <3>2. ToSet(ss[1]) = folders
      BY <1>10, <3>1
    <3> QED BY <2>2, <3>1, <3>2
  <2>5. ASSUME NEW l \in Locator
        PROVE  files(l) \cup manifests(l) \subseteq UNION {ToSet(t) : t \in ToSet(ss)}
    <3>1. PICK k \in 1 .. n : LocOrder[k] = l
      BY <1>2
    <3>2. k + 1 \in 1 .. Len(ss) /\ k + 1 # 1 /\ (k + 1) - 1 = k /\ k + 1 \in 1 .. n + 1
      BY <1>2, <1>9
    <3>3. ToSet(ss[k + 1]) = files(l) \cup manifests(l)
      BY <1>10, <3>1, <3>2
    <3> QED BY <2>2, <3>2, <3>3
  <2> QED BY <2>1, <2>2, <2>3, <2>4, <2>5
\* Rows of two sequences differ in their keys.
<1>12. \A q \in folders : q.claim = "folder" /\ q \in RowType
  BY <1>6, EmittedType DEF folders, FolderRow
<1>13. \A q \in tombs : q.claim = "absent" /\ q \in RowType
  BY <1>6, EmittedType DEF tombs, Tombstone
<1>14. \A l \in Locator : \A q \in files(l) \cup manifests(l) :
         q.claim \in {"file", "manifest"} /\ q.loc = l /\ q \in RowType
  <2>1. \A l \in Locator : \A q \in files(l) \cup manifests(l) : q \in RowType
    BY <1>5, EmittedType
  <2> QED BY <2>1 DEF files, manifests, Row
<1>15. \A q, r \in RowType : q.claim # r.claim \/ q.loc # r.loc => KeyOf[q] # KeyOf[r]
  BY DEF KeyOf
<1>16. Distinct(FlattenSeq(ss), KeyOf)
  <2>1. ASSUME NEW i \in 1 .. Len(ss), i # 1, NEW q \in ToSet(ss[i])
        PROVE  /\ q.claim \in {"file", "manifest"} /\ q \in RowType
               /\ i - 1 \in 1 .. n /\ q.loc = LocOrder[i - 1]
    <3>1. LocOrder[i - 1] \in Locator /\ i - 1 \in 1 .. n
      BY <1>10, <2>1
    <3>2. q \in files(LocOrder[i - 1]) \cup manifests(LocOrder[i - 1])
      BY <1>10, <2>1
    <3> QED BY <1>14, <3>1, <3>2
  <2>2. ASSUME NEW q \in ToSet(ss[1]), 1 \in 1 .. Len(ss)
        PROVE  q.claim = "folder" /\ q \in RowType
    BY <1>10, <1>12, <2>2
  <2>3. ASSUME NEW i \in 1 .. Len(ss), NEW j \in 1 .. Len(ss), i # j,
               NEW q \in ToSet(ss[i]), NEW r \in ToSet(ss[j])
        PROVE  KeyOf[q] # KeyOf[r]
    <3>1. CASE i = 1
      <4>1. q.claim = "folder" /\ q \in RowType
        BY <2>2, <3>1
      <4>2. r.claim \in {"file", "manifest"} /\ r \in RowType
        BY <2>1, <2>3, <3>1
      <4> QED BY <1>15, <4>1, <4>2
    <3>2. CASE j = 1
      <4>1. r.claim = "folder" /\ r \in RowType
        BY <2>2, <3>2
      <4>2. q.claim \in {"file", "manifest"} /\ q \in RowType
        BY <2>1, <2>3, <3>2
      <4> QED BY <1>15, <4>1, <4>2
    <3>3. CASE i # 1 /\ j # 1
      <4>1. q.loc = LocOrder[i - 1] /\ i - 1 \in 1 .. n /\ q \in RowType
        BY <2>1, <3>3
      <4>2. r.loc = LocOrder[j - 1] /\ j - 1 \in 1 .. n /\ r \in RowType
        BY <2>1, <3>3
      <4>3. i - 1 # j - 1
        BY <2>3
      <4>4. LocOrder[i - 1] # LocOrder[j - 1]
        BY <1>2, <4>1, <4>2, <4>3
      <4> QED BY <1>15, <4>1, <4>2, <4>4
    <3> QED BY <3>1, <3>2, <3>3
  <2> QED BY <1>9, <1>10, <2>3, FlattenDistinct
<1>17. FlattenSeq(ss) \in Seq(RowType)
  BY <1>9, FlattenType
<1> DEFINE W == FlattenSeq(ss)
<1>18. \A x \in ToSet(W), y \in ToSet(T) : KeyOf[x] # KeyOf[y]
  <2>1. \A x \in ToSet(W) : x \in RowType /\ x.claim # "absent"
    BY <1>11, <1>12, <1>14
  <2> QED BY <1>4, <1>13, <1>15, <2>1
<1>19. W \o T \in Seq(RowType) /\ Distinct(W \o T, KeyOf) /\ ToSet(W \o T) = ToSet(W) \cup ToSet(T)
  <2> HIDE DEF W
  <2>1. W \in Seq(RowType) /\ Distinct(W, KeyOf)
    BY <1>16, <1>17 DEF W
  <2>2. W \o T \in Seq(RowType)
    BY <1>4, <2>1
  <2>3. Distinct(W \o T, KeyOf)
    BY <1>4, <1>18, <2>1, ConcatDistinct
  <2>4. ToSet(W \o T) = ToSet(W) \cup ToSet(T)
    BY <1>4, <2>1, ConcatElements
  <2> QED BY <2>2, <2>3, <2>4
<1>20. ToSet(W) \cup ToSet(T) = Emitted(found)
  BY <1>4, <1>7, <1>11
<1> QED BY <1>1, <1>19, <1>20

LEMMA NewRowsAre ==
  ASSUME TypeInv, NEW found \in [Locator -> State]
  PROVE  /\ NewRows(Observations(found)) \in Seq(RowType)
         /\ Distinct(NewRows(Observations(found)), KeyOf)
         /\ ToSet(NewRows(Observations(found))) =
              {r \in Emitted(found) : \A i \in 1 .. Len(log) : log[i].id # r.id}
<1> DEFINE fresh == {r \in RowType : \A i \in DOMAIN log : log[i].id # r.id}
           rows == Observations(found)
<1>1. rows \in Seq(RowType) /\ Distinct(rows, KeyOf) /\ ToSet(rows) = Emitted(found)
  BY ObservationsAre
<1>2. DOMAIN log = 1 .. Len(log)
  BY DEF TypeInv, LogOK
<1> HIDE DEF rows
<1>3. NewRows(rows) = Filter(rows, fresh)
  <2>1. {k \in DOMAIN rows : \A i \in DOMAIN log : log[i].id # rows[k].id}
          = {k \in DOMAIN rows : rows[k] \in fresh}
    BY <1>1
  <2> HIDE DEF fresh
  <2> QED BY <2>1, FilterIsPick DEF NewRows
<1>4. /\ NewRows(rows) \in Seq(RowType) /\ Distinct(NewRows(rows), KeyOf)
      /\ ToSet(NewRows(rows)) = ToSet(rows) \cap fresh
  <2> HIDE DEF fresh
  <2>1. Filter(rows, fresh) \in Seq(RowType)
    BY <1>1, FilterType
  <2>2. Distinct(Filter(rows, fresh), KeyOf)
    BY <1>1, FilterDistinct
  <2>3. ToSet(Filter(rows, fresh)) = ToSet(rows) \cap fresh
    BY <1>1, FilterElements
  <2> QED BY <1>3, <2>1, <2>2, <2>3
<1>5. ToSet(rows) \cap fresh = {r \in Emitted(found) : \A i \in 1 .. Len(log) : log[i].id # r.id}
  BY <1>1, <1>2, EmittedType
<1> QED BY <1>4, <1>5 DEF rows

\* A pass over found is appended.
Grows(found) ==
  /\ log' = log \o NewRows(Observations(found))
  /\ passes' = passes + 1

LEMMA GrownLog ==
  ASSUME TypeInv, NEW found \in [Locator -> State], Grows(found)
  PROVE  /\ log' \in Seq(RowType) /\ Len(log) <= Len(log')
         /\ Len(log') = Len(log) + Len(NewRows(Observations(found)))
         /\ \A i \in 1 .. Len(log) : log'[i] = log[i]
         /\ \A i \in Len(log) + 1 .. Len(log') :
              /\ log'[i] \in Emitted(found)
              /\ \A j \in 1 .. Len(log) : log[j].id # log'[i].id
         /\ \A i, j \in Len(log) + 1 .. Len(log') : KeyOf[log'[i]] = KeyOf[log'[j]] => i = j
         /\ \A r \in Emitted(found) : \E i \in 1 .. Len(log') : log'[i].id = r.id
<1> DEFINE new == NewRows(Observations(found))
<1>1. /\ new \in Seq(RowType) /\ Distinct(new, KeyOf)
      /\ ToSet(new) = {r \in Emitted(found) : \A i \in 1 .. Len(log) : log[i].id # r.id}
  BY NewRowsAre
<1>2. log \in Seq(RowType) /\ log' = log \o new
  BY DEF TypeInv, LogOK, Grows
<1> HIDE DEF new
<1>3. /\ log' \in Seq(RowType) /\ Len(log') = Len(log) + Len(new)
      /\ Len(log) \in Nat /\ Len(new) \in Nat /\ Len(log) <= Len(log')
  BY <1>1, <1>2
<1>4. \A i \in 1 .. Len(log) : log'[i] = log[i]
  BY <1>1, <1>2
<1>5. \A i \in Len(log) + 1 .. Len(log') :
        i - Len(log) \in 1 .. Len(new) /\ log'[i] = new[i - Len(log)]
  BY <1>1, <1>2, <1>3
<1>6. ToSet(new) = {new[i] : i \in 1 .. Len(new)}
  <2>1. DOMAIN new = 1 .. Len(new)
    BY <1>1
  <2> QED BY <2>1 DEF ToSet
<1>7. ASSUME NEW i \in Len(log) + 1 .. Len(log')
      PROVE  /\ log'[i] \in Emitted(found)
             /\ \A j \in 1 .. Len(log) : log[j].id # log'[i].id
  <2>1. log'[i] \in ToSet(new)
    BY <1>5, <1>6
  <2> QED BY <1>1, <2>1
<1>8. ASSUME NEW i \in Len(log) + 1 .. Len(log'), NEW j \in Len(log) + 1 .. Len(log'),
             KeyOf[log'[i]] = KeyOf[log'[j]]
      PROVE  i = j
  <2>1. /\ i - Len(log) \in 1 .. Len(new) /\ log'[i] = new[i - Len(log)]
        /\ j - Len(log) \in 1 .. Len(new) /\ log'[j] = new[j - Len(log)]
    BY <1>5
  <2>2. KeyOf[new[i - Len(log)]] = KeyOf[new[j - Len(log)]]
    BY <1>8, <2>1
  <2>3. i - Len(log) = j - Len(log)
    BY <1>1, <2>1, <2>2 DEF Distinct
  <2> QED BY <1>3, <2>3
<1>9. ASSUME NEW r \in Emitted(found)
      PROVE  \E i \in 1 .. Len(log') : log'[i].id = r.id
  <2>1. CASE \E i \in 1 .. Len(log) : log[i].id = r.id
    BY <1>3, <1>4, <2>1
  <2>2. CASE \A i \in 1 .. Len(log) : log[i].id # r.id
    <3>1. PICK k \in 1 .. Len(new) : new[k] = r
      BY <1>1, <1>6, <2>2
    <3>2. Len(log) + k \in Len(log) + 1 .. Len(log') /\ (Len(log) + k) - Len(log) = k
      BY <1>3
    <3>3. log'[Len(log) + k] = r /\ Len(log) + k \in 1 .. Len(log')
      BY <1>3, <1>5, <3>1, <3>2
    <3> QED BY <3>3
  <2> QED BY <2>1, <2>2
<1> QED BY <1>3, <1>4, <1>7, <1>8, <1>9 DEF new

LEMMA GrownLogOK ==
  ASSUME TypeInv, NEW found \in [Locator -> State], Grows(found)
  PROVE  LogOK' /\ \A i \in Len(log) + 1 .. Len(log') : log'[i].pass = passes + 1
<1>1. /\ log' \in Seq(RowType) /\ Len(log) <= Len(log')
      /\ \A i \in 1 .. Len(log) : log'[i] = log[i]
      /\ \A i \in Len(log) + 1 .. Len(log') :
              /\ log'[i] \in Emitted(found)
              /\ \A j \in 1 .. Len(log) : log[j].id # log'[i].id
      /\ \A i, j \in Len(log) + 1 .. Len(log') : KeyOf[log'[i]] = KeyOf[log'[j]] => i = j
  BY GrownLog
<1>2. passes \in Nat /\ passes' = passes + 1 /\ Len(log) \in Nat /\ Len(log') \in Nat
  BY <1>1 DEF TypeInv, DiskOK, LogOK, Grows
<1>3. \A i \in 1 .. Len(log') : i \in 1 .. Len(log) \/ i \in Len(log) + 1 .. Len(log')
  BY <1>2
<1>4. \A i \in 1 .. Len(log') : log'[i] \in RowType
  BY <1>1
<1>5. \A i \in 1 .. Len(log) : RowOK(log'[i]) /\ log'[i].pass <= passes /\ log'[i].pass \in Nat
  <2>1. \A i \in 1 .. Len(log) : log[i] \in RowType /\ RowOK(log[i]) /\ log[i].pass <= passes
    BY DEF TypeInv, LogOK
  <2>2. \A i \in 1 .. Len(log) : log[i].pass \in Nat
    BY <2>1 DEF RowType
  <2> QED BY <1>1, <2>1, <2>2
<1>6. \A i \in Len(log) + 1 .. Len(log') :
        /\ RowOK(log'[i]) /\ log'[i].pass = passes + 1
        /\ Absent(log'[i]) => /\ log'[i].prior \in 1 .. Len(log)
                              /\ log[log'[i].prior].claim = "file"
                              /\ log[log'[i].prior].loc = log'[i].loc
  BY <1>1, EmittedType
<1>7. \A i \in 1 .. Len(log') : RowOK(log'[i]) /\ log'[i].pass <= passes'
  BY <1>2, <1>3, <1>5, <1>6
<1>8. ASSUME NEW i \in 1 .. Len(log') PROVE Supersedes(i)'
  <2>1. CASE i \in 1 .. Len(log)
    <3>1. Supersedes(i) /\ log'[i] = log[i]
      BY <1>1, <2>1 DEF TypeInv, LogOK
    <3>2. \A k \in 1 .. i - 1 : log'[k] = log[k]
      BY <1>1, <1>2, <2>1
    <3> QED BY <3>1, <3>2 DEF Supersedes
  <2>2. CASE i \in Len(log) + 1 .. Len(log')
    <3>1. \A k \in 1 .. Len(log) : k \in 1 .. i - 1 /\ log'[k] = log[k]
      BY <1>1, <1>2, <2>2
    <3> QED BY <1>6, <2>2, <3>1 DEF Supersedes
  <2> QED BY <1>3, <2>1, <2>2
<1>9. ASSUME NEW i \in 1 .. Len(log'), NEW j \in 1 .. Len(log')
      PROVE  i <= j => log'[i].pass <= log'[j].pass
  <2>1. CASE j \in 1 .. Len(log)
    BY <1>1, <1>2, <1>3, <2>1 DEF TypeInv, LogOK
  <2>2. CASE j \in Len(log) + 1 .. Len(log')
    BY <1>2, <1>6, <1>7, <2>2
  <2> QED BY <1>3, <2>1, <2>2
<1>10. ASSUME NEW i \in Len(log) + 1 .. Len(log'), NEW j \in Len(log) + 1 .. Len(log'),
              log'[i].claim = log'[j].claim, log'[i].loc = log'[j].loc
       PROVE  i = j
  <2>1. log'[i] \in RowType /\ log'[j] \in RowType
    BY <1>2, <1>4
  <2>2. KeyOf[log'[i]] = KeyOf[log'[j]]
    BY <1>10, <2>1 DEF KeyOf
  <2> QED BY <1>1, <2>2
<1>11. ASSUME NEW i \in 1 .. Len(log'), NEW j \in 1 .. Len(log'), log'[i].id = log'[j].id
       PROVE  i = j
  <2>1. log'[i].claim = log'[j].claim /\ log'[i].loc = log'[j].loc
    BY <1>7, <1>11 DEF RowOK
  <2>2. CASE i \in 1 .. Len(log) /\ j \in 1 .. Len(log)
    BY <1>1, <1>11, <2>2 DEF TypeInv, LogOK
  <2>3. CASE i \in Len(log) + 1 .. Len(log') /\ j \in Len(log) + 1 .. Len(log')
    BY <1>10, <2>1, <2>3
  <2> QED BY <1>1, <1>3, <1>11, <2>2, <2>3
<1>12. ASSUME NEW i \in 1 .. Len(log'), NEW j \in 1 .. Len(log'),
              log'[i].claim = log'[j].claim, log'[i].loc = log'[j].loc,
              log'[i].pass = log'[j].pass
       PROVE  i = j
  <2>1. CASE i \in 1 .. Len(log) /\ j \in 1 .. Len(log)
    BY <1>1, <1>12, <2>1 DEF TypeInv, LogOK
  <2>2. CASE i \in Len(log) + 1 .. Len(log') /\ j \in Len(log) + 1 .. Len(log')
    BY <1>10, <1>12, <2>2
  <2>3. CASE ~ (i \in 1 .. Len(log) <=> j \in 1 .. Len(log))
    BY <1>2, <1>3, <1>5, <1>6, <1>12, <2>3
  <2> QED BY <1>3, <2>1, <2>2, <2>3
<1>13. LogOK'
  BY <1>1, <1>7, <1>8, <1>9, <1>11, <1>12 DEF LogOK
<1> QED BY <1>6, <1>13

LEMMA FoundType ==
  ASSUME TypeInv, NEW edit \in Edits
  PROVE  /\ Found(edit) \in [Locator -> State]
         /\ \A l \in Locator :
              /\ Found(edit)[l].at <= passes + 1
              /\ Found(edit)[l] = disk[l] \/ Found(edit)[l].at = passes + 1
<1>1. passes \in Nat /\ disk \in [Locator -> State] /\ \A l \in Locator : disk[l].at <= passes
  BY DEF TypeInv, DiskOK
<1>2. DOMAIN edit \subseteq Locator /\ \A l \in DOMAIN edit : edit[l] \in Content \cup {Gone}
  <2>1. CASE passes = 0
    <3>1. edit \in Trees
      BY <2>1 DEF Edits
    <3>2. DOMAIN edit \subseteq Locator /\ \A l \in DOMAIN edit : edit[l] \in ContentOf[l] \cup {Gone}
      BY <3>1, InferenceAssumption
    <3> QED BY <3>2 DEF Content
  <2>2. CASE passes # 0
    BY <2>2 DEF Edits
  <2> QED BY <2>1, <2>2
<1>3. ASSUME NEW l \in Locator
      PROVE  /\ Found(edit)[l] \in State /\ Found(edit)[l].at <= passes + 1
             /\ Found(edit)[l] = disk[l] \/ Found(edit)[l].at = passes + 1
  <2>1. CASE l \in DOMAIN edit
    BY <1>1, <1>2, <2>1 DEF Found, State
  <2>2. CASE l \notin DOMAIN edit
    BY <1>1, <2>2 DEF Found, State
  <2> QED BY <2>1, <2>2
<1>4. Found(edit) = [l \in Locator |-> Found(edit)[l]]
  BY DEF Found
<1> QED BY <1>3, <1>4

-----------------------------------------------------------------------------
(* Rename detection, as a function of two reads of the log.                 *)

LEMMA ShownIsOffered ==
  ASSUME NEW arrived PROVE Shown(arrived) \subseteq arrived
  BY DEF Shown

\* What is read up to n.
LEMMA RowsAre ==
  ASSUME TypeInv, NEW n \in 0 .. Len(log)
  PROVE  Rows(n) \in Seq(RowType) /\ Len(Rows(n)) = n /\ DOMAIN Rows(n) = 1 .. n
         /\ \A i \in 1 .. n : Rows(n)[i] = log[i]
  BY DEF TypeInv, LogOK, Rows

LEMMA TombstonesAre ==
  ASSUME TypeInv, NEW n \in 0 .. Len(log)
  PROVE  Tombstones(Rows(n)) =
           {[loc |-> log[i].loc, dig |-> log[log[i].prior].dig, pass |-> log[i].pass] :
              i \in {i \in 1 .. n : Absent(log[i])}}
<1>1. DOMAIN Rows(n) = 1 .. n /\ \A i \in 1 .. n : Rows(n)[i] = log[i]
  BY RowsAre
<1>2. \A i \in 1 .. n : Absent(log[i]) => log[i].prior \in 1 .. n
  <2>1. \A i \in 1 .. n : i \in 1 .. Len(log) /\ Supersedes(i)
    BY DEF TypeInv, LogOK
  <2>2. \A i \in 1 .. n : \A k \in 1 .. i - 1 : k \in 1 .. n
    BY DEF TypeInv, LogOK
  <2> QED BY <2>1, <2>2 DEF Supersedes
<1>3. {i \in DOMAIN Rows(n) : Absent(Rows(n)[i])} = {i \in 1 .. n : Absent(log[i])}
  BY <1>1
<1>4. \A i \in {i \in 1 .. n : Absent(log[i])} :
        Rows(n)[i] = log[i] /\ Rows(n)[Rows(n)[i].prior].dig = log[log[i].prior].dig
  BY <1>1, <1>2
<1> QED BY <1>3, <1>4 DEF Tombstones

\* The first row of a file, or one behind its absence.
Arrives(i) ==
  /\ log[i].claim = "file"
  /\ \A j \in 1 .. i - 1 : log[j].loc = log[i].loc => Absent(log[j])

LEMMA ArrivalsAre ==
  ASSUME TypeInv, NEW n \in 0 .. Len(log)
  PROVE  Arrivals(Rows(n)) =
           {[loc |-> log[i].loc, dig |-> log[i].dig, pass |-> log[i].pass] :
              i \in {i \in 1 .. n : Arrives(i)}}
<1>1. DOMAIN Rows(n) = 1 .. n /\ \A i \in 1 .. n : Rows(n)[i] = log[i]
  BY RowsAre
<1>2. \A i \in 1 .. n : \A j \in 1 .. i - 1 : j \in 1 .. n
  BY DEF TypeInv, LogOK
<1>3. \A i \in 1 .. n :
        (/\ Rows(n)[i].claim = "file"
         /\ \A j \in 1 .. i - 1 : Rows(n)[j].loc = Rows(n)[i].loc => Absent(Rows(n)[j]))
          <=> Arrives(i)
  BY <1>1, <1>2 DEF Arrives
<1> QED BY <1>1, <1>3 DEF Arrivals

LEMMA RenamesType ==
  ASSUME TypeInv, NEW m \in 0 .. Len(log), NEW n \in 0 .. Len(log)
  PROVE  DetectRenames(Tombstones(Rows(m)), Arrivals(Rows(n)))
           \subseteq [type : {"renamed-from", "compare-set-with"},
                      new : Locator, old : Locator, pass : 1 .. passes]
<1> DEFINE gone == Tombstones(Rows(m))
           arrived == Arrivals(Rows(n))
<1>1. \A i \in 1 .. Len(log) : log[i].claim # "folder" =>
        log[i].loc \in Locator /\ log[i].pass \in 1 .. passes
  <2>1. passes \in Nat /\ \A i \in 1 .. Len(log) : /\ RowOK(log[i]) /\ log[i].pass <= passes
                                                   /\ log[i] \in RowType
    BY DEF TypeInv, LogOK, DiskOK
  <2>2. \A i \in 1 .. Len(log) : log[i].pass \in Nat
    BY <2>1 DEF RowType
  <2> QED BY <2>1, <2>2 DEF RowOK
<1>2. /\ \A i \in 1 .. m : i \in 1 .. Len(log)
      /\ \A i \in 1 .. n : i \in 1 .. Len(log)
  BY DEF TypeInv, LogOK
<1>3. \A g \in gone : g.loc \in Locator /\ g.pass \in 1 .. passes
  BY <1>1, <1>2, TombstonesAre DEF Absent
<1>4. \A a \in arrived : a.loc \in Locator /\ a.pass \in 1 .. passes
  BY <1>1, <1>2, ArrivalsAre DEF Arrives
<1> HIDE DEF gone, arrived
<1>5. ASSUME NEW g \in gone, NEW a \in arrived, NEW t \in {"renamed-from", "compare-set-with"}
      PROVE  Call(t, a, g) \in [type : {"renamed-from", "compare-set-with"},
                                new : Locator, old : Locator, pass : 1 .. passes]
  BY <1>3, <1>4 DEF Call
<1>6. ASSUME NEW A, A \subseteq arrived, NEW s
      PROVE  Bucket(A, s) \subseteq arrived /\ Shown(Bucket(A, s)) \subseteq arrived
  BY <1>6, ShownIsOffered DEF Bucket
<1>7. \A r \in DetectRenames(gone, arrived) :
        \E g \in gone, a \in arrived, t \in {"renamed-from", "compare-set-with"} : r = Call(t, a, g)
  <2> DEFINE G == {g \in gone : g.dig \notin Blank}
             A == {a \in arrived : a.dig \notin Blank}
             calls(g) == IF Cardinality(Bucket(A, g)) = 1 /\ Cardinality(Bucket(G, g)) = 1
                         THEN {Call("renamed-from", a, g) : a \in Bucket(A, g)}
                         ELSE {Call("compare-set-with", a, g) : a \in Shown(Bucket(A, g))}
  <2>1. DetectRenames(gone, arrived) = UNION {calls(g) : g \in G}
    BY DEF DetectRenames
  <2>2. A \subseteq arrived /\ G \subseteq gone
    OBVIOUS
  <2> HIDE DEF A, G
  <2>3. \A g \in G : \A r \in calls(g) :
          \E a \in arrived, t \in {"renamed-from", "compare-set-with"} : r = Call(t, a, g)
    BY <1>6, <2>2
  <2> HIDE DEF calls
  <2> QED BY <2>1, <2>2, <2>3
<1> QED BY <1>5, <1>7 DEF gone, arrived

-----------------------------------------------------------------------------
(* The invariant is inductive.                                              *)

LEMMA TypeInit == ASSUME Init PROVE TypeInv
<1>1. PICK d \in OldMarked :
        log = <<[claim |-> "folder", loc |-> d, dig |-> Gone, prior |-> 0,
                 pass |-> 0, id |-> <<"folder", d, 0, 0>>]>>
  BY DEF Init
<1> DEFINE r == [claim |-> "folder", loc |-> d, dig |-> Gone, prior |-> 0,
                 pass |-> 0, id |-> <<"folder", d, 0, 0>>]
<1>2. r \in RowType /\ RowOK(r) /\ r.pass = 0 /\ ~ Absent(r)
  BY DEF RowType, Claims, Place, RowOK, Absent
<1> HIDE DEF r
<1>3. log \in Seq(RowType) /\ Len(log) = 1 /\ log[1] = r
  BY <1>1, <1>2 DEF r
<1>4. 1 .. Len(log) = {1}
  BY <1>3
<1>5. LogOK
  BY <1>2, <1>3, <1>4 DEF LogOK, Supersedes, Init
<1>6. DiskOK
  BY DEF Init, DiskOK, State
<1>7. TablesOK
  BY <1>3 DEF Init, TablesOK
<1>8. \A p \in Process : run[p].pc = "idle" /\ from[p] = 0
  BY DEF Init, Idle
<1>9. Settled(0)
  BY <1>3 DEF Settled
<1>10. RunsOK
  BY <1>8, <1>9 DEF Init, RunsOK, RunOK, Steps
<1> QED BY <1>5, <1>6, <1>7, <1>10 DEF TypeInv

\* What the end of the log is to a pass that is appended.
LEMMA GrownSettled ==
  ASSUME TypeInv, NEW found \in [Locator -> State], Grows(found)
  PROVE  \A n : n = Len(log') \/ Settled(n) => Settled(n)'
<1>1. /\ \A i \in Len(log) + 1 .. Len(log') : log'[i].pass = passes + 1
      /\ \A i \in 1 .. Len(log) : log'[i] = log[i]
      /\ Len(log) <= Len(log')
  BY GrownLog, GrownLogOK
<1>2. Len(log) \in Nat /\ Len(log') \in Nat /\ passes \in Nat
  BY GrownLogOK DEF TypeInv, LogOK, DiskOK
<1>3. \A i \in 1 .. Len(log) : log[i].pass \in Nat /\ log[i].pass <= passes
  <2>1. \A i \in 1 .. Len(log) : log[i] \in RowType /\ log[i].pass <= passes
    BY DEF TypeInv, LogOK
  <2> QED BY <2>1 DEF RowType
<1>4. ASSUME NEW n, Settled(n), NEW i \in 1 .. n, NEW j \in n + 1 .. Len(log')
      PROVE  log'[i].pass < log'[j].pass
  <2>1. n \in 0 .. Len(log) /\ i \in 1 .. Len(log)
    BY <1>2, <1>4 DEF Settled
  <2>2. CASE j \in 1 .. Len(log)
    <3>1. j \in n + 1 .. Len(log)
      BY <1>2, <2>1, <2>2
    <3> QED BY <1>1, <1>4, <2>1, <2>2, <3>1 DEF Settled
  <2>3. CASE j \in Len(log) + 1 .. Len(log')
    BY <1>1, <1>2, <1>3, <2>1, <2>3
  <2> QED BY <1>2, <2>1, <2>2, <2>3
<1>5. \A n : Settled(n) => n \in 0 .. Len(log')
  BY <1>1, <1>2 DEF Settled
<1>6. \A n : Settled(n) => Settled(n)'
  BY <1>4, <1>5 DEF Settled
<1>7. \A n : n = Len(log') => Settled(n)'
  BY <1>2 DEF Settled
<1> QED BY <1>6, <1>7

LEMMA SettledNow == ASSUME TypeInv PROVE Settled(Len(log)) /\ Settled(0)
  BY DEF TypeInv, LogOK, Settled

LEMMA TypeScan ==
  ASSUME TypeInv, NEW p \in Process, Scan(p)
  PROVE  TypeInv'
<1>1. PICK edit \in Edits :
        /\ disk' = Found(edit)
        /\ log' = log \o NewRows(Observations(Found(edit)))
        /\ Begin(p, Len(log) + Len(NewRows(Observations(Found(edit)))))
  BY DEF Scan
<1> DEFINE found == Found(edit)
<1>2. found \in [Locator -> State] /\ \A l \in Locator : found[l].at <= passes + 1
  BY FoundType
<1>3. disk' = found /\ Grows(found) /\ UNCHANGED <<applied, tables>>
      /\ calm' = [q \in Process |-> q = p]
  BY <1>1 DEF Grows, Scan
<1>4. Begin(p, Len(log) + Len(NewRows(Observations(found))))
  BY <1>1
<1> HIDE DEF found
<1>5. Len(log') = Len(log) + Len(NewRows(Observations(found))) /\ Len(log) <= Len(log')
      /\ Len(log) \in Nat /\ Len(log') \in Nat
  BY <1>2, <1>3, GrownLog DEF TypeInv, LogOK
<1>6. LogOK'
  BY <1>2, <1>3, GrownLogOK
<1>7. DiskOK'
  BY <1>2, <1>3 DEF DiskOK, TypeInv, Grows
<1>8. TablesOK'
  <2>1. passes \in Nat /\ passes' = passes + 1
    BY <1>3 DEF Grows, TypeInv, DiskOK
  <2>2. applied' \in 0 .. Len(log')
    BY <1>3, <1>5 DEF TypeInv, TablesOK
  <2>3. relations' \subseteq [type : {"renamed-from", "compare-set-with"},
                              new : Locator, old : Locator, pass : 1 .. passes']
    <3>1. 1 .. passes \subseteq 1 .. passes'
      BY <2>1
    <3>2. relations' = relations
      BY <1>3 DEF tables
    <3> HIDE DEF Locator
    <3> QED BY <3>1, <3>2 DEF TypeInv, TablesOK
  <2>4. projects' = projects /\ findings' = findings
    BY <1>3 DEF tables
  <2> QED BY <2>2, <2>3, <2>4 DEF TypeInv, TablesOK
<1>9. \A n : n = Len(log') \/ Settled(n) => Settled(n)'
  BY <1>2, <1>3, GrownSettled
<1>10. ASSUME NEW q \in Process PROVE RunOK(q)'
  <2>1. CASE q = p
    <3>1. run'[p] = [pc |-> "apply"] /\ from'[p] = Len(log')
      BY <1>4, <1>5 DEF Begin, TypeInv, RunsOK
    <3>2. run'[q].pc = "apply" /\ Settled(from[q])'
      BY <1>9, <2>1, <3>1
    <3> QED BY <3>2 DEF RunOK, Steps
  <2>2. CASE q # p
    <3>1. run'[q] = run[q] /\ from'[q] = from[q] /\ RunOK(q)
      BY <1>4, <2>2 DEF Begin, TypeInv, RunsOK
    <3> QED BY <1>9, <3>1 DEF RunOK
  <2> QED BY <2>1, <2>2
<1>11. DOMAIN run' = Process /\ DOMAIN from' = Process /\ DOMAIN calm' = Process
  BY <1>3, <1>4 DEF Begin, TypeInv, RunsOK
<1> QED BY <1>6, <1>7, <1>8, <1>10, <1>11 DEF TypeInv, RunsOK

\* A step of p that appends nothing, and leaves the other commands alone.
LEMMA TypeOwn ==
  ASSUME TypeInv, NEW p \in Process, UNCHANGED <<disk, log, passes>>, TablesOK',
         RunOK(p)', DOMAIN run' = Process, DOMAIN from' = Process, DOMAIN calm' = Process,
         \A q \in Process : q # p => run'[q] = run[q] /\ from'[q] = from[q]
  PROVE  TypeInv'
<1>1. LogOK' /\ DiskOK'
  BY DEF TypeInv, LogOK, DiskOK, Supersedes
<1>2. \A n : Settled(n) => Settled(n)'
  BY DEF Settled
<1>3. ASSUME NEW q \in Process PROVE RunOK(q)'
  <2>1. CASE q # p
    <3>1. RunOK(q) /\ run'[q] = run[q] /\ from'[q] = from[q]
      BY <2>1 DEF TypeInv, RunsOK
    <3> QED BY <1>2, <3>1 DEF RunOK
  <2> QED BY <2>1
<1> QED BY <1>1, <1>3 DEF TypeInv, RunsOK

\* A step that puts p at another place and changes no table.
LEMMA TypeGoto ==
  ASSUME TypeInv, NEW p \in Process, NEW step, Goto(p, step),
         UNCHANGED <<disk, log, applied, passes, tables>>,
         (run'[p] = step /\ from'[p] = from[p]) => RunOK(p)'
  PROVE  TypeInv'
<1>1. /\ run'[p] = step /\ from' = from /\ calm' = calm
      /\ \A q \in Process : q # p => run'[q] = run[q]
      /\ DOMAIN run' = Process
  BY DEF Goto, history, TypeInv, RunsOK
<1>2. TablesOK'
  BY DEF tables, TypeInv, TablesOK
<1>3. DOMAIN from' = Process /\ DOMAIN calm' = Process
  BY <1>1 DEF TypeInv, RunsOK
<1> QED BY <1>1, <1>2, <1>3, TypeOwn

Bases == {"manifest", "native-marker"}

Rules == {"duplicate-content", "ambiguous-origin", "manifest-invalid"}

\* A step of one command.
Step(p) ==
  \/ Scan(p) \/ Import(p) \/ Apply(p)
  \/ ReadTombstones(p) \/ ReadArrivals(p) \/ InsertRelations(p)
  \/ ReadManifests(p) \/ ReadMarkers(p) \/ ReadMembers(p) \/ ReplaceProjects(p)
  \/ ReadFiles(p) \/ ReadAmbiguities(p) \/ ReadInvalid(p) \/ Detect(p)
  \/ Abandon(p)

LEMMA StepOfOne == ASSUME NEW p \in Process, Step(p) PROVE \E x : run' = [run EXCEPT ![p] = x]
  BY DEF Step, Scan, Import, Apply, ReadTombstones, ReadArrivals, InsertRelations,
         ReadManifests, ReadMarkers, ReadMembers, ReplaceProjects, ReadFiles,
         ReadAmbiguities, ReadInvalid, Detect, Abandon, Begin, Goto, Stop

\* What passes append is all that the log gets, and all that the tree changes.
LEMMA OnlyScanAppends ==
  ASSUME NEW p \in Process, Step(p), ~ Scan(p)
  PROVE  UNCHANGED <<disk, log, passes>>
  BY DEF Step, Import, Apply, ReadTombstones, ReadArrivals, InsertRelations, ReadManifests,
         ReadMarkers, ReadMembers, ReplaceProjects, ReadFiles, ReadAmbiguities, ReadInvalid,
         Detect, Abandon

LEMMA TypeNext == TypeInv /\ [Next]_vars => TypeInv'
<1> SUFFICES ASSUME TypeInv, [Next]_vars PROVE TypeInv'
  OBVIOUS
<1>1. CASE UNCHANGED vars
  BY <1>1 DEF vars, history, TypeInv, LogOK, Supersedes, DiskOK, TablesOK, RunsOK, RunOK, Settled
<1>2. ASSUME NEW p \in Process, Step(p)
      PROVE  TypeInv'
  <2>0. /\ Settled(Len(log)) /\ Settled(0) /\ RunOK(p) /\ Len(log) \in Nat
        /\ DOMAIN run = Process /\ DOMAIN from = Process /\ DOMAIN calm = Process
    BY SettledNow DEF TypeInv, RunsOK, LogOK
  <2>1. CASE Scan(p)
    BY <2>1, TypeScan
  <2>2. CASE Import(p)
    <3>1. /\ run' = [run EXCEPT ![p] = [pc |-> "apply"]]
          /\ from' = [from EXCEPT ![p] = Len(log)]
          /\ calm' = [calm EXCEPT ![p] = TRUE]
          /\ UNCHANGED <<disk, log, applied, passes, tables>>
      BY <2>2 DEF Import, Begin
    <3>2. RunOK(p)'
      <4>1. run'[p].pc = "apply" /\ from'[p] = Len(log)
        BY <2>0, <3>1
      <4>2. Settled(from[p])'
        BY <2>0, <3>1, <4>1 DEF Settled
      <4> QED BY <4>1, <4>2 DEF RunOK, Steps
    <3>3. TablesOK'
      BY <3>1 DEF tables, TypeInv, TablesOK
    <3> QED BY <2>0, <3>1, <3>2, <3>3, TypeOwn
  <2>3. CASE Apply(p)
    <3>1. /\ run' = [run EXCEPT ![p] = [pc |-> "gone"]]
          /\ from' = from /\ applied' = Len(log) /\ DOMAIN calm' = Process
          /\ UNCHANGED <<disk, log, passes, tables>>
      BY <2>3 DEF Apply
    <3>2. RunOK(p)'
      <4>1. run'[p].pc = "gone" /\ from'[p] = from[p]
        BY <2>0, <3>1
      <4>2. Settled(from[p])'
        BY <2>0, <3>1 DEF Settled, RunOK
      <4> QED BY <4>1, <4>2 DEF RunOK, Steps
    <3>3. TablesOK'
      BY <2>0, <3>1 DEF tables, TypeInv, TablesOK
    <3> QED BY <2>0, <3>1, <3>2, <3>3, TypeOwn
  <2>4. CASE ReadTombstones(p)
    <3> DEFINE step == IF Tombstones(log) = {} THEN [pc |-> "manifests"]
                                               ELSE [pc |-> "arrived", gone |-> Len(log)]
    <3>1. Goto(p, step) /\ UNCHANGED <<disk, log, applied, passes, tables>>
      BY <2>4 DEF ReadTombstones
    <3>2. ASSUME run'[p] = step, from'[p] = from[p] PROVE RunOK(p)'
      <4>1. Settled(from[p])' /\ Settled(Len(log)) /\ from[p] <= Len(log)
        BY <2>0, <3>1, <3>2 DEF RunOK, Settled
      <4>2. \A n : Settled(n) => Settled(n)'
        BY <3>1 DEF Settled
      <4>3. CASE Tombstones(log) = {}
        <5>1. run'[p].pc = "manifests"
          BY <3>2, <4>3
        <5> QED BY <4>1, <5>1 DEF RunOK, Steps
      <4>4. CASE Tombstones(log) # {}
        <5>1. run'[p].pc = "arrived" /\ run'[p].gone = Len(log)
          BY <3>2, <4>4
        <5> QED BY <3>2, <4>1, <4>2, <5>1 DEF RunOK, Steps
      <4> QED BY <4>3, <4>4
    <3> HIDE DEF step
    <3> QED BY <3>1, <3>2, TypeGoto
  <2>5. CASE ReadArrivals(p)
    <3> DEFINE step == [pc |-> "insert", gone |-> run[p].gone, arrived |-> Len(log)]
    <3>1. /\ Goto(p, step) /\ UNCHANGED <<disk, log, applied, passes, tables>>
          /\ run[p].pc = "arrived"
      BY <2>5 DEF ReadArrivals
    <3>2. ASSUME run'[p] = step, from'[p] = from[p] PROVE RunOK(p)'
      <4>1. /\ Settled(from[p])' /\ Settled(Len(log)) /\ from[p] <= run[p].gone
            /\ Settled(run[p].gone) /\ run[p].gone <= Len(log)
        BY <2>0, <3>1, <3>2 DEF RunOK, Settled
      <4>2. \A n : Settled(n) => Settled(n)'
        BY <3>1 DEF Settled
      <4>3. /\ run'[p].pc = "insert" /\ run'[p].gone = run[p].gone
            /\ run'[p].arrived = Len(log)
        BY <3>2
      <4> QED BY <3>2, <4>1, <4>2, <4>3 DEF RunOK, Steps
    <3> HIDE DEF step
    <3> QED BY <3>1, <3>2, TypeGoto
  <2>6. CASE InsertRelations(p)
    <3>1. /\ run[p].pc = "insert" /\ Goto(p, [pc |-> "manifests"])
          /\ UNCHANGED <<disk, log, applied, passes, projects, findings>>
          /\ relations' = relations \cup
               DetectRenames(Tombstones(Rows(run[p].gone)), Arrivals(Rows(run[p].arrived)))
      BY <2>6 DEF InsertRelations
    <3>2. run[p].gone \in 0 .. Len(log) /\ run[p].arrived \in 0 .. Len(log)
      BY <2>0, <3>1 DEF RunOK, Settled
    <3>3. TablesOK'
      BY <3>1, <3>2, RenamesType DEF TypeInv, TablesOK
    <3>4. run' = [run EXCEPT ![p] = [pc |-> "manifests"]] /\ from' = from /\ calm' = calm
      BY <3>1 DEF Goto, history
    <3>5. RunOK(p)'
      <4>1. run'[p].pc = "manifests"
        BY <2>0, <3>4
      <4>2. Settled(from[p])'
        BY <2>0, <3>1, <3>4 DEF RunOK, Settled
      <4> QED BY <4>1, <4>2 DEF RunOK, Steps
    <3> QED BY <2>0, <3>1, <3>3, <3>4, <3>5, TypeOwn
  <2>7. CASE ReadManifests(p)
    <3> DEFINE step == [pc |-> "markers", manifests |-> LatestManifests]
    <3>1. Goto(p, step) /\ UNCHANGED <<disk, log, applied, passes, tables>>
      BY <2>7 DEF ReadManifests
    <3>2. ASSUME run'[p] = step, from'[p] = from[p] PROVE RunOK(p)'
      <4>1. run'[p].pc = "markers"
        BY <3>2
      <4>2. Settled(from[p])'
        BY <2>0, <3>1, <3>2 DEF RunOK, Settled
      <4> QED BY <4>1, <4>2 DEF RunOK, Steps
    <3> HIDE DEF step
    <3> QED BY <3>1, <3>2, TypeGoto
  <2>8. CASE ReadMarkers(p)
    <3> DEFINE plan == ResolveProjects(run[p].manifests, LatestMarkers)
               step == [pc |-> "members", plan |-> plan]
    <3>1. Goto(p, step) /\ UNCHANGED <<disk, log, applied, passes, tables>>
      BY <2>8 DEF ReadMarkers
    <3>2. \A q \in plan : q.basis \in Bases
      BY DEF ResolveProjects, Declared, Suggested, Bases
    <3> HIDE DEF plan
    <3>3. ASSUME run'[p] = step, from'[p] = from[p] PROVE RunOK(p)'
      <4>1. run'[p].pc = "members" /\ run'[p].plan = plan
        BY <3>3
      <4>2. Settled(from[p])'
        BY <2>0, <3>1, <3>3 DEF RunOK, Settled
      <4> QED BY <3>2, <4>1, <4>2 DEF RunOK, Steps, Bases
    <3> HIDE DEF step
    <3> QED BY <3>1, <3>3, TypeGoto
  <2>9. CASE ReadMembers(p)
    <3> DEFINE rows == FileProjects(run[p].plan, Present(applied))
               step == [pc |-> "replace", rows |-> rows]
    <3>1. /\ Goto(p, step) /\ UNCHANGED <<disk, log, applied, passes, tables>>
          /\ run[p].pc = "members"
      BY <2>9 DEF ReadMembers
    <3>2. \A m \in rows : m.loc \in Locator /\ m.basis \in Bases
      <4>1. \A q \in run[p].plan : q.basis \in Bases
        BY <2>0, <3>1 DEF RunOK, Bases
      <4>2. Present(applied) \subseteq Locator
        BY DEF Present
      <4> QED BY <4>1, <4>2 DEF FileProjects
    <3> HIDE DEF rows
    <3>3. ASSUME run'[p] = step, from'[p] = from[p] PROVE RunOK(p)'
      <4>1. run'[p].pc = "replace" /\ run'[p].rows = rows
        BY <3>3
      <4>2. Settled(from[p])'
        BY <2>0, <3>1, <3>3 DEF RunOK, Settled
      <4> QED BY <3>2, <4>1, <4>2 DEF RunOK, Steps, Bases
    <3> HIDE DEF step
    <3> QED BY <3>1, <3>3, TypeGoto
  <2>10. CASE ReplaceProjects(p)
    <3>1. /\ run[p].pc = "replace" /\ Goto(p, [pc |-> "files"])
          /\ UNCHANGED <<disk, log, applied, passes, relations, findings>>
          /\ projects' = run[p].rows
      BY <2>10 DEF ReplaceProjects
    <3>2. TablesOK'
      BY <2>0, <3>1 DEF TypeInv, TablesOK, RunOK
    <3>3. run' = [run EXCEPT ![p] = [pc |-> "files"]] /\ from' = from /\ calm' = calm
      BY <3>1 DEF Goto, history
    <3>4. RunOK(p)'
      <4>1. run'[p].pc = "files"
        BY <2>0, <3>3
      <4>2. Settled(from[p])'
        BY <2>0, <3>1, <3>3 DEF RunOK, Settled
      <4> QED BY <4>1, <4>2 DEF RunOK, Steps
    <3> QED BY <2>0, <3>1, <3>2, <3>3, <3>4, TypeOwn
  <2>11. ASSUME NEW pc \in {"ambiguous", "invalid", "detect"}, NEW found,
                \A f \in found : f.rule \in Rules,
                Goto(p, [pc |-> pc, found |-> found]),
                UNCHANGED <<disk, log, applied, passes, tables>>
         PROVE  TypeInv'
    <3> DEFINE step == [pc |-> pc, found |-> found]
    <3>1. ASSUME run'[p] = step, from'[p] = from[p] PROVE RunOK(p)'
      <4>1. run'[p].pc = pc /\ run'[p].found = found
        BY <3>1
      <4>2. Settled(from[p])'
        BY <2>0, <2>11, <3>1 DEF RunOK, Settled
      <4>3. pc \in Steps /\ pc \notin {"arrived", "insert", "members", "replace"}
        BY DEF Steps
      <4> QED BY <2>11, <4>1, <4>2, <4>3 DEF RunOK, Rules
    <3> HIDE DEF step
    <3>2. Goto(p, step)
      BY <2>11 DEF step
    <3> QED BY <2>11, <3>1, <3>2, TypeGoto
  <2>12. CASE ReadFiles(p)
    <3>1. \A f \in Duplicates(Present(applied)) : f.rule \in Rules
      <4> DEFINE D == {d \in Content \ Blank :
                         Cardinality({l \in Present(applied) : DigestOf(applied, l) = d
                                                                /\ ~ Vendored(l)}) > 1}
      <4>1. Duplicates(Present(applied)) = {[rule |-> "duplicate-content", key |-> d] : d \in D}
        BY DEF Duplicates
      <4> HIDE DEF D
      <4> QED BY <4>1 DEF Rules
    <3> QED BY <2>11, <2>12, <3>1 DEF ReadFiles
  <2>13. CASE ReadAmbiguities(p)
    <3>1. \A f \in run[p].found \cup Ambiguous : f.rule \in Rules
      BY <2>0, <2>13 DEF Ambiguous, Rules, ReadAmbiguities, RunOK
    <3> QED BY <2>11, <2>13, <3>1 DEF ReadAmbiguities
  <2>14. CASE ReadInvalid(p)
    <3>1. \A f \in run[p].found \cup BadManifests : f.rule \in Rules
      BY <2>0, <2>14 DEF BadManifests, Rules, ReadInvalid, RunOK
    <3> QED BY <2>11, <2>14, <3>1 DEF ReadInvalid
  <2>15. CASE Detect(p) \/ Abandon(p)
    <3>1. /\ Stop(p) /\ UNCHANGED <<disk, log, applied, passes, relations, projects>>
          /\ \/ findings' = findings
             \/ run[p].pc = "detect" /\ findings' = run[p].found
      <4>1. CASE Detect(p)
        BY <4>1 DEF Detect
      <4>2. CASE Abandon(p)
        <5>1. Stop(p) /\ UNCHANGED <<disk, log, applied, passes, tables>>
          BY <4>2 DEF Abandon
        <5> QED BY <5>1 DEF tables
      <4> QED BY <2>15, <4>1, <4>2
    <3>2. /\ run' = [run EXCEPT ![p] = [pc |-> "idle"]]
          /\ from' = [from EXCEPT ![p] = 0] /\ calm' = [calm EXCEPT ![p] = FALSE]
      BY <3>1 DEF Stop, Idle
    <3>3. TablesOK'
      BY <2>0, <3>1 DEF TypeInv, TablesOK, RunOK
    <3>4. RunOK(p)'
      <4>1. run'[p].pc = "idle" /\ from'[p] = 0
        BY <2>0, <3>2
      <4>2. Settled(from[p])'
        BY <2>0, <3>1, <4>1 DEF Settled
      <4> QED BY <4>1, <4>2 DEF RunOK, Steps
    <3> QED BY <2>0, <3>1, <3>2, <3>3, <3>4, TypeOwn
  <2> QED BY <1>2, <2>1, <2>2, <2>3, <2>4, <2>5, <2>6, <2>7, <2>8, <2>9, <2>10,
             <2>12, <2>13, <2>14, <2>15 DEF Step
<1> QED BY <1>1, <1>2 DEF Next, Step

LEMMA TypeAlways == Spec => []TypeInv
  BY TypeInit, TypeNext, PTL DEF Spec

\* ids are never used twice, a tombstone is about the file its predecessor saw, and
\* what the projections store is well typed: Append, DeriveID and TombstoneID, and the
\* writers of artifact_relations, file_projects and findings.
THEOREM TypeCorrect == Spec => []TypeOK
<1>1. TypeInv => TypeOK
  <2> SUFFICES ASSUME TypeInv PROVE TypeOK
    OBVIOUS
  <2>1. disk \in [Locator -> [dig : Content \cup {Gone}, at : 0 .. passes]]
    <3>1. \A l \in Locator : disk[l] \in State /\ disk[l].at \in 0 .. passes
      BY DEF TypeInv, DiskOK, State
    <3> QED BY <3>1 DEF TypeInv, DiskOK, State
  <2>2. DOMAIN log = 1 .. Len(log) /\ passes \in Nat
    BY DEF TypeInv, LogOK, DiskOK
  <2>3. \A i \in DOMAIN log : log[i].pass \in 0 .. passes
    <3>1. \A i \in DOMAIN log : log[i] \in RowType /\ log[i].pass <= passes
      BY <2>2 DEF TypeInv, LogOK
    <3> QED BY <2>2, <3>1 DEF RowType
  <2>4. \A i, j \in DOMAIN log : log[i].id = log[j].id => i = j
    BY <2>2 DEF TypeInv, LogOK
  <2>5. \A i \in DOMAIN log : Supersedes(i)
    BY <2>2 DEF TypeInv, LogOK
  <2> QED BY <2>1, <2>3, <2>4, <2>5 DEF TypeOK, TypeInv, TablesOK, Supersedes
<1> QED BY <1>1, TypeAlways, PTL

-----------------------------------------------------------------------------
(* Renames.                                                                 *)

\* The rows of a pass are on one side of a settled end.
LEMMA InPass ==
  ASSUME TypeInv, NEW n, Settled(n), NEW i \in 1 .. n,
         NEW j \in 1 .. Len(log), log[j].pass = log[i].pass
  PROVE  j \in 1 .. n
<1>1. n \in Nat /\ Len(log) \in Nat /\ i \in 1 .. Len(log)
  BY DEF TypeInv, LogOK, Settled
<1>2. log[i].pass \in Nat
  <2>1. log[i] \in RowType
    BY <1>1 DEF TypeInv, LogOK
  <2> QED BY <2>1 DEF RowType
<1>3. j \notin n + 1 .. Len(log)
  BY <1>2 DEF Settled
<1> QED BY <1>1, <1>3

\* A file has one tombstone in a pass at most; what it superseded is content.
LEMMA GoneOnce ==
  ASSUME TypeInv, NEW i \in 1 .. Len(log), Absent(log[i])
  PROVE  /\ log[log[i].prior].dig \in Content
         /\ \A j \in 1 .. Len(log) :
              Absent(log[j]) /\ log[j].loc = log[i].loc /\ log[j].pass = log[i].pass => j = i
<1>1. Supersedes(i) /\ Len(log) \in Nat
  BY DEF TypeInv, LogOK
<1>2. log[i].prior \in 1 .. Len(log) /\ log[log[i].prior].claim = "file"
  BY <1>1 DEF Supersedes
<1>3. RowOK(log[log[i].prior])
  BY <1>2 DEF TypeInv, LogOK
<1>4. log[log[i].prior].dig \in Content
  BY <1>2, <1>3 DEF RowOK
<1>5. \A j \in 1 .. Len(log) :
        Absent(log[j]) /\ log[j].loc = log[i].loc /\ log[j].pass = log[i].pass => j = i
  BY DEF TypeInv, LogOK, Absent
<1> QED BY <1>4, <1>5

\* One side of a pass: the files X with the content d; and of any side what identifies
\* something.
Side(X, d, k) == {[loc |-> x, dig |-> d, pass |-> k] : x \in X}

Telling(side) == {t \in side : t.dig \notin Blank}

LEMMA GoneOfPass ==
  ASSUME TypeInv, NEW n, Settled(n), NEW i \in 1 .. n,
         NEW s, s.pass = log[i].pass, s.dig \notin Blank
  PROVE  Bucket(Telling(Tombstones(Rows(n))), s) = Side(Left(s.pass, s.dig), s.dig, s.pass)
<1> DEFINE k == s.pass
           d == s.dig
           T == Tombstones(Rows(n))
           N == {j \in 1 .. n : Absent(log[j])}
           M == {j \in DOMAIN log :
                   log[j].pass = k /\ Absent(log[j]) /\ log[log[j].prior].dig = d}
<1>1. n \in 0 .. Len(log) /\ DOMAIN log = 1 .. Len(log) /\ Len(log) \in Nat
  BY DEF Settled, TypeInv, LogOK
<1>2. T = {[loc |-> log[j].loc, dig |-> log[log[j].prior].dig, pass |-> log[j].pass] : j \in N}
  BY <1>1, TombstonesAre
<1>3. \A j \in M : j \in N
  BY <1>1, InPass
<1>4. \A j \in N : log[j].pass = k /\ log[log[j].prior].dig = d => j \in M
  BY <1>1
<1>5. \A j \in M : log[j].pass = k /\ log[log[j].prior].dig = d
  OBVIOUS
<1>6. Left(k, d) = {log[j].loc : j \in M}
  BY DEF Left
<1>7. d \notin Blank
  OBVIOUS
<1>8. Bucket(Telling(T), s) = {t \in T : t.pass = k /\ t.dig = d}
  BY <1>7 DEF Bucket, Telling
<1> HIDE DEF T, N, M, k, d
<1>9. {t \in T : t.pass = k /\ t.dig = d} = {[loc |-> log[j].loc, dig |-> d, pass |-> k] : j \in M}
  BY <1>2, <1>3, <1>4, <1>5
<1> QED BY <1>6, <1>8, <1>9 DEF Side, T, k, d

LEMMA CameOfPass ==
  ASSUME TypeInv, NEW n, Settled(n), NEW i \in 1 .. n,
         NEW s, s.pass = log[i].pass, s.dig \notin Blank
  PROVE  Bucket(Telling(Arrivals(Rows(n))), s) = Side(Came(s.pass, s.dig), s.dig, s.pass)
<1> DEFINE k == s.pass
           d == s.dig
           T == Arrivals(Rows(n))
           N == {j \in 1 .. n : Arrives(j)}
           M == {j \in DOMAIN log : log[j].pass = k /\ log[j].dig = d /\ Arrives(j)}
<1>1. n \in 0 .. Len(log) /\ DOMAIN log = 1 .. Len(log) /\ Len(log) \in Nat
  BY DEF Settled, TypeInv, LogOK
<1>2. T = {[loc |-> log[j].loc, dig |-> log[j].dig, pass |-> log[j].pass] : j \in N}
  BY <1>1, ArrivalsAre
<1>3. \A j \in M : j \in N
  BY <1>1, InPass
<1>4. \A j \in N : log[j].pass = k /\ log[j].dig = d => j \in M
  BY <1>1
<1>5. \A j \in M : log[j].pass = k /\ log[j].dig = d
  OBVIOUS
<1>6. Came(k, d) = {log[j].loc : j \in M}
  <2>1. \A j \in M : log[j].loc \in Locator
    BY <1>1 DEF Arrives, TypeInv, LogOK, RowOK
  <2>2. \A l \in Came(k, d) : \E j \in M : log[j].loc = l
    BY DEF Came, Arrives
  <2>3. \A j \in M : log[j].loc \in Came(k, d)
    BY <2>1 DEF Came, Arrives
  <2>4. Came(k, d) \subseteq {log[j].loc : j \in M}
    BY <2>2
  <2> QED BY <2>3, <2>4
<1>7. d \notin Blank
  OBVIOUS
<1>8. Bucket(Telling(T), s) = {t \in T : t.pass = k /\ t.dig = d}
  BY <1>7 DEF Bucket, Telling
<1> HIDE DEF T, N, M, k, d
<1>9. {t \in T : t.pass = k /\ t.dig = d} = {[loc |-> log[j].loc, dig |-> d, pass |-> k] : j \in M}
  BY <1>2, <1>3, <1>4, <1>5
<1> QED BY <1>6, <1>8, <1>9 DEF Side, T, k, d

LEMMA OneOfSide ==
  ASSUME NEW X, IsFiniteSet(X), NEW d, NEW k
  PROVE  Cardinality(Side(X, d, k)) = 1 <=> \E x : X = {x}
<1>1. IsFiniteSet(Side(X, d, k))
  <2> DEFINE f == [x \in X |-> [loc |-> x, dig |-> d, pass |-> k]]
  <2>1. f \in Surjection(X, Side(X, d, k))
    BY DEF Side, Surjection
  <2> HIDE DEF f
  <2> QED BY <2>1, FS_Surjection
<1>2. Cardinality(Side(X, d, k)) = 1 <=> \E t : Side(X, d, k) = {t}
  BY <1>1, FS_Singleton
<1>3. ASSUME NEW t, Side(X, d, k) = {t} PROVE X = {t.loc}
  <2>1. t \in Side(X, d, k)
    BY <1>3
  <2>2. \A x \in X : [loc |-> x, dig |-> d, pass |-> k] = t
    BY <1>3 DEF Side
  <2>3. \A x \in X : x = t.loc
    BY <2>2
  <2>4. \E x \in X : t = [loc |-> x, dig |-> d, pass |-> k]
    BY <2>1 DEF Side
  <2> QED BY <2>3, <2>4
<1>4. ASSUME NEW x, X = {x} PROVE Side(X, d, k) = {[loc |-> x, dig |-> d, pass |-> k]}
  BY <1>4 DEF Side
<1> QED BY <1>2, <1>3, <1>4

LEMMA LocatorFinite == IsFiniteSet(Locator)
<1>1. /\ DOMAIN LocOrder = 1 .. Len(LocOrder) /\ Len(LocOrder) \in Nat
  BY InferenceAssumption
<1>2. IsFiniteSet(1 .. Len(LocOrder))
  BY <1>1, FS_Interval
<1>3. LocOrder \in Surjection(1 .. Len(LocOrder), Locator)
  <2>1. Locator = {LocOrder[i] : i \in 1 .. Len(LocOrder)}
    BY <1>1 DEF Locator, ToSet
  <2>2. LocOrder \in [1 .. Len(LocOrder) -> Locator]
    BY InferenceAssumption
  <2> QED BY <2>1, <2>2 DEF Surjection
<1> QED BY <1>2, <1>3, FS_Surjection

LEMMA SidesFinite ==
  ASSUME TypeInv, NEW k, NEW d PROVE IsFiniteSet(Left(k, d)) /\ IsFiniteSet(Came(k, d))
<1>1. IsFiniteSet(Locator)
  BY LocatorFinite
<1>2. Left(k, d) \subseteq Locator
  BY DEF Left, Absent, TypeInv, LogOK, RowOK
<1>3. Came(k, d) \subseteq Locator
  BY DEF Came
<1> QED BY <1>1, <1>2, <1>3, FS_Subset

\* The two contents are told from all others of the pass.
Sole(k, d) == (\E x : Left(k, d) = {x}) /\ \E x : Came(k, d) = {x}

\* What is called a rename, and what is offered as candidates.
LEMMA DetectIs ==
  ASSUME NEW gone, NEW arrived, NEW r
  PROVE  r \in DetectRenames(gone, arrived) <=>
           \E g \in Telling(gone) :
             LET as == Bucket(Telling(arrived), g)
             IN  IF Cardinality(as) = 1 /\ Cardinality(Bucket(Telling(gone), g)) = 1
                 THEN \E a \in as : r = Call("renamed-from", a, g)
                 ELSE \E a \in Shown(as) : r = Call("compare-set-with", a, g)
<1> DEFINE calls(g) ==
             LET as == Bucket(Telling(arrived), g)
             IN  IF Cardinality(as) = 1 /\ Cardinality(Bucket(Telling(gone), g)) = 1
                 THEN {Call("renamed-from", a, g) : a \in as}
                 ELSE {Call("compare-set-with", a, g) : a \in Shown(as)}
<1>1. DetectRenames(gone, arrived) = UNION {calls(g) : g \in Telling(gone)}
  BY DEF DetectRenames, Telling
<1>2. \A g : r \in calls(g) <=>
             LET as == Bucket(Telling(arrived), g)
             IN  IF Cardinality(as) = 1 /\ Cardinality(Bucket(Telling(gone), g)) = 1
                 THEN \E a \in as : r = Call("renamed-from", a, g)
                 ELSE \E a \in Shown(as) : r = Call("compare-set-with", a, g)
  OBVIOUS
<1> HIDE DEF calls
<1>3. r \in DetectRenames(gone, arrived) <=> \E g \in Telling(gone) : r \in calls(g)
  BY <1>1
<1> QED BY <1>2, <1>3

\* What a detection that has read up to m and then up to n makes of a tombstone.
LEMMA DetectOfTombstone ==
  ASSUME TypeInv, NEW m, NEW n, Settled(m), Settled(n), m <= n,
         NEW g \in Telling(Tombstones(Rows(m))),
         NEW as, as = Bucket(Telling(Arrivals(Rows(n))), g)
  PROVE  /\ g.dig \in Content \ Blank
         /\ g.loc \in Left(g.pass, g.dig)
         /\ \A d : g.loc \in Left(g.pass, d) => d = g.dig
         /\ g.pass \in 1 .. passes
         /\ \A a : a \in as => a.pass = g.pass /\ a.loc \in Came(g.pass, g.dig)
         /\ \A x \in Came(g.pass, g.dig) : \E a \in as : a.pass = g.pass /\ a.loc = x
         /\ (Cardinality(as) = 1 /\ Cardinality(Bucket(Telling(Tombstones(Rows(m))), g)) = 1)
              <=> Sole(g.pass, g.dig)
<1>1. m \in 0 .. Len(log) /\ n \in 0 .. Len(log) /\ Len(log) \in Nat
      /\ DOMAIN log = 1 .. Len(log)
  BY DEF Settled, TypeInv, LogOK
<1>2. PICK i \in 1 .. m : /\ Absent(log[i])
                          /\ g = [loc |-> log[i].loc, dig |-> log[log[i].prior].dig,
                                  pass |-> log[i].pass]
  BY <1>1, TombstonesAre DEF Telling
<1>3. i \in 1 .. Len(log) /\ i \in 1 .. n
  BY <1>1
<1>4. g.pass = log[i].pass /\ g.loc = log[i].loc /\ g.dig = log[log[i].prior].dig
  BY <1>2
<1>5. g.dig \notin Blank
  BY DEF Telling
<1>6. g.dig \in Content \ Blank
  BY <1>2, <1>3, <1>4, <1>5, GoneOnce
<1>7. \A d : g.loc \in Left(g.pass, d) <=>
        \E j \in 1 .. Len(log) : /\ log[j].pass = log[i].pass /\ Absent(log[j])
                                 /\ log[log[j].prior].dig = d /\ log[j].loc = log[i].loc
  BY <1>1, <1>4 DEF Left
<1>8. g.loc \in Left(g.pass, g.dig)
  BY <1>2, <1>3, <1>4, <1>7
<1>9. \A d : g.loc \in Left(g.pass, d) => d = g.dig
  <2>1. \A j \in 1 .. Len(log) :
          Absent(log[j]) /\ log[j].loc = log[i].loc /\ log[j].pass = log[i].pass => j = i
    BY <1>2, <1>3, GoneOnce
  <2> QED BY <1>4, <1>7, <2>1
<1>10. g.pass \in 1 .. passes
  <2>1. log[i] \in RowType /\ RowOK(log[i]) /\ log[i].pass <= passes /\ passes \in Nat
    BY <1>3 DEF TypeInv, LogOK, DiskOK
  <2> QED BY <1>2, <1>4, <2>1 DEF RowType, RowOK, Absent
<1>11. /\ Bucket(Telling(Tombstones(Rows(m))), g) = Side(Left(g.pass, g.dig), g.dig, g.pass)
       /\ as = Side(Came(g.pass, g.dig), g.dig, g.pass)
  <2>1. Bucket(Telling(Tombstones(Rows(m))), g) = Side(Left(g.pass, g.dig), g.dig, g.pass)
    BY <1>4, <1>5, GoneOfPass
  <2>2. as = Side(Came(g.pass, g.dig), g.dig, g.pass)
    BY <1>3, <1>4, <1>5, CameOfPass
  <2> QED BY <2>1, <2>2
<1>12. /\ \A a : a \in as => a.pass = g.pass /\ a.loc \in Came(g.pass, g.dig)
       /\ \A x \in Came(g.pass, g.dig) : \E a \in as : a.pass = g.pass /\ a.loc = x
  <2> DEFINE k == g.pass
             d == g.dig
             X == Came(k, d)
  <2>1. as = {[loc |-> x, dig |-> d, pass |-> k] : x \in X}
    BY <1>11 DEF Side
  <2> HIDE DEF k, d, X
  <2>2. \A a : a \in as => a.pass = k /\ a.loc \in X
    BY <2>1
  <2>3. ASSUME NEW x \in X PROVE \E a \in as : a.pass = k /\ a.loc = x
    <3>1. [loc |-> x, dig |-> d, pass |-> k] \in as
      BY <2>1
    <3> QED BY <3>1
  <2> QED BY <2>2, <2>3 DEF k, d, X
<1>13. (Cardinality(as) = 1 /\ Cardinality(Bucket(Telling(Tombstones(Rows(m))), g)) = 1)
         <=> Sole(g.pass, g.dig)
  <2>1. IsFiniteSet(Left(g.pass, g.dig)) /\ IsFiniteSet(Came(g.pass, g.dig))
    BY SidesFinite
  <2>2. Cardinality(as) = 1 <=> \E x : Came(g.pass, g.dig) = {x}
    <3>1. Cardinality(Side(Came(g.pass, g.dig), g.dig, g.pass)) = 1
            <=> \E x : Came(g.pass, g.dig) = {x}
      BY <2>1, OneOfSide
    <3> QED BY <1>11, <3>1
  <2>3. Cardinality(Bucket(Telling(Tombstones(Rows(m))), g)) = 1
          <=> \E x : Left(g.pass, g.dig) = {x}
    <3>1. Cardinality(Side(Left(g.pass, g.dig), g.dig, g.pass)) = 1
            <=> \E x : Left(g.pass, g.dig) = {x}
      BY <2>1, OneOfSide
    <3> QED BY <1>11, <3>1
  <2> QED BY <2>2, <2>3 DEF Sole
<1> QED BY <1>6, <1>8, <1>9, <1>10, <1>12, <1>13

\* A detection calls a rename what was one, and offers no pair that was.
LEMMA DetectSound ==
  ASSUME TypeInv, NEW m, NEW n, Settled(m), Settled(n), m <= n,
         NEW r \in DetectRenames(Tombstones(Rows(m)), Arrivals(Rows(n)))
  PROVE  (r.type = "renamed-from") <=> Moved(r.pass, r.old, r.new)
<1> DEFINE gone == Tombstones(Rows(m))
           arrived == Arrivals(Rows(n))
<1>1. PICK g \in Telling(gone) :
             LET as == Bucket(Telling(arrived), g)
             IN  IF Cardinality(as) = 1 /\ Cardinality(Bucket(Telling(gone), g)) = 1
                 THEN \E a \in as : r = Call("renamed-from", a, g)
                 ELSE \E a \in Shown(as) : r = Call("compare-set-with", a, g)
  <2> HIDE DEF gone, arrived
  <2> QED BY DetectIs DEF gone, arrived
<1> DEFINE as == Bucket(Telling(arrived), g)
           k == g.pass
           d == g.dig
           one == Cardinality(as) = 1 /\ Cardinality(Bucket(Telling(gone), g)) = 1
<1>2. /\ d \in Content \ Blank
      /\ g.loc \in Left(k, d)
      /\ \A e : g.loc \in Left(k, e) => e = d
      /\ \A a : a \in as => a.pass = k /\ a.loc \in Came(k, d)
      /\ one <=> Sole(k, d)
  BY DetectOfTombstone
<1>3. IF one THEN \E a \in as : r = Call("renamed-from", a, g)
             ELSE \E a \in as : r = Call("compare-set-with", a, g)
  <2>1. Shown(as) \subseteq as
    BY ShownIsOffered
  <2> QED BY <1>1, <2>1
<1> HIDE DEF as, one
<1>4. CASE one
  <2>1. PICK a \in as : r = Call("renamed-from", a, g)
    BY <1>3, <1>4
  <2>2. r.type = "renamed-from" /\ r.pass = k /\ r.old = g.loc /\ r.new = a.loc
    BY <1>2, <2>1 DEF Call
  <2>3. Left(k, d) = {g.loc} /\ Came(k, d) = {a.loc}
    BY <1>2, <1>4 DEF Sole
  <2>4. Moved(k, g.loc, a.loc)
    <3> HIDE DEF d, k
    <3> QED BY <1>2, <2>3 DEF Moved
  <2> QED BY <2>2, <2>4
<1>5. CASE ~ one
  <2>1. PICK a \in as : r = Call("compare-set-with", a, g)
    BY <1>3, <1>5
  <2>2. r.type # "renamed-from" /\ r.pass = k /\ r.old = g.loc /\ r.new = a.loc
    BY <1>2, <2>1 DEF Call
  <2>3. ASSUME Moved(k, g.loc, a.loc) PROVE FALSE
    <3>1. PICK e \in Content \ Blank : Left(k, e) = {g.loc} /\ Came(k, e) = {a.loc}
      BY <2>3 DEF Moved
    <3>2. e = d
      BY <1>2, <3>1
    <3> QED BY <1>2, <1>5, <3>1, <3>2 DEF Sole
  <2> QED BY <2>2, <2>3
<1> QED BY <1>4, <1>5

\* A detection calls every rename there was in a pass it has read.
LEMMA DetectComplete ==
  ASSUME TypeInv, NEW m, NEW n, Settled(m), Settled(n), m <= n,
         NEW i \in 1 .. m, NEW old, NEW new, Moved(log[i].pass, old, new)
  PROVE  [type |-> "renamed-from", new |-> new, old |-> old, pass |-> log[i].pass]
           \in DetectRenames(Tombstones(Rows(m)), Arrivals(Rows(n)))
<1> DEFINE gone == Tombstones(Rows(m))
           arrived == Arrivals(Rows(n))
           k == log[i].pass
           r == [type |-> "renamed-from", new |-> new, old |-> old, pass |-> k]
<1>1. PICK d \in Content \ Blank : Left(k, d) = {old} /\ Came(k, d) = {new}
  BY DEF Moved
<1>2. PICK j \in 1 .. Len(log) : /\ log[j].pass = k /\ Absent(log[j])
                                 /\ log[log[j].prior].dig = d /\ log[j].loc = old
  <2>1. DOMAIN log = 1 .. Len(log)
    BY DEF TypeInv, LogOK
  <2> QED BY <1>1, <2>1 DEF Left
<1>3. j \in 1 .. m
  BY <1>2, InPass
<1> DEFINE g == [loc |-> old, dig |-> d, pass |-> k]
<1>4. g \in Telling(gone)
  <2>1. m \in 0 .. Len(log)
    BY DEF Settled
  <2>2. g \in gone
    BY <1>2, <1>3, <2>1, TombstonesAre
  <2> QED BY <1>1, <2>2 DEF Telling
<1> DEFINE as == Bucket(Telling(arrived), g)
           one == Cardinality(as) = 1 /\ Cardinality(Bucket(Telling(gone), g)) = 1
<1>5. g.loc = old /\ g.dig = d /\ g.pass = k
  OBVIOUS
<1> HIDE DEF g
<1>6. /\ one <=> Sole(k, d)
      /\ \A x \in Came(k, d) : \E a \in as : a.pass = k /\ a.loc = x
  <2>1. /\ one <=> Sole(g.pass, g.dig)
        /\ \A x \in Came(g.pass, g.dig) : \E a \in as : a.pass = g.pass /\ a.loc = x
    BY <1>4, DetectOfTombstone
  <2> HIDE DEF one, as, k
  <2> QED BY <1>5, <2>1
<1>7. one
  BY <1>1, <1>6 DEF Sole
<1>8. PICK a \in as : a.pass = k /\ a.loc = new
  BY <1>1, <1>6
<1>9. r = Call("renamed-from", a, g)
  BY <1>5, <1>8 DEF Call
<1>10. \E h \in Telling(gone) :
             LET hs == Bucket(Telling(arrived), h)
             IN  IF Cardinality(hs) = 1 /\ Cardinality(Bucket(Telling(gone), h)) = 1
                 THEN \E b \in hs : r = Call("renamed-from", b, h)
                 ELSE \E b \in Shown(hs) : r = Call("compare-set-with", b, h)
  BY <1>4, <1>7, <1>8, <1>9
<1> HIDE DEF gone, arrived, r
<1>11. r \in DetectRenames(gone, arrived)
  BY <1>10, DetectIs
<1> QED BY <1>11 DEF gone, arrived, r

\* A pass that is appended says nothing about what moved in the passes before it.
LEMMA MovedStays ==
  ASSUME TypeInv, NEW found \in [Locator -> State], Grows(found), NEW k \in 1 .. passes
  PROVE  \A old, new : Moved(k, old, new)' <=> Moved(k, old, new)
<1>1. /\ DOMAIN log = 1 .. Len(log) /\ DOMAIN log' = 1 .. Len(log')
      /\ Len(log) \in Nat /\ Len(log') \in Nat /\ Len(log) <= Len(log')
      /\ \A i \in 1 .. Len(log) : log'[i] = log[i]
  BY GrownLog DEF TypeInv, LogOK
<1>2. \A i \in Len(log) + 1 .. Len(log') : log'[i].pass # k
  BY GrownLogOK DEF TypeInv, DiskOK
<1>3. \A i \in 1 .. Len(log') : log'[i].pass = k => i \in 1 .. Len(log)
  BY <1>1, <1>2
<1>4. \A i \in 1 .. Len(log) : Absent(log[i]) => log'[log[i].prior] = log[log[i].prior]
  <2>1. \A i \in 1 .. Len(log) : Absent(log[i]) => log[i].prior \in 1 .. Len(log)
    BY <1>1 DEF TypeInv, LogOK, Supersedes
  <2> QED BY <1>1, <2>1
<1>5. \A i \in 1 .. Len(log) : \A j \in 1 .. i - 1 : log'[j] = log[j]
  BY <1>1
<1>6. ASSUME NEW d PROVE Left(k, d)' = Left(k, d) /\ Came(k, d)' = Came(k, d)
  <2> DEFINE M == {i \in DOMAIN log :
                     log[i].pass = k /\ Absent(log[i]) /\ log[log[i].prior].dig = d}
  <2>1. \A i : (/\ i \in DOMAIN log' /\ log'[i].pass = k /\ Absent(log'[i])
                /\ log'[log'[i].prior].dig = d) <=> i \in M
    BY <1>1, <1>3, <1>4
  <2>2. {i \in DOMAIN log' : log'[i].pass = k /\ Absent(log'[i]) /\ log'[log'[i].prior].dig = d} = M
    BY <2>1
  <2>3. \A i \in M : log'[i].loc = log[i].loc
    BY <1>1
  <2>4. Left(k, d) = {log[i].loc : i \in M}
    BY DEF Left
  <2>5. Left(k, d)' = {log'[i].loc : i \in M}
    BY <2>2 DEF Left, Absent
  <2>6. Left(k, d)' = Left(k, d)
    <3> HIDE DEF M
    <3> QED BY <2>3, <2>4, <2>5
  <2>7. \A i \in 1 .. Len(log) : Arrives(i)' <=> Arrives(i)
    BY <1>1, <1>5 DEF Arrives, Absent
  <2>8. ASSUME NEW l \in Locator PROVE l \in Came(k, d)' <=> l \in Came(k, d)
    <3>1. l \in Came(k, d) <=>
            \E i \in 1 .. Len(log) :
              log[i].pass = k /\ log[i].dig = d /\ log[i].loc = l /\ Arrives(i)
      BY <1>1 DEF Came, Arrives
    <3>2. l \in Came(k, d)' <=>
            \E i \in 1 .. Len(log') :
              log'[i].pass = k /\ log'[i].dig = d /\ log'[i].loc = l /\ Arrives(i)'
      BY <1>1 DEF Came, Arrives, Absent
    <3> QED BY <1>1, <1>3, <2>7, <3>1, <3>2
  <2>9. Came(k, d)' \subseteq Locator /\ Came(k, d) \subseteq Locator
    BY DEF Came
  <2> QED BY <2>6, <2>8, <2>9
<1> QED BY <1>6 DEF Moved

\* What is called a rename is what the content that left and came in its pass tells.
CalledAsMoved ==
  \A r \in relations :
    (r.type = "renamed-from") <=> Moved(r.pass, r.old, r.new)

LEMMA MovedAloneMoved ==
  ASSUME NEW k, NEW old, NEW new, MovedAlone(k, old, new)
  PROVE  Moved(k, old, new)
  BY DEF MovedAlone, Moved

LEMMA SoundInit == ASSUME Init PROVE CalledAsMoved
  BY DEF Init, CalledAsMoved

LEMMA SoundNext == TypeInv /\ CalledAsMoved /\ [Next]_vars => CalledAsMoved'
<1> SUFFICES ASSUME TypeInv, CalledAsMoved, [Next]_vars PROVE CalledAsMoved'
  OBVIOUS
<1>1. ASSUME log' = log, relations' = relations PROVE CalledAsMoved'
  <2>1. \A k, old, new : Moved(k, old, new)' <=> Moved(k, old, new)
    BY <1>1 DEF Moved, Left, Came, Absent
  <2> QED BY <1>1, <2>1 DEF CalledAsMoved
<1>2. ASSUME NEW p \in Process, Scan(p) PROVE CalledAsMoved'
  <2>1. PICK edit \in Edits :
          /\ disk' = Found(edit)
          /\ log' = log \o NewRows(Observations(Found(edit)))
          /\ Begin(p, Len(log) + Len(NewRows(Observations(Found(edit)))))
    BY <1>2 DEF Scan
  <2>2. Grows(Found(edit)) /\ Found(edit) \in [Locator -> State]
    BY <1>2, <2>1, FoundType DEF Grows, Scan
  <2>3. relations' = relations
    BY <1>2 DEF Scan, tables
  <2>4. \A r \in relations : r.pass \in 1 .. passes
    BY DEF TypeInv, TablesOK
  <2>5. \A k \in 1 .. passes : \A old, new : Moved(k, old, new)' <=> Moved(k, old, new)
    BY <2>2, MovedStays
  <2> QED BY <2>3, <2>4, <2>5 DEF CalledAsMoved
<1>3. ASSUME NEW p \in Process, InsertRelations(p) PROVE CalledAsMoved'
  <2>1. /\ run[p].pc = "insert" /\ log' = log
        /\ relations' = relations \cup
             DetectRenames(Tombstones(Rows(run[p].gone)), Arrivals(Rows(run[p].arrived)))
    BY <1>3 DEF InsertRelations
  <2>2. Settled(run[p].gone) /\ Settled(run[p].arrived) /\ run[p].gone <= run[p].arrived
    BY <2>1 DEF TypeInv, RunsOK, RunOK
  <2>3. \A r \in relations' : (r.type = "renamed-from") <=> Moved(r.pass, r.old, r.new)
    BY <2>1, <2>2, DetectSound DEF CalledAsMoved
  <2>4. \A k, old, new : Moved(k, old, new)' <=> Moved(k, old, new)
    BY <2>1 DEF Moved, Left, Came, Absent
  <2> QED BY <2>3, <2>4 DEF CalledAsMoved
<1>4. ASSUME NEW p \in Process, Step(p), ~ Scan(p), ~ InsertRelations(p) PROVE CalledAsMoved'
  <2>1. log' = log /\ (relations' = relations \/ UNCHANGED tables)
    BY <1>4 DEF Step, Import, Apply, ReadTombstones, ReadArrivals, ReadManifests, ReadMarkers,
                ReadMembers, ReplaceProjects, ReadFiles, ReadAmbiguities, ReadInvalid, Detect,
                Abandon
  <2> QED BY <1>1, <2>1 DEF tables
<1>5. CASE UNCHANGED vars
  BY <1>1, <1>5 DEF vars
<1> QED BY <1>2, <1>3, <1>4, <1>5 DEF Next, Step

\* DetectRenames: when it calls a rename, one content was gone from one place and came
\* to one place in that pass; and it never asks a person about a move of the only file
\* with a content.
THEOREM RenameSoundAlways == Spec => []RenameSound
<1>1. Init => TypeInv /\ CalledAsMoved
  BY TypeInit, SoundInit
<1>2. TypeInv /\ CalledAsMoved /\ [Next]_vars => (TypeInv /\ CalledAsMoved)'
  BY TypeNext, SoundNext
<1>3. CalledAsMoved => RenameSound
  BY MovedAloneMoved DEF CalledAsMoved, RenameSound
<1> QED BY <1>1, <1>2, <1>3, PTL DEF Spec

\* Who moves a command past its renames.
LEMMA PastRenames ==
  ASSUME TypeInv, Next, NEW p \in Process,
         run[p].pc \in {"gone", "insert"}, run'[p].pc = "manifests"
  PROVE  \/ run[p].pc = "gone" /\ Tombstones(log) = {}
         \/ InsertRelations(p)
<1>1. PICK q \in Process : Step(q)
  BY DEF Next, Step
<1>2. DOMAIN run = Process
  BY DEF TypeInv, RunsOK
<1>3. \E x : run' = [run EXCEPT ![q] = x]
  BY <1>1, StepOfOne
<1>4. q = p
  BY <1>2, <1>3
<1>5. ReadTombstones(p) \/ InsertRelations(p) \/ Abandon(p)
  BY <1>1, <1>4 DEF Step, Scan, Import, Apply, ReadArrivals,
              ReadManifests, ReadMarkers, ReadMembers, ReplaceProjects, ReadFiles,
              ReadAmbiguities, ReadInvalid, Detect
<1>6. CASE ReadTombstones(p)
  <2>1. run[p].pc = "gone" /\ run' = [run EXCEPT ![p] =
          IF Tombstones(log) = {} THEN [pc |-> "manifests"]
                                  ELSE [pc |-> "arrived", gone |-> Len(log)]]
    BY <1>6 DEF ReadTombstones, Goto
  <2>2. CASE Tombstones(log) # {}
    <3>1. run'[p] = [pc |-> "arrived", gone |-> Len(log)]
      BY <1>2, <2>1, <2>2
    <3>2. run'[p].pc = "arrived"
      BY <3>1
    <3> QED BY <3>2
  <2> QED BY <2>1, <2>2
<1>7. CASE Abandon(p)
  <2>1. run' = [run EXCEPT ![p] = [pc |-> "idle"]]
    BY <1>7 DEF Abandon, Stop, Idle
  <2>2. run'[p].pc = "idle"
    BY <1>2, <2>1
  <2> QED BY <2>2
<1> QED BY <1>5, <1>6, <1>7

\* ProjectRenames: a command that is through with its renames has stored every move of
\* the only file with a content in the log it began with, those of passes whose own
\* command was killed before it could.
THEOREM RenamesCompleteAlways == Spec => RenamesComplete
<1> DEFINE Complete ==
             \A p \in Process :
               run[p].pc \in {"gone", "insert"} /\ run'[p].pc = "manifests" =>
                 \A i \in 1 .. from[p], old, new \in Locator :
                   MovedAlone(log[i].pass, old, new) =>
                     [type |-> "renamed-from", new |-> new, old |-> old, pass |-> log[i].pass]
                       \in relations'
<1>1. TypeInv /\ [Next]_vars => [Complete]_vars
  <2> SUFFICES ASSUME TypeInv, Next, NEW p \in Process,
                      run[p].pc \in {"gone", "insert"}, run'[p].pc = "manifests",
                      NEW i \in 1 .. from[p], NEW old \in Locator, NEW new \in Locator,
                      MovedAlone(log[i].pass, old, new)
               PROVE  [type |-> "renamed-from", new |-> new, old |-> old, pass |-> log[i].pass]
                        \in relations'
    OBVIOUS
  <2>0. Moved(log[i].pass, old, new)
    BY MovedAloneMoved
  <2>1. CASE Tombstones(log) = {}
    <3>1. PICK d : Left(log[i].pass, d) = {old}
      BY <2>0 DEF Moved
    <3>2. PICK j \in DOMAIN log : Absent(log[j])
      BY <3>1 DEF Left
    <3>3. Tombstones(log) # {}
      BY <3>2 DEF Tombstones
    <3> QED BY <2>1, <3>3
  <2>2. CASE InsertRelations(p)
    <3>1. /\ run[p].pc = "insert"
          /\ relations' = relations \cup
               DetectRenames(Tombstones(Rows(run[p].gone)), Arrivals(Rows(run[p].arrived)))
      BY <2>2 DEF InsertRelations
    <3>2. /\ Settled(run[p].gone) /\ Settled(run[p].arrived) /\ run[p].gone <= run[p].arrived
          /\ Settled(from[p]) /\ from[p] <= run[p].gone
      BY <3>1 DEF TypeInv, RunsOK, RunOK
    <3>3. i \in 1 .. run[p].gone
      BY <3>2 DEF Settled, TypeInv, LogOK
    <3> QED BY <2>0, <3>1, <3>2, <3>3, DetectComplete
  <2> QED BY <2>1, <2>2, PastRenames
<1>2. Spec => [][Complete]_vars
  BY <1>1, TypeAlways, PTL DEF Spec
<1> QED BY <1>2 DEF RenamesComplete

-----------------------------------------------------------------------------
(* What lies under a marked folder matches the pattern it suggests.         *)

MatchedFrom(pattern, loc, i, rest) ==
  [j \in 1 .. Len(loc) + 1 |->
     IF i > Len(pattern) THEN j > Len(loc)
     ELSE IF pattern[i] = "**"
     THEN IF i = Len(pattern) THEN j <= Len(loc) ELSE \E q \in j .. Len(loc) + 1 : rest[q]
     ELSE j <= Len(loc) /\ loc[j] \in Accepts[pattern[i]] /\ rest[j + 1]]

LEMMA MatchedDef ==
  ASSUME NEW X, NEW pattern \in Seq(X), NEW loc
  PROVE  Matched(pattern, loc) =
           [i \in 1 .. Len(pattern) + 1 |->
              MatchedFrom(pattern, loc, i, Matched(pattern, loc)[i + 1])]
<1> DEFINE n == Len(pattern)
           From(i, rest) == MatchedFrom(pattern, loc, i, rest)
           Works(g, m) == g = [i \in n + 1 - m .. n + 1 |-> From(i, g[i + 1])]
           S == {m \in Nat : m <= n => \E g : Works(g, m)}
<1>1. n \in Nat
  OBVIOUS
<1>2. \A x, y : From(n + 1, x) = From(n + 1, y)
  <2> SUFFICES ASSUME NEW x, NEW y PROVE From(n + 1, x) = From(n + 1, y)
    OBVIOUS
  <2>1. n + 1 > n
    BY <1>1
  <2>2. \A z : From(n + 1, z) = [j \in 1 .. Len(loc) + 1 |-> j > Len(loc)]
    BY <2>1 DEF MatchedFrom
  <2> QED BY <2>2
<1> HIDE DEF From, n
<1>3. 0 \in S
  <2> DEFINE g == [i \in n + 1 - 0 .. n + 1 |-> From(n + 1, n)]
             h == [i \in n + 1 - 0 .. n + 1 |-> From(i, g[i + 1])]
  <2>1. \A i \in n + 1 - 0 .. n + 1 : i = n + 1
    BY <1>1
  <2>2. \A i \in n + 1 - 0 .. n + 1 : g[i] = h[i]
    BY <1>2, <2>1
  <2>3. g = h
    <3>1. g = [i \in n + 1 - 0 .. n + 1 |-> g[i]] /\ h = [i \in n + 1 - 0 .. n + 1 |-> h[i]]
      OBVIOUS
    <3> HIDE DEF g, h
    <3> QED BY <2>2, <3>1, Zenon
  <2>4. Works(g, 0)
    BY <2>3
  <2> HIDE DEF g, Works
  <2> QED BY <2>4
<1>4. ASSUME NEW m \in Nat, m \in S PROVE m + 1 \in S
  <2> SUFFICES ASSUME m + 1 <= n PROVE \E g : Works(g, m + 1)
    OBVIOUS
  <2>1. PICK g : Works(g, m)
    BY <1>1, <1>4
  <2> DEFINE dom == n + 1 - (m + 1) .. n + 1
             h == [i \in dom |-> IF i = n - m THEN From(n - m, g[n + 1 - m]) ELSE g[i]]
             k == [i \in dom |-> From(i, h[i + 1])]
  <2>2. ASSUME NEW i \in n + 1 - m .. n + 1
        PROVE  i \in dom /\ h[i] = g[i] /\ g[i] = From(i, g[i + 1])
    <3>1. i \in dom /\ i # n - m
      BY <1>1
    <3> QED BY <2>1, <3>1
  <2>3. \A i \in dom : h[i] = k[i]
    <3> SUFFICES ASSUME NEW i \in dom PROVE h[i] = From(i, h[i + 1])
      OBVIOUS
    <3>1. CASE i = n - m
      <4>1. i + 1 = n + 1 - m /\ i + 1 \in n + 1 - m .. n + 1
        BY <1>1, <3>1
      <4>2. h[i + 1] = g[n + 1 - m]
        BY <2>2, <4>1
      <4> QED BY <3>1, <4>2
    <3>2. CASE i # n - m /\ i # n + 1
      <4>1. i \in n + 1 - m .. n + 1 /\ i + 1 \in n + 1 - m .. n + 1
        BY <1>1, <3>2
      <4> HIDE DEF h
      <4>2. h[i] = From(i, g[i + 1]) /\ h[i + 1] = g[i + 1]
        BY <2>2, <4>1
      <4> QED BY <4>2
    <3>3. CASE i = n + 1
      <4>1. i \in n + 1 - m .. n + 1
        BY <1>1, <3>3
      <4> HIDE DEF h
      <4>2. h[i] = From(i, g[i + 1])
        BY <2>2, <4>1
      <4> QED BY <1>2, <3>3, <4>2
    <3> QED BY <3>1, <3>2, <3>3
  <2>4. h = k
    <3>1. h = [i \in dom |-> h[i]] /\ k = [i \in dom |-> k[i]]
      OBVIOUS
    <3> HIDE DEF h, k, dom
    <3> QED BY <2>3, <3>1, Zenon
  <2>5. Works(h, m + 1)
    <3> HIDE DEF h
    <3> QED BY <2>4
  <2> HIDE DEF h, Works
  <2> QED BY <2>5
<1>5. Nat \subseteq S
  <2> HIDE DEF S
  <2> QED BY <1>3, <1>4, NatSetInduction
<1>6. \E g : Works(g, n)
  <2>1. n \in S
    <3> HIDE DEF S
    <3> QED BY <1>1, <1>5
  <2>2. n <= n
    BY <1>1
  <2> HIDE DEF Works
  <2> QED BY <2>1, <2>2
<1>7. n + 1 - n = 1
  BY <1>1
<1> DEFINE Is(g) == g = [i \in 1 .. n + 1 |-> From(i, g[i + 1])]
<1>8. \E g : Is(g)
  BY <1>6, <1>7
<1>9. Matched(pattern, loc) = CHOOSE g : Is(g)
  BY DEF Matched, From, MatchedFrom, n
<1>10. Is(Matched(pattern, loc))
  <2> HIDE DEF Is
  <2> QED BY <1>8, <1>9
<1> QED BY <1>10 DEF n, From

LEMMA ConcatLast ==
  ASSUME NEW X, NEW s \in Seq(X), NEW x \in X
  PROVE  /\ s \o <<x>> \in Seq(X) /\ Len(s \o <<x>>) = Len(s) + 1
         /\ Len(s) + 1 \in Nat \ {0}
         /\ (s \o <<x>>)[Len(s) + 1] = x
         /\ \A i \in 1 .. (Len(s) + 1) - 1 : (s \o <<x>>)[i] = s[i]
<1> DEFINE a == <<x>>
<1>1. a \in Seq(X) /\ Len(a) = 1 /\ a[1] = x
  OBVIOUS
<1> HIDE DEF a
<1>2. /\ s \o a \in Seq(X) /\ Len(s \o a) = Len(s) + Len(a)
      /\ \A i \in 1 .. Len(s) + Len(a) :
           (s \o a)[i] = IF i <= Len(s) THEN s[i] ELSE a[i - Len(s)]
  BY <1>1, ConcatProperties
<1>3. Len(s) \in Nat
  OBVIOUS
<1> QED BY <1>1, <1>2, <1>3 DEF a

LEMMA MatchBeneath ==
  ASSUME NEW dir \in Seq(STRING), NEW loc \in Seq(STRING), IsPrefix(dir, loc), dir # loc,
         Plain(dir)
  PROVE  Match(dir \o <<"**">>, loc)
<1> DEFINE pattern == dir \o <<"**">>
           n == Len(dir) + 1
           M == Matched(pattern, loc)
           Segment == STRING \cup {"**"}
<1>0. dir \in Seq(Segment) /\ loc \in Seq(Segment)
  OBVIOUS
<1> HIDE DEF Segment
<1>1. /\ pattern \in Seq(Segment) /\ Len(pattern) = n /\ n \in Nat \ {0}
      /\ pattern[n] = "**" /\ \A i \in 1 .. n - 1 : pattern[i] = dir[i]
  <2>1. "**" \in Segment
    BY DEF Segment
  <2> QED BY <1>0, <2>1, ConcatLast
<1>2. Len(loc) \in Nat /\ n <= Len(loc) /\ \A i \in 1 .. n - 1 : loc[i] = dir[i]
  <2>1. Len(dir) <= Len(loc) /\ \A i \in 1 .. Len(dir) : dir[i] = loc[i]
    BY PrefixByIndex
  <2>2. CASE Len(dir) = Len(loc)
    BY <2>1, <2>2, SeqEqual
  <2> QED BY <2>1, <2>2
<1> HIDE DEF pattern
<1>3. \A i \in 1 .. n : M[i] = MatchedFrom(pattern, loc, i, M[i + 1])
  <2>1. M = [i \in 1 .. n + 1 |-> MatchedFrom(pattern, loc, i, M[i + 1])]
    BY <1>1, MatchedDef
  <2> HIDE DEF M
  <2>2. 1 .. n \subseteq 1 .. n + 1
    BY <1>1
  <2> QED BY <2>1, <2>2
<1> HIDE DEF M, n
<1> DEFINE S == {m \in Nat : m < n => M[n - m][n - m]}
<1>4. 0 \in S
  <2>1. n - 0 = n /\ n \in 1 .. n /\ n \in 1 .. Len(loc) + 1 /\ ~ (n > n)
    BY <1>1, <1>2
  <2>2. MatchedFrom(pattern, loc, n, M[n + 1])[n] = (n <= Len(loc))
    BY <1>1, <2>1 DEF MatchedFrom
  <2>3. M[n][n]
    BY <1>2, <1>3, <2>1, <2>2
  <2> QED BY <2>1, <2>3
<1>5. ASSUME NEW m \in Nat, m \in S PROVE m + 1 \in S
  <2> SUFFICES ASSUME m + 1 < n PROVE M[n - (m + 1)][n - (m + 1)]
    OBVIOUS
  <2> DEFINE i == n - (m + 1)
  <2>1. /\ i + 1 = n - m /\ i \in 1 .. n - 1 /\ i \in 1 .. n /\ i # n /\ ~ (i > n)
        /\ i \in 1 .. Len(loc) + 1 /\ i <= Len(loc) /\ i + 1 \in i .. Len(loc) + 1
    BY <1>1, <1>2
  <2>2. M[i + 1][i + 1]
    <3>1. M[n - m][n - m]
      BY <1>1, <1>5
    <3> HIDE DEF i
    <3> QED BY <2>1, <3>1
  <2>3. pattern[i] = loc[i]
    BY <1>1, <1>2, <2>1
  <2> HIDE DEF i
  <2>4. M[i] = MatchedFrom(pattern, loc, i, M[i + 1])
    BY <1>3, <2>1
  <2>5. CASE pattern[i] = "**"
    <3>1. MatchedFrom(pattern, loc, i, M[i + 1])[i] = \E q \in i .. Len(loc) + 1 : M[i + 1][q]
      BY <1>1, <2>1, <2>5 DEF MatchedFrom
    <3> QED BY <2>1, <2>2, <2>4, <3>1 DEF i
  <2>6. CASE pattern[i] # "**"
    <3>1. MatchedFrom(pattern, loc, i, M[i + 1])[i] =
            (i <= Len(loc) /\ loc[i] \in Accepts[pattern[i]] /\ M[i + 1][i + 1])
      BY <1>1, <2>1, <2>6 DEF MatchedFrom
    <3>2. loc[i] \in Accepts[pattern[i]]
      <4>1. i \in DOMAIN dir /\ pattern[i] = dir[i]
        BY <1>1, <2>1 DEF n
      <4> QED BY <2>3, <2>6, <4>1 DEF Plain
    <3> QED BY <2>1, <2>2, <2>4, <3>1, <3>2 DEF i
  <2> QED BY <2>5, <2>6
<1>6. Nat \subseteq S
  <2> HIDE DEF S
  <2> QED BY <1>4, <1>5, NatSetInduction
<1>7. M[1][1]
  <2>1. n - 1 \in Nat /\ n - 1 < n /\ n - (n - 1) = 1
    BY <1>1
  <2>2. n - 1 \in S
    <3> HIDE DEF S
    <3> QED BY <1>6, <2>1
  <2> QED BY <2>1, <2>2
<1> QED BY <1>7 DEF Match, M, pattern

-----------------------------------------------------------------------------
(* What the newest rows of the log say of the tree.                         *)

\* The newest row of a file that is there has its content; the newest one of a
\* manifest's contents agrees with the newest one of the file it is in.
DiskSeen ==
  \A l \in Locator :
    /\ disk[l].dig # Gone => \E i \in Newest("file") : log[i].loc = l /\ log[i].dig = disk[l].dig
    /\ IsManifest(l) => \A i \in Newest("file") : log[i].loc = l =>
         \E k \in Newest("manifest") : log[k].loc = l /\ log[k].dig = log[i].dig

\* Versions are those of passes that were made.
VersionsOK ==
  \A i \in 1 .. Len(log) :
    /\ log[i].id[3] <= passes
    /\ log[i].claim = "manifest" => IsManifest(log[i].loc)

\* A marked folder is in the log with the first file beneath it.
FoldersSeen ==
  \A dir \in Marked : \A i \in 1 .. Len(log) :
    log[i].claim = "file" /\ IsPrefix(dir, log[i].loc) =>
      \E k \in 1 .. Len(log) : log[k].claim = "folder" /\ log[k].loc = dir

SeenInv == DiskSeen /\ VersionsOK /\ FoldersSeen

LEMMA NewestIs ==
  ASSUME LogOK, NEW c
  PROVE  /\ Newest(c) \subseteq 1 .. Len(log)
         /\ \A i \in 1 .. Len(log) : i \in Newest(c) <=>
              /\ log[i].claim = c
              /\ \A j \in 1 .. Len(log) : i < j /\ log[j].claim = c => log[j].loc # log[i].loc
<1>1. DOMAIN log = 1 .. Len(log) /\ Len(log) \in Nat
  BY DEF LogOK
<1>2. \A i, j : i \in 1 .. Len(log) => (j \in i + 1 .. Len(log) <=> j \in 1 .. Len(log) /\ i < j)
  BY <1>1
<1> QED BY <1>1, <1>2 DEF Newest

LEMMA NewestOnce ==
  ASSUME LogOK, NEW c, NEW i \in Newest(c), NEW j \in Newest(c), log[i].loc = log[j].loc
  PROVE  i = j
<1>1. i \in 1 .. Len(log) /\ j \in 1 .. Len(log) /\ Len(log) \in Nat
  BY NewestIs DEF LogOK
<1>2. ~ (i < j) /\ ~ (j < i)
  BY <1>1, NewestIs
<1> QED BY <1>1, <1>2

\* A log with a row of c about l has a newest one.
LEMMA NewestExists ==
  ASSUME LogOK, NEW c, NEW i \in 1 .. Len(log), log[i].claim = c
  PROVE  \E k \in Newest(c) : log[k].loc = log[i].loc
<1> DEFINE S == {j \in 1 .. Len(log) : log[j].claim = c /\ log[j].loc = log[i].loc}
<1>1. Len(log) \in Nat
  BY DEF LogOK
<1>2. PICK k \in S : \A j \in S : j <= k
  BY <1>1, BoundedMaximum
<1>3. \A j \in 1 .. Len(log) : k < j /\ log[j].claim = c => log[j].loc # log[k].loc
  BY <1>1, <1>2
<1> QED BY <1>2, <1>3, NewestIs

\* What is newest after a pass was appended.
LEMMA NewestGrows ==
  ASSUME TypeInv, NEW found \in [Locator -> State], Grows(found), NEW c
  PROVE  /\ \A i \in Len(log) + 1 .. Len(log') : log'[i].claim = c => i \in Newest(c)'
         /\ \A i \in Newest(c) :
              \/ i \in Newest(c)'
              \/ \E j \in Len(log) + 1 .. Len(log') : log'[j].claim = c /\ log'[j].loc = log[i].loc
         /\ \A i \in Newest(c)' : i \in 1 .. Len(log) => i \in Newest(c)
<1>1. /\ LogOK /\ LogOK' /\ Len(log) <= Len(log')
      /\ \A i \in 1 .. Len(log) : log'[i] = log[i]
      /\ \A i \in Len(log) + 1 .. Len(log') : log'[i].pass = passes + 1
  BY GrownLog, GrownLogOK DEF TypeInv
<1>2. Len(log) \in Nat /\ Len(log') \in Nat
  BY <1>1 DEF LogOK
<1>3. /\ Newest(c)' \subseteq 1 .. Len(log')
      /\ \A i \in 1 .. Len(log') : i \in Newest(c)' <=>
           /\ log'[i].claim = c
           /\ \A j \in 1 .. Len(log') : i < j /\ log'[j].claim = c => log'[j].loc # log'[i].loc
  <2>1. DOMAIN log' = 1 .. Len(log')
    BY <1>1 DEF LogOK
  <2>2. \A i, j : i \in 1 .. Len(log') =>
          (j \in i + 1 .. Len(log') <=> j \in 1 .. Len(log') /\ i < j)
    BY <1>2
  <2> QED BY <2>1, <2>2 DEF Newest
<1>4. ASSUME NEW i \in Len(log) + 1 .. Len(log'), log'[i].claim = c PROVE i \in Newest(c)'
  <2>1. ASSUME NEW j \in 1 .. Len(log'), i < j, log'[j].claim = c, log'[j].loc = log'[i].loc
        PROVE  FALSE
    <3>1. j \in Len(log) + 1 .. Len(log') /\ i \in 1 .. Len(log')
      BY <1>2, <2>1
    <3>2. i = j
      BY <1>1, <1>4, <2>1, <3>1 DEF LogOK
    <3> QED BY <1>2, <2>1, <3>2
  <2> QED BY <1>2, <1>3, <1>4, <2>1
<1>5. ASSUME NEW i \in Newest(c), i \notin Newest(c)'
      PROVE  \E j \in Len(log) + 1 .. Len(log') : log'[j].claim = c /\ log'[j].loc = log[i].loc
  <2>1. i \in 1 .. Len(log) /\ i \in 1 .. Len(log') /\ log'[i] = log[i] /\ log[i].claim = c
    BY <1>1, <1>2, NewestIs
  <2>2. PICK j \in 1 .. Len(log') : i < j /\ log'[j].claim = c /\ log'[j].loc = log'[i].loc
    BY <1>3, <1>5, <2>1
  <2>3. j \notin 1 .. Len(log)
    BY <1>1, <2>1, <2>2, NewestIs
  <2> QED BY <1>2, <2>1, <2>2, <2>3
<1>6. ASSUME NEW i \in Newest(c)', i \in 1 .. Len(log) PROVE i \in Newest(c)
  <2>1. i \in 1 .. Len(log')
    BY <1>3
  <2>2. \A j \in 1 .. Len(log) : j \in 1 .. Len(log')
    BY <1>1, <1>2
  <2> QED BY <1>1, <1>3, <1>6, <2>1, <2>2, NewestIs
<1> QED BY <1>4, <1>5, <1>6

\* Rows about files in a pass are those of files that are there.
LEMMA EmittedFiles ==
  ASSUME NEW found, NEW r \in Emitted(found)
  PROVE  /\ r.claim \in {"file", "manifest"} =>
              /\ r.loc \in Locator /\ found[r.loc].dig # Gone /\ r.dig = found[r.loc].dig
              /\ r.id[3] = found[r.loc].at
         /\ r.claim \notin {"file", "manifest"} => r.id[3] = 0
         /\ r.claim = "manifest" => IsManifest(r.loc)
  BY DEF Emitted, FolderRow, Row, Tombstone

\* A pass over a tree leaves the newest rows of a file that is there with its content.
LEMMA PassSees ==
  ASSUME TypeInv, SeenInv, NEW found \in [Locator -> State], Grows(found),
         \A l \in Locator : found[l] = disk[l] \/ found[l].at = passes + 1,
         NEW l \in Locator, found[l].dig # Gone,
         NEW c \in {"file", "manifest"}, c = "manifest" => IsManifest(l)
  PROVE  \E i \in Newest(c)' : log'[i].loc = l /\ log'[i].dig = found[l].dig
<1>1. /\ LogOK /\ Len(log) <= Len(log') /\ passes \in Nat
      /\ \A i \in 1 .. Len(log) : log'[i] = log[i]
      /\ \A i \in Len(log) + 1 .. Len(log') : log'[i] \in Emitted(found)
      /\ \A r \in Emitted(found) : \E i \in 1 .. Len(log') : log'[i].id = r.id
  BY GrownLog DEF TypeInv, DiskOK
<1>2. Len(log) \in Nat /\ Len(log') \in Nat
  BY <1>1, GrownLog DEF LogOK
<1>3. \A i \in Len(log) + 1 .. Len(log') : log'[i].claim = c =>
        i \in Newest(c)' /\ log'[i].dig = found[log'[i].loc].dig
  BY <1>1, NewestGrows, EmittedFiles
<1>4. CASE \E i \in Len(log) + 1 .. Len(log') : log'[i].claim = c /\ log'[i].loc = l
  BY <1>3, <1>4
<1>5. CASE ~ \E i \in Len(log) + 1 .. Len(log') : log'[i].claim = c /\ log'[i].loc = l
  <2>1. found[l] = disk[l]
    <3> SUFFICES ASSUME found[l].at = passes + 1 PROVE FALSE
      OBVIOUS
    <3> DEFINE r == Row(c, l, found, Known(l))
    <3>1. r \in Emitted(found)
      <4>1. Changed(found, l)
        <5>1. Known(l) # 0 => log[Known(l)].id[3] <= passes
          <6>1. Known(l) \in 0 .. Len(log)
            BY <1>1, KnownIs DEF TypeInv, TablesOK
          <6>2. Known(l) # 0 => Known(l) \in 1 .. Len(log)
            BY <1>2, <6>1
          <6> QED BY <6>2 DEF SeenInv, VersionsOK
        <5>2. Known(l) # 0 => log[Known(l)].id[3] # passes + 1
          <6> SUFFICES ASSUME Known(l) # 0, log[Known(l)].id[3] = passes + 1 PROVE FALSE
            OBVIOUS
          <6> QED BY <1>1, <5>1
        <5> QED BY <5>2 DEF Changed
      <4>2. CASE c = "file"
        BY <4>1, <4>2 DEF Emitted
      <4>3. CASE c = "manifest"
        BY <4>3 DEF Emitted
      <4> QED BY <4>2, <4>3
    <3>2. r.id[1] = c /\ r.id[2] = l /\ r.id[3] = passes + 1
      BY DEF Row
    <3> HIDE DEF r
    <3>3. PICK i \in 1 .. Len(log') : log'[i].id = r.id
      BY <1>1, <3>1
    <3>4. i \notin 1 .. Len(log)
      <4> SUFFICES ASSUME i \in 1 .. Len(log) PROVE FALSE
        OBVIOUS
      <4>1. log[i].id[3] <= passes /\ log[i].id[3] = passes + 1
        BY <1>1, <3>2, <3>3 DEF SeenInv, VersionsOK
      <4> QED BY <1>1, <4>1
    <3>5. i \in Len(log) + 1 .. Len(log')
      BY <1>2, <3>4
    <3>6. log'[i].claim = c /\ log'[i].loc = l
      <4>1. RowOK(log'[i])
        BY <1>1, <3>5, EmittedType
      <4> QED BY <3>2, <3>3, <4>1 DEF RowOK
    <3> QED BY <1>5, <3>5, <3>6
  <2>2. PICK f \in Newest("file") : log[f].loc = l /\ log[f].dig = disk[l].dig
    BY <2>1 DEF SeenInv, DiskSeen
  <2>3. PICK i \in Newest(c) : log[i].loc = l /\ log[i].dig = disk[l].dig
    <3>1. CASE c = "file"
      BY <2>2, <3>1
    <3>2. CASE c = "manifest"
      BY <2>2, <3>2 DEF SeenInv, DiskSeen
    <3> QED BY <3>1, <3>2
  <2>4. i \in 1 .. Len(log) /\ log'[i] = log[i]
    BY <1>1, <2>3, NewestIs
  <2>5. i \in Newest(c)'
    BY <1>5, <2>3, NewestGrows
  <2> QED BY <2>1, <2>3, <2>4, <2>5
<1> QED BY <1>4, <1>5

LEMMA SeenScan ==
  ASSUME TypeInv, TypeInv', SeenInv, NEW p \in Process, Scan(p)
  PROVE  SeenInv'
<1>1. PICK edit \in Edits :
        /\ disk' = Found(edit)
        /\ log' = log \o NewRows(Observations(Found(edit)))
  BY DEF Scan
<1> DEFINE found == Found(edit)
<1>2. /\ found \in [Locator -> State]
      /\ \A l \in Locator : /\ found[l].at <= passes + 1
                            /\ found[l] = disk[l] \/ found[l].at = passes + 1
  BY FoundType
<1>3. disk' = found /\ Grows(found) /\ passes' = passes + 1
  BY <1>1 DEF Grows, Scan
<1> HIDE DEF found
<1>4. /\ Len(log) <= Len(log') /\ passes \in Nat
      /\ \A i \in 1 .. Len(log) : log'[i] = log[i]
      /\ \A i \in Len(log) + 1 .. Len(log') : log'[i] \in Emitted(found)
      /\ \A r \in Emitted(found) : \E i \in 1 .. Len(log') : log'[i].id = r.id
  BY <1>2, <1>3, GrownLog DEF TypeInv, DiskOK
<1>5. Len(log) \in Nat /\ Len(log') \in Nat /\ LogOK /\ LogOK'
  BY DEF TypeInv, LogOK
<1>6. \A i \in 1 .. Len(log') : i \in 1 .. Len(log) \/ i \in Len(log) + 1 .. Len(log')
  BY <1>5
<1>7. DiskSeen'
  <2>1. ASSUME NEW l \in Locator, found[l].dig # Gone
        PROVE  \E i \in Newest("file")' : log'[i].loc = l /\ log'[i].dig = found[l].dig
    BY <1>2, <1>3, <2>1, PassSees
  <2>2. ASSUME NEW l \in Locator, IsManifest(l), NEW i \in Newest("file")', log'[i].loc = l
        PROVE  \E k \in Newest("manifest")' : log'[k].loc = l /\ log'[k].dig = log'[i].dig
    <3>1. CASE found[l].dig # Gone
      <4>1. PICK f \in Newest("file")' : log'[f].loc = l /\ log'[f].dig = found[l].dig
        BY <2>1, <3>1
      <4>2. PICK k \in Newest("manifest")' : log'[k].loc = l /\ log'[k].dig = found[l].dig
        BY <1>2, <1>3, <2>2, <3>1, PassSees
      <4>3. i = f
        <5>1. /\ i \in 1 .. Len(log') /\ log'[i].claim = "file"
              /\ f \in 1 .. Len(log') /\ log'[f].claim = "file"
              /\ \A j \in i + 1 .. Len(log') : log'[j].claim = "file" => log'[j].loc # l
              /\ \A j \in f + 1 .. Len(log') : log'[j].claim = "file" => log'[j].loc # l
          <6>1. DOMAIN log' = 1 .. Len(log')
            BY <1>5 DEF LogOK
          <6> QED BY <2>2, <4>1, <6>1 DEF Newest
        <5>2. f \notin i + 1 .. Len(log') /\ i \notin f + 1 .. Len(log')
          BY <2>2, <4>1, <5>1
        <5> QED BY <1>5, <5>1, <5>2
      <4> QED BY <4>1, <4>2, <4>3
    <3>2. CASE found[l].dig = Gone
      <4>1. ASSUME NEW j \in Len(log) + 1 .. Len(log'), log'[j].loc = l,
                   log'[j].claim \in {"file", "manifest"}
            PROVE  FALSE
        BY <1>4, <3>2, <4>1, EmittedFiles
      <4>2. i \in 1 .. Len(log') /\ log'[i].claim = "file"
        <5>1. DOMAIN log' = 1 .. Len(log')
          BY <1>5 DEF LogOK
        <5> QED BY <5>1 DEF Newest
      <4>3. i \in 1 .. Len(log)
        BY <1>6, <2>2, <4>1, <4>2
      <4>4. i \in Newest("file") /\ log[i] = log'[i]
        BY <1>2, <1>3, <1>4, <4>3, NewestGrows
      <4>5. PICK k \in Newest("manifest") : log[k].loc = l /\ log[k].dig = log[i].dig
        BY <2>2, <4>4 DEF SeenInv, DiskSeen
      <4>6. k \in 1 .. Len(log) /\ log'[k] = log[k]
        BY <1>4, <1>5, NewestIs
      <4>7. k \in Newest("manifest")'
        BY <1>2, <1>3, <4>1, <4>5, NewestGrows
      <4> QED BY <4>4, <4>5, <4>6, <4>7
    <3> QED BY <3>1, <3>2
  <2> QED BY <1>3, <2>1, <2>2 DEF DiskSeen
<1>8. VersionsOK'
  <2>1. ASSUME NEW i \in 1 .. Len(log)
        PROVE  log'[i].id[3] <= passes + 1 /\ (log'[i].claim = "manifest" => IsManifest(log'[i].loc))
    <3>1. /\ log'[i] = log[i] /\ log[i].id[3] <= passes
          /\ log[i].claim = "manifest" => IsManifest(log[i].loc)
      BY <1>4 DEF SeenInv, VersionsOK
    <3>2. log[i].id[3] \in Nat
      <4>1. log[i] \in RowType
        BY <1>5 DEF LogOK
      <4> QED BY <4>1 DEF RowType
    <3> QED BY <1>4, <3>1, <3>2
  <2>2. ASSUME NEW i \in Len(log) + 1 .. Len(log')
        PROVE  log'[i].id[3] <= passes + 1 /\ (log'[i].claim = "manifest" => IsManifest(log'[i].loc))
    BY <1>2, <1>4, EmittedFiles
  <2> QED BY <1>3, <1>6, <2>1, <2>2 DEF VersionsOK
<1>9. FoldersSeen'
  <2> SUFFICES ASSUME NEW dir \in Marked, NEW i \in 1 .. Len(log'),
                      log'[i].claim = "file", IsPrefix(dir, log'[i].loc)
               PROVE  \E k \in 1 .. Len(log') : log'[k].claim = "folder" /\ log'[k].loc = dir
    BY DEF FoldersSeen
  <2>1. CASE i \in 1 .. Len(log)
    <3>1. PICK k \in 1 .. Len(log) : log[k].claim = "folder" /\ log[k].loc = dir
      BY <1>4, <2>1 DEF SeenInv, FoldersSeen
    <3>2. k \in 1 .. Len(log') /\ log'[k] = log[k]
      BY <1>4, <1>5
    <3> QED BY <3>1, <3>2
  <2>2. CASE i \in Len(log) + 1 .. Len(log')
    <3>1. log'[i].loc \in Locator /\ found[log'[i].loc].dig # Gone
      BY <1>4, <2>2, EmittedFiles
    <3>2. dir \in Seen(found)
      BY <3>1 DEF Seen
    <3>3. FolderRow(dir) \in Emitted(found)
      BY <3>2 DEF Emitted
    <3>4. PICK k \in 1 .. Len(log') : log'[k].id = FolderRow(dir).id
      BY <1>4, <3>3
    <3>5. RowOK(log'[k])
      BY <1>5 DEF LogOK
    <3>6. log'[k].id[1] = "folder" /\ log'[k].id[2] = dir
      BY <3>4 DEF FolderRow
    <3> QED BY <3>5, <3>6 DEF RowOK
  <2> QED BY <1>6, <2>1, <2>2
<1> QED BY <1>7, <1>8, <1>9 DEF SeenInv

LEMMA SeenInit == ASSUME Init, TypeInv PROVE SeenInv
<1>1. /\ \A l \in Locator : disk[l].dig = Gone
      /\ Len(log) = 1 /\ log[1].claim = "folder" /\ log[1].id[3] = 0 /\ passes = 0
  BY DEF Init
<1>2. \A i \in 1 .. Len(log) : log[i].claim = "folder" /\ log[i].id[3] = 0
  BY <1>1
<1>3. Newest("file") = {}
  <2>1. Newest("file") \subseteq 1 .. Len(log)
        /\ \A i \in 1 .. Len(log) : i \in Newest("file") => log[i].claim = "file"
    BY NewestIs DEF TypeInv
  <2> QED BY <1>2, <2>1
<1> QED BY <1>1, <1>2, <1>3 DEF SeenInv, DiskSeen, VersionsOK, FoldersSeen

LEMMA SeenNext == TypeInv /\ TypeInv' /\ SeenInv /\ [Next]_vars => SeenInv'
<1> SUFFICES ASSUME TypeInv, TypeInv', SeenInv, [Next]_vars PROVE SeenInv'
  OBVIOUS
<1>1. CASE \E p \in Process : Scan(p)
  BY <1>1, SeenScan
<1>2. CASE UNCHANGED <<disk, log, passes>>
  <2>1. \A c : Newest(c)' = Newest(c)
    BY <1>2 DEF Newest
  <2> QED BY <1>2, <2>1 DEF SeenInv, DiskSeen, VersionsOK, FoldersSeen
<1>3. UNCHANGED <<disk, log, passes>> \/ \E p \in Process : Scan(p)
  <2>1. CASE UNCHANGED vars
    BY <2>1 DEF vars
  <2>2. CASE Next
    <3>1. PICK p \in Process : Step(p)
      BY <2>2 DEF Next, Step
    <3> QED BY <3>1, OnlyScanAppends
  <2> QED BY <2>1, <2>2
<1> QED BY <1>1, <1>2, <1>3

-----------------------------------------------------------------------------
(* What a calm command has read is what the tables hold.                    *)

\* A file that is gone, and at least two that it may have become.
Asked(f) ==
  /\ f.rule = "ambiguous-origin"
  /\ Cardinality(f.key \ Present(applied)) = 1 /\ Cardinality(f.key) > 2

Members == FileProjects(ResolveProjects(LatestManifests, LatestMarkers), Present(applied))

CalmOK(p) ==
  calm[p] =>
    /\ run[p].pc \notin {"idle", "apply"} => applied = Len(log)
    /\ run[p].pc = "markers" => run[p].manifests = LatestManifests
    /\ run[p].pc = "members" => run[p].plan = ResolveProjects(LatestManifests, LatestMarkers)
    /\ run[p].pc = "replace" => run[p].rows = Members
    /\ run[p].pc = "ambiguous" => run[p].found = Duplicates(Present(applied))
    /\ run[p].pc \in {"invalid", "detect"} =>
         /\ Duplicates(Present(applied)) \subseteq run[p].found
         /\ \A f \in run[p].found :
              \/ f \in Duplicates(Present(applied)) \/ Asked(f)
              \/ run[p].pc = "detect" /\ f \in BadManifests
    /\ run[p].pc = "detect" => BadManifests \subseteq run[p].found

CalmInv == \A p \in Process : CalmOK(p)

LEMMA AmbiguousAsks == \A f \in Ambiguous : Asked(f)
<1> SUFFICES ASSUME NEW f \in Ambiguous PROVE Asked(f)
  OBVIOUS
<1>1. PICK old \in Locator \ Present(applied) :
        /\ Cardinality(Candidates(old)) > 1
        /\ f.rule = "ambiguous-origin" /\ f.key = {old} \cup Candidates(old)
  BY DEF Ambiguous
<1> DEFINE C == Candidates(old)
<1>2. C \subseteq Present(applied) /\ Present(applied) \subseteq Locator
  BY DEF Candidates, Present
<1>3. IsFiniteSet(Locator)
  BY LocatorFinite
<1> HIDE DEF C
<1>4. IsFiniteSet(C) /\ old \notin C
  BY <1>1, <1>2, <1>3, FS_Subset
<1>5. Cardinality(C \cup {old}) = Cardinality(C) + 1 /\ Cardinality(C) \in Nat
  BY <1>4, FS_AddElement, FS_CardinalityType
<1>6. /\ f.key = C \cup {old} /\ f.key \ Present(applied) = {old}
      /\ f.rule = "ambiguous-origin" /\ Cardinality(C) > 1
  BY <1>1, <1>2 DEF C
<1>7. Cardinality({old}) = 1
  BY FS_Singleton
<1> QED BY <1>5, <1>6, <1>7 DEF Asked

\* Nothing was appended or folded, and p has not moved.
LEMMA CalmStays ==
  ASSUME CalmInv, NEW p \in Process, UNCHANGED <<log, applied>>, run'[p] = run[p],
         calm'[p] => calm[p]
  PROVE  CalmOK(p)'
<1>1. /\ \A n : Present(n)' = Present(n)
      /\ \A n, l : DigestOf(n, l)' = DigestOf(n, l)
      /\ \A c : Newest(c)' = Newest(c)
  BY DEF Present, DigestOf, Latest, StateRows, Newest
<1>2. Present(applied)' = Present(applied)
  BY <1>1
<1>3. LatestManifests' = LatestManifests /\ LatestMarkers' = LatestMarkers
  BY <1>1, <1>2 DEF LatestManifests, LatestMarkers, Beneath
<1>4. Members' = Members
  BY <1>2, <1>3 DEF Members
<1>5. Duplicates(Present(applied))' = Duplicates(Present(applied))
  BY <1>1, <1>2 DEF Duplicates
<1>6. BadManifests' = BadManifests
  BY <1>3 DEF BadManifests
<1>7. \A f : Asked(f)' <=> Asked(f)
  BY <1>2 DEF Asked
<1> QED BY <1>2, <1>3, <1>4, <1>5, <1>6, <1>7 DEF CalmInv, CalmOK

\* The tables that a command reads do not change with the step of another, or it
\* is not calm any more.
LEMMA CalmOthers ==
  ASSUME TypeInv, CalmInv, NEW p \in Process, NEW q \in Process, q # p, Step(p)
  PROVE  CalmOK(q)'
<1>0. q \in DOMAIN run /\ q \in DOMAIN calm
  BY DEF TypeInv, RunsOK
<1>1. CASE Scan(p)
  <2>1. ~ calm'[q]
    BY <1>1 DEF Scan
  <2> QED BY <2>1 DEF CalmOK
<1>2. CASE Apply(p) /\ applied' # applied
  <2>1. ~ calm'[q]
    BY <1>2 DEF Apply
  <2> QED BY <2>1 DEF CalmOK
<1>3. CASE Apply(p) /\ applied' = applied
  <2>1. UNCHANGED <<log, applied>> /\ run'[q] = run[q] /\ (calm'[q] => calm[q])
    BY <1>0, <1>3 DEF Apply
  <2> QED BY <2>1, CalmStays
<1>4. ASSUME ~ Scan(p), ~ Apply(p) PROVE CalmOK(q)'
  <2>1. UNCHANGED <<log, applied>>
    BY <1>4 DEF Step, Import, ReadTombstones, ReadArrivals, InsertRelations, ReadManifests,
                ReadMarkers, ReadMembers, ReplaceProjects, ReadFiles, ReadAmbiguities,
                ReadInvalid, Detect, Abandon
  <2>2. CASE Import(p)
    <3>1. run'[q] = run[q] /\ calm'[q] = calm[q]
      BY <1>0, <2>2 DEF Import, Begin
    <3> QED BY <2>1, <3>1, CalmStays
  <2>3. CASE Detect(p) \/ Abandon(p)
    <3>1. run'[q] = run[q] /\ calm'[q] = calm[q]
      BY <1>0, <2>3 DEF Detect, Abandon, Stop
    <3> QED BY <2>1, <3>1, CalmStays
  <2>4. ASSUME ~ Import(p), ~ Detect(p), ~ Abandon(p) PROVE CalmOK(q)'
    <3>1. \E step : Goto(p, step)
      BY <1>4, <2>4 DEF Step, ReadTombstones, ReadArrivals, InsertRelations, ReadManifests,
                  ReadMarkers, ReadMembers, ReplaceProjects, ReadFiles, ReadAmbiguities,
                  ReadInvalid
    <3>2. run'[q] = run[q] /\ calm'[q] = calm[q]
      BY <1>0, <3>1 DEF Goto, history
    <3> QED BY <2>1, <3>2, CalmStays
  <2> QED BY <2>2, <2>3, <2>4
<1> QED BY <1>1, <1>2, <1>3, <1>4

\* What the step of p leaves p with.
LEMMA CalmOwn ==
  ASSUME TypeInv, CalmInv, NEW p \in Process, Step(p)
  PROVE  CalmOK(p)'
<1>0. p \in DOMAIN run /\ p \in DOMAIN calm /\ CalmOK(p)
  BY DEF TypeInv, RunsOK, CalmInv
<1>1. CASE Scan(p) \/ Import(p)
  <2>1. run'[p].pc = "apply"
    BY <1>0, <1>1 DEF Scan, Import, Begin
  <2> QED BY <2>1 DEF CalmOK
<1>2. CASE Apply(p)
  <2>1. run'[p].pc = "gone" /\ applied' = Len(log) /\ log' = log
    BY <1>0, <1>2 DEF Apply
  <2> QED BY <2>1 DEF CalmOK
<1>3. CASE Detect(p) \/ Abandon(p)
  <2>1. ~ calm'[p]
    BY <1>0, <1>3 DEF Detect, Abandon, Stop
  <2> QED BY <2>1 DEF CalmOK
<1>4. CASE \/ ReadTombstones(p) \/ ReadArrivals(p) \/ InsertRelations(p)
           \/ ReadManifests(p) \/ ReadMarkers(p) \/ ReadMembers(p) \/ ReplaceProjects(p)
           \/ ReadFiles(p) \/ ReadAmbiguities(p) \/ ReadInvalid(p)
  <2> SUFFICES ASSUME calm'[p] PROVE CalmOK(p)'
    BY DEF CalmOK
  <2>1. UNCHANGED <<log, applied>> /\ \E step : Goto(p, step)
    BY <1>4 DEF ReadTombstones, ReadArrivals, InsertRelations, ReadManifests,
                ReadMarkers, ReadMembers, ReplaceProjects, ReadFiles, ReadAmbiguities,
                ReadInvalid
  <2>2. /\ calm[p] /\ \A step : Goto(p, step) => run'[p] = step
    BY <1>0, <2>1 DEF Goto, history
  <2>3. run[p].pc \notin {"idle", "apply"}
    BY <1>4 DEF ReadTombstones, ReadArrivals, InsertRelations, ReadManifests,
                ReadMarkers, ReadMembers, ReplaceProjects, ReadFiles, ReadAmbiguities,
                ReadInvalid
  <2>4. applied = Len(log) /\ applied' = Len(log')
    BY <1>0, <2>1, <2>2, <2>3 DEF CalmOK
  <2>5. /\ \A n : Present(n)' = Present(n)
        /\ \A n, l : DigestOf(n, l)' = DigestOf(n, l)
        /\ \A c : Newest(c)' = Newest(c)
    BY <2>1 DEF Present, DigestOf, Latest, StateRows, Newest
  <2>6. Present(applied)' = Present(applied)
    BY <2>1, <2>5
  <2>7. LatestManifests' = LatestManifests /\ LatestMarkers' = LatestMarkers
    BY <2>1, <2>5, <2>6 DEF LatestManifests, LatestMarkers, Beneath
  <2>8. /\ Members' = Members
        /\ Duplicates(Present(applied))' = Duplicates(Present(applied))
        /\ BadManifests' = BadManifests
        /\ \A f : Asked(f)' <=> Asked(f)
    BY <2>1, <2>5, <2>6, <2>7 DEF Members, Duplicates, BadManifests, Asked
  <2>9. CASE ReadTombstones(p) \/ ReadArrivals(p) \/ InsertRelations(p) \/ ReplaceProjects(p)
    <3>1. run'[p].pc \in {"manifests", "arrived", "insert", "files"}
      BY <2>2, <2>9 DEF ReadTombstones, ReadArrivals, InsertRelations, ReplaceProjects
    <3> QED BY <2>4, <3>1 DEF CalmOK
  <2>10. CASE ReadManifests(p)
    <3>1. run'[p].pc = "markers" /\ run'[p].manifests = LatestManifests
      BY <2>2, <2>10 DEF ReadManifests
    <3> QED BY <2>4, <2>7, <3>1 DEF CalmOK
  <2>11. CASE ReadMarkers(p)
    <3>1. /\ run'[p].pc = "members" /\ run[p].pc = "markers"
          /\ run'[p].plan = ResolveProjects(run[p].manifests, LatestMarkers)
      BY <2>2, <2>11 DEF ReadMarkers
    <3>2. run[p].manifests = LatestManifests
      BY <1>0, <2>2, <3>1 DEF CalmOK
    <3> QED BY <2>4, <2>7, <3>1, <3>2 DEF CalmOK
  <2>12. CASE ReadMembers(p)
    <3>1. /\ run'[p].pc = "replace" /\ run[p].pc = "members"
          /\ run'[p].rows = FileProjects(run[p].plan, Present(applied))
      BY <2>2, <2>12 DEF ReadMembers
    <3>2. run[p].plan = ResolveProjects(LatestManifests, LatestMarkers)
      BY <1>0, <2>2, <3>1 DEF CalmOK
    <3>3. run'[p].rows = Members'
      BY <2>8, <3>1, <3>2 DEF Members
    <3> QED BY <2>4, <3>1, <3>3 DEF CalmOK
  <2>13. CASE ReadFiles(p)
    <3>1. run'[p].pc = "ambiguous" /\ run'[p].found = Duplicates(Present(applied))
      BY <2>2, <2>13 DEF ReadFiles
    <3> QED BY <2>4, <2>8, <3>1 DEF CalmOK
  <2>14. CASE ReadAmbiguities(p)
    <3>1. /\ run'[p].pc = "invalid" /\ run[p].pc = "ambiguous"
          /\ run'[p].found = run[p].found \cup Ambiguous
      BY <2>2, <2>14 DEF ReadAmbiguities
    <3>2. run[p].found = Duplicates(Present(applied))
      BY <1>0, <2>2, <3>1 DEF CalmOK
    <3>3. \A f \in Ambiguous : Asked(f)'
      BY <2>8, AmbiguousAsks
    <3> QED BY <2>4, <2>8, <3>1, <3>2, <3>3 DEF CalmOK
  <2>15. CASE ReadInvalid(p)
    <3>1. /\ run'[p].pc = "detect" /\ run[p].pc = "invalid"
          /\ run'[p].found = run[p].found \cup BadManifests
      BY <2>2, <2>15 DEF ReadInvalid
    <3>2. /\ Duplicates(Present(applied)) \subseteq run[p].found
          /\ \A f \in run[p].found : f \in Duplicates(Present(applied)) \/ Asked(f)
      BY <1>0, <2>2, <3>1 DEF CalmOK
    <3> QED BY <2>4, <2>8, <3>1, <3>2 DEF CalmOK
  <2> QED BY <1>4, <2>9, <2>10, <2>11, <2>12, <2>13, <2>14, <2>15
<1> QED BY <1>1, <1>2, <1>3, <1>4 DEF Step

LEMMA CalmNext == TypeInv /\ CalmInv /\ [Next]_vars => CalmInv'
<1> SUFFICES ASSUME TypeInv, CalmInv, [Next]_vars, NEW q \in Process PROVE CalmOK(q)'
  BY DEF CalmInv
<1>1. CASE UNCHANGED vars
  <2>1. UNCHANGED <<log, applied>> /\ run'[q] = run[q] /\ calm'[q] = calm[q]
    BY <1>1 DEF vars, history
  <2> QED BY <2>1, CalmStays
<1>2. CASE Next
  <2>1. PICK p \in Process : Step(p)
    BY <1>2 DEF Next, Step
  <2>2. CASE q = p
    BY <2>1, <2>2, CalmOwn
  <2>3. CASE q # p
    BY <2>1, <2>3, CalmOthers
  <2> QED BY <2>2, <2>3
<1> QED BY <1>1, <1>2

CurrentInv == TypeInv /\ SeenInv /\ CalmInv

LEMMA CurrentAlways == Spec => []CurrentInv
<1>1. Init => CurrentInv
  <2> SUFFICES ASSUME Init PROVE CurrentInv
    OBVIOUS
  <2>1. \A p \in Process : ~ calm[p]
    BY DEF Init
  <2> QED BY <2>1, TypeInit, SeenInit DEF CurrentInv, CalmInv, CalmOK
<1>2. CurrentInv /\ [Next]_vars => CurrentInv'
  BY TypeNext, SeenNext, CalmNext DEF CurrentInv
<1> QED BY <1>1, <1>2, PTL DEF Spec

-----------------------------------------------------------------------------
(* Membership and findings.                                                 *)

LEMMA MoreThanOne ==
  ASSUME NEW S, IsFiniteSet(S)
  PROVE  Cardinality(S) > 1 <=> \E x, y \in S : x # y
<1>1. Cardinality(S) \in Nat
  BY FS_CardinalityType
<1>2. ASSUME ~ \E x, y \in S : x # y PROVE ~ (Cardinality(S) > 1)
  <2>1. CASE S = {}
    BY <2>1, FS_EmptySet
  <2>2. CASE S # {}
    <3>1. PICK x \in S : TRUE
      BY <2>2
    <3>2. S = {x}
      BY <1>2, <3>1
    <3> QED BY <3>2, FS_Singleton
  <2> QED BY <2>1, <2>2
<1>3. ASSUME NEW x \in S, NEW y \in S, x # y PROVE Cardinality(S) > 1
  <2>1. IsFiniteSet({x}) /\ Cardinality({x}) = 1 /\ y \notin {x}
    BY <1>3, FS_Singleton
  <2>2. IsFiniteSet({x} \cup {y}) /\ Cardinality({x} \cup {y}) = 2
    BY <2>1, FS_AddElement
  <2>3. Cardinality({x} \cup {y}) <= Cardinality(S)
    BY FS_Subset
  <2> QED BY <1>1, <2>2, <2>3
<1> QED BY <1>2, <1>3

LEMMA ManifestPath ==
  ASSUME NEW l \in Locator
  PROVE  /\ IsManifest(l) => Dir(l) \o <<Manifest>> = l
         /\ \A dir \in Seq(STRING) : dir \o <<Manifest>> = l => IsManifest(l) /\ Dir(l) = dir
<1> DEFINE Segment == STRING \cup {Manifest}
<1>1. l \in Seq(Segment) /\ Len(l) \in Nat \ {0} /\ Manifest \in Segment
  <2>1. l \in Seq(STRING) /\ l # <<>>
    BY InferenceAssumption
  <2> HIDE DEF Manifest, Locator
  <2> QED BY <2>1, EmptySeq
<1> HIDE DEF Segment, Manifest, Locator
<1>2. ASSUME IsManifest(l) PROVE Dir(l) \o <<Manifest>> = l
  <2>1. Front(l) \in Seq(Segment) /\ Len(Front(l)) = Len(l) - 1
        /\ \A i \in 1 .. Len(l) - 1 : Front(l)[i] = l[i]
    <3>1. PICK n \in Nat : Len(l) = n + 1 /\ Len(l) - 1 = n
      <4>1. Len(l) - 1 \in Nat /\ Len(l) = (Len(l) - 1) + 1
        BY <1>1
      <4> QED BY <4>1
    <3>2. Front(l) = SubSeq(l, 1, n)
      BY <3>1 DEF Front
    <3>3. SubSeq(l, 1, n) \in Seq(Segment) /\ Len(SubSeq(l, 1, n)) = n
          /\ \A i \in 1 .. n : SubSeq(l, 1, n)[i] = l[i]
      BY <1>1, <3>1
    <3> QED BY <3>1, <3>2, <3>3
  <2>2. l[Len(l)] = Manifest
    BY <1>2 DEF IsManifest, Last
  <2> DEFINE w == Front(l) \o <<Manifest>>
  <2>3. /\ w \in Seq(Segment) /\ Len(w) = Len(l) /\ w[Len(l)] = Manifest
        /\ \A i \in 1 .. Len(l) - 1 : w[i] = l[i]
    BY <1>1, <2>1, ConcatLast
  <2> HIDE DEF w
  <2>4. \A i \in 1 .. Len(l) : w[i] = l[i]
    BY <1>1, <2>2, <2>3
  <2>5. w = l
    BY <1>1, <2>3, <2>4, SeqEqual
  <2> QED BY <2>5 DEF w, Dir
<1>3. ASSUME NEW dir \in Seq(STRING), dir \o <<Manifest>> = l
      PROVE  IsManifest(l) /\ Dir(l) = dir
  <2>1. dir \in Seq(Segment)
    BY DEF Segment
  <2>2. /\ Len(l) = Len(dir) + 1 /\ l[Len(l)] = Manifest /\ Len(dir) \in Nat
        /\ \A i \in 1 .. Len(dir) : l[i] = dir[i]
    BY <1>1, <1>3, <2>1, ConcatLast
  <2>3. Front(l) \in Seq(Segment) /\ Len(Front(l)) = Len(dir)
        /\ \A i \in 1 .. Len(dir) : Front(l)[i] = dir[i]
    BY <1>1, <2>2 DEF Front
  <2>4. Front(l) = dir
    BY <2>1, <2>3, SeqEqual
  <2> QED BY <2>2, <2>4 DEF IsManifest, Last, Dir
<1> QED BY <1>2, <1>3

\* The manifests a calm command reads are those the view describes.
LEMMA LatestManifestsAre ==
  ASSUME TypeInv, SeenInv, applied = Len(log)
  PROVE  LatestManifests =
           {[loc |-> l, dig |-> DigestOf(applied, l)] : l \in {l \in Present(applied) : IsManifest(l)}}
<1>0. LogOK /\ Len(log) \in Nat /\ applied \in 0 .. Len(log)
  BY DEF TypeInv, LogOK, TablesOK
<1>1. ASSUME NEW l \in Present(applied), IsManifest(l)
      PROVE  \E k \in Newest("manifest") : log[k].loc = l /\ log[k].dig = DigestOf(applied, l)
  <2> DEFINE f == Latest(applied, l)
  <2>1. /\ l \in Locator /\ StateRows(applied, l) # {} /\ ~ Absent(log[f])
        /\ f \in 1 .. Len(log) /\ f \in StateRows(applied, l)
        /\ \A j \in StateRows(applied, l) : j <= f
    BY <1>0, LatestIs DEF Present
  <2> HIDE DEF f
  <2>2. log[f].claim = "file" /\ log[f].loc = l
    BY <2>1 DEF StateRows, Absent
  <2>3. \A j \in 1 .. Len(log) : f < j /\ log[j].claim = "file" => log[j].loc # log[f].loc
    <3>1. \A j \in 1 .. Len(log) : log[j].claim = "file" /\ log[j].loc = l => j \in StateRows(applied, l)
      BY DEF StateRows
    <3> QED BY <1>0, <2>1, <2>2, <3>1
  <2>4. f \in Newest("file")
    BY <1>0, <2>1, <2>2, <2>3, NewestIs
  <2>5. DigestOf(applied, l) = log[f].dig
    BY DEF DigestOf, f
  <2> QED BY <1>1, <2>1, <2>2, <2>4, <2>5 DEF SeenInv, DiskSeen
<1>2. ASSUME NEW i \in Newest("manifest"), log[i].loc \in Present(applied)
      PROVE  IsManifest(log[i].loc) /\ log[i].dig = DigestOf(applied, log[i].loc)
  <2>1. i \in 1 .. Len(log) /\ log[i].claim = "manifest"
    BY <1>0, NewestIs
  <2>2. IsManifest(log[i].loc)
    BY <2>1 DEF SeenInv, VersionsOK
  <2>3. PICK k \in Newest("manifest") : log[k].loc = log[i].loc /\ log[k].dig = DigestOf(applied, log[i].loc)
    BY <1>1, <1>2, <2>2
  <2>4. k = i
    BY <1>0, <2>3, NewestOnce
  <2> QED BY <2>2, <2>3, <2>4
<1>3. ASSUME NEW m \in LatestManifests
      PROVE  m \in {[loc |-> l, dig |-> DigestOf(applied, l)] :
                      l \in {l \in Present(applied) : IsManifest(l)}}
  <2>1. PICK i \in Newest("manifest") :
          log[i].loc \in Present(applied) /\ m = [loc |-> log[i].loc, dig |-> log[i].dig]
    BY DEF LatestManifests
  <2> QED BY <1>2, <2>1
<1>4. ASSUME NEW l \in Present(applied), IsManifest(l)
      PROVE  [loc |-> l, dig |-> DigestOf(applied, l)] \in LatestManifests
  <2>1. PICK k \in Newest("manifest") : log[k].loc = l /\ log[k].dig = DigestOf(applied, l)
    BY <1>1, <1>4
  <2> QED BY <2>1 DEF LatestManifests
<1> QED BY <1>3, <1>4

\* What the view says of a present file is a content.
LEMMA PresentDigest ==
  ASSUME TypeInv, NEW l \in Present(applied)
  PROVE  DigestOf(applied, l) \in Content /\ DigestOf(applied, l) # Gone /\ l \in Locator
<1>1. LogOK /\ applied \in 0 .. Len(log) /\ Len(log) \in Nat
  BY DEF TypeInv, LogOK, TablesOK
<1>2. /\ l \in Locator /\ StateRows(applied, l) # {} /\ ~ Absent(log[Latest(applied, l)])
      /\ Latest(applied, l) \in 1 .. Len(log)
      /\ Latest(applied, l) \in StateRows(applied, l)
  BY <1>1, LatestIs DEF Present
<1>3. log[Latest(applied, l)].claim = "file" /\ RowOK(log[Latest(applied, l)])
  BY <1>1, <1>2 DEF StateRows, Absent, LogOK
<1>4. DigestOf(applied, l) \in Content
  BY <1>3 DEF RowOK, DigestOf
<1> QED BY <1>2, <1>4, InferenceAssumption

LEMMA FindingsAre ==
  ASSUME CurrentInv, NEW p \in Process, calm[p], run[p].pc = "detect"
  PROVE  FindingsAreCurrent(run[p].found)
<1> DEFINE found == run[p].found
<1>1. /\ applied = Len(log)
      /\ Duplicates(Present(applied)) \subseteq found
      /\ BadManifests \subseteq found
      /\ \A f \in found :
           f \in Duplicates(Present(applied)) \/ Asked(f) \/ f \in BadManifests
  BY DEF CurrentInv, CalmInv, CalmOK
<1>2. /\ \A f \in Duplicates(Present(applied)) : f.rule = "duplicate-content"
      /\ \A f \in BadManifests : f.rule = "manifest-invalid"
      /\ \A f : Asked(f) => f.rule = "ambiguous-origin"
  <2>1. \A f \in Duplicates(Present(applied)) : f.rule = "duplicate-content"
    <3> SUFFICES ASSUME NEW f \in Duplicates(Present(applied)) PROVE f.rule = "duplicate-content"
      OBVIOUS
    <3>1. \E d : f = [rule |-> "duplicate-content", key |-> d]
      BY DEF Duplicates
    <3> QED BY <3>1
  <2>2. \A f \in BadManifests : f.rule = "manifest-invalid"
    BY DEF BadManifests
  <2> QED BY <2>1, <2>2 DEF Asked
<1> HIDE DEF found
<1>3. ASSUME NEW d \in Content
      PROVE  [rule |-> "duplicate-content", key |-> d] \in found <=>
               /\ d \notin Blank
               /\ \E k, l \in Present(applied) :
                     /\ k # l /\ DigestOf(applied, k) = d /\ DigestOf(applied, l) = d
                     /\ ~ Vendored(k) /\ ~ Vendored(l)
  <2> DEFINE f == [rule |-> "duplicate-content", key |-> d]
             S == {l \in Present(applied) : DigestOf(applied, l) = d /\ ~ Vendored(l)}
  <2>1. f.rule = "duplicate-content"
    OBVIOUS
  <2>2. f \in Duplicates(Present(applied)) <=> d \notin Blank /\ Cardinality(S) > 1
    BY DEF Duplicates
  <2>3. IsFiniteSet(S)
    <3>1. S \subseteq Locator
      BY DEF Present
    <3> QED BY <3>1, LocatorFinite, FS_Subset
  <2> HIDE DEF f
  <2>4. f \in found <=> f \in Duplicates(Present(applied))
    BY <1>1, <1>2, <2>1
  <2>5. Cardinality(S) > 1 <=> \E k, l \in S : k # l
    <3> HIDE DEF S
    <3> QED BY <2>3, MoreThanOne
  <2> QED BY <2>2, <2>4, <2>5 DEF f
<1>4. ASSUME NEW l \in Locator
      PROVE  [rule |-> "manifest-invalid", key |-> l] \in found <=>
               IsManifest(l) /\ ManifestIn(Dir(l)) # Gone /\ ~ Speaks(Dir(l))
  <2> DEFINE f == [rule |-> "manifest-invalid", key |-> l]
  <2>1. f.rule = "manifest-invalid" /\ f.key = l
    OBVIOUS
  <2>2. f \in BadManifests <=>
          \E m \in LatestManifests : m.loc = l /\ ~ ManifestOf[m.dig].valid
    BY DEF BadManifests
  <2> HIDE DEF f
  <2>3. f \in found <=> f \in BadManifests
    BY <1>1, <1>2, <2>1
  <2>4. LatestManifests =
          {[loc |-> k, dig |-> DigestOf(applied, k)] : k \in {k \in Present(applied) : IsManifest(k)}}
    BY <1>1, LatestManifestsAre DEF CurrentInv
  <2>5. f \in found <=>
          /\ l \in Present(applied) /\ IsManifest(l)
          /\ ~ ManifestOf[DigestOf(applied, l)].valid
    <3>1. \A m \in LatestManifests : m.loc = l =>
            l \in Present(applied) /\ IsManifest(l) /\ m.dig = DigestOf(applied, l)
      BY <2>4
    <3>2. l \in Present(applied) /\ IsManifest(l) =>
            [loc |-> l, dig |-> DigestOf(applied, l)] \in LatestManifests
      BY <2>4
    <3> QED BY <2>2, <2>3, <3>1, <3>2
  <2>6. IsManifest(l) => ManifestIn(Dir(l)) =
          IF l \in Present(applied) THEN DigestOf(applied, l) ELSE Gone
    BY ManifestPath DEF ManifestIn
  <2>7. l \in Present(applied) => DigestOf(applied, l) # Gone
    BY PresentDigest DEF CurrentInv
  <2> QED BY <2>5, <2>6, <2>7 DEF Speaks, f
<1>5. ASSUME NEW f \in found, f.rule = "ambiguous-origin" PROVE Asked(f)
  BY <1>1, <1>2, <1>5
<1> QED BY <1>3, <1>4, <1>5 DEF Asked, found, FindingsAreCurrent

\* When nothing was appended or folded since a command began its tail, what it stores
\* as findings is what the view has: every content that is there twice, every broken
\* manifest, and questions about files that are gone and have several successors
\* (findings.duplicates, badManifests and ambiguous over the tables they read).
THEOREM FindingsCurrentAlways == Spec => FindingsCurrent
<1> DEFINE Current ==
      \A p \in Process :
        run[p].pc = "detect" /\ findings' = run[p].found /\ calm[p] =>
          FindingsAreCurrent(findings')
<1>1. CurrentInv /\ [Next]_vars => [Current]_vars
  BY FindingsAre
<1>2. Spec => [][Current]_vars
  BY <1>1, CurrentAlways, PTL DEF Spec
<1> QED BY <1>2 DEF FindingsCurrent

LEMMA MembersAre ==
  ASSUME CurrentInv, NEW p \in Process, calm[p], run[p].pc = "replace"
  PROVE  ProjectsAreCurrent(run[p].rows)
<1> DEFINE valid == {m \in LatestManifests : ManifestOf[m.dig].valid}
           plan == ResolveProjects(LatestManifests, LatestMarkers)
<1>1. applied = Len(log) /\ run[p].rows = FileProjects(plan, Present(applied))
  BY DEF CurrentInv, CalmInv, CalmOK, Members
<1>2. LatestManifests =
        {[loc |-> k, dig |-> DigestOf(applied, k)] : k \in {k \in Present(applied) : IsManifest(k)}}
  BY <1>1, LatestManifestsAre DEF CurrentInv
<1>3. ASSUME NEW m \in valid
      PROVE  /\ m.loc \in Locator /\ IsManifest(m.loc) /\ Speaks(Dir(m.loc))
             /\ ManifestIn(Dir(m.loc)) = m.dig
  <2>1. /\ m.loc \in Present(applied) /\ IsManifest(m.loc) /\ m.dig = DigestOf(applied, m.loc)
        /\ ManifestOf[m.dig].valid
    BY <1>2
  <2>2. m.loc \in Locator /\ m.dig # Gone
    BY <2>1, PresentDigest DEF CurrentInv
  <2>3. Dir(m.loc) \o <<Manifest>> = m.loc
    BY <2>1, <2>2, ManifestPath
  <2> QED BY <2>1, <2>2, <2>3 DEF ManifestIn, Speaks
<1>4. ASSUME NEW dir \in Seq(STRING), Speaks(dir)
      PROVE  \E m \in valid : Dir(m.loc) = dir
  <2> DEFINE l == dir \o <<Manifest>>
  <2>1. l \in Present(applied) /\ ManifestOf[DigestOf(applied, l)].valid
    BY <1>4 DEF Speaks, ManifestIn
  <2> HIDE DEF l
  <2>2. l \in Locator
    BY <2>1 DEF Present
  <2>3. IsManifest(l) /\ Dir(l) = dir
    BY <2>2, ManifestPath DEF l
  <2>4. [loc |-> l, dig |-> DigestOf(applied, l)] \in valid
    BY <1>2, <2>1, <2>3
  <2> QED BY <2>3, <2>4
<1>5. plan = {Declared(m.loc, ManifestOf[m.dig]) : m \in valid}
               \cup {Suggested(dir) : dir \in {d \in LatestMarkers : ~ Vendored(d) /\
                                                 ~ \E m \in valid : Dir(m.loc) = d}}
  BY DEF ResolveProjects
<1>6. \A dir \in LatestMarkers : dir \in Seq(STRING)
  <2> SUFFICES ASSUME NEW i \in Newest("folder") PROVE log[i].loc \in Seq(STRING)
    BY DEF LatestMarkers
  <2>1. log[i] \in RowType
    BY NewestIs DEF CurrentInv, TypeInv, LogOK
  <2>2. log[i].loc \in Locator \cup Marked \cup OldMarked
    BY <2>1 DEF RowType, Place
  <2> QED BY <2>2, InferenceAssumption
<1> HIDE DEF valid, plan
<1>7. ASSUME NEW r \in run[p].rows
      PROVE  /\ r.loc \in Present(applied)
             /\ \E q \in plan : r.project = q.id /\ r.basis = q.basis
  BY <1>1 DEF FileProjects
<1>8. ASSUME NEW r \in run[p].rows, r.basis = "manifest"
      PROVE  \E l \in Locator : IsManifest(l) /\ Speaks(Dir(l))
                                  /\ ManifestOf[ManifestIn(Dir(l))].id = r.project
  <2>1. PICK q \in plan : r.project = q.id /\ q.basis = "manifest"
    BY <1>7, <1>8
  <2>2. PICK m \in valid : q = Declared(m.loc, ManifestOf[m.dig])
    BY <1>5, <2>1 DEF Suggested
  <2>3. q.id = ManifestOf[m.dig].id
    BY <2>2 DEF Declared
  <2> QED BY <1>3, <2>1, <2>3
<1>9. ASSUME NEW r \in run[p].rows, r.basis = "native-marker"
      PROVE  ~ Speaks(r.project[2]) /\ ~ Vendored(r.project[2])
  <2>1. PICK q \in plan : r.project = q.id /\ q.basis = "native-marker"
    BY <1>7, <1>9
  <2>2. PICK dir \in LatestMarkers :
          ~ Vendored(dir) /\ q = Suggested(dir) /\ ~ \E m \in valid : Dir(m.loc) = dir
    BY <1>5, <2>1 DEF Declared
  <2>3. r.project[2] = dir
    BY <2>1, <2>2 DEF Suggested
  <2> QED BY <1>4, <1>6, <2>2, <2>3
<1>10. ASSUME NEW dir \in Marked, NEW l \in Present(applied), IsPrefix(dir, l),
              Plain(dir), ~ Speaks(dir)
       PROVE  [loc |-> l, project |-> <<"mark", dir>>, basis |-> "native-marker"] \in run[p].rows
  <2>1. dir \in Seq(STRING) /\ dir \notin Locator /\ ~ Vendored(dir)
    BY InferenceAssumption
  <2>2. l \in Locator /\ l \in Seq(STRING) /\ dir # l
    BY <2>1, InferenceAssumption DEF Present
  <2>3. dir \in LatestMarkers
    <3>1. \E i \in 1 .. Len(log) : log[i].claim = "file" /\ log[i].loc = l
      <4>1. /\ StateRows(applied, l) # {} /\ ~ Absent(log[Latest(applied, l)])
            /\ Latest(applied, l) \in 1 .. Len(log)
            /\ Latest(applied, l) \in StateRows(applied, l)
        BY <1>1, LatestIs DEF Present, CurrentInv, TypeInv, TablesOK
      <4> QED BY <4>1 DEF StateRows, Absent
    <3>2. PICK k \in 1 .. Len(log) : log[k].claim = "folder" /\ log[k].loc = dir
      BY <1>10, <3>1 DEF CurrentInv, SeenInv, FoldersSeen
    <3>3. PICK i \in Newest("folder") : log[i].loc = dir
      BY <3>2, NewestExists DEF CurrentInv, TypeInv
    <3>4. IsStrictPrefix(dir, l)
      BY <1>10, <2>2 DEF IsStrictPrefix
    <3> QED BY <3>3, <3>4 DEF LatestMarkers, Beneath
  <2>4. Suggested(dir) \in plan
    <3>1. ~ \E m \in valid : Dir(m.loc) = dir
      BY <1>3, <1>10
    <3> QED BY <1>5, <2>1, <2>3, <3>1
  <2>5. Match(dir \o <<"**">>, l)
    BY <1>10, <2>1, <2>2, MatchBeneath
  <2>6. /\ Suggested(dir).id = <<"mark", dir>> /\ Suggested(dir).basis = "native-marker"
        /\ dir \o <<"**">> \in Suggested(dir).patterns
    BY DEF Suggested
  <2> HIDE DEF Suggested
  <2> QED BY <1>1, <2>4, <2>5, <2>6 DEF FileProjects
<1> QED BY <1>7, <1>8, <1>9, <1>10 DEF ProjectsAreCurrent

\* When nothing was appended or folded since a command began its tail, the table of
\* projects it writes has no row of a manifest or a folder that is not there any more,
\* and every file beneath a marked folder is in a project (ProjectMembership,
\* ResolveProjects and Match).
THEOREM MembershipCurrentAlways == Spec => MembershipCurrent
<1> DEFINE Current ==
      \A p \in Process :
        run[p].pc = "replace" /\ run'[p].pc = "files" /\ calm[p] =>
          ProjectsAreCurrent(projects')
<1>1. ASSUME TypeInv, Next, NEW p \in Process, run[p].pc = "replace", run'[p].pc = "files"
      PROVE  projects' = run[p].rows
  <2>1. PICK q \in Process : Step(q)
    BY <1>1 DEF Next, Step
  <2>2. DOMAIN run = Process /\ \E x : run' = [run EXCEPT ![q] = x]
    BY <1>1, <2>1, StepOfOne DEF TypeInv, RunsOK
  <2>3. q = p
    BY <1>1, <2>2
  <2>4. ReplaceProjects(p) \/ Abandon(p)
    BY <1>1, <2>1, <2>3 DEF Step, Scan, Import, Apply, ReadTombstones, ReadArrivals,
       InsertRelations, ReadManifests, ReadMarkers, ReadMembers, ReadFiles, ReadAmbiguities,
       ReadInvalid, Detect
  <2>5. ~ Abandon(p)
    <3> SUFFICES ASSUME Abandon(p) PROVE FALSE
      OBVIOUS
    <3>1. run' = [run EXCEPT ![p] = [pc |-> "idle"]]
      BY DEF Abandon, Stop, Idle
    <3>2. run'[p].pc = "idle"
      BY <2>2, <3>1
    <3> QED BY <1>1, <3>2
  <2> QED BY <2>4, <2>5 DEF ReplaceProjects
<1>2. CurrentInv /\ [Next]_vars => [Current]_vars
  BY <1>1, MembersAre DEF CurrentInv
<1>3. Spec => [][Current]_vars
  BY <1>2, CurrentAlways, PTL DEF Spec
<1> QED BY <1>3 DEF MembershipCurrent
=============================================================================
