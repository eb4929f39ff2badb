--------------------------- MODULE BundlesProofs ---------------------------
(***************************************************************************)
(* What TLAPS proves of Bundles: its type invariant, that rows stay filed  *)
(* under who observed them, that a receiver has a sender's rows under one  *)
(* key, that a bundle recorded has arrived, and that every copy follows    *)
(* its sender's log.  Where a theorem needs it, it supposes that no two    *)
(* Gysts call a source alike, or that a Gyst runs its commands one after   *)
(* the other.                                                              *)
(***************************************************************************)
EXTENDS Bundles, FilterProofs

-----------------------------------------------------------------------------
(* What the theorems suppose.                                               *)

\* No two nodes call a source of theirs alike.
NamesApart == \A m, n \in Node : m # n => Own[m] \cap Own[n] = {}

\* A Gyst runs these commands one at a time.
Solo == \A p, q \in Process : p = q

\* No Gyst that is handed bundles hands on any.
NoRelay == \A g, h \in Hands : g[2] # h[1]

\* No Gyst exports while it imports.
Apart == Solo \/ NoRelay

-----------------------------------------------------------------------------
(* The inductive invariant.                                                 *)

IdOf == [r \in RowType |-> r.id]

\* What a node has observed itself, and what it has of another's.
OwnRow(n, r) ==
  /\ r.by = n
  /\ r.under = NoKey
  /\ \E s \in Own[n] : r.src = <<s>> /\ r.id[1] = <<s>>

ImportedRow(n, r) ==
  /\ r.by # n
  /\ \E s \in Own[r.by] : r.src = <<r.by, s>> /\ r.id[1] = <<s>>
  /\ r.src \in marked[n]
  /\ r.under # NoKey
  /\ Solo => r.under = trusted[n][r.by]

RowsOK ==
  /\ log \in [Node -> Seq(RowType)]
  /\ \A n \in Node :
       /\ Distinct(log[n], IdOf)
       /\ \A i \in 1 .. Len(log[n]) :
            /\ Apart => OwnRow(n, log[n][i]) \/ ImportedRow(n, log[n][i])
            /\ log[n][i].src \in registered[n]

SourcesOK ==
  /\ registered \in [Node -> SUBSET Seq(STRING)]
  /\ marked \in [Node -> SUBSET Seq(STRING)]
  /\ \A n \in Node :
       /\ marked[n] \subseteq registered[n]
       /\ \A s \in Own[n] : <<s>> \in registered[n]

KeysOK ==
  /\ key \in [Node -> Key]
  /\ trusted \in [Node -> [Node -> Key \cup {NoKey}]]

\* Rows of one source, and those of it that egress lets through.
RowsOf(src) == {r \in RowType : r.src = src}

Permitted(src, want) == {r \in RowType : r.src = src /\ Permits(r.level, want)}

BundleType ==
  [sender : Node, key : Key, level : DestLevels, sources : SUBSET Seq(STRING),
   body : Seq(RowType), digest : Seq(RowType)]

\* What is read of some sources of a node, the node's own where it can be, is
\* of each of them the beginning of what the node may hand over.
ReadOK(n, want, srcs, rows) ==
  /\ Distinct(rows, IdOf)
  /\ \A i \in 1 .. Len(rows) : rows[i].src \in srcs /\ (Apart => OwnRow(n, rows[i]))
  /\ \A src \in Seq(STRING) : IsPrefix(Filter(rows, RowsOf(src)), Body(n, src, want))

\* What was signed.
BundleOK(b) == ReadOK(b.sender, b.level, b.sources, b.digest)

BundlesOK == bundles \subseteq BundleType /\ \A b \in bundles : BundleOK(b)

ReceivedOK == received \in [Node -> SUBSET bundles]

\* How far an export has come: what it has read is still in the log, and none
\* of its sources has turned out to be another's.
Exporting ==
  [pc : {"export"}, level : DestLevels, key : Key, sources : SUBSET Seq(STRING),
   left : SUBSET Seq(STRING), body : Seq(RowType)]

ExportOK(n, r) ==
  /\ r \in Exporting
  /\ \E h \in Hands : h[1] = n
  /\ r.left \subseteq r.sources
  /\ r.sources \subseteq registered[n]
  /\ Apart => r.sources \cap marked[n] = {}
  /\ ToSet(r.body) \subseteq ToSet(log[n])
  /\ ReadOK(n, r.level, r.sources \ r.left, r.body)

\* How far an import has come: which key it goes by, what it has registered
\* and what it has marked.
Importing ==
  [pc : {"trust", "register", "mark", "record"}, bundle : BundleType, left : SUBSET Seq(STRING)]

Done(r) == {Named(r.bundle.sender, src) : src \in r.bundle.sources \ r.left}

ImportOK(n, r) ==
  /\ r \in Importing
  /\ r.bundle \in bundles
  /\ Verified(r.bundle)
  /\ r.left \subseteq r.bundle.sources
  /\ <<r.bundle.sender, n>> \in Hands
  /\ Solo => trusted[n][r.bundle.sender] = IF r.pc = "trust" THEN NoKey ELSE r.bundle.key
  /\ Done(r) \subseteq registered[n]
  /\ r.pc # "mark" => Done(r) \subseteq marked[n]

RunOK(n, r) == r = Idle \/ ExportOK(n, r) \/ ImportOK(n, r)

RunsOK ==
  /\ DOMAIN run = Node
  /\ \A n \in Node : DOMAIN run[n] = Process /\ run[n] = [p \in Process |-> run[n][p]]
  /\ run = [n \in Node |-> run[n]]
  /\ \A n \in Node, p \in Process : RunOK(n, run[n][p])

Inv == RowsOK /\ SourcesOK /\ KeysOK /\ BundlesOK /\ ReceivedOK /\ RunsOK

\* A bundle whose rows are appended has arrived, and stays.
Arrived(n, b) ==
  \A i \in DOMAIN b.digest :
    \E j \in DOMAIN log[n] :
      /\ log[n][j].id = b.digest[i].id
      /\ log[n][j].src = Named(b.sender, b.digest[i].src)

ArrivedOK ==
  \A n \in Node :
    /\ \A b \in received[n] : Arrived(n, b)
    /\ \A p \in Process : At(n, p, "record") => Arrived(n, run[n][p].bundle)

\* Every copy is the beginning of what there is of its source.
CopiesOK == \A k \in Links : IsPrefix(Copy(k), Origin(k))

-----------------------------------------------------------------------------
(* Rows.                                                                    *)

LEMMA HasMaximum ==
  ASSUME NEW n \in Nat, NEW T \in SUBSET (1 .. n), T # {}
  PROVE  \E i \in T : \A j \in T : j <= i
<1> DEFINE S == {m \in Nat : \A U \in SUBSET (1 .. m) : U # {} => \E i \in U : \A j \in U : j <= i}
<1>1. 0 \in S
  <2>1. \A U \in SUBSET (1 .. 0) : U = {}
    OBVIOUS
  <2> QED BY <2>1
<1>2. ASSUME NEW m \in Nat, m \in S PROVE m + 1 \in S
  <2> SUFFICES ASSUME NEW U \in SUBSET (1 .. m + 1), U # {}
               PROVE  \E i \in U : \A j \in U : j <= i
    OBVIOUS
  <2>1. CASE m + 1 \in U
    BY <2>1
  <2>2. CASE m + 1 \notin U
    <3>1. U \in SUBSET (1 .. m)
      BY <2>2
    <3> QED BY <1>2, <3>1
  <2> QED BY <2>1, <2>2
<1>3. Nat \subseteq S
  <2> HIDE DEF S
  <2> QED BY <1>1, <1>2, NatSetInduction
<1> QED BY <1>3

LEMMA PriorType ==
  ASSUME NEW n \in Node, log[n] \in Seq(RowType), NEW src, NEW l
  PROVE  Prior(n, src, l) \in Nat
<1> DEFINE seqs == {i \in DOMAIN log[n] : log[n][i].src = src /\ log[n][i].loc = l}
           last == CHOOSE i \in seqs : \A j \in seqs : j <= i
<1>1. seqs \in SUBSET (1 .. Len(log[n])) /\ Len(log[n]) \in Nat
  OBVIOUS
<1>2. seqs # {} => last \in Nat
  <2> HIDE DEF seqs
  <2>1. seqs # {} => \E i \in seqs : \A j \in seqs : j <= i
    BY <1>1, HasMaximum
  <2>2. seqs # {} => last \in seqs
    BY <2>1
  <2> HIDE DEF last
  <2>3. \A i \in 1 .. Len(log[n]) : i \in Nat
    BY <1>1
  <2> QED BY <1>1, <2>2, <2>3
<1>3. Prior(n, src, l) = IF seqs = {} \/ (seqs # {} /\ log[n][last].ver = Gone) THEN 0 ELSE last
  BY DEF Prior
<1> HIDE DEF seqs, last
<1> QED BY <1>2, <1>3

LEMMA SingletonSeq == ASSUME NEW X, NEW x \in X PROVE <<x>> \in Seq(X)
  OBVIOUS

LEMMA FileObsType ==
  ASSUME NEW n \in Node, log[n] \in Seq(RowType), NEW s \in Own[n], NEW l \in Locator,
         NEW v \in Version \cup {Gone}, NEW level \in ScanLevels
  PROVE  /\ FileObs(n, <<s>>, l, v, level) \in RowType
         /\ OwnRow(n, FileObs(n, <<s>>, l, v, level))
<1>1. s \in STRING /\ level \in Level
  BY BundlesAssumption
<1>1a. <<s>> \in Seq(STRING)
  BY <1>1, SingletonSeq
<1>2. Prior(n, <<s>>, l) \in Nat
  BY PriorType
<1> DEFINE p == Prior(n, <<s>>, l)
           o == [id |-> <<<<s>>, l, v, p>>, src |-> <<s>>, loc |-> l, ver |-> v,
                 level |-> level, by |-> n, under |-> NoKey]
<1>3. FileObs(n, <<s>>, l, v, level) = o
  BY DEF FileObs
<1> HIDE DEF p
<1>4. <<<<s>>, l, v, p>> \in Seq(STRING) \X Locator \X (Version \cup {Gone}) \X Nat
  BY <1>1a, <1>2 DEF p
<1>5. o \in RowType
  BY <1>1, <1>1a, <1>4 DEF RowType
<1>6. OwnRow(n, o)
  BY DEF OwnRow
<1> QED BY <1>3, <1>5, <1>6

LEMMA RowFields ==
  ASSUME NEW r \in RowType
  PROVE  /\ IdOf[r] = r.id
         /\ r.src \in Seq(STRING) /\ r.by \in Node /\ r.under \in Key \cup {NoKey}
  BY DEF IdOf, RowType

LEMMA BodyIsFilter ==
  ASSUME NEW rows \in Seq(RowType), NEW src, NEW want
  PROVE  Pick(rows, {i \in DOMAIN rows : rows[i].src = src /\ Permits(rows[i].level, want)})
           = Filter(rows, Permitted(src, want))
<1>1. \A i \in DOMAIN rows : rows[i] \in RowType
  OBVIOUS
<1>2. {i \in DOMAIN rows : rows[i].src = src /\ Permits(rows[i].level, want)}
        = {i \in DOMAIN rows : rows[i] \in Permitted(src, want)}
  BY <1>1 DEF Permitted
<1> QED BY <1>2, FilterIsPick

LEMMA CopyIsFilter ==
  ASSUME NEW rows \in Seq(RowType), NEW src
  PROVE  Pick(rows, {i \in DOMAIN rows : rows[i].src = src}) = Filter(rows, RowsOf(src))
<1>1. \A i \in DOMAIN rows : rows[i] \in RowType
  OBVIOUS
<1>2. {i \in DOMAIN rows : rows[i].src = src} = {i \in DOMAIN rows : rows[i] \in RowsOf(src)}
  BY <1>1 DEF RowsOf
<1> QED BY <1>2, FilterIsPick

\* Rows whose id is not among the known ones.
Fresh(known) == {r \in RowType : r.id \notin known}

LEMMA NewIsFilter ==
  ASSUME NEW rows \in Seq(RowType), NEW known
  PROVE  NewRows(rows, known) = Filter(rows, Fresh(known))
<1>1. \A i \in DOMAIN rows : rows[i] \in RowType
  OBVIOUS
<1>2. {i \in DOMAIN rows : rows[i].id \notin known}
        = {i \in DOMAIN rows : rows[i] \in Fresh(known)}
  BY <1>1 DEF Fresh
<1> QED BY <1>2, FilterIsPick DEF NewRows

LEMMA KnownIds ==
  ASSUME NEW rows \in Seq(RowType)
  PROVE  Ids(rows) = {r.id : r \in ToSet(rows)}
  BY DEF Ids, ToSet

LEMMA NamedType ==
  ASSUME NEW m \in Node, NEW src \in Seq(STRING)
  PROVE  Named(m, src) \in Seq(STRING)
<1>1. m \in STRING
  BY BundlesAssumption
<1>2. <<m>> \in Seq(STRING)
  BY <1>1, SingletonSeq
<1> QED BY <1>2, ConcatProperties DEF Named

LEMMA NamedSource ==
  ASSUME NEW m, NEW s
  PROVE  Named(m, <<s>>) = <<m, s>>
<1> DEFINE X == {m, s}
           a == <<m>>
           b == <<s>>
           c == <<m, s>>
<1>1. a \in Seq(X) /\ b \in Seq(X) /\ c \in Seq(X)
  OBVIOUS
<1>2. Len(a) = 1 /\ Len(b) = 1 /\ Len(c) = 2 /\ a[1] = m /\ b[1] = s /\ c[1] = m /\ c[2] = s
  OBVIOUS
<1> HIDE DEF a, b, c, X
<1>3. /\ a \o b \in Seq(X) /\ Len(a \o b) = Len(a) + Len(b)
      /\ \A i \in 1 .. Len(a) + Len(b) :
           (a \o b)[i] = IF i <= Len(a) THEN a[i] ELSE b[i - Len(a)]
  BY <1>1, ConcatProperties
<1>4. Len(a \o b) = Len(c)
  BY <1>2, <1>3
<1>5. ASSUME NEW i \in 1 .. Len(a \o b) PROVE (a \o b)[i] = c[i]
  <2>1. i = 1 \/ i = 2
    BY <1>2, <1>3
  <2> QED BY <1>2, <1>3, <2>1
<1>6. a \o b = c
  BY <1>1, <1>3, <1>4, <1>5, SeqEqual
<1> QED BY <1>6 DEF Named, a, b, c

LEMMA NamespacedRows ==
  ASSUME NEW b \in BundleType
  PROVE  /\ Namespaced(b) \in Seq(RowType)
         /\ Len(Namespaced(b)) = Len(b.body)
         /\ \A i \in 1 .. Len(b.body) :
              LET r == Namespaced(b)[i]
              IN  /\ r.id = b.body[i].id /\ r.by = b.body[i].by /\ r.level = b.body[i].level
                  /\ r.src = Named(b.sender, b.body[i].src)
                  /\ r.under = b.key
<1> DEFINE body == b.body
           ns(i) == [body[i] EXCEPT !.src = Named(b.sender, @), !.under = b.key]
           N == [i \in DOMAIN body |-> ns(i)]
<1>1. body \in Seq(RowType) /\ b.sender \in Node /\ b.key \in Key
  BY DEF BundleType
<1>2. N = Namespaced(b)
  BY DEF Namespaced
<1>3. ASSUME NEW i \in 1 .. Len(body)
      PROVE  /\ ns(i) \in RowType
             /\ ns(i).id = body[i].id /\ ns(i).by = body[i].by /\ ns(i).level = body[i].level
             /\ ns(i).src = Named(b.sender, body[i].src)
             /\ ns(i).under = b.key
  <2>1. body[i] \in RowType
    BY <1>1
  <2> HIDE DEF body
  <2> DEFINE r == body[i]
             nr == [id |-> r.id, src |-> Named(b.sender, r.src), loc |-> r.loc, ver |-> r.ver,
                    level |-> r.level, by |-> r.by, under |-> b.key]
  <2>2. ns(i) = nr
    <3>1. r = [id |-> r.id, src |-> r.src, loc |-> r.loc, ver |-> r.ver,
               level |-> r.level, by |-> r.by, under |-> r.under]
      BY <2>1 DEF RowType
    <3> DEFINE mr == [r EXCEPT !.src = Named(b.sender, @)]
               m1 == [id |-> r.id, src |-> Named(b.sender, r.src), loc |-> r.loc, ver |-> r.ver,
                      level |-> r.level, by |-> r.by, under |-> r.under]
    <3>2. ns(i) = [mr EXCEPT !.under = b.key]
      OBVIOUS
    <3> HIDE DEF ns
    <3>3. mr = m1
      <4> HIDE DEF r
      <4> QED BY <3>1
    <3> HIDE DEF mr
    <3> QED BY <3>2, <3>3
  <2>3. Named(b.sender, r.src) \in Seq(STRING)
    BY <1>1, <2>1, RowFields, NamedType
  <2>4. nr \in RowType
    BY <1>1, <2>1, <2>3 DEF RowType
  <2> HIDE DEF ns
  <2> QED BY <2>2, <2>4
<1> HIDE DEF ns, body
<1>4. N \in Seq(RowType) /\ Len(N) = Len(body) /\ \A i \in 1 .. Len(body) : N[i] = ns(i)
  BY <1>1, <1>3, SeqDef
<1> HIDE DEF N
<1> QED BY <1>2, <1>3, <1>4 DEF body

-----------------------------------------------------------------------------
(* What a step that leaves a part alone, or only adds to it, preserves.     *)

\* Registrations, marks and bundles only grow, a trusted key stays.
Growing ==
  /\ \A n \in Node : registered[n] \subseteq registered'[n] /\ marked[n] \subseteq marked'[n]
  /\ \A n, m \in Node : trusted[n][m] # NoKey => trusted'[n][m] = trusted[n][m]
  /\ bundles \subseteq bundles'

LEMMA ImportedStays ==
  ASSUME NEW n \in Node, NEW r \in RowType, ImportedRow(n, r), Growing
  PROVE  ImportedRow(n, r)'
<1>1. r.by \in Node
  BY RowFields
<1>2. Solo => trusted'[n][r.by] = trusted[n][r.by]
  BY <1>1 DEF ImportedRow, Growing
<1> QED BY <1>2 DEF ImportedRow, Growing

LEMMA RowsKeep ==
  ASSUME RowsOK, log' = log, Growing
  PROVE  RowsOK'
<1>1. ASSUME NEW n \in Node, NEW i \in 1 .. Len(log[n])
      PROVE  /\ Apart => (OwnRow(n, log[n][i])' \/ ImportedRow(n, log[n][i])')
             /\ log[n][i].src \in registered'[n]
  <2>1. PICK r : r = log[n][i]
    OBVIOUS
  <2>2. /\ Apart => OwnRow(n, r) \/ ImportedRow(n, r)
        /\ r.src \in registered[n] /\ r \in RowType
    BY <2>1 DEF RowsOK
  <2>3. Apart => (OwnRow(n, r)' \/ ImportedRow(n, r)')
    BY <2>2, ImportedStays DEF OwnRow
  <2>4. OwnRow(n, r)' = OwnRow(n, log[n][i])' /\ ImportedRow(n, r)' = ImportedRow(n, log[n][i])'
    BY <2>1
  <2> QED BY <2>1, <2>2, <2>3, <2>4 DEF Growing
<1>2. \A n \in Node : Distinct(log'[n], IdOf)
  BY DEF RowsOK
<1>3. log' \in [Node -> Seq(RowType)]
  BY DEF RowsOK
<1> QED BY <1>1, <1>2, <1>3 DEF RowsOK

\* What a source yields stays the beginning of what it yields.
LEMMA Extended ==
  ASSUME NEW rows \in Seq(RowType), NEW new \in Seq(RowType), NEW keep
  PROVE  /\ Filter(rows, keep) \in Seq(RowType)
         /\ Filter(rows \o new, keep) \in Seq(RowType)
         /\ Filter(rows \o new, keep) = Filter(rows, keep) \o Filter(new, keep)
         /\ IsPrefix(Filter(rows, keep), Filter(rows \o new, keep))
<1>1. Filter(rows \o new, keep) = Filter(rows, keep) \o Filter(new, keep)
  BY FilterConcat
<1>2. Filter(rows, keep) \in Seq(RowType) /\ Filter(new, keep) \in Seq(RowType)
  BY FilterType
<1> DEFINE a == Filter(rows, keep)
           c == Filter(new, keep)
<1>3. IsPrefix(a, a \o c) /\ a \o c \in Seq(RowType)
  <2> HIDE DEF a, c
  <2>1. a \in Seq(RowType) /\ c \in Seq(RowType)
    BY <1>2 DEF a, c
  <2> QED BY <2>1, PrefixConcat, ConcatProperties
<1> QED BY <1>1, <1>2, <1>3

LEMMA PrefixTransitive ==
  ASSUME NEW X, NEW s \in Seq(X), NEW t \in Seq(X), NEW u \in Seq(X),
         IsPrefix(s, t), IsPrefix(t, u)
  PROVE  IsPrefix(s, u)
<1>1. Len(s) <= Len(t) /\ \A i \in 1 .. Len(s) : s[i] = t[i]
  BY PrefixByIndex
<1>2. Len(t) <= Len(u) /\ \A i \in 1 .. Len(t) : t[i] = u[i]
  BY PrefixByIndex
<1>3. Len(s) \in Nat /\ Len(t) \in Nat /\ Len(u) \in Nat
  OBVIOUS
<1>4. Len(s) <= Len(u) /\ \A i \in 1 .. Len(s) : s[i] = u[i]
  BY <1>1, <1>2, <1>3
<1> QED BY <1>4, PrefixByIndex

\* The log of one node gets longer.
LogGrows(n, new) == log' = [log EXCEPT ![n] = @ \o new]

LEMMA BodyGrows ==
  ASSUME log \in [Node -> Seq(RowType)], NEW n \in Node, NEW new \in Seq(RowType),
         LogGrows(n, new), NEW m \in Node, NEW src, NEW want
  PROVE  /\ Body(m, src, want) \in Seq(RowType)
         /\ Body(m, src, want)' \in Seq(RowType)
         /\ Body(m, src, want)' = IF m = n
              THEN Body(m, src, want) \o Filter(new, Permitted(src, want))
              ELSE Body(m, src, want)
         /\ IsPrefix(Body(m, src, want), Body(m, src, want)')
<1> DEFINE keep == Permitted(src, want)
<1>1. /\ log[m] \in Seq(RowType) /\ log'[m] \in Seq(RowType)
      /\ log'[m] = IF m = n THEN log[m] \o new ELSE log[m]
  BY ConcatProperties DEF LogGrows
<1>2. Body(m, src, want) = Filter(log[m], keep)
  BY <1>1, BodyIsFilter DEF Body, Carried
<1>3. Body(m, src, want)' = Filter(log'[m], keep)
  <2>1. Body(m, src, want)' = Pick(log'[m], {i \in DOMAIN log'[m] :
          log'[m][i].src = src /\ Permits(log'[m][i].level, want)})
    BY DEF Body, Carried
  <2> DEFINE rows == log'[m]
  <2> HIDE DEF rows
  <2>2. rows \in Seq(RowType)
    BY <1>1 DEF rows
  <2>3. Pick(rows, {i \in DOMAIN rows : rows[i].src = src /\ Permits(rows[i].level, want)})
          = Filter(rows, Permitted(src, want))
    BY <2>2, BodyIsFilter
  <2> QED BY <2>1, <2>3 DEF rows
<1> HIDE DEF keep
<1>4. Filter(log[m], keep) \in Seq(RowType)
  BY <1>1, FilterType
<1>5. CASE m = n
  <2>1. /\ Filter(log[m] \o new, keep) = Filter(log[m], keep) \o Filter(new, keep)
        /\ Filter(log[m] \o new, keep) \in Seq(RowType)
        /\ IsPrefix(Filter(log[m], keep), Filter(log[m] \o new, keep))
    <3> DEFINE rows == log[m]
    <3>1. rows \in Seq(RowType)
      BY <1>1
    <3> HIDE DEF rows
    <3>2. /\ Filter(rows \o new, keep) = Filter(rows, keep) \o Filter(new, keep)
          /\ Filter(rows \o new, keep) \in Seq(RowType)
          /\ IsPrefix(Filter(rows, keep), Filter(rows \o new, keep))
      BY <3>1, Extended, Zenon
    <3> QED BY <3>2 DEF rows
  <2> QED BY <1>1, <1>2, <1>3, <1>4, <1>5, <2>1 DEF keep
<1>6. CASE m # n
  <2>1. IsPrefix(Filter(log[m], keep), Filter(log[m], keep))
    BY <1>4, PrefixReflexive
  <2> QED BY <1>1, <1>2, <1>3, <1>4, <1>6, <2>1 DEF keep
<1> QED BY <1>5, <1>6

\* Logs stay as they are, or one of them gets longer.
LogsKeep == log' = log \/ \E n \in Node, new \in Seq(RowType) : LogGrows(n, new)

LEMMA ReadKeeps ==
  ASSUME RowsOK, LogsKeep, NEW n \in Node, NEW want, NEW srcs, NEW rows \in Seq(RowType),
         ReadOK(n, want, srcs, rows)
  PROVE  ReadOK(n, want, srcs, rows)'
<1>1. log \in [Node -> Seq(RowType)]
  BY DEF RowsOK
<1>2. ASSUME NEW src \in Seq(STRING)
      PROVE  IsPrefix(Filter(rows, RowsOf(src)), Body(n, src, want)')
  <2> DEFINE p == Filter(rows, RowsOf(src))
  <2>1. p \in Seq(RowType) /\ IsPrefix(p, Body(n, src, want))
    BY FilterType DEF ReadOK
  <2> HIDE DEF p
  <2>2. CASE log' = log
    <3>1. Body(n, src, want)' = Body(n, src, want)
      BY <2>2 DEF Body, Carried
    <3> QED BY <2>1, <3>1 DEF p
  <2>3. CASE \E m \in Node, new \in Seq(RowType) : LogGrows(m, new)
    <3>1. /\ Body(n, src, want) \in Seq(RowType)
          /\ Body(n, src, want)' \in Seq(RowType)
          /\ IsPrefix(Body(n, src, want), Body(n, src, want)')
      BY <1>1, <2>3, BodyGrows
    <3>2. IsPrefix(p, Body(n, src, want)')
      BY <2>1, <3>1, PrefixTransitive
    <3> QED BY <3>2 DEF p
  <2> QED BY <2>2, <2>3 DEF LogsKeep
<1> QED BY <1>2 DEF ReadOK, OwnRow

LEMMA BundlesKeep ==
  ASSUME RowsOK, BundlesOK, LogsKeep, bundles' = bundles
  PROVE  BundlesOK'
<1>1. ASSUME NEW b \in bundles PROVE BundleOK(b)'
  <2>1. /\ BundleOK(b) /\ b.sender \in Node /\ b.digest \in Seq(RowType)
    BY DEF BundlesOK, BundleType
  <2> DEFINE n == b.sender
             want == b.level
             srcs == b.sources
             rows == b.digest
  <2>2. n \in Node /\ rows \in Seq(RowType) /\ ReadOK(n, want, srcs, rows)
    BY <2>1 DEF BundleOK
  <2> HIDE DEF n, want, srcs, rows
  <2>3. ReadOK(n, want, srcs, rows)'
    BY <2>2, ReadKeeps
  <2> QED BY <2>3 DEF BundleOK, n, want, srcs, rows
<1> QED BY <1>1 DEF BundlesOK

\* What is in a log stays in it.
LEMMA StaysInLog ==
  ASSUME RowsOK, LogsKeep, NEW n \in Node
  PROVE  ToSet(log[n]) \subseteq ToSet(log'[n])
<1>1. log \in [Node -> Seq(RowType)]
  BY DEF RowsOK
<1>2. ASSUME NEW m \in Node, NEW new \in Seq(RowType), LogGrows(m, new)
      PROVE  ToSet(log[n]) \subseteq ToSet(log'[n])
  <2>1. CASE n = m
    <3> DEFINE old == log[n]
    <3>1. old \in Seq(RowType) /\ log'[n] = old \o new
      BY <1>1, <1>2, <2>1 DEF LogGrows
    <3> HIDE DEF old
    <3>2. ToSet(old \o new) = ToSet(old) \cup ToSet(new)
      BY <3>1, ConcatElements
    <3> QED BY <3>1, <3>2 DEF old
  <2>2. CASE n # m
    BY <1>1, <1>2, <2>2 DEF LogGrows
  <2> QED BY <2>1, <2>2
<1> QED BY <1>2 DEF LogsKeep

\* A process that takes no step is where it was, as long as no key is recorded
\* while it goes by there being none, and no mark set while it exports.
LEMMA RunKeeps ==
  ASSUME RowsOK, LogsKeep, Growing, NEW n \in Node, NEW r, RunOK(n, r),
         Solo /\ r # Idle => trusted'[n] = trusted[n],
         Apart /\ r.pc = "export" => marked'[n] = marked[n]
  PROVE  RunOK(n, r)'
<1>1. CASE r = Idle
  BY <1>1 DEF RunOK, Idle
<1>2. CASE ExportOK(n, r)
  <2>1. r \in Exporting /\ r.pc = "export" /\ r.body \in Seq(RowType)
    BY <1>2 DEF ExportOK, Exporting
  <2> DEFINE want == r.level
             srcs == r.sources \ r.left
             rows == r.body
  <2>2. rows \in Seq(RowType) /\ ReadOK(n, want, srcs, rows)
    BY <1>2, <2>1 DEF ExportOK
  <2> HIDE DEF want, srcs, rows
  <2>3. ReadOK(n, want, srcs, rows)'
    BY <2>2, ReadKeeps
  <2>4. ToSet(log[n]) \subseteq ToSet(log'[n])
    BY StaysInLog
  <2>5. ExportOK(n, r)'
    BY <1>2, <2>1, <2>3, <2>4 DEF ExportOK, Growing, want, srcs, rows
  <2> QED BY <2>5 DEF RunOK
<1>3. CASE ImportOK(n, r)
  <2>1. r.pc # "idle"
    BY <1>3 DEF ImportOK, Importing
  <2>2. Solo => trusted'[n] = trusted[n]
    BY <2>1 DEF Idle
  <2>3. ImportOK(n, r)'
    BY <1>3, <2>2 DEF ImportOK, Growing, Done, Verified, Named
  <2> QED BY <2>3 DEF RunOK
<1> QED BY <1>1, <1>2, <1>3 DEF RunOK

LEMMA RunNow ==
  ASSUME NEW n, NEW p, NEW r, RunOK(n, r)', run'[n][p] = r
  PROVE  RunOK(n, run[n][p])'
  BY DEF RunOK, ExportOK, ImportOK, Done, ReadOK, OwnRow, Verified

\* Nothing a process goes by changes.
LEMMA RunsKeep ==
  ASSUME Inv, LogsKeep, bundles \subseteq bundles', UNCHANGED <<run, trusted, registered, marked>>
  PROVE  RunsOK'
<1>1. Growing
  BY DEF Growing
<1>2. ASSUME NEW n \in Node, NEW p \in Process PROVE RunOK(n, run[n][p])'
  <2>1. PICK r : r = run[n][p]
    OBVIOUS
  <2>2. RunOK(n, r)
    BY <2>1 DEF Inv, RunsOK
  <2>3. RunOK(n, r)'
    BY <1>1, <2>2, RunKeeps DEF Inv
  <2>4. run'[n][p] = r
    BY <2>1
  <2> QED BY <2>3, <2>4, RunNow
<1> QED BY <1>2 DEF Inv, RunsOK

\* Where the processes are after one of them has taken a step.
LEMMA RunAt ==
  ASSUME Inv, NEW n \in Node, NEW p \in Process, NEW new, run' = [run EXCEPT ![n][p] = new]
  PROVE  /\ run'[n][p] = new
         /\ \A m \in Node, q \in Process : ~(m = n /\ q = p) => run'[m][q] = run[m][q]
         /\ DOMAIN run' = Node /\ run' = [m \in Node |-> run'[m]]
         /\ \A m \in Node : DOMAIN run'[m] = Process /\ run'[m] = [q \in Process |-> run'[m][q]]
<1>1. /\ n \in DOMAIN run /\ p \in DOMAIN run[n]
      /\ \A m \in Node : DOMAIN run[m] = Process /\ run[m] = [q \in Process |-> run[m][q]]
  BY DEF Inv, RunsOK
<1>2. /\ run'[n][p] = new
      /\ \A q \in Process : q # p => run'[n][q] = run[n][q]
      /\ \A m \in Node : m # n => run'[m] = run[m]
      /\ DOMAIN run' = Node /\ run' = [m \in Node |-> run'[m]]
      /\ DOMAIN run'[n] = Process /\ run'[n] = [q \in Process |-> run'[n][q]]
  <2> DEFINE old == run[n]
             one == [old EXCEPT ![p] = new]
  <2>1. run' = [run EXCEPT ![n] = one]
    OBVIOUS
  <2>2. old = [q \in Process |-> old[q]]
    BY DEF Inv, RunsOK
  <2> HIDE DEF old
  <2>3. one[p] = new /\ (\A q \in Process : q # p => one[q] = old[q]) /\ DOMAIN one = Process
        /\ one = [q \in Process |-> one[q]]
    BY <2>2
  <2> HIDE DEF one
  <2>4. run = [m \in Node |-> run[m]]
    BY DEF Inv, RunsOK
  <2>5. run'[n] = one /\ (\A m \in Node : m # n => run'[m] = run[m]) /\ DOMAIN run' = Node
        /\ run' = [m \in Node |-> run'[m]]
    BY <2>1, <2>4
  <2> DEFINE now == run'[n]
  <2>6. now = one
    BY <2>5
  <2> HIDE DEF now
  <2>8. DOMAIN now = Process /\ now = [q \in Process |-> now[q]]
    BY <2>3, <2>6, Zenon
  <2>7. run'[n][p] = new /\ \A q \in Process : q # p => run'[n][q] = run[n][q]
    BY <2>3, <2>5 DEF old
  <2> QED BY <2>5, <2>7, <2>8 DEF now
<1>3. \A m \in Node : DOMAIN run'[m] = Process /\ run'[m] = [q \in Process |-> run'[m][q]]
  <2> SUFFICES ASSUME NEW m \in Node
               PROVE  DOMAIN run'[m] = Process /\ run'[m] = [q \in Process |-> run'[m][q]]
    OBVIOUS
  <2>1. CASE m = n
    BY <1>2, <2>1
  <2>2. CASE m # n
    <3>1. run'[m] = run[m]
      BY <1>2, <2>2
    <3> QED BY <1>1, <3>1, Zenon
  <2> QED BY <2>1, <2>2
<1> QED BY <1>2, <1>3

\* One process takes a step: what it leaves alone, and the other processes.
LEMMA RunsStep ==
  ASSUME Inv, LogsKeep, Growing, NEW n \in Node, NEW p \in Process,
         NEW new, run' = [run EXCEPT ![n][p] = new], RunOK(n, new)',
         \A m \in Node : m # n => trusted'[m] = trusted[m] /\ marked'[m] = marked[m],
         marked'[n] = marked[n] \/ ((\E h \in Hands : h[2] = n) /\ run[n][p].pc # "export")
  PROVE  RunsOK'
<1>1. /\ run'[n][p] = new
      /\ \A m \in Node, q \in Process : ~(m = n /\ q = p) => run'[m][q] = run[m][q]
      /\ DOMAIN run' = Node /\ run' = [m \in Node |-> run'[m]]
      /\ \A m \in Node : DOMAIN run'[m] = Process /\ run'[m] = [q \in Process |-> run'[m][q]]
  BY RunAt
<1>2. ASSUME NEW m \in Node, NEW q \in Process PROVE RunOK(m, run[m][q])'
  <2>1. CASE m = n /\ q = p
    <3>1. RunOK(n, new)' /\ run'[m][q] = new
      BY <1>1, <2>1
    <3>2. RunOK(n, run[n][p])'
      BY <3>1, <2>1, RunNow
    <3> QED BY <2>1, <3>2
  <2>2. CASE ~(m = n /\ q = p)
    <3>1. PICK r : r = run[m][q]
      OBVIOUS
    <3>2. run'[m][q] = r
      BY <1>1, <2>2, <3>1
    <3>3. RunOK(m, r)
      BY <3>1 DEF Inv, RunsOK
    <3>4. Solo => trusted'[m] = trusted[m]
      BY <2>2 DEF Solo
    <3>5. Apart /\ r.pc = "export" => marked'[m] = marked[m]
      <4> SUFFICES ASSUME Apart, r.pc = "export", m = n, q # p PROVE marked'[m] = marked[m]
        BY <2>2
      <4>1. ExportOK(m, r)
        BY <3>3 DEF RunOK, Idle, ImportOK, Importing
      <4>2. NoRelay
        BY DEF Apart, Solo
      <4> QED BY <4>1, <4>2 DEF ExportOK, NoRelay
    <3>6. RunOK(m, r)'
      BY <3>3, <3>4, <3>5, RunKeeps DEF Inv
    <3> QED BY <3>2, <3>6, RunNow
  <2> QED BY <2>1, <2>2
<1> QED BY <1>1, <1>2 DEF Inv, RunsOK

-----------------------------------------------------------------------------
(* Rows added to a log.                                                     *)

LEMMA ToSetByIndex ==
  ASSUME NEW X, NEW s \in Seq(X)
  PROVE  ToSet(s) = {s[i] : i \in 1 .. Len(s)}
  BY DEF ToSet

LEMMA RowsGrow ==
  ASSUME RowsOK, NEW n \in Node, NEW new \in Seq(RowType), LogGrows(n, new),
         UNCHANGED <<registered, marked, trusted>>,
         Distinct(new, IdOf),
         \A x \in ToSet(log[n]), y \in ToSet(new) : x.id # y.id,
         \A y \in ToSet(new) : /\ Apart => OwnRow(n, y) \/ ImportedRow(n, y)
                               /\ y.src \in registered[n]
  PROVE  RowsOK'
<1>1. /\ log[n] \in Seq(RowType) /\ log'[n] = log[n] \o new
      /\ \A m \in Node : m # n => log'[m] = log[m]
  BY DEF RowsOK, LogGrows
<1>2. log' \in [Node -> Seq(RowType)]
  BY <1>1, ConcatProperties DEF RowsOK, LogGrows
<1>3. Distinct(log[n] \o new, IdOf)
  <2>1. Distinct(log[n], IdOf)
    BY DEF RowsOK
  <2>2. \A x \in ToSet(log[n]), y \in ToSet(new) : IdOf[x] # IdOf[y]
    BY <1>1, RowFields, ElementsType
  <2> DEFINE old == log[n]
  <2> HIDE DEF old
  <2>3. old \in Seq(RowType) /\ Distinct(old, IdOf)
        /\ \A x \in ToSet(old), y \in ToSet(new) : IdOf[x] # IdOf[y]
    BY <1>1, <2>1, <2>2 DEF old
  <2>4. Distinct(old \o new, IdOf)
    BY <2>3, ConcatDistinct
  <2> QED BY <2>4 DEF old
<1>4. ASSUME NEW y \in ToSet(log[n] \o new)
      PROVE  /\ Apart => OwnRow(n, y) \/ ImportedRow(n, y)
             /\ y.src \in registered[n]
  <2>1. ToSet(log[n] \o new) = ToSet(log[n]) \cup ToSet(new)
    BY <1>1, ConcatElements
  <2>2. \A x \in ToSet(log[n]) : /\ Apart => OwnRow(n, x) \/ ImportedRow(n, x)
                                 /\ x.src \in registered[n]
    BY <1>1 DEF RowsOK, ToSet
  <2> QED BY <2>1, <2>2
<1>5. ASSUME NEW m \in Node
      PROVE  /\ Distinct(log'[m], IdOf)
             /\ \A i \in 1 .. Len(log'[m]) :
                  /\ Apart => OwnRow(m, log[m][i])' \/ ImportedRow(m, log[m][i])'
                  /\ log'[m][i].src \in registered'[m]
  <2>1. CASE m = n
    <3>1. Distinct(log'[m], IdOf)
      BY <1>1, <1>3, <2>1
    <3>2. ASSUME NEW i \in 1 .. Len(log'[m])
          PROVE  /\ Apart => OwnRow(m, log[m][i])' \/ ImportedRow(m, log[m][i])'
                 /\ log'[m][i].src \in registered'[m]
      <4> DEFINE y == log'[m][i]
      <4>1. y \in ToSet(log[n] \o new)
        <5> DEFINE q == log[n] \o new
        <5>1. q \in Seq(RowType) /\ log'[m] = q
          BY <1>1, <2>1, ConcatProperties
        <5> HIDE DEF q
        <5>2. y \in ToSet(q)
          BY <5>1 DEF ToSet
        <5> QED BY <5>2 DEF q
      <4>2. (Apart => OwnRow(n, y) \/ ImportedRow(n, y)) /\ y.src \in registered[n]
        BY <1>4, <4>1
      <4> QED BY <2>1, <4>2 DEF OwnRow, ImportedRow
    <3> QED BY <3>1, <3>2
  <2>2. CASE m # n
    <3>1. log'[m] = log[m]
      BY <1>1, <2>2
    <3>2. \A i \in 1 .. Len(log[m]) :
            /\ Apart => OwnRow(m, log[m][i]) \/ ImportedRow(m, log[m][i])
            /\ log[m][i].src \in registered[m]
      BY DEF RowsOK
    <3>3. Distinct(log[m], IdOf)
      BY DEF RowsOK
    <3> QED BY <3>1, <3>2, <3>3 DEF OwnRow, ImportedRow
  <2> QED BY <2>1, <2>2
<1> QED BY <1>2, <1>5 DEF RowsOK

LEMMA ImportingNow ==
  ASSUME Inv, NEW n \in Node, NEW p \in Process,
         run[n][p].pc \in {"trust", "register", "mark", "record"}
  PROVE  ImportOK(n, run[n][p])
<1>1. RunOK(n, run[n][p])
  BY DEF Inv, RunsOK
<1> QED BY <1>1 DEF RunOK, Idle, ExportOK, Exporting

LEMMA ExportingNow ==
  ASSUME Inv, NEW n \in Node, NEW p \in Process, At(n, p, "export")
  PROVE  ExportOK(n, run[n][p])
<1>1. RunOK(n, run[n][p]) /\ run[n][p].pc = "export"
  BY DEF Inv, RunsOK, At
<1> QED BY <1>1 DEF RunOK, Idle, ImportOK, Importing

\* The rows of a bundle as an import takes them, and those that are new.
LEMMA ArrivingRows ==
  ASSUME Inv, NEW n \in Node, NEW p \in Process, At(n, p, "register"), run[n][p].left = {}
  PROVE  LET b   == run[n][p].bundle
             ns  == Namespaced(b)
             new == NewRows(ns, Ids(log[n]))
         IN  /\ b \in bundles /\ b \in BundleType /\ BundleOK(b) /\ b.body = b.digest
             /\ b.sender \in Node /\ b.sender # n /\ <<b.sender, n>> \in Hands
             /\ ns \in Seq(RowType) /\ Len(ns) = Len(b.digest)
             /\ \A i \in 1 .. Len(b.digest) :
                  /\ b.digest[i] \in RowType /\ ns[i] \in RowType
                  /\ ns[i].id = b.digest[i].id
                  /\ ns[i].level = b.digest[i].level
                  /\ ns[i].src = Named(b.sender, b.digest[i].src)
                  /\ Apart => ImportedRow(n, ns[i])
                  /\ ns[i].src \in registered[n]
             /\ new = Filter(ns, Fresh(Ids(log[n]))) /\ new \in Seq(RowType)
             /\ ToSet(new) = ToSet(ns) \cap Fresh(Ids(log[n]))
             /\ Distinct(ns, IdOf) /\ Distinct(new, IdOf)
<1> DEFINE b   == run[n][p].bundle
           ns  == Namespaced(b)
           new == NewRows(ns, Ids(log[n]))
<1>1. ImportOK(n, run[n][p]) /\ run[n][p].pc = "register"
  BY ImportingNow DEF At
<1>2. b \in bundles /\ b \in BundleType /\ BundleOK(b) /\ b.body = b.digest
  BY <1>1 DEF ImportOK, Verified, Inv, BundlesOK
<1>3. b.sender \in Node /\ b.sender # n /\ <<b.sender, n>> \in Hands
  BY <1>1, BundlesAssumption DEF ImportOK
<1>4. b.key \in Key /\ (Solo => trusted[n][b.sender] = b.key)
  BY <1>1, <1>2 DEF ImportOK, BundleType
<1>5. b.key # NoKey
  BY <1>4 DEF Key, NoKey
<1>6. \A src \in b.sources : Named(b.sender, src) \in registered[n] /\ Named(b.sender, src) \in marked[n]
  <2>1. Done(run[n][p]) \subseteq registered[n] /\ Done(run[n][p]) \subseteq marked[n]
    BY <1>1 DEF ImportOK
  <2>2. Done(run[n][p]) = {Named(b.sender, src) : src \in b.sources}
    BY DEF Done
  <2> QED BY <2>1, <2>2
<1> HIDE DEF b
<1>7. /\ ns \in Seq(RowType) /\ Len(ns) = Len(b.body)
      /\ \A i \in 1 .. Len(b.body) :
           /\ ns[i].id = b.body[i].id /\ ns[i].by = b.body[i].by /\ ns[i].level = b.body[i].level
           /\ ns[i].src = Named(b.sender, b.body[i].src)
           /\ ns[i].under = b.key
  BY <1>2, NamespacedRows
<1> HIDE DEF ns
<1>8. ASSUME NEW i \in 1 .. Len(b.digest)
      PROVE  /\ b.digest[i] \in RowType /\ ns[i] \in RowType
             /\ ns[i].id = b.digest[i].id
             /\ ns[i].level = b.digest[i].level
             /\ ns[i].src = Named(b.sender, b.digest[i].src)
             /\ Apart => ImportedRow(n, ns[i])
             /\ ns[i].src \in registered[n]
  <2>1. b.digest[i].src \in b.sources /\ (Apart => OwnRow(b.sender, b.digest[i]))
    BY <1>2 DEF BundleOK, ReadOK
  <2>2. b.digest[i] \in RowType /\ ns[i] \in RowType
    BY <1>2, <1>7 DEF BundleType
  <2>3. /\ ns[i].id = b.digest[i].id /\ ns[i].by = b.digest[i].by
        /\ ns[i].level = b.digest[i].level
        /\ ns[i].src = Named(b.sender, b.digest[i].src)
        /\ ns[i].under = b.key
    BY <1>2, <1>7
  <2>4. ns[i].src \in marked[n] /\ ns[i].src \in registered[n]
    BY <1>6, <2>1, <2>3
  <2>5. ASSUME Apart PROVE ImportedRow(n, ns[i])
    <3>1. PICK s \in Own[b.sender] : b.digest[i].src = <<s>> /\ b.digest[i].id[1] = <<s>>
      BY <2>1, <2>5 DEF OwnRow
    <3>2. ns[i].by = b.sender
      BY <2>1, <2>3, <2>5 DEF OwnRow
    <3>3. ns[i].src = <<b.sender, s>> /\ ns[i].id[1] = <<s>>
      BY <2>3, <3>1, NamedSource
    <3> QED BY <1>3, <1>4, <1>5, <2>3, <2>4, <3>2, <3>3 DEF ImportedRow
  <2> QED BY <2>2, <2>3, <2>4, <2>5
<1>9. new = Filter(ns, Fresh(Ids(log[n])))
  BY <1>7, NewIsFilter
<1>10. Distinct(ns, IdOf)
  <2>1. ASSUME NEW i \in 1 .. Len(ns), NEW j \in 1 .. Len(ns), IdOf[ns[i]] = IdOf[ns[j]]
        PROVE  i = j
    <3>1. i \in 1 .. Len(b.digest) /\ j \in 1 .. Len(b.digest)
      BY <1>2, <1>7
    <3>2. IdOf[b.digest[i]] = IdOf[b.digest[j]]
      BY <1>8, <2>1, <3>1, RowFields
    <3> QED BY <1>2, <3>1, <3>2 DEF BundleOK, ReadOK, Distinct
  <2> QED BY <2>1 DEF Distinct
<1> DEFINE fresh == Fresh(Ids(log[n]))
<1> HIDE DEF fresh
<1>11. /\ Filter(ns, fresh) \in Seq(RowType) /\ Distinct(Filter(ns, fresh), IdOf)
       /\ ToSet(Filter(ns, fresh)) = ToSet(ns) \cap fresh
  BY <1>7, <1>10, FilterType, FilterDistinct, FilterElements
<1>12. Len(ns) = Len(b.digest)
  BY <1>2, <1>7
<1> HIDE DEF new
<1> QED BY <1>2, <1>3, <1>7, <1>8, <1>9, <1>10, <1>11, <1>12 DEF fresh, b, ns, new

-----------------------------------------------------------------------------
(* Each action keeps the invariant.                                         *)

LEMMA InitInv == Init => Inv
<1> SUFFICES ASSUME Init PROVE Inv
  OBVIOUS
<1> USE DEF Init
<1>1. RowsOK
  <2>1. \A n \in Node : log[n] = <<>>
    OBVIOUS
  <2>2. <<>> \in Seq(RowType) /\ Len(<<>>) = 0
    OBVIOUS
  <2>3. log \in [Node -> Seq(RowType)]
    BY <2>2
  <2>4. Distinct(<<>>, IdOf)
    BY DEF Distinct
  <2> QED BY <2>1, <2>2, <2>3, <2>4 DEF RowsOK
<1>2. SourcesOK
  <2>1. \A n \in Node : \A s \in Own[n] : <<s>> \in Seq(STRING)
    BY BundlesAssumption, SingletonSeq
  <2>3. registered \in [Node -> SUBSET Seq(STRING)]
    BY <2>1
  <2> QED BY <2>3 DEF SourcesOK
<1>3. KeysOK
  <2>1. 1 \in Key
    <3>1. MaxKeys \in Nat /\ MaxKeys # 0
      BY BundlesAssumption
    <3> QED BY <3>1 DEF Key
  <2>2. key \in [Node -> Key] /\ trusted \in [Node -> [Node -> Key \cup {NoKey}]]
    BY <2>1
  <2> QED BY <2>2 DEF KeysOK
<1>4. BundlesOK
  BY DEF BundlesOK
<1>5. ReceivedOK
  BY DEF ReceivedOK
<1>6. RunsOK
  BY DEF RunsOK, RunOK
<1> QED BY <1>1, <1>2, <1>3, <1>4, <1>5, <1>6 DEF Inv

LEMMA ObserveGrows ==
  ASSUME Inv, NEW n \in Node, NEW s \in Own[n], NEW l \in Locator, NEW v \in Version \cup {Gone},
         NEW level \in ScanLevels, Observe(n, <<s>>, l, v, level)
  PROVE  LET o == FileObs(n, <<s>>, l, v, level)
         IN  o \in RowType /\ OwnRow(n, o) /\ <<o>> \in Seq(RowType) /\ LogGrows(n, <<o>>)
<1> DEFINE o == FileObs(n, <<s>>, l, v, level)
<1>1. log[n] \in Seq(RowType)
  BY DEF Inv, RowsOK
<1>2. o \in RowType /\ OwnRow(n, o)
  BY <1>1, FileObsType
<1>3. log' = [log EXCEPT ![n] = Append(@, o)]
  BY DEF Observe
<1> HIDE DEF o
<1>4. Append(log[n], o) = log[n] \o <<o>>
  BY <1>1, <1>2, AppendIsConcat
<1>5. LogGrows(n, <<o>>)
  BY <1>3, <1>4 DEF LogGrows
<1>6. <<o>> \in Seq(RowType)
  BY <1>2, SingletonSeq
<1> QED BY <1>2, <1>5, <1>6 DEF o

LEMMA ObserveInv ==
  ASSUME Inv, NEW n \in Node, NEW s \in Own[n], NEW l \in Locator, NEW v \in Version \cup {Gone},
         NEW level \in ScanLevels, Observe(n, <<s>>, l, v, level)
  PROVE  Inv'
<1> DEFINE o == FileObs(n, <<s>>, l, v, level)
<1>1. o \in RowType /\ OwnRow(n, o) /\ <<o>> \in Seq(RowType) /\ LogGrows(n, <<o>>)
  BY ObserveGrows
<1>2. /\ o.id \notin Ids(log[n]) /\ o.src = <<s>>
      /\ UNCHANGED <<registered, marked, trusted, key, bundles, received, run>>
  BY DEF Observe, FileObs
<1> HIDE DEF o
<1>3. RowsOK'
  <2>1. ToSet(<<o>>) = {o} /\ Distinct(<<o>>, IdOf)
    BY DEF ToSet, Distinct
  <2>2. \A x \in ToSet(log[n]) : x.id # o.id
    <3>1. log[n] \in Seq(RowType)
      BY DEF Inv, RowsOK
    <3> QED BY <1>2, <3>1, KnownIds
  <2>3. o.src \in registered[n]
    BY <1>2 DEF Inv, SourcesOK
  <2> QED BY <1>1, <1>2, <2>1, <2>2, <2>3, RowsGrow DEF Inv
<1>4. LogsKeep
  BY <1>1 DEF LogsKeep
<1>5. BundlesOK' /\ RunsOK'
  BY <1>2, <1>4, BundlesKeep, RunsKeep DEF Inv
<1>6. SourcesOK' /\ KeysOK' /\ ReceivedOK'
  BY <1>2 DEF Inv, SourcesOK, KeysOK, ReceivedOK
<1> QED BY <1>3, <1>5, <1>6 DEF Inv

LEMMA NewKeyInv ==
  ASSUME Inv, NEW n \in Node, NewKey(n)
  PROVE  Inv'
<1>1. /\ UNCHANGED <<log, registered, marked, trusted, bundles, received, run>>
      /\ key' = [key EXCEPT ![n] = @ + 1] /\ key[n] < MaxKeys
  BY DEF NewKey
<1>2. RowsOK' /\ BundlesOK' /\ RunsOK'
  <2>1. Growing /\ LogsKeep
    BY <1>1 DEF Growing, LogsKeep
  <2> QED BY <1>1, <2>1, RowsKeep, BundlesKeep, RunsKeep DEF Inv
<1>3. key' \in [Node -> Key]
  <2>1. MaxKeys \in Nat /\ key \in [Node -> Key]
    BY BundlesAssumption DEF Inv, KeysOK
  <2>2. key[n] + 1 \in Key
    BY <1>1, <2>1 DEF Key
  <2> QED BY <1>1, <2>1, <2>2
<1>4. SourcesOK' /\ KeysOK' /\ ReceivedOK'
  BY <1>1, <1>3 DEF Inv, SourcesOK, KeysOK, ReceivedOK
<1> QED BY <1>2, <1>4 DEF Inv

LEMMA TrustAddInv ==
  ASSUME Inv, NEW n \in Node, NEW p \in Process, NEW m \in Node, TrustAdd(n, p, m)
  PROVE  Inv'
<1>1. /\ UNCHANGED <<log, registered, marked, key, bundles, received, run>>
      /\ trusted' = [trusted EXCEPT ![n][m] = key[m]] /\ trusted[n][m] = NoKey
      /\ At(n, p, "idle")
  BY DEF TrustAdd
<1>2. Growing /\ LogsKeep
  BY <1>1 DEF Growing, LogsKeep, Inv, KeysOK
<1>3. RowsOK' /\ BundlesOK'
  BY <1>1, <1>2, RowsKeep, BundlesKeep DEF Inv
<1>4. run[n][p] = Idle /\ run' = [run EXCEPT ![n][p] = Idle] /\ RunOK(n, Idle)'
  <2>1. run[n][p] = Idle
    BY <1>1 DEF Inv, RunsOK, RunOK, ExportOK, Exporting, ImportOK, Importing, At
  <2>2. [run EXCEPT ![n][p] = Idle] = run
    <3> DEFINE old == run[n]
               same == [old EXCEPT ![p] = Idle]
    <3>1. old = [q \in Process |-> old[q]] /\ old[p] = Idle
      BY <2>1 DEF Inv, RunsOK
    <3> HIDE DEF old
    <3>2. same = old
      BY <3>1
    <3>3. run = [i \in Node |-> run[i]]
      BY DEF Inv, RunsOK
    <3>4. [run EXCEPT ![n] = same] = run
      BY <3>2, <3>3 DEF old
    <3> QED BY <3>4 DEF old
  <2> QED BY <1>1, <2>1, <2>2 DEF RunOK, Idle
<1>5. \A i \in Node : i # n => trusted'[i] = trusted[i] /\ marked'[i] = marked[i]
  BY <1>1 DEF Inv, KeysOK
<1>6. RunsOK'
  <2>1. marked'[n] = marked[n]
    BY <1>1
  <2> QED BY <1>2, <1>4, <1>5, <2>1, RunsStep
<1>7. SourcesOK' /\ KeysOK' /\ ReceivedOK'
  BY <1>1 DEF Inv, SourcesOK, KeysOK, ReceivedOK
<1> QED BY <1>3, <1>6, <1>7 DEF Inv

\* One process takes a step, and no log changes.
LEMMA RunStepInv ==
  ASSUME Inv, Growing, UNCHANGED <<log, key>>, BundlesOK', SourcesOK', KeysOK', ReceivedOK',
         NEW n \in Node, NEW p \in Process,
         NEW new, run' = [run EXCEPT ![n][p] = new], RunOK(n, new)',
         \A m \in Node : m # n => trusted'[m] = trusted[m] /\ marked'[m] = marked[m],
         marked'[n] = marked[n] \/ ((\E h \in Hands : h[2] = n) /\ run[n][p].pc # "export")
  PROVE  Inv'
<1>1. LogsKeep
  BY DEF LogsKeep
<1>2. RowsOK'
  BY RowsKeep DEF Inv
<1>3. RunsOK'
  BY <1>1, RunsStep
<1> QED BY <1>2, <1>3 DEF Inv

\* One process takes a step, and nothing else changes.
LEMMA QuietStepInv ==
  ASSUME Inv, UNCHANGED <<log, registered, marked, trusted, key, bundles, received>>,
         NEW n \in Node, NEW p \in Process,
         NEW new, run' = [run EXCEPT ![n][p] = new], RunOK(n, new)'
  PROVE  Inv'
<1>1. LogsKeep /\ Growing
  BY DEF LogsKeep, Growing
<1>2. BundlesOK'
  BY <1>1, BundlesKeep DEF Inv
<1>3. SourcesOK' /\ KeysOK' /\ ReceivedOK'
  BY DEF Inv, SourcesOK, KeysOK, ReceivedOK
<1>4. /\ \A m \in Node : m # n => trusted'[m] = trusted[m] /\ marked'[m] = marked[m]
      /\ marked'[n] = marked[n]
  OBVIOUS
<1>5. UNCHANGED <<log, key>>
  OBVIOUS
<1> QED BY <1>1, <1>2, <1>3, <1>4, <1>5, RunStepInv

LEMMA BeginExportInv ==
  ASSUME Inv, NEW n \in Node, NEW p \in Process, NEW want \in DestLevels, NEW srcs \in SUBSET Local(n),
         \E h \in Hands : h[1] = n, BeginExport(n, p, want, srcs)
  PROVE  Inv'
<1>1. PICK k, S : k = key[n] /\ S = srcs
  OBVIOUS
<1> DEFINE new == [pc |-> "export", level |-> want, key |-> k, sources |-> S, left |-> S,
                   body |-> <<>>]
<1>2. /\ run' = [run EXCEPT ![n][p] = new]
      /\ UNCHANGED <<log, registered, marked, trusted, key, bundles, received>>
  BY <1>1 DEF BeginExport
<1>3. /\ S \subseteq registered[n] /\ S \cap marked[n] = {} /\ S \subseteq Seq(STRING) /\ k \in Key
  BY <1>1 DEF Local, Inv, SourcesOK, KeysOK
<1>4. new \in Exporting /\ new.level = want /\ new.sources = S /\ new.left = S /\ new.body = <<>>
  BY <1>3 DEF Exporting
<1> HIDE DEF new
<1>5. ReadOK(n, want, {}, <<>>)'
  <2>1. Distinct(<<>>, IdOf)
    BY DEF Distinct
  <2>2. ASSUME NEW src \in Seq(STRING) PROVE IsPrefix(Filter(<<>>, RowsOf(src)), Body(n, src, want)')
    <3> DEFINE rows == log'[n]
               body == Filter(rows, Permitted(src, want))
    <3>1. rows \in Seq(RowType)
      BY <1>2 DEF Inv, RowsOK
    <3>2. Body(n, src, want)' = Pick(rows, {i \in DOMAIN rows : rows[i].src = src /\ Permits(rows[i].level, want)})
      BY DEF Body, Carried
    <3> HIDE DEF rows
    <3>3. Body(n, src, want)' = body /\ body \in Seq(RowType)
      BY <3>1, <3>2, BodyIsFilter, FilterType
    <3> DEFINE keep == RowsOf(src)
               e == Filter(<<>>, keep)
    <3> HIDE DEF keep, body
    <3>4. e = <<>>
      <4>1. <<>> \in Seq(RowType) /\ ToSet(<<>>) \cap keep = {}
        BY DEF ToSet
      <4> QED BY <4>1, FilterNone
    <3> HIDE DEF e
    <3>5. e \in Seq(RowType) /\ Len(e) = 0
      BY <3>4
    <3>6. Len(e) <= Len(body) /\ 1 .. Len(e) = {}
      BY <3>3, <3>5
    <3>7. IsPrefix(e, body)
      BY <3>3, <3>5, <3>6, PrefixByIndex
    <3> QED BY <3>3, <3>7 DEF e, keep
  <2> QED BY <2>1, <2>2 DEF ReadOK
<1>6. ExportOK(n, new)'
  <2>1. S \ S = {} /\ ToSet(<<>>) = {}
    BY DEF ToSet
  <2>2. ReadOK(n, new.level, new.sources \ new.left, new.body)'
    BY <1>4, <1>5, <2>1
  <2> QED BY <1>2, <1>3, <1>4, <2>1, <2>2 DEF ExportOK
<1> QED BY <1>2, <1>6, QuietStepInv DEF RunOK

\* What a query adds to what an export has read.
LEMMA ReadMore ==
  ASSUME Inv, NEW n \in Node, NEW want, NEW srcs, NEW rows \in Seq(RowType),
         ReadOK(n, want, srcs, rows), ToSet(rows) \subseteq ToSet(log[n]),
         NEW src \in Seq(STRING), src \notin srcs, Apart => src \notin marked[n]
  PROVE  LET more == rows \o Body(n, src, want)
         IN  /\ more \in Seq(RowType) /\ ToSet(more) \subseteq ToSet(log[n])
             /\ ReadOK(n, want, srcs \cup {src}, more)
<1> DEFINE all == log[n]
           new == Body(n, src, want)
           keep == Permitted(src, want)
           more == rows \o new
<1>1. all \in Seq(RowType) /\ Distinct(all, IdOf)
  BY DEF Inv, RowsOK
<1>2. new = Filter(all, keep)
  BY <1>1, BodyIsFilter DEF Body, Carried
<1> HIDE DEF new, keep
<1>3. new \in Seq(RowType) /\ Distinct(new, IdOf) /\ ToSet(new) = ToSet(all) \cap keep
  <2> HIDE DEF all
  <2> QED BY <1>1, <1>2, FilterType, FilterDistinct, FilterElements
<1>4. /\ \A x \in ToSet(new) : x \in RowType /\ x.src = src
      /\ \A x \in ToSet(rows) : x \in RowType /\ x.src \in srcs
  <2>1. \A x \in ToSet(new) : x \in RowType /\ x.src = src
    BY <1>3 DEF keep, Permitted
  <2>2. \A x \in ToSet(rows) : x \in RowType /\ x.src \in srcs
    BY DEF ReadOK, ToSet
  <2> QED BY <2>1, <2>2
<1>5. /\ more \in Seq(RowType) /\ ToSet(more) = ToSet(rows) \cup ToSet(new)
  BY <1>3, ConcatProperties, ConcatElements
<1>6. \A x \in ToSet(rows), y \in ToSet(new) : IdOf[x] # IdOf[y]
  <2> SUFFICES ASSUME NEW x \in ToSet(rows), NEW y \in ToSet(new), IdOf[x] = IdOf[y] PROVE FALSE
    OBVIOUS
  <2>1. x \in ToSet(all) /\ y \in ToSet(all)
    BY <1>3
  <2>2. PICK i \in 1 .. Len(all), j \in 1 .. Len(all) : x = all[i] /\ y = all[j]
    BY <1>1, <2>1, ToSetByIndex
  <2>3. i = j
    BY <1>1, <2>2 DEF Distinct
  <2> QED BY <1>4, <2>2, <2>3
<1>7. Distinct(more, IdOf)
  BY <1>3, <1>6, ConcatDistinct DEF ReadOK
<1>8. ASSUME NEW i \in 1 .. Len(more)
      PROVE  more[i].src \in srcs \cup {src} /\ (Apart => OwnRow(n, more[i]))
  <2> DEFINE x == more[i]
  <2>1. x \in ToSet(rows) \cup ToSet(new)
    <3> HIDE DEF more
    <3>1. more[i] \in ToSet(more)
      BY <1>5, ToSetByIndex
    <3> QED BY <1>5, <3>1
  <2> HIDE DEF x
  <2>2. x.src \in srcs \cup {src}
    BY <1>4, <2>1
  <2>3. ASSUME Apart, x \in ToSet(rows) PROVE OwnRow(n, x)
    BY <2>3 DEF ReadOK, ToSet
  <2>4. ASSUME Apart, x \in ToSet(new) PROVE OwnRow(n, x)
    <3>1. x \in ToSet(all) /\ x.src = src
      BY <1>3, <1>4, <2>4
    <3>2. PICK j \in 1 .. Len(all) : x = all[j]
      BY <1>1, <3>1, ToSetByIndex
    <3>3. OwnRow(n, x) \/ ImportedRow(n, x)
      BY <2>4, <3>2 DEF Inv, RowsOK
    <3> QED BY <2>4, <3>1, <3>3 DEF ImportedRow
  <2> QED BY <2>1, <2>2, <2>3, <2>4 DEF x
<1>9. ASSUME NEW t \in Seq(STRING)
      PROVE  IsPrefix(Filter(more, RowsOf(t)), Body(n, t, want))
  <2> DEFINE of == RowsOf(t)
             a == Filter(rows, of)
             c == Filter(new, of)
  <2>1. IsPrefix(a, Body(n, t, want))
    BY DEF ReadOK
  <2>2. CASE t = src
    <3>1. ToSet(rows) \cap of = {} /\ ToSet(new) \subseteq of
      BY <1>4, <2>2 DEF RowsOf
    <3> HIDE DEF of, more
    <3>2. a = <<>> /\ c = new
      BY <1>3, <3>1, FilterNone, FilterAll
    <3>3. Filter(more, of) = a \o c
      BY <1>3, FilterConcat DEF more
    <3> HIDE DEF a, c
    <3>4. a \o c = new
      BY <1>3, <3>2, ConcatEmptySeq
    <3>5. IsPrefix(new, new)
      BY <1>3, PrefixReflexive
    <3>6. Body(n, t, want) = new
      BY <2>2 DEF new
    <3> QED BY <3>3, <3>4, <3>5, <3>6 DEF of
  <2>3. CASE t # src
    <3>1. ToSet(new) \cap of = {}
      BY <1>4, <2>3 DEF RowsOf
    <3> HIDE DEF of, more
    <3>2. c = <<>> /\ a \in Seq(RowType)
      BY <1>3, <3>1, FilterNone, FilterType
    <3>3. Filter(more, of) = a \o c
      BY <1>3, FilterConcat DEF more
    <3> HIDE DEF a, c
    <3>4. a \o c = a
      BY <3>2, ConcatEmptySeq
    <3> QED BY <2>1, <3>3, <3>4 DEF of
  <2> QED BY <2>2, <2>3
<1>10. ReadOK(n, want, srcs \cup {src}, more)
  <2> HIDE DEF more
  <2> QED BY <1>7, <1>8, <1>9 DEF ReadOK
<1> QED BY <1>3, <1>5, <1>10 DEF new

LEMMA ReadSourceInv ==
  ASSUME Inv, NEW n \in Node, NEW p \in Process, NEW src, ReadSource(n, p, src)
  PROVE  Inv'
<1>1. PICK r, more : r = run[n][p] /\ more = r.body \o Body(n, src, r.level)
  OBVIOUS
<1> DEFINE left == r.left \ {src}
           new == [r EXCEPT !.body = more, !.left = left]
<1>2. /\ At(n, p, "export") /\ src \in r.left
      /\ UNCHANGED <<log, registered, marked, trusted, key, bundles, received>>
  BY <1>1 DEF ReadSource
<1>3. run' = [run EXCEPT ![n][p] = new]
  <2> DEFINE now == run[n][p]
             add == Body(n, src, now.level)
  <2>1. run' = [run EXCEPT ![n][p] = [now EXCEPT !.body = @ \o add, !.left = @ \ {src}]]
    BY DEF ReadSource
  <2>2. now = r /\ more = r.body \o add
    BY <1>1
  <2> HIDE DEF now, add
  <2>3. [now EXCEPT !.body = @ \o add, !.left = @ \ {src}] = new
    BY <2>2
  <2> QED BY <2>1, <2>3
<1>4. ExportOK(n, r)
  BY <1>1, <1>2, ExportingNow
<1>5. /\ r \in Exporting /\ src \in Seq(STRING) /\ r.body \in Seq(RowType)
      /\ ReadOK(n, r.level, r.sources \ r.left, r.body) /\ ToSet(r.body) \subseteq ToSet(log[n])
      /\ src \notin r.sources \ r.left /\ (Apart => src \notin marked[n])
      /\ src \in r.sources /\ left \in SUBSET Seq(STRING)
  BY <1>2, <1>4 DEF ExportOK, Exporting
<1>6. /\ more \in Seq(RowType) /\ ToSet(more) \subseteq ToSet(log[n])
      /\ ReadOK(n, r.level, (r.sources \ r.left) \cup {src}, more)
  <2> DEFINE want == r.level
             srcs == r.sources \ r.left
             rows == r.body
  <2>1. /\ rows \in Seq(RowType) /\ src \in Seq(STRING)
        /\ ReadOK(n, want, srcs, rows) /\ ToSet(rows) \subseteq ToSet(log[n])
        /\ src \notin srcs /\ (Apart => src \notin marked[n])
    BY <1>5
  <2>2. more = rows \o Body(n, src, want)
    BY <1>1
  <2> HIDE DEF want, srcs, rows
  <2>3. /\ more \in Seq(RowType) /\ ToSet(more) \subseteq ToSet(log[n])
        /\ ReadOK(n, want, srcs \cup {src}, more)
    BY <2>1, <2>2, ReadMore
  <2> QED BY <2>3 DEF want, srcs
<1>7. (r.sources \ r.left) \cup {src} = r.sources \ left
  BY <1>5
<1> HIDE DEF left
<1>8. /\ new \in Exporting /\ new.level = r.level /\ new.sources = r.sources
      /\ new.left = left /\ new.body = more
  BY <1>5, <1>6 DEF Exporting
<1> HIDE DEF new
<1>9. LogsKeep
  BY <1>2 DEF LogsKeep
<1>10. ReadOK(n, new.level, new.sources \ new.left, new.body)'
  <2> DEFINE want == new.level
             srcs == new.sources \ new.left
             rows == new.body
  <2>1. rows \in Seq(RowType) /\ ReadOK(n, want, srcs, rows)
    BY <1>6, <1>7, <1>8
  <2> HIDE DEF want, srcs, rows
  <2>2. ReadOK(n, want, srcs, rows)'
    BY <1>9, <2>1, ReadKeeps DEF Inv
  <2> QED BY <2>2 DEF want, srcs, rows
<1>11. ExportOK(n, new)'
  <2>1. left \subseteq r.sources
    BY <1>4 DEF left, ExportOK
  <2> QED BY <1>2, <1>4, <1>6, <1>8, <1>10, <2>1 DEF ExportOK
<1> QED BY <1>2, <1>3, <1>11, QuietStepInv DEF RunOK

\* A bundle is added.
LEMMA NewBundle ==
  ASSUME Inv, NEW b \in BundleType, BundleOK(b), bundles' = bundles \cup {b},
         UNCHANGED <<log, registered, marked, trusted, key, received>>
  PROVE  Growing /\ BundlesOK' /\ SourcesOK' /\ KeysOK' /\ ReceivedOK'
<1>1. BundlesOK'
  <2>1. ASSUME NEW c \in BundleType, BundleOK(c) PROVE BundleOK(c)'
    BY <2>1 DEF BundleOK, ReadOK, OwnRow, Body, Carried
  <2> QED BY <2>1 DEF Inv, BundlesOK
<1>2. SourcesOK' /\ KeysOK' /\ ReceivedOK' /\ Growing
  BY DEF Inv, SourcesOK, KeysOK, ReceivedOK, Growing
<1> QED BY <1>1, <1>2

LEMMA FinishExportInv ==
  ASSUME Inv, NEW n \in Node, NEW p \in Process, FinishExport(n, p)
  PROVE  Inv'
<1>1. PICK r : r = run[n][p]
  OBVIOUS
<1> DEFINE b == Bundle(n, r)
<1>2. /\ At(n, p, "export") /\ r.left = {} /\ bundles' = bundles \cup {b}
      /\ run' = [run EXCEPT ![n][p] = Idle]
      /\ UNCHANGED <<log, registered, marked, trusted, key, received>>
  BY <1>1 DEF FinishExport
<1>3. ExportOK(n, r)
  BY <1>1, <1>2, ExportingNow
<1>4. /\ r.key \in Key /\ r.level \in DestLevels /\ r.sources \in SUBSET Seq(STRING)
      /\ r.body \in Seq(RowType)
  BY <1>3 DEF ExportOK, Exporting
<1>5. b \in BundleType /\ b.sender = n /\ b.level = r.level /\ b.sources = r.sources /\ b.digest = r.body
  BY <1>4 DEF Bundle, BundleType
<1> HIDE DEF b
<1>6. BundleOK(b)
  <2>1. r.sources \ r.left = r.sources
    BY <1>2
  <2> QED BY <1>3, <1>5, <2>1 DEF BundleOK, ExportOK
<1>7. Growing /\ BundlesOK' /\ SourcesOK' /\ KeysOK' /\ ReceivedOK'
  BY <1>2, <1>5, <1>6, NewBundle
<1>8. \A m \in Node : trusted'[m] = trusted[m] /\ marked'[m] = marked[m]
  BY <1>2
<1>9. RunOK(n, Idle)'
  BY DEF RunOK, Idle
<1> QED BY <1>2, <1>7, <1>8, <1>9, RunStepInv

LEMMA TruncateInv ==
  ASSUME Inv, NEW b \in bundles, Truncate(b)
  PROVE  Inv'
<1> DEFINE short == SubSeq(b.body, 1, Len(b.body) - 1)
           c == [b EXCEPT !.body = short]
<1>1. b \in BundleType /\ BundleOK(b)
  BY DEF Inv, BundlesOK
<1>2. short \in Seq(RowType)
  <2>1. b.body \in Seq(RowType)
    BY <1>1 DEF BundleType
  <2> QED BY <2>1
<1>3. /\ bundles' = bundles \cup {c}
      /\ UNCHANGED <<log, registered, marked, trusted, key, received, run>>
  BY DEF Truncate
<1> HIDE DEF short
<1>4. /\ c \in BundleType /\ c.sender = b.sender /\ c.level = b.level /\ c.digest = b.digest
      /\ c.sources = b.sources
  BY <1>1, <1>2 DEF BundleType
<1> HIDE DEF c
<1>5. BundleOK(c)
  BY <1>1, <1>4 DEF BundleOK
<1>6. Growing /\ BundlesOK' /\ SourcesOK' /\ KeysOK' /\ ReceivedOK'
  BY <1>3, <1>4, <1>5, NewBundle
<1>7. LogsKeep /\ bundles \subseteq bundles'
  BY <1>3 DEF LogsKeep
<1>8. RowsOK' /\ RunsOK'
  BY <1>3, <1>6, <1>7, RowsKeep, RunsKeep DEF Inv
<1> QED BY <1>6, <1>8 DEF Inv

LEMMA BeginImportInv ==
  ASSUME Inv, NEW n \in Node, NEW p \in Process, NEW b \in bundles, <<b.sender, n>> \in Hands,
         BeginImport(n, p, b)
  PROVE  Inv'
<1>1. PICK pc : pc = IF trusted[n][b.sender] = NoKey THEN "trust" ELSE "register"
  OBVIOUS
<1> DEFINE new == [pc |-> pc, bundle |-> b, left |-> b.sources]
<1>2. /\ Verified(b) /\ trusted[n][b.sender] \in {b.key, NoKey}
      /\ run' = [run EXCEPT ![n][p] = new]
      /\ UNCHANGED <<log, registered, marked, trusted, key, bundles, received>>
  BY <1>1 DEF BeginImport
<1>3. b \in BundleType
  BY DEF Inv, BundlesOK
<1>4. pc \in {"trust", "register"}
  BY <1>1
<1>5. new \in Importing /\ new.pc = pc /\ new.bundle = b /\ new.left = b.sources
  BY <1>3, <1>4 DEF Importing, BundleType
<1> HIDE DEF new
<1>6. ImportOK(n, new)'
  <2>1. trusted'[n][b.sender] = IF pc = "trust" THEN NoKey ELSE b.key
    BY <1>1, <1>2
  <2>2. Done(new) = {}
    BY <1>5 DEF Done
  <2>3. Verified(b)
    BY <1>2
  <2> QED BY <1>2, <1>5, <2>1, <2>2, <2>3 DEF ImportOK, Done, Verified
<1> QED BY <1>2, <1>6, QuietStepInv DEF RunOK

LEMMA TrustKeyInv ==
  ASSUME Inv, NEW n \in Node, NEW p \in Process, TrustKey(n, p)
  PROVE  Inv'
<1>1. PICK r, b : r = run[n][p] /\ b = r.bundle
  OBVIOUS
<1> DEFINE new == [r EXCEPT !.pc = "register"]
<1>2. /\ r.pc = "trust"
      /\ trusted' = [trusted EXCEPT ![n][b.sender] = IF @ = NoKey THEN b.key ELSE @]
      /\ run' = [run EXCEPT ![n][p] = new]
      /\ UNCHANGED <<log, registered, marked, key, bundles, received>>
  BY <1>1 DEF TrustKey, Goto, At
<1>3. ImportOK(n, r)
  BY <1>1, <1>2, ImportingNow
<1>4. r \in Importing /\ b \in BundleType /\ b.sender \in Node /\ b.key \in Key
  BY <1>1, <1>3 DEF ImportOK, Importing, BundleType
<1>5. new \in Importing /\ new.pc = "register" /\ new.bundle = b /\ new.left = r.left
  BY <1>1, <1>4 DEF Importing
<1> HIDE DEF new
<1>6. /\ trusted'[n][b.sender] = IF trusted[n][b.sender] = NoKey THEN b.key ELSE trusted[n][b.sender]
      /\ \A m \in Node : m # n => trusted'[m] = trusted[m]
      /\ \A m \in Node : m # b.sender => trusted'[n][m] = trusted[n][m]
      /\ trusted' \in [Node -> [Node -> Key \cup {NoKey}]]
  BY <1>2, <1>4 DEF Inv, KeysOK
<1>7. Solo => trusted'[n][b.sender] = b.key
  BY <1>1, <1>2, <1>3, <1>6 DEF ImportOK
<1>8. ImportOK(n, new)'
  <2>1. Done(r) \subseteq registered[n] /\ Done(r) \subseteq marked[n] /\ Done(new) = Done(r)
    BY <1>1, <1>2, <1>3, <1>5 DEF ImportOK, Done
  <2>2. b \in bundles /\ Verified(b) /\ r.left \subseteq b.sources /\ <<b.sender, n>> \in Hands
    BY <1>1, <1>3 DEF ImportOK
  <2> QED BY <1>2, <1>5, <1>7, <2>1, <2>2 DEF ImportOK, Done, Verified
<1>9. Growing
  <2>1. \A i, m \in Node : trusted[i][m] # NoKey => trusted'[i][m] = trusted[i][m]
    BY <1>6
  <2> QED BY <1>2, <2>1 DEF Growing
<1>10. SourcesOK' /\ KeysOK' /\ ReceivedOK'
  BY <1>2, <1>6 DEF Inv, SourcesOK, KeysOK, ReceivedOK
<1>11. BundlesOK' /\ RunOK(n, new)'
  <2>1. LogsKeep
    BY <1>2 DEF LogsKeep
  <2> QED BY <1>2, <1>8, <2>1, BundlesKeep DEF Inv, RunOK
<1>12. /\ \A m \in Node : m # n => trusted'[m] = trusted[m] /\ marked'[m] = marked[m]
       /\ marked'[n] = marked[n]
  BY <1>2, <1>6
<1> QED BY <1>2, <1>9, <1>10, <1>11, <1>12, RunStepInv

LEMMA RegisterSourceInv ==
  ASSUME Inv, NEW n \in Node, NEW p \in Process, NEW src, RegisterSource(n, p, src)
  PROVE  Inv'
<1>1. PICK r, b : r = run[n][p] /\ b = r.bundle
  OBVIOUS
<1> DEFINE left == r.left \ {src}
           new == [r EXCEPT !.pc = "mark", !.left = left]
           name == Named(b.sender, src)
<1>2. /\ r.pc = "register" /\ src \in r.left
      /\ registered' = [registered EXCEPT ![n] = @ \cup {name}]
      /\ UNCHANGED <<log, marked, trusted, key, bundles, received>>
  BY <1>1 DEF RegisterSource, At
<1>3. ImportOK(n, r)
  BY <1>1, <1>2, ImportingNow
<1>4. run' = [run EXCEPT ![n][p] = new]
  <2> DEFINE now == run[n][p]
  <2>1. run' = [run EXCEPT ![n][p] = [now EXCEPT !.pc = "mark", !.left = @ \ {src}]]
    BY DEF RegisterSource
  <2>2. now = r
    BY <1>1
  <2> HIDE DEF now
  <2>3. [now EXCEPT !.pc = "mark", !.left = @ \ {src}] = new
    BY <2>2
  <2> QED BY <2>1, <2>3
<1>5. /\ r \in Importing /\ b \in BundleType /\ b.sender \in Node /\ src \in Seq(STRING)
      /\ left \in SUBSET Seq(STRING) /\ left \subseteq b.sources
      /\ b.sources \ left = (b.sources \ r.left) \cup {src}
  BY <1>1, <1>2, <1>3 DEF ImportOK, Importing, BundleType
<1> HIDE DEF left
<1>6. new \in Importing /\ new.pc = "mark" /\ new.bundle = b /\ new.left = left
  BY <1>1, <1>5 DEF Importing
<1> HIDE DEF new
<1>7. name \in Seq(STRING)
  BY <1>5, NamedType
<1> HIDE DEF name
<1>8. registered'[n] = registered[n] \cup {name} /\ registered' \in [Node -> SUBSET Seq(STRING)]
  BY <1>2, <1>7 DEF Inv, SourcesOK
<1>9. ImportOK(n, new)'
  <2>1. Done(new) = Done(r) \cup {name}
    BY <1>1, <1>5, <1>6 DEF Done, name
  <2>2. /\ b \in bundles /\ Verified(b) /\ <<b.sender, n>> \in Hands
        /\ Solo => trusted[n][b.sender] = b.key
        /\ Done(r) \subseteq registered[n]
    BY <1>1, <1>2, <1>3 DEF ImportOK
  <2>3. Done(new) \subseteq registered'[n]
    BY <1>8, <2>1, <2>2
  <2> QED BY <1>2, <1>5, <1>6, <2>2, <2>3 DEF ImportOK, Done, Verified
<1>10. Growing
  BY <1>2, <1>8 DEF Growing, Inv, SourcesOK
<1>11. SourcesOK' /\ KeysOK' /\ ReceivedOK'
  <2>1. \A m \in Node : registered[m] \subseteq registered'[m] /\ marked'[m] = marked[m]
    BY <1>2, <1>10 DEF Growing
  <2> QED BY <1>2, <1>8, <2>1 DEF Inv, SourcesOK, KeysOK, ReceivedOK
<1>12. BundlesOK' /\ RunOK(n, new)'
  <2>1. LogsKeep
    BY <1>2 DEF LogsKeep
  <2> QED BY <1>2, <1>9, <2>1, BundlesKeep DEF Inv, RunOK
<1>13. /\ \A m \in Node : m # n => trusted'[m] = trusted[m] /\ marked'[m] = marked[m]
       /\ marked'[n] = marked[n]
  BY <1>2
<1> QED BY <1>2, <1>4, <1>10, <1>11, <1>12, <1>13, RunStepInv

LEMMA MarkImportedInv ==
  ASSUME Inv, NEW n \in Node, NEW p \in Process, MarkImported(n, p)
  PROVE  Inv'
<1>1. PICK r, b : r = run[n][p] /\ b = r.bundle
  OBVIOUS
<1> DEFINE new == [r EXCEPT !.pc = "register"]
<1>2. /\ r.pc = "mark"
      /\ marked' = [marked EXCEPT ![n] = @ \cup Done(r)]
      /\ run' = [run EXCEPT ![n][p] = new]
      /\ UNCHANGED <<log, registered, trusted, key, bundles, received>>
  BY <1>1 DEF MarkImported, Goto, At, Done
<1>3. ImportOK(n, r) /\ r \in Importing
  BY <1>1, <1>2, ImportingNow DEF ImportOK
<1>4. new \in Importing /\ new.pc = "register" /\ new.bundle = b /\ new.left = r.left
  BY <1>1, <1>3 DEF Importing
<1> HIDE DEF new
<1>5. Done(r) \subseteq registered[n] /\ marked'[n] = marked[n] \cup Done(r)
  BY <1>2, <1>3 DEF ImportOK, Inv, SourcesOK
<1>6. ImportOK(n, new)'
  <2>1. Done(new) = Done(r)
    BY <1>1, <1>4 DEF Done
  <2>2. /\ b \in bundles /\ Verified(b) /\ <<b.sender, n>> \in Hands /\ r.left \subseteq b.sources
        /\ Solo => trusted[n][b.sender] = b.key
    BY <1>1, <1>2, <1>3 DEF ImportOK
  <2> QED BY <1>2, <1>4, <1>5, <2>1, <2>2 DEF ImportOK, Done, Verified
<1>7. Growing
  BY <1>2 DEF Growing, Inv, SourcesOK
<1>8. SourcesOK' /\ KeysOK' /\ ReceivedOK'
  <2>1. marked' \in [Node -> SUBSET Seq(STRING)] /\ \A m \in Node : marked'[m] \subseteq registered[m]
    BY <1>2, <1>5 DEF Inv, SourcesOK
  <2> QED BY <1>2, <2>1 DEF Inv, SourcesOK, KeysOK, ReceivedOK
<1>9. BundlesOK' /\ RunOK(n, new)'
  <2>1. LogsKeep
    BY <1>2 DEF LogsKeep
  <2> QED BY <1>2, <1>6, <2>1, BundlesKeep DEF Inv, RunOK
<1>10. /\ \A m \in Node : m # n => trusted'[m] = trusted[m] /\ marked'[m] = marked[m]
       /\ (\E h \in Hands : h[2] = n) /\ run[n][p].pc # "export"
  <2>1. <<b.sender, n>> \in Hands
    BY <1>1, <1>3 DEF ImportOK
  <2>2. <<b.sender, n>>[2] = n
    OBVIOUS
  <2>3. \E h \in Hands : h[2] = n
    BY <2>1, <2>2
  <2> QED BY <1>1, <1>2, <2>3 DEF Inv, SourcesOK
<1> QED BY <1>2, <1>7, <1>8, <1>9, <1>10, RunStepInv

LEMMA RecordBundleInv ==
  ASSUME Inv, NEW n \in Node, NEW p \in Process, RecordBundle(n, p)
  PROVE  Inv'
<1>1. /\ run[n][p].pc = "record"
      /\ received' = [received EXCEPT ![n] = @ \cup {run[n][p].bundle}]
      /\ run' = [run EXCEPT ![n][p] = Idle]
      /\ UNCHANGED <<log, registered, marked, trusted, key, bundles>>
  BY DEF RecordBundle, At
<1>2. run[n][p].bundle \in bundles
  BY <1>1, ImportingNow DEF ImportOK
<1>3. Growing /\ LogsKeep /\ SourcesOK' /\ KeysOK' /\ ReceivedOK'
  BY <1>1, <1>2 DEF Growing, LogsKeep, Inv, SourcesOK, KeysOK, ReceivedOK
<1>4. BundlesOK' /\ RunOK(n, Idle)'
  BY <1>1, <1>3, BundlesKeep DEF Inv, RunOK, Idle
<1>5. /\ \A m \in Node : m # n => trusted'[m] = trusted[m] /\ marked'[m] = marked[m]
      /\ marked'[n] = marked[n]
  BY <1>1
<1> QED BY <1>1, <1>3, <1>4, <1>5, RunStepInv

LEMMA AbandonInv ==
  ASSUME Inv, NEW n \in Node, NEW p \in Process, Abandon(n, p)
  PROVE  Inv'
<1>1. /\ run' = [run EXCEPT ![n][p] = Idle]
      /\ UNCHANGED <<log, registered, marked, trusted, key, bundles, received>>
  BY DEF Abandon
<1>2. RunOK(n, Idle)'
  BY DEF RunOK, Idle
<1> QED BY <1>1, <1>2, QuietStepInv

LEMMA AppendBundleInv ==
  ASSUME Inv, NEW n \in Node, NEW p \in Process, AppendBundle(n, p)
  PROVE  Inv'
<1>1. PICK r, b : r = run[n][p] /\ b = r.bundle
  OBVIOUS
<1> DEFINE ns == Namespaced(b)
           rows == NewRows(ns, Ids(log[n]))
           new == [r EXCEPT !.pc = "record"]
<1>2. /\ At(n, p, "register") /\ r.pc = "register" /\ r.left = {} /\ run[n][p].left = {}
      /\ log' = [log EXCEPT ![n] = @ \o rows]
      /\ run' = [run EXCEPT ![n][p] = new]
      /\ UNCHANGED <<registered, marked, trusted, key, bundles, received>>
  BY <1>1 DEF AppendBundle, Goto, At
<1>3. /\ ns \in Seq(RowType) /\ Len(ns) = Len(b.digest)
      /\ \A i \in 1 .. Len(b.digest) :
           (Apart => ImportedRow(n, ns[i])) /\ ns[i].src \in registered[n]
      /\ rows \in Seq(RowType) /\ ToSet(rows) = ToSet(ns) \cap Fresh(Ids(log[n]))
      /\ Distinct(rows, IdOf)
  BY <1>1, <1>2, ArrivingRows
<1>4. ImportOK(n, r) /\ r \in Importing
  BY <1>1, <1>2, ImportingNow DEF ImportOK
<1>5. LogGrows(n, rows)
  BY <1>2 DEF LogGrows
<1>6. new \in Importing /\ new.pc = "record" /\ new.bundle = b /\ new.left = {}
  BY <1>1, <1>2, <1>4 DEF Importing
<1> HIDE DEF rows, ns, new
<1>7. RowsOK'
  <2>1. \A y \in ToSet(rows) : /\ Apart => ImportedRow(n, y)
                               /\ y.src \in registered[n] /\ y.id \notin Ids(log[n])
    <3>1. \A y \in ToSet(ns) : (Apart => ImportedRow(n, y)) /\ y.src \in registered[n]
      BY <1>3, ToSetByIndex
    <3>2. \A y \in ToSet(rows) : y \in ToSet(ns) /\ y.id \notin Ids(log[n])
      BY <1>3 DEF Fresh
    <3> QED BY <3>1, <3>2
  <2>2. \A x \in ToSet(log[n]), y \in ToSet(rows) : x.id # y.id
    <3>1. log[n] \in Seq(RowType)
      BY DEF Inv, RowsOK
    <3>2. \A x \in ToSet(log[n]) : x.id \in Ids(log[n])
      BY <3>1, KnownIds
    <3> QED BY <2>1, <3>2
  <2> QED BY <1>2, <1>3, <1>5, <2>1, <2>2, RowsGrow DEF Inv
<1>8. LogsKeep /\ Growing
  BY <1>2, <1>3, <1>5 DEF LogsKeep, Growing
<1>9. ImportOK(n, new)'
  <2>1. Done(new) = Done(r)
    BY <1>1, <1>2, <1>6 DEF Done
  <2>2. /\ b \in bundles /\ Verified(b) /\ <<b.sender, n>> \in Hands
        /\ Solo => trusted[n][b.sender] = b.key
        /\ Done(r) \subseteq registered[n] /\ Done(r) \subseteq marked[n]
    BY <1>1, <1>2, <1>4 DEF ImportOK
  <2> QED BY <1>2, <1>6, <2>1, <2>2 DEF ImportOK, Done, Verified
<1>10. RunsOK'
  <2>1. /\ \A m \in Node : m # n => trusted'[m] = trusted[m] /\ marked'[m] = marked[m]
        /\ marked'[n] = marked[n]
    BY <1>2
  <2>2. RunOK(n, new)'
    BY <1>9 DEF RunOK
  <2> QED BY <1>2, <1>8, <2>1, <2>2, RunsStep
<1>11. BundlesOK'
  BY <1>2, <1>8, BundlesKeep DEF Inv
<1>12. SourcesOK' /\ KeysOK' /\ ReceivedOK'
  BY <1>2 DEF Inv, SourcesOK, KeysOK, ReceivedOK
<1> QED BY <1>7, <1>10, <1>11, <1>12 DEF Inv

LEMMA StutterInv ==
  ASSUME Inv, UNCHANGED vars
  PROVE  Inv'
<1>1. UNCHANGED <<log, registered, marked, trusted, key, bundles, received, run>>
  BY DEF vars
<1>2. Growing /\ LogsKeep
  BY <1>1 DEF Growing, LogsKeep
<1>3. RowsOK' /\ BundlesOK' /\ RunsOK'
  BY <1>1, <1>2, RowsKeep, BundlesKeep, RunsKeep DEF Inv
<1>4. SourcesOK' /\ KeysOK' /\ ReceivedOK'
  BY <1>1 DEF Inv, SourcesOK, KeysOK, ReceivedOK
<1> QED BY <1>3, <1>4 DEF Inv

LEMMA NextInv ==
  ASSUME Inv, [Next]_vars
  PROVE  Inv'
<1>1. ASSUME NEW n \in Node, NEW s \in Own[n], NEW l \in Locator, NEW v \in Version \cup {Gone},
             NEW e \in ScanLevels, Observe(n, <<s>>, l, v, e)
      PROVE  Inv'
  BY <1>1, ObserveInv
<1>2. ASSUME NEW n \in Node, NewKey(n) PROVE Inv'
  BY <1>2, NewKeyInv
<1>3. ASSUME NEW b \in bundles, Truncate(b) PROVE Inv'
  BY <1>3, TruncateInv
<1>4. ASSUME NEW p \in Process, NEW h \in Hands, TrustAdd(h[2], p, h[1]) PROVE Inv'
  <2>1. h[1] \in Node /\ h[2] \in Node
    BY BundlesAssumption
  <2> QED BY <1>4, <2>1, TrustAddInv
<1>5. ASSUME NEW p \in Process, NEW h \in Hands, NEW e \in DestLevels,
             NEW srcs \in SUBSET Local(h[1]), BeginExport(h[1], p, e, srcs)
      PROVE  Inv'
  <2>1. PICK n : n = h[1]
    OBVIOUS
  <2>2. n \in Node /\ \E g \in Hands : g[1] = n
    BY <2>1, BundlesAssumption
  <2>3. srcs \in SUBSET Local(n) /\ BeginExport(n, p, e, srcs)
    BY <1>5, <2>1
  <2> QED BY <2>2, <2>3, BeginExportInv
<1>6. ASSUME NEW p \in Process, NEW h \in Hands, NEW b \in bundles, h[1] = b.sender,
             BeginImport(h[2], p, b)
      PROVE  Inv'
  <2>1. h[2] \in Node /\ h = <<h[1], h[2]>>
    BY BundlesAssumption
  <2>2. <<b.sender, h[2]>> \in Hands
    BY <1>6, <2>1
  <2> QED BY <1>6, <2>1, <2>2, BeginImportInv
<1>7. ASSUME NEW p \in Process, NEW n \in Node, NEW src, ReadSource(n, p, src) PROVE Inv'
  BY <1>7, ReadSourceInv
<1>8. ASSUME NEW p \in Process, NEW n \in Node, FinishExport(n, p) PROVE Inv'
  BY <1>8, FinishExportInv
<1>9. ASSUME NEW p \in Process, NEW n \in Node, TrustKey(n, p) PROVE Inv'
  BY <1>9, TrustKeyInv
<1>10. ASSUME NEW p \in Process, NEW n \in Node, NEW src, RegisterSource(n, p, src) PROVE Inv'
  BY <1>10, RegisterSourceInv
<1>11. ASSUME NEW p \in Process, NEW n \in Node, MarkImported(n, p) PROVE Inv'
  BY <1>11, MarkImportedInv
<1>12. ASSUME NEW p \in Process, NEW n \in Node, AppendBundle(n, p) PROVE Inv'
  BY <1>12, AppendBundleInv
<1>13. ASSUME NEW p \in Process, NEW n \in Node, RecordBundle(n, p) PROVE Inv'
  BY <1>13, RecordBundleInv
<1>14. ASSUME NEW p \in Process, NEW n \in Node, Abandon(n, p) PROVE Inv'
  BY <1>14, AbandonInv
<1>15. CASE UNCHANGED vars
  BY <1>15, StutterInv
<1>16. CASE Next
  BY <1>1, <1>2, <1>3, <1>4, <1>5, <1>6, <1>7, <1>8, <1>9, <1>10, <1>11, <1>12, <1>13, <1>14,
     <1>16 DEF Next
<1> QED BY <1>15, <1>16

LEMMA InvAlways == Spec => []Inv
  BY InitInv, NextInv, PTL DEF Spec

-----------------------------------------------------------------------------
(* Types, who observed a row, and the key it came under.                    *)

\* The state of bundles, logs and of what processes are doing is well typed,
\* however many run at once; no id is in a log twice, no row is appended to one
\* before its source is registered, and what an export has read is in the log
\* (internal/bundle with Export and Import of the store).
THEOREM TypeCorrect == Spec => []TypeOK
<1>1. Inv => TypeOK
  <2> SUFFICES ASSUME Inv PROVE TypeOK
    OBVIOUS
  <2>1. log \in [Node -> Seq(RowType)] /\ key \in [Node -> Key]
    BY DEF Inv, RowsOK, KeysOK
  <2>2. ASSUME NEW n \in Node
        PROVE  /\ \A i, j \in DOMAIN log[n] : log[n][i].id = log[n][j].id => i = j
               /\ \A i \in DOMAIN log[n] : log[n][i].src \in registered[n]
    <3>1. log[n] \in Seq(RowType) /\ DOMAIN log[n] = 1 .. Len(log[n])
      BY <2>1
    <3>2. \A i \in DOMAIN log[n] : log[n][i] \in RowType
      BY <3>1
    <3>3. Distinct(log[n], IdOf)
      BY DEF Inv, RowsOK
    <3>4. \A i, j \in DOMAIN log[n] : log[n][i].id = log[n][j].id => i = j
      <4>1. \A i \in DOMAIN log[n] : IdOf[log[n][i]] = log[n][i].id
        BY <3>2, RowFields
      <4> QED BY <3>1, <3>3, <4>1 DEF Distinct
    <3> QED BY <3>1, <3>4 DEF Inv, RowsOK
  <2>3. ASSUME NEW n \in Node
        PROVE  /\ marked[n] \subseteq registered[n]
               /\ trusted[n] \in [Node -> Key \cup {NoKey}]
               /\ received[n] \subseteq bundles
    BY DEF Inv, SourcesOK, KeysOK, ReceivedOK
  <2>4. ASSUME NEW n \in Node, NEW p \in Process
        PROVE  LET r == run[n][p]
               IN  \/ r = Idle
                   \/ /\ r.pc = "export"
                      /\ r.left \subseteq r.sources /\ r.sources \subseteq registered[n]
                      /\ ToSet(r.body) \subseteq ToSet(log[n])
                   \/ /\ r.pc \in {"trust", "register", "mark", "record"}
                      /\ r.bundle \in bundles /\ r.left \subseteq r.bundle.sources
    BY DEF Inv, RunsOK, RunOK, ExportOK, Exporting, ImportOK, Importing
  <2> QED BY <2>1, <2>2, <2>3, <2>4 DEF TypeOK
<1> QED BY <1>1, InvAlways, PTL

\* A bundle carries what its sender observed and nothing else, and every row
\* is filed under the name of who observed it, through however many hands a
\* bundle goes and wherever an import is broken off (Export, Namespace and
\* MarkImported): of Gysts none of which exports while it imports, for Export
\* reads the sources first and their rows later.
THEOREM AttributedApart ==
  ASSUME Apart
  PROVE  Spec => []Attributed
<1>1. Inv => Attributed
  <2> SUFFICES ASSUME Inv PROVE Attributed
    OBVIOUS
  <2>1. ASSUME NEW b \in bundles, NEW i \in DOMAIN b.digest PROVE b.digest[i].by = b.sender
    <3>1. b.digest \in Seq(RowType) /\ BundleOK(b)
      BY DEF Inv, BundlesOK, BundleType
    <3>2. i \in 1 .. Len(b.digest)
      BY <3>1
    <3> QED BY <3>1, <3>2 DEF BundleOK, ReadOK, OwnRow
  <2>2. ASSUME NEW n \in Node, NEW i \in DOMAIN log[n]
        PROVE  LET r == log[n][i]
               IN  IF r.by = n THEN Len(r.src) = 1 ELSE Len(r.src) = 2 /\ r.src[1] = r.by
    <3>1. log[n] \in Seq(RowType)
      BY DEF Inv, RowsOK
    <3>2. i \in 1 .. Len(log[n])
      BY <3>1
    <3>3. OwnRow(n, log[n][i]) \/ ImportedRow(n, log[n][i])
      BY <3>2 DEF Inv, RowsOK
    <3> DEFINE r == log[n][i]
    <3> HIDE DEF r
    <3>4. CASE OwnRow(n, r)
      <4>1. r.by = n /\ \E s : r.src = <<s>>
        BY <3>4 DEF OwnRow
      <4> QED BY <4>1 DEF r
    <3>5. CASE ImportedRow(n, r)
      <4>1. r.by # n /\ \E s : r.src = <<r.by, s>>
        BY <3>5 DEF ImportedRow
      <4>2. Len(r.src) = 2 /\ r.src[1] = r.by
        BY <4>1
      <4> QED BY <4>1, <4>2 DEF r
    <3> QED BY <3>3, <3>4, <3>5 DEF r
  <2> QED BY <2>1, <2>2 DEF Attributed
<1> QED BY <1>1, InvAlways, PTL

\* Whatever a receiver has of one sender came under one key, although keys are
\* lost and bundles signed with an old one may arrive late (TrustedKeyOf and
\* TrustKey): of Gysts that run one command at a time, for a key recorded between
\* the two does not stop an import that goes by another.
THEOREM OneKeyAlone ==
  ASSUME Solo
  PROVE  Spec => []OneKey
<1>1. Inv => OneKey
  <2> SUFFICES ASSUME Inv, NEW n \in Node, NEW i \in DOMAIN log[n], NEW j \in DOMAIN log[n],
                      log[n][i].by = log[n][j].by
               PROVE  log[n][i].under = log[n][j].under
    BY DEF OneKey
  <2>1. log[n] \in Seq(RowType)
    BY DEF Inv, RowsOK
  <2>2. i \in 1 .. Len(log[n]) /\ j \in 1 .. Len(log[n])
    BY <2>1
  <2>3. /\ OwnRow(n, log[n][i]) \/ ImportedRow(n, log[n][i])
        /\ OwnRow(n, log[n][j]) \/ ImportedRow(n, log[n][j])
    BY <2>2 DEF Inv, RowsOK, Apart
  <2> QED BY <2>3 DEF OwnRow, ImportedRow
<1> QED BY <1>1, InvAlways, PTL

-----------------------------------------------------------------------------
(* Where no two nodes call a source alike, an id tells whose row it is.     *)

LEMMA WhoseId ==
  ASSUME Inv, NamesApart, Apart, NEW n \in Node, NEW m \in Node, m # n, NEW s \in Own[m],
         NEW r \in ToSet(log[n]), r.id[1] = <<s>>
  PROVE  r.by = m /\ r.src = <<m, s>>
<1>1. PICK i \in 1 .. Len(log[n]) : r = log[n][i]
  BY DEF Inv, RowsOK, ToSet
<1>2. OwnRow(n, r) \/ ImportedRow(n, r)
  BY <1>1 DEF Inv, RowsOK
<1>3. r \in RowType
  BY <1>1 DEF Inv, RowsOK
<1>4. r.by \in Node
  BY <1>3, RowFields
<1>5. CASE OwnRow(n, r)
  <2>1. PICK t \in Own[n] : r.id[1] = <<t>>
    BY <1>5 DEF OwnRow
  <2>2. t = s
    BY <2>1
  <2> QED BY <2>1, <2>2 DEF NamesApart
<1>6. CASE ImportedRow(n, r)
  <2>1. PICK t \in Own[r.by] : r.src = <<r.by, t>> /\ r.id[1] = <<t>>
    BY <1>6 DEF ImportedRow
  <2>2. t = s
    BY <2>1
  <2>3. r.by = m
    BY <1>4, <2>1, <2>2 DEF NamesApart
  <2> QED BY <2>1, <2>2, <2>3
<1> QED BY <1>2, <1>5, <1>6

\* What has arrived stays, as long as the log only grows.
LEMMA ArrivedStays ==
  ASSUME Inv, NEW n \in Node, NEW k \in Node, NEW new \in Seq(RowType), LogGrows(k, new),
         NEW b, Arrived(n, b)
  PROVE  Arrived(n, b)'
<1>1. log \in [Node -> Seq(RowType)]
  BY DEF Inv, RowsOK
<1>2. \A i \in DOMAIN log[n] : i \in DOMAIN log'[n] /\ log'[n][i] = log[n][i]
  <2>1. CASE n = k
    <3>1. log'[n] = log[n] \o new /\ log[n] \in Seq(RowType)
      BY <1>1, <2>1 DEF LogGrows
    <3> DEFINE old == log[n]
    <3> HIDE DEF old
    <3>2. /\ old \o new \in Seq(RowType) /\ Len(old \o new) = Len(old) + Len(new)
          /\ \A i \in 1 .. Len(old) + Len(new) :
               (old \o new)[i] = IF i <= Len(old) THEN old[i] ELSE new[i - Len(old)]
      BY <3>1, ConcatProperties DEF old
    <3>3. Len(new) \in Nat /\ Len(old) \in Nat /\ DOMAIN old = 1 .. Len(old)
      BY <3>1 DEF old
    <3>4. DOMAIN (old \o new) = 1 .. Len(old) + Len(new)
      BY <3>2
    <3>5. \A i \in DOMAIN old : i \in DOMAIN (old \o new) /\ (old \o new)[i] = old[i]
      BY <3>2, <3>3, <3>4
    <3> QED BY <3>1, <3>5 DEF old
  <2>2. CASE n # k
    BY <1>1, <2>2 DEF LogGrows
  <2> QED BY <2>1, <2>2
<1> QED BY <1>2 DEF Arrived

LEMMA ArrivedKeep ==
  ASSUME NEW n \in Node, NEW b, Arrived(n, b), log' = log
  PROVE  Arrived(n, b)'
  BY DEF Arrived

\* The transaction that appends a bundle's rows brings every one of them.
LEMMA AppendArrives ==
  ASSUME Inv, NamesApart, Apart, NEW n \in Node, NEW p \in Process,
         NEW b, b = run[n][p].bundle, AppendBundle(n, p)
  PROVE  Arrived(n, b)'
<1> DEFINE ns == Namespaced(b)
           rows == NewRows(ns, Ids(log[n]))
<1>1. /\ At(n, p, "register") /\ run[n][p].left = {}
      /\ log' = [log EXCEPT ![n] = @ \o rows]
  BY DEF AppendBundle
<1>2. /\ ns \in Seq(RowType) /\ Len(ns) = Len(b.digest)
      /\ \A i \in 1 .. Len(b.digest) :
           /\ b.digest[i] \in RowType /\ ns[i] \in RowType
           /\ ns[i].id = b.digest[i].id
           /\ ns[i].src = Named(b.sender, b.digest[i].src)
      /\ rows \in Seq(RowType) /\ ToSet(rows) = ToSet(ns) \cap Fresh(Ids(log[n]))
      /\ b \in BundleType /\ BundleOK(b) /\ b.sender \in Node /\ b.sender # n
  <2>1. /\ ns \in Seq(RowType) /\ Len(ns) = Len(b.digest)
        /\ rows \in Seq(RowType) /\ ToSet(rows) = ToSet(ns) \cap Fresh(Ids(log[n]))
        /\ b \in BundleType /\ BundleOK(b) /\ b.sender \in Node /\ b.sender # n
    BY <1>1, ArrivingRows, Zenon
  <2> DEFINE c == run[n][p].bundle
  <2>2. \A i \in 1 .. Len(c.digest) :
           /\ c.digest[i] \in RowType /\ Namespaced(c)[i] \in RowType
           /\ Namespaced(c)[i].id = c.digest[i].id
           /\ Namespaced(c)[i].level = c.digest[i].level
           /\ Namespaced(c)[i].src = Named(c.sender, c.digest[i].src)
           /\ Apart => ImportedRow(n, Namespaced(c)[i])
           /\ Namespaced(c)[i].src \in registered[n]
    BY <1>1, ArrivingRows, Zenon
  <2>3. b = c
    OBVIOUS
  <2> HIDE DEF c
  <2>4. \A i \in 1 .. Len(b.digest) :
           /\ b.digest[i] \in RowType /\ ns[i] \in RowType
           /\ ns[i].id = b.digest[i].id
           /\ ns[i].src = Named(b.sender, b.digest[i].src)
    BY <2>2, <2>3
  <2> HIDE DEF ns, rows
  <2> QED BY <2>1, <2>4
<1>3. b.digest \in Seq(RowType)
  BY <1>2 DEF BundleType
<1>4. log[n] \in Seq(RowType) /\ log'[n] = log[n] \o rows
  BY <1>1 DEF Inv, RowsOK
<1> HIDE DEF rows, ns
<1>5. ToSet(log'[n]) = ToSet(log[n]) \cup ToSet(rows)
  BY <1>2, <1>4, ConcatElements
<1>6. ASSUME NEW i \in 1 .. Len(b.digest)
      PROVE  \E r \in ToSet(log'[n]) :
               r.id = b.digest[i].id /\ r.src = Named(b.sender, b.digest[i].src)
  <2>1. CASE ns[i].id \in Ids(log[n])
    <3>1. PICK r \in ToSet(log[n]) : r.id = b.digest[i].id
      <4>1. Ids(log[n]) = {r.id : r \in ToSet(log[n])}
        BY <1>4, KnownIds
      <4> QED BY <1>2, <2>1, <4>1
    <3>2. PICK s \in Own[b.sender] : b.digest[i].src = <<s>> /\ b.digest[i].id[1] = <<s>>
      BY <1>2 DEF BundleOK, ReadOK, OwnRow
    <3>3. r.src = <<b.sender, s>>
      <4> DEFINE m == b.sender
      <4>1. m \in Node /\ m # n /\ s \in Own[m] /\ r.id[1] = <<s>>
        BY <1>2, <3>1, <3>2
      <4> HIDE DEF m
      <4>2. r.src = <<m, s>>
        BY <3>1, <4>1, WhoseId
      <4> QED BY <4>2 DEF m
    <3>4. r.src = Named(b.sender, b.digest[i].src)
      BY <3>2, <3>3, NamedSource
    <3> QED BY <1>5, <3>1, <3>4
  <2>2. CASE ns[i].id \notin Ids(log[n])
    <3>1. ns[i] \in ToSet(ns) /\ ns[i] \in Fresh(Ids(log[n]))
      BY <1>2, <2>2 DEF ToSet, Fresh
    <3> QED BY <1>2, <1>5, <3>1
  <2> QED BY <2>1, <2>2
<1>7. DOMAIN b.digest = 1 .. Len(b.digest)
  BY <1>3
<1>8. \A r \in ToSet(log'[n]) : \E j \in DOMAIN log'[n] : r = log'[n][j]
  BY DEF ToSet
<1> QED BY <1>6, <1>7, <1>8 DEF Arrived

\* A log changes by an observation or by an append.
LEMMA LogChanges ==
  ASSUME [Next]_vars, log' # log
  PROVE  \/ \E n \in Node, s \in STRING, l \in Locator, v \in Version \cup {Gone}, e \in ScanLevels :
              s \in Own[n] /\ Observe(n, <<s>>, l, v, e)
         \/ \E n \in Node, p \in Process : AppendBundle(n, p)
<1>1. Next
  BY DEF vars
<1>2. \A n \in Node : Own[n] \subseteq STRING
  BY BundlesAssumption
<1>3. \A n : NewKey(n) => log' = log
  BY DEF NewKey
<1>4. \A b : Truncate(b) => log' = log
  BY DEF Truncate
<1>5. \A m, p, k : TrustAdd(m, p, k) \/ BeginImport(m, p, k) \/ ReadSource(m, p, k)
                      \/ RegisterSource(m, p, k) => log' = log
  BY DEF TrustAdd, BeginImport, ReadSource, RegisterSource
<1>6. \A m, p, e, srcs : BeginExport(m, p, e, srcs) => log' = log
  BY DEF BeginExport
<1>7. \A m, p : FinishExport(m, p) \/ TrustKey(m, p) \/ MarkImported(m, p)
                   \/ RecordBundle(m, p) \/ Abandon(m, p) => log' = log
  BY DEF FinishExport, TrustKey, MarkImported, RecordBundle, Abandon
<1> QED BY <1>1, <1>2, <1>3, <1>4, <1>5, <1>6, <1>7 DEF Next

LEMMA LogSteps ==
  ASSUME Inv, [Next]_vars
  PROVE  LogsKeep
<1>1. ASSUME NEW n \in Node, NEW s \in Own[n], NEW l \in Locator, NEW v \in Version \cup {Gone},
             NEW e \in ScanLevels, Observe(n, <<s>>, l, v, e)
      PROVE  LogsKeep
  BY <1>1, ObserveGrows DEF LogsKeep
<1>2. ASSUME NEW n \in Node, NEW p \in Process, AppendBundle(n, p)
      PROVE  LogsKeep
  <2> DEFINE new == NewRows(Namespaced(run[n][p].bundle), Ids(log[n]))
  <2>1. At(n, p, "register") /\ run[n][p].left = {} /\ LogGrows(n, new)
    BY <1>2 DEF AppendBundle, LogGrows
  <2>2. new \in Seq(RowType)
    BY <2>1, ArrivingRows
  <2> HIDE DEF new
  <2> QED BY <2>1, <2>2 DEF LogsKeep
<1> QED BY <1>1, <1>2, LogChanges DEF LogsKeep

\* Whatever a step does, what has arrived has arrived.
LEMMA StillArrived ==
  ASSUME Inv, [Next]_vars, NEW n \in Node, NEW b, Arrived(n, b)
  PROVE  Arrived(n, b)'
  BY LogSteps, ArrivedStays, ArrivedKeep DEF LogsKeep

\* A process is at "record" only just after it has appended.
LEMMA RecordAfterAppend ==
  ASSUME Inv, [Next]_vars, NEW n \in Node, NEW p \in Process, run'[n][p].pc = "record"
  PROVE  \/ AppendBundle(n, p) /\ run'[n][p].bundle = run[n][p].bundle
         \/ At(n, p, "record") /\ run'[n][p] = run[n][p]
<1>1. ASSUME NEW m \in Node, NEW q \in Process, NEW new, run' = [run EXCEPT ![m][q] = new],
             new.pc # "record"
      PROVE  run'[n][p] = run[n][p]
  BY <1>1, RunAt
<1>2. ASSUME NEW m \in Node, NEW q \in Process, NEW b, BeginImport(m, q, b)
      PROVE  run'[n][p] = run[n][p]
  <2> DEFINE new == [pc |-> IF trusted[m][b.sender] = NoKey THEN "trust" ELSE "register",
                     bundle |-> b, left |-> b.sources]
  <2>1. run' = [run EXCEPT ![m][q] = new] /\ new.pc # "record"
    BY <1>2 DEF BeginImport
  <2> HIDE DEF new
  <2> QED BY <1>1, <2>1
<1>3. ASSUME NEW m \in Node, NEW q \in Process, NEW e, NEW srcs, BeginExport(m, q, e, srcs)
      PROVE  run'[n][p] = run[n][p]
  <2> DEFINE new == [pc |-> "export", level |-> e, key |-> key[m], sources |-> srcs,
                     left |-> srcs, body |-> <<>>]
  <2>1. run' = [run EXCEPT ![m][q] = new] /\ new.pc # "record"
    BY <1>3 DEF BeginExport
  <2> HIDE DEF new
  <2> QED BY <1>1, <2>1
<1>4. ASSUME NEW m \in Node, NEW q \in Process, NEW src, ReadSource(m, q, src)
      PROVE  run'[n][p] = run[n][p]
  <2>1. PICK r : r = run[m][q]
    OBVIOUS
  <2> DEFINE new == [r EXCEPT !.body = @ \o Body(m, src, r.level), !.left = @ \ {src}]
  <2>2. run' = [run EXCEPT ![m][q] = new] /\ At(m, q, "export")
    BY <1>4, <2>1 DEF ReadSource
  <2>3. r \in Exporting
    BY <2>1, <2>2, ExportingNow DEF ExportOK
  <2>4. new.pc # "record"
    BY <2>3 DEF Exporting
  <2> HIDE DEF new
  <2> QED BY <1>1, <2>2, <2>4
<1>5. ASSUME NEW m \in Node, NEW q \in Process, TrustKey(m, q) \/ MarkImported(m, q)
      PROVE  run'[n][p] = run[n][p]
  <2>1. PICK r : r = run[m][q]
    OBVIOUS
  <2> DEFINE new == [r EXCEPT !.pc = "register"]
  <2>2. run' = [run EXCEPT ![m][q] = new] /\ run[m][q].pc \in {"trust", "mark"}
    BY <1>5, <2>1 DEF TrustKey, MarkImported, Goto, At
  <2>3. r \in Importing
    BY <2>1, <2>2, ImportingNow DEF ImportOK
  <2>4. new.pc # "record"
    BY <2>3 DEF Importing
  <2> HIDE DEF new
  <2> QED BY <1>1, <2>2, <2>4
<1>6. ASSUME NEW m \in Node, NEW q \in Process, NEW src, RegisterSource(m, q, src)
      PROVE  run'[n][p] = run[n][p]
  <2>1. PICK r : r = run[m][q]
    OBVIOUS
  <2> DEFINE new == [r EXCEPT !.pc = "mark", !.left = @ \ {src}]
  <2>2. run' = [run EXCEPT ![m][q] = new] /\ run[m][q].pc = "register"
    BY <1>6, <2>1 DEF RegisterSource, At
  <2>3. r \in Importing
    BY <2>1, <2>2, ImportingNow DEF ImportOK
  <2>4. new.pc # "record"
    BY <2>3 DEF Importing
  <2> HIDE DEF new
  <2> QED BY <1>1, <2>2, <2>4
<1>7. ASSUME NEW m \in Node, NEW q \in Process,
             FinishExport(m, q) \/ RecordBundle(m, q) \/ Abandon(m, q)
      PROVE  run'[n][p] = run[n][p]
  <2>1. run' = [run EXCEPT ![m][q] = Idle] /\ Idle.pc # "record"
    BY <1>7 DEF FinishExport, RecordBundle, Abandon, Idle
  <2> QED BY <1>1, <2>1
<1>8. ASSUME NEW m \in Node, NEW q \in Process, AppendBundle(m, q)
      PROVE  \/ AppendBundle(n, p) /\ run'[n][p].bundle = run[n][p].bundle
             \/ run'[n][p] = run[n][p]
  <2>1. PICK r : r = run[m][q]
    OBVIOUS
  <2> DEFINE new == [r EXCEPT !.pc = "record"]
  <2>2. run' = [run EXCEPT ![m][q] = new] /\ run[m][q].pc = "register"
    BY <1>8, <2>1 DEF AppendBundle, Goto, At
  <2>3. r \in Importing
    BY <2>1, <2>2, ImportingNow DEF ImportOK
  <2>4. new.bundle = r.bundle
    BY <2>3 DEF Importing
  <2> HIDE DEF new
  <2>5. CASE m = n /\ q = p
    <3>1. run'[n][p] = new
      BY <2>2, <2>5, RunAt
    <3> QED BY <1>8, <2>1, <2>4, <2>5, <3>1
  <2>6. CASE ~(m = n /\ q = p)
    BY <2>2, <2>6, RunAt
  <2> QED BY <2>5, <2>6
<1>9. CASE run' = run
  BY <1>9 DEF At
<1>10. CASE run' # run
  <2>1. Next
    BY <1>10 DEF vars
  <2>2. \A h \in Hands : h[1] \in Node /\ h[2] \in Node
    BY BundlesAssumption
  <2>3. \A m, s, l, v, e : Observe(m, <<s>>, l, v, e) => run' = run
    BY DEF Observe
  <2>4. \A m, q, k : NewKey(m) \/ TrustAdd(m, q, k) \/ Truncate(k) => run' = run
    BY DEF NewKey, TrustAdd, Truncate
  <2>5. \E m \in Node, q \in Process :
          \/ \E b : BeginImport(m, q, b)
          \/ \E e, srcs : BeginExport(m, q, e, srcs)
          \/ \E src : ReadSource(m, q, src) \/ RegisterSource(m, q, src)
          \/ TrustKey(m, q) \/ MarkImported(m, q)
          \/ FinishExport(m, q) \/ RecordBundle(m, q) \/ Abandon(m, q)
          \/ AppendBundle(m, q)
    BY <1>10, <2>1, <2>2, <2>3, <2>4 DEF Next
  <2> QED BY <1>2, <1>3, <1>4, <1>5, <1>6, <1>7, <1>8, <2>5 DEF At
<1> QED BY <1>9, <1>10 DEF At

LEMMA ArrivedStep ==
  ASSUME Inv, NamesApart, Apart, ArrivedOK, [Next]_vars
  PROVE  ArrivedOK'
<1>1. ASSUME NEW n \in Node, NEW p \in Process, run'[n][p].pc = "record"
      PROVE  Arrived(n, run[n][p].bundle)'
  <2>1. PICK b : b = run[n][p].bundle
    OBVIOUS
  <2>2. Arrived(n, b)' /\ run'[n][p].bundle = b
    <3>1. CASE AppendBundle(n, p) /\ run'[n][p].bundle = run[n][p].bundle
      BY <2>1, <3>1, AppendArrives
    <3>2. CASE At(n, p, "record") /\ run'[n][p] = run[n][p]
      <4>1. Arrived(n, b)
        BY <2>1, <3>2 DEF ArrivedOK
      <4> QED BY <2>1, <3>2, <4>1, StillArrived
    <3> QED BY <1>1, <3>1, <3>2, RecordAfterAppend
  <2> QED BY <2>2 DEF Arrived
<1>2. ASSUME NEW n \in Node, NEW b \in received'[n] PROVE Arrived(n, b)'
  <2>1. Arrived(n, b)
    <3>1. CASE b \in received[n]
      BY <3>1 DEF ArrivedOK
    <3>2. CASE b \notin received[n]
      <4>1. received' # received
        BY <1>2, <3>2
      <4>2. Next
        BY <4>1 DEF vars
      <4>3. \A m, s, l, v, e : Observe(m, <<s>>, l, v, e) => received' = received
        BY DEF Observe
      <4>4. \A m, q, e, srcs : BeginExport(m, q, e, srcs) => received' = received
        BY DEF BeginExport
      <4>5. \A m, q, k : NewKey(m) \/ Truncate(k) \/ TrustAdd(m, q, k) \/ BeginImport(m, q, k)
                           \/ ReadSource(m, q, k) \/ RegisterSource(m, q, k)
                         => received' = received
        BY DEF NewKey, Truncate, TrustAdd, BeginImport, ReadSource, RegisterSource
      <4>6. \A m, q : FinishExport(m, q) \/ TrustKey(m, q) \/ MarkImported(m, q)
                        \/ AppendBundle(m, q) \/ Abandon(m, q)
                      => received' = received
        BY DEF FinishExport, TrustKey, MarkImported, AppendBundle, Abandon
      <4>7. PICK m \in Node, q \in Process : RecordBundle(m, q)
        BY <4>1, <4>2, <4>3, <4>4, <4>5, <4>6 DEF Next
      <4>8. received' = [received EXCEPT ![m] = @ \cup {run[m][q].bundle}] /\ At(m, q, "record")
        BY <4>7 DEF RecordBundle
      <4>9. m = n /\ b = run[n][q].bundle
        BY <1>2, <3>2, <4>8 DEF Inv, ReceivedOK
      <4> QED BY <4>8, <4>9 DEF ArrivedOK
    <3> QED BY <3>1, <3>2
  <2> QED BY <2>1, StillArrived
<1> QED BY <1>1, <1>2 DEF ArrivedOK, At

\* A bundle whose receipt is recorded has brought every row its sender signed,
\* whatever was there before and whichever imports were broken off: of Gysts
\* none of which exports while it imports and no two of which call a source
\* alike, without either of which rows do get lost (AppendBundle, RecordBundle
\* and the ids of DeriveID).  Exports may run beside exports, and imports
\* beside imports.
THEOREM NoneLostApart ==
  ASSUME NamesApart, Apart
  PROVE  Spec => []NoneLost
<1>1. Init => ArrivedOK
  BY DEF Init, ArrivedOK, At, Idle
<1>2. Inv /\ ArrivedOK /\ [Next]_vars => ArrivedOK'
  BY ArrivedStep
<1>3. ArrivedOK => NoneLost
  BY DEF ArrivedOK, Arrived, NoneLost
<1> QED BY <1>1, <1>2, <1>3, InvAlways, PTL DEF Spec

-----------------------------------------------------------------------------
(* Every copy follows its sender's log.                                     *)

\* Bundles are made for one level of egress only.
OneLevel == \A d, e \in DestLevels : d = e

\* What of a row is compared.
ContentOf == [r \in RowType |-> <<r.id, r.level>>]

LEMMA ContentProperties ==
  ASSUME NEW rows \in Seq(RowType)
  PROVE  /\ Content(rows) \in Seq({ContentOf[r] : r \in RowType})
         /\ Len(Content(rows)) = Len(rows)
         /\ \A i \in 1 .. Len(rows) : Content(rows)[i] = ContentOf[rows[i]]
<1>1. \A i \in 1 .. Len(rows) : rows[i] \in RowType /\ ContentOf[rows[i]] = <<rows[i].id, rows[i].level>>
  BY DEF ContentOf
<1>2. Content(rows) = [i \in 1 .. Len(rows) |-> <<rows[i].id, rows[i].level>>]
  BY DEF Content
<1> DEFINE c == Content(rows)
           X == {ContentOf[r] : r \in RowType}
<1> HIDE DEF c
<1>3. \A i \in 1 .. Len(rows) : c[i] = ContentOf[rows[i]]
  BY <1>1, <1>2 DEF c
<1>4. \A i \in 1 .. Len(rows) : c[i] \in X
  BY <1>1, <1>3
<1> HIDE DEF X
<1>5. Len(rows) \in Nat /\ c = [i \in 1 .. Len(rows) |-> c[i]]
  BY <1>2 DEF c
<1>6. c \in [1 .. Len(rows) -> X]
  BY <1>4, <1>5
<1>7. c \in Seq(X) /\ Len(c) = Len(rows)
  BY <1>5, <1>6, SeqDef
<1> QED BY <1>3, <1>7 DEF c, X

LEMMA ContentPrefix ==
  ASSUME NEW a \in Seq(RowType), NEW b \in Seq(RowType)
  PROVE  IsPrefix(Content(a), Content(b))
           <=> Len(a) <= Len(b) /\ \A i \in 1 .. Len(a) : ContentOf[a[i]] = ContentOf[b[i]]
<1> DEFINE X == {ContentOf[r] : r \in RowType}
           ca == Content(a)
           cb == Content(b)
<1>1. /\ ca \in Seq(X) /\ Len(ca) = Len(a) /\ \A i \in 1 .. Len(a) : ca[i] = ContentOf[a[i]]
      /\ cb \in Seq(X) /\ Len(cb) = Len(b) /\ \A i \in 1 .. Len(b) : cb[i] = ContentOf[b[i]]
  BY ContentProperties
<1> HIDE DEF X, ca, cb
<1>2. IsPrefix(ca, cb) <=> Len(ca) <= Len(cb) /\ \A i \in 1 .. Len(ca) : ca[i] = cb[i]
  BY <1>1, PrefixByIndex
<1>3. Len(a) \in Nat /\ Len(b) \in Nat
  OBVIOUS
<1>4. Len(a) <= Len(b) =>
        \A i \in 1 .. Len(a) : ca[i] = ContentOf[a[i]] /\ cb[i] = ContentOf[b[i]]
  BY <1>1, <1>3
<1>5. IsPrefix(ca, cb)
        <=> Len(a) <= Len(b) /\ \A i \in 1 .. Len(a) : ContentOf[a[i]] = ContentOf[b[i]]
  <2>1. Len(ca) = Len(a) /\ Len(cb) = Len(b)
    BY <1>1
  <2> QED BY <1>2, <1>4, <2>1
<1> QED BY <1>5 DEF ca, cb

LEMMA ContentSame ==
  ASSUME NEW r \in RowType, NEW q \in RowType
  PROVE  ContentOf[r] = ContentOf[q] <=> r.id = q.id /\ r.level = q.level
  BY DEF ContentOf

LEMMA LinkParts ==
  ASSUME NEW k \in Links
  PROVE  /\ k[1] \in Node /\ k[2] \in Node /\ k[1] # k[2]
         /\ <<k[2], k[1]>> \in Hands
         /\ k[3] \in STRING /\ <<k[3]>> \in Seq(STRING) /\ k[4] \in DestLevels
<1>1. PICK h \in Hands, s \in UNION {Own[n] : n \in Node}, want \in DestLevels :
        k = <<h[2], h[1], s, want>>
  BY DEF Links
<1>2. h \in Node \X Node /\ h[1] # h[2] /\ s \in STRING
  BY BundlesAssumption
<1>3. h = <<h[1], h[2]>>
  BY <1>2
<1>4. <<s>> \in Seq(STRING)
  BY <1>2, SingletonSeq
<1> QED BY <1>1, <1>2, <1>3, <1>4

LEMMA CopyIs ==
  ASSUME log \in [Node -> Seq(RowType)], NEW k \in Links
  PROVE  /\ Copy(k) = Content(Filter(log[k[1]], RowsOf(<<k[2], k[3]>>)))
         /\ Filter(log[k[1]], RowsOf(<<k[2], k[3]>>)) \in Seq(RowType)
<1>1. log[k[1]] \in Seq(RowType)
  BY LinkParts
<1> DEFINE rows == log[k[1]]
<1> HIDE DEF rows
<1>2. Pick(rows, {i \in DOMAIN rows : rows[i].src = <<k[2], k[3]>>})
        = Filter(rows, RowsOf(<<k[2], k[3]>>))
  BY <1>1, CopyIsFilter DEF rows
<1>3. Filter(rows, RowsOf(<<k[2], k[3]>>)) \in Seq(RowType)
  BY <1>1, FilterType DEF rows
<1> QED BY <1>2, <1>3 DEF Copy, rows

\* What a longer log does to a copy.
LEMMA CopyGrows ==
  ASSUME log \in [Node -> Seq(RowType)], NEW n \in Node, NEW new \in Seq(RowType),
         LogGrows(n, new), NEW k \in Links
  PROVE  LET keep == RowsOf(<<k[2], k[3]>>)
             old  == Filter(log[k[1]], keep)
         IN  /\ old \in Seq(RowType) /\ Filter(new, keep) \in Seq(RowType)
             /\ old \o Filter(new, keep) \in Seq(RowType)
             /\ Copy(k) = Content(old)
             /\ Copy(k)' = IF k[1] = n THEN Content(old \o Filter(new, keep)) ELSE Content(old)
<1> DEFINE keep == RowsOf(<<k[2], k[3]>>)
           old  == Filter(log[k[1]], keep)
           rows == log'[k[1]]
<1>1. /\ log[k[1]] \in Seq(RowType) /\ k[1] \in Node
      /\ rows = IF k[1] = n THEN log[k[1]] \o new ELSE log[k[1]]
  BY LinkParts DEF LogGrows
<1>2. rows \in Seq(RowType)
  BY <1>1, ConcatProperties
<1>3. Copy(k)' = Content(Pick(rows, {i \in DOMAIN rows : rows[i].src = <<k[2], k[3]>>}))
  BY DEF Copy
<1> HIDE DEF rows
<1>4. Copy(k)' = Content(Filter(rows, keep))
  BY <1>2, <1>3, CopyIsFilter
<1> HIDE DEF keep
<1>5. Filter(log[k[1]] \o new, keep) = old \o Filter(new, keep)
  <2> DEFINE q == log[k[1]]
  <2> HIDE DEF q
  <2>1. q \in Seq(RowType)
    BY <1>1 DEF q
  <2>2. Filter(q \o new, keep) = Filter(q, keep) \o Filter(new, keep)
    BY <2>1, FilterConcat
  <2> QED BY <2>2 DEF q
<1>6. old \in Seq(RowType) /\ Filter(new, keep) \in Seq(RowType)
  BY <1>1, FilterType
<1>7. Copy(k) = Content(old)
  BY CopyIs DEF keep
<1> HIDE DEF old
<1>8. old \o Filter(new, keep) \in Seq(RowType)
  BY <1>6, ConcatProperties
<1> QED BY <1>1, <1>4, <1>5, <1>6, <1>7, <1>8 DEF keep, old

\* Nothing is added to a copy by rows of other sources.
LEMMA CopyUnmoved ==
  ASSUME log \in [Node -> Seq(RowType)], NEW n \in Node, NEW new \in Seq(RowType),
         LogGrows(n, new), NEW k \in Links,
         k[1] = n => \A r \in ToSet(new) : r.src # <<k[2], k[3]>>
  PROVE  Copy(k)' = Copy(k)
<1> DEFINE keep == RowsOf(<<k[2], k[3]>>)
           old  == Filter(log[k[1]], keep)
<1>1. /\ old \in Seq(RowType) /\ Copy(k) = Content(old)
      /\ Copy(k)' = IF k[1] = n THEN Content(old \o Filter(new, keep)) ELSE Content(old)
  BY CopyGrows
<1>2. k[1] = n => Filter(new, keep) = <<>>
  <2>1. k[1] = n => ToSet(new) \cap keep = {}
    BY DEF RowsOf
  <2> HIDE DEF keep
  <2> QED BY <2>1, FilterNone
<1> HIDE DEF keep, old
<1>3. old \o <<>> = old
  BY <1>1, ConcatEmptySeq
<1> QED BY <1>1, <1>2, <1>3

\* The rows of a bundle that are not known yet are those past the copy.
LEMMA KnownIsCopied ==
  ASSUME Inv, NamesApart, Apart, NEW k \in Links, NEW p \in Seq(RowType), NEW body \in Seq(RowType),
         IsPrefix(p, body), Distinct(body, IdOf),
         \A r \in ToSet(p) : OwnRow(k[2], r) /\ r.src = <<k[3]>>,
         NEW c \in Seq(RowType), ToSet(c) = ToSet(log[k[1]]) \cap RowsOf(<<k[2], k[3]>>),
         IsPrefix(Content(c), Content(body))
  PROVE  \A i \in 1 .. Len(p) : p[i] \in Fresh(Ids(log[k[1]])) <=> Len(c) < i
<1> DEFINE n == k[1]
           rows == log[n]
<1>1. /\ rows \in Seq(RowType) /\ n \in Node /\ k[2] \in Node /\ k[2] # n
      /\ Ids(rows) = {r.id : r \in ToSet(rows)}
  <2>1. n \in Node /\ k[2] \in Node /\ k[2] # n
    BY LinkParts
  <2>2. rows \in Seq(RowType)
    BY <2>1 DEF Inv, RowsOK
  <2> QED BY <2>1, <2>2, KnownIds
<1>2. /\ ToSet(c) = ToSet(rows) \cap RowsOf(<<k[2], k[3]>>) /\ Len(c) \in Nat
      /\ ToSet(c) = {c[i] : i \in 1 .. Len(c)}
  <2>1. ToSet(c) = {c[i] : i \in 1 .. Len(c)}
    BY ToSetByIndex
  <2>2. ToSet(c) = ToSet(rows) \cap RowsOf(<<k[2], k[3]>>) /\ Len(c) \in Nat
    OBVIOUS
  <2> QED BY <2>1, <2>2
<1>3. Len(p) <= Len(body) /\ \A i \in 1 .. Len(p) : p[i] = body[i]
  BY PrefixByIndex
<1>4. Len(c) <= Len(body) /\ \A i \in 1 .. Len(c) : c[i].id = body[i].id
  <2>1. Len(c) <= Len(body) /\ \A i \in 1 .. Len(c) : ContentOf[c[i]] = ContentOf[body[i]]
    BY <1>2, ContentPrefix
  <2>2. ASSUME NEW i \in 1 .. Len(c) PROVE c[i].id = body[i].id
    <3>1. c[i] \in RowType /\ i \in 1 .. Len(body)
      BY <1>2, <2>1
    <3>2. body[i] \in RowType
      BY <3>1
    <3> QED BY <2>1, <3>1, <3>2, ContentSame
  <2> QED BY <2>1, <2>2
<1> HIDE DEF rows
<1>5. ASSUME NEW i \in 1 .. Len(p), p[i].id \in Ids(rows) PROVE i <= Len(c)
  <2>1. PICK r \in ToSet(rows) : r.id = p[i].id
    BY <1>1, <1>5
  <2>2. p[i] \in ToSet(p)
    BY DEF ToSet
  <2>3. PICK s \in Own[k[2]] : p[i].src = <<s>> /\ p[i].id[1] = <<s>>
    BY <2>2 DEF OwnRow
  <2>4. s = k[3]
    BY <2>2, <2>3
  <2>5. r.src = <<k[2], k[3]>>
    <3>1. r.id[1] = <<s>>
      BY <2>1, <2>3
    <3> DEFINE m == k[2]
    <3>2. m \in Node /\ m # n /\ s \in Own[m] /\ r \in ToSet(log[n])
      BY <1>1, <2>1, <2>3 DEF rows
    <3> HIDE DEF n, m
    <3>3. n \in Node
      BY <1>1 DEF n
    <3>4. r.src = <<m, s>>
      BY <3>1, <3>2, <3>3, WhoseId
    <3> QED BY <2>4, <3>4 DEF m
  <2>6. r \in ToSet(c)
    BY <1>1, <1>2, <2>1, <2>5, ElementsType DEF RowsOf
  <2>7. PICK j \in 1 .. Len(c) : r = c[j]
    BY <1>2, <2>6
  <2>8. i \in 1 .. Len(body) /\ j \in 1 .. Len(body)
    BY <1>2, <1>3, <1>4
  <2>9. body[i].id = body[j].id /\ body[i] \in RowType /\ body[j] \in RowType
    BY <1>3, <1>4, <2>1, <2>7, <2>8
  <2>10. i = j
    BY <2>8, <2>9, RowFields DEF Distinct
  <2> QED BY <2>7, <2>10
<1>6. ASSUME NEW i \in 1 .. Len(p), i <= Len(c) PROVE p[i].id \in Ids(rows)
  <2>1. i \in 1 .. Len(c)
    BY <1>2, <1>6
  <2>2. c[i] \in ToSet(rows) /\ c[i].id = body[i].id
    BY <1>2, <1>4, <2>1
  <2>3. c[i].id = p[i].id
    BY <1>3, <2>2
  <2> QED BY <1>1, <2>2, <2>3
<1>7. Len(c) \in Nat
  OBVIOUS
<1>8. \A i \in 1 .. Len(p) : p[i] \in RowType
  OBVIOUS
<1>9. \A i \in 1 .. Len(p) : p[i] \in Fresh(Ids(rows)) <=> Len(c) < i
  BY <1>5, <1>6, <1>7, <1>8 DEF Fresh
<1> QED BY <1>9 DEF rows

\* What follows the copy then continues it along the sender's log.
LEMMA RestContinues ==
  ASSUME NEW c \in Seq(RowType), NEW p \in Seq(RowType), NEW body \in Seq(RowType),
         NEW rest \in Seq(RowType), NEW keep,
         IsPrefix(p, body), IsPrefix(Content(c), Content(body)),
         \A i \in 1 .. Len(p) : p[i] \in keep <=> Len(c) < i,
         AlikeBy(rest, Filter(p, keep), ContentOf, ContentOf)
  PROVE  /\ IsPrefix(Content(c), Content(c \o rest))
         /\ IsPrefix(Content(c \o rest), Content(body))
<1> DEFINE q == IF Len(c) <= Len(p) THEN Len(c) ELSE Len(p)
           f == Filter(p, keep)
           d == c \o rest
<1>1. Len(c) \in Nat /\ Len(p) \in Nat /\ Len(body) \in Nat /\ Len(rest) \in Nat
  OBVIOUS
<1>2. q \in Nat /\ q <= Len(p) /\ q <= Len(c) /\ (q = Len(c) \/ q = Len(p))
  BY <1>1
<1>3. \A i \in 1 .. Len(p) : p[i] \in keep <=> q < i
  BY <1>1
<1> HIDE DEF q
<1>4. f = SubSeq(p, q + 1, Len(p))
  BY <1>2, <1>3, FilterRest
<1>5. Len(f) = Len(p) - q /\ \A j \in 1 .. Len(p) - q : f[j] = p[q + j]
  BY <1>1, <1>2, <1>4
<1> HIDE DEF f
<1>6. Len(rest) = Len(p) - q /\ \A j \in 1 .. Len(rest) : ContentOf[rest[j]] = ContentOf[p[q + j]]
  BY <1>5 DEF AlikeBy, f
<1>7. /\ d \in Seq(RowType) /\ Len(d) = Len(c) + Len(rest)
      /\ \A i \in 1 .. Len(c) + Len(rest) :
           d[i] = IF i <= Len(c) THEN c[i] ELSE rest[i - Len(c)]
  BY ConcatProperties
<1> HIDE DEF d
<1>8. Len(p) <= Len(body) /\ \A i \in 1 .. Len(p) : p[i] = body[i]
  BY PrefixByIndex
<1>9. Len(c) <= Len(body) /\ \A i \in 1 .. Len(c) : ContentOf[c[i]] = ContentOf[body[i]]
  BY ContentPrefix
<1>10. Len(d) <= Len(body)
  BY <1>1, <1>2, <1>6, <1>7, <1>8, <1>9
<1>11. ASSUME NEW i \in 1 .. Len(d) PROVE ContentOf[d[i]] = ContentOf[body[i]]
  <2>1. CASE i <= Len(c)
    BY <1>1, <1>7, <1>9, <2>1
  <2>2. CASE ~(i <= Len(c))
    <3>1. Len(rest) # 0
      BY <1>1, <1>7, <2>2
    <3>2. q = Len(c)
      BY <1>1, <1>2, <1>6, <3>1
    <3>3. i - Len(c) \in 1 .. Len(rest) /\ q + (i - Len(c)) = i /\ i \in 1 .. Len(p)
      BY <1>1, <1>6, <1>7, <2>2, <3>2
    <3>4. d[i] = rest[i - Len(c)]
      BY <1>7, <2>2
    <3>5. ContentOf[rest[i - Len(c)]] = ContentOf[p[q + (i - Len(c))]]
      BY <1>6, <3>3
    <3> QED BY <1>8, <3>3, <3>4, <3>5
  <2> QED BY <2>1, <2>2
<1>12. Len(c) <= Len(d) /\ \A i \in 1 .. Len(c) : ContentOf[c[i]] = ContentOf[d[i]]
  BY <1>1, <1>7
<1>13. IsPrefix(Content(c), Content(d)) /\ IsPrefix(Content(d), Content(body))
  BY <1>7, <1>10, <1>11, <1>12, ContentPrefix
<1> QED BY <1>13 DEF d

\* An append moves every copy of a source of the bundle's sender along that
\* sender's log, and no other.
LEMMA AppendFollows ==
  ASSUME Inv, NamesApart, OneLevel, Apart, CopiesOK, NEW n \in Node, NEW q \in Process,
         AppendBundle(n, q), NEW k \in Links
  PROVE  /\ Origin(k)' = Origin(k)
         /\ IsPrefix(Copy(k), Copy(k)')
         /\ IsPrefix(Copy(k)', Origin(k))
<1> DEFINE b == run[n][q].bundle
           ns == Namespaced(b)
           known == Ids(log[n])
           new == NewRows(ns, known)
           body == Body(k[2], <<k[3]>>, k[4])
           old == Filter(log[k[1]], RowsOf(<<k[2], k[3]>>))
<1>1. At(n, q, "register") /\ run[n][q].left = {} /\ LogGrows(n, new)
  BY DEF AppendBundle, LogGrows
<1>2. /\ b \in bundles /\ b \in BundleType /\ BundleOK(b)
      /\ b.sender \in Node /\ b.sender # n
      /\ ns \in Seq(RowType) /\ Len(ns) = Len(b.digest)
      /\ \A i \in 1 .. Len(b.digest) :
           /\ b.digest[i] \in RowType /\ ns[i] \in RowType
           /\ ns[i].id = b.digest[i].id /\ ns[i].level = b.digest[i].level
           /\ ns[i].src = Named(b.sender, b.digest[i].src)
      /\ new \in Seq(RowType) /\ ToSet(new) = ToSet(ns) \cap Fresh(known)
  <2>1. /\ ns \in Seq(RowType) /\ Len(ns) = Len(b.digest)
        /\ \A i \in 1 .. Len(b.digest) :
             /\ b.digest[i] \in RowType /\ ns[i] \in RowType
             /\ ns[i].id = b.digest[i].id
             /\ ns[i].level = b.digest[i].level
             /\ ns[i].src = Named(b.sender, b.digest[i].src)
             /\ Apart => ImportedRow(n, ns[i])
             /\ ns[i].src \in registered[n]
    BY <1>1, ArrivingRows, Zenon
  <2>2. /\ b \in bundles /\ b \in BundleType /\ BundleOK(b)
        /\ b.sender \in Node /\ b.sender # n
        /\ new \in Seq(RowType) /\ ToSet(new) = ToSet(ns) \cap Fresh(known)
    BY <1>1, ArrivingRows, Zenon
  <2> HIDE DEF b, ns, new, known
  <2> QED BY <2>1, <2>2
<1>2a. new = Filter(ns, Fresh(known))
  BY <1>1, ArrivingRows, Zenon
<1>3. log \in [Node -> Seq(RowType)] /\ k[1] \in Node /\ k[2] \in Node /\ k[4] \in DestLevels
  BY LinkParts DEF Inv, RowsOK
<1> HIDE DEF new, ns, b, known
<1>4. b.digest \in Seq(RowType) /\ b.level \in DestLevels
  BY <1>2 DEF BundleType
<1>5. ASSUME NEW i \in 1 .. Len(b.digest)
      PROVE  \E t \in STRING : b.digest[i].src = <<t>> /\ ns[i].src = <<b.sender, t>>
  <2>1. PICK t \in Own[b.sender] : b.digest[i].src = <<t>>
    BY <1>2 DEF BundleOK, ReadOK, OwnRow
  <2>2. ns[i].src = <<b.sender, t>>
    BY <1>2, <2>1, NamedSource
  <2>3. t \in STRING
    BY <1>2, BundlesAssumption
  <2> QED BY <2>1, <2>2, <2>3
<1>6. ASSUME NEW r \in ToSet(new) PROVE \E t : r.src = <<b.sender, t>>
  <2>1. PICK i \in 1 .. Len(b.digest) : r = ns[i]
    BY <1>2, ToSetByIndex
  <2> QED BY <1>5, <2>1
<1>7. /\ body \in Seq(RowType) /\ Origin(k) = Content(body)
      /\ Origin(k)' = Origin(k)
  <2>1. /\ Body(k[2], <<k[3]>>, k[4]) \in Seq(RowType)
        /\ Body(k[2], <<k[3]>>, k[4])' = IF k[2] = n
             THEN Body(k[2], <<k[3]>>, k[4]) \o Filter(new, Permitted(<<k[3]>>, k[4]))
             ELSE Body(k[2], <<k[3]>>, k[4])
    <3> DEFINE m == k[2]
               src == <<k[3]>>
               want == k[4]
    <3>1. m \in Node
      BY <1>3
    <3> HIDE DEF m, src, want
    <3>2. /\ Body(m, src, want) \in Seq(RowType)
          /\ Body(m, src, want)' = IF m = n
               THEN Body(m, src, want) \o Filter(new, Permitted(src, want))
               ELSE Body(m, src, want)
      <4>1. new \in Seq(RowType) /\ LogGrows(n, new) /\ log \in [Node -> Seq(RowType)]
        BY <1>1, <1>2, <1>3
      <4> QED BY <3>1, <4>1, BodyGrows
    <3> QED BY <3>2 DEF m, src, want
  <2>2. Filter(new, Permitted(<<k[3]>>, k[4])) = <<>>
    <3>1. ToSet(new) \cap Permitted(<<k[3]>>, k[4]) = {}
      BY <1>6 DEF Permitted
    <3> DEFINE keep == Permitted(<<k[3]>>, k[4])
    <3> HIDE DEF keep
    <3>2. ToSet(new) \cap keep = {}
      BY <3>1 DEF keep
    <3>3. Filter(new, keep) = <<>>
      BY <1>2, <3>2, FilterNone
    <3> QED BY <3>3 DEF keep
  <2> HIDE DEF body
  <2>3. body \in Seq(RowType) /\ body \o <<>> = body
    BY <2>1, ConcatEmptySeq DEF body
  <2>4. Body(k[2], <<k[3]>>, k[4])' = body
    BY <2>1, <2>2, <2>3 DEF body
  <2> QED BY <2>3, <2>4 DEF Origin, body
<1>8. /\ old \in Seq(RowType) /\ Copy(k) = Content(old)
      /\ IsPrefix(Content(old), Content(body))
  BY <1>3, <1>7, CopyIs DEF CopiesOK
<1>9. CASE k[1] = n /\ k[2] = b.sender
  <2> DEFINE keep == RowsOf(<<k[2], k[3]>>)
             rest == Filter(new, keep)
             mine == RowsOf(<<k[3]>>)
             p == Filter(b.digest, mine)
             fresh == Fresh(known)
  <2>1. /\ rest \in Seq(RowType) /\ Copy(k)' = Content(old \o rest)
    BY <1>1, <1>2, <1>3, <1>9, CopyGrows
  <2>2. p \in Seq(RowType) /\ IsPrefix(p, body) /\ Distinct(body, IdOf)
        /\ \A r \in ToSet(p) : OwnRow(k[2], r) /\ r.src = <<k[3]>>
    <3>1. p \in Seq(RowType) /\ ToSet(p) = ToSet(b.digest) \cap mine
      <4> HIDE DEF mine
      <4> QED BY <1>4, FilterType, FilterElements
    <3>2. \A r \in ToSet(p) : OwnRow(k[2], r) /\ r.src = <<k[3]>>
      <4>1. \A r \in ToSet(b.digest) : OwnRow(b.sender, r)
        BY <1>2, <1>4, ToSetByIndex DEF BundleOK, ReadOK
      <4> QED BY <1>9, <3>1, <4>1 DEF RowsOf
    <3>3. IsPrefix(p, body)
      <4>1. b.level = k[4] /\ <<k[3]>> \in Seq(STRING)
        BY <1>3, <1>4, LinkParts DEF OneLevel
      <4>2. IsPrefix(Filter(b.digest, RowsOf(<<k[3]>>)), Body(b.sender, <<k[3]>>, b.level))
        BY <1>2, <4>1 DEF BundleOK, ReadOK
      <4> QED BY <1>9, <4>1, <4>2
    <3>4. Distinct(body, IdOf)
      <4> DEFINE rows == log[k[2]]
                 among == Permitted(<<k[3]>>, k[4])
      <4>1. rows \in Seq(RowType) /\ Distinct(rows, IdOf)
        BY <1>3 DEF Inv, RowsOK
      <4>2. body = Pick(rows, {i \in DOMAIN rows : rows[i].src = <<k[3]>> /\ Permits(rows[i].level, k[4])})
        BY DEF Body, Carried
      <4> HIDE DEF rows, body
      <4>3. body = Filter(rows, among)
        BY <4>1, <4>2, BodyIsFilter
      <4> HIDE DEF among
      <4> QED BY <4>1, <4>3, FilterDistinct
    <3> QED BY <3>1, <3>2, <3>3, <3>4
  <2>3. AlikeBy(rest, Filter(p, fresh), ContentOf, ContentOf)
    <3>1. rest = Filter(ns, fresh \cap keep)
      <4> HIDE DEF fresh, keep
      <4>1. rest = Filter(Filter(ns, fresh), keep)
        BY <1>2a DEF fresh
      <4> QED BY <1>2, <4>1, FilterFilter
    <3>2. Filter(p, fresh) = Filter(b.digest, mine \cap fresh)
      <4> HIDE DEF fresh, mine
      <4> QED BY <1>4, FilterFilter
    <3>3. AlikeBy(ns, b.digest, ContentOf, ContentOf)
      BY <1>2, ContentSame DEF AlikeBy
    <3>4. ASSUME NEW i \in 1 .. Len(ns)
          PROVE  ns[i] \in fresh \cap keep <=> b.digest[i] \in mine \cap fresh
      <4>1. PICK t : b.digest[i].src = <<t>> /\ ns[i].src = <<b.sender, t>>
        BY <1>2, <1>5
      <4>2. ns[i].src = <<k[2], k[3]>> <=> b.digest[i].src = <<k[3]>>
        BY <1>9, <4>1
      <4> QED BY <1>2, <4>2 DEF Fresh, RowsOf
    <3> DEFINE K == fresh \cap keep
               L == mine \cap fresh
    <3> HIDE DEF K, L
    <3>5. AlikeBy(Filter(ns, K), Filter(b.digest, L), ContentOf, ContentOf)
      <4>1. \A i \in 1 .. Len(ns) : ns[i] \in K <=> b.digest[i] \in L
        BY <3>4 DEF K, L
      <4> QED BY <1>2, <1>4, <3>3, <4>1, FilterAlike
    <3> QED BY <3>1, <3>2, <3>5 DEF K, L
  <2>4. \A i \in 1 .. Len(p) : p[i] \in fresh <=> Len(old) < i
    <3>1. ToSet(old) = ToSet(log[k[1]]) \cap keep
      <4> DEFINE rows == log[k[1]]
      <4>1. rows \in Seq(RowType) /\ old = Filter(rows, keep)
        BY <1>3
      <4> HIDE DEF rows, keep, old
      <4>2. ToSet(old) = ToSet(rows) \cap keep
        BY <4>1, FilterElements
      <4> QED BY <4>2 DEF rows
    <3> HIDE DEF old, p, body
    <3>2. \A i \in 1 .. Len(p) : p[i] \in Fresh(Ids(log[k[1]])) <=> Len(old) < i
      BY <1>7, <1>8, <2>2, <3>1, KnownIsCopied
    <3> QED BY <1>9, <3>2 DEF known
  <2> HIDE DEF rest, p, fresh, old, body
  <2>5. /\ IsPrefix(Content(old), Content(old \o rest))
        /\ IsPrefix(Content(old \o rest), Content(body))
    BY <1>7, <1>8, <2>1, <2>2, <2>3, <2>4, RestContinues
  <2> QED BY <1>7, <1>8, <2>1, <2>5
<1>10. CASE ~(k[1] = n /\ k[2] = b.sender)
  <2>1. k[1] = n => \A r \in ToSet(new) : r.src # <<k[2], k[3]>>
    <3> SUFFICES ASSUME k[1] = n, NEW r \in ToSet(new) PROVE r.src # <<k[2], k[3]>>
      OBVIOUS
    <3>1. PICK t : r.src = <<b.sender, t>>
      BY <1>6
    <3> QED BY <1>10, <3>1
  <2>2. Copy(k)' = Copy(k)
    BY <1>1, <1>2, <1>3, <2>1, CopyUnmoved
  <2> HIDE DEF old, body
  <2>3. IsPrefix(Content(old), Content(old))
    BY <1>8, ContentPrefix
  <2> QED BY <1>7, <1>8, <2>2, <2>3
<1> QED BY <1>7, <1>9, <1>10

\* An observation makes what there is of its source longer, and no copy.
LEMMA ObserveFollows ==
  ASSUME Inv, NEW n \in Node, NEW s \in Own[n], NEW l \in Locator, NEW v \in Version \cup {Gone},
         NEW level \in ScanLevels, Observe(n, <<s>>, l, v, level), NEW k \in Links
  PROVE  Copy(k)' = Copy(k) /\ IsPrefix(Origin(k), Origin(k)')
<1> DEFINE o == FileObs(n, <<s>>, l, v, level)
           new == <<o>>
<1>1. new \in Seq(RowType) /\ LogGrows(n, new)
  BY ObserveGrows
<1>2. o.src = <<s>>
  BY DEF FileObs
<1> HIDE DEF o
<1>3. \A r \in ToSet(new) : r.src # <<k[2], k[3]>>
  <2>1. \A r \in ToSet(new) : r = o
    BY DEF ToSet
  <2> QED BY <1>2, <2>1
<1> HIDE DEF new
<1>4. log \in [Node -> Seq(RowType)] /\ k[2] \in Node
  BY LinkParts DEF Inv, RowsOK
<1>5. Copy(k)' = Copy(k)
  BY <1>1, <1>3, <1>4, CopyUnmoved
<1>6. IsPrefix(Origin(k), Origin(k)')
  <2> DEFINE m == k[2]
             src == <<k[3]>>
             want == k[4]
  <2>1. Origin(k) = Content(Body(m, src, want)) /\ Origin(k)' = Content(Body(m, src, want)')
    BY DEF Origin, Content
  <2>2. m \in Node
    BY <1>4
  <2> HIDE DEF m, src, want
  <2>3. /\ Body(m, src, want) \in Seq(RowType) /\ Body(m, src, want)' \in Seq(RowType)
        /\ IsPrefix(Body(m, src, want), Body(m, src, want)')
    BY <1>1, <1>4, <2>2, BodyGrows
  <2>4. /\ Len(Body(m, src, want)) <= Len(Body(m, src, want)')
        /\ \A i \in 1 .. Len(Body(m, src, want)) :
             Body(m, src, want)[i] = (Body(m, src, want)')[i]
    BY <2>3, PrefixByIndex
  <2>5. IsPrefix(Content(Body(m, src, want)), Content(Body(m, src, want)'))
    BY <2>3, <2>4, ContentPrefix
  <2> QED BY <2>1, <2>5
<1> QED BY <1>5, <1>6

LEMMA SamePrefix == \A s, t : M!IsPrefix(s, t) <=> IsPrefix(s, t)
  BY DEF M!IsPrefix, IsPrefix

LEMMA CopiesTyped ==
  ASSUME Inv, NEW k \in Links
  PROVE  /\ Copy(k) \in Seq({ContentOf[r] : r \in RowType})
         /\ Origin(k) \in Seq({ContentOf[r] : r \in RowType})
<1>1. log \in [Node -> Seq(RowType)] /\ k[2] \in Node
  BY LinkParts DEF Inv, RowsOK
<1>2. Copy(k) \in Seq({ContentOf[r] : r \in RowType})
  BY <1>1, CopyIs, ContentProperties
<1> DEFINE rows == log[k[2]]
<1>3. Origin(k) = Content(Pick(rows,
        {i \in DOMAIN rows : rows[i].src = <<k[3]>> /\ Permits(rows[i].level, k[4])}))
  BY DEF Origin, Body, Carried
<1>4. rows \in Seq(RowType)
  BY <1>1
<1> HIDE DEF rows
<1>5. Filter(rows, Permitted(<<k[3]>>, k[4])) \in Seq(RowType)
  BY <1>4, FilterType
<1> DEFINE f == Filter(rows, Permitted(<<k[3]>>, k[4]))
<1>6. Origin(k) = Content(f)
  BY <1>3, <1>4, BodyIsFilter
<1> HIDE DEF f
<1>7. Content(f) \in Seq({ContentOf[r] : r \in RowType})
  BY <1>5, ContentProperties DEF f
<1> QED BY <1>2, <1>6, <1>7

\* The same of the state a step leads to.
LEMMA OriginTyped ==
  ASSUME log' \in [Node -> Seq(RowType)], NEW k \in Links
  PROVE  Origin(k)' \in Seq({ContentOf[r] : r \in RowType})
<1> DEFINE rows == log'[k[2]]
<1>1. rows \in Seq(RowType)
  BY LinkParts
<1>2. Origin(k)' = Content(Pick(rows,
        {i \in DOMAIN rows : rows[i].src = <<k[3]>> /\ Permits(rows[i].level, k[4])}))
  BY DEF Origin, Body, Carried, Content
<1> HIDE DEF rows
<1>3. Filter(rows, Permitted(<<k[3]>>, k[4])) \in Seq(RowType)
  BY <1>1, FilterType
<1> DEFINE f == Filter(rows, Permitted(<<k[3]>>, k[4]))
<1>4. Origin(k)' = Content(f)
  BY <1>2, <1>1, BodyIsFilter
<1> HIDE DEF f
<1>5. Content(f) \in Seq({ContentOf[r] : r \in RowType})
  BY <1>3, ContentProperties DEF f
<1> QED BY <1>4, <1>5

LEMMA StillFollows ==
  ASSUME log' = log
  PROVE  \A k \in Links : Copy(k)' = Copy(k) /\ Origin(k)' = Origin(k)
  BY DEF Copy, Origin, Body, Carried, Content

\* A step of the bundles is a step of their mirror, or none.
LEMMA FollowsStep ==
  ASSUME Inv, NamesApart, OneLevel, Apart, CopiesOK, [Next]_vars
  PROVE  \/ /\ \A k \in Links : Copy(k)' = Copy(k)
            /\ \A k \in Links : IsPrefix(Origin(k), Origin(k)')
         \/ /\ \A k \in Links : Origin(k)' = Origin(k)
            /\ \A k \in Links : IsPrefix(Copy(k), Copy(k)') /\ IsPrefix(Copy(k)', Origin(k))
         \/ \A k \in Links : Copy(k)' = Copy(k) /\ Origin(k)' = Origin(k)
<1>1. ASSUME NEW n \in Node, NEW s \in Own[n], NEW l \in Locator, NEW v \in Version \cup {Gone},
             NEW e \in ScanLevels, Observe(n, <<s>>, l, v, e)
      PROVE  \A k \in Links : Copy(k)' = Copy(k) /\ IsPrefix(Origin(k), Origin(k)')
  BY <1>1, ObserveFollows
<1>2. ASSUME NEW n \in Node, NEW p \in Process, AppendBundle(n, p)
      PROVE  \A k \in Links : /\ Origin(k)' = Origin(k)
                              /\ IsPrefix(Copy(k), Copy(k)') /\ IsPrefix(Copy(k)', Origin(k))
  BY <1>2, AppendFollows
<1>3. CASE log' = log
  BY <1>3, StillFollows
<1>4. ASSUME log' # log
      PROVE  \/ \E n \in Node, s \in STRING, l \in Locator, v \in Version \cup {Gone}, e \in ScanLevels :
                  s \in Own[n] /\ Observe(n, <<s>>, l, v, e)
             \/ \E n \in Node, p \in Process : AppendBundle(n, p)
  BY <1>4, LogChanges
<1> QED BY <1>1, <1>2, <1>3, <1>4

LEMMA CopiesStep ==
  ASSUME Inv, NamesApart, OneLevel, Apart, CopiesOK, [Next]_vars
  PROVE  CopiesOK'
<1>1. Inv'
  BY NextInv
<1>2. ASSUME NEW k \in Links PROVE IsPrefix(Copy(k)', Origin(k)')
  <2> DEFINE X == {ContentOf[r] : r \in RowType}
  <2>1. /\ Copy(k) \in Seq(X) /\ Origin(k) \in Seq(X) /\ IsPrefix(Copy(k), Origin(k))
    BY CopiesTyped DEF CopiesOK
  <2>2. Origin(k)' \in Seq(X)
    BY <1>1, OriginTyped DEF Inv, RowsOK
  <2> HIDE DEF X
  <2>3. CASE Copy(k)' = Copy(k) /\ IsPrefix(Origin(k), Origin(k)')
    BY <2>1, <2>2, <2>3, PrefixTransitive
  <2>4. CASE Origin(k)' = Origin(k) /\ IsPrefix(Copy(k)', Origin(k))
    BY <2>4
  <2>5. CASE Copy(k)' = Copy(k) /\ Origin(k)' = Origin(k)
    BY <2>1, <2>5
  <2> QED BY <2>3, <2>4, <2>5, FollowsStep
<1> QED BY <1>2 DEF CopiesOK

\* Every receiver's copy of every source of every sender is at each moment a
\* prefix of what the sender may hand over and grows along it (module Mirror):
\* of Gysts none of which exports while it imports and no two of which call a
\* source alike, with bundles made for one level of egress.  It is Export's
\* order by seq, the digest over the body, and the transaction of AppendBundle
\* that make it so.
THEOREM FollowsSenderApart ==
  ASSUME NamesApart, OneLevel, Apart
  PROVE  Spec => FollowsSender
<1>1. Init => M!Init /\ CopiesOK
  <2> SUFFICES ASSUME Init PROVE M!Init /\ CopiesOK
    OBVIOUS
  <2>1. log \in [Node -> Seq(RowType)] /\ \A n \in Node : log[n] = <<>>
    BY InitInv DEF Init, Inv, RowsOK
  <2>2. ASSUME NEW k \in Links PROVE Copy(k) = <<>> /\ Origin(k) = <<>>
    <3>1. k[1] \in Node /\ k[2] \in Node
      BY LinkParts
    <3>2. Content(<<>>) = <<>>
      BY DEF Content
    <3>3. \A wanted : Pick(<<>>, wanted) = <<>>
      BY PickOfNothing
    <3> QED BY <2>1, <3>1, <3>2, <3>3 DEF Copy, Origin, Body
  <2>3. IsPrefix(<<>>, <<>>)
    BY PrefixReflexive, EmptySeq
  <2> QED BY <2>2, <2>3 DEF M!Init, CopiesOK
<1>2. Inv /\ CopiesOK /\ [Next]_vars => CopiesOK'
  BY CopiesStep
<1>3. Inv /\ CopiesOK /\ [Next]_vars
        => [M!Next]_<<[k \in Links |-> Origin(k)], [k \in Links |-> Copy(k)]>>
  <2> SUFFICES ASSUME Inv, CopiesOK, [Next]_vars
               PROVE  M!Next \/ UNCHANGED <<[k \in Links |-> Origin(k)], [k \in Links |-> Copy(k)]>>
    OBVIOUS
  <2> DEFINE origin == [k \in Links |-> Origin(k)]
             copy == [k \in Links |-> Copy(k)]
  <2>1. (\A k \in Links : Copy(k)' = Copy(k)) => copy' = copy
    OBVIOUS
  <2>2. (\A k \in Links : Origin(k)' = Origin(k)) => origin' = origin
    OBVIOUS
  <2>3. /\ \A k \in Links : origin[k] = Origin(k) /\ copy[k] = Copy(k)
        /\ \A k \in Links : origin'[k] = Origin(k)' /\ copy'[k] = Copy(k)'
    OBVIOUS
  <2>4. CASE /\ \A k \in Links : Copy(k)' = Copy(k)
             /\ \A k \in Links : IsPrefix(Origin(k), Origin(k)')
    <3>1. M!Record
      BY <2>1, <2>3, <2>4, SamePrefix DEF M!Record
    <3> QED BY <3>1 DEF M!Next
  <2>5. CASE /\ \A k \in Links : Origin(k)' = Origin(k)
             /\ \A k \in Links : IsPrefix(Copy(k), Copy(k)') /\ IsPrefix(Copy(k)', Origin(k))
    <3>1. M!CatchUp
      BY <2>2, <2>3, <2>5, SamePrefix DEF M!CatchUp
    <3> QED BY <3>1 DEF M!Next
  <2>6. CASE \A k \in Links : Copy(k)' = Copy(k) /\ Origin(k)' = Origin(k)
    BY <2>1, <2>2, <2>6
  <2> QED BY <2>4, <2>5, <2>6, FollowsStep
<1> QED BY <1>1, <1>2, <1>3, InvAlways, PTL DEF Spec, FollowsSender, M!Spec
=============================================================================
