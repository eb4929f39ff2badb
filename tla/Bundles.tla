------------------------------ MODULE Bundles ------------------------------
(***************************************************************************)
(* Observations as messages between Gysts: internal/bundle with the part   *)
(* of internal/store it writes, and the commands gyst export and import.   *)
(*                                                                         *)
(* A bundle is a file: it can be lost, kept, cut short, imported late,     *)
(* twice, by several receivers and in any order.  Export and import are a  *)
(* transaction per statement and can stop after each of them; commands of  *)
(* one Gyst run beside each other, as many as there are processes.         *)
(*                                                                         *)
(* A source id is the sequence of its path: <<"eng">> at home,             *)
(* <<"alice", "eng">> once it has been imported from alice.                *)
(***************************************************************************)
EXTENDS Naturals, Sequences, FiniteSets, SequencesExt, Filters

CONSTANTS
  Node,        \* Gysts; a node's name is the id of its signing key
  Process,     \* export, import and trust commands a Gyst can run at once
  Own,         \* the sources a node scans itself, by name
  Hands,       \* <<sender, receiver>>: who gives bundles to whom
  Locator,     \* files of a source
  Version,     \* native versions of a file
  Gone,        \* the file is not there
  ScanLevels,  \* egress levels scans are run with
  DestLevels,  \* egress levels exports are made for
  MaxObs,      \* bound: observations a node makes
  MaxExports,  \* bound: bundles written
  MaxKeys      \* bound: keys generated under one sender id

Level == {"device", "facility", "connected-server"}

ASSUME BundlesAssumption ==
  /\ Node \subseteq STRING
  /\ Own \in [Node -> SUBSET STRING]
  /\ \A n \in Node : IsFiniteSet(Own[n])
  /\ Hands \subseteq {h \in Node \X Node : h[1] # h[2]}
  /\ Gone \notin Version
  /\ ScanLevels \subseteq Level /\ DestLevels \subseteq Level
  /\ MaxObs \in Nat /\ MaxExports \in Nat /\ MaxKeys \in Nat \ {0}

\* The keys generated under one sender id, in the order they were generated.
Key == 1 .. MaxKeys

NoKey == 0  \* "sender not known"

VARIABLES
  log,         \* observations of a node, in seq order
  registered,  \* sources: the ids a node knows
  marked,      \* sources.imported_from: those it knows to be another's
  trusted,     \* trusted_keys of a node, by sender
  key,         \* the key a node signs with
  bundles,     \* bundle files there are
  received,    \* the table bundles of a node
  run          \* what each process of a node is doing

vars == <<log, registered, marked, trusted, key, bundles, received, run>>

Idle == [pc |-> "idle"]

Init ==
  /\ log = [n \in Node |-> <<>>]
  /\ registered = [n \in Node |-> {<<s>> : s \in Own[n]}]
  /\ marked = [n \in Node |-> {}]
  /\ trusted = [n \in Node |-> [m \in Node |-> NoKey]]
  /\ key = [n \in Node |-> 1]
  /\ bundles = {}
  /\ received = [n \in Node |-> {}]
  /\ run = [n \in Node |-> [p \in Process |-> Idle]]

(***************************************************************************)
(* Rows.  id is everything DeriveID and TombstoneID hash: the source as    *)
(* its observer names it, the file, its version and the seq superseded.    *)
(* by and under (the observer, and the key a row arrived under) are        *)
(* history, nothing decides by them.                                       *)
(***************************************************************************)
Ids(rows) == {rows[i].id : i \in DOMAIN rows}

Prior(n, src, l) ==
  LET seqs == {i \in DOMAIN log[n] : log[n][i].src = src /\ log[n][i].loc = l}
      last == CHOOSE i \in seqs : \A j \in seqs : j <= i
  IN  IF seqs = {} \/ (seqs # {} /\ log[n][last].ver = Gone) THEN 0 ELSE last

FileObs(n, src, l, v, level) ==
  [id |-> <<src, l, v, Prior(n, src, l)>>, src |-> src, loc |-> l, ver |-> v,
   level |-> level, by |-> n, under |-> NoKey]

\* A scan of one of the node's own sources finds a file new, changed or gone.
Observe(n, src, l, v, level) ==
  LET p == Prior(n, src, l)
      o == FileObs(n, src, l, v, level)
  IN  /\ Cardinality({i \in DOMAIN log[n] : log[n][i].by = n}) < MaxObs
      /\ IF p = 0 THEN v # Gone ELSE log[n][p].ver # v
      /\ o.id \notin Ids(log[n])
      /\ log' = [log EXCEPT ![n] = Append(@, o)]
      /\ UNCHANGED <<registered, marked, trusted, key, bundles, received, run>>

\* key init, after the old key file was lost; of a Gyst that scans, for only its
\* rows are ever recorded with a key.
NewKey(n) ==
  /\ key[n] < MaxKeys
  /\ Own[n] # {}
  /\ key' = [key EXCEPT ![n] = @ + 1]
  /\ UNCHANGED <<log, registered, marked, trusted, bundles, received, run>>

(***************************************************************************)
(* Export.                                                                 *)
(***************************************************************************)
Rank(level) ==
  CASE level = "device" -> 0 [] level = "facility" -> 1 [] OTHER -> 2

Permits(have, want) == Rank(have) >= Rank(want)

\* Mutant: forgets that an imported source is another's.
Local_Registered(n) == registered[n]

\* The sources a node may hand over: what it did not itself receive.
Local(n) == registered[n] \ marked[n]

\* The rows of a source that egress lets through for want.
Carried(n, src, want) ==
  {i \in DOMAIN log[n] : log[n][i].src = src /\ Permits(log[n][i].level, want)}

\* Mutant: no ORDER BY seq, here newest first.
Body_NewestFirst(n, src, want) == Reverse(Pick(log[n], Carried(n, src, want)))

\* What a bundle carries of a source: its rows as they went in, in log order,
\* less those that egress withholds.
Body(n, src, want) == Pick(log[n], Carried(n, src, want))

At(n, p, pc) == run[n][p].pc = pc

\* Goto: a process goes on with what it has at hand.
Goto(n, p, pc) == run' = [run EXCEPT ![n][p].pc = pc]

\* The key is loaded, the sources are read and chosen: all a node may hand over,
\* or some of them, by name.
BeginExport(n, p, want, srcs) ==
  /\ At(n, p, "idle")
  /\ Cardinality(bundles) < MaxExports
  /\ srcs \subseteq Local(n)
  /\ srcs = {} => Local(n) = {}
  /\ run' = [run EXCEPT ![n][p] =
       [pc |-> "export", level |-> want, key |-> key[n], sources |-> srcs,
        left |-> srcs, body |-> <<>>]]
  /\ UNCHANGED <<log, registered, marked, trusted, key, bundles, received>>

\* One query per source, each of the log as it is by then.
ReadSource(n, p, src) ==
  LET r == run[n][p]
  IN  /\ At(n, p, "export")
      /\ src \in r.left
      /\ run' = [run EXCEPT ![n][p] =
           [r EXCEPT !.body = @ \o Body(n, src, r.level), !.left = @ \ {src}]]
      /\ UNCHANGED <<log, registered, marked, trusted, key, bundles, received>>

\* Finish: the header with the digest of the body, signed.
Bundle(n, r) ==
  [sender |-> n, key |-> r.key, level |-> r.level, sources |-> r.sources,
   body |-> r.body, digest |-> r.body]

FinishExport(n, p) ==
  /\ At(n, p, "export")
  /\ run[n][p].left = {}
  /\ Cardinality(bundles) < MaxExports
  /\ bundles' = bundles \cup {Bundle(n, run[n][p])}
  /\ run' = [run EXCEPT ![n][p] = Idle]
  /\ UNCHANGED <<log, registered, marked, trusted, key, received>>

\* A bundle file is cut short: its writer was killed, or a copy of it was.
Truncate(b) ==
  /\ Cardinality(bundles) < MaxExports
  /\ Len(b.body) > 0
  /\ bundles' = bundles \cup {[b EXCEPT !.body = SubSeq(@, 1, Len(@) - 1)]}
  /\ UNCHANGED <<log, registered, marked, trusted, key, received, run>>

\* Mutant: the digest is not compared.
Verified_Unchecked(b) == TRUE

(***************************************************************************)
(* Import.                                                                 *)
(***************************************************************************)
\* The body digest, which the signature covers.
Verified(b) == b.body = b.digest

\* Mutant: a known sender's key is not compared with the one it has now.
BeginImport_AnyKey(n, p, b) ==
  /\ At(n, p, "idle")
  /\ Verified(b)
  /\ run' = [run EXCEPT ![n][p] =
       [pc |-> IF trusted[n][b.sender] = NoKey THEN "trust" ELSE "register",
        bundle |-> b, left |-> b.sources]]
  /\ UNCHANGED <<log, registered, marked, trusted, key, bundles, received>>

\* Read, TrustedKeyOf, and the decision: a sender known under another key is
\* refused, one not known is trusted when the person importing says so.
BeginImport(n, p, b) ==
  /\ At(n, p, "idle")
  /\ Verified(b)
  /\ trusted[n][b.sender] \in {b.key, NoKey}
  /\ run' = [run EXCEPT ![n][p] =
       [pc |-> IF trusted[n][b.sender] = NoKey THEN "trust" ELSE "register",
        bundle |-> b, left |-> b.sources]]
  /\ UNCHANGED <<log, registered, marked, trusted, key, bundles, received>>

\* TrustKey: a sender that has become known meanwhile keeps its key.
TrustKey(n, p) ==
  LET b == run[n][p].bundle
  IN  /\ At(n, p, "trust")
      /\ trusted' = [trusted EXCEPT ![n][b.sender] = IF @ = NoKey THEN b.key ELSE @]
      /\ Goto(n, p, "register")
      /\ UNCHANGED <<log, registered, marked, key, bundles, received>>

\* gyst trust add, a command of one statement: a person enters the sender's
\* present key, at any moment a process of the Gyst is free to.
TrustAdd(n, p, m) ==
  /\ At(n, p, "idle")
  /\ trusted[n][m] = NoKey
  /\ trusted' = [trusted EXCEPT ![n][m] = key[m]]
  /\ UNCHANGED <<log, registered, marked, key, bundles, received, run>>

\* Namespace: what a source of the sender is called here.
Named(sender, src) == <<sender>> \o src

RegisterSource(n, p, src) ==
  LET r == run[n][p]
  IN  /\ At(n, p, "register")
      /\ src \in r.left
      /\ registered' = [registered EXCEPT ![n] = @ \cup {Named(r.bundle.sender, src)}]
      /\ run' = [run EXCEPT ![n][p] = [r EXCEPT !.pc = "mark", !.left = @ \ {src}]]
      /\ UNCHANGED <<log, marked, trusted, key, bundles, received>>

\* Mutant: the mark goes to the sender's name of the source.
MarkImported_Unnamed(n, p) ==
  /\ At(n, p, "mark")
  /\ marked' = [marked EXCEPT ![n] = @ \cup (run[n][p].bundle.sources \ run[n][p].left)]
  /\ Goto(n, p, "register")
  /\ UNCHANGED <<log, registered, trusted, key, bundles, received>>

MarkImported(n, p) ==
  LET b == run[n][p].bundle
  IN  /\ At(n, p, "mark")
      /\ marked' = [marked EXCEPT ![n] =
           @ \cup {Named(b.sender, s) : s \in b.sources \ run[n][p].left}]
      /\ Goto(n, p, "register")
      /\ UNCHANGED <<log, registered, trusted, key, bundles, received>>

\* An observation as the receiver keeps it: renamed, under its old id.
Namespaced(b) ==
  [i \in DOMAIN b.body |->
     [b.body[i] EXCEPT !.src = Named(b.sender, @), !.under = b.key]]

\* Rows whose id is in the log already are dropped without an error.
NewRows(rows, known) == Pick(rows, {i \in DOMAIN rows : rows[i].id \notin known})

AppendBundle(n, p) ==
  /\ At(n, p, "register")
  /\ run[n][p].left = {}
  /\ log' = [log EXCEPT ![n] = @ \o NewRows(Namespaced(run[n][p].bundle), Ids(@))]
  /\ Goto(n, p, "record")
  /\ UNCHANGED <<registered, marked, trusted, key, bundles, received>>

RecordBundle(n, p) ==
  /\ At(n, p, "record")
  /\ received' = [received EXCEPT ![n] = @ \cup {run[n][p].bundle}]
  /\ run' = [run EXCEPT ![n][p] = Idle]
  /\ UNCHANGED <<log, registered, marked, trusted, key, bundles>>

\* A kill or an error between two statements; what they wrote stays.
Abandon(n, p) ==
  /\ ~ At(n, p, "idle")
  /\ run' = [run EXCEPT ![n][p] = Idle]
  /\ UNCHANGED <<log, registered, marked, trusted, key, bundles, received>>

Next ==
  \/ \E n \in Node : \E s \in Own[n], l \in Locator, v \in Version \cup {Gone}, e \in ScanLevels :
       Observe(n, <<s>>, l, v, e)
  \/ \E n \in Node : NewKey(n)
  \/ \E b \in bundles : Truncate(b)
  \/ \E p \in Process :
       \/ \E h \in Hands : TrustAdd(h[2], p, h[1])
       \/ \E h \in Hands, e \in DestLevels :
            \E srcs \in SUBSET Local(h[1]) : BeginExport(h[1], p, e, srcs)
       \/ \E h \in Hands, b \in bundles : h[1] = b.sender /\ BeginImport(h[2], p, b)
       \/ \E n \in Node :
            \/ \E src \in registered[n] : ReadSource(n, p, src)
            \/ FinishExport(n, p)
            \/ TrustKey(n, p)
            \/ \E src \in UNION {b.sources : b \in bundles} : RegisterSource(n, p, src)
            \/ MarkImported(n, p)
            \/ AppendBundle(n, p)
            \/ RecordBundle(n, p)
            \/ Abandon(n, p)

Spec == Init /\ [][Next]_vars

-----------------------------------------------------------------------------
(***************************************************************************)
(* Properties.                                                             *)
(***************************************************************************)
RowType ==
  [id : Seq(STRING) \X Locator \X (Version \cup {Gone}) \X Nat, src : Seq(STRING),
   loc : Locator, ver : Version \cup {Gone}, level : Level, by : Node,
   under : Key \cup {NoKey}]

\* The state is well typed.  No id is in a log twice, only a registered source
\* is marked, and a source is registered before a row of it is appended.
TypeOK ==
  /\ log \in [Node -> Seq(RowType)]
  /\ \A n \in Node :
       /\ \A i, j \in DOMAIN log[n] : log[n][i].id = log[n][j].id => i = j
       /\ \A i \in DOMAIN log[n] : log[n][i].src \in registered[n]
       /\ marked[n] \subseteq registered[n]
       /\ trusted[n] \in [Node -> Key \cup {NoKey}]
       /\ received[n] \subseteq bundles
       /\ \A p \in Process :
            LET r == run[n][p]
            IN  \/ r = Idle
                \/ /\ r.pc = "export"
                   /\ r.left \subseteq r.sources /\ r.sources \subseteq registered[n]
                   /\ ToSet(r.body) \subseteq ToSet(log[n])
                \/ /\ r.pc \in {"trust", "register", "mark", "record"}
                   /\ r.bundle \in bundles /\ r.left \subseteq r.bundle.sources
  /\ key \in [Node -> Key]

\* A bundle carries nothing but what its sender has observed itself, and a row
\* in a log is filed under the name of who observed it, also when imports stop
\* between registering a source and marking it (transfer.go, Export: "a bundle
\* carries what this Gyst observed").
Attributed ==
  /\ \A b \in bundles : \A i \in DOMAIN b.digest : b.digest[i].by = b.sender
  /\ \A n \in Node : \A i \in DOMAIN log[n] :
       LET r == log[n][i]
       IN  IF r.by = n THEN Len(r.src) = 1 ELSE Len(r.src) = 2 /\ r.src[1] = r.by

\* What a receiver has from one sender all came under one key (transfer.go,
\* ErrKeyChanged), although bundles signed with an earlier key may arrive after
\* those signed with a later one.
OneKey ==
  \A n \in Node : \A i, j \in DOMAIN log[n] :
    log[n][i].by = log[n][j].by => log[n][i].under = log[n][j].under

\* A bundle whose receipt is recorded has arrived whole: every observation its
\* sender signed is in the receiver's log under the sender's name, whatever
\* was imported before or broken off (bundle.go, Namespace).
NoneLost ==
  \A n \in Node : \A b \in received[n] : \A i \in DOMAIN b.digest :
    \E j \in DOMAIN log[n] :
      /\ log[n][j].id = b.digest[i].id
      /\ log[n][j].src = Named(b.sender, b.digest[i].src)

Content(rows) == [i \in DOMAIN rows |-> <<rows[i].id, rows[i].level>>]

\* A link: a receiver, a sender, one of its sources, the egress exported for.
Links ==
  {<<h[2], h[1], s, want>> : h \in Hands, s \in UNION {Own[n] : n \in Node}, want \in DestLevels}

\* What the sender may hand over of the source, and what the receiver has of it.
Origin(k) == Content(Body(k[2], <<k[3]>>, k[4]))

Copy(k) ==
  LET rows == log[k[1]]
  IN  Content(Pick(rows, {i \in DOMAIN rows : rows[i].src = <<k[2], k[3]>>}))

M == INSTANCE Mirror WITH
  Link <- Links,
  origin <- [k \in Links |-> Origin(k)],
  copy <- [k \in Links |-> Copy(k)]

\* While a sender exports for one level of egress only, every receiver's copy
\* of each of its sources is a prefix of the sender's own log of it and grows
\* along it, whichever bundles are lost, repeated, cut short, overtaken or
\* broken off during import.
FollowsSender == M!Spec
=============================================================================
