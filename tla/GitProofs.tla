----------------------------- MODULE GitProofs -----------------------------
(***************************************************************************)
(* Proofs about module Git, for every history, however it is rewritten,    *)
(* and every number of commands.                                           *)
(***************************************************************************)
EXTENDS Git, TLAPS, FiniteSetTheorems, SequenceTheorems, WellFoundedInduction

-----------------------------------------------------------------------------
(* Histories.                                                              *)

LEMMA ReachParents ==
  ASSUME NEW c, NEW d \in Reach(c)
  PROVE  Parents[d] \subseteq Reach(c)
<1>1. Parents[d] \subseteq Commit
  BY GitAssumption DEF Reach
<1> QED BY <1>1 DEF Reach, Closed

LEMMA ReachSelf == \A c \in Commit : c \in Reach(c)
  BY GitAssumption DEF Reach, Closed, None

\* Ancestors of an ancestor are ancestors.
LEMMA ReachTransitive ==
  ASSUME NEW c, NEW d \in Reach(c)
  PROVE  Reach(d) \subseteq Reach(c)
  BY DEF Reach, Closed

\* A set of numbers that is not empty has a least one.
LEMMA NatMin ==
  ASSUME NEW S, S \subseteq Nat, S # {}
  PROVE  \E m \in S : \A n \in S : m <= n
<1> DEFINE R == {ss \in Nat \X Nat : ss[1] < ss[2]}
<1>1. IsWellFoundedOn(R, Nat)
  BY NatLessThanWellFounded DEF OpToRel
<1>2. PICK m \in S : \A n \in S : ~(<<n, m>> \in R)
  <2> HIDE DEF R
  <2> QED BY <1>1, WFMin
<1>3. ASSUME NEW n \in S, ~(m <= n) PROVE FALSE
  <2>1. m \in Nat /\ n \in Nat
    OBVIOUS
  <2>2. <<n, m>> \in R
    BY <1>3, <2>1, SMT
  <2> QED BY <2>2, <1>2
<1> QED BY <1>3

\* A finite set of numbers that is not empty has a greatest one: that with the
\* fewest above it.
LEMMA HasNewest ==
  ASSUME NEW S, IsFiniteSet(S), S \subseteq Nat, S # {}
  PROVE  Newest(S) \in S /\ \A d \in S : d <= Newest(S)
<1> DEFINE Above(c) == {d \in S : d > c}
           Counts == {Cardinality(Above(c)) : c \in S}
<1>1. \A c \in S : IsFiniteSet(Above(c)) /\ Cardinality(Above(c)) \in Nat
  <2>1. \A c \in S : Above(c) \in SUBSET S
    OBVIOUS
  <2>2. \A c \in S : IsFiniteSet(Above(c))
    <3> HIDE DEF Above
    <3> QED BY <2>1, FS_Subset
  <2> HIDE DEF Above
  <2> QED BY <2>2, FS_CardinalityType
<1>2. PICK c \in S : \A d \in S : Cardinality(Above(c)) <= Cardinality(Above(d))
  <2>1. Counts \subseteq Nat /\ Counts # {}
    <3> HIDE DEF Above
    <3> QED BY <1>1
  <2>2. PICK m \in Counts : \A n \in Counts : m <= n
    <3> HIDE DEF Counts
    <3> QED BY <2>1, NatMin
  <2> HIDE DEF Above
  <2> QED BY <2>2
<1>3. ASSUME NEW d \in S, d > c PROVE FALSE
  <2>1. Above(d) \in SUBSET Above(c) /\ d \in Above(c) /\ d \notin Above(d)
    <3>1. c \in Nat /\ d \in Nat /\ \A e \in S : e \in Nat
      OBVIOUS
    <3>2. d > c /\ ~ d > d /\ \A e \in S : e > d => e > c
      BY <1>3, <3>1, SMT
    <3> QED BY <3>2
  <2>2. Cardinality(Above(d)) <= Cardinality(Above(c))
        /\ (Cardinality(Above(c)) = Cardinality(Above(d)) => Above(c) = Above(d))
    <3> HIDE DEF Above
    <3> QED BY <1>1, <2>1, FS_Subset
  <2>3. Cardinality(Above(c)) <= Cardinality(Above(d))
    BY <1>2
  <2>4. Above(c) = Above(d)
    <3> HIDE DEF Above
    <3> QED BY <1>1, <2>2, <2>3, SMT
  <2> QED BY <2>1, <2>4
<1>4. \A d \in S : d <= c
  BY <1>3, SMT
<1> QED BY <1>4 DEF Newest

LEMMA WalkListed ==
  ASSUME NEW from, NEW head, NEW cap
  PROVE  Walk(from, head, cap) \subseteq Listed(from, head) /\ Listed(from, head) \subseteq Commit
  BY DEF Walk, Listed, Reach

\* A walk that emits fewer commits than its cap has emitted all there are.
LEMMA WalkUncut ==
  ASSUME NEW from, NEW head, NEW cap \in Nat, Cardinality(Walk(from, head, cap)) < cap
  PROVE  Walk(from, head, cap) = Listed(from, head)
<1> DEFINE all == Listed(from, head)
           W == Walk(from, head, cap)
           left == all \ W
<1>1. IsFiniteSet(all) /\ IsFiniteSet(W) /\ IsFiniteSet(left) /\ all \subseteq Nat
  <2>1. all \in SUBSET Commit /\ W \in SUBSET Commit /\ left \in SUBSET Commit
    BY WalkListed
  <2> QED BY <2>1, GitAssumption, FS_Subset
<1>2. SUFFICES ASSUME left # {} PROVE FALSE
  BY WalkListed
<1>3. Newest(left) \in left /\ \A d \in left : d <= Newest(left)
  <2>1. left \subseteq Nat
    BY <1>1
  <2> HIDE DEF left
  <2> QED BY <1>1, <1>2, <2>1, HasNewest
<1>4. PICK c \in left : \A d \in left : d <= c
  BY <1>3
<1> DEFINE above == {d \in all : d > c}
<1>5. above \in SUBSET W
  BY <1>1, <1>4, SMT
<1>6. Cardinality(above) <= Cardinality(W)
  <2> HIDE DEF above, W
  <2> QED BY <1>1, <1>5, FS_Subset
<1>7. IsFiniteSet(above)
  <2> HIDE DEF above, W
  <2> QED BY <1>1, <1>5, FS_Subset
<1>8. Cardinality(above) \in Nat /\ Cardinality(W) \in Nat
  <2> HIDE DEF above, W
  <2> QED BY <1>1, <1>7, FS_CardinalityType
<1>9. Cardinality(above) < cap
  <2> HIDE DEF above
  <2> QED BY <1>6, <1>8, SMT
<1>10. c \in W
  BY <1>9 DEF Walk
<1> QED BY <1>10

-----------------------------------------------------------------------------
(* Type correctness.                                                       *)

PassType ==
  [status : {"running", "interrupted", "complete", "partial"}, head : Commit \cup {None}, cut : BOOLEAN]

\* Commands that have begun a pass and not finished it.
Walking == {"walk", "append", "cursor", "finish"}

WalkType ==
  [pc : {"begin"} \cup Walking, ref : Ref, cap : Nat, resume : BOOLEAN,
   cursor : Commit \cup {None}, pass : Nat, emitted : SUBSET Commit,
   steady : SUBSET File, due : SUBSET Commit]

ReadType ==
  [pc : {"read", "files", "write"}, rows : SUBSET Commit, files : SUBSET File,
   steady : SUBSET File, due : SUBSET Commit]

RepoOK ==
  /\ objects \subseteq Commit /\ refs \in [Ref -> Commit \cup {None}]
  /\ \A c \in objects : Parents[c] \subseteq objects
  /\ present \subseteq File

StoreOK ==
  /\ log \subseteq Commit
  /\ cursor \in log \cup {None}
  /\ \A c \in log : Cardinality(Parents[c]) < 2
  /\ passes \in Seq(PassType)

TablesOK ==
  /\ commits \subseteq log
  /\ contains \subseteq commits \X (File \ Dotted)

\* A command's cursor has been observed, what its walk emitted is not a merge and
\* is in the log once appended, and its pass is one of its own, not concluded.
WalkOK(p) ==
  /\ run[p].pc \in {"begin"} \cup Walking =>
       /\ run[p].cursor \in log \cup {None}
       /\ ~ run[p].resume => run[p].cursor = None
  /\ run[p].pc \in Walking =>
       /\ run[p].pass \in DOMAIN passes
       /\ passes[run[p].pass].status # "complete"
  /\ run[p].pc \in Walking \ {"walk"} =>
       \A c \in run[p].emitted : Cardinality(Parents[c]) < 2
  /\ run[p].pc \in {"cursor", "finish"} => run[p].emitted \subseteq log

ReadOK(p) ==
  /\ run[p].pc \in {"cursor", "finish", "read", "files", "write"} => run[p].due \subseteq log
  /\ run[p].pc \in {"files", "write"} => run[p].due \subseteq run[p].rows /\ run[p].rows \subseteq log

OwnPass ==
  \A p, q \in Process :
    p # q /\ run[p].pc \in Walking /\ run[q].pc \in Walking => run[p].pass # run[q].pass

RunType == {Idle} \cup WalkType \cup ReadType

TypeInv ==
  /\ RepoOK
  /\ StoreOK
  /\ TablesOK
  /\ run \in [Process -> RunType]
  /\ \A p \in Process : WalkOK(p) /\ ReadOK(p)
  /\ OwnPass

LEMMA NewestEmitted ==
  ASSUME NEW S, S \subseteq Commit, S # {}
  PROVE  Newest(S) \in S
<1>1. IsFiniteSet(S) /\ S \subseteq Nat
  BY GitAssumption, FS_Subset
<1> QED BY <1>1, HasNewest

LEMMA TypeInvInit == Init => TypeInv
  BY DEF Init, TypeInv, RepoOK, StoreOK, TablesOK, WalkOK, ReadOK, OwnPass, RunType, Walking, Idle, None

\* What a command that is not p has to itself stays in order when the log grows and
\* no pass but that of p is concluded.
LEMMA OthersStay ==
  ASSUME TypeInv, NEW p \in Process, NEW q \in Process \ {p},
         run'[q] = run[q], log \subseteq log',
         \A k \in DOMAIN passes : /\ k \in DOMAIN passes'
                                  /\ \/ passes'[k].status = passes[k].status
                                     \/ passes'[k].status = "interrupted"
                                     \/ run[p].pc \in Walking /\ run[p].pass = k
  PROVE  WalkOK(q)' /\ ReadOK(q)'
<1>1. WalkOK(q) /\ ReadOK(q)
  BY DEF TypeInv
<1>2. run[q].pc \in Walking => passes'[run[q].pass].status # "complete"
  BY <1>1 DEF WalkOK, TypeInv, OwnPass
<1>3. WalkOK(q)'
  BY <1>1, <1>2 DEF WalkOK
<1> QED BY <1>1, <1>3 DEF ReadOK

SameButSteady(w, x) ==
  /\ x.pc = w.pc
  /\ w.pc \in {"begin"} \cup Walking =>
       /\ x.cursor = w.cursor /\ x.resume = w.resume /\ x.pass = w.pass
       /\ x.emitted = w.emitted /\ x.cap = w.cap /\ x.due = w.due
  /\ w.pc \in {"read", "files", "write"} =>
       x.due = w.due /\ x.rows = w.rows /\ x.files = w.files

\* A file that comes or goes changes nothing in a command but what is steady.
LEMMA ScannedKeeps ==
  ASSUME TypeInv, NEW f \in File, Scanned(f), NEW p \in Process
  PROVE  /\ run'[p] \in RunType /\ SameButSteady(run[p], run'[p])
         /\ run[p].pc # "idle" => run'[p].steady = run[p].steady \ {f}
<1> USE DEF Scanned, SameButSteady
<1>0. run[p] \in RunType
  BY DEF TypeInv
<1>1. CASE run[p] = Idle
  BY <1>1 DEF RunType, Idle, Walking
<1>2. CASE run[p] \in WalkType
  BY <1>2 DEF RunType, WalkType, Walking
<1>3. CASE run[p] \in ReadType
  BY <1>3 DEF RunType, ReadType, Walking
<1> QED BY <1>0, <1>1, <1>2, <1>3 DEF RunType

LEMMA TypeInvOutside ==
  ASSUME TypeInv,
         (\E r \in Ref, c \in Commit : Move(r, c)) \/ Collect \/ (\E f \in File : Scanned(f))
  PROVE  TypeInv'
<1> USE DEF TypeInv
<1>1. ASSUME NEW r \in Ref, NEW c \in Commit, Move(r, c) PROVE TypeInv'
  <2> USE <1>1 DEF Move
  <2>1. RepoOK'
    <3>1. Reach(c) \subseteq Commit
      BY DEF Reach
    <3>2. \A d \in Reach(c) : Parents[d] \subseteq Reach(c)
      BY ReachParents
    <3> QED BY <3>1, <3>2 DEF RepoOK, fileVars
  <2>2. StoreOK' /\ TablesOK'
    BY DEF StoreOK, TablesOK, storeVars, tableVars
  <2>3. \A p \in Process : WalkOK(p)' /\ ReadOK(p)'
    BY DEF WalkOK, ReadOK, storeVars
  <2> QED BY <2>1, <2>2, <2>3 DEF OwnPass
<1>2. ASSUME Collect PROVE TypeInv'
  <2> USE <1>2 DEF Collect
  <2>1. RepoOK'
    <3>1. \A c : Reach(c) \subseteq Commit
      BY DEF Reach
    <3>2. \A c : \A d \in Reach(c) : Parents[d] \subseteq Reach(c)
      BY ReachParents
    <3> QED BY <3>1, <3>2 DEF RepoOK, fileVars
  <2>2. StoreOK' /\ TablesOK'
    BY DEF StoreOK, TablesOK, storeVars, tableVars
  <2>3. \A p \in Process : WalkOK(p)' /\ ReadOK(p)'
    BY DEF WalkOK, ReadOK, storeVars
  <2> QED BY <2>1, <2>2, <2>3 DEF OwnPass
<1>3. ASSUME NEW f \in File, Scanned(f) PROVE TypeInv'
  <2> USE <1>3 DEF Scanned
  <2>1. RepoOK'
    BY DEF RepoOK, repoVars
  <2>2. StoreOK' /\ TablesOK'
    BY DEF StoreOK, TablesOK, storeVars, tableVars
  <2>3. \A p \in Process : run'[p] \in RunType /\ SameButSteady(run[p], run'[p])
    BY ScannedKeeps
  <2>4. run' \in [Process -> RunType]
    BY <2>3
  <2>5. ASSUME NEW p \in Process PROVE WalkOK(p)' /\ ReadOK(p)'
    <3>1. WalkOK(p) /\ ReadOK(p)
      OBVIOUS
    <3>2. UNCHANGED <<log, passes>>
      BY DEF storeVars
    <3>3. WalkOK(p)'
      BY <2>3, <3>1, <3>2 DEF WalkOK, SameButSteady
    <3>4. ReadOK(p)'
      BY <2>3, <3>1, <3>2 DEF ReadOK, SameButSteady, Walking
    <3> QED BY <3>3, <3>4
  <2>6. OwnPass'
    BY <2>3 DEF OwnPass, SameButSteady
  <2> QED BY <2>1, <2>2, <2>4, <2>5, <2>6
<1> QED BY <1>1, <1>2, <1>3

\* A command of git or of the store that p takes leaves the repository, and what
\* a command of another process has in hand, as they are.
LEMMA TypeInvOwn ==
  ASSUME TypeInv, NEW p \in Process, NEW step \in RunType,
         run' = [run EXCEPT ![p] = step],
         UNCHANGED <<repoVars, fileVars>>, StoreOK', TablesOK', log \subseteq log',
         \A k \in DOMAIN passes : /\ k \in DOMAIN passes'
                                  /\ \/ passes'[k].status = passes[k].status
                                     \/ passes'[k].status = "interrupted"
                                     \/ run[p].pc \in Walking /\ run[p].pass = k,
         WalkOK(p)', ReadOK(p)',
         step.pc \in Walking => \/ run[p].pc \in Walking /\ step.pass = run[p].pass
                                \/ step.pass \notin DOMAIN passes
  PROVE  TypeInv'
<1>1. RepoOK'
  BY DEF TypeInv, RepoOK, repoVars, fileVars
<1>2. run' \in [Process -> RunType] /\ run'[p] = step
  BY DEF TypeInv
<1>3. \A q \in Process : WalkOK(q)' /\ ReadOK(q)'
  <2>1. ASSUME NEW q \in Process \ {p} PROVE WalkOK(q)' /\ ReadOK(q)'
    <3>1. run'[q] = run[q]
      BY DEF TypeInv
    <3> QED BY <3>1, OthersStay
  <2> QED BY <2>1
<1>4. OwnPass'
  <2>1. \A q \in Process \ {p} : run'[q] = run[q]
    BY DEF TypeInv
  <2>2. \A q \in Process : run[q].pc \in Walking => run[q].pass \in DOMAIN passes
    BY DEF TypeInv, WalkOK
  <2> QED BY <1>2, <2>1, <2>2 DEF TypeInv, OwnPass
<1> QED BY <1>1, <1>2, <1>3, <1>4 DEF TypeInv

\* A pass that begins comes after the others; those that ran are interrupted.
LEMMA PassesBegun ==
  ASSUME TypeInv, NEW p \in Process, BeginPass(p)
  PROVE  /\ passes' \in Seq(PassType)
         /\ DOMAIN passes' = 1 .. Len(passes) + 1
         /\ Len(passes') = Len(passes) + 1
         /\ DOMAIN passes = 1 .. Len(passes)
         /\ Len(passes) \in Nat
         /\ \A k \in DOMAIN passes :
              /\ passes'[k].status = passes[k].status \/ passes'[k].status = "interrupted"
              /\ passes'[k].head = passes[k].head /\ passes'[k].cut = passes[k].cut
         /\ passes'[Len(passes) + 1].status = "running"
         /\ ~ passes'[Len(passes) + 1].cut
<1> USE DEF BeginPass
<1> DEFINE kept == [k \in DOMAIN passes |->
                      IF passes[k].status = "running"
                      THEN [passes[k] EXCEPT !.status = "interrupted"] ELSE passes[k]]
           new == [status |-> "running", head |-> None, cut |-> FALSE]
<1>1. passes \in Seq(PassType) /\ Len(passes) \in Nat /\ DOMAIN passes = 1 .. Len(passes)
  BY DEF TypeInv, StoreOK
<1>2. \A k \in DOMAIN passes : /\ kept[k] \in PassType
                               /\ kept[k].status \in {passes[k].status, "interrupted"}
                               /\ kept[k].head = passes[k].head /\ kept[k].cut = passes[k].cut
  <2>1. \A k \in DOMAIN passes : passes[k] \in PassType
    BY <1>1
  <2> QED BY <2>1 DEF PassType
<1>3. kept \in Seq(PassType) /\ Len(kept) = Len(passes) /\ DOMAIN kept = 1 .. Len(passes)
  BY <1>1, <1>2
<1>4. new \in PassType
  BY DEF PassType, None
<1>5. passes' = Append(kept, new)
  OBVIOUS
<1> HIDE DEF kept
<1>6. passes' \in Seq(PassType) /\ Len(passes') = Len(passes) + 1
      /\ \A k \in 1 .. Len(passes) : passes'[k] = kept[k]
      /\ passes'[Len(passes) + 1] = new
  <2> HIDE DEF new
  <2>1. /\ Append(kept, new) \in Seq(PassType) /\ Len(Append(kept, new)) = Len(kept) + 1
        /\ \A k \in 1 .. Len(kept) : Append(kept, new)[k] = kept[k]
        /\ Append(kept, new)[Len(kept) + 1] = new
    BY <1>3, <1>4, AppendProperties
  <2> QED BY <1>3, <1>5, <2>1
<1>7. passes'[Len(passes) + 1].status = "running" /\ ~ passes'[Len(passes) + 1].cut
  BY <1>6
<1> HIDE DEF new
<1> QED BY <1>1, <1>2, <1>6, <1>7

LEMMA TypeInvWalk ==
  ASSUME TypeInv, NEW p \in Process,
         \/ \E r \in Ref, cap \in Cap, resume \in BOOLEAN : Start(p, r, cap, resume)
         \/ BeginPass(p) \/ DiscoverFails(p) \/ Discover(p)
  PROVE  TypeInv'
<1> USE DEF TypeInv, Walking
<1>0. run[p] \in RunType /\ WalkOK(p) /\ ReadOK(p)
  OBVIOUS
<1>1. ASSUME NEW r \in Ref, NEW cap \in Cap, NEW resume \in BOOLEAN, Start(p, r, cap, resume)
      PROVE  TypeInv'
  <2> USE <1>1 DEF Start
  <2> DEFINE step == [pc |-> "begin", ref |-> r, cap |-> cap, resume |-> resume,
                      cursor |-> IF resume THEN cursor ELSE None, pass |-> 0, emitted |-> {},
                      steady |-> present \ Dotted, due |-> {}]
  <2>1. step \in RunType
    BY GitAssumption DEF RunType, WalkType, StoreOK, RepoOK
  <2>2. WalkOK(p)' /\ ReadOK(p)'
    BY DEF WalkOK, ReadOK, StoreOK, storeVars
  <2>3. StoreOK' /\ TablesOK'
    BY DEF StoreOK, TablesOK, storeVars, tableVars
  <2> HIDE DEF RunType
  <2> QED BY <2>1, <2>2, <2>3, TypeInvOwn DEF storeVars
<1>2. ASSUME BeginPass(p) PROVE TypeInv'
  <2> USE <1>2 DEF BeginPass
  <2> DEFINE step == [run[p] EXCEPT !.pc = "walk", !.pass = Len(passes')]
  <2>1. run[p] \in WalkType
    BY <1>0 DEF RunType, Idle, ReadType
  <2>2. /\ passes' \in Seq(PassType)
        /\ DOMAIN passes' = 1 .. Len(passes) + 1
        /\ Len(passes') = Len(passes) + 1
        /\ DOMAIN passes = 1 .. Len(passes)
        /\ Len(passes) \in Nat
        /\ \A k \in DOMAIN passes :
             passes'[k].status = passes[k].status \/ passes'[k].status = "interrupted"
        /\ passes'[Len(passes) + 1].status = "running"
    BY PassesBegun
  <2>3. step \in RunType
    <3>1. Len(passes') \in Nat
      BY <2>2
    <3> QED BY <2>1, <3>1 DEF RunType, WalkType
  <2>4. WalkOK(p)' /\ ReadOK(p)'
    <3>1. run'[p] = step /\ step.pc = "walk" /\ step.pass = Len(passes) + 1
          /\ step.cursor = run[p].cursor /\ step.resume = run[p].resume
      BY <2>1, <2>2 DEF WalkType
    <3>2. Len(passes) + 1 \in DOMAIN passes'
      BY <2>2
    <3> HIDE DEF step
    <3> QED BY <1>0, <2>2, <3>1, <3>2 DEF WalkOK, ReadOK
  <2>5. StoreOK' /\ TablesOK'
    BY <2>2 DEF StoreOK, TablesOK, tableVars
  <2>6. step.pass \notin DOMAIN passes
    BY <2>1, <2>2 DEF WalkType
  <2>7. run' = [run EXCEPT ![p] = step]
    BY <2>1 DEF WalkType
  <2>8. \A k \in DOMAIN passes : k \in DOMAIN passes'
    BY <2>2
  <2> HIDE DEF RunType, step
  <2> QED BY <2>2, <2>3, <2>4, <2>5, <2>6, <2>7, <2>8, TypeInvOwn
<1>3. ASSUME DiscoverFails(p) PROVE TypeInv'
  <2> USE <1>3 DEF DiscoverFails
  <2>1. run[p].pass \in DOMAIN passes
    BY <1>0 DEF WalkOK
  <2>2. /\ passes' \in Seq(PassType) /\ DOMAIN passes' = DOMAIN passes
        /\ \A k \in DOMAIN passes \ {run[p].pass} : passes'[k] = passes[k]
    <3>1. passes \in Seq(PassType) /\ passes[run[p].pass] \in PassType
      BY <2>1 DEF StoreOK
    <3>2. [passes[run[p].pass] EXCEPT !.status = "interrupted"] \in PassType
      BY <3>1 DEF PassType
    <3>3. passes' = [passes EXCEPT ![run[p].pass] = [passes[run[p].pass] EXCEPT !.status = "interrupted"]]
      OBVIOUS
    <3> QED BY <2>1, <3>1, <3>2, <3>3, ExceptSeq
  <2>3. WalkOK(p)' /\ ReadOK(p)' /\ Idle \in RunType
    BY DEF WalkOK, ReadOK, Idle, RunType
  <2>4. StoreOK' /\ TablesOK'
    BY <2>2 DEF StoreOK, TablesOK, tableVars
  <2> HIDE DEF RunType
  <2> QED BY <2>2, <2>3, <2>4, TypeInvOwn DEF Idle
<1>4. ASSUME Discover(p) PROVE TypeInv'
  <2> USE <1>4 DEF Discover
  <2> DEFINE head == refs[run[p].ref]
             emitted == Walk(run[p].cursor, head, run[p].cap)
             step == [run[p] EXCEPT !.pc = "append", !.emitted = emitted]
  <2>1. run[p] \in WalkType /\ run[p].pass \in DOMAIN passes
    BY <1>0 DEF RunType, Idle, ReadType, WalkOK
  <2>2. head \in Commit \cup {None}
    BY <2>1 DEF WalkType, RepoOK
  <2>3. emitted \subseteq Commit /\ \A c \in emitted : Cardinality(Parents[c]) < 2
    BY WalkListed DEF Listed
  <2>4. /\ passes' \in Seq(PassType) /\ DOMAIN passes' = DOMAIN passes
        /\ \A k \in DOMAIN passes : passes'[k].status = passes[k].status
    <3> HIDE DEF emitted, head
    <3>1. \A k \in DOMAIN passes : passes[k] \in PassType
      BY DEF StoreOK
    <3>2. passes' = [passes EXCEPT ![run[p].pass].head = head,
                       ![run[p].pass].cut = Cardinality(emitted) >= run[p].cap]
      BY DEF emitted, head
    <3>3. DOMAIN passes' = DOMAIN passes /\ \A k \in DOMAIN passes :
            passes'[k] \in PassType /\ passes'[k].status = passes[k].status
      BY <2>1, <2>2, <3>1, <3>2 DEF PassType
    <3>4. passes' \in Seq(PassType)
      <4>1. passes \in Seq(PassType) /\ Len(passes) \in Nat /\ DOMAIN passes = 1 .. Len(passes)
        BY DEF StoreOK
      <4>2. passes' = [k \in 1 .. Len(passes) |-> passes'[k]]
        BY <3>2, <3>3, <4>1
      <4>3. passes' \in [1 .. Len(passes) -> PassType]
        BY <3>3, <4>1, <4>2
      <4> QED BY <4>1, <4>3, SeqDef
    <3> QED BY <3>3, <3>4
  <2>5. step \in RunType
    <3> HIDE DEF emitted
    <3> QED BY <2>1, <2>3 DEF RunType, WalkType
  <2>6. WalkOK(p)' /\ ReadOK(p)'
    <3>1. /\ run'[p] = step /\ step.pc = "append" /\ step.emitted = emitted
          /\ step.cursor = run[p].cursor /\ step.resume = run[p].resume /\ step.pass = run[p].pass
      <4> HIDE DEF emitted
      <4>1. run' = [run EXCEPT ![p] = step]
        BY <2>1 DEF WalkType, emitted
      <4> QED BY <2>1, <4>1 DEF WalkType
    <3> HIDE DEF step, emitted
    <3> QED BY <1>0, <2>1, <2>3, <2>4, <3>1 DEF WalkOK, ReadOK
  <2>7. StoreOK' /\ TablesOK'
    BY <2>4 DEF StoreOK, TablesOK, tableVars
  <2>8. run' = [run EXCEPT ![p] = step] /\ step.pass = run[p].pass
    <3> HIDE DEF emitted
    <3> QED BY <2>1 DEF WalkType, emitted
  <2> HIDE DEF RunType, step
  <2> QED BY <2>4, <2>5, <2>6, <2>7, <2>8, TypeInvOwn
<1> QED BY <1>1, <1>2, <1>3, <1>4

LEMMA TypeInvStore ==
  ASSUME TypeInv, NEW p \in Process,
         AppendCommits(p) \/ SetCursor(p) \/ FinishPass(p) \/ WriteFails(p) \/ Crash(p)
  PROVE  TypeInv'
<1> USE DEF TypeInv, Walking
<1>0. run[p] \in RunType /\ WalkOK(p) /\ ReadOK(p)
  OBVIOUS
<1>1. ASSUME AppendCommits(p) PROVE TypeInv'
  <2> USE <1>1 DEF AppendCommits
  <2> DEFINE step == [run[p] EXCEPT !.pc = "cursor", !.due = log']
  <2>1. run[p] \in WalkType
    BY <1>0 DEF RunType, Idle, ReadType
  <2>2. log' \subseteq Commit /\ log \subseteq log' /\ run[p].emitted \subseteq log'
        /\ \A c \in log' : Cardinality(Parents[c]) < 2
    BY <1>0, <2>1 DEF StoreOK, WalkType, WalkOK
  <2>3. step \in RunType
    BY <2>1, <2>2 DEF RunType, WalkType
  <2>4. run' = [run EXCEPT ![p] = step] /\ step.pass = run[p].pass
    BY <2>1 DEF WalkType
  <2>5. WalkOK(p)' /\ ReadOK(p)'
    <3>1. /\ run'[p] = step /\ step.pc = "cursor" /\ step.emitted = run[p].emitted
          /\ step.cursor = run[p].cursor /\ step.resume = run[p].resume /\ step.due = log'
      BY <2>1, <2>4 DEF WalkType
    <3> HIDE DEF step
    <3> QED BY <1>0, <2>2, <2>4, <3>1 DEF WalkOK, ReadOK
  <2>6. StoreOK' /\ TablesOK'
    BY <2>2 DEF StoreOK, TablesOK, tableVars
  <2> HIDE DEF RunType, step
  <2> QED BY <2>2, <2>3, <2>4, <2>5, <2>6, TypeInvOwn
<1>2. ASSUME SetCursor(p) PROVE TypeInv'
  <2> USE <1>2 DEF SetCursor
  <2> DEFINE step == [run[p] EXCEPT !.pc = "finish"]
  <2>1. run[p] \in WalkType
    BY <1>0 DEF RunType, Idle, ReadType
  <2>2. NextCursor(run[p]) \in log \cup {None}
    <3>1. run[p].emitted # {} => Newest(run[p].emitted) \in run[p].emitted
      BY <2>1, NewestEmitted DEF WalkType
    <3> QED BY <1>0, <3>1 DEF WalkOK, NextCursor
  <2>3. step \in RunType
    BY <2>1 DEF RunType, WalkType
  <2>4. WalkOK(p)' /\ ReadOK(p)'
    <3>1. /\ run'[p] = step /\ step.pc = "finish" /\ step.emitted = run[p].emitted
          /\ step.pass = run[p].pass /\ step.due = run[p].due
          /\ step.cursor = run[p].cursor /\ step.resume = run[p].resume
      BY <2>1 DEF WalkType
    <3> HIDE DEF step
    <3> QED BY <1>0, <3>1 DEF WalkOK, ReadOK
  <2>5. StoreOK' /\ TablesOK'
    BY <2>2 DEF StoreOK, TablesOK, tableVars
  <2>6. step.pass = run[p].pass
    BY <2>1 DEF WalkType
  <2> HIDE DEF RunType
  <2> QED BY <2>3, <2>4, <2>5, <2>6, TypeInvOwn
<1>3. ASSUME FinishPass(p) PROVE TypeInv'
  <2> USE <1>3 DEF FinishPass
  <2> DEFINE step == [pc |-> "read", rows |-> {}, files |-> {},
                      steady |-> run[p].steady, due |-> run[p].due]
  <2>1. run[p] \in WalkType /\ run[p].pass \in DOMAIN passes
    BY <1>0 DEF RunType, Idle, ReadType, WalkOK
  <2>2. /\ passes' \in Seq(PassType) /\ DOMAIN passes' = DOMAIN passes
        /\ \A k \in DOMAIN passes \ {run[p].pass} : passes'[k] = passes[k]
    <3>1. passes \in Seq(PassType) /\ passes[run[p].pass] \in PassType
      BY <2>1 DEF StoreOK
    <3>2. [passes[run[p].pass] EXCEPT !.status = Coverage(run[p])] \in PassType
      BY <3>1 DEF PassType, Coverage
    <3>3. passes' = [passes EXCEPT ![run[p].pass] =
                       [passes[run[p].pass] EXCEPT !.status = Coverage(run[p])]]
      OBVIOUS
    <3> QED BY <2>1, <3>1, <3>2, <3>3, ExceptSeq
  <2>3. step \in RunType
    BY <2>1 DEF RunType, WalkType, ReadType
  <2>4. WalkOK(p)' /\ ReadOK(p)'
    <3>1. run'[p] = step
      OBVIOUS
    <3> QED BY <1>0, <3>1 DEF WalkOK, ReadOK
  <2>5. StoreOK' /\ TablesOK'
    BY <2>2 DEF StoreOK, TablesOK, tableVars
  <2> HIDE DEF RunType
  <2> QED BY <2>2, <2>3, <2>4, <2>5, TypeInvOwn
<1>4. ASSUME WriteFails(p) PROVE TypeInv'
  <2> USE <1>4 DEF WriteFails
  <2>1. run[p].pass \in DOMAIN passes
    BY <1>0 DEF WalkOK
  <2>2. /\ passes' \in Seq(PassType) /\ DOMAIN passes' = DOMAIN passes
        /\ \A k \in DOMAIN passes \ {run[p].pass} : passes'[k] = passes[k]
    <3>1. passes \in Seq(PassType) /\ passes[run[p].pass] \in PassType
      BY <2>1 DEF StoreOK
    <3>2. [passes[run[p].pass] EXCEPT !.status = "interrupted"] \in PassType
      BY <3>1 DEF PassType
    <3>3. passes' = [passes EXCEPT ![run[p].pass] = [passes[run[p].pass] EXCEPT !.status = "interrupted"]]
      OBVIOUS
    <3> QED BY <2>1, <3>1, <3>2, <3>3, ExceptSeq
  <2>3. WalkOK(p)' /\ ReadOK(p)' /\ Idle \in RunType
    BY DEF WalkOK, ReadOK, Idle, RunType
  <2>4. StoreOK' /\ TablesOK'
    BY <2>2 DEF StoreOK, TablesOK, tableVars
  <2> HIDE DEF RunType
  <2> QED BY <2>2, <2>3, <2>4, TypeInvOwn DEF Idle
<1>5. ASSUME Crash(p) PROVE TypeInv'
  <2> USE <1>5 DEF Crash
  <2>1. WalkOK(p)' /\ ReadOK(p)' /\ Idle \in RunType
    BY DEF WalkOK, ReadOK, Idle, RunType
  <2>2. StoreOK' /\ TablesOK'
    BY DEF StoreOK, TablesOK, storeVars, tableVars
  <2> HIDE DEF RunType
  <2> QED BY <2>1, <2>2, TypeInvOwn DEF Idle, storeVars
<1> QED BY <1>1, <1>2, <1>3, <1>4, <1>5

LEMMA TypeInvReconcile ==
  ASSUME TypeInv, NEW p \in Process,
         CommitObservations(p) \/ PresentFiles(p) \/ WriteCommits(p)
  PROVE  TypeInv'
<1> USE DEF TypeInv, Walking
<1>0. run[p] \in RunType /\ WalkOK(p) /\ ReadOK(p)
  OBVIOUS
<1>1. ASSUME CommitObservations(p) PROVE TypeInv'
  <2> USE <1>1 DEF CommitObservations
  <2> DEFINE step == [run[p] EXCEPT !.pc = "files", !.rows = log]
  <2>1. run[p] \in ReadType
    BY <1>0 DEF RunType, Idle, WalkType
  <2>2. step \in RunType
    BY <2>1 DEF RunType, ReadType, StoreOK
  <2>3. run' = [run EXCEPT ![p] = step]
    BY <2>1 DEF ReadType
  <2>4. WalkOK(p)' /\ ReadOK(p)'
    <3>1. run'[p] = step /\ step.pc = "files" /\ step.rows = log /\ step.due = run[p].due
      BY <2>1, <2>3 DEF ReadType
    <3> HIDE DEF step
    <3> QED BY <1>0, <3>1 DEF WalkOK, ReadOK, storeVars
  <2>5. StoreOK' /\ TablesOK'
    BY DEF StoreOK, TablesOK, storeVars, tableVars
  <2>6. step.pc \notin Walking
    BY <2>1 DEF ReadType
  <2> HIDE DEF RunType, step
  <2> QED BY <2>2, <2>3, <2>4, <2>5, <2>6, TypeInvOwn DEF storeVars
<1>2. ASSUME PresentFiles(p) PROVE TypeInv'
  <2> USE <1>2 DEF PresentFiles
  <2> DEFINE step == [run[p] EXCEPT !.pc = "write", !.files = present]
  <2>1. run[p] \in ReadType
    BY <1>0 DEF RunType, Idle, WalkType
  <2>2. step \in RunType
    BY <2>1 DEF RunType, ReadType, RepoOK
  <2>3. run' = [run EXCEPT ![p] = step]
    BY <2>1 DEF ReadType
  <2>4. WalkOK(p)' /\ ReadOK(p)'
    <3>1. run'[p] = step /\ step.pc = "write" /\ step.rows = run[p].rows /\ step.due = run[p].due
      BY <2>1, <2>3 DEF ReadType
    <3> HIDE DEF step
    <3> QED BY <1>0, <3>1 DEF WalkOK, ReadOK, storeVars
  <2>5. StoreOK' /\ TablesOK'
    BY DEF StoreOK, TablesOK, storeVars, tableVars
  <2>6. step.pc \notin Walking
    BY <2>1 DEF ReadType
  <2> HIDE DEF RunType, step
  <2> QED BY <2>2, <2>3, <2>4, <2>5, <2>6, TypeInvOwn DEF storeVars
<1>3. ASSUME WriteCommits(p) PROVE TypeInv'
  <2> USE <1>3 DEF WriteCommits
  <2> DEFINE found == {t \in Touch(run[p].rows) : FilesAt(run[p].files, t[2]) # {}}
  <2>1. run[p] \in ReadType
    BY <1>0 DEF RunType, Idle, WalkType
  <2>2. PICK at \in [found -> File] :
          /\ \A t \in found : at[t] \in FilesAt(run[p].files, t[2])
          /\ contains' = contains \cup {<<t[1], at[t]>> : t \in found}
    BY DEF FilesAt
  <2>3. \A t \in found : t[1] \in run[p].rows /\ at[t] \in File \ Dotted
    BY <2>1, <2>2 DEF Touch, FilesAt, ReadType
  <2>4. commits' = commits \cup run[p].rows /\ UNCHANGED <<log, cursor, passes>>
    BY DEF storeVars
  <2>5. TablesOK'
    <3>1. run[p].rows \subseteq log
      BY <1>0 DEF ReadOK
    <3>2. {<<t[1], at[t]>> : t \in found} \subseteq run[p].rows \X (File \ Dotted)
      <4> HIDE DEF found
      <4> QED BY <2>3
    <3>3. contains \subseteq commits \X (File \ Dotted) /\ commits \subseteq log
      BY DEF TablesOK
    <3>4. contains' \subseteq commits' \X (File \ Dotted)
      BY <2>2, <2>4, <3>2, <3>3
    <3> QED BY <2>4, <3>1, <3>3, <3>4 DEF TablesOK
  <2>6. WalkOK(p)' /\ ReadOK(p)' /\ Idle \in RunType
    BY DEF WalkOK, ReadOK, Idle, RunType
  <2>7. StoreOK'
    BY <2>4 DEF StoreOK
  <2>8. run' = [run EXCEPT ![p] = Idle]
    OBVIOUS
  <2> HIDE DEF RunType, WriteCommits
  <2> QED BY <2>4, <2>5, <2>6, <2>7, <2>8, <1>3, TypeInvOwn DEF Idle, WriteCommits
<1> QED BY <1>1, <1>2, <1>3

LEMMA TypeInvStep == TypeInv /\ [Next]_vars => TypeInv'
<1>1. ASSUME TypeInv, Next PROVE TypeInv'
  BY <1>1, TypeInvOutside, TypeInvWalk, TypeInvStore, TypeInvReconcile DEF Next
<1>2. ASSUME TypeInv, UNCHANGED vars PROVE TypeInv'
  BY <1>2 DEF vars, repoVars, fileVars, storeVars, tableVars, TypeInv, RepoOK, StoreOK, TablesOK, WalkOK, ReadOK, OwnPass
<1> QED BY <1>1, <1>2

LEMMA TypeInvAlways == Spec => []TypeInv
  BY TypeInvInit, TypeInvStep, PTL DEF Spec

\* Every reachable state is well typed.
THEOREM TypeCorrect == Spec => []TypeOK
<1>1. TypeInv => TypeOK
  <2> SUFFICES ASSUME TypeInv PROVE TypeOK
    OBVIOUS
  <2>1. \A k \in DOMAIN passes : passes[k] \in PassType
    BY DEF TypeInv, StoreOK
  <2>2. \A p \in Process : run[p].pc \in {"walk", "append", "cursor", "finish"} =>
                             run[p].pass \in DOMAIN passes
    BY DEF TypeInv, WalkOK, Walking
  <2> QED BY <2>1, <2>2 DEF TypeInv, TypeOK, RepoOK, StoreOK, TablesOK, PassType
<1> QED BY <1>1, TypeInvAlways, PTL

-----------------------------------------------------------------------------
(* What the cursor covers, and what a complete pass has seen.              *)

Uncut == \A k \in DOMAIN passes : ~ passes[k].cut

\* What a walk emitted is what there was from its cursor to the head of its pass.
WalkSaw(p) ==
  /\ run[p].pc = "walk" => ~ passes[run[p].pass].cut
  /\ run[p].pc \in {"append", "cursor", "finish"} =>
       LET seen == passes[run[p].pass]
       IN  /\ seen.head \in Commit
           /\ seen.cut = (Cardinality(run[p].emitted) >= run[p].cap)
           /\ run[p].emitted = Walk(run[p].cursor, seen.head, run[p].cap)

\* As long as no walk was cut short, every cursor, the stored one and those that
\* commands have read, covers what it reaches.
HistoryInv ==
  /\ \A p \in Process : WalkSaw(p)
  /\ Uncut => /\ Observed(cursor)
              /\ \A p \in Process : run[p].pc \in {"begin"} \cup Walking => Observed(run[p].cursor)
  /\ CompleteSawAll

\* When everything up to where a walk began is observed, and what it emitted is,
\* and it was not cut, then everything up to its head is.
LEMMA WalkedAll ==
  ASSUME NEW from, NEW head, NEW cap \in Nat, NEW seen,
         Cardinality(Walk(from, head, cap)) < cap,
         Walk(from, head, cap) \subseteq seen,
         \A d \in Reach(from) : Cardinality(Parents[d]) < 2 => d \in seen
  PROVE  \A d \in Reach(head) : Cardinality(Parents[d]) < 2 => d \in seen
<1>1. Walk(from, head, cap) = Listed(from, head)
  BY WalkUncut
<1> QED BY <1>1 DEF Listed

LEMMA ReachNone == Reach(None) = {}
  BY DEF Reach

\* Processes other than p are not affected by what p does to its own pass.
LEMMA HistoryOthers ==
  ASSUME TypeInv, HistoryInv, NEW p \in Process, NEW q \in Process \ {p},
         run'[q] = run[q],
         \A k \in DOMAIN passes :
           \/ passes'[k].head = passes[k].head /\ passes'[k].cut = passes[k].cut
           \/ run[p].pc \in Walking /\ run[p].pass = k
  PROVE  WalkSaw(q)'
<1>1. WalkSaw(q) /\ WalkOK(q)
  BY DEF HistoryInv, TypeInv
<1>2. run[q].pc \in Walking =>
        /\ passes'[run[q].pass].head = passes[run[q].pass].head
        /\ passes'[run[q].pass].cut = passes[run[q].pass].cut
  BY <1>1 DEF TypeInv, OwnPass, WalkOK
<1> QED BY <1>1, <1>2 DEF WalkSaw, Walking

\* A step that only concludes passes, moves commands on and adds to the log keeps
\* the invariant, if a pass it calls complete saw everything.
LEMMA HistoryKept ==
  ASSUME TypeInv, HistoryInv, NEW p \in Process,
         \A q \in Process \ {p} : run'[q] = run[q],
         log \subseteq log', cursor' = cursor,
         DOMAIN passes \subseteq DOMAIN passes',
         \A k \in DOMAIN passes :
           /\ passes'[k].head = passes[k].head /\ passes'[k].cut = passes[k].cut
           /\ passes'[k].status = "complete" => passes[k].status = "complete",
         \A k \in DOMAIN passes' \ DOMAIN passes :
           ~ passes'[k].cut /\ passes'[k].status # "complete",
         WalkSaw(p)',
         run'[p].pc \in {"begin"} \cup Walking =>
           \/ run[p].pc \in {"begin"} \cup Walking /\ run'[p].cursor = run[p].cursor
           \/ run'[p].cursor \in {cursor, None}
  PROVE  HistoryInv'
<1>1. \A q \in Process : WalkSaw(q)'
  <2>1. \A q \in Process \ {p} : WalkSaw(q)'
    BY HistoryOthers
  <2> QED BY <2>1
<1>2. \A c : Observed(c) => \A d \in Reach(c) : Cardinality(Parents[d]) < 2 => d \in log'
  BY DEF Observed
<1>3. ASSUME Uncut'
      PROVE  /\ Observed(cursor)'
             /\ \A q \in Process : run'[q].pc \in {"begin"} \cup Walking => Observed(run[q].cursor)'
  <2>1. Uncut
    BY <1>3 DEF Uncut
  <2>2. Observed(None)
    BY ReachNone DEF Observed
  <2>3. Observed(cursor) /\ \A q \in Process : run[q].pc \in {"begin"} \cup Walking => Observed(run[q].cursor)
    BY <2>1 DEF HistoryInv
  <2>4. Observed(cursor)'
    BY <1>2, <2>3 DEF Observed
  <2>5. ASSUME NEW q \in Process, run'[q].pc \in {"begin"} \cup Walking PROVE Observed(run[q].cursor)'
    <3>1. Observed(run'[q].cursor)
      BY <2>2, <2>3, <2>5
    <3> QED BY <1>2, <3>1 DEF Observed
  <2> QED BY <2>4, <2>5
<1>4. CompleteSawAll'
  <2>1. \A k \in DOMAIN passes' : passes'[k].status = "complete" =>
          /\ k \in DOMAIN passes /\ passes[k].status = "complete"
          /\ passes'[k].head = passes[k].head
    OBVIOUS
  <2> QED BY <1>2, <2>1 DEF HistoryInv, CompleteSawAll, Observed
<1> QED BY <1>1, <1>3, <1>4 DEF HistoryInv

LEMMA HistoryInvInit == Init => HistoryInv
<1> SUFFICES ASSUME Init PROVE HistoryInv
  OBVIOUS
<1>1. DOMAIN passes = {} /\ \A p \in Process : run[p].pc = "idle"
  BY DEF Init, Idle
<1>2. Observed(cursor)
  BY ReachNone DEF Init, Observed
<1> QED BY <1>1, <1>2 DEF HistoryInv, WalkSaw, CompleteSawAll, Walking

LEMMA HistoryOutside ==
  ASSUME TypeInv, HistoryInv,
         (\E r \in Ref, c \in Commit : Move(r, c)) \/ Collect \/ (\E f \in File : Scanned(f))
  PROVE  HistoryInv'
<1>1. UNCHANGED <<log, cursor, passes>>
  BY DEF Move, Collect, Scanned, storeVars
<1>2. \A p \in Process : SameButSteady(run[p], run'[p])
  <2>1. CASE \E f \in File : Scanned(f)
    BY <2>1, ScannedKeeps
  <2>2. CASE run' = run
    BY <2>2 DEF SameButSteady
  <2> QED BY <2>1, <2>2 DEF Move, Collect
<1>3. \A p \in Process : WalkSaw(p)'
  BY <1>1, <1>2 DEF HistoryInv, WalkSaw, SameButSteady, Walking
<1>4. Uncut' => /\ Observed(cursor)'
                /\ \A p \in Process : run'[p].pc \in {"begin"} \cup Walking => Observed(run[p].cursor)'
  BY <1>1, <1>2 DEF HistoryInv, SameButSteady, Observed, Uncut
<1>5. CompleteSawAll'
  BY <1>1 DEF HistoryInv, CompleteSawAll, Observed
<1> QED BY <1>3, <1>4, <1>5 DEF HistoryInv

LEMMA HistoryWalk ==
  ASSUME TypeInv, HistoryInv, NEW p \in Process,
         \/ \E r \in Ref, cap \in Cap, resume \in BOOLEAN : Start(p, r, cap, resume)
         \/ BeginPass(p) \/ DiscoverFails(p) \/ Discover(p)
  PROVE  HistoryInv'
<1>0. /\ run \in [Process -> RunType] /\ run[p] \in RunType /\ WalkOK(p) /\ WalkSaw(p)
      /\ \A k \in DOMAIN passes : passes[k] \in PassType
  BY DEF TypeInv, HistoryInv, StoreOK
<1>1. ASSUME NEW r \in Ref, NEW cap \in Cap, NEW resume \in BOOLEAN, Start(p, r, cap, resume)
      PROVE  HistoryInv'
  <2>1. run'[p].pc = "begin" /\ run'[p].cursor \in {cursor, None}
    BY <1>0, <1>1 DEF Start
  <2>2. WalkSaw(p)'
    BY <2>1 DEF WalkSaw
  <2>3. \A q \in Process \ {p} : run'[q] = run[q]
    BY <1>0, <1>1 DEF Start
  <2> QED BY <1>1, <2>1, <2>2, <2>3, HistoryKept DEF Start, storeVars
<1>2. ASSUME BeginPass(p) PROVE HistoryInv'
  <2>1. run[p] \in WalkType
    BY <1>0, <1>2 DEF BeginPass, RunType, Idle, ReadType
  <2>2. run'[p].pc = "walk" /\ run'[p].pass = Len(passes') /\ run'[p].cursor = run[p].cursor
    BY <1>0, <1>2, <2>1 DEF BeginPass, WalkType
  <2>3. WalkSaw(p)'
    BY <1>2, <2>2, PassesBegun DEF WalkSaw
  <2>4. \A q \in Process \ {p} : run'[q] = run[q]
    BY <1>0, <1>2 DEF BeginPass
  <2>5. /\ DOMAIN passes \subseteq DOMAIN passes'
        /\ \A k \in DOMAIN passes' \ DOMAIN passes : k = Len(passes) + 1
    BY <1>2, PassesBegun
  <2>6. \A k \in DOMAIN passes' \ DOMAIN passes :
          ~ passes'[k].cut /\ passes'[k].status # "complete"
    BY <1>2, <2>5, PassesBegun
  <2>7. \A k \in DOMAIN passes :
          /\ passes'[k].head = passes[k].head /\ passes'[k].cut = passes[k].cut
          /\ passes'[k].status = "complete" => passes[k].status = "complete"
    BY <1>2, PassesBegun
  <2>8. UNCHANGED <<log, cursor>> /\ run[p].pc = "begin"
    BY <1>2 DEF BeginPass
  <2> QED BY <2>2, <2>3, <2>4, <2>5, <2>6, <2>7, <2>8, HistoryKept
<1>3. ASSUME DiscoverFails(p) PROVE HistoryInv'
  <2>1. run'[p] = Idle /\ \A q \in Process \ {p} : run'[q] = run[q]
    BY <1>0, <1>3 DEF DiscoverFails
  <2>2. DOMAIN passes' = DOMAIN passes /\ \A k \in DOMAIN passes :
          /\ passes'[k].head = passes[k].head /\ passes'[k].cut = passes[k].cut
          /\ passes'[k].status = "complete" => passes[k].status = "complete"
    BY <1>0, <1>3 DEF DiscoverFails, PassType
  <2>3. WalkSaw(p)'
    BY <2>1 DEF WalkSaw, Idle
  <2>4. UNCHANGED <<log, cursor>>
    BY <1>3 DEF DiscoverFails
  <2> QED BY <2>1, <2>2, <2>3, <2>4, HistoryKept DEF Idle, Walking
<1>4. ASSUME Discover(p) PROVE HistoryInv'
  <2> DEFINE head == refs[run[p].ref]
             emitted == Walk(run[p].cursor, head, run[p].cap)
             own == run[p].pass
  <2>1. run[p] \in WalkType /\ own \in DOMAIN passes /\ run[p].pc = "walk"
        /\ passes[own].status # "complete" /\ ~ passes[own].cut
    BY <1>0, <1>4 DEF Discover, RunType, Idle, ReadType, WalkOK, WalkSaw, Walking
  <2>2. head \in Commit
    BY <1>4, <2>1 DEF Discover, WalkType, TypeInv, RepoOK
  <2>3. /\ run'[p].pc = "append" /\ run'[p].emitted = emitted /\ run'[p].cursor = run[p].cursor
        /\ run'[p].pass = own /\ run'[p].cap = run[p].cap
        /\ \A q \in Process \ {p} : run'[q] = run[q]
    <3> HIDE DEF emitted
    <3>1. run' = [run EXCEPT ![p].pc = "append", ![p].emitted = emitted]
      BY <1>4 DEF Discover, emitted
    <3> QED BY <1>0, <2>1, <3>1 DEF WalkType
  <2>4. /\ DOMAIN passes' = DOMAIN passes
        /\ passes'[own].head = head /\ passes'[own].cut = (Cardinality(emitted) >= run[p].cap)
        /\ \A k \in DOMAIN passes : passes'[k].status = passes[k].status
        /\ \A k \in DOMAIN passes \ {own} : passes'[k] = passes[k]
    <3> HIDE DEF emitted, head
    <3>1. passes' = [passes EXCEPT ![run[p].pass].head = head,
                       ![run[p].pass].cut = Cardinality(emitted) >= run[p].cap]
      BY <1>4 DEF Discover, emitted, head
    <3> QED BY <1>0, <2>1, <3>1 DEF PassType
  <2>5. WalkSaw(p)'
    BY <2>2, <2>3, <2>4 DEF WalkSaw
  <2>6. UNCHANGED <<log, cursor>>
    BY <1>4 DEF Discover
  <2> HIDE DEF emitted, head
  <2>7. \A q \in Process : WalkSaw(q)'
    <3>1. \A q \in Process \ {p} : WalkSaw(q)'
      BY <2>1, <2>3, <2>4, HistoryOthers DEF Walking
    <3> QED BY <2>5, <3>1
  <2>8. Uncut' => /\ Observed(cursor)'
                  /\ \A q \in Process : run'[q].pc \in {"begin"} \cup Walking => Observed(run[q].cursor)'
    <3>1. Uncut' => Uncut
      BY <2>1, <2>4 DEF Uncut
    <3>2. \A q \in Process : run'[q].pc \in {"begin"} \cup Walking =>
            run[q].pc \in {"begin"} \cup Walking /\ run'[q].cursor = run[q].cursor
      BY <2>1, <2>3 DEF Walking
    <3> QED BY <2>6, <3>1, <3>2 DEF HistoryInv, Observed
  <2>9. CompleteSawAll'
    <3>1. \A k \in DOMAIN passes' : passes'[k].status = "complete" =>
            /\ k \in DOMAIN passes /\ passes[k].status = "complete" /\ passes'[k].head = passes[k].head
      BY <2>1, <2>4
    <3> QED BY <2>6, <3>1 DEF HistoryInv, CompleteSawAll, Observed
  <2> QED BY <2>7, <2>8, <2>9 DEF HistoryInv
<1> QED BY <1>1, <1>2, <1>3, <1>4

LEMMA HistoryStore ==
  ASSUME TypeInv, HistoryInv, NEW p \in Process,
         AppendCommits(p) \/ SetCursor(p) \/ FinishPass(p) \/ WriteFails(p) \/ Crash(p)
  PROVE  HistoryInv'
<1>0. /\ run \in [Process -> RunType] /\ run[p] \in RunType /\ WalkOK(p) /\ WalkSaw(p)
      /\ \A k \in DOMAIN passes : passes[k] \in PassType
  BY DEF TypeInv, HistoryInv, StoreOK
<1>1. ASSUME AppendCommits(p) PROVE HistoryInv'
  <2>1. run[p] \in WalkType /\ run[p].pc = "append"
    BY <1>0, <1>1 DEF AppendCommits, RunType, Idle, ReadType
  <2>2. /\ run'[p].pc = "cursor" /\ run'[p].cursor = run[p].cursor /\ run'[p].pass = run[p].pass
        /\ run'[p].emitted = run[p].emitted /\ run'[p].cap = run[p].cap
        /\ \A q \in Process \ {p} : run'[q] = run[q]
    BY <1>0, <1>1, <2>1 DEF AppendCommits, WalkType
  <2>3. log \subseteq log' /\ UNCHANGED <<cursor, passes>>
    BY <1>1 DEF AppendCommits
  <2>4. WalkSaw(p)'
    BY <1>0, <2>1, <2>2, <2>3 DEF WalkSaw
  <2> QED BY <2>1, <2>2, <2>3, <2>4, HistoryKept DEF Walking
<1>2. ASSUME SetCursor(p) PROVE HistoryInv'
  <2>1. run[p] \in WalkType /\ run[p].pc = "cursor"
    BY <1>0, <1>2 DEF SetCursor, RunType, Idle, ReadType
  <2>2. /\ run'[p].pc = "finish" /\ run'[p].cursor = run[p].cursor /\ run'[p].pass = run[p].pass
        /\ run'[p].emitted = run[p].emitted /\ run'[p].cap = run[p].cap
        /\ \A q \in Process \ {p} : run'[q] = run[q]
    BY <1>0, <1>2, <2>1 DEF SetCursor, WalkType
  <2>3. UNCHANGED <<log, passes>>
    BY <1>2 DEF SetCursor
  <2>4. \A q \in Process : WalkSaw(q)'
    <3>1. WalkSaw(p)'
      BY <1>0, <2>1, <2>2, <2>3 DEF WalkSaw
    <3>2. \A q \in Process \ {p} : WalkSaw(q)'
      BY <2>2, <2>3, HistoryOthers
    <3> QED BY <3>1, <3>2
  <2>5. ASSUME Uncut
        PROVE  /\ Observed(cursor)'
               /\ \A q \in Process : run'[q].pc \in {"begin"} \cup Walking => Observed(run[q].cursor)'
    <3>1. Observed(cursor) /\ \A q \in Process : run[q].pc \in {"begin"} \cup Walking => Observed(run[q].cursor)
      BY <2>5 DEF HistoryInv
    <3>2. \A q \in Process : run'[q].pc \in {"begin"} \cup Walking =>
            run[q].pc \in {"begin"} \cup Walking /\ run'[q].cursor = run[q].cursor
      BY <2>1, <2>2 DEF Walking
    <3>3. Observed(run[p].cursor)
      BY <2>1, <3>1 DEF Walking
    <3>4. ASSUME run[p].emitted # {} PROVE Observed(Newest(run[p].emitted))
      <4> DEFINE head == passes[run[p].pass].head
      <4>1. /\ ~ Cardinality(run[p].emitted) >= run[p].cap
            /\ run[p].emitted = Walk(run[p].cursor, head, run[p].cap)
            /\ run[p].cap \in Nat /\ IsFiniteSet(run[p].emitted)
            /\ run[p].emitted \subseteq log
        <5>1. run[p].pass \in DOMAIN passes
          BY <1>0, <2>1 DEF WalkOK, Walking
        <5>2. run[p].emitted \subseteq log
          BY <1>0, <2>1 DEF WalkOK
        <5>3. run[p].cap \in Nat /\ run[p].emitted \in SUBSET Commit
          BY <2>1 DEF WalkType
        <5>4. IsFiniteSet(run[p].emitted)
          BY <5>3, GitAssumption, FS_Subset
        <5> QED BY <1>0, <2>1, <2>5, <5>1, <5>2, <5>3, <5>4 DEF WalkSaw, Uncut
      <4>2. Cardinality(run[p].emitted) < run[p].cap
        <5>1. Cardinality(run[p].emitted) \in Nat
          BY <4>1, FS_CardinalityType
        <5> QED BY <4>1, <5>1, SMT
      <4> HIDE DEF head
      <4>3. \A d \in Reach(head) : Cardinality(Parents[d]) < 2 => d \in log
        BY <3>3, <4>1, <4>2, WalkedAll DEF Observed
      <4>4. Newest(run[p].emitted) \in Reach(head)
        <5>1. Newest(run[p].emitted) \in run[p].emitted
          BY <2>1, <3>4, NewestEmitted DEF WalkType
        <5> QED BY <4>1, <5>1, WalkListed DEF Listed
      <4> QED BY <4>3, <4>4, ReachTransitive DEF Observed
    <3>5. Observed(cursor')
      BY <1>2, <3>1, <3>3, <3>4 DEF SetCursor, NextCursor
    <3> QED BY <2>3, <3>1, <3>2, <3>5 DEF Observed
  <2>6. CompleteSawAll'
    BY <2>3 DEF HistoryInv, CompleteSawAll, Observed
  <2> QED BY <2>3, <2>4, <2>5, <2>6 DEF HistoryInv, Uncut
<1>3. ASSUME FinishPass(p) PROVE HistoryInv'
  <2> DEFINE own == run[p].pass
  <2>1. run[p] \in WalkType /\ run[p].pc = "finish" /\ own \in DOMAIN passes
    BY <1>0, <1>3 DEF FinishPass, RunType, Idle, ReadType, WalkOK, Walking
  <2>2. run'[p].pc = "read" /\ \A q \in Process \ {p} : run'[q] = run[q]
    BY <1>0, <1>3 DEF FinishPass
  <2>3. /\ UNCHANGED <<log, cursor>> /\ DOMAIN passes' = DOMAIN passes
        /\ passes'[own].status = Coverage(run[p])
        /\ \A k \in DOMAIN passes : passes'[k].head = passes[k].head /\ passes'[k].cut = passes[k].cut
        /\ \A k \in DOMAIN passes \ {own} : passes'[k] = passes[k]
    BY <1>0, <1>3, <2>1 DEF FinishPass, PassType
  <2>4. \A q \in Process : WalkSaw(q)'
    <3>1. WalkSaw(p)'
      BY <2>2 DEF WalkSaw
    <3>2. \A q \in Process \ {p} : WalkSaw(q)'
      BY <2>2, <2>3, HistoryOthers
    <3> QED BY <3>1, <3>2
  <2>5. Uncut' => /\ Observed(cursor)'
                  /\ \A q \in Process : run'[q].pc \in {"begin"} \cup Walking => Observed(run[q].cursor)'
    <3>1. Uncut' => Uncut
      BY <2>3 DEF Uncut
    <3>2. \A q \in Process : run'[q].pc \in {"begin"} \cup Walking =>
            run[q].pc \in {"begin"} \cup Walking /\ run'[q].cursor = run[q].cursor
      BY <2>1, <2>2 DEF Walking
    <3> QED BY <2>3, <3>1, <3>2 DEF HistoryInv, Observed
  <2>6. ASSUME Coverage(run[p]) = "complete" PROVE Observed(passes[own].head)
    <3>1. ~ run[p].resume /\ ~ Cardinality(run[p].emitted) >= run[p].cap
      BY <2>6 DEF Coverage
    <3>2. run[p].cursor = None /\ run[p].emitted \subseteq log
      BY <1>0, <2>1, <3>1 DEF WalkOK, Walking
    <3>3. run[p].emitted = Walk(None, passes[own].head, run[p].cap)
      BY <1>0, <2>1, <3>2 DEF WalkSaw
    <3>4. run[p].cap \in Nat /\ Cardinality(run[p].emitted) \in Nat
      <4>1. run[p].cap \in Nat /\ run[p].emitted \in SUBSET Commit
        BY <2>1 DEF WalkType
      <4> QED BY <4>1, GitAssumption, FS_Subset, FS_CardinalityType
    <3>5. Cardinality(run[p].emitted) < run[p].cap
      BY <3>1, <3>4, SMT
    <3>6. \A d \in Reach(None) : Cardinality(Parents[d]) < 2 => d \in log
      BY ReachNone
    <3> QED BY <3>2, <3>3, <3>4, <3>5, <3>6, WalkedAll DEF Observed
  <2>7. CompleteSawAll'
    BY <2>3, <2>6 DEF HistoryInv, CompleteSawAll, Observed
  <2> QED BY <2>4, <2>5, <2>7 DEF HistoryInv
<1>4. ASSUME WriteFails(p) PROVE HistoryInv'
  <2>1. run'[p] = Idle /\ \A q \in Process \ {p} : run'[q] = run[q]
    BY <1>0, <1>4 DEF WriteFails
  <2>2. DOMAIN passes' = DOMAIN passes /\ \A k \in DOMAIN passes :
          /\ passes'[k].head = passes[k].head /\ passes'[k].cut = passes[k].cut
          /\ passes'[k].status = "complete" => passes[k].status = "complete"
    BY <1>0, <1>4 DEF WriteFails, PassType
  <2>3. WalkSaw(p)'
    BY <2>1 DEF WalkSaw, Idle
  <2>4. UNCHANGED <<log, cursor>>
    BY <1>4 DEF WriteFails
  <2> QED BY <2>1, <2>2, <2>3, <2>4, HistoryKept DEF Idle, Walking
<1>5. ASSUME Crash(p) PROVE HistoryInv'
  <2>1. run'[p] = Idle /\ \A q \in Process \ {p} : run'[q] = run[q]
    BY <1>0, <1>5 DEF Crash
  <2>2. UNCHANGED <<log, cursor, passes>>
    BY <1>5 DEF Crash, storeVars
  <2>3. WalkSaw(p)'
    BY <2>1 DEF WalkSaw, Idle
  <2> QED BY <2>1, <2>2, <2>3, HistoryKept DEF Idle, Walking
<1> QED BY <1>1, <1>2, <1>3, <1>4, <1>5

LEMMA HistoryReconcile ==
  ASSUME TypeInv, HistoryInv, NEW p \in Process,
         CommitObservations(p) \/ PresentFiles(p) \/ WriteCommits(p)
  PROVE  HistoryInv'
<1>0. run \in [Process -> RunType] /\ run[p] \in RunType
  BY DEF TypeInv
<1>1. run'[p].pc \in {"files", "write", "idle"} /\ \A q \in Process \ {p} : run'[q] = run[q]
  <2>1. CASE CommitObservations(p)
    BY <1>0, <2>1 DEF CommitObservations, RunType, ReadType, WalkType, Idle, Walking
  <2>2. CASE PresentFiles(p)
    BY <1>0, <2>2 DEF PresentFiles, RunType, ReadType, WalkType, Idle, Walking
  <2>3. CASE WriteCommits(p)
    BY <1>0, <2>3 DEF WriteCommits, Idle
  <2> QED BY <2>1, <2>2, <2>3
<1>2. UNCHANGED <<log, cursor, passes>>
  BY DEF CommitObservations, PresentFiles, WriteCommits, storeVars
<1>3. WalkSaw(p)'
  BY <1>1 DEF WalkSaw
<1> QED BY <1>1, <1>2, <1>3, HistoryKept DEF Walking

LEMMA HistoryInvStep == TypeInv /\ HistoryInv /\ [Next]_vars => HistoryInv'
<1>1. ASSUME TypeInv, HistoryInv, Next PROVE HistoryInv'
  BY <1>1, HistoryOutside, HistoryWalk, HistoryStore, HistoryReconcile DEF Next
<1>2. ASSUME HistoryInv, UNCHANGED vars PROVE HistoryInv'
  BY <1>2 DEF vars, storeVars, HistoryInv, WalkSaw, Uncut, CompleteSawAll, Observed
<1> QED BY <1>1, <1>2

LEMMA HistoryInvAlways == Spec => []HistoryInv
  BY HistoryInvInit, HistoryInvStep, TypeInvAlways, PTL DEF Spec

\* git.go, Cursor: what a resumed walk leaves out has been observed, whatever refs,
\* caps and kills came before it, as long as no walk was cut short.
THEOREM CursorCoversAlways == Spec => []CursorCovers
<1>1. HistoryInv => CursorCovers
  BY DEF HistoryInv, CursorCovers, Uncut
<1> QED BY <1>1, HistoryInvAlways, PTL

\* cmd/gyst/git.go, coverage: every pass that says complete has, for every history
\* and any number of commands, all its ref reached in the log.
THEOREM CompleteSawAllAlways == Spec => []CompleteSawAll
<1>1. HistoryInv => CompleteSawAll
  BY DEF HistoryInv
<1> QED BY <1>1, HistoryInvAlways, PTL

-----------------------------------------------------------------------------
(* Reconciliation.                                                         *)

\* Files present since a command began are present, and among those it read.
SteadyInv ==
  \A p \in Process :
    /\ run[p].pc # "idle" => run[p].steady \subseteq present
    /\ run[p].pc = "write" => run[p].steady \subseteq run[p].files

LEMMA SteadyInvInit == Init => SteadyInv
  BY DEF Init, SteadyInv, Idle

\* A step of p that leaves its files alone, or takes all that are present.
LEMMA SteadyKept ==
  ASSUME SteadyInv, NEW p \in Process, UNCHANGED present,
         \A q \in Process \ {p} : run'[q] = run[q],
         run'[p].pc # "idle" => run'[p].steady \subseteq present,
         run'[p].pc = "write" => run'[p].files = present
  PROVE  SteadyInv'
BY DEF SteadyInv

LEMMA SteadyInvStep == TypeInv /\ SteadyInv /\ [Next]_vars => SteadyInv'
<1> SUFFICES ASSUME TypeInv, SteadyInv, [Next]_vars PROVE SteadyInv'
  OBVIOUS
<1>0. run \in [Process -> RunType] /\ present \subseteq File
  BY DEF TypeInv, RepoOK
<1>1. ASSUME NEW f \in File, Scanned(f) PROVE SteadyInv'
  <2>1. \A p \in Process :
          /\ run'[p].pc = run[p].pc
          /\ run[p].pc # "idle" => run'[p].steady = run[p].steady \ {f}
          /\ run[p].pc = "write" => run'[p].files = run[p].files
    BY <1>1, ScannedKeeps DEF SameButSteady
  <2>2. present \ {f} \subseteq present'
    BY <1>1 DEF Scanned
  <2> QED BY <2>1, <2>2 DEF SteadyInv
<1>2. CASE (\E r \in Ref, c \in Commit : Move(r, c)) \/ Collect \/ UNCHANGED vars
  BY <1>2 DEF Move, Collect, vars, fileVars, SteadyInv
<1>3. ASSUME NEW p \in Process, NEW r \in Ref, NEW cap \in Cap, NEW resume \in BOOLEAN,
             Start(p, r, cap, resume)
      PROVE  SteadyInv'
  <2>1. /\ run'[p].pc = "begin" /\ run'[p].steady = present \ Dotted /\ UNCHANGED present
        /\ \A q \in Process \ {p} : run'[q] = run[q]
    BY <1>0, <1>3 DEF Start, fileVars
  <2> QED BY <2>1, SteadyKept
<1>4. ASSUME NEW p \in Process,
             BeginPass(p) \/ Discover(p) \/ AppendCommits(p) \/ SetCursor(p) \/ FinishPass(p)
             \/ CommitObservations(p) \/ PresentFiles(p)
      PROVE  SteadyInv'
  <2>1. run[p] \in WalkType \cup ReadType /\ run[p].pc # "idle"
    BY <1>0, <1>4 DEF RunType, Idle, BeginPass, Discover, AppendCommits, SetCursor, FinishPass,
       CommitObservations, PresentFiles
  <2>2. UNCHANGED present /\ \A q \in Process \ {p} : run'[q] = run[q]
    BY <1>0, <1>4 DEF BeginPass, Discover, AppendCommits, SetCursor, FinishPass,
       CommitObservations, PresentFiles, fileVars
  <2>3. run'[p].steady = run[p].steady /\ (run'[p].pc = "write" => run'[p].files = present)
    <3>1. CASE BeginPass(p)
      BY <1>0, <2>1, <3>1 DEF BeginPass, WalkType, ReadType
    <3>2. CASE Discover(p)
      <4> DEFINE emitted == Walk(run[p].cursor, refs[run[p].ref], run[p].cap)
      <4>1. run' = [run EXCEPT ![p].pc = "append", ![p].emitted = emitted]
        BY <3>2 DEF Discover
      <4> HIDE DEF emitted
      <4> QED BY <1>0, <2>1, <4>1 DEF WalkType, ReadType
    <3>3. CASE AppendCommits(p)
      BY <1>0, <2>1, <3>3 DEF AppendCommits, WalkType, ReadType
    <3>4. CASE SetCursor(p)
      BY <1>0, <2>1, <3>4 DEF SetCursor, WalkType, ReadType
    <3>5. CASE FinishPass(p)
      BY <1>0, <2>1, <3>5 DEF FinishPass, WalkType, ReadType
    <3>6. CASE CommitObservations(p)
      BY <1>0, <2>1, <3>6 DEF CommitObservations, WalkType, ReadType
    <3>7. CASE PresentFiles(p)
      BY <1>0, <2>1, <3>7 DEF PresentFiles, WalkType, ReadType
    <3> QED BY <1>4, <3>1, <3>2, <3>3, <3>4, <3>5, <3>6, <3>7
  <2>4. run'[p].steady \subseteq present
    BY <2>1, <2>3 DEF SteadyInv
  <2> QED BY <2>2, <2>3, <2>4, SteadyKept
<1>5. ASSUME NEW p \in Process, DiscoverFails(p) \/ WriteCommits(p) \/ WriteFails(p) \/ Crash(p)
      PROVE  SteadyInv'
  <2>1. /\ run'[p] = Idle /\ UNCHANGED present
        /\ \A q \in Process \ {p} : run'[q] = run[q]
    BY <1>0, <1>5 DEF DiscoverFails, WriteCommits, WriteFails, Crash, fileVars
  <2> QED BY <2>1, SteadyKept DEF Idle
<1> QED BY <1>1, <1>2, <1>3, <1>4, <1>5 DEF Next

\* The transaction of a command relates each commit that was due to a file that
\* stood at the path all along.
LEMMA Reconciles ==
  ASSUME TypeInv, SteadyInv, NEW p \in Process, WriteCommits(p)
  PROVE  /\ run[p].due \subseteq commits'
         /\ \A c \in run[p].due, path \in UNION {Touches[d] : d \in Commit} :
              path \in Touches[c] /\ FilesAt(run[p].steady, path) # {} =>
                \E f \in FilesAt(File, path) : <<c, f>> \in contains'
<1> DEFINE found == {t \in Touch(run[p].rows) : FilesAt(run[p].files, t[2]) # {}}
<1>1. run[p].due \subseteq run[p].rows /\ run[p].steady \subseteq run[p].files
  BY DEF TypeInv, ReadOK, SteadyInv, WriteCommits
<1>2. run[p].due \subseteq commits'
  BY <1>1 DEF WriteCommits
<1>3. PICK at \in [found -> File] :
        /\ \A t \in found : at[t] \in FilesAt(run[p].files, t[2])
        /\ contains' = contains \cup {<<t[1], at[t]>> : t \in found}
  BY DEF WriteCommits
<1>4. ASSUME NEW c \in run[p].due, NEW path, path \in Touches[c], FilesAt(run[p].steady, path) # {}
      PROVE  \E f \in FilesAt(File, path) : <<c, f>> \in contains'
  <2>1. <<c, path>> \in Touch(run[p].rows)
    BY <1>1, <1>4 DEF Touch
  <2>2. <<c, path>> \in found
    BY <1>1, <1>4, <2>1 DEF FilesAt
  <2> HIDE DEF found
  <2>3. at[<<c, path>>] \in FilesAt(run[p].files, path) /\ at[<<c, path>>] \in File
    BY <1>3, <2>2
  <2>4. at[<<c, path>>] \in FilesAt(File, path)
    BY <2>3 DEF FilesAt
  <2>5. <<c, at[<<c, path>>]>> \in contains'
    BY <1>3, <2>2
  <2> QED BY <2>4, <2>5
<1> QED BY <1>2, <1>4

\* Only the transaction of a command ends it in such a way that the tables change.
LEMMA OnlyWriteCommitsEnds ==
  ASSUME TypeInv, [Next]_vars, NEW p \in Process,
         run[p].pc = "write", run'[p].pc = "idle", tableVars' # tableVars
  PROVE  WriteCommits(p)
<1>1. run \in [Process -> RunType]
  BY DEF TypeInv
<1>2. PICK q \in Process : WriteCommits(q)
  BY DEF Next, vars, Move, Collect, Scanned, Start, BeginPass, DiscoverFails, Discover, AppendCommits,
     SetCursor, FinishPass, CommitObservations, PresentFiles, WriteFails, Crash
<1>3. q # p => run'[p] = run[p]
  BY <1>1, <1>2 DEF WriteCommits
<1> QED BY <1>2, <1>3

\* reconcile.go: a command that ends well has projected every commit that was in the
\* log when it appended its own, and tied each to a file at every path it changed
\* where one was present all along.
THEOREM EndsReconciledAlways == Spec => EndsReconciled
<1>1. TypeInv /\ SteadyInv /\ [Next]_vars =>
        [\A p \in Process :
           run[p].pc = "write" /\ run'[p].pc = "idle" /\ tableVars' # tableVars =>
             /\ run[p].due \subseteq commits'
             /\ \A c \in run[p].due, path \in UNION {Touches[d] : d \in Commit} :
                  path \in Touches[c] /\ FilesAt(run[p].steady, path) # {} =>
                    \E f \in FilesAt(File, path) : <<c, f>> \in contains']_vars
  BY OnlyWriteCommitsEnds, Reconciles
<1>2. Spec => []SteadyInv
  BY SteadyInvInit, SteadyInvStep, TypeInvAlways, PTL DEF Spec
<1> QED BY <1>1, <1>2, TypeInvAlways, PTL DEF Spec, EndsReconciled
=============================================================================
