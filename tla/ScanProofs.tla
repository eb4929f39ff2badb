----------------------------- MODULE ScanProofs -----------------------------
(***************************************************************************)
(* Proofs about module Scan, for every tree, every change of the disk and  *)
(* any number of scanners and passes.                                      *)
(***************************************************************************)
EXTENDS Scan, TLAPS, FiniteSetTheorems, SequenceTheorems, WellFoundedInduction

-----------------------------------------------------------------------------
(* The tree.                                                               *)

LEMMA AboveDirs == \A e : Above(e) \subseteq Dir \cup {Root}
  BY DEF Above

LEMMA ParentAbove ==
  ASSUME NEW e \in Locator \cup Dir
  PROVE  Parent[e] \in Above(e)
<1>1. e # Root /\ Parent[e] \in Dir \cup {Root}
  BY ScanAssumption
<1> QED BY <1>1 DEF Above

\* What is above an entry lies on the way to it: an entry below it on that way is
\* in its listing, or would be if it is the file that is gone.
LEMMA OnTheWay ==
  ASSUME NEW l \in Locator \cup Dir, NEW d \in Above(l)
  PROVE  \E e \in ({l} \cup Above(l)) \ {Root} : Parent[e] = d
<1> DEFINE way == {l} \cup Above(l)
           S == {c \in Above(l) : \E e \in way \ {Root} : Parent[e] = c}
<1>0. l # Root
  BY ScanAssumption
<1>1. Parent[l] \in S
  BY <1>0, ParentAbove
<1>2. S \subseteq Dir \cup {Root}
  BY AboveDirs
<1>3. ASSUME NEW c \in S \ {Root} PROVE Parent[c] \in S
  <2>1. c \in Above(l) /\ c \in Dir
    BY <1>2
  <2>2. Parent[c] \in Above(l)
    <3>1. Parent[c] \in Dir \cup {Root}
      BY <2>1, ScanAssumption
    <3>2. ASSUME NEW T \in Upward, Parent[l] \in T PROVE Parent[c] \in T
      <4>1. c \in T
        BY <1>0, <2>1, <3>2 DEF Above
      <4> QED BY <1>3, <4>1 DEF Upward
    <3> QED BY <1>0, <3>1, <3>2 DEF Above
  <2> QED BY <2>1, <2>2, <1>3
<1>4. S \in Upward
  <2> HIDE DEF S
  <2> QED BY <1>2, <1>3 DEF Upward
<1>5. d \in S
  <2> HIDE DEF S
  <2> QED BY <1>0, <1>1, <1>4 DEF Above
<1> QED BY <1>5

-----------------------------------------------------------------------------
(* Sequences.                                                              *)

\* A finite set of numbers that is not empty has a greatest one.
LEMMA UpToHasGreatest ==
  ASSUME NEW n \in Nat, NEW S, S \subseteq 1..n, S # {}
  PROVE  \E i \in S : \A j \in S : j <= i
<1> DEFINE R == {ss \in Nat \X Nat : ss[1] < ss[2]}
           Bounds == {m \in Nat : \A j \in S : j <= m}
<1>1. IsWellFoundedOn(R, Nat)
  BY NatLessThanWellFounded DEF OpToRel
<1>2. Bounds \subseteq Nat /\ n \in Bounds
  OBVIOUS
<1>3. PICK m \in Bounds : \A k \in Bounds : ~(<<k, m>> \in R)
  <2> HIDE DEF R, Bounds
  <2> QED BY <1>1, <1>2, WFMin
<1>4. m \in Nat /\ \A j \in S : j <= m
  BY <1>3
<1>5. CASE m \in S
  BY <1>4, <1>5
<1>6. CASE m \notin S
  <2>1. PICK j \in S : TRUE
    OBVIOUS
  <2>2. m - 1 \in Nat /\ m - 1 < m
    BY <1>4, <2>1, SMT
  <2>3. \A k \in S : k <= m - 1
    BY <1>4, <1>6, SMT
  <2>4. m - 1 \in Bounds /\ <<m - 1, m>> \in R
    BY <1>4, <2>2, <2>3
  <2> QED BY <1>3, <2>4
<1> QED BY <1>5, <1>6

LEMMA ExceptInSeq ==
  ASSUME NEW S, NEW s \in Seq(S), NEW k, NEW v \in S
  PROVE  /\ [s EXCEPT ![k] = v] \in Seq(S)
         /\ Len([s EXCEPT ![k] = v]) = Len(s)
         /\ DOMAIN [s EXCEPT ![k] = v] = DOMAIN s
<1>1. Len(s) \in Nat /\ DOMAIN s = 1..Len(s) /\ s \in [1..Len(s) -> S]
  BY LenProperties
<1>2. [s EXCEPT ![k] = v] \in [1..Len(s) -> S]
  BY <1>1
<1> QED BY <1>1, <1>2, SeqDef

\* The members of an ordered set.
LEMMA AscendingMembers ==
  ASSUME NEW S, NEW pos, IsFiniteSet(S), NEW s \in Ascending(S, pos)
  PROVE  /\ Cardinality(S) \in Nat
         /\ s \in Seq(S)
         /\ DOMAIN s = 1..Cardinality(S)
         /\ \A i \in DOMAIN s : s[i] \in S
<1>1. s \in [1..Cardinality(S) -> S] /\ Cardinality(S) \in Nat
  BY FS_CardinalityType DEF Ascending
<1> QED BY <1>1, SeqDef

-----------------------------------------------------------------------------
(* Type correctness.                                                       *)

PC == {"idle", "begin", "insert", "known", "open", "walk", "hash", "cursor", "finish", "apply"}

Status == {"running", "complete", "partial", "interrupted", "unavailable"}

Observation ==
  [kind : {"file", "absent"}, loc : Locator, nv : Version \cup {Gone}, sum : Version \cup {Gone}, prior : Nat]

Known == UNION {[L -> [nv : Version \cup {Gone}, seq : Nat]] : L \in SUBSET Locator}

ScanType ==
  [pc : PC, resume : BOOLEAN, limit : Nat, cursor : Locator \cup {NoCursor},
   visible : Nat, pass : Nat, known : Known, rules : SUBSET (Locator \cup Dir), todo : SUBSET Entry,
   seen : SUBSET Locator, ignored : SUBSET Entry, skipped : BOOLEAN, complete : BOOLEAN,
   scanned : Nat, next : Locator \cup {NoCursor},
   file : {<<>>} \cup (Locator \X (Version \cup {Gone})), obs : Seq(Observation), status : Status]

DiskOK ==
  /\ disk \in [Locator -> Version \cup {Gone}]
  /\ root \in {"up", "missing"}
  /\ unreadable \subseteq Dir
  /\ rules \subseteq Locator \cup Dir

StoreOK ==
  /\ log \in Seq(Observation)
  /\ lastSeq \in 0..Len(log)
  /\ cursor \in Locator \cup {NoCursor}
  /\ passes \in Seq(Status)

\* A scanner holds a file exactly while it decides whether to read it.
ScanOK(s) ==
  /\ scan[s] \in ScanType
  /\ scan[s].pass <= Len(passes)
  /\ (scan[s].pc = "hash") = (scan[s].file # <<>>)

TypeInv ==
  /\ DiskOK
  /\ StoreOK
  /\ scan \in [Scanner -> ScanType]
  /\ \A s \in Scanner : ScanOK(s)

LEMMA IdleType == Idle \in ScanType
<1>1. Nothing \in Known
  <2>1. Nothing \in [{} -> [nv : Version \cup {Gone}, seq : Nat]] /\ {} \in SUBSET Locator
    BY DEF Nothing
  <2> QED BY <2>1 DEF Known
<1>2. <<>> \in Seq(Observation)
  OBVIOUS
<1> HIDE DEF Known
<1> QED BY <1>1, <1>2 DEF Idle, ScanType, PC, Status

LEMMA TypeInvInit == Init => TypeInv
<1> SUFFICES ASSUME Init PROVE TypeInv
  OBVIOUS
<1>1. DiskOK /\ StoreOK
  BY DEF Init, DiskOK, StoreOK
<1>2. \A s \in Scanner : scan[s] = Idle
  BY DEF Init
<1>3. Idle.pass = 0 /\ Idle.pc = "idle" /\ Idle.file = <<>>
  BY DEF Idle
<1>4. Len(passes) = 0
  BY DEF Init
<1>5. scan \in [Scanner -> ScanType]
  BY IdleType DEF Init
<1> QED BY <1>1, <1>2, <1>3, <1>4, <1>5, IdleType DEF TypeInv, ScanOK

\* A step of s that leaves s in order, and the store no shorter, leaves everyone so.
LEMMA TypeInvOwn ==
  ASSUME TypeInv, NEW s \in Scanner, NEW r \in ScanType,
         scan' = [scan EXCEPT ![s] = r], UNCHANGED diskVars, StoreOK',
         Len(passes) <= Len(passes'), r.pass <= Len(passes'),
         (r.pc = "hash") = (r.file # <<>>)
  PROVE  TypeInv'
<1>1. DiskOK'
  BY DEF TypeInv, DiskOK, diskVars
<1>2. scan' \in [Scanner -> ScanType] /\ scan'[s] = r /\ \A t \in Scanner \ {s} : scan'[t] = scan[t]
  BY DEF TypeInv
<1>3. \A t \in Scanner \ {s} : ScanOK(t)'
  <2>1. Len(passes) \in Nat /\ Len(passes') \in Nat
    BY DEF TypeInv, StoreOK
  <2>2. \A t \in Scanner : scan[t].pass \in Nat
    BY DEF TypeInv, ScanOK, ScanType
  <2>3. \A t \in Scanner : scan[t].pass <= Len(passes')
    BY <2>1, <2>2 DEF TypeInv, ScanOK
  <2> QED BY <1>2, <2>3 DEF TypeInv, ScanOK
<1>4. ScanOK(s)'
  BY <1>2 DEF ScanOK
<1> QED BY <1>1, <1>2, <1>3, <1>4 DEF TypeInv

\* The newest of the first n rows about a file.
LatestOf(rows, l, n) ==
  LET seqs == {i \in 1..n : rows[i].loc = l}
  IN  IF seqs = {} THEN 0 ELSE CHOOSE i \in seqs : \A j \in seqs : j <= i

LEMMA LatestOfRows ==
  ASSUME NEW n \in Nat, NEW l, NEW rows
  PROVE  /\ LatestOf(rows, l, n) \in 0..n
         /\ LatestOf(rows, l, n) # 0 => rows[LatestOf(rows, l, n)].loc = l
         /\ \A i \in 1..n : rows[i].loc = l => i <= LatestOf(rows, l, n)
<1> DEFINE seqs == {i \in 1..n : rows[i].loc = l}
<1>1. CASE seqs = {}
  BY <1>1 DEF LatestOf
<1>2. CASE seqs # {}
  <2>1. seqs \subseteq 1..n
    OBVIOUS
  <2>2. \E i \in seqs : \A j \in seqs : j <= i
    <3> HIDE DEF seqs
    <3> QED BY <1>2, <2>1, UpToHasGreatest
  <2>3. LatestOf(rows, l, n) = CHOOSE i \in seqs : \A j \in seqs : j <= i
    BY <1>2 DEF LatestOf
  <2>4. LatestOf(rows, l, n) \in seqs /\ \A j \in seqs : j <= LatestOf(rows, l, n)
    <3> HIDE DEF seqs
    <3> QED BY <2>2, <2>3
  <2> QED BY <2>4
<1> QED BY <1>1, <1>2

LEMMA LatestRow ==
  ASSUME NEW n \in Nat, NEW l
  PROVE  /\ Latest(l, n) \in 0..n
         /\ Latest(l, n) # 0 => log[Latest(l, n)].loc = l
         /\ \A i \in 1..n : log[i].loc = l => i <= Latest(l, n)
<1>1. Latest(l, n) = LatestOf(log, l, n)
  BY DEF Latest, LatestOf
<1> QED BY <1>1, LatestOfRows

LEMMA KnownStateType ==
  ASSUME TypeInv, NEW n \in 0..Len(log)
  PROVE  KnownState(n) \in Known
<1>1. log \in Seq(Observation) /\ Len(log) \in Nat /\ \A i \in 1..Len(log) : log[i] \in Observation
  BY DEF TypeInv, StoreOK
<1>2. n \in Nat /\ \A l \in Locator : Latest(l, n) \in 0..n
  BY <1>1, LatestRow
<1>3. \A l \in Locator : Current(l, n) \in Version \cup {Gone} /\ Latest(l, n) \in Nat
  <2>1. \A l \in Locator : Latest(l, n) \in Nat
    BY <1>2
  <2>2. \A l \in Locator : Latest(l, n) # 0 => Latest(l, n) \in 1..Len(log)
    BY <1>1, <1>2
  <2> QED BY <1>1, <2>1, <2>2 DEF Current, Observation
<1> DEFINE L == {k \in Locator : Current(k, n) # Gone}
<1>4. KnownState(n) \in [L -> [nv : Version \cup {Gone}, seq : Nat]]
  BY <1>3 DEF KnownState
<1>5. L \in SUBSET Locator
  OBVIOUS
<1> HIDE DEF L
<1> QED BY <1>4, <1>5 DEF Known

LEMMA KnownFacts ==
  ASSUME NEW known \in Known
  PROVE  DOMAIN known \subseteq Locator /\ \A l \in DOMAIN known : known[l].seq \in Nat
  BY DEF Known

LEMMA TypeInvUser == TypeInv /\ User => TypeInv'
<1> SUFFICES ASSUME TypeInv, User PROVE TypeInv'
  OBVIOUS
<1>1. ASSUME NEW l \in Locator, NEW v \in Version \cup {Gone}, Edit(l, v) PROVE TypeInv'
  <2>1. DiskOK'
    BY <1>1 DEF Edit, TypeInv, DiskOK
  <2> QED BY <1>1, <2>1 DEF Edit, Change, storeVars, TypeInv, StoreOK, ScanOK
<1>2. ASSUME NEW state \in RootStates, Mount(state) PROVE TypeInv'
  <2>1. DiskOK'
    BY <1>2, ScanAssumption DEF Mount, TypeInv, DiskOK
  <2> QED BY <1>2, <2>1 DEF Mount, Change, storeVars, TypeInv, StoreOK, ScanOK
<1>3. ASSUME NEW d \in Dir, Forbid(d) PROVE TypeInv'
  <2>1. DiskOK'
    BY <1>3 DEF Forbid, TypeInv, DiskOK
  <2> QED BY <1>3, <2>1 DEF Forbid, Change, storeVars, TypeInv, StoreOK, ScanOK
<1>4. ASSUME NEW e \in Locator \cup Dir, EditIgnores(e) PROVE TypeInv'
  <2>1. DiskOK'
    BY <1>4 DEF EditIgnores, TypeInv, DiskOK
  <2> QED BY <1>4, <2>1 DEF EditIgnores, Change, storeVars, TypeInv, StoreOK, ScanOK
<1>5. ASSUME NEW s \in Scanner, NEW resume \in Resumes, NEW limit \in Limits, StartScan(s, resume, limit)
      PROVE  TypeInv'
  <2> DEFINE r == [Idle EXCEPT !.pc = "begin", !.resume = resume, !.limit = limit,
                               !.cursor = IF resume THEN cursor ELSE NoCursor]
  <2>1. resume \in BOOLEAN /\ limit \in Nat /\ cursor \in Locator \cup {NoCursor}
    BY ScanAssumption DEF TypeInv, StoreOK
  <2>2. r \in ScanType
    <3> DEFINE c == IF resume THEN cursor ELSE NoCursor
    <3>1. c \in Locator \cup {NoCursor}
      BY <2>1
    <3> HIDE DEF c
    <3>2. [Idle EXCEPT !.pc = "begin", !.resume = resume, !.limit = limit, !.cursor = c] \in ScanType
      BY <2>1, <3>1, IdleType DEF ScanType, PC
    <3> QED BY <3>2 DEF c
  <2>3. r.pass = 0 /\ r.pc = "begin" /\ r.file = <<>>
    BY DEF Idle
  <2>4. UNCHANGED <<diskVars, storeVars>> /\ scan' = [scan EXCEPT ![s] = r]
    BY <1>5 DEF StartScan
  <2>5. StoreOK' /\ Len(passes') = Len(passes) /\ Len(passes) \in Nat
    BY <2>4 DEF TypeInv, StoreOK, storeVars
  <2>6. r.pass <= Len(passes') /\ Len(passes) <= Len(passes')
    BY <2>3, <2>5
  <2>7. (r.pc = "hash") = (r.file # <<>>)
    BY <2>3
  <2>8. UNCHANGED diskVars
    BY <2>4
  <2> HIDE DEF r
  <2> QED BY <2>2, <2>4, <2>5, <2>6, <2>7, <2>8, TypeInvOwn
<1> QED BY <1>1, <1>2, <1>3, <1>4, <1>5 DEF User

LEMMA WalkTyped ==
  ASSUME TypeInv, NEW s \in Scanner, NEW r \in ScanType, Walk(s, r),
         r.pass = scan[s].pass, (r.pc = "hash") = (r.file # <<>>)
  PROVE  TypeInv'
<1>1. UNCHANGED <<diskVars, storeVars>> /\ scan' = [scan EXCEPT ![s] = r]
  BY DEF Walk
<1>2. StoreOK' /\ Len(passes') = Len(passes) /\ Len(passes) \in Nat
  BY <1>1 DEF TypeInv, StoreOK, storeVars
<1>3. r.pass <= Len(passes') /\ Len(passes) <= Len(passes')
  BY <1>2 DEF TypeInv, ScanOK
<1> QED BY <1>1, <1>2, <1>3, TypeInvOwn

LEMMA TypeInvVisit ==
  ASSUME TypeInv, NEW s \in Scanner, NEW e \in Entry, Visit(s, e)
  PROVE  TypeInv'
<1>0. /\ scan[s] \in ScanType /\ (scan[s].pc = "hash") = (scan[s].file # <<>>)
      /\ scan[s].pc = "walk"
  BY DEF TypeInv, ScanOK, Visit, Visits, SkipIgnored, EnterDir, EnterDirFails, PassOver, Truncate,
     StatFails, Unchanged, Changed, VisitsFile, Within, Stat
<1>1. Done(s, e) \in ScanType /\ Done(s, e).pass = scan[s].pass /\ Done(s, e).pc = "walk"
      /\ Done(s, e).file = scan[s].file
  BY <1>0 DEF Done, ScanType
<1>2. CASE SkipIgnored(s, e)
  <2> DEFINE r == [Done(s, e) EXCEPT !.ignored = @ \cup {e}]
  <2>1. r \in ScanType /\ r.pass = scan[s].pass /\ (r.pc = "hash") = (r.file # <<>>)
    BY <1>0, <1>1 DEF ScanType
  <2>2. Walk(s, r)
    BY <1>2 DEF SkipIgnored
  <2> HIDE DEF r
  <2> QED BY <2>1, <2>2, WalkTyped
<1>3. CASE EnterDir(s, e)
  <2> DEFINE r == [Done(s, e) EXCEPT !.todo = @ \cup Listing(e)]
  <2>1. Listing(e) \subseteq Entry
    BY DEF Listing, Entry
  <2>2. r \in ScanType /\ r.pass = scan[s].pass /\ (r.pc = "hash") = (r.file # <<>>)
    BY <1>0, <1>1, <2>1 DEF ScanType
  <2>3. Walk(s, r)
    BY <1>3 DEF EnterDir
  <2> HIDE DEF r
  <2> QED BY <2>2, <2>3, WalkTyped
<1>4. CASE EnterDirFails(s, e) \/ StatFails(s, e)
  <2> DEFINE r == [Done(s, e) EXCEPT !.skipped = TRUE]
  <2>1. r \in ScanType /\ r.pass = scan[s].pass /\ (r.pc = "hash") = (r.file # <<>>)
    BY <1>0, <1>1 DEF ScanType
  <2>2. Walk(s, r)
    BY <1>4 DEF EnterDirFails, StatFails
  <2> HIDE DEF r
  <2> QED BY <2>1, <2>2, WalkTyped
<1>5. CASE PassOver(s, e)
  BY <1>0, <1>1, <1>5, WalkTyped DEF PassOver
<1>6. CASE Truncate(s, e)
  <2> DEFINE r == [scan[s] EXCEPT !.complete = FALSE, !.todo = {}]
  <2>1. r \in ScanType /\ r.pass = scan[s].pass /\ (r.pc = "hash") = (r.file # <<>>)
    BY <1>0 DEF ScanType
  <2>2. Walk(s, r)
    BY <1>6 DEF Truncate
  <2> HIDE DEF r
  <2> QED BY <2>1, <2>2, WalkTyped
<1>7. CASE e \in Locator /\ Unchanged(s, e)
  <2> DEFINE r == [Done(s, e) EXCEPT !.seen = @ \cup {e}, !.next = e]
  <2>1. r \in ScanType /\ r.pass = scan[s].pass /\ (r.pc = "hash") = (r.file # <<>>)
    BY <1>0, <1>1, <1>7 DEF ScanType
  <2>2. Walk(s, r)
    BY <1>7 DEF Unchanged
  <2> HIDE DEF r
  <2> QED BY <2>1, <2>2, WalkTyped
<1>8. CASE e \in Locator /\ Changed(s, e)
  <2> DEFINE r == [Done(s, e) EXCEPT !.pc = "hash", !.seen = @ \cup {e}, !.file = <<e, disk[e]>>]
  <2>1. disk[e] \in Version \cup {Gone}
    BY <1>8 DEF TypeInv, DiskOK
  <2>2. r \in ScanType /\ r.pass = scan[s].pass /\ (r.pc = "hash") = (r.file # <<>>)
    <3> DEFINE d == Done(s, e)
               f == <<e, disk[e]>>
               seen == d.seen \cup {e}
    <3>1. f \in Locator \X (Version \cup {Gone}) /\ f # <<>> /\ seen \in SUBSET Locator
      BY <1>1, <1>8, <2>1 DEF ScanType
    <3>2. r = [d EXCEPT !.pc = "hash", !.seen = seen, !.file = f] /\ d \in ScanType
          /\ d.pass = scan[s].pass
      BY <1>1 DEF ScanType
    <3> HIDE DEF r, d, f, seen
    <3> QED BY <3>1, <3>2 DEF ScanType, PC
  <2>3. Walk(s, r)
    BY <1>8 DEF Changed
  <2> HIDE DEF r
  <2> QED BY <2>2, <2>3, WalkTyped
<1> QED BY <1>2, <1>3, <1>4, <1>5, <1>6, <1>7, <1>8 DEF Visit

LEMMA TypeInvHash ==
  ASSUME TypeInv, NEW s \in Scanner, Unstable(s) \/ HashFails(s) \/ HashFile(s)
  PROVE  TypeInv'
<1>0. /\ scan[s] \in ScanType /\ scan[s].pc = "hash" /\ scan[s].file # <<>>
  BY DEF TypeInv, ScanOK, Unstable, HashFails, HashFile
<1>1. CASE Unstable(s)
  <2> DEFINE r == [scan[s] EXCEPT !.pc = "walk", !.file = <<>>]
  <2>1. r \in ScanType /\ r.pass = scan[s].pass /\ (r.pc = "hash") = (r.file # <<>>)
    BY <1>0 DEF ScanType, PC
  <2>2. Walk(s, r)
    BY <1>1 DEF Unstable
  <2> HIDE DEF r
  <2> QED BY <2>1, <2>2, WalkTyped
<1>2. CASE HashFails(s)
  <2> DEFINE r == [scan[s] EXCEPT !.pc = "walk", !.file = <<>>, !.skipped = TRUE]
  <2>1. r \in ScanType /\ r.pass = scan[s].pass /\ (r.pc = "hash") = (r.file # <<>>)
    BY <1>0 DEF ScanType, PC
  <2>2. Walk(s, r)
    BY <1>2 DEF HashFails
  <2> HIDE DEF r
  <2> QED BY <2>1, <2>2, WalkTyped
<1>3. CASE HashFile(s)
  <2> DEFINE l == scan[s].file[1]
             o == FileObs(l, scan[s].file[2], disk[l], PriorSeq(scan[s].known, l))
             r == [scan[s] EXCEPT !.pc = "walk", !.file = <<>>, !.next = l,
                                  !.scanned = @ + 1, !.obs = Append(@, o)]
  <2>1. l \in Locator /\ scan[s].file[2] \in Version \cup {Gone}
    BY <1>0 DEF ScanType
  <2>2. disk[l] \in Version \cup {Gone}
    BY <2>1 DEF TypeInv, DiskOK
  <2>3. PriorSeq(scan[s].known, l) \in Nat
    <3>1. scan[s].known \in Known
      BY <1>0 DEF ScanType
    <3> HIDE DEF l
    <3> QED BY <3>1, KnownFacts DEF PriorSeq
  <2> HIDE DEF l
  <2>4. o \in Observation
    BY <2>1, <2>2, <2>3 DEF FileObs, Observation
  <2> HIDE DEF o
  <2>5. Append(scan[s].obs, o) \in Seq(Observation)
    BY <1>0, <2>4 DEF ScanType
  <2>6. r \in ScanType /\ r.pass = scan[s].pass /\ (r.pc = "hash") = (r.file # <<>>)
    <3> DEFINE obs == Append(scan[s].obs, o)
               n == scan[s].scanned + 1
    <3>1. obs \in Seq(Observation) /\ n \in Nat
      BY <1>0, <2>5 DEF ScanType
    <3>2. r = [scan[s] EXCEPT !.pc = "walk", !.file = <<>>, !.next = l, !.scanned = n, !.obs = obs]
      BY <1>0 DEF ScanType
    <3> HIDE DEF r, obs, n
    <3> QED BY <1>0, <2>1, <3>1, <3>2 DEF ScanType, PC
  <2>7. Walk(s, r)
    BY <1>3 DEF HashFile, l, o
  <2> HIDE DEF r
  <2> QED BY <2>6, <2>7, WalkTyped
<1> QED BY <1>1, <1>2, <1>3

\* It has all of them, if pos tells them apart.
LEMMA AscendingAll ==
  ASSUME NEW S, NEW pos, IsFiniteSet(S), NEW s \in Ascending(S, pos), \A x \in S : pos[x] \in Nat
  PROVE  \A x \in S : \E i \in DOMAIN s : s[i] = x
<1> DEFINE n == Cardinality(S)
<1>1. n \in Nat /\ s \in [1..n -> S] /\ DOMAIN s = 1..n
  BY FS_CardinalityType DEF Ascending
<1>2. \A i, j \in 1..n : i < j => pos[s[i]] < pos[s[j]]
  BY DEF Ascending
<1>3. IsFiniteSet(1..n) /\ Cardinality(1..n) = n
  <2>1. 1 \in Int /\ n \in Int
    BY <1>1
  <2>2. IsFiniteSet(1..n) /\ Cardinality(1..n) = IF 1 > n THEN 0 ELSE n - 1 + 1
    <3> HIDE DEF n
    <3> QED BY <2>1, FS_Interval
  <2> QED BY <1>1, <2>2
<1> HIDE DEF n
<1>4. ASSUME NEW i \in 1..n, NEW j \in 1..n, s[i] = s[j] PROVE i = j
  <2>1. s[i] \in S /\ pos[s[i]] \in Nat
    BY <1>1
  <2>2. ~ i < j /\ ~ j < i
    BY <1>2, <1>4, <2>1
  <2> QED BY <1>1, <2>2
<1>5. s \in Injection(1..n, S)
  BY <1>1, <1>4 DEF Injection, IsInjective
<1>6. s \in Surjection(1..n, S)
  BY <1>3, <1>5, FS_Injection DEF n
<1> QED BY <1>1, <1>6 DEF Surjection

LEMMA MissingFinite ==
  ASSUME TypeInv, NEW s \in Scanner
  PROVE  /\ Missing(scan[s]) \subseteq DOMAIN scan[s].known
         /\ Missing(scan[s]) \subseteq Locator
         /\ IsFiniteSet(Missing(scan[s]))
<1>0. scan[s].known \in Known
  BY DEF TypeInv, ScanOK, ScanType
<1>1. Missing(scan[s]) \subseteq DOMAIN scan[s].known
  BY DEF Missing
<1>2. Missing(scan[s]) \in SUBSET Locator
  BY <1>0, <1>1, KnownFacts
<1> QED BY <1>1, <1>2, ScanAssumption, FS_Subset

\* The tombstones of a pass are those of the files it misses.
TombstoneOf(s, l) == Tombstone(l, scan[s].known[l].seq)

LEMMA TombstonesAll ==
  ASSUME TypeInv, NEW s \in Scanner, NEW absent \in Tombstones(scan[s])
  PROVE  /\ absent \in Seq(Observation)
         /\ \A i \in DOMAIN absent : \E l \in Missing(scan[s]) : absent[i] = TombstoneOf(s, l)
         /\ \A l \in Missing(scan[s]) : \E i \in DOMAIN absent : absent[i] = TombstoneOf(s, l)
<1> DEFINE M == Missing(scan[s])
<1>0. scan[s].known \in Known
  BY DEF TypeInv, ScanOK, ScanType
<1>1. M \subseteq DOMAIN scan[s].known /\ M \subseteq Locator /\ IsFiniteSet(M)
  BY MissingFinite
<1>2. PICK k \in Ascending(M, StrPos) : absent = [i \in DOMAIN k |-> TombstoneOf(s, k[i])]
  BY DEF Tombstones, TombstoneOf
<1> HIDE DEF M
<1>3. /\ Cardinality(M) \in Nat /\ DOMAIN k = 1..Cardinality(M)
      /\ \A i \in DOMAIN k : k[i] \in M
  BY <1>1, <1>2, AscendingMembers
<1>4. \A l \in M : \E i \in DOMAIN k : k[i] = l
  <2>1. \A l \in M : StrPos[l] \in Nat
    BY <1>1, ScanAssumption
  <2> QED BY <1>1, <1>2, <2>1, AscendingAll
<1>5. \A l \in M : TombstoneOf(s, l) \in Observation
  <2> SUFFICES ASSUME NEW l \in M PROVE TombstoneOf(s, l) \in Observation
    OBVIOUS
  <2>1. l \in Locator /\ scan[s].known[l].seq \in Nat
    BY <1>0, <1>1, KnownFacts
  <2> QED BY <2>1 DEF TombstoneOf, Tombstone, Observation
<1>6. absent \in [1..Cardinality(M) -> Observation]
  BY <1>2, <1>3, <1>5
<1>7. absent \in Seq(Observation)
  BY <1>3, <1>6, SeqDef
<1>8. DOMAIN absent = DOMAIN k /\ \A i \in DOMAIN k : absent[i] = TombstoneOf(s, k[i])
  BY <1>2
<1>9. \A i \in DOMAIN absent : \E l \in M : absent[i] = TombstoneOf(s, l)
  BY <1>3, <1>8
<1>10. \A l \in M : \E i \in DOMAIN absent : absent[i] = TombstoneOf(s, l)
  BY <1>4, <1>8
<1> QED BY <1>7, <1>9, <1>10 DEF M

InLogIds(id) == \E j \in DOMAIN log : Id(log[j]) = id

\* Append drops nothing but what has an id that the log has.
LEMMA NewRowsAll ==
  ASSUME NEW batch \in Seq(Observation), NEW new \in NewRows(batch)
  PROVE  /\ new \in Seq(Observation)
         /\ \A i \in DOMAIN new : /\ ~ InLogIds(Id(new[i]))
                                  /\ \E k \in DOMAIN batch : new[i] = batch[k]
         /\ \A k \in DOMAIN batch : InLogIds(Id(batch[k])) \/ \E i \in DOMAIN new : new[i] = batch[k]
<1> DEFINE fresh == {i \in DOMAIN batch : Id(batch[i]) \notin {Id(log[j]) : j \in DOMAIN log}}
           pos == [i \in fresh |-> i]
<1>1. PICK k \in Ascending(fresh, pos) : new = [i \in DOMAIN k |-> batch[k[i]]]
  BY DEF NewRows
<1>2. Len(batch) \in Nat /\ DOMAIN batch = 1..Len(batch) /\ \A i \in DOMAIN batch : batch[i] \in Observation
  BY LenProperties
<1>3. IsFiniteSet(fresh) /\ fresh \subseteq DOMAIN batch
  <2>1. 1 \in Int /\ Len(batch) \in Int
    BY <1>2
  <2>2. IsFiniteSet(1..Len(batch))
    BY <2>1, FS_Interval
  <2>3. fresh \in SUBSET (1..Len(batch))
    BY <1>2
  <2> HIDE DEF fresh
  <2> QED BY <1>2, <2>2, <2>3, FS_Subset
<1>4. \A i \in DOMAIN batch : i \in fresh <=> ~ InLogIds(Id(batch[i]))
  BY DEF InLogIds
<1>5. \A i \in fresh : pos[i] \in Nat
  BY <1>2, <1>3
<1> HIDE DEF fresh, pos
<1>6. /\ Cardinality(fresh) \in Nat /\ DOMAIN k = 1..Cardinality(fresh)
      /\ \A i \in DOMAIN k : k[i] \in fresh
  BY <1>1, <1>3, AscendingMembers
<1>7. \A x \in fresh : \E i \in DOMAIN k : k[i] = x
  BY <1>1, <1>3, <1>5, AscendingAll
<1>8. new \in [1..Cardinality(fresh) -> Observation]
  BY <1>1, <1>2, <1>3, <1>6
<1>9. new \in Seq(Observation)
  BY <1>6, <1>8, SeqDef
<1>10. DOMAIN new = DOMAIN k /\ \A i \in DOMAIN k : new[i] = batch[k[i]]
  BY <1>1
<1>11. \A i \in DOMAIN new : k[i] \in DOMAIN batch /\ ~ InLogIds(Id(batch[k[i]]))
  BY <1>3, <1>4, <1>6, <1>10
<1>12. \A i \in DOMAIN new : ~ InLogIds(Id(new[i])) /\ \E n \in DOMAIN batch : new[i] = batch[n]
  BY <1>10, <1>11
<1>13. \A n \in DOMAIN batch : InLogIds(Id(batch[n])) \/ \E i \in DOMAIN new : new[i] = batch[n]
  BY <1>4, <1>7, <1>10
<1> QED BY <1>9, <1>12, <1>13

\* What a pass appends is what it emitted and the absence of the files it misses,
\* without what the log has already.
LEMMA AppendedRows ==
  ASSUME TypeInv, NEW s \in Scanner, NEW absent \in Tombstones(scan[s]),
         NEW new \in NewRows(scan[s].obs \o absent)
  PROVE  /\ new \in Seq(Observation)
         /\ \A i \in DOMAIN new :
              /\ ~ InLogIds(Id(new[i]))
              /\ \/ \E k \in DOMAIN scan[s].obs : new[i] = scan[s].obs[k]
                 \/ \E l \in Missing(scan[s]) : new[i] = TombstoneOf(s, l)
         /\ \A k \in DOMAIN scan[s].obs :
              InLogIds(Id(scan[s].obs[k])) \/ \E i \in DOMAIN new : new[i] = scan[s].obs[k]
         /\ \A l \in Missing(scan[s]) :
              InLogIds(Id(TombstoneOf(s, l))) \/ \E i \in DOMAIN new : new[i] = TombstoneOf(s, l)
<1> DEFINE obs == scan[s].obs
           batch == obs \o absent
           M == Missing(scan[s])
<1>1. obs \in Seq(Observation)
  BY DEF TypeInv, ScanOK, ScanType
<1>2. /\ absent \in Seq(Observation)
      /\ \A i \in DOMAIN absent : \E l \in M : absent[i] = TombstoneOf(s, l)
      /\ \A l \in M : \E i \in DOMAIN absent : absent[i] = TombstoneOf(s, l)
  BY TombstonesAll
<1> HIDE DEF obs, M
<1>3. /\ batch \in Seq(Observation) /\ Len(batch) = Len(obs) + Len(absent)
      /\ \A i \in 1 .. Len(obs) + Len(absent) :
           batch[i] = IF i <= Len(obs) THEN obs[i] ELSE absent[i - Len(obs)]
  BY <1>1, <1>2, ConcatProperties
<1>4. Len(obs) \in Nat /\ Len(absent) \in Nat /\ DOMAIN obs = 1..Len(obs) /\ DOMAIN absent = 1..Len(absent)
  BY <1>1, <1>2, LenProperties
<1>n. new \in NewRows(batch)
  BY DEF obs
<1> HIDE DEF batch
<1>5. DOMAIN batch = 1 .. Len(obs) + Len(absent)
  BY <1>3, LenProperties
<1>6. ASSUME NEW i \in DOMAIN batch
      PROVE  (\E k \in DOMAIN obs : batch[i] = obs[k]) \/ \E k \in DOMAIN absent : batch[i] = absent[k]
  <2>1. CASE i <= Len(obs)
    <3>1. i \in DOMAIN obs
      BY <1>4, <1>5, <2>1
    <3> QED BY <1>3, <1>5, <2>1, <3>1
  <2>2. CASE ~ i <= Len(obs)
    <3>1. i - Len(obs) \in DOMAIN absent
      BY <1>4, <1>5, <2>2
    <3> QED BY <1>3, <1>5, <2>2, <3>1
  <2> QED BY <2>1, <2>2
<1>7. \A k \in DOMAIN obs : k \in DOMAIN batch /\ batch[k] = obs[k]
  BY <1>3, <1>4, <1>5
<1>8. ASSUME NEW k \in DOMAIN absent PROVE \E i \in DOMAIN batch : batch[i] = absent[k]
  <2> DEFINE i == Len(obs) + k
  <2>1. i \in DOMAIN batch /\ ~ i <= Len(obs) /\ i - Len(obs) = k
    BY <1>4, <1>5
  <2> QED BY <1>3, <1>5, <2>1
<1>9. /\ new \in Seq(Observation)
      /\ \A i \in DOMAIN new : /\ ~ InLogIds(Id(new[i]))
                               /\ \E k \in DOMAIN batch : new[i] = batch[k]
      /\ \A k \in DOMAIN batch : InLogIds(Id(batch[k])) \/ \E i \in DOMAIN new : new[i] = batch[k]
  BY <1>n, <1>3, NewRowsAll
<1>10. ASSUME NEW i \in DOMAIN new
       PROVE  (\E k \in DOMAIN obs : new[i] = obs[k]) \/ \E l \in M : new[i] = TombstoneOf(s, l)
  <2>1. PICK k \in DOMAIN batch : new[i] = batch[k]
    BY <1>9
  <2> QED BY <1>2, <1>6, <2>1
<1>11. \A k \in DOMAIN obs : InLogIds(Id(obs[k])) \/ \E i \in DOMAIN new : new[i] = obs[k]
  BY <1>7, <1>9
<1>12. ASSUME NEW l \in M
       PROVE  InLogIds(Id(TombstoneOf(s, l))) \/ \E i \in DOMAIN new : new[i] = TombstoneOf(s, l)
  <2>1. PICK k \in DOMAIN absent : absent[k] = TombstoneOf(s, l)
    BY <1>2
  <2>2. PICK i \in DOMAIN batch : batch[i] = absent[k]
    BY <1>8
  <2> QED BY <1>9, <2>1, <2>2
<1> QED BY <1>9, <1>10, <1>11, <1>12 DEF obs, M

\* The log grows by rows that a pass emitted or that say what it misses, each but for
\* those whose id the log has.
LEMMA AppendGrows ==
  ASSUME TypeInv, NEW s \in Scanner, AppendObservations(s)
  PROVE  /\ log' \in Seq(Observation)
         /\ DOMAIN log \subseteq DOMAIN log' /\ \A i \in DOMAIN log : log'[i] = log[i]
         /\ \A i \in NewSeqs :
              /\ i \in Nat /\ i > Len(log)
              /\ \/ \E k \in DOMAIN scan[s].obs : log'[i] = scan[s].obs[k]
                 \/ \E l \in Missing(scan[s]) : log'[i] = TombstoneOf(s, l)
         /\ \A k \in DOMAIN scan[s].obs :
              InLogIds(Id(scan[s].obs[k])) \/ \E i \in NewSeqs : log'[i] = scan[s].obs[k]
         /\ \A l \in Missing(scan[s]) :
              InLogIds(Id(TombstoneOf(s, l))) \/ \E i \in NewSeqs : log'[i] = TombstoneOf(s, l)
<1>1. PICK absent \in Tombstones(scan[s]) : \E new \in NewRows(scan[s].obs \o absent) : log' = log \o new
  BY DEF AppendObservations
<1>2. PICK new \in NewRows(scan[s].obs \o absent) : log' = log \o new
  BY <1>1
<1>3. /\ new \in Seq(Observation)
      /\ \A i \in DOMAIN new :
           /\ ~ InLogIds(Id(new[i]))
           /\ \/ \E k \in DOMAIN scan[s].obs : new[i] = scan[s].obs[k]
              \/ \E l \in Missing(scan[s]) : new[i] = TombstoneOf(s, l)
      /\ \A k \in DOMAIN scan[s].obs :
           InLogIds(Id(scan[s].obs[k])) \/ \E i \in DOMAIN new : new[i] = scan[s].obs[k]
      /\ \A l \in Missing(scan[s]) :
           InLogIds(Id(TombstoneOf(s, l))) \/ \E i \in DOMAIN new : new[i] = TombstoneOf(s, l)
  BY AppendedRows
<1>4. log \in Seq(Observation)
  BY DEF TypeInv, StoreOK
<1>5. /\ log' \in Seq(Observation) /\ Len(log') = Len(log) + Len(new)
      /\ \A j \in 1 .. Len(log) + Len(new) :
           log'[j] = IF j <= Len(log) THEN log[j] ELSE new[j - Len(log)]
  BY <1>2, <1>3, <1>4, ConcatProperties
<1>6. /\ Len(log) \in Nat /\ Len(new) \in Nat
      /\ DOMAIN log = 1..Len(log) /\ DOMAIN new = 1..Len(new)
      /\ DOMAIN log' = 1 .. Len(log) + Len(new)
  BY <1>3, <1>4, <1>5, LenProperties
<1>7. DOMAIN log \subseteq DOMAIN log' /\ \A i \in DOMAIN log : log'[i] = log[i]
  BY <1>5, <1>6
<1>8. ASSUME NEW i \in NewSeqs PROVE i \in Nat /\ i > Len(log) /\ \E k \in DOMAIN new : log'[i] = new[k]
  <2>1. i \in 1 .. Len(log) + Len(new) /\ i \notin 1..Len(log)
    BY <1>6, <1>8 DEF NewSeqs
  <2>2. i \in Nat /\ i > Len(log) /\ i - Len(log) \in DOMAIN new /\ ~ i <= Len(log)
    BY <1>6, <2>1, SMT
  <2> QED BY <1>5, <2>1, <2>2
<1>9. ASSUME NEW k \in DOMAIN new PROVE \E i \in NewSeqs : log'[i] = new[k]
  <2> DEFINE i == Len(log) + k
  <2>1. i \in 1 .. Len(log) + Len(new) /\ ~ i <= Len(log) /\ i - Len(log) = k
    BY <1>6
  <2>2. log'[i] = new[k]
    BY <1>5, <2>1
  <2>3. i \in NewSeqs
    BY <1>6, <2>1 DEF NewSeqs
  <2> QED BY <2>2, <2>3
<1>10. \A i \in NewSeqs :
         \/ \E k \in DOMAIN scan[s].obs : log'[i] = scan[s].obs[k]
         \/ \E l \in Missing(scan[s]) : log'[i] = TombstoneOf(s, l)
  BY <1>3, <1>8
<1>11. \A k \in DOMAIN scan[s].obs :
         InLogIds(Id(scan[s].obs[k])) \/ \E i \in NewSeqs : log'[i] = scan[s].obs[k]
  BY <1>3, <1>9
<1>12. \A l \in Missing(scan[s]) :
         InLogIds(Id(TombstoneOf(s, l))) \/ \E i \in NewSeqs : log'[i] = TombstoneOf(s, l)
  BY <1>3, <1>9
<1> QED BY <1>5, <1>7, <1>8, <1>10, <1>11, <1>12

\* A pass begins in one step or with a second one.
LEMMA BeginsHow ==
  ASSUME NEW s \in Scanner, BeginPass(s) \/ CommitPass(s)
  PROVE  scan[s].pc \in {"begin", "insert"} /\ \E n : Begins(s, n)
  BY DEF BeginPass, CommitPass

\* It comes after the others, and if it saw them all none of those is running.
LEMMA PassesBegun ==
  ASSUME TypeInv, NEW s \in Scanner, NEW n, Begins(s, n)
  PROVE  /\ passes' \in Seq(Status)
         /\ DOMAIN passes' = 1 .. Len(passes) + 1
         /\ Len(passes') = Len(passes) + 1
         /\ Len(passes) \in Nat
         /\ n = Len(passes) => \A k \in 1 .. Len(passes) : passes'[k] # "running"
<1> DEFINE kept == [k \in DOMAIN passes |->
                      IF k <= n /\ passes[k] = "running" THEN "interrupted" ELSE passes[k]]
<1>1. passes \in Seq(Status) /\ Len(passes) \in Nat /\ DOMAIN passes = 1 .. Len(passes)
  BY DEF TypeInv, StoreOK
<1>2. /\ kept \in Seq(Status) /\ Len(kept) = Len(passes)
      /\ n = Len(passes) => \A k \in 1 .. Len(passes) : kept[k] # "running"
  BY <1>1 DEF Status
<1>3. passes' = Append(kept, "running") /\ "running" \in Status
  BY DEF Begins, Status
<1> HIDE DEF kept
<1>4. /\ passes' \in Seq(Status) /\ Len(passes') = Len(kept) + 1
      /\ \A k \in 1 .. Len(kept) : passes'[k] = kept[k]
  BY <1>2, <1>3, AppendProperties
<1> QED BY <1>1, <1>2, <1>4

LEMMA TypeInvStore ==
  ASSUME TypeInv, NEW s \in Scanner,
         \/ BeginPass(s) \/ SweepPasses(s) \/ CommitPass(s) \/ LoadKnown(s) \/ RootUnavailable(s) \/ OpenRoot(s)
         \/ AppendObservations(s) \/ SetCursor(s) \/ FinishPass(s) \/ Apply(s)
         \/ WriteFails(s) \/ Crash(s)
  PROVE  TypeInv'
<1>0. /\ scan[s] \in ScanType /\ scan[s].pass <= Len(passes)
      /\ (scan[s].pc = "hash") = (scan[s].file # <<>>)
      /\ log \in Seq(Observation) /\ lastSeq \in 0..Len(log)
      /\ passes \in Seq(Status) /\ Len(passes) \in Nat /\ Len(log) \in Nat
  BY DEF TypeInv, ScanOK, StoreOK
<1>i. Idle \in ScanType /\ Idle.pass <= Len(passes) /\ (Idle.pc = "hash") = (Idle.file # <<>>)
  <2>1. Idle.pass = 0 /\ Idle.pc = "idle" /\ Idle.file = <<>>
    BY DEF Idle
  <2> QED BY <1>0, <2>1, IdleType
<1>b. ASSUME BeginPass(s) \/ CommitPass(s) PROVE TypeInv'
  <2> DEFINE r == [scan[s] EXCEPT !.pc = "known", !.pass = Len(passes'), !.visible = 0]
  <2>0. PICK m : Begins(s, m)
    BY <1>b, BeginsHow
  <2>1. /\ passes' \in Seq(Status) /\ Len(passes') = Len(passes) + 1 /\ Len(passes') \in Nat
    BY <2>0, PassesBegun
  <2>2. r \in ScanType /\ r.pass = Len(passes') /\ (r.pc = "hash") = (r.file # <<>>)
    <3> DEFINE w == scan[s]
               n == Len(passes')
    <3>1. w \in ScanType /\ w.file = <<>> /\ n \in Nat
      BY <1>0, <1>b, <2>1, BeginsHow
    <3> HIDE DEF w, n
    <3>2. /\ [w EXCEPT !.pc = "known", !.pass = n, !.visible = 0] \in ScanType
          /\ [w EXCEPT !.pc = "known", !.pass = n, !.visible = 0].pc = "known"
          /\ [w EXCEPT !.pc = "known", !.pass = n, !.visible = 0].pass = n
          /\ [w EXCEPT !.pc = "known", !.pass = n, !.visible = 0].file = w.file
      BY <3>1 DEF ScanType, PC
    <3> QED BY <3>1, <3>2 DEF w, n
  <2>3. scan' = [scan EXCEPT ![s] = r] /\ UNCHANGED <<diskVars, log, lastSeq, cursor>>
    BY <1>0, <2>0 DEF Begins, ScanType
  <2>4. StoreOK'
    BY <2>1, <2>3 DEF TypeInv, StoreOK
  <2>5. Len(passes) <= Len(passes')
    BY <1>0, <2>1
  <2>6. r.pass <= Len(passes') /\ UNCHANGED diskVars
    BY <2>1, <2>2, <2>3
  <2> HIDE DEF r
  <2> QED BY <2>2, <2>3, <2>4, <2>5, <2>6, TypeInvOwn
<1>1. CASE SweepPasses(s)
  <2> DEFINE r == [scan[s] EXCEPT !.pc = "insert", !.visible = Len(passes)]
  <2>1. r \in ScanType /\ r.pass = scan[s].pass /\ (r.pc = "hash") = (r.file # <<>>)
    BY <1>0, <1>1 DEF SweepPasses, ScanType, PC
  <2>2. scan' = [scan EXCEPT ![s] = r] /\ UNCHANGED <<diskVars, log, lastSeq, cursor, passes>>
    BY <1>0, <1>1 DEF SweepPasses, ScanType, storeVars
  <2>3. StoreOK' /\ r.pass <= Len(passes') /\ Len(passes) <= Len(passes') /\ UNCHANGED diskVars
    BY <1>0, <2>1, <2>2 DEF TypeInv, StoreOK
  <2> HIDE DEF r
  <2> QED BY <2>1, <2>2, <2>3, TypeInvOwn
<1>2. CASE LoadKnown(s)
  <2> DEFINE r == [scan[s] EXCEPT !.pc = "open", !.known = KnownState(lastSeq)]
  <2>1. KnownState(lastSeq) \in Known
    BY <1>0, KnownStateType
  <2>2. r \in ScanType /\ r.pass = scan[s].pass /\ (r.pc = "hash") = (r.file # <<>>)
    BY <1>0, <1>2, <2>1 DEF LoadKnown, ScanType, PC
  <2>3. scan' = [scan EXCEPT ![s] = r] /\ UNCHANGED <<diskVars, log, lastSeq, cursor, passes>>
    BY <1>0, <1>2 DEF LoadKnown, ScanType, storeVars
  <2>4. StoreOK' /\ r.pass <= Len(passes') /\ Len(passes) <= Len(passes') /\ UNCHANGED diskVars
    BY <1>0, <2>2, <2>3 DEF TypeInv, StoreOK
  <2> HIDE DEF r
  <2> QED BY <2>2, <2>3, <2>4, TypeInvOwn
<1>3. CASE RootUnavailable(s) \/ WriteFails(s)
  <2>1. /\ scan' = [scan EXCEPT ![s] = Idle] /\ UNCHANGED <<diskVars, log, lastSeq, cursor>>
        /\ \E v \in Status : passes' = [passes EXCEPT ![scan[s].pass] = v]
    BY <1>3 DEF RootUnavailable, WriteFails, Status
  <2>2. passes' \in Seq(Status) /\ Len(passes') = Len(passes)
    <3>1. PICK v \in Status : passes' = [passes EXCEPT ![scan[s].pass] = v]
      BY <2>1
    <3> DEFINE k == scan[s].pass
    <3>2. passes' = [passes EXCEPT ![k] = v] /\ passes \in Seq(Status)
      BY <1>0, <3>1
    <3> HIDE DEF k
    <3> QED BY <3>2, ExceptInSeq
  <2>3. StoreOK' /\ Len(passes) <= Len(passes') /\ Idle.pass <= Len(passes') /\ UNCHANGED diskVars
    BY <1>0, <1>i, <2>1, <2>2 DEF TypeInv, StoreOK
  <2> QED BY <1>i, <2>1, <2>3, TypeInvOwn
<1>4. CASE OpenRoot(s)
  <2> DEFINE r == [scan[s] EXCEPT !.pc = "walk", !.todo = {Root}, !.rules = rules]
  <2>1. rules \in SUBSET (Locator \cup Dir) /\ {Root} \in SUBSET Entry
    BY DEF TypeInv, DiskOK, Entry
  <2>2. r \in ScanType /\ r.pass = scan[s].pass /\ (r.pc = "hash") = (r.file # <<>>)
    BY <1>0, <1>4, <2>1 DEF OpenRoot, ScanType, PC
  <2>3. scan' = [scan EXCEPT ![s] = r] /\ UNCHANGED <<diskVars, log, lastSeq, cursor, passes>>
    BY <1>0, <1>4 DEF OpenRoot, ScanType, storeVars
  <2>4. StoreOK' /\ r.pass <= Len(passes') /\ Len(passes) <= Len(passes') /\ UNCHANGED diskVars
    BY <1>0, <2>2, <2>3 DEF TypeInv, StoreOK
  <2> HIDE DEF r
  <2> QED BY <2>2, <2>3, <2>4, TypeInvOwn
<1>5. CASE AppendObservations(s)
  <2> DEFINE r == [scan[s] EXCEPT !.pc = "cursor"]
  <2>1. r \in ScanType /\ r.pass = scan[s].pass /\ (r.pc = "hash") = (r.file # <<>>)
    BY <1>0, <1>5 DEF AppendObservations, ScanType, PC
  <2>2. scan' = [scan EXCEPT ![s] = r] /\ UNCHANGED <<diskVars, lastSeq, cursor, passes>>
    BY <1>0, <1>5 DEF AppendObservations, ScanType
  <2>3. PICK new \in Seq(Observation) : log' = log \o new
    BY <1>5, AppendedRows DEF AppendObservations
  <2>4. log' \in Seq(Observation) /\ Len(log') = Len(log) + Len(new) /\ Len(new) \in Nat
    BY <1>0, <2>3, ConcatProperties, LenProperties
  <2>5. lastSeq' \in 0..Len(log')
    BY <1>0, <2>2, <2>4
  <2>6. StoreOK' /\ r.pass <= Len(passes') /\ Len(passes) <= Len(passes') /\ UNCHANGED diskVars
    BY <1>0, <2>1, <2>2, <2>4, <2>5 DEF TypeInv, StoreOK
  <2> HIDE DEF r
  <2> QED BY <2>1, <2>2, <2>6, TypeInvOwn
<1>6. CASE SetCursor(s)
  <2> DEFINE r == [scan[s] EXCEPT !.pc = "finish"]
  <2>1. r \in ScanType /\ r.pass = scan[s].pass /\ (r.pc = "hash") = (r.file # <<>>)
    BY <1>0, <1>6 DEF SetCursor, ScanType, PC
  <2>2. scan' = [scan EXCEPT ![s] = r] /\ UNCHANGED <<diskVars, log, lastSeq, passes>>
    BY <1>0, <1>6 DEF SetCursor, ScanType
  <2>3. cursor' \in Locator \cup {NoCursor}
    BY <1>0, <1>6 DEF SetCursor, ScanType, TypeInv, StoreOK
  <2>4. StoreOK' /\ r.pass <= Len(passes') /\ Len(passes) <= Len(passes') /\ UNCHANGED diskVars
    BY <1>0, <2>1, <2>2, <2>3 DEF TypeInv, StoreOK
  <2> HIDE DEF r
  <2> QED BY <2>1, <2>2, <2>4, TypeInvOwn
<1>7. CASE FinishPass(s)
  <2> DEFINE status == Coverage(scan[s], scan[s].resume)
             r == [scan[s] EXCEPT !.pc = "apply", !.status = status]
  <2>1. status \in Status
    BY DEF Coverage, Status
  <2> HIDE DEF status
  <2>2. r \in ScanType /\ r.pass = scan[s].pass /\ (r.pc = "hash") = (r.file # <<>>)
    BY <1>0, <1>7, <2>1 DEF FinishPass, ScanType, PC
  <2>3. /\ scan' = [scan EXCEPT ![s] = r] /\ UNCHANGED <<diskVars, log, lastSeq, cursor>>
        /\ passes' = [passes EXCEPT ![scan[s].pass] = status]
    BY <1>0, <1>7 DEF FinishPass, ScanType, status
  <2>4. passes' \in Seq(Status) /\ Len(passes') = Len(passes)
    BY <1>0, <2>1, <2>3, ExceptInSeq
  <2>5. StoreOK' /\ r.pass <= Len(passes') /\ Len(passes) <= Len(passes') /\ UNCHANGED diskVars
    BY <1>0, <2>2, <2>3, <2>4 DEF TypeInv, StoreOK
  <2> HIDE DEF r
  <2> QED BY <2>2, <2>3, <2>5, TypeInvOwn
<1>8. CASE Apply(s) \/ Crash(s)
  <2>1. /\ scan' = [scan EXCEPT ![s] = Idle] /\ UNCHANGED <<diskVars, log, cursor, passes>>
        /\ lastSeq' \in {lastSeq, Len(log)}
    BY <1>8 DEF Apply, Crash, storeVars
  <2>2. StoreOK' /\ Len(passes) <= Len(passes') /\ Idle.pass <= Len(passes') /\ UNCHANGED diskVars
    BY <1>0, <1>i, <2>1 DEF TypeInv, StoreOK
  <2> QED BY <1>i, <2>1, <2>2, TypeInvOwn
<1> QED BY <1>b, <1>1, <1>2, <1>3, <1>4, <1>5, <1>6, <1>7, <1>8

LEMMA TypeInvStep == TypeInv /\ [Next]_vars => TypeInv'
<1>1. ASSUME TypeInv, NEW s \in Scanner, Run(s) \/ WriteFails(s) \/ Crash(s) PROVE TypeInv'
  BY <1>1, TypeInvVisit, TypeInvHash, TypeInvStore DEF Run
<1>2. ASSUME TypeInv, UNCHANGED vars PROVE TypeInv'
  BY <1>2 DEF vars, diskVars, storeVars, TypeInv, DiskOK, StoreOK, ScanOK
<1> QED BY <1>1, <1>2, TypeInvUser DEF Next

LEMMA TypeInvAlways == Spec => []TypeInv
  BY TypeInvInit, TypeInvStep, PTL DEF Spec

\* Every reachable state is well typed: the projection is never ahead of the log, a
\* scanner's pass exists, what it takes to be known is keyed by files.
THEOREM TypeCorrect == Spec => []TypeOK
<1>1. TypeInv => TypeOK
  <2> SUFFICES ASSUME TypeInv PROVE TypeOK
    OBVIOUS
  <2>1. \A k \in DOMAIN passes : passes[k] \in Status
    BY DEF TypeInv, StoreOK
  <2>2. ASSUME NEW s \in Scanner
        PROVE  /\ scan[s].pass \in 0..Len(passes)
               /\ scan[s].todo \subseteq Entry
               /\ scan[s].seen \subseteq Locator
               /\ DOMAIN scan[s].known \subseteq Locator
               /\ (scan[s].pc = "hash") = (scan[s].file # <<>>)
    <3>1. scan[s] \in ScanType /\ ScanOK(s) /\ Len(passes) \in Nat
      BY DEF TypeInv, ScanOK, StoreOK
    <3>2. scan[s].known \in Known /\ scan[s].pass \in Nat
      BY <3>1 DEF ScanType
    <3> QED BY <3>1, <3>2, KnownFacts DEF ScanType, ScanOK
  <2> QED BY <2>1, <2>2 DEF TypeInv, TypeOK, DiskOK, StoreOK, Status
<1> QED BY <1>1, TypeInvAlways, PTL

-----------------------------------------------------------------------------
(* The walk.                                                               *)

Underway == PC \ {"idle", "begin", "insert"}

Walked == {"walk", "hash", "cursor", "finish"}

\* A file that is gone now was gone at some moment of every pass under way.
MissedInv ==
  \A s \in Scanner : scan[s].pc \in Underway =>
    \A l \in Locator : disk[l] = Gone => l \in missed[s]

\* A file is ahead of a walk if it or a directory above it is still to be visited.
Ahead(s, l) == ({l} \cup Above(l)) \cap scan[s].todo # {}

Accounted(s, l) == l \in scan[s].seen \/ IsHidden(l, scan[s].ignored) \/ Ahead(s, l)

\* A walk that has skipped nothing accounts for every file that has stayed on disk:
\* it has seen it, hides it, or has it or a directory above it still to visit.
WalkInv(s) ==
  /\ scan[s].pc \in {"begin", "insert", "known", "open"} \cup Walked => (~ scan[s].resume => scan[s].cursor = NoCursor)
  /\ scan[s].pc \in {"begin", "insert", "known", "open"} => scan[s].ignored = {} /\ scan[s].obs = <<>>
  /\ scan[s].pc \in Walked =>
       /\ scan[s].ignored \subseteq scan[s].rules
       /\ \A k \in DOMAIN scan[s].obs : scan[s].obs[k].kind = "file"
       /\ scan[s].complete /\ ~ scan[s].skipped /\ scan[s].cursor = NoCursor =>
            \A l \in Locator \ missed[s] : Accounted(s, l)
  /\ scan[s].pc \in {"cursor", "finish"} => scan[s].todo = {}

HonestInv ==
  /\ missed \in [Scanner -> SUBSET Locator]
  /\ MissedInv
  /\ \A s \in Scanner : WalkInv(s)

\* A directory that is entered is replaced by what leads on from it.
LEMMA EnterKeepsAhead ==
  ASSUME NEW s \in Scanner, NEW e \in Entry \ Locator,
         scan'[s].todo = (scan[s].todo \ {e}) \cup Listing(e),
         NEW l \in Locator, disk[l] # Gone, Ahead(s, l)
  PROVE  Ahead(s, l)'
<1>1. CASE e \in Above(l)
  <2>1. PICK c \in ({l} \cup Above(l)) \ {Root} : Parent[c] = e
    BY <1>1, OnTheWay
  <2>2. c = l \/ c \in Dir
    BY <2>1, AboveDirs
  <2>3. c \in Listing(e)
    BY <2>1, <2>2, ScanAssumption DEF Listing
  <2> QED BY <2>1, <2>3 DEF Ahead
<1>2. CASE e \notin Above(l)
  BY <1>2 DEF Ahead
<1> QED BY <1>1, <1>2

LEMMA FileKeepsAhead ==
  ASSUME NEW s \in Scanner, NEW e \in Locator, scan'[s].todo = scan[s].todo \ {e},
         NEW l \in Locator \ {e}, Ahead(s, l)
  PROVE  Ahead(s, l)'
<1>1. e \notin Above(l)
  BY AboveDirs, ScanAssumption
<1> QED BY <1>1 DEF Ahead

LEMMA HonestInvInit == Init => HonestInv
  BY DEF Init, HonestInv, MissedInv, WalkInv, Idle, Underway, Walked, PC

\* The disk changes; the scanners do not.
LEMMA HonestUser == TypeInv /\ HonestInv /\ User => HonestInv'
<1> SUFFICES ASSUME TypeInv, HonestInv, User PROVE HonestInv'
  OBVIOUS
<1>1. ASSUME UNCHANGED scan, missed' \in [Scanner -> SUBSET Locator],
             \A s \in Scanner : missed[s] \subseteq missed'[s],
             \A l \in Locator, s \in Scanner : disk'[l] = Gone => disk[l] = Gone \/ l \in missed'[s]
      PROVE  HonestInv'
  <2>1. MissedInv'
    BY <1>1 DEF HonestInv, MissedInv
  <2>2. \A s \in Scanner : WalkInv(s)'
    BY <1>1 DEF HonestInv, WalkInv, Accounted, Ahead
  <2> QED BY <1>1, <2>1, <2>2 DEF HonestInv
<1>2. ASSUME NEW l \in Locator, NEW v \in Version \cup {Gone}, Edit(l, v) PROVE HonestInv'
  <2>1. /\ missed' \in [Scanner -> SUBSET Locator]
        /\ \A s \in Scanner : missed[s] \subseteq missed'[s]
        /\ v = Gone => \A s \in Scanner : l \in missed'[s]
    BY <1>2 DEF Edit, HonestInv
  <2>2. \A k \in Locator, s \in Scanner : disk'[k] = Gone => disk[k] = Gone \/ k \in missed'[s]
    BY <1>2, <2>1 DEF Edit, TypeInv, DiskOK
  <2>3. UNCHANGED scan
    BY <1>2 DEF Edit, Change
  <2> QED BY <1>1, <2>1, <2>2, <2>3
<1>3. CASE (\E state \in RootStates : Mount(state)) \/ (\E d \in Dir : Forbid(d))
           \/ (\E e \in Locator \cup Dir : EditIgnores(e))
  <2>1. UNCHANGED <<scan, missed, disk>>
    BY <1>3 DEF Mount, Forbid, EditIgnores, Change
  <2> QED BY <1>1, <2>1 DEF HonestInv
<1>4. ASSUME NEW s \in Scanner, NEW resume \in Resumes, NEW limit \in Limits, StartScan(s, resume, limit)
      PROVE  HonestInv'
  <2>1. /\ UNCHANGED <<disk, missed>> /\ \A t \in Scanner \ {s} : scan'[t] = scan[t]
        /\ scan'[s] = [Idle EXCEPT !.pc = "begin", !.resume = resume, !.limit = limit,
                                   !.cursor = IF resume THEN cursor ELSE NoCursor]
    BY <1>4 DEF StartScan, diskVars, history, TypeInv
  <2>2. /\ scan'[s].pc = "begin" /\ scan'[s].ignored = {} /\ scan'[s].obs = <<>>
        /\ ~ scan'[s].resume => scan'[s].cursor = NoCursor
    BY <2>1, ScanAssumption DEF Idle
  <2>3. WalkInv(s)'
    BY <2>2 DEF WalkInv, Walked
  <2>4. \A t \in Scanner \ {s} : WalkInv(t)'
    BY <2>1 DEF HonestInv, WalkInv, Accounted, Ahead
  <2>5. MissedInv'
    BY <2>1, <2>2 DEF HonestInv, MissedInv, Underway
  <2> QED BY <2>1, <2>3, <2>4, <2>5 DEF HonestInv
<1> QED BY <1>2, <1>3, <1>4 DEF User

\* A step of one scanner: the others are where they were.
LEMMA HonestOwn ==
  ASSUME HonestInv, NEW s \in Scanner, UNCHANGED <<disk, missed>>,
         \A t \in Scanner \ {s} : scan'[t] = scan[t],
         scan'[s].pc \in Underway => scan[s].pc \in Underway,
         WalkInv(s)'
  PROVE  HonestInv'
<1>1. \A t \in Scanner \ {s} : WalkInv(t)'
  BY DEF HonestInv, WalkInv, Accounted, Ahead
<1>2. MissedInv'
  BY DEF HonestInv, MissedInv
<1> QED BY <1>1, <1>2 DEF HonestInv

\* A visit that skips nothing loses no file that is there.
LEMMA VisitAccounts ==
  ASSUME TypeInv, NEW s \in Scanner, NEW e \in Entry, Visit(s, e)
  PROVE  LET w == scan[s]
             x == scan'[s]
         IN  /\ x.pc \in {"walk", "hash"} /\ x.resume = w.resume /\ x.cursor = w.cursor
             /\ x.rules = w.rules /\ x.obs = w.obs /\ x.known = w.known
             /\ x.ignored = w.ignored \/ (x.ignored = w.ignored \cup {e} /\ e \in w.rules)
             /\ x.complete /\ ~ x.skipped /\ x.cursor = NoCursor =>
                  /\ w.complete /\ ~ w.skipped
                  /\ \A l \in Locator : disk[l] # Gone /\ Accounted(s, l) => Accounted(s, l)'
<1> DEFINE w == scan[s]
           x == scan'[s]
<1>0. w \in ScanType
  BY DEF TypeInv
<1> DEFINE d == Done(s, e)
<1>3. /\ d \in ScanType /\ d.pc = "walk" /\ d.resume = w.resume /\ d.cursor = w.cursor
      /\ d.rules = w.rules /\ d.obs = w.obs /\ d.known = w.known /\ d.ignored = w.ignored
      /\ d.seen = w.seen /\ d.complete = w.complete /\ d.skipped = w.skipped /\ d.todo = w.todo \ {e}
  <2>1. w.pc = "walk"
    BY DEF Visit, Visits, SkipIgnored, EnterDir, EnterDirFails, PassOver, Truncate,
       StatFails, Unchanged, Changed, VisitsFile, Within, Stat
  <2> QED BY <1>0, <2>1 DEF Done, ScanType
<1>4. \A r : Walk(s, r) => x = r
  BY DEF Walk, TypeInv
<1> HIDE DEF x, d, w
<1> SUFFICES
      /\ x.pc \in {"walk", "hash"} /\ x.resume = w.resume /\ x.cursor = w.cursor
      /\ x.rules = w.rules /\ x.obs = w.obs /\ x.known = w.known
      /\ x.ignored = w.ignored \/ (x.ignored = w.ignored \cup {e} /\ e \in w.rules)
      /\ x.complete /\ ~ x.skipped /\ x.cursor = NoCursor =>
           /\ w.complete /\ ~ w.skipped
           /\ \A l \in Locator : disk[l] # Gone /\ Accounted(s, l) => Accounted(s, l)'
  BY DEF w, x
<1>5. CASE SkipIgnored(s, e)
  <2>1. x = [d EXCEPT !.ignored = @ \cup {e}] /\ e \in w.rules
    BY <1>4, <1>5 DEF SkipIgnored, Ignored, d, w
  <2>2. /\ x.pc = "walk" /\ x.resume = w.resume /\ x.cursor = w.cursor /\ x.rules = w.rules
        /\ x.obs = w.obs /\ x.known = w.known /\ x.ignored = w.ignored \cup {e}
        /\ x.complete = w.complete /\ x.skipped = w.skipped /\ x.seen = w.seen /\ x.todo = w.todo \ {e}
    BY <1>3, <2>1 DEF ScanType
  <2>3. \A l \in Locator : Accounted(s, l) => Accounted(s, l)'
    BY <2>2 DEF Accounted, Ahead, IsHidden, w, x
  <2> QED BY <2>1, <2>2, <2>3
<1>6. CASE e \notin Locator /\ EnterDir(s, e)
  <2>1. x = [d EXCEPT !.todo = @ \cup Listing(e)]
    BY <1>4, <1>6 DEF EnterDir, d
  <2>2. /\ x.pc = "walk" /\ x.resume = w.resume /\ x.cursor = w.cursor /\ x.rules = w.rules
        /\ x.obs = w.obs /\ x.known = w.known /\ x.ignored = w.ignored /\ x.complete = w.complete
        /\ x.skipped = w.skipped /\ x.seen = w.seen /\ x.todo = (w.todo \ {e}) \cup Listing(e)
    BY <1>3, <2>1 DEF ScanType
  <2>3. \A l \in Locator : disk[l] # Gone /\ Ahead(s, l) => Ahead(s, l)'
    BY <1>6, <2>2, EnterKeepsAhead DEF w, x
  <2> QED BY <2>2, <2>3 DEF Accounted, w, x
<1>7. CASE EnterDirFails(s, e) \/ StatFails(s, e)
  <2>1. x = [d EXCEPT !.skipped = TRUE]
    BY <1>4, <1>7 DEF EnterDirFails, StatFails, d
  <2>2. /\ x.pc = "walk" /\ x.resume = w.resume /\ x.cursor = w.cursor /\ x.rules = w.rules
        /\ x.obs = w.obs /\ x.known = w.known /\ x.ignored = w.ignored /\ x.skipped
    BY <1>3, <2>1 DEF ScanType
  <2> QED BY <2>2
<1>8. CASE PassOver(s, e)
  <2>1. x = d /\ w.cursor # NoCursor
    BY <1>4, <1>8 DEF PassOver, AtOrBeforeCursor, d, w
  <2> QED BY <1>3, <2>1
<1>9. CASE Truncate(s, e)
  <2>1. x = [w EXCEPT !.complete = FALSE, !.todo = {}] /\ w.pc = "walk"
    BY <1>4, <1>9 DEF Truncate, VisitsFile, Visits, w
  <2>2. /\ x.pc = "walk" /\ x.resume = w.resume /\ x.cursor = w.cursor /\ x.rules = w.rules
        /\ x.obs = w.obs /\ x.known = w.known /\ x.ignored = w.ignored /\ ~ x.complete
    BY <1>0, <2>1 DEF ScanType
  <2> QED BY <2>2
<1>10. CASE e \in Locator /\ (Unchanged(s, e) \/ Changed(s, e))
  <2>1. /\ x.pc \in {"walk", "hash"} /\ x.resume = w.resume /\ x.cursor = w.cursor /\ x.rules = w.rules
        /\ x.obs = w.obs /\ x.known = w.known /\ x.ignored = w.ignored /\ x.complete = w.complete
        /\ x.skipped = w.skipped /\ x.seen = w.seen \cup {e} /\ x.todo = w.todo \ {e}
    <3>1. CASE Unchanged(s, e)
      <4>1. x = [d EXCEPT !.seen = @ \cup {e}, !.next = e]
        BY <1>4, <3>1 DEF Unchanged, d
      <4> QED BY <1>3, <4>1 DEF ScanType
    <3>2. CASE Changed(s, e)
      <4>1. x = [d EXCEPT !.pc = "hash", !.seen = @ \cup {e}, !.file = <<e, disk[e]>>]
        BY <1>4, <3>2 DEF Changed, d
      <4> QED BY <1>3, <4>1 DEF ScanType
    <3> QED BY <1>10, <3>1, <3>2
  <2>2. \A l \in Locator \ {e} : Ahead(s, l) => Ahead(s, l)'
    BY <1>10, <2>1, FileKeepsAhead DEF w, x
  <2> QED BY <2>1, <2>2 DEF Accounted, w, x
<1> QED BY <1>5, <1>6, <1>7, <1>8, <1>9, <1>10 DEF Visit

LEMMA HonestVisit ==
  ASSUME TypeInv, HonestInv, NEW s \in Scanner, NEW e \in Entry, Visit(s, e)
  PROVE  HonestInv'
<1> DEFINE w == scan[s]
           x == scan'[s]
<1>0. /\ w.pc = "walk" /\ WalkInv(s)
      /\ UNCHANGED <<disk, missed>> /\ \A t \in Scanner \ {s} : scan'[t] = scan[t]
  BY DEF TypeInv, HonestInv, Visit, Visits, SkipIgnored, EnterDir, EnterDirFails, PassOver, Truncate,
     StatFails, Unchanged, Changed, VisitsFile, Within, Stat, Walk, diskVars, history
<1>1. /\ x.pc \in {"walk", "hash"} /\ x.resume = w.resume /\ x.cursor = w.cursor
      /\ x.rules = w.rules /\ x.obs = w.obs
      /\ x.ignored = w.ignored \/ (x.ignored = w.ignored \cup {e} /\ e \in w.rules)
      /\ x.complete /\ ~ x.skipped /\ x.cursor = NoCursor =>
           /\ w.complete /\ ~ w.skipped
           /\ \A l \in Locator : disk[l] # Gone /\ Accounted(s, l) => Accounted(s, l)'
  BY VisitAccounts
<1>2. \A l \in Locator \ missed[s] : disk[l] # Gone
  BY <1>0 DEF HonestInv, MissedInv, Underway, PC
<1>3. WalkInv(s)'
  BY <1>0, <1>1, <1>2 DEF WalkInv, Walked
<1> QED BY <1>0, <1>1, <1>3, HonestOwn DEF Underway, PC

LEMMA HonestHash ==
  ASSUME TypeInv, HonestInv, NEW s \in Scanner, Unstable(s) \/ HashFails(s) \/ HashFile(s)
  PROVE  HonestInv'
<1> DEFINE w == scan[s]
           x == scan'[s]
<1>0. /\ w \in ScanType /\ w.pc = "hash" /\ WalkInv(s)
      /\ UNCHANGED <<disk, missed>> /\ \A t \in Scanner \ {s} : scan'[t] = scan[t]
  BY DEF TypeInv, HonestInv, Unstable, HashFails, HashFile, Walk, diskVars, history
<1>1. /\ x.pc = "walk" /\ x.resume = w.resume /\ x.cursor = w.cursor /\ x.rules = w.rules
      /\ x.ignored = w.ignored /\ x.seen = w.seen /\ x.todo = w.todo /\ x.complete = w.complete
      /\ x.skipped \in {w.skipped, TRUE}
      /\ x.obs = w.obs \/ \E o : x.obs = Append(w.obs, o) /\ o.kind = "file"
  <2>1. \A r : Walk(s, r) => x = r
    BY DEF Walk, TypeInv
  <2> HIDE DEF x
  <2>2. CASE Unstable(s)
    <3>1. x = [w EXCEPT !.pc = "walk", !.file = <<>>]
      BY <2>1, <2>2 DEF Unstable
    <3> HIDE DEF w
    <3> QED BY <1>0, <3>1 DEF ScanType
  <2>3. CASE HashFails(s)
    <3>1. x = [w EXCEPT !.pc = "walk", !.file = <<>>, !.skipped = TRUE]
      BY <2>1, <2>3 DEF HashFails
    <3> HIDE DEF w
    <3> QED BY <1>0, <3>1 DEF ScanType
  <2>4. CASE HashFile(s)
    <3> DEFINE l == w.file[1]
               o == FileObs(l, w.file[2], disk[l], PriorSeq(w.known, l))
               obs == Append(w.obs, o)
               n == w.scanned + 1
    <3>1. x = [w EXCEPT !.pc = "walk", !.file = <<>>, !.next = l, !.scanned = n, !.obs = obs]
      BY <2>1, <2>4 DEF HashFile
    <3>2. o.kind = "file"
      BY DEF FileObs
    <3> HIDE DEF w, l, n, obs
    <3>3. /\ x.pc = "walk" /\ x.resume = w.resume /\ x.cursor = w.cursor /\ x.rules = w.rules
          /\ x.ignored = w.ignored /\ x.seen = w.seen /\ x.todo = w.todo /\ x.complete = w.complete
          /\ x.skipped = w.skipped /\ x.obs = obs
      BY <1>0, <3>1 DEF ScanType
    <3> QED BY <3>2, <3>3 DEF obs
  <2> QED BY <2>2, <2>3, <2>4
<1>2. \A l \in Locator : Accounted(s, l) => Accounted(s, l)'
  BY <1>1 DEF Accounted, Ahead
<1>3. \A k \in DOMAIN x.obs : x.obs[k].kind = "file"
  <2>1. w.obs \in Seq(Observation) /\ \A k \in DOMAIN w.obs : w.obs[k].kind = "file"
    BY <1>0 DEF ScanType, WalkInv, Walked
  <2>2. ASSUME NEW o, x.obs = Append(w.obs, o), o.kind = "file"
        PROVE  \A k \in DOMAIN x.obs : x.obs[k].kind = "file"
    <3> HIDE DEF w, x
    <3>1. Len(w.obs) \in Nat /\ DOMAIN w.obs = 1..Len(w.obs)
      BY <2>1, LenProperties
    <3>2. /\ DOMAIN x.obs = 1 .. Len(w.obs) + 1
          /\ \A k \in 1 .. Len(w.obs) : x.obs[k] = w.obs[k]
          /\ x.obs[Len(w.obs) + 1] = o
      BY <2>1, <2>2, <3>1
    <3> QED BY <2>1, <2>2, <3>1, <3>2
  <2> QED BY <1>1, <2>1, <2>2
<1>4. WalkInv(s)'
  BY <1>0, <1>1, <1>2, <1>3 DEF WalkInv, Walked
<1> QED BY <1>0, <1>1, <1>4, HonestOwn DEF Underway, PC

LEMMA HonestStore ==
  ASSUME TypeInv, HonestInv, NEW s \in Scanner,
         \/ BeginPass(s) \/ SweepPasses(s) \/ CommitPass(s) \/ LoadKnown(s) \/ RootUnavailable(s) \/ OpenRoot(s)
         \/ AppendObservations(s) \/ SetCursor(s) \/ FinishPass(s) \/ Apply(s)
         \/ WriteFails(s) \/ Crash(s)
  PROVE  HonestInv'
<1> DEFINE w == scan[s]
           x == scan'[s]
<1>0. /\ w \in ScanType /\ WalkInv(s) /\ scan \in [Scanner -> ScanType]
      /\ UNCHANGED disk
  BY DEF TypeInv, HonestInv, BeginPass, SweepPasses, CommitPass, Begins, LoadKnown, RootUnavailable, OpenRoot, AppendObservations,
     SetCursor, FinishPass, Apply, WriteFails, Crash, diskVars
<1>1. CASE BeginPass(s) \/ CommitPass(s)
  <2>1. /\ missed' = [missed EXCEPT ![s] = {l \in Locator : disk[l] = Gone}]
        /\ w.pc \in {"begin", "insert"} /\ \A t \in Scanner \ {s} : scan'[t] = scan[t]
        /\ x = [w EXCEPT !.pc = "known", !.pass = Len(passes'), !.visible = 0]
    BY <1>0, <1>1, BeginsHow DEF Begins, ScanType
  <2>2. x.pc = "known" /\ x.resume = w.resume /\ x.cursor = w.cursor /\ x.ignored = w.ignored /\ x.obs = w.obs
    <3> HIDE DEF w, x
    <3> QED BY <1>0, <2>1 DEF ScanType
  <2>3. WalkInv(s)'
    BY <1>0, <2>1, <2>2 DEF WalkInv, Walked
  <2>4. \A t \in Scanner \ {s} : WalkInv(t)'
    BY <2>1 DEF HonestInv, WalkInv, Accounted, Ahead
  <2>5. MissedInv' /\ missed' \in [Scanner -> SUBSET Locator]
    BY <1>0, <2>1 DEF HonestInv, MissedInv
  <2> QED BY <2>3, <2>4, <2>5 DEF HonestInv
<1>b. CASE SweepPasses(s)
  <2>1. /\ w.pc = "begin" /\ UNCHANGED missed /\ \A t \in Scanner \ {s} : scan'[t] = scan[t]
        /\ x = [w EXCEPT !.pc = "insert", !.visible = Len(passes)]
    BY <1>0, <1>b DEF SweepPasses, history
  <2>2. x.pc = "insert" /\ x.resume = w.resume /\ x.cursor = w.cursor /\ x.ignored = w.ignored /\ x.obs = w.obs
    <3> HIDE DEF w, x
    <3> QED BY <1>0, <2>1 DEF ScanType
  <2>3. WalkInv(s)'
    BY <1>0, <2>1, <2>2 DEF WalkInv, Walked
  <2> QED BY <1>0, <2>1, <2>2, <2>3, HonestOwn DEF Underway, PC
<1>2. CASE LoadKnown(s)
  <2>1. /\ w.pc = "known" /\ UNCHANGED missed /\ \A t \in Scanner \ {s} : scan'[t] = scan[t]
        /\ x = [w EXCEPT !.pc = "open", !.known = KnownState(lastSeq)]
    BY <1>0, <1>2 DEF LoadKnown
  <2>2. x.pc = "open" /\ x.resume = w.resume /\ x.cursor = w.cursor /\ x.ignored = w.ignored /\ x.obs = w.obs
    <3> HIDE DEF w, x
    <3> QED BY <1>0, <2>1 DEF ScanType
  <2>3. WalkInv(s)'
    BY <1>0, <2>1, <2>2 DEF WalkInv, Walked
  <2> QED BY <1>0, <2>1, <2>3, HonestOwn DEF Underway, PC
<1>3. CASE OpenRoot(s)
  <2>1. /\ w.pc = "open" /\ UNCHANGED missed /\ \A t \in Scanner \ {s} : scan'[t] = scan[t]
        /\ x = [w EXCEPT !.pc = "walk", !.todo = {Root}, !.rules = rules]
    BY <1>0, <1>3 DEF OpenRoot, history
  <2>2. /\ x.pc = "walk" /\ x.resume = w.resume /\ x.cursor = w.cursor /\ x.ignored = w.ignored
        /\ x.obs = w.obs /\ x.todo = {Root}
    <3> HIDE DEF w, x
    <3> QED BY <1>0, <2>1 DEF ScanType
  <2>3. \A l \in Locator : Accounted(s, l)'
    BY <2>2, TreeAssumption DEF Accounted, Ahead
  <2>4. WalkInv(s)'
    BY <1>0, <2>1, <2>2, <2>3 DEF WalkInv, Walked
  <2> QED BY <1>0, <2>1, <2>4, HonestOwn DEF Underway, PC
<1>4. CASE AppendObservations(s) \/ SetCursor(s)
  <2>1. /\ w.pc \in {"walk", "cursor"} /\ w.todo = {} /\ UNCHANGED missed
        /\ \A t \in Scanner \ {s} : scan'[t] = scan[t]
        /\ x.pc \in {"cursor", "finish"} /\ x.resume = w.resume /\ x.cursor = w.cursor
        /\ x.rules = w.rules /\ x.ignored = w.ignored /\ x.obs = w.obs /\ x.todo = w.todo
        /\ x.seen = w.seen /\ x.complete = w.complete /\ x.skipped = w.skipped
    <3>1. CASE AppendObservations(s)
      <4>1. x = [w EXCEPT !.pc = "cursor"] /\ w.pc = "walk" /\ w.todo = {} /\ UNCHANGED missed
            /\ \A t \in Scanner \ {s} : scan'[t] = scan[t]
        BY <1>0, <3>1 DEF AppendObservations
      <4> HIDE DEF w, x
      <4> QED BY <1>0, <4>1 DEF ScanType
    <3>2. CASE SetCursor(s)
      <4>1. x = [w EXCEPT !.pc = "finish"] /\ w.pc = "cursor" /\ UNCHANGED missed
            /\ \A t \in Scanner \ {s} : scan'[t] = scan[t]
        BY <1>0, <3>2 DEF SetCursor, history
      <4>2. w.todo = {}
        BY <1>0, <4>1 DEF WalkInv
      <4> HIDE DEF w, x
      <4> QED BY <1>0, <4>1, <4>2 DEF ScanType
    <3> QED BY <1>4, <3>1, <3>2
  <2>2. \A l \in Locator : Accounted(s, l) => Accounted(s, l)'
    BY <2>1 DEF Accounted, Ahead
  <2>3. WalkInv(s)'
    BY <1>0, <2>1, <2>2 DEF WalkInv, Walked
  <2> QED BY <1>0, <2>1, <2>3, HonestOwn DEF Underway, PC
<1>5. CASE FinishPass(s) \/ RootUnavailable(s) \/ Apply(s) \/ WriteFails(s) \/ Crash(s)
  <2>1. /\ UNCHANGED missed /\ \A t \in Scanner \ {s} : scan'[t] = scan[t]
        /\ x.pc = "idle" \/ (x.pc = "apply" /\ w.pc = "finish")
    <3>1. CASE FinishPass(s)
      <4>1. x = [w EXCEPT !.pc = "apply", !.status = Coverage(w, w.resume)] /\ w.pc = "finish"
            /\ UNCHANGED missed /\ \A t \in Scanner \ {s} : scan'[t] = scan[t]
        BY <1>0, <3>1 DEF FinishPass, history
      <4> HIDE DEF w, x
      <4> QED BY <1>0, <4>1 DEF ScanType
    <3>2. CASE RootUnavailable(s) \/ Apply(s) \/ WriteFails(s) \/ Crash(s)
      BY <1>0, <3>2 DEF RootUnavailable, Apply, WriteFails, Crash, Idle, history
    <3> QED BY <1>5, <3>1, <3>2
  <2>2. WalkInv(s)'
    BY <2>1 DEF WalkInv, Walked
  <2> QED BY <1>0, <2>1, <2>2, HonestOwn DEF Underway, PC
<1> QED BY <1>b, <1>1, <1>2, <1>3, <1>4, <1>5

LEMMA HonestInvStep == TypeInv /\ HonestInv /\ [Next]_vars => HonestInv'
<1>1. ASSUME TypeInv, HonestInv, NEW s \in Scanner, Run(s) \/ WriteFails(s) \/ Crash(s)
      PROVE  HonestInv'
  BY <1>1, HonestVisit, HonestHash, HonestStore DEF Run
<1>2. ASSUME HonestInv, UNCHANGED vars PROVE HonestInv'
  BY <1>2 DEF vars, diskVars, history, HonestInv, MissedInv, WalkInv, Accounted, Ahead
<1> QED BY <1>1, <1>2, HonestUser DEF Next

LEMMA HonestInvAlways == Spec => []HonestInv
  BY HonestInvInit, HonestInvStep, TypeInvAlways, PTL DEF Spec

\* A walk that is over and skipped nothing has met, or hides, every file that stayed.
LEMMA WalkOver ==
  ASSUME HonestInv, NEW s \in Scanner, scan[s].pc \in Walked, scan[s].todo = {},
         scan[s].complete, ~ scan[s].skipped, scan[s].cursor = NoCursor,
         NEW l \in Locator \ missed[s]
  PROVE  l \in scan[s].seen \/ IsHidden(l, scan[s].ignored)
BY DEF HonestInv, WalkInv, Accounted, Ahead

\* A step of a scanner leaves the others where they are.
LEMMA StepOfOne ==
  ASSUME NEW t \in Scanner, Run(t) \/ WriteFails(t) \/ Crash(t)
  PROVE  \E r : scan' = [scan EXCEPT ![t] = r]
<1>1. CASE \E e \in Entry : Visit(t, e)
  BY <1>1 DEF Visit, SkipIgnored, EnterDir, EnterDirFails, PassOver, Truncate, StatFails,
     Unchanged, Changed, Walk
<1>2. CASE Unstable(t) \/ HashFails(t) \/ HashFile(t)
  BY <1>2 DEF Unstable, HashFails, HashFile, Walk
<1>3. CASE \/ BeginPass(t) \/ SweepPasses(t) \/ CommitPass(t)
           \/ LoadKnown(t) \/ RootUnavailable(t) \/ OpenRoot(t)
           \/ AppendObservations(t) \/ SetCursor(t) \/ FinishPass(t) \/ Apply(t)
           \/ WriteFails(t) \/ Crash(t)
  BY <1>3 DEF BeginPass, SweepPasses, CommitPass, Begins, LoadKnown, RootUnavailable, OpenRoot,
     AppendObservations, SetCursor, FinishPass, Apply, WriteFails, Crash
<1> QED BY <1>1, <1>2, <1>3 DEF Run

\* A scanner is where it was unless the step is its own, or it starts.
LEMMA OwnSteps ==
  ASSUME TypeInv, [Next]_vars, NEW s \in Scanner, scan'[s].pc # scan[s].pc
  PROVE  \/ Run(s) \/ WriteFails(s) \/ Crash(s)
         \/ scan[s].pc = "idle" /\ scan'[s].pc = "begin"
<1>0. scan \in [Scanner -> ScanType] /\ scan[s] \in ScanType
  BY DEF TypeInv
<1>1. CASE UNCHANGED vars \/ User
  <2>1. PICK t \in Scanner, resume \in Resumes, limit \in Limits : StartScan(t, resume, limit)
    BY <1>1 DEF vars, User, Edit, Mount, Forbid, EditIgnores, Change
  <2> QED BY <1>0, <2>1 DEF StartScan, Idle
<1>2. ASSUME NEW t \in Scanner, Run(t) \/ WriteFails(t) \/ Crash(t)
      PROVE  Run(s) \/ WriteFails(s) \/ Crash(s)
  <2>1. t = s
    BY <1>0, <1>2, StepOfOne
  <2> QED BY <1>2, <2>1
<1> QED BY <1>1, <1>2 DEF Next

\* Where the steps of a scanner take it.
LEMMA VisitStaysWalking ==
  ASSUME TypeInv, NEW s \in Scanner, NEW e \in Entry, Visit(s, e)
  PROVE  scan[s].pc = "walk" /\ scan'[s].pc \in {"walk", "hash"}
<1>1. scan[s].pc = "walk"
  BY DEF Visit, Visits, SkipIgnored, EnterDir, EnterDirFails, PassOver, Truncate, StatFails,
     Unchanged, Changed, VisitsFile, Within, Stat
<1>2. scan'[s].pc \in {"walk", "hash"}
  BY VisitAccounts
<1> QED BY <1>1, <1>2

LEMMA OnlyAppendEndsWalk ==
  ASSUME TypeInv, [Next]_vars, NEW s \in Scanner, scan[s].pc = "walk", scan'[s].pc = "cursor"
  PROVE  AppendObservations(s)
<1>0. scan \in [Scanner -> ScanType] /\ scan[s] \in ScanType
  BY DEF TypeInv
<1>1. Run(s) \/ WriteFails(s) \/ Crash(s)
  BY OwnSteps
<1>2. ~ \E e \in Entry : Visit(s, e)
  BY VisitStaysWalking
<1>3. ~ (BeginPass(s) \/ SweepPasses(s) \/ CommitPass(s) \/ LoadKnown(s) \/ RootUnavailable(s) \/ OpenRoot(s) \/ Unstable(s)
         \/ HashFails(s) \/ HashFile(s) \/ SetCursor(s) \/ FinishPass(s) \/ Apply(s)
         \/ WriteFails(s) \/ Crash(s))
  BY <1>0 DEF BeginPass, SweepPasses, CommitPass, Begins, LoadKnown, RootUnavailable, OpenRoot, Unstable, HashFails, HashFile,
     SetCursor, FinishPass, Apply, WriteFails, Crash, Idle
<1> QED BY <1>1, <1>2, <1>3 DEF Run

LEMMA OnlyFinishPassApplies ==
  ASSUME TypeInv, [Next]_vars, NEW s \in Scanner, scan[s].pc = "finish", scan'[s].pc = "apply"
  PROVE  FinishPass(s)
<1>0. scan \in [Scanner -> ScanType] /\ scan[s] \in ScanType
  BY DEF TypeInv
<1>1. Run(s) \/ WriteFails(s) \/ Crash(s)
  BY OwnSteps
<1>2. ~ \E e \in Entry : Visit(s, e)
  BY VisitStaysWalking
<1>3. ~ (BeginPass(s) \/ SweepPasses(s) \/ CommitPass(s) \/ LoadKnown(s) \/ RootUnavailable(s) \/ OpenRoot(s) \/ Unstable(s)
         \/ HashFails(s) \/ HashFile(s) \/ AppendObservations(s) \/ SetCursor(s) \/ Apply(s)
         \/ WriteFails(s) \/ Crash(s))
  BY <1>0 DEF BeginPass, SweepPasses, CommitPass, Begins, LoadKnown, RootUnavailable, OpenRoot, Unstable, HashFails, HashFile,
     AppendObservations, SetCursor, Apply, WriteFails, Crash, Idle
<1> QED BY <1>1, <1>2, <1>3 DEF Run

\* Files that a pass misses when its walk is over were gone at some moment of it.
LEMMA MissingMissed ==
  ASSUME TypeInv, HonestInv, NEW s \in Scanner, scan[s].pc \in Walked, scan[s].todo = {},
         NEW l \in Missing(scan[s])
  PROVE  l \in missed[s]
<1>1. Coverage(scan[s], scan[s].cursor # NoCursor) = "complete"
      /\ l \notin scan[s].seen /\ ~ IsHidden(l, scan[s].ignored)
  BY DEF Missing
<1>2. l \in Locator
  BY MissingFinite
<1> QED BY <1>1, <1>2, WalkOver DEF Coverage

\* coverage.go and absent.go: whatever happens to the disk during a walk and however
\* many scanners overlap and die, absence is recorded only of a file that was not
\* there at some moment of the pass that records it.
THEOREM TombstoneHonestAlways == Spec => TombstoneHonest
<1>1. ASSUME TypeInv, HonestInv, [Next]_vars, NEW s \in Scanner,
             scan[s].pc = "walk", scan'[s].pc = "cursor",
             NEW i \in NewSeqs, Row(i).kind = "absent"
      PROVE  Row(i).loc \in missed[s]
  <2>1. AppendObservations(s)
    BY <1>1, OnlyAppendEndsWalk
  <2>2. \/ \E k \in DOMAIN scan[s].obs : log'[i] = scan[s].obs[k]
        \/ \E l \in Missing(scan[s]) : log'[i] = TombstoneOf(s, l)
    BY <1>1, <2>1, AppendGrows
  <2>3. \A k \in DOMAIN scan[s].obs : scan[s].obs[k].kind = "file"
    BY <1>1 DEF HonestInv, WalkInv, Walked
  <2>4. PICK l \in Missing(scan[s]) : log'[i] = TombstoneOf(s, l)
    BY <1>1, <2>2, <2>3 DEF Row
  <2>5. log'[i].loc = l
    BY <2>4 DEF TombstoneOf, Tombstone
  <2>6. l \in missed[s]
    BY <1>1, <2>1, MissingMissed DEF AppendObservations, Walked
  <2> QED BY <2>5, <2>6 DEF Row
<1>2. TypeInv /\ HonestInv /\ [Next]_vars =>
        [\A s \in Scanner : scan[s].pc = "walk" /\ scan'[s].pc = "cursor" =>
           \A i \in NewSeqs : Row(i).kind = "absent" => Row(i).loc \in missed[s]]_vars
  BY <1>1
<1> QED BY <1>2, TypeInvAlways, HonestInvAlways, PTL DEF Spec, TombstoneHonest

\* passes.go and coverage.go: a pass recorded as complete has seen every file that
\* stayed on disk and that no ignore rule hides.
THEOREM CompleteSawEverythingAlways == Spec => CompleteSawEverything
<1>1. ASSUME TypeInv, HonestInv, [Next]_vars, NEW s \in Scanner,
             scan[s].pc = "finish", scan'[s].pc = "apply", scan'[s].status = "complete",
             NEW l \in Locator \ missed[s]
      PROVE  l \in scan[s].seen \/ IsHidden(l, scan[s].rules)
  <2>1. FinishPass(s) /\ scan[s] \in ScanType /\ scan \in [Scanner -> ScanType] /\ WalkInv(s)
    BY <1>1, OnlyFinishPassApplies DEF TypeInv, HonestInv
  <2>2. scan'[s].status = Coverage(scan[s], scan[s].resume)
    <3> DEFINE status == Coverage(scan[s], scan[s].resume)
    <3>1. scan' = [scan EXCEPT ![s].pc = "apply", ![s].status = status]
      BY <2>1 DEF FinishPass
    <3> HIDE DEF status
    <3>2. scan'[s].status = status
      BY <2>1, <3>1 DEF ScanType
    <3> QED BY <3>2 DEF status
  <2>3. scan[s].complete /\ ~ scan[s].skipped /\ ~ scan[s].resume
    BY <1>1, <2>2 DEF Coverage
  <2>4. /\ scan[s].cursor = NoCursor /\ scan[s].todo = {}
        /\ scan[s].ignored \subseteq scan[s].rules
    BY <1>1, <2>1, <2>3 DEF WalkInv, Walked
  <2>5. l \in scan[s].seen \/ IsHidden(l, scan[s].ignored)
    BY <1>1, <2>3, <2>4, WalkOver DEF Walked
  <2> QED BY <2>4, <2>5 DEF IsHidden
<1>2. TypeInv /\ HonestInv /\ [Next]_vars =>
        [\A s \in Scanner :
           scan[s].pc = "finish" /\ scan'[s].pc = "apply" /\ scan'[s].status = "complete" =>
             \A l \in Locator \ missed[s] : l \in scan[s].seen \/ IsHidden(l, scan[s].rules)]_vars
  BY <1>1
<1> QED BY <1>2, TypeInvAlways, HonestInvAlways, PTL DEF Spec, CompleteSawEverything

-----------------------------------------------------------------------------
(* Passes.                                                                 *)

OnlyOneRuns ==
  \A i, j \in DOMAIN passes : passes[i] = "running" /\ passes[j] = "running" => i = j

LEMMA OnlyOneRunsInit == Init => OnlyOneRuns
  BY DEF Init, OnlyOneRuns

\* On SQLite: there a pass is begun in one step.
Serialized == Engine = "sqlite" /\ \A s \in Scanner : scan[s].pc # "insert"

LEMMA SerializedInit == ASSUME Engine = "sqlite", Init PROVE Serialized
  BY DEF Init, Serialized, Idle

LEMMA SerializedStep ==
  ASSUME Engine = "sqlite", TypeInv, Serialized, [Next]_vars
  PROVE  Serialized'
<1> SUFFICES ASSUME NEW s \in Scanner, scan'[s].pc = "insert" PROVE FALSE
  BY DEF Serialized
<1>1. scan[s].pc # "insert" /\ scan[s] \in ScanType /\ scan \in [Scanner -> ScanType]
  BY DEF Serialized, TypeInv
<1>3. CASE Run(s) \/ WriteFails(s) \/ Crash(s)
  <2>1. ~ \E e \in Entry : Visit(s, e)
    BY VisitStaysWalking
  <2>2. ~ (BeginPass(s) \/ SweepPasses(s) \/ CommitPass(s))
    BY <1>1 DEF BeginPass, SweepPasses, CommitPass, Begins, ScanType
  <2>3. ~ (Unstable(s) \/ HashFails(s) \/ HashFile(s))
    <3>1. ASSUME Unstable(s) \/ HashFails(s) PROVE scan'[s].pc = "walk"
      <4>1. \/ scan' = [scan EXCEPT ![s] = [scan[s] EXCEPT !.pc = "walk", !.file = <<>>]]
            \/ scan' = [scan EXCEPT ![s] = [scan[s] EXCEPT !.pc = "walk", !.file = <<>>, !.skipped = TRUE]]
        BY <3>1 DEF Unstable, HashFails, Walk
      <4> DEFINE w == scan[s]
                 x == scan'[s]
      <4>2. /\ w \in ScanType
            /\ \/ x = [w EXCEPT !.pc = "walk", !.file = <<>>]
               \/ x = [w EXCEPT !.pc = "walk", !.file = <<>>, !.skipped = TRUE]
        BY <1>1, <4>1
      <4> HIDE DEF w, x
      <4>3. x.pc = "walk"
        BY <4>2 DEF ScanType
      <4> QED BY <4>3 DEF x
    <3>2. ASSUME HashFile(s) PROVE scan'[s].pc = "walk"
      <4> DEFINE l == scan[s].file[1]
                 o == FileObs(l, scan[s].file[2], disk[l], PriorSeq(scan[s].known, l))
      <4>1. scan' = [scan EXCEPT ![s] = [scan[s] EXCEPT !.pc = "walk", !.file = <<>>, !.next = l,
                                           !.scanned = @ + 1, !.obs = Append(@, o)]]
        BY <3>2 DEF HashFile, Walk
      <4> HIDE DEF l, o
      <4> QED BY <1>1, <4>1 DEF ScanType
    <3> QED BY <3>1, <3>2
  <2>4. ~ (LoadKnown(s) \/ RootUnavailable(s) \/ OpenRoot(s) \/ AppendObservations(s)
           \/ SetCursor(s) \/ FinishPass(s) \/ Apply(s) \/ WriteFails(s) \/ Crash(s))
    BY <1>1 DEF LoadKnown, RootUnavailable, OpenRoot, AppendObservations, SetCursor, FinishPass,
       Apply, WriteFails, Crash, Idle, ScanType
  <2> QED BY <1>3, <2>1, <2>2, <2>3, <2>4 DEF Run
<1> QED BY <1>1, <1>3, OwnSteps

LEMMA OnlyOneRunsStep ==
  ASSUME Serialized, TypeInv
  PROVE  OnlyOneRuns /\ [Next]_vars => OnlyOneRuns'
<1> SUFFICES ASSUME OnlyOneRuns, [Next]_vars PROVE OnlyOneRuns'
  OBVIOUS
<1>1. CASE passes' = passes
  BY <1>1 DEF OnlyOneRuns
<1>2. ASSUME NEW s \in Scanner, BeginPass(s) \/ SweepPasses(s) \/ CommitPass(s) PROVE OnlyOneRuns'
  <2>1. Begins(s, Len(passes))
    BY <1>2 DEF Serialized, BeginPass, SweepPasses, CommitPass
  <2> QED BY <2>1, PassesBegun DEF OnlyOneRuns
<1>3. ASSUME NEW s \in Scanner, RootUnavailable(s) \/ FinishPass(s) \/ WriteFails(s) PROVE OnlyOneRuns'
  <2>1. PICK v \in Status \ {"running"} : passes' = [passes EXCEPT ![scan[s].pass] = v]
    BY <1>3 DEF RootUnavailable, FinishPass, WriteFails, Coverage, Status
  <2>2. DOMAIN passes' = DOMAIN passes /\ \A k \in DOMAIN passes : passes'[k] = "running" => passes[k] = "running"
    BY <2>1
  <2> QED BY <2>2 DEF OnlyOneRuns
<1>4. CASE UNCHANGED vars \/ User
  BY <1>1, <1>4 DEF vars, storeVars, User, Edit, Mount, Forbid, EditIgnores, Change, StartScan
<1>5. ASSUME NEW s \in Scanner, NEW e \in Entry, Visit(s, e) PROVE OnlyOneRuns'
  BY <1>1, <1>5 DEF Visit, SkipIgnored, EnterDir, EnterDirFails, PassOver, Truncate, StatFails,
     Unchanged, Changed, Walk, storeVars
<1>6. ASSUME NEW s \in Scanner,
             LoadKnown(s) \/ OpenRoot(s) \/ Unstable(s) \/ HashFails(s) \/ HashFile(s)
             \/ AppendObservations(s) \/ SetCursor(s) \/ Apply(s) \/ Crash(s)
      PROVE  OnlyOneRuns'
  BY <1>1, <1>6 DEF LoadKnown, OpenRoot, Unstable, HashFails, HashFile, AppendObservations,
     SetCursor, Apply, Crash, Walk, storeVars
<1> QED BY <1>2, <1>3, <1>4, <1>5, <1>6 DEF Next, Run

\* passes.go, BeginPass: whatever number of scanners die and overlap on SQLite, the
\* table never shows two passes running.
THEOREM OneRunningPassOnSQLite == ASSUME Engine = "sqlite" PROVE Spec => []OneRunningPass
<1>1. OnlyOneRuns => OneRunningPass
  <2> SUFFICES ASSUME OnlyOneRuns PROVE OneRunningPass
    OBVIOUS
  <2> DEFINE running == {k \in DOMAIN passes : passes[k] = "running"}
  <2>1. CASE running = {}
    BY <2>1, FS_EmptySet DEF OneRunningPass
  <2>2. CASE running # {}
    <3>1. PICK k : running = {k}
      BY <2>2 DEF OnlyOneRuns
    <3> QED BY <3>1, FS_Singleton DEF OneRunningPass
  <2> QED BY <2>1, <2>2
<1>2. Spec => []OnlyOneRuns
  <2>1. Init => TypeInv /\ Serialized /\ OnlyOneRuns
    BY TypeInvInit, SerializedInit, OnlyOneRunsInit
  <2>2. TypeInv /\ Serialized /\ OnlyOneRuns /\ [Next]_vars
          => (TypeInv /\ Serialized /\ OnlyOneRuns)'
    BY TypeInvStep, SerializedStep, OnlyOneRunsStep
  <2> QED BY <2>1, <2>2, PTL DEF Spec
<1> QED BY <1>1, <1>2, PTL

-----------------------------------------------------------------------------
(* The cursor.                                                             *)

\* Go strings and WalkDir put the files in one order.
SortedAlike == \A k, l \in Locator : StrPos[k] < StrPos[l] => WalkPos[k] < WalkPos[l]

InLog(l) == \E i \in DOMAIN log : log[i].loc = l

\* What lies at or before c is in the log.
Covered(c) ==
  c # NoCursor => \A l \in Locator : StrPos[l] <= StrPos[c] /\ disk[l] # Gone => InLog(l)

\* A walk is done with a file that the log or the walk's batch has.
Settled(s, l) == InLog(l) \/ \E k \in DOMAIN scan[s].obs : scan[s].obs[k].loc = l

\* What a scanner starts from is in the log; what its walk has behind it is settled, up
\* to the file that the cursor will be put on; one file may be in its hands.
CoverInv(s) ==
  /\ Covered(scan[s].cursor)
  /\ scan[s].rules = {}
  /\ \A l \in DOMAIN scan[s].known : InLog(l)
  /\ scan[s].pc \in {"begin", "insert", "known", "open"} => scan[s].complete /\ scan[s].next = NoCursor
  /\ scan[s].pc \in {"walk", "hash"} =>
       /\ ~ scan[s].complete => scan[s].todo = {}
       /\ scan[s].next # NoCursor =>
            \A l \in Locator : StrPos[l] <= StrPos[scan[s].next] /\ disk[l] # Gone => Settled(s, l)
  /\ scan[s].pc = "walk" /\ scan[s].complete =>
       \A l \in Locator : disk[l] # Gone => Settled(s, l) \/ Ahead(s, l)
  /\ scan[s].pc = "hash" =>
       /\ scan[s].complete
       /\ scan[s].file[2] = disk[scan[s].file[1]]
       /\ disk[scan[s].file[1]] # Gone
       /\ \A l \in Locator : disk[l] # Gone =>
            \/ Settled(s, l)
            \/ l = scan[s].file[1]
            \/ Ahead(s, l) /\ StrPos[l] > StrPos[scan[s].file[1]]
  /\ scan[s].pc = "cursor" => Covered(scan[s].next)

CursorInv ==
  /\ edits \in Nat
  /\ edits = 0 =>
       /\ rules = {} /\ unreadable = {} /\ root = "up"
       /\ Covered(cursor)
       /\ \A s \in Scanner : CoverInv(s)

LEMMA AbovePrecedes ==
  ASSUME NEW l \in Locator \cup Dir, NEW d \in Above(l)
  PROVE  WalkPos[d] < WalkPos[l]
<1> DEFINE S == {c \in Dir \cup {Root} : WalkPos[c] < WalkPos[l]}
<1>0. l # Root /\ \A e \in Locator \cup Dir \cup {Root} : WalkPos[e] \in Nat
  BY ScanAssumption
<1>1. Parent[l] \in S
  BY ScanAssumption, TreeAssumption
<1>2. ASSUME NEW c \in S \ {Root} PROVE Parent[c] \in S
  <2>1. c \in Dir /\ Parent[c] \in Dir \cup {Root} /\ WalkPos[Parent[c]] < WalkPos[c]
    BY ScanAssumption, TreeAssumption
  <2>2. WalkPos[c] < WalkPos[l]
    OBVIOUS
  <2>3. WalkPos[Parent[c]] \in Nat /\ WalkPos[c] \in Nat /\ WalkPos[l] \in Nat
    BY <1>0, <2>1
  <2>4. WalkPos[Parent[c]] < WalkPos[l]
    BY <2>1, <2>2, <2>3
  <2> QED BY <2>1, <2>4
<1>3. S \subseteq Dir \cup {Root}
  OBVIOUS
<1> HIDE DEF S
<1>4. S \in Upward
  BY <1>2, <1>3 DEF Upward
<1>5. d \in S
  BY <1>0, <1>1, <1>4 DEF Above
<1> QED BY <1>5 DEF S

\* Nothing that lies before the entry a walk visits is ahead of the walk.
LEMMA NoneAhead ==
  ASSUME SortedAlike, TypeInv, NEW s \in Scanner, NEW e \in Locator, Visits(s, e),
         NEW l \in Locator, StrPos[l] < StrPos[e]
  PROVE  ~ Ahead(s, l)
<1> SUFFICES ASSUME NEW m \in ({l} \cup Above(l)) \cap scan[s].todo PROVE FALSE
  BY DEF Ahead
<1>1. WalkPos[e] <= WalkPos[m]
  BY DEF Visits
<1>2. WalkPos[l] < WalkPos[e]
  BY DEF SortedAlike
<1>3. m = l \/ WalkPos[m] < WalkPos[l]
  BY AbovePrecedes
<1>4. m \in Locator \cup Dir \cup {Root}
  BY AboveDirs
<1>5. WalkPos[m] \in Nat /\ WalkPos[l] \in Nat /\ WalkPos[e] \in Nat
  BY <1>4, ScanAssumption
<1> QED BY <1>1, <1>2, <1>3, <1>5

LEMMA IdleCovers ==
  ASSUME NEW s \in Scanner, scan[s] = Idle
  PROVE  CoverInv(s)
<1>1. /\ Idle.pc = "idle" /\ Idle.cursor = NoCursor /\ Idle.rules = {} /\ DOMAIN Idle.known = {}
  BY DEF Idle, Nothing
<1> QED BY <1>1 DEF CoverInv, Covered

LEMMA CursorInvInit == Init => CursorInv
  BY IdleCovers DEF Init, CursorInv, Covered

\* Once something has changed there is nothing to show.
LEMMA CursorUser == TypeInv /\ CursorInv /\ User => CursorInv'
<1> SUFFICES ASSUME TypeInv, CursorInv, User PROVE CursorInv'
  OBVIOUS
<1>1. CASE Change
  BY <1>1 DEF Change, CursorInv
<1>2. ASSUME NEW s \in Scanner, NEW resume \in Resumes, NEW limit \in Limits, StartScan(s, resume, limit)
      PROVE  CursorInv'
  <2> DEFINE r == [Idle EXCEPT !.pc = "begin", !.resume = resume, !.limit = limit,
                               !.cursor = IF resume THEN cursor ELSE NoCursor]
  <2>1. /\ scan' = [scan EXCEPT ![s] = r] /\ UNCHANGED <<diskVars, storeVars>>
    BY <1>2 DEF StartScan
  <2>2. /\ r.pc = "begin" /\ r.cursor \in {cursor, NoCursor} /\ r.rules = {} /\ DOMAIN r.known = {}
        /\ r.complete /\ r.next = NoCursor
    BY DEF Idle, Nothing
  <2> HIDE DEF r
  <2>3. scan'[s] = r /\ \A t \in Scanner \ {s} : scan'[t] = scan[t]
    BY <2>1 DEF TypeInv
  <2>4. UNCHANGED <<disk, rules, unreadable, root, edits, log, cursor>>
    BY <2>1 DEF diskVars, storeVars
  <2>5. \A c : Covered(c) => Covered(c)'
    BY <2>4 DEF Covered, InLog
  <2>6. ASSUME edits = 0 PROVE CoverInv(s)'
    <3>1. Covered(r.cursor)
      BY <2>2, <2>6 DEF CursorInv, Covered
    <3>2. Covered(scan[s].cursor)'
      BY <2>3, <2>4, <3>1 DEF Covered, InLog
    <3> QED BY <2>2, <2>3, <3>2 DEF CoverInv
  <2>7. ASSUME edits = 0, NEW t \in Scanner \ {s} PROVE CoverInv(t)'
    <3>1. CoverInv(t)
      BY <2>7 DEF CursorInv
    <3> QED BY <2>3, <2>4, <3>1 DEF CoverInv, Covered, InLog, Settled, Ahead
  <2>8. Covered(cursor) => Covered(cursor)'
    BY <2>4 DEF Covered, InLog
  <2> QED BY <2>4, <2>6, <2>7, <2>8 DEF CursorInv
<1> QED BY <1>1, <1>2 DEF User, Edit, Mount, Forbid, EditIgnores

\* A step of one scanner, while nothing has changed.
LEMMA CursorOwn ==
  ASSUME CursorInv, NEW s \in Scanner, UNCHANGED diskVars,
         \A t \in Scanner \ {s} : scan'[t] = scan[t],
         \A l : InLog(l) => InLog(l)',
         edits = 0 => CoverInv(s)' /\ Covered(cursor)'
  PROVE  CursorInv'
<1>1. UNCHANGED <<disk, rules, unreadable, root, edits>>
  BY DEF diskVars
<1>2. ASSUME edits = 0, NEW t \in Scanner \ {s} PROVE CoverInv(t)'
  <2>1. CoverInv(t) /\ scan'[t] = scan[t]
    BY <1>2 DEF CursorInv
  <2>2. \A l : Settled(t, l) => Settled(t, l)'
    BY <2>1 DEF Settled
  <2>3. \A l : Ahead(t, l) => Ahead(t, l)'
    BY <2>1 DEF Ahead
  <2>4. Covered(scan[t].cursor) => Covered(scan[t].cursor)'
    BY <1>1, <2>1 DEF Covered
  <2>5. Covered(scan[t].next) => Covered(scan[t].next)'
    BY <1>1, <2>1 DEF Covered
  <2> QED BY <1>1, <2>1, <2>2, <2>3, <2>4, <2>5 DEF CoverInv
<1> QED BY <1>1, <1>2 DEF CursorInv

LEMMA CursorVisit ==
  ASSUME SortedAlike, TypeInv, CursorInv, NEW s \in Scanner, NEW e \in Entry, Visit(s, e)
  PROVE  CursorInv'
<1> DEFINE w == scan[s]
           x == scan'[s]
<1>0. /\ w \in ScanType /\ w.pc = "walk" /\ UNCHANGED <<diskVars, storeVars>>
      /\ \A t \in Scanner \ {s} : scan'[t] = scan[t]
      /\ Visits(s, e)
  BY DEF TypeInv, Visit, Visits, SkipIgnored, EnterDir, EnterDirFails, PassOver, Truncate,
     StatFails, Unchanged, Changed, VisitsFile, Within, Stat, Walk
<1>i. UNCHANGED <<disk, rules, unreadable, root, edits, log, cursor>>
  BY <1>0 DEF diskVars, storeVars
<1>l. \A l : InLog(l) <=> InLog(l)'
  BY <1>i DEF InLog
<1>c. \A c : Covered(c) => Covered(c)'
  BY <1>i DEF Covered, InLog
<1> SUFFICES ASSUME edits = 0 PROVE CoverInv(s)'
  <2>1. Covered(cursor) => Covered(cursor)'
    BY <1>i DEF Covered, InLog
  <2>2. edits = 0 => Covered(cursor)
    BY DEF CursorInv
  <2> QED BY <1>0, <1>l, <2>1, <2>2, CursorOwn
<1>1. CoverInv(s) /\ unreadable = {} /\ root = "up"
  BY DEF CursorInv
<1>2. w.complete
  <2>1. e \in w.todo
    BY <1>0 DEF Visits
  <2> QED BY <1>0, <1>1, <2>1 DEF CoverInv
<1>3. \A d : Reachable(d)
  BY <1>1 DEF Reachable
<1> DEFINE d == Done(s, e)
<1>4. /\ d \in ScanType /\ d.pc = "walk" /\ d.cursor = w.cursor /\ d.rules = w.rules /\ d.known = w.known
      /\ d.obs = w.obs /\ d.next = w.next /\ d.complete = w.complete /\ d.todo = w.todo \ {e}
  BY <1>0 DEF Done, ScanType
<1>5. \A r : Walk(s, r) => x = r
  BY DEF Walk, TypeInv
<1>6. SUFFICES /\ x.pc \in {"walk", "hash"} /\ x.cursor = w.cursor /\ x.rules = w.rules
               /\ x.known = w.known
               /\ ~ x.complete => x.todo = {}
               /\ x.next # NoCursor =>
                    \A l \in Locator : StrPos[l] <= StrPos[x.next] /\ disk[l] # Gone => Settled(s, l)'
               /\ x.pc = "walk" /\ x.complete =>
                    \A l \in Locator : disk[l] # Gone => Settled(s, l)' \/ Ahead(s, l)'
               /\ x.pc = "hash" =>
                    /\ x.complete
                    /\ x.file[2] = disk[x.file[1]]
                    /\ disk[x.file[1]] # Gone
                    /\ \A l \in Locator : disk[l] # Gone =>
                         \/ Settled(s, l)'
                         \/ l = x.file[1]
                         \/ Ahead(s, l)' /\ StrPos[l] > StrPos[x.file[1]]
  <2>1. Covered(scan[s].cursor)'
    BY <1>1, <1>i, <1>6 DEF CoverInv, Covered, InLog
  <2>2. \A l \in DOMAIN x.known : InLog(l)'
    BY <1>1, <1>l, <1>6 DEF CoverInv
  <2>3. x.rules = {}
    BY <1>1, <1>6 DEF CoverInv
  <2> QED BY <1>i, <1>6, <2>1, <2>2, <2>3 DEF CoverInv
<1>7. \A l \in Locator : disk[l] # Gone => Settled(s, l) \/ Ahead(s, l)
  BY <1>0, <1>1, <1>2 DEF CoverInv
<1>8. w.next # NoCursor =>
        \A l \in Locator : StrPos[l] <= StrPos[w.next] /\ disk[l] # Gone => Settled(s, l)
  BY <1>0, <1>1 DEF CoverInv
<1>9. x.obs = w.obs => \A l : Settled(s, l) => Settled(s, l)'
  BY <1>l DEF Settled
<1>10. \A k, l \in Locator : StrPos[k] \in Nat /\ (StrPos[k] = StrPos[l] => k = l)
  BY ScanAssumption
<1> HIDE DEF x, d, w
<1>11. CASE SkipIgnored(s, e)
  BY <1>1, <1>11 DEF SkipIgnored, Ignored, CoverInv
<1>12. CASE e \notin Locator /\ EnterDir(s, e)
  <2>1. x = [d EXCEPT !.todo = @ \cup Listing(e)]
    BY <1>5, <1>12 DEF EnterDir, d
  <2>2. /\ x.pc = "walk" /\ x.cursor = w.cursor /\ x.rules = w.rules /\ x.known = w.known
        /\ x.obs = w.obs /\ x.next = w.next /\ x.complete
        /\ x.todo = (w.todo \ {e}) \cup Listing(e)
    BY <1>2, <1>4, <2>1 DEF ScanType
  <2>3. \A l \in Locator : disk[l] # Gone /\ Ahead(s, l) => Ahead(s, l)'
    BY <1>12, <2>2, EnterKeepsAhead DEF w, x
  <2> QED BY <1>7, <1>8, <1>9, <2>2, <2>3
<1>13. CASE e \notin Locator /\ EnterDirFails(s, e)
  BY <1>1, <1>3, <1>13 DEF EnterDirFails
<1>14. CASE e \in Locator /\ (PassOver(s, e) \/ StatFails(s, e))
  <2>1. /\ x.pc = "walk" /\ x.cursor = w.cursor /\ x.rules = w.rules /\ x.known = w.known
        /\ x.obs = w.obs /\ x.next = w.next /\ x.complete /\ x.todo = w.todo \ {e}
    <3>1. x = d \/ x = [d EXCEPT !.skipped = TRUE]
      BY <1>5, <1>14 DEF PassOver, StatFails, d
    <3> QED BY <1>2, <1>4, <3>1 DEF ScanType
  <2>2. disk[e] # Gone => InLog(e)
    <3>1. CASE PassOver(s, e)
      <4>1. w.cursor # NoCursor /\ StrPos[e] <= StrPos[w.cursor]
        BY <3>1 DEF PassOver, AtOrBeforeCursor, w
      <4> QED BY <1>1, <1>14, <4>1 DEF CoverInv, Covered, w
    <3>2. CASE StatFails(s, e)
      BY <1>3, <3>2 DEF StatFails
    <3> QED BY <1>14, <3>1, <3>2
  <2>3. \A l \in Locator \ {e} : Ahead(s, l) => Ahead(s, l)'
    BY <1>14, <2>1, FileKeepsAhead DEF w, x
  <2>4. disk[e] # Gone => Settled(s, e)
    BY <2>2 DEF Settled
  <2> QED BY <1>7, <1>8, <1>9, <2>1, <2>3, <2>4
<1>15. CASE e \in Locator /\ Truncate(s, e)
  <2>1. x = [w EXCEPT !.complete = FALSE, !.todo = {}]
    BY <1>5, <1>15 DEF Truncate, w
  <2>2. /\ x.pc = "walk" /\ x.cursor = w.cursor /\ x.rules = w.rules /\ x.known = w.known
        /\ x.obs = w.obs /\ x.next = w.next /\ ~ x.complete /\ x.todo = {}
    BY <1>0, <2>1 DEF ScanType
  <2> QED BY <1>8, <1>9, <2>2
<1>16. CASE e \in Locator /\ Unchanged(s, e)
  <2>1. x = [d EXCEPT !.seen = @ \cup {e}, !.next = e]
    BY <1>5, <1>16 DEF Unchanged, d
  <2>2. /\ x.pc = "walk" /\ x.cursor = w.cursor /\ x.rules = w.rules /\ x.known = w.known
        /\ x.obs = w.obs /\ x.next = e /\ x.complete /\ x.todo = w.todo \ {e}
    BY <1>2, <1>4, <2>1 DEF ScanType
  <2>3. Settled(s, e)
    BY <1>1, <1>16 DEF Unchanged, IsUnchanged, CoverInv, Settled
  <2>4. \A l \in Locator \ {e} : Ahead(s, l) => Ahead(s, l)'
    BY <1>16, <2>2, FileKeepsAhead DEF w, x
  <2>5. ASSUME NEW l \in Locator, StrPos[l] <= StrPos[e], disk[l] # Gone PROVE Settled(s, l)
    <3>1. CASE l = e
      BY <2>3, <3>1
    <3>2. CASE l # e
      <4>1. StrPos[l] < StrPos[e]
        BY <1>10, <1>16, <2>5, <3>2
      <4> QED BY <1>0, <1>7, <1>16, <2>5, <4>1, NoneAhead
    <3> QED BY <3>1, <3>2
  <2> QED BY <1>7, <1>9, <2>2, <2>3, <2>4, <2>5
<1>17. CASE e \in Locator /\ Changed(s, e)
  <2>1. x = [d EXCEPT !.pc = "hash", !.seen = @ \cup {e}, !.file = <<e, disk[e]>>] /\ disk[e] # Gone
    BY <1>5, <1>17 DEF Changed, Stat, d
  <2>2. /\ x.pc = "hash" /\ x.cursor = w.cursor /\ x.rules = w.rules /\ x.known = w.known
        /\ x.obs = w.obs /\ x.next = w.next /\ x.complete /\ x.todo = w.todo \ {e}
        /\ x.file = <<e, disk[e]>>
    BY <1>2, <1>4, <2>1 DEF ScanType
  <2>3. x.file[1] = e /\ x.file[2] = disk[e]
    BY <2>2
  <2>4. \A l \in Locator \ {e} : Ahead(s, l) => Ahead(s, l)'
    BY <1>17, <2>2, FileKeepsAhead DEF w, x
  <2>5. ASSUME NEW l \in Locator \ {e}, Ahead(s, l) PROVE StrPos[l] > StrPos[e]
    <3>1. ~ StrPos[l] < StrPos[e]
      BY <1>0, <1>17, <2>5, NoneAhead
    <3> QED BY <1>10, <1>17, <3>1
  <2>6. \A l \in Locator : disk[l] # Gone =>
          Settled(s, l)' \/ l = e \/ (Ahead(s, l)' /\ StrPos[l] > StrPos[e])
    BY <1>7, <1>9, <2>2, <2>4, <2>5
  <2> QED BY <1>8, <1>9, <2>1, <2>2, <2>3, <2>6
<1> QED BY <1>11, <1>12, <1>13, <1>14, <1>15, <1>16, <1>17 DEF Visit

LEMMA CursorHash ==
  ASSUME TypeInv, CursorInv, NEW s \in Scanner, Unstable(s) \/ HashFails(s) \/ HashFile(s)
  PROVE  CursorInv'
<1> DEFINE w == scan[s]
           x == scan'[s]
<1>0. /\ w \in ScanType /\ w.pc = "hash" /\ UNCHANGED <<diskVars, storeVars>>
      /\ \A t \in Scanner \ {s} : scan'[t] = scan[t]
  BY DEF TypeInv, Unstable, HashFails, HashFile, Walk
<1>i. UNCHANGED <<disk, rules, unreadable, root, edits, log, cursor>>
  BY <1>0 DEF diskVars, storeVars
<1>l. \A l : InLog(l) <=> InLog(l)'
  BY <1>i DEF InLog
<1> SUFFICES ASSUME edits = 0 PROVE CoverInv(s)'
  <2>1. Covered(cursor) => Covered(cursor)'
    BY <1>i DEF Covered, InLog
  <2>2. edits = 0 => Covered(cursor)
    BY DEF CursorInv
  <2> QED BY <1>0, <1>l, <2>1, <2>2, CursorOwn
<1>1. CoverInv(s) /\ unreadable = {} /\ root = "up"
  BY DEF CursorInv
<1>2. \A d : Reachable(d)
  BY <1>1 DEF Reachable
<1>f. PICK f \in Locator : f = scan[s].file[1]
  <2>1. w.file # <<>>
    BY <1>0 DEF TypeInv, ScanOK
  <2> QED BY <1>0, <2>1 DEF ScanType
<1>3. /\ w.complete /\ w.file[2] = disk[f] /\ disk[f] # Gone
      /\ \A l \in Locator : disk[l] # Gone =>
           Settled(s, l) \/ l = f \/ (Ahead(s, l) /\ StrPos[l] > StrPos[f])
  BY <1>0, <1>1, <1>f DEF CoverInv
<1>4. HashFile(s)
  BY <1>2, <1>3, <1>f DEF Unstable, HashFails
<1> DEFINE o == FileObs(f, w.file[2], disk[f], PriorSeq(w.known, f))
           obs == Append(w.obs, o)
           n == w.scanned + 1
<1>6. x = [w EXCEPT !.pc = "walk", !.file = <<>>, !.next = f, !.scanned = n, !.obs = obs]
  <2>1. \A r : Walk(s, r) => x = r
    BY DEF Walk, TypeInv
  <2> HIDE DEF x
  <2> QED BY <1>4, <1>f, <2>1 DEF HashFile
<1>7. o.loc = f
  BY DEF FileObs
<1> HIDE DEF w, x, obs, n, o
<1>8. /\ x.pc = "walk" /\ x.cursor = w.cursor /\ x.rules = w.rules /\ x.known = w.known
      /\ x.complete = w.complete /\ x.todo = w.todo /\ x.next = f /\ x.obs = obs
  BY <1>0, <1>6 DEF ScanType
<1>9. /\ \A k \in DOMAIN w.obs : k \in DOMAIN x.obs /\ x.obs[k] = w.obs[k]
      /\ \E k \in DOMAIN x.obs : x.obs[k].loc = f
  <2>1. w.obs \in Seq(Observation)
    BY <1>0 DEF ScanType
  <2>2. Len(w.obs) \in Nat /\ DOMAIN w.obs = 1..Len(w.obs)
    BY <2>1, LenProperties
  <2>3. /\ DOMAIN x.obs = 1 .. Len(w.obs) + 1
        /\ \A k \in 1 .. Len(w.obs) : x.obs[k] = w.obs[k]
        /\ x.obs[Len(w.obs) + 1] = o
    BY <1>8, <2>1, <2>2 DEF obs
  <2>4. Len(w.obs) + 1 \in DOMAIN x.obs
    BY <2>2, <2>3
  <2> QED BY <1>7, <2>2, <2>3, <2>4
<1>10. Settled(s, f)' /\ \A l : Settled(s, l) => Settled(s, l)'
  BY <1>l, <1>9 DEF Settled, w, x
<1>11. \A l : Ahead(s, l) => Ahead(s, l)'
  BY <1>8 DEF Ahead, w, x
<1>12. \A l \in Locator : disk[l] # Gone => Settled(s, l)' \/ Ahead(s, l)'
  BY <1>3, <1>10, <1>11
<1>13. \A l \in Locator : StrPos[l] <= StrPos[f] /\ disk[l] # Gone => Settled(s, l)'
  <2>1. \A l \in Locator : StrPos[l] \in Nat
    BY ScanAssumption
  <2> QED BY <1>3, <1>10, <2>1
<1>14. Covered(scan[s].cursor)'
  BY <1>1, <1>i, <1>8 DEF CoverInv, Covered, InLog, w, x
<1>15. \A l \in DOMAIN x.known : InLog(l)'
  BY <1>1, <1>l, <1>8 DEF CoverInv, w
<1>16. x.rules = {}
  BY <1>1, <1>8 DEF CoverInv, w
<1> QED BY <1>3, <1>i, <1>8, <1>12, <1>13, <1>14, <1>15, <1>16 DEF CoverInv, x

\* What a pass has in its hands, its append leaves in the log.
LEMMA AppendSettles ==
  ASSUME TypeInv, NEW s \in Scanner, AppendObservations(s)
  PROVE  \A l : (InLog(l) => InLog(l)') /\ (Settled(s, l) => InLog(l)')
<1>1. /\ DOMAIN log \subseteq DOMAIN log' /\ \A i \in DOMAIN log : log'[i] = log[i]
      /\ \A k \in DOMAIN scan[s].obs :
           InLogIds(Id(scan[s].obs[k])) \/ \E i \in NewSeqs : log'[i] = scan[s].obs[k]
  BY AppendGrows
<1>2. \A l : InLog(l) => InLog(l)'
  BY <1>1 DEF InLog
<1>3. ASSUME NEW k \in DOMAIN scan[s].obs, NEW o, o = scan[s].obs[k] PROVE InLog(o.loc)'
  <2>1. CASE InLogIds(Id(o))
    <3>1. PICK j \in DOMAIN log : Id(log[j]) = Id(o)
      BY <2>1 DEF InLogIds
    <3>2. log[j].loc = o.loc
      BY <3>1 DEF Id
    <3> QED BY <1>1, <3>2 DEF InLog
  <2>2. CASE \E i \in NewSeqs : log'[i] = o
    BY <2>2 DEF InLog, NewSeqs
  <2> QED BY <1>1, <1>3, <2>1, <2>2
<1> QED BY <1>2, <1>3 DEF Settled

LEMMA CursorStore ==
  ASSUME TypeInv, CursorInv, NEW s \in Scanner,
         \/ BeginPass(s) \/ SweepPasses(s) \/ CommitPass(s) \/ LoadKnown(s) \/ RootUnavailable(s) \/ OpenRoot(s)
         \/ AppendObservations(s) \/ SetCursor(s) \/ FinishPass(s) \/ Apply(s)
         \/ WriteFails(s) \/ Crash(s)
  PROVE  CursorInv'
<1> DEFINE w == scan[s]
           x == scan'[s]
<1>0. /\ w \in ScanType /\ scan \in [Scanner -> ScanType] /\ UNCHANGED diskVars
      /\ \A t \in Scanner \ {s} : scan'[t] = scan[t]
  BY DEF TypeInv, BeginPass, SweepPasses, CommitPass, Begins, LoadKnown, RootUnavailable, OpenRoot, AppendObservations,
     SetCursor, FinishPass, Apply, WriteFails, Crash
<1>i. UNCHANGED <<disk, rules, unreadable, root, edits>>
  BY <1>0 DEF diskVars
<1>l. \A l : InLog(l) => InLog(l)'
  <2>1. CASE AppendObservations(s)
    BY <2>1, AppendSettles
  <2>2. CASE ~ AppendObservations(s)
    <3>1. log' = log
      BY <2>2 DEF BeginPass, SweepPasses, CommitPass, Begins, LoadKnown, RootUnavailable, OpenRoot, SetCursor, FinishPass, Apply,
         WriteFails, Crash, storeVars
    <3> QED BY <3>1 DEF InLog
  <2> QED BY <2>1, <2>2
<1> SUFFICES ASSUME edits = 0 PROVE CoverInv(s)' /\ Covered(cursor)'
  BY <1>0, <1>l, CursorOwn
<1>1. CoverInv(s) /\ Covered(cursor) /\ rules = {} /\ root = "up"
  BY DEF CursorInv
<1>2. cursor' = cursor => Covered(cursor)'
  BY <1>1, <1>i, <1>l DEF Covered
<1>3. ASSUME x.cursor = w.cursor, x.rules = {}, \A l \in DOMAIN x.known : InLog(l)
      PROVE  /\ Covered(scan[s].cursor)' /\ (scan[s].rules = {})'
             /\ (\A l \in DOMAIN scan[s].known : InLog(l))'
  BY <1>1, <1>i, <1>l, <1>3 DEF CoverInv, Covered
<1> DEFINE kept == x.cursor = w.cursor /\ x.rules = w.rules /\ x.known = w.known /\ x.next = w.next
                   /\ x.complete = w.complete
<1>4. ASSUME kept
      PROVE  /\ Covered(scan[s].cursor)' /\ (scan[s].rules = {})'
             /\ (\A l \in DOMAIN scan[s].known : InLog(l))'
  BY <1>1, <1>3, <1>4 DEF CoverInv
<1>5. CASE BeginPass(s) \/ CommitPass(s)
  <2>1. /\ w.pc \in {"begin", "insert"} /\ cursor' = cursor
        /\ x = [w EXCEPT !.pc = "known", !.pass = Len(passes'), !.visible = 0]
    BY <1>0, <1>5, BeginsHow DEF Begins, ScanType
  <2>2. x.pc = "known" /\ kept
    <3> HIDE DEF w, x
    <3> QED BY <1>0, <2>1 DEF ScanType
  <2>3. x.complete /\ x.next = NoCursor
    BY <1>1, <2>1, <2>2 DEF CoverInv
  <2> QED BY <1>2, <1>4, <2>1, <2>2, <2>3 DEF CoverInv
<1>b. CASE SweepPasses(s)
  <2>1. /\ w.pc = "begin" /\ cursor' = cursor
        /\ x = [w EXCEPT !.pc = "insert", !.visible = Len(passes)]
    BY <1>0, <1>b DEF SweepPasses, storeVars
  <2>2. x.pc = "insert" /\ kept
    <3> HIDE DEF w, x
    <3> QED BY <1>0, <2>1 DEF ScanType
  <2>3. x.complete /\ x.next = NoCursor
    BY <1>1, <2>1, <2>2 DEF CoverInv
  <2> QED BY <1>2, <1>4, <2>1, <2>2, <2>3 DEF CoverInv
<1>6. CASE LoadKnown(s)
  <2> DEFINE known == KnownState(lastSeq)
  <2>1. /\ w.pc = "known" /\ cursor' = cursor
        /\ x = [w EXCEPT !.pc = "open", !.known = known]
    BY <1>0, <1>6 DEF LoadKnown, storeVars
  <2>2. \A l \in DOMAIN known : InLog(l)
    <3>1. lastSeq \in Nat /\ Len(log) \in Nat /\ lastSeq <= Len(log) /\ DOMAIN log = 1..Len(log)
      BY DEF TypeInv, StoreOK
    <3>2. ASSUME NEW l \in DOMAIN known PROVE InLog(l)
      <4>1. Latest(l, lastSeq) # 0
        BY DEF KnownState, Current
      <4>2. Latest(l, lastSeq) \in 0..lastSeq /\ log[Latest(l, lastSeq)].loc = l
        BY <3>1, <4>1, LatestRow
      <4>3. Latest(l, lastSeq) \in DOMAIN log
        BY <3>1, <4>1, <4>2
      <4> QED BY <4>2, <4>3 DEF InLog
    <3> QED BY <3>2
  <2> HIDE DEF known
  <2>3. /\ x.pc = "open" /\ x.cursor = w.cursor /\ x.rules = w.rules /\ x.known = known
        /\ x.next = w.next /\ x.complete = w.complete
    <3> HIDE DEF w, x
    <3> QED BY <1>0, <2>1 DEF ScanType
  <2>4. x.complete /\ x.next = NoCursor /\ x.rules = {}
    BY <1>1, <2>1, <2>3 DEF CoverInv
  <2>5. /\ Covered(scan[s].cursor)' /\ (scan[s].rules = {})'
        /\ (\A l \in DOMAIN scan[s].known : InLog(l))'
    BY <1>3, <2>2, <2>3, <2>4
  <2> QED BY <1>2, <2>1, <2>3, <2>4, <2>5 DEF CoverInv
<1>7. CASE OpenRoot(s)
  <2>1. /\ w.pc = "open" /\ cursor' = cursor
        /\ x = [w EXCEPT !.pc = "walk", !.todo = {Root}, !.rules = rules]
    BY <1>0, <1>7 DEF OpenRoot, storeVars
  <2>2. /\ x.pc = "walk" /\ kept /\ x.todo = {Root}
    <3>1. w.rules = rules
      BY <1>1 DEF CoverInv
    <3> HIDE DEF w, x
    <3> QED BY <1>0, <2>1, <3>1 DEF ScanType
  <2>3. x.complete /\ x.next = NoCursor
    BY <1>1, <2>1, <2>2 DEF CoverInv
  <2>4. \A l \in Locator : Ahead(s, l)'
    BY <2>2, TreeAssumption DEF Ahead
  <2> QED BY <1>2, <1>4, <2>1, <2>2, <2>3, <2>4 DEF CoverInv
<1>8. CASE AppendObservations(s)
  <2>1. /\ w.pc = "walk" /\ cursor' = cursor
        /\ x = [w EXCEPT !.pc = "cursor"]
    BY <1>0, <1>8 DEF AppendObservations
  <2>2. x.pc = "cursor" /\ kept
    <3> HIDE DEF w, x
    <3> QED BY <1>0, <2>1 DEF ScanType
  <2>3. \A l : Settled(s, l) => InLog(l)'
    BY <1>8, AppendSettles
  <2>4. w.next # NoCursor =>
          \A l \in Locator : StrPos[l] <= StrPos[w.next] /\ disk[l] # Gone => Settled(s, l)
    BY <1>1, <2>1 DEF CoverInv
  <2>5. Covered(scan[s].next)'
    BY <1>i, <2>2, <2>3, <2>4 DEF Covered
  <2> QED BY <1>2, <1>4, <2>1, <2>2, <2>5 DEF CoverInv
<1>9. CASE SetCursor(s)
  <2>1. /\ w.pc = "cursor" /\ cursor' = (IF w.next # NoCursor THEN w.next ELSE cursor)
        /\ x = [w EXCEPT !.pc = "finish"]
    BY <1>0, <1>9 DEF SetCursor
  <2>2. x.pc = "finish" /\ kept
    <3> HIDE DEF w, x
    <3> QED BY <1>0, <2>1 DEF ScanType
  <2>3. Covered(w.next)
    BY <1>1, <2>1 DEF CoverInv
  <2>4. Covered(cursor)'
    BY <1>1, <1>i, <1>l, <2>1, <2>3 DEF Covered
  <2> QED BY <1>4, <2>2, <2>4 DEF CoverInv
<1>10. CASE FinishPass(s)
  <2> DEFINE status == Coverage(w, w.resume)
  <2>1. x = [w EXCEPT !.pc = "apply", !.status = status] /\ cursor' = cursor
    BY <1>0, <1>10 DEF FinishPass
  <2>2. x.pc = "apply" /\ kept
    <3> HIDE DEF w, x, status
    <3> QED BY <1>0, <2>1 DEF ScanType
  <2> QED BY <1>2, <1>4, <2>1, <2>2 DEF CoverInv
<1>11. CASE RootUnavailable(s) \/ Apply(s) \/ WriteFails(s) \/ Crash(s)
  <2>1. x = Idle /\ cursor' = cursor
    BY <1>0, <1>11 DEF RootUnavailable, Apply, WriteFails, Crash, storeVars
  <2>2. /\ Idle.pc = "idle" /\ Idle.cursor = NoCursor /\ Idle.rules = {} /\ DOMAIN Idle.known = {}
    BY DEF Idle, Nothing
  <2>3. CoverInv(s)'
    BY <2>1, <2>2 DEF CoverInv, Covered
  <2> QED BY <1>2, <2>1, <2>3
<1> QED BY <1>b, <1>5, <1>6, <1>7, <1>8, <1>9, <1>10, <1>11

LEMMA CursorInvStep == SortedAlike /\ TypeInv /\ CursorInv /\ [Next]_vars => CursorInv'
<1>1. ASSUME SortedAlike, TypeInv, CursorInv, NEW s \in Scanner, Run(s) \/ WriteFails(s) \/ Crash(s)
      PROVE  CursorInv'
  BY <1>1, CursorVisit, CursorHash, CursorStore DEF Run
<1>2. ASSUME CursorInv, UNCHANGED vars PROVE CursorInv'
  BY <1>2 DEF vars, diskVars, storeVars, CursorInv, CoverInv, Covered, InLog, Settled, Ahead
<1> QED BY <1>1, <1>2, CursorUser DEF Next

\* cursor and --resume: when the walk and Go's comparison of strings put the files in
\* one order, no resumed, capped, killed or concurrent scan puts the cursor behind a
\* file that nobody has emitted.
THEOREM CursorCoversInOrder ==
  ASSUME SortedAlike
  PROVE  Spec => []CursorCovers
<1>1. CursorInv => CursorCovers
  BY DEF CursorInv, Covered, InLog, CursorCovers
<1>2. TypeInv /\ CursorInv /\ [Next]_vars => CursorInv'
  BY CursorInvStep
<1> QED BY <1>1, <1>2, CursorInvInit, TypeInvAlways, PTL DEF Spec

-----------------------------------------------------------------------------
(* A pass that nothing disturbs.                                           *)

\* There is one scanner.
Alone == \A s, t \in Scanner : s = t

\* Versions a file has or has had.
Had(l) == life[l] \cup bygone[l]

LivesOK ==
  /\ life \in [Locator -> SUBSET Version]
  /\ bygone \in [Locator -> SUBSET Version]
  /\ \A l \in Locator :
       /\ life[l] \cap bygone[l] = {}
       /\ disk[l] \in life[l] \/ (disk[l] = Gone /\ life[l] = {})

\* A row supersedes an earlier one; what lies before a tombstone is of an earlier life.
RowsOK ==
  /\ \A i \in DOMAIN log :
       /\ log[i].prior < i
       /\ IF log[i].kind = "absent" THEN log[i].nv = Gone ELSE log[i].nv \in Had(log[i].loc)
  /\ \A i, j \in DOMAIN log :
       i < j /\ log[i].loc = log[j].loc /\ log[i].kind = "file" /\ log[j].kind = "absent" =>
         log[i].nv \in bygone[log[i].loc]

\* What a pass holds in its hands; a file that it missed has left its versions behind.
HandOK(s) ==
  /\ scan[s].pc \in {"begin", "insert", "known", "open"} => scan[s].seen = {}
  /\ scan[s].pc \in {"open", "walk", "hash"} =>
       \A l \in DOMAIN scan[s].known : scan[s].known[l].seq <= Len(log)
  /\ scan[s].pc \in {"walk", "hash"} =>
       \A k \in DOMAIN scan[s].obs :
         LET o == scan[s].obs[k]
         IN  o.kind = "file" /\ o.loc \in scan[s].seen /\ o.nv \in Had(o.loc) /\ o.prior <= Len(log)
  /\ scan[s].pc = "hash" =>
       scan[s].file[1] \in scan[s].seen /\ scan[s].file[2] \in Had(scan[s].file[1])
  /\ scan[s].pc \in {"known", "open", "walk", "hash"} =>
       \A i \in DOMAIN log :
         log[i].loc \in missed[s] /\ log[i].kind = "file" => log[i].nv \in bygone[log[i].loc]

\* The view of the whole log is what the disk holds.
Accurate == \A l \in Locator : IsHidden(l, rules) \/ Current(l, Len(log)) = disk[l]

\* What a pass that nothing has disturbed knows to be so.
CalmOK(s) ==
  calm[s] =>
    /\ scan[s].pc \in {"open", "walk", "hash"} => scan[s].known = KnownState(Len(log))
    /\ scan[s].pc \in {"walk", "hash", "cursor", "finish", "apply"} => scan[s].rules = rules
    /\ scan[s].pc \in {"walk", "hash"} =>
         /\ \A k \in DOMAIN scan[s].obs :
              LET o == scan[s].obs[k]
              IN  o.nv = disk[o.loc] /\ o.prior = PriorSeq(scan[s].known, o.loc)
         /\ \A l \in scan[s].seen :
              /\ disk[l] # Gone
              /\ \/ Current(l, Len(log)) = disk[l]
                 \/ \E k \in DOMAIN scan[s].obs : scan[s].obs[k].loc = l
                 \/ scan[s].pc = "hash" /\ scan[s].file[1] = l
         /\ scan[s].complete /\ ~ scan[s].skipped /\ scan[s].cursor = NoCursor =>
              \A l \in Locator : disk[l] # Gone => Accounted(s, l)
    /\ scan[s].pc = "hash" =>
         scan[s].file[2] = disk[scan[s].file[1]] /\ Reachable(scan[s].file[1])
    /\ scan[s].pc \in {"cursor", "finish"} /\ scan[s].complete /\ ~ scan[s].skipped
         /\ scan[s].cursor = NoCursor => Accurate
    /\ scan[s].pc = "apply" /\ scan[s].status = "complete" => Accurate

CalmInv ==
  /\ DOMAIN calm = Scanner
  /\ LivesOK
  /\ RowsOK
  /\ \A s \in Scanner : HandOK(s) /\ CalmOK(s)

LEMMA CalmInvInit == Init => CalmInv
<1> SUFFICES ASSUME Init PROVE CalmInv
  OBVIOUS
<1>1. LivesOK
  BY ScanAssumption DEF Init, LivesOK
<1>2. RowsOK
  BY DEF Init, RowsOK
<1>d. DOMAIN calm = Scanner
  BY DEF Init
<1>3. ASSUME NEW s \in Scanner PROVE HandOK(s) /\ CalmOK(s)
  <2>1. scan[s].pc = "idle" /\ ~ calm[s]
    BY DEF Init, Idle
  <2> QED BY <2>1 DEF HandOK, CalmOK
<1> QED BY <1>1, <1>2, <1>3, <1>d DEF CalmInv

\* What the user does ends every calm; a file that is deleted leaves its versions behind.
LEMMA CalmChange ==
  ASSUME TypeInv, CalmInv, Change, LivesOK', missed' \in [Scanner -> SUBSET Locator],
         \A l \in Locator : Had(l) \subseteq Had(l)' /\ bygone[l] \subseteq bygone'[l],
         \A s \in Scanner, l \in Locator :
           l \in missed'[s] => l \in missed[s] \/ Had(l) \subseteq bygone'[l]
  PROVE  CalmInv'
<1>0. UNCHANGED <<log, scan>> /\ \A s \in Scanner : ~ calm'[s]
  BY DEF Change, storeVars
<1>1. /\ log \in Seq(Observation) /\ Len(log) \in Nat /\ DOMAIN log = 1..Len(log)
      /\ \A i \in DOMAIN log : log[i] \in Observation
  BY DEF TypeInv, StoreOK
<1>2. \A i \in DOMAIN log : log[i].loc \in Locator /\ log[i].kind \in {"file", "absent"}
  BY <1>1 DEF Observation
<1>3. RowsOK'
  <2>1. RowsOK
    BY DEF CalmInv
  <2> QED BY <1>0, <1>2, <2>1 DEF RowsOK
<1>4. ASSUME NEW s \in Scanner PROVE HandOK(s)'
  <2>1. HandOK(s) /\ RowsOK /\ scan[s] \in ScanType /\ scan'[s] = scan[s]
    BY <1>0 DEF CalmInv, TypeInv
  <2>2. \A k \in DOMAIN scan[s].obs : scan[s].obs[k].loc \in Locator
    <3>1. scan[s].obs \in Seq(Observation)
      BY <2>1 DEF ScanType
    <3>2. \A k \in DOMAIN scan[s].obs : scan[s].obs[k] \in Observation
      BY <3>1
    <3> QED BY <3>2 DEF Observation
  <2>3. scan[s].pc = "hash" => scan[s].file[1] \in Locator
    <3>1. scan[s].pc = "hash" => scan[s].file # <<>>
      BY DEF TypeInv, ScanOK
    <3> QED BY <2>1, <3>1 DEF ScanType
  <2>4. scan'[s].pc \in {"open", "walk", "hash"} =>
          \A l \in DOMAIN scan'[s].known : scan'[s].known[l].seq <= Len(log')
    BY <1>0, <2>1 DEF HandOK
  <2>5. scan[s].pc \in {"walk", "hash"} =>
          \A k \in DOMAIN scan[s].obs :
            LET o == scan[s].obs[k]
            IN  o.kind = "file" /\ o.loc \in scan[s].seen /\ o.prior <= Len(log)
                /\ o.nv \in life'[o.loc] \cup bygone'[o.loc]
    <3> SUFFICES ASSUME scan[s].pc \in {"walk", "hash"}, NEW k \in DOMAIN scan[s].obs, NEW o,
                        o = scan[s].obs[k]
                 PROVE  o.kind = "file" /\ o.loc \in scan[s].seen /\ o.prior <= Len(log)
                        /\ o.nv \in life'[o.loc] \cup bygone'[o.loc]
      OBVIOUS
    <3>1. o.kind = "file" /\ o.loc \in scan[s].seen /\ o.nv \in Had(o.loc) /\ o.prior <= Len(log)
      BY <2>1 DEF HandOK
    <3>2. o.loc \in Locator
      BY <2>2
    <3> QED BY <3>1, <3>2 DEF Had
  <2>6. scan[s].pc = "hash" =>
          scan[s].file[1] \in scan[s].seen /\ \E l \in Locator : l = scan[s].file[1] /\ scan[s].file[2] \in Had(l)'
    <3> SUFFICES ASSUME scan[s].pc = "hash", NEW l \in Locator, l = scan[s].file[1]
                 PROVE  scan[s].file[1] \in scan[s].seen /\ scan[s].file[2] \in Had(l)'
      BY <2>3
    <3>1. l \in scan[s].seen /\ scan[s].file[2] \in Had(l)
      BY <2>1 DEF HandOK
    <3> QED BY <3>1
  <2>7. scan[s].pc \in {"known", "open", "walk", "hash"} =>
          \A i \in DOMAIN log :
            log[i].loc \in missed'[s] /\ log[i].kind = "file" => log[i].nv \in bygone'[log[i].loc]
    <3> SUFFICES ASSUME scan[s].pc \in {"known", "open", "walk", "hash"}, NEW i \in DOMAIN log,
                        log[i].loc \in missed'[s], log[i].kind = "file"
                 PROVE  log[i].nv \in bygone'[log[i].loc]
      OBVIOUS
    <3>1. CASE log[i].loc \in missed[s]
      <4>1. log[i].nv \in bygone[log[i].loc]
        BY <2>1, <3>1 DEF HandOK
      <4> QED BY <1>2, <4>1
    <3>2. CASE Had(log[i].loc) \subseteq bygone'[log[i].loc]
      <4>1. log[i].nv \in Had(log[i].loc)
        BY <2>1 DEF RowsOK
      <4> QED BY <3>2, <4>1
    <3> QED BY <1>2, <3>1, <3>2
  <2> QED BY <1>0, <2>1, <2>4, <2>5, <2>6, <2>7 DEF HandOK, Had
<1>5. \A s \in Scanner : CalmOK(s)'
  BY <1>0 DEF CalmOK
<1>6. DOMAIN calm' = Scanner
  BY DEF Change
<1> QED BY <1>3, <1>4, <1>5, <1>6 DEF CalmInv

LEMMA CalmUser ==
  ASSUME ~ MayRestore, Alone, TypeInv, HonestInv, CalmInv, User
  PROVE  CalmInv'
<1>0. LivesOK
  BY DEF CalmInv
<1>1. ASSUME NEW l \in Locator, NEW v \in Version \cup {Gone}, Edit(l, v) PROVE CalmInv'
  <2>1. /\ disk' = [disk EXCEPT ![l] = v]
        /\ life' = [life EXCEPT ![l] = IF v = Gone THEN {} ELSE @ \cup {v}]
        /\ bygone' = [bygone EXCEPT ![l] = IF v = Gone THEN @ \cup life[l] ELSE @]
        /\ missed' = [s \in Scanner |-> IF v = Gone THEN missed[s] \cup {l} ELSE missed[s]]
        /\ v \notin bygone[l] /\ Change
    BY <1>1 DEF Edit
  <2>2. /\ life'[l] = (IF v = Gone THEN {} ELSE life[l] \cup {v})
        /\ bygone'[l] = (IF v = Gone THEN bygone[l] \cup life[l] ELSE bygone[l])
        /\ disk'[l] = v
        /\ \A k \in Locator \ {l} : life'[k] = life[k] /\ bygone'[k] = bygone[k] /\ disk'[k] = disk[k]
    BY <1>0, <2>1 DEF LivesOK, TypeInv, DiskOK
  <2>3. life' \in [Locator -> SUBSET Version] /\ bygone' \in [Locator -> SUBSET Version]
    BY <1>0, <2>1 DEF LivesOK
  <2>4. ASSUME NEW k \in Locator
        PROVE  /\ life'[k] \cap bygone'[k] = {}
               /\ disk'[k] \in life'[k] \/ (disk'[k] = Gone /\ life'[k] = {})
    BY <1>0, <2>1, <2>2 DEF LivesOK
  <2>5. LivesOK'
    BY <2>3, <2>4 DEF LivesOK
  <2>6. missed' \in [Scanner -> SUBSET Locator]
    BY <2>1 DEF HonestInv
  <2>7. \A k \in Locator : Had(k) \subseteq Had(k)' /\ bygone[k] \subseteq bygone'[k]
    BY <2>2 DEF Had
  <2>8. \A s \in Scanner, k \in Locator :
          k \in missed'[s] => k \in missed[s] \/ Had(k) \subseteq bygone'[k]
    BY <2>1, <2>2 DEF Had
  <2> QED BY <2>1, <2>5, <2>6, <2>7, <2>8, CalmChange
<1>2. ASSUME (\E state \in RootStates : Mount(state)) \/ (\E d \in Dir : Forbid(d))
             \/ (\E e \in Locator \cup Dir : EditIgnores(e))
      PROVE  CalmInv'
  <2>1. UNCHANGED <<disk, life, bygone, missed>> /\ Change
    BY <1>2 DEF Mount, Forbid, EditIgnores
  <2>2. LivesOK' /\ missed' \in [Scanner -> SUBSET Locator]
    BY <1>0, <2>1 DEF LivesOK, HonestInv
  <2>3. \A k \in Locator : Had(k) \subseteq Had(k)' /\ bygone[k] \subseteq bygone'[k]
    BY <2>1 DEF Had
  <2> QED BY <2>1, <2>2, <2>3, CalmChange
<1>3. ASSUME NEW s \in Scanner, NEW resume \in Resumes, NEW limit \in Limits, StartScan(s, resume, limit)
      PROVE  CalmInv'
  <2>1. /\ UNCHANGED <<disk, life, bygone, log>>
        /\ scan'[s] = [Idle EXCEPT !.pc = "begin", !.resume = resume, !.limit = limit,
                                   !.cursor = IF resume THEN cursor ELSE NoCursor]
    BY <1>3 DEF StartScan, diskVars, storeVars, TypeInv
  <2>2. scan'[s].pc = "begin" /\ scan'[s].seen = {}
    BY <2>1 DEF Idle
  <2>3. LivesOK' /\ RowsOK' /\ DOMAIN calm' = Scanner
    <3>1. calm' = calm
      BY <1>3 DEF StartScan, history
    <3> QED BY <1>0, <2>1, <3>1 DEF CalmInv, LivesOK, RowsOK, Had
  <2>4. HandOK(s)' /\ CalmOK(s)'
    BY <2>2 DEF HandOK, CalmOK
  <2> QED BY <2>3, <2>4 DEF CalmInv, Alone
<1> QED BY <1>1, <1>2, <1>3 DEF User

\* A step of the scanner that leaves the disk and the log alone.
LEMMA CalmOwn ==
  ASSUME Alone, CalmInv, NEW s \in Scanner, UNCHANGED <<disk, life, bygone, log>>,
         DOMAIN calm' = DOMAIN calm, HandOK(s)' /\ CalmOK(s)'
  PROVE  CalmInv'
<1>1. LivesOK' /\ RowsOK' /\ DOMAIN calm' = Scanner
  BY DEF CalmInv, LivesOK, RowsOK, Had
<1> QED BY <1>1 DEF CalmInv, Alone

\* What a visit sees is there; it is what the pass knows of it, or is taken in hand.
LEMMA VisitSees ==
  ASSUME TypeInv, NEW s \in Scanner, NEW e \in Entry, Visit(s, e)
  PROVE  \/ scan'[s].seen = scan[s].seen /\ scan'[s].pc = "walk"
         \/ /\ e \in Locator /\ disk[e] # Gone /\ Reachable(e)
            /\ scan'[s].seen = scan[s].seen \cup {e}
            /\ \/ scan'[s].pc = "walk" /\ IsUnchanged(s, e)
               \/ scan'[s].pc = "hash" /\ scan'[s].file = <<e, disk[e]>>
<1> DEFINE w == scan[s]
           x == scan'[s]
           d == Done(s, e)
<1>0. w \in ScanType /\ w.pc = "walk"
  BY DEF TypeInv, Visit, Visits, SkipIgnored, EnterDir, EnterDirFails, PassOver, Truncate,
     StatFails, Unchanged, Changed, VisitsFile, Within, Stat
<1>1. d \in ScanType /\ d.pc = "walk" /\ d.seen = w.seen
  BY <1>0 DEF Done, ScanType
<1>2. \A r : Walk(s, r) => x = r
  BY DEF Walk, TypeInv
<1> HIDE DEF w, x, d
<1>3. CASE SkipIgnored(s, e)
  <2>1. x = [d EXCEPT !.ignored = @ \cup {e}]
    BY <1>2, <1>3 DEF SkipIgnored, d
  <2> QED BY <1>1, <2>1 DEF ScanType, w, x
<1>4. CASE EnterDir(s, e)
  <2>1. x = [d EXCEPT !.todo = @ \cup Listing(e)]
    BY <1>2, <1>4 DEF EnterDir, d
  <2> QED BY <1>1, <2>1 DEF ScanType, w, x
<1>5. CASE EnterDirFails(s, e) \/ StatFails(s, e)
  <2>1. x = [d EXCEPT !.skipped = TRUE]
    BY <1>2, <1>5 DEF EnterDirFails, StatFails, d
  <2> QED BY <1>1, <2>1 DEF ScanType, w, x
<1>6. CASE PassOver(s, e)
  <2>1. x = d
    BY <1>2, <1>6 DEF PassOver, d
  <2> QED BY <1>1, <2>1 DEF w, x
<1>7. CASE Truncate(s, e)
  <2>1. x = [w EXCEPT !.complete = FALSE, !.todo = {}]
    BY <1>2, <1>7 DEF Truncate, w
  <2> QED BY <1>0, <2>1 DEF ScanType, w, x
<1>8. CASE e \in Locator /\ Unchanged(s, e)
  <2>1. x = [d EXCEPT !.seen = @ \cup {e}, !.next = e]
    BY <1>2, <1>8 DEF Unchanged, d
  <2>2. x.pc = "walk" /\ x.seen = w.seen \cup {e}
    BY <1>1, <2>1 DEF ScanType
  <2> QED BY <1>8, <2>2 DEF Unchanged, Stat, w, x
<1>9. CASE e \in Locator /\ Changed(s, e)
  <2>1. x = [d EXCEPT !.pc = "hash", !.seen = @ \cup {e}, !.file = <<e, disk[e]>>]
    BY <1>2, <1>9 DEF Changed, d
  <2>2. x.pc = "hash" /\ x.seen = w.seen \cup {e} /\ x.file = <<e, disk[e]>>
    BY <1>1, <2>1 DEF ScanType
  <2> QED BY <1>9, <2>2 DEF Changed, Stat, w, x
<1> QED BY <1>3, <1>4, <1>5, <1>6, <1>7, <1>8, <1>9 DEF Visit

LEMMA SameView ==
  ASSUME UNCHANGED log
  PROVE  /\ KnownState(Len(log))' = KnownState(Len(log))
         /\ \A l : Current(l, Len(log))' = Current(l, Len(log))
<1>1. \A l : Latest(l, Len(log))' = Latest(l, Len(log))
  BY DEF Latest
<1>2. \A l : Current(l, Len(log))' = Current(l, Len(log))
  BY <1>1 DEF Current
<1> QED BY <1>1, <1>2 DEF KnownState

LEMMA CalmVisit ==
  ASSUME Alone, TypeInv, CalmInv, NEW s \in Scanner, NEW e \in Entry, Visit(s, e)
  PROVE  CalmInv'
<1> DEFINE w == scan[s]
           x == scan'[s]
<1>0. /\ w \in ScanType /\ w.pc = "walk" /\ UNCHANGED <<diskVars, storeVars, history>>
  BY DEF TypeInv, Visit, Visits, SkipIgnored, EnterDir, EnterDirFails, PassOver, Truncate,
     StatFails, Unchanged, Changed, VisitsFile, Within, Stat, Walk
<1>i. UNCHANGED <<disk, life, bygone, log, rules, root, unreadable, missed, calm>>
  BY <1>0 DEF diskVars, storeVars, history
<1>v. /\ KnownState(Len(log))' = KnownState(Len(log))
      /\ \A l : Current(l, Len(log))' = Current(l, Len(log))
  BY <1>i, SameView
<1>r. \A f : Reachable(f)' = Reachable(f)
  BY <1>i DEF Reachable
<1>1. /\ x.pc \in {"walk", "hash"} /\ x.cursor = w.cursor /\ x.rules = w.rules
      /\ x.obs = w.obs /\ x.known = w.known
      /\ x.complete /\ ~ x.skipped /\ x.cursor = NoCursor =>
           /\ w.complete /\ ~ w.skipped
           /\ \A l \in Locator : disk[l] # Gone /\ Accounted(s, l) => Accounted(s, l)'
  BY VisitAccounts
<1>2. \/ x.seen = w.seen /\ x.pc = "walk"
      \/ /\ e \in Locator /\ disk[e] # Gone /\ Reachable(e)
         /\ x.seen = w.seen \cup {e}
         /\ \/ x.pc = "walk" /\ IsUnchanged(s, e)
            \/ x.pc = "hash" /\ x.file = <<e, disk[e]>>
  BY VisitSees
<1>h. HandOK(s) /\ CalmOK(s) /\ LivesOK
  BY DEF CalmInv
<1>3. x.pc = "hash" => x.file[1] = e /\ x.file[2] = disk[e] /\ e \in x.seen /\ e \in Locator /\ Reachable(e)
  BY <1>2
<1>4. HandOK(s)'
  <2>1. \A l \in DOMAIN w.known : w.known[l].seq <= Len(log)
    BY <1>0, <1>h DEF HandOK
  <2>2. \A k \in DOMAIN w.obs :
          LET o == w.obs[k]
          IN  o.kind = "file" /\ o.loc \in x.seen /\ o.nv \in Had(o.loc) /\ o.prior <= Len(log)
    BY <1>0, <1>2, <1>h DEF HandOK
  <2>3. x.pc = "hash" => disk[e] \in Had(e)
    BY <1>2, <1>h DEF LivesOK, Had
  <2>4. \A i \in DOMAIN log :
          log[i].loc \in missed[s] /\ log[i].kind = "file" => log[i].nv \in bygone[log[i].loc]
    BY <1>0, <1>h DEF HandOK
  <2> HIDE DEF w, x
  <2> QED BY <1>i, <1>1, <1>3, <2>1, <2>2, <2>3, <2>4 DEF HandOK, Had, x
<1>5. CalmOK(s)'
  <2> SUFFICES ASSUME calm[s]
               PROVE  CalmOK(s)'
    BY <1>i DEF CalmOK
  <2>1. /\ w.known = KnownState(Len(log)) /\ w.rules = rules
        /\ \A k \in DOMAIN w.obs :
             LET o == w.obs[k]
             IN  o.nv = disk[o.loc] /\ o.prior = PriorSeq(w.known, o.loc)
        /\ \A l \in w.seen :
             /\ disk[l] # Gone
             /\ Current(l, Len(log)) = disk[l] \/ \E k \in DOMAIN w.obs : w.obs[k].loc = l
        /\ w.complete /\ ~ w.skipped /\ w.cursor = NoCursor =>
             \A l \in Locator : disk[l] # Gone => Accounted(s, l)
    BY <1>0, <1>h DEF CalmOK
  <2>2. \A l \in x.seen :
          /\ disk[l] # Gone
          /\ \/ Current(l, Len(log)) = disk[l]
             \/ \E k \in DOMAIN x.obs : x.obs[k].loc = l
             \/ x.pc = "hash" /\ x.file[1] = l
    <3>1. IsUnchanged(s, e) => Current(e, Len(log)) = disk[e]
      BY <2>1 DEF IsUnchanged, KnownState
    <3> QED BY <1>1, <1>2, <1>3, <2>1, <3>1
  <2>3. x.complete /\ ~ x.skipped /\ x.cursor = NoCursor =>
          \A l \in Locator : disk[l] # Gone => Accounted(s, l)'
    BY <1>1, <2>1
  <2>4. x.known = KnownState(Len(log))' /\ x.rules = rules'
    BY <1>i, <1>v, <1>1, <2>1
  <2>5. \A k \in DOMAIN x.obs :
          LET o == x.obs[k]
          IN  o.nv = disk'[o.loc] /\ o.prior = PriorSeq(x.known, o.loc)
    BY <1>i, <1>1, <2>1
  <2>6. x.pc = "hash" =>
          /\ x.file[2] = disk'[x.file[1]]
          /\ root' = "up" /\ Above(x.file[1]) \cap unreadable' = {}
    BY <1>i, <1>3 DEF Reachable
  <2>7. \A l \in x.seen :
          /\ disk'[l] # Gone
          /\ \/ Current(l, Len(log))' = disk'[l]
             \/ \E k \in DOMAIN x.obs : x.obs[k].loc = l
             \/ x.pc = "hash" /\ x.file[1] = l
    BY <1>i, <1>v, <2>2
  <2> HIDE DEF w
  <2> QED BY <1>i, <1>1, <2>3, <2>4, <2>5, <2>6, <2>7 DEF CalmOK, Reachable
<1> QED BY <1>i, <1>4, <1>5, CalmOwn

LEMMA CalmHash ==
  ASSUME Alone, TypeInv, CalmInv, NEW s \in Scanner, Unstable(s) \/ HashFails(s) \/ HashFile(s)
  PROVE  CalmInv'
<1> DEFINE w == scan[s]
           x == scan'[s]
<1>0. /\ w \in ScanType /\ w.pc = "hash" /\ UNCHANGED <<diskVars, storeVars, history>>
  BY DEF TypeInv, Unstable, HashFails, HashFile, Walk
<1>i. UNCHANGED <<disk, life, bygone, log, rules, root, unreadable, missed, calm>>
  BY <1>0 DEF diskVars, storeVars, history
<1>v. /\ KnownState(Len(log))' = KnownState(Len(log))
      /\ \A l : Current(l, Len(log))' = Current(l, Len(log))
  BY <1>i, SameView
<1>f. PICK f \in Locator : f = scan[s].file[1]
  <2>1. w.file # <<>>
    BY <1>0 DEF TypeInv, ScanOK
  <2> QED BY <1>0, <2>1 DEF ScanType
<1>h. HandOK(s) /\ CalmOK(s) /\ LivesOK
  BY DEF CalmInv
<1> DEFINE o == FileObs(f, w.file[2], disk[f], PriorSeq(w.known, f))
           obs == Append(w.obs, o)
<1>1. /\ x.pc = "walk" /\ x.cursor = w.cursor /\ x.rules = w.rules /\ x.known = w.known
      /\ x.ignored = w.ignored /\ x.seen = w.seen /\ x.todo = w.todo /\ x.complete = w.complete
      /\ \/ x.obs = w.obs /\ (Unstable(s) \/ HashFails(s))
         \/ x.obs = obs /\ x.skipped = w.skipped
  <2>1. \A r : Walk(s, r) => x = r
    BY DEF Walk, TypeInv
  <2> HIDE DEF x
  <2>2. CASE Unstable(s)
    <3>1. x = [w EXCEPT !.pc = "walk", !.file = <<>>]
      BY <2>1, <2>2 DEF Unstable
    <3> HIDE DEF w, obs
    <3> QED BY <1>0, <2>2, <3>1 DEF ScanType
  <2>3. CASE HashFails(s)
    <3>1. x = [w EXCEPT !.pc = "walk", !.file = <<>>, !.skipped = TRUE]
      BY <2>1, <2>3 DEF HashFails
    <3> HIDE DEF w, obs
    <3> QED BY <1>0, <2>3, <3>1 DEF ScanType
  <2>4. CASE HashFile(s)
    <3> DEFINE n == w.scanned + 1
    <3>1. x = [w EXCEPT !.pc = "walk", !.file = <<>>, !.next = f, !.scanned = n, !.obs = obs]
      BY <1>f, <2>1, <2>4 DEF HashFile
    <3> HIDE DEF w, n, obs
    <3>2. /\ x.pc = "walk" /\ x.cursor = w.cursor /\ x.rules = w.rules /\ x.known = w.known
          /\ x.ignored = w.ignored /\ x.seen = w.seen /\ x.todo = w.todo /\ x.complete = w.complete
          /\ x.obs = obs /\ x.skipped = w.skipped
      BY <1>0, <3>1 DEF ScanType
    <3> QED BY <3>2
  <2> QED BY <2>2, <2>3, <2>4
<1>2. o.kind = "file" /\ o.loc = f /\ o.nv = w.file[2] /\ o.prior = PriorSeq(w.known, f)
  BY DEF FileObs
<1>3. w.known \in Known /\ w.obs \in Seq(Observation) /\ Len(log) \in Nat
  BY <1>0 DEF ScanType, TypeInv, StoreOK
<1> HIDE DEF w, x, o

\* What the walk has emitted: what it had, and o perhaps.
<1>4. /\ \A k \in DOMAIN x.obs : (k \in DOMAIN w.obs /\ x.obs[k] = w.obs[k]) \/ x.obs[k] = o
      /\ \A k \in DOMAIN w.obs : k \in DOMAIN x.obs /\ x.obs[k] = w.obs[k]
      /\ x.obs = obs => \E k \in DOMAIN x.obs : x.obs[k].loc = f
  <2>1. CASE x.obs = w.obs
    <3>1. Len(obs) = Len(w.obs) + 1 /\ Len(w.obs) \in Nat
      BY <1>3, LenProperties
    <3>2. x.obs # obs
      <4> HIDE DEF obs
      <4> QED BY <2>1, <3>1
    <3> QED BY <2>1, <3>2
  <2>2. CASE x.obs = obs
    <3>1. Len(w.obs) \in Nat /\ DOMAIN w.obs = 1..Len(w.obs)
      BY <1>3, LenProperties
    <3>2. /\ DOMAIN x.obs = 1 .. Len(w.obs) + 1
          /\ \A k \in 1 .. Len(w.obs) : x.obs[k] = w.obs[k]
          /\ x.obs[Len(w.obs) + 1] = o
      BY <1>3, <2>2, <3>1 DEF obs
    <3>3. Len(w.obs) + 1 \in DOMAIN x.obs
      BY <3>1, <3>2
    <3>4. \A k \in 1 .. Len(w.obs) + 1 : k \in 1 .. Len(w.obs) \/ k = Len(w.obs) + 1
      BY <3>1
    <3>5. \A k \in DOMAIN x.obs : (k \in DOMAIN w.obs /\ x.obs[k] = w.obs[k]) \/ x.obs[k] = o
      BY <3>1, <3>2, <3>4
    <3>6. \A k \in DOMAIN w.obs : k \in DOMAIN x.obs
      BY <3>1, <3>2
    <3> QED BY <1>2, <3>1, <3>2, <3>3, <3>5, <3>6
  <2> QED BY <1>1, <2>1, <2>2
<1>5. HandOK(s)'
  <2>1. \A l \in DOMAIN w.known : w.known[l].seq <= Len(log)
    BY <1>0, <1>h DEF HandOK, w
  <2>2. \A k \in DOMAIN w.obs :
          /\ w.obs[k].kind = "file" /\ w.obs[k].loc \in w.seen /\ w.obs[k].nv \in Had(w.obs[k].loc)
          /\ w.obs[k].prior <= Len(log)
    BY <1>0, <1>h DEF HandOK, w
  <2>3. f \in w.seen /\ w.file[2] \in Had(f)
    BY <1>0, <1>f, <1>h DEF HandOK, w
  <2>4. o.prior <= Len(log)
    BY <1>2, <1>3, <2>1 DEF PriorSeq
  <2>5. \A k \in DOMAIN x.obs :
          /\ x.obs[k].kind = "file" /\ x.obs[k].loc \in x.seen /\ x.obs[k].nv \in Had(x.obs[k].loc)
          /\ x.obs[k].prior <= Len(log)
    BY <1>1, <1>2, <1>4, <2>2, <2>3, <2>4
  <2>6. \A i \in DOMAIN log :
          log[i].loc \in missed[s] /\ log[i].kind = "file" => log[i].nv \in bygone[log[i].loc]
    BY <1>0, <1>h DEF HandOK, w
  <2> QED BY <1>i, <1>1, <2>1, <2>5, <2>6 DEF HandOK, Had, x
<1>6. CalmOK(s)'
  <2> SUFFICES ASSUME calm[s]
               PROVE  CalmOK(s)'
    BY <1>i DEF CalmOK
  <2>1. /\ w.known = KnownState(Len(log)) /\ w.rules = rules
        /\ \A k \in DOMAIN w.obs :
             w.obs[k].nv = disk[w.obs[k].loc] /\ w.obs[k].prior = PriorSeq(w.known, w.obs[k].loc)
        /\ \A l \in w.seen :
             /\ disk[l] # Gone
             /\ Current(l, Len(log)) = disk[l] \/ (\E k \in DOMAIN w.obs : w.obs[k].loc = l) \/ l = f
        /\ w.complete /\ ~ w.skipped /\ w.cursor = NoCursor =>
             \A l \in Locator : disk[l] # Gone => Accounted(s, l)
        /\ w.file[2] = disk[f] /\ Reachable(f)
    BY <1>0, <1>f, <1>h DEF CalmOK, w
  <2>2. f \in w.seen
    BY <1>0, <1>f, <1>h DEF HandOK, w
  <2>3. ~ Unstable(s) /\ ~ HashFails(s)
    BY <1>f, <2>1, <2>2 DEF Unstable, HashFails, w
  <2>4. \A k \in DOMAIN x.obs :
          x.obs[k].nv = disk'[x.obs[k].loc] /\ x.obs[k].prior = PriorSeq(x.known, x.obs[k].loc)
    BY <1>i, <1>1, <1>2, <1>4, <2>1
  <2>5. \A l \in x.seen :
          /\ disk'[l] # Gone
          /\ Current(l, Len(log))' = disk'[l] \/ \E k \in DOMAIN x.obs : x.obs[k].loc = l
    BY <1>i, <1>v, <1>1, <1>4, <2>1, <2>3
  <2>6. x.complete /\ ~ x.skipped /\ x.cursor = NoCursor =>
          \A l \in Locator : disk'[l] # Gone => Accounted(s, l)'
    <3>1. \A l : Accounted(s, l) => Accounted(s, l)'
      BY <1>1 DEF Accounted, Ahead, w, x
    <3>2. x.skipped = w.skipped
      BY <1>1, <2>3
    <3> QED BY <1>i, <1>1, <2>1, <3>1, <3>2
  <2>7. x.known = KnownState(Len(log))' /\ x.rules = rules'
    BY <1>i, <1>v, <1>1, <2>1
  <2> QED BY <1>1, <2>4, <2>5, <2>6, <2>7 DEF CalmOK, x
<1> QED BY <1>i, <1>5, <1>6, CalmOwn

LEMMA CalmBegin ==
  ASSUME Alone, TypeInv, HonestInv, CalmInv, NEW s \in Scanner, BeginPass(s) \/ CommitPass(s)
  PROVE  CalmInv'
<1>1. /\ scan'[s].pc = "known" /\ scan'[s].seen = scan[s].seen /\ scan[s].pc \in {"begin", "insert"}
      /\ UNCHANGED <<disk, life, bygone, log, calm>>
      /\ missed'[s] = {l \in Locator : disk[l] = Gone}
  <2>1. PICK n : Begins(s, n)
    BY BeginsHow
  <2>2. /\ scan'[s].pc = "known" /\ scan'[s].seen = scan[s].seen
        /\ missed'[s] = {l \in Locator : disk[l] = Gone}
    BY <2>1 DEF Begins, TypeInv, ScanType, HonestInv
  <2>3. UNCHANGED <<disk, life, bygone, log, calm>>
    BY <2>1 DEF Begins, diskVars
  <2> QED BY <2>2, <2>3, BeginsHow
<1>2. /\ \A i \in DOMAIN log : log[i].kind = "file" => log[i].nv \in Had(log[i].loc)
      /\ HandOK(s) /\ LivesOK
  BY DEF CalmInv, RowsOK
<1>3. \A l \in missed'[s] : Had(l) \subseteq bygone[l]
  <2>1. \A l \in missed'[s] : life[l] = {}
    BY <1>1, <1>2, ScanAssumption DEF LivesOK
  <2> QED BY <2>1 DEF Had
<1>4. HandOK(s)'
  <2>1. \A i \in DOMAIN log :
          log[i].loc \in missed'[s] /\ log[i].kind = "file" => log[i].nv \in bygone[log[i].loc]
    BY <1>2, <1>3
  <2> QED BY <1>1, <1>2, <2>1 DEF HandOK
<1>5. CalmOK(s)'
  BY <1>1 DEF CalmOK
<1> QED BY <1>1, <1>4, <1>5, CalmOwn

LEMMA CalmSweep ==
  ASSUME Alone, TypeInv, CalmInv, NEW s \in Scanner, SweepPasses(s)
  PROVE  CalmInv'
<1>1. /\ scan'[s].pc = "insert" /\ scan'[s].seen = scan[s].seen /\ scan[s].pc = "begin"
      /\ UNCHANGED <<disk, life, bygone, log, calm>>
  BY DEF SweepPasses, TypeInv, ScanType, diskVars, storeVars, history
<1>2. HandOK(s)' /\ CalmOK(s)'
  BY <1>1 DEF CalmInv, HandOK, CalmOK
<1> QED BY <1>1, <1>2, CalmOwn

LEMMA CalmLoad ==
  ASSUME Alone, TypeInv, CalmInv, NEW s \in Scanner, LoadKnown(s)
  PROVE  CalmInv'
<1> DEFINE known == KnownState(lastSeq)
<1>1. /\ scan[s].pc = "known" /\ UNCHANGED <<disk, life, bygone, log, missed>>
      /\ calm' = [calm EXCEPT ![s] = lastSeq = Len(log)]
      /\ scan' = [scan EXCEPT ![s].pc = "open", ![s].known = known]
  BY DEF LoadKnown, diskVars, storeVars
<1>2. \A l \in DOMAIN known : known[l].seq <= Len(log)
  <2>1. lastSeq \in Nat /\ Len(log) \in Nat /\ lastSeq <= Len(log)
    BY DEF TypeInv, StoreOK
  <2>2. \A l \in DOMAIN known : known[l].seq \in 0..lastSeq
    BY <2>1, LatestRow DEF KnownState
  <2> HIDE DEF known
  <2> QED BY <2>1, <2>2
<1>3. lastSeq = Len(log) => known = KnownState(Len(log))'
  BY <1>1, SameView
<1> HIDE DEF known
<1>4. /\ scan'[s].pc = "open" /\ scan'[s].seen = scan[s].seen /\ scan'[s].known = known
  BY <1>1 DEF TypeInv, ScanType
<1>5. DOMAIN calm' = DOMAIN calm /\ (calm'[s] => lastSeq = Len(log))
  BY <1>1 DEF CalmInv
<1>6. HandOK(s)
  BY DEF CalmInv
<1>7. HandOK(s)'
  BY <1>1, <1>2, <1>4, <1>6 DEF HandOK
<1>8. CalmOK(s)'
  BY <1>3, <1>4, <1>5 DEF CalmOK
<1> QED BY <1>1, <1>5, <1>7, <1>8, CalmOwn

LEMMA CalmOpen ==
  ASSUME Alone, TypeInv, HonestInv, CalmInv, NEW s \in Scanner, OpenRoot(s)
  PROVE  CalmInv'
<1>1. /\ scan[s].pc = "open" /\ UNCHANGED <<disk, life, bygone, log, rules, missed, calm>>
      /\ scan' = [scan EXCEPT ![s].pc = "walk", ![s].todo = {Root}, ![s].rules = rules]
  BY DEF OpenRoot, diskVars, storeVars, history
<1>2. /\ scan'[s].pc = "walk" /\ scan'[s].seen = scan[s].seen /\ scan'[s].known = scan[s].known
      /\ scan'[s].todo = {Root} /\ scan'[s].rules = rules /\ scan'[s].obs = scan[s].obs
  BY <1>1 DEF TypeInv, ScanType
<1>3. scan[s].obs = <<>> /\ HandOK(s) /\ CalmOK(s)
  BY <1>1 DEF HonestInv, WalkInv, CalmInv
<1>4. scan'[s].seen = {}
  BY <1>1, <1>2, <1>3 DEF HandOK
<1>5. HandOK(s)'
  <2>1. \A l \in DOMAIN scan[s].known : scan[s].known[l].seq <= Len(log)
    BY <1>1, <1>3 DEF HandOK
  <2>2. \A i \in DOMAIN log :
          log[i].loc \in missed[s] /\ log[i].kind = "file" => log[i].nv \in bygone[log[i].loc]
    BY <1>1, <1>3 DEF HandOK
  <2>3. DOMAIN scan'[s].obs = {}
    BY <1>2, <1>3
  <2> QED BY <1>1, <1>2, <2>1, <2>2, <2>3 DEF HandOK
<1>6. CalmOK(s)'
  <2>1. \A l \in Locator : Accounted(s, l)'
    BY <1>2, TreeAssumption DEF Accounted, Ahead
  <2>2. calm[s] => scan'[s].known = KnownState(Len(log))'
    BY <1>1, <1>2, <1>3, SameView DEF CalmOK
  <2>3. calm' = calm /\ rules' = rules
    BY <1>1
  <2> QED BY <1>2, <1>3, <1>4, <2>1, <2>2, <2>3 DEF CalmOK
<1> QED BY <1>1, <1>5, <1>6, CalmOwn

\* Behind the append a pass holds nothing; what is accurate stays so.
LEMMA CalmEnd ==
  ASSUME Alone, TypeInv, HonestInv, CalmInv, NEW s \in Scanner,
         \/ SetCursor(s) \/ FinishPass(s) \/ RootUnavailable(s) \/ Apply(s) \/ WriteFails(s) \/ Crash(s)
  PROVE  CalmInv'
<1> DEFINE w == scan[s]
           x == scan'[s]
<1>0. w \in ScanType /\ scan \in [Scanner -> ScanType]
  BY DEF TypeInv
<1>1. UNCHANGED <<disk, life, bygone, log, rules, calm>>
  BY DEF SetCursor, FinishPass, RootUnavailable, Apply, WriteFails, Crash, diskVars, storeVars, history
<1>2. Accurate => Accurate'
  <2>1. \A l : Current(l, Len(log))' = Current(l, Len(log))
    BY <1>1, SameView
  <2> QED BY <1>1, <2>1 DEF Accurate
<1>3. CalmOK(s)
  BY DEF CalmInv
<1>4. CASE SetCursor(s)
  <2>1. x = [w EXCEPT !.pc = "finish"] /\ w.pc = "cursor"
    BY <1>0, <1>4 DEF SetCursor
  <2> HIDE DEF w, x
  <2>2. /\ x.pc = "finish" /\ x.rules = w.rules /\ x.complete = w.complete
        /\ x.skipped = w.skipped /\ x.cursor = w.cursor
    BY <1>0, <2>1 DEF ScanType
  <2>3. HandOK(s)'
    BY <2>2 DEF HandOK, x
  <2>4. CalmOK(s)'
    BY <1>1, <1>2, <1>3, <2>1, <2>2 DEF CalmOK, w, x
  <2> QED BY <1>1, <2>3, <2>4, CalmOwn
<1>5. CASE FinishPass(s)
  <2> DEFINE status == Coverage(w, w.resume)
  <2>1. x = [w EXCEPT !.pc = "apply", !.status = status] /\ w.pc = "finish"
    BY <1>0, <1>5 DEF FinishPass
  <2>2. status = "complete" => w.complete /\ ~ w.skipped /\ ~ w.resume
    BY DEF Coverage
  <2>3. status = "complete" => w.cursor = NoCursor
    BY <2>1, <2>2 DEF HonestInv, WalkInv, Walked
  <2> HIDE DEF w, x, status
  <2>4. /\ x.pc = "apply" /\ x.rules = w.rules /\ x.status = status
    BY <1>0, <2>1 DEF ScanType
  <2>5. HandOK(s)'
    BY <2>4 DEF HandOK, x
  <2>6. CalmOK(s)'
    BY <1>1, <1>2, <1>3, <2>1, <2>2, <2>3, <2>4 DEF CalmOK, w, x
  <2> QED BY <1>1, <2>5, <2>6, CalmOwn
<1>6. CASE RootUnavailable(s) \/ Apply(s) \/ WriteFails(s) \/ Crash(s)
  <2>1. x = Idle
    BY <1>0, <1>6 DEF RootUnavailable, Apply, WriteFails, Crash
  <2>2. x.pc = "idle"
    BY <2>1 DEF Idle
  <2>3. HandOK(s)' /\ CalmOK(s)'
    BY <2>2 DEF HandOK, CalmOK
  <2> QED BY <1>1, <2>3, CalmOwn
<1> QED BY <1>4, <1>5, <1>6

\* When the log grows, what it says of a file is what its newest new row says, if one
\* is about the file, and else what it said before.
LEMMA GrownView ==
  ASSUME log \in Seq(Observation), log' \in Seq(Observation),
         DOMAIN log \subseteq DOMAIN log', \A i \in DOMAIN log : log'[i] = log[i],
         \A i \in NewSeqs : i \in Nat /\ i > Len(log),
         NEW l \in Locator
  PROVE  \/ \E i \in NewSeqs : log'[i].loc = l /\ Current(l, Len(log))' = log'[i].nv
         \/ /\ \A i \in NewSeqs : log'[i].loc # l
            /\ Current(l, Len(log))' = Current(l, Len(log))
<1> DEFINE n == Len(log)
           p == Len(log')
           m == LatestOf(log, l, n)
           q == LatestOf(log', l, p)
<1>1. n \in Nat /\ p \in Nat /\ DOMAIN log = 1..n /\ DOMAIN log' = 1..p
  BY LenProperties
<1>2. /\ Current(l, Len(log)) = (IF m = 0 THEN Gone ELSE log[m].nv)
      /\ Current(l, Len(log))' = (IF q = 0 THEN Gone ELSE log'[q].nv)
  BY DEF Current, Latest, LatestOf
<1>3. /\ m \in 0..n /\ (m # 0 => log[m].loc = l)
      /\ \A i \in 1..n : log[i].loc = l => i <= m
  <2> HIDE DEF n
  <2> QED BY <1>1, LatestOfRows
<1>4. /\ q \in 0..p /\ (q # 0 => log'[q].loc = l)
      /\ \A i \in 1..p : log'[i].loc = l => i <= q
  <2> HIDE DEF p
  <2> QED BY <1>1, LatestOfRows
<1>5. \A i \in NewSeqs : i \in 1..p /\ i > n
  BY <1>1 DEF NewSeqs
<1>6. \A i \in 1..p : i \in NewSeqs \/ i \in 1..n
  BY <1>1 DEF NewSeqs
<1>7. \A i \in 1..n : i \in 1..p /\ log'[i] = log[i]
  BY <1>1
<1> HIDE DEF m, q, n, p
<1>8. CASE q \in NewSeqs
  <2>1. q # 0
    BY <1>1, <1>5, <1>8
  <2> QED BY <1>2, <1>4, <1>8, <2>1
<1>9. CASE q \notin NewSeqs
  <2>1. q \in 0..n
    BY <1>1, <1>4, <1>6, <1>9
  <2>2. \A i \in NewSeqs : log'[i].loc # l
    BY <1>1, <1>4, <1>5, <2>1
  <2>3. q = m
    <3>1. q # 0 => q <= m
      BY <1>1, <1>3, <1>4, <1>7, <2>1
    <3>2. m # 0 => m <= q
      BY <1>1, <1>3, <1>4, <1>7
    <3> QED BY <1>1, <1>3, <1>4, <3>1, <3>2
  <2>4. q # 0 => log'[q] = log[q]
    BY <1>7, <2>1
  <2> QED BY <1>2, <2>2, <2>3, <2>4 DEF n
<1> QED BY <1>8, <1>9

\* What a pass emits was appended before only under a row that it did not know of, and
\* a tombstone never.
LEMMA RowsSettled ==
  ASSUME TypeInv, LivesOK, RowsOK, NEW l \in Locator, NEW j \in DOMAIN log, log[j].loc = l,
         log[j].prior = PriorSeq(KnownState(Len(log)), l)
  PROVE  /\ Current(l, Len(log)) = Gone
         /\ log[j].kind = "file" => log[j].nv \in bygone[l]
<1> DEFINE m == Latest(l, Len(log))
<1>1. log \in Seq(Observation) /\ Len(log) \in Nat /\ DOMAIN log = 1..Len(log) /\ log[j] \in Observation
  BY DEF TypeInv, StoreOK
<1>2. m \in 0..Len(log) /\ (m # 0 => log[m].loc = l) /\ j <= m
  BY <1>1, LatestRow
<1>3. m \in DOMAIN log /\ m # 0 /\ j \in Nat
  BY <1>1, <1>2
<1>4. Current(l, Len(log)) = log[m].nv
  BY <1>3 DEF Current
<1> HIDE DEF m
<1>5. Current(l, Len(log)) = Gone
  <2> SUFFICES ASSUME Current(l, Len(log)) # Gone PROVE FALSE
    OBVIOUS
  <2>1. log[j].prior = m
    BY DEF PriorSeq, KnownState, m
  <2>2. log[j].prior < j
    BY DEF RowsOK
  <2> QED BY <1>2, <1>3, <2>1, <2>2
<1>6. ASSUME log[j].kind = "file" PROVE log[j].nv \in bygone[l]
  <2>1. log[m].nv = Gone
    BY <1>4, <1>5
  <2>2. log[m].kind = "absent"
    <3>1. log[m].kind # "absent" => log[m].nv \in Had(l)
      BY <1>2, <1>3 DEF RowsOK
    <3>2. Had(l) \subseteq Version /\ Gone \notin Version
      BY ScanAssumption DEF LivesOK, Had
    <3> QED BY <2>1, <3>1, <3>2
  <2>3. j < m
    BY <1>2, <1>3, <1>6, <2>2
  <2> QED BY <1>2, <1>3, <1>6, <2>2, <2>3 DEF RowsOK
<1> QED BY <1>5, <1>6

\* What a calm and complete pass appends makes the view of the log accurate.
LEMMA CalmAccurate ==
  ASSUME TypeInv, HonestInv, CalmInv, NEW s \in Scanner, AppendObservations(s), calm[s],
         scan[s].complete, ~ scan[s].skipped, scan[s].cursor = NoCursor,
         NEW l \in Locator, ~ IsHidden(l, rules)
  PROVE  Current(l, Len(log))' = disk[l]
<1> DEFINE w == scan[s]
           now == Current(l, Len(log))
<1>1. w.pc = "walk" /\ w.todo = {} /\ LivesOK /\ RowsOK /\ HandOK(s) /\ CalmOK(s) /\ WalkInv(s)
  BY DEF AppendObservations, CalmInv, HonestInv
<1>2. /\ w.known = KnownState(Len(log))
      /\ w.rules = rules
      /\ \A k \in DOMAIN w.obs :
           w.obs[k].nv = disk[w.obs[k].loc] /\ w.obs[k].prior = PriorSeq(w.known, w.obs[k].loc)
      /\ \A f \in w.seen :
           disk[f] # Gone /\ (Current(f, Len(log)) = disk[f] \/ \E k \in DOMAIN w.obs : w.obs[k].loc = f)
      /\ \A f \in Locator : disk[f] # Gone => Accounted(s, f)
  BY <1>1 DEF CalmOK
<1>3. \A k \in DOMAIN w.obs : w.obs[k].kind = "file" /\ w.obs[k].loc \in w.seen
  BY <1>1 DEF HandOK
<1>4. w.ignored \subseteq w.rules
  BY <1>1 DEF WalkInv, Walked
<1>5. ~ IsHidden(l, w.ignored)
  BY <1>2, <1>4 DEF IsHidden
<1>6. \A f : TombstoneOf(s, f).loc = f /\ TombstoneOf(s, f).nv = Gone
  BY DEF TombstoneOf, Tombstone
<1>7. /\ log' \in Seq(Observation)
      /\ DOMAIN log \subseteq DOMAIN log' /\ \A i \in DOMAIN log : log'[i] = log[i]
      /\ \A i \in NewSeqs :
           /\ i \in Nat /\ i > Len(log)
           /\ \/ \E k \in DOMAIN scan[s].obs : log'[i] = scan[s].obs[k]
              \/ \E f \in Missing(scan[s]) : log'[i] = TombstoneOf(s, f)
      /\ \A k \in DOMAIN scan[s].obs :
           InLogIds(Id(scan[s].obs[k])) \/ \E i \in NewSeqs : log'[i] = scan[s].obs[k]
      /\ \A f \in Missing(scan[s]) :
           InLogIds(Id(TombstoneOf(s, f))) \/ \E i \in NewSeqs : log'[i] = TombstoneOf(s, f)
  BY AppendGrows
<1>8. \/ \E i \in NewSeqs : log'[i].loc = l /\ Current(l, Len(log))' = log'[i].nv
      \/ /\ \A i \in NewSeqs : log'[i].loc # l
         /\ Current(l, Len(log))' = now
  <2>1. log \in Seq(Observation)
    BY DEF TypeInv, StoreOK
  <2> QED BY <1>7, <2>1, GrownView
<1>9. CASE l \in w.seen
  <2>1. l \notin Missing(w) /\ disk[l] # Gone
    BY <1>2, <1>9 DEF Missing
  <2>2. \A i \in NewSeqs : log'[i].loc = l => log'[i].nv = disk[l]
    BY <1>2, <1>6, <1>7, <2>1
  <2>3. ASSUME \A i \in NewSeqs : log'[i].loc # l PROVE now = disk[l]
    <3> SUFFICES ASSUME NEW k \in DOMAIN w.obs, w.obs[k].loc = l PROVE FALSE
      BY <1>2, <1>9
    <3>1. InLogIds(Id(w.obs[k]))
      BY <1>7, <2>3
    <3>2. PICK j \in DOMAIN log : Id(log[j]) = Id(w.obs[k])
      BY <3>1 DEF InLogIds
    <3>3. /\ log[j].kind = "file" /\ log[j].loc = l /\ log[j].nv = disk[l]
          /\ log[j].prior = PriorSeq(KnownState(Len(log)), l)
      BY <1>2, <1>3, <3>2 DEF Id
    <3>4. log[j].nv \in bygone[l]
      BY <1>1, <3>3, RowsSettled
    <3> QED BY <1>1, <2>1, <3>3, <3>4 DEF LivesOK
  <2> QED BY <1>8, <2>2, <2>3
<1>10. CASE l \notin w.seen
  <2>1. disk[l] = Gone
    BY <1>1, <1>2, <1>5, <1>10 DEF Accounted, Ahead
  <2>2. \A i \in NewSeqs : log'[i].loc = l => log'[i].nv = Gone
    BY <1>3, <1>6, <1>7, <1>10
  <2>3. ASSUME \A i \in NewSeqs : log'[i].loc # l PROVE now = Gone
    <3> SUFFICES ASSUME now # Gone PROVE FALSE
      OBVIOUS
    <3>1. l \in DOMAIN w.known /\ w.known[l].seq = PriorSeq(w.known, l)
      BY <1>2 DEF KnownState, PriorSeq
    <3>2. l \in Missing(w)
      BY <1>5, <1>10, <3>1 DEF Missing, Coverage
    <3>3. InLogIds(Id(TombstoneOf(s, l)))
      BY <1>6, <1>7, <2>3, <3>2
    <3>4. PICK j \in DOMAIN log : Id(log[j]) = Id(TombstoneOf(s, l))
      BY <3>3 DEF InLogIds
    <3>5. log[j].loc = l /\ log[j].prior = PriorSeq(KnownState(Len(log)), l)
      BY <1>2, <3>1, <3>4 DEF Id, TombstoneOf, Tombstone
    <3> QED BY <1>1, <3>5, RowsSettled
  <2> QED BY <1>8, <2>1, <2>2, <2>3
<1> QED BY <1>9, <1>10

LEMMA CalmAppend ==
  ASSUME Alone, TypeInv, HonestInv, CalmInv, NEW s \in Scanner, AppendObservations(s)
  PROVE  CalmInv'
<1> DEFINE w == scan[s]
           x == scan'[s]
<1>1. /\ w \in ScanType /\ w.pc = "walk" /\ w.todo = {} /\ UNCHANGED <<disk, life, bygone, rules>>
      /\ DOMAIN calm' = Scanner /\ (calm'[s] => calm[s])
      /\ x = [w EXCEPT !.pc = "cursor"]
  BY DEF AppendObservations, diskVars, TypeInv
<1>2. /\ x.pc = "cursor" /\ x.rules = w.rules /\ x.complete = w.complete
      /\ x.skipped = w.skipped /\ x.cursor = w.cursor
  <2> HIDE DEF w, x
  <2> QED BY <1>1 DEF ScanType
<1>3. LivesOK /\ RowsOK /\ HandOK(s) /\ CalmOK(s)
  BY DEF CalmInv
<1>4. /\ DOMAIN log \subseteq DOMAIN log' /\ \A i \in DOMAIN log : log'[i] = log[i]
      /\ \A i \in NewSeqs :
           /\ i \in Nat /\ i > Len(log)
           /\ \/ \E k \in DOMAIN scan[s].obs : log'[i] = scan[s].obs[k]
              \/ \E f \in Missing(scan[s]) : log'[i] = TombstoneOf(s, f)
  BY AppendGrows
<1>5. Len(log) \in Nat /\ DOMAIN log = 1..Len(log)
  BY DEF TypeInv, StoreOK
<1>6. /\ \A k \in DOMAIN w.obs :
           /\ w.obs[k].kind = "file" /\ w.obs[k].loc \in w.seen /\ w.obs[k].nv \in Had(w.obs[k].loc)
           /\ w.obs[k].prior <= Len(log) /\ w.obs[k].prior \in Nat
      /\ \A f \in Missing(w) :
           /\ f \in missed[s] /\ f \notin w.seen
           /\ w.known[f].seq <= Len(log) /\ w.known[f].seq \in Nat
      /\ \A i \in DOMAIN log :
           log[i].loc \in missed[s] /\ log[i].kind = "file" => log[i].nv \in bygone[log[i].loc]
  <2>1. \A k \in DOMAIN w.obs : w.obs[k].prior \in Nat
    <3>1. \A k \in DOMAIN w.obs : w.obs[k] \in Observation
      BY <1>1 DEF ScanType
    <3> QED BY <3>1 DEF Observation
  <2>2. ASSUME NEW f \in Missing(w)
        PROVE  f \in missed[s] /\ f \notin w.seen /\ w.known[f].seq <= Len(log) /\ w.known[f].seq \in Nat
    <3>1. f \in missed[s]
      BY <1>1, MissingMissed DEF Walked
    <3>2. f \in DOMAIN w.known /\ f \notin w.seen
      BY DEF Missing
    <3>3. w.known \in Known
      BY <1>1 DEF ScanType
    <3> QED BY <1>1, <1>3, <3>1, <3>2, <3>3, KnownFacts DEF HandOK
  <2> QED BY <1>1, <1>3, <2>1, <2>2 DEF HandOK
<1>7. \A f : /\ TombstoneOf(s, f).kind = "absent" /\ TombstoneOf(s, f).loc = f
             /\ TombstoneOf(s, f).nv = Gone /\ TombstoneOf(s, f).prior = w.known[f].seq
  BY DEF TombstoneOf, Tombstone
<1>8. \A i \in DOMAIN log' : i \in DOMAIN log \/ i \in NewSeqs
  BY DEF NewSeqs
<1> HIDE DEF w, x
<1>9. ASSUME NEW i \in NewSeqs
      PROVE  /\ log'[i].prior < i
             /\ IF log'[i].kind = "absent" THEN log'[i].nv = Gone ELSE log'[i].nv \in Had(log'[i].loc)
             /\ \/ log'[i].kind = "file" /\ log'[i].loc \in w.seen
                \/ log'[i].kind = "absent" /\ log'[i].loc \in missed[s] /\ log'[i].loc \notin w.seen
  <2>1. i \in Nat /\ i > Len(log)
    BY <1>4
  <2>2. ASSUME NEW k \in DOMAIN w.obs, log'[i] = w.obs[k]
        PROVE  /\ log'[i].prior < i
               /\ log'[i].kind = "file" /\ log'[i].loc \in w.seen /\ log'[i].nv \in Had(log'[i].loc)
    BY <1>5, <1>6, <2>1, <2>2
  <2>3. ASSUME NEW f \in Missing(w), log'[i] = TombstoneOf(s, f)
        PROVE  /\ log'[i].prior < i
               /\ log'[i].kind = "absent" /\ log'[i].nv = Gone
               /\ log'[i].loc \in missed[s] /\ log'[i].loc \notin w.seen
    BY <1>5, <1>6, <1>7, <2>1, <2>3
  <2> QED BY <1>4, <2>2, <2>3 DEF w
<1>10. RowsOK'
  <2>1. ASSUME NEW i \in DOMAIN log'
        PROVE  /\ log'[i].prior < i
               /\ IF log'[i].kind = "absent" THEN log'[i].nv = Gone
                  ELSE log'[i].nv \in life[log'[i].loc] \cup bygone[log'[i].loc]
    BY <1>3, <1>4, <1>8, <1>9 DEF RowsOK, Had
  <2>2. ASSUME NEW i \in DOMAIN log', NEW j \in DOMAIN log', i < j, log'[i].loc = log'[j].loc,
               log'[i].kind = "file", log'[j].kind = "absent"
        PROVE  log'[i].nv \in bygone[log'[i].loc]
    <3>1. CASE j \in DOMAIN log
      <4>1. i \in DOMAIN log
        BY <1>4, <1>5, <1>8, <2>2, <3>1
      <4> QED BY <1>3, <1>4, <2>2, <3>1, <4>1 DEF RowsOK
    <3>2. CASE j \in NewSeqs
      <4>1. log'[i].loc \in missed[s] /\ log'[i].loc \notin w.seen
        BY <1>9, <2>2, <3>2
      <4>2. i \in DOMAIN log
        BY <1>8, <1>9, <2>2, <4>1
      <4> QED BY <1>4, <1>6, <2>2, <4>1, <4>2
    <3> QED BY <1>8, <3>1, <3>2
  <2> QED BY <1>1, <2>1, <2>2 DEF RowsOK, Had
<1>11. HandOK(s)'
  BY <1>2 DEF HandOK, x
<1>12. CalmOK(s)'
  <2> SUFFICES ASSUME calm[s] PROVE CalmOK(s)'
    BY <1>1 DEF CalmOK
  <2>1. w.rules = rules
    BY <1>1, <1>3 DEF CalmOK, w
  <2>2. w.complete /\ ~ w.skipped /\ w.cursor = NoCursor => Accurate'
    BY <1>1, CalmAccurate DEF Accurate, w
  <2> QED BY <1>1, <1>2, <2>1, <2>2 DEF CalmOK, x
<1>13. LivesOK'
  BY <1>1, <1>3 DEF LivesOK
<1> QED BY <1>1, <1>10, <1>11, <1>12, <1>13 DEF CalmInv, Alone

LEMMA CalmInvStep ==
  ASSUME ~ MayRestore, Alone
  PROVE  TypeInv /\ HonestInv /\ CalmInv /\ [Next]_vars => CalmInv'
<1>1. ASSUME TypeInv, HonestInv, CalmInv, NEW s \in Scanner, Run(s) \/ WriteFails(s) \/ Crash(s)
      PROVE  CalmInv'
  BY <1>1, CalmVisit, CalmHash, CalmBegin, CalmSweep, CalmLoad, CalmOpen, CalmAppend, CalmEnd DEF Run
<1>2. ASSUME CalmInv, UNCHANGED vars PROVE CalmInv'
  <2>1. UNCHANGED <<disk, life, bygone, log, rules, root, unreadable, scan, missed, calm>>
    BY <1>2 DEF vars, diskVars, storeVars, history
  <2>2. LivesOK' /\ RowsOK'
    BY <1>2, <2>1 DEF CalmInv, LivesOK, RowsOK, Had
  <2>3. ASSUME NEW s \in Scanner PROVE HandOK(s)'
    BY <1>2, <2>1 DEF CalmInv, HandOK, Had
  <2>4. ASSUME NEW s \in Scanner PROVE CalmOK(s)'
    <3>1. CalmOK(s)
      BY <1>2 DEF CalmInv
    <3>2. \A l : Current(l, Len(log))' = Current(l, Len(log))
      BY <2>1, SameView
    <3>3. KnownState(Len(log))' = KnownState(Len(log))
      BY <2>1, SameView
    <3>4. Accurate => Accurate'
      BY <2>1, <3>2 DEF Accurate
    <3> QED BY <2>1, <3>1, <3>2, <3>3, <3>4 DEF CalmOK, Accounted, Ahead, Reachable
  <2> QED BY <1>2, <2>1, <2>2, <2>3, <2>4 DEF CalmInv
<1> QED BY <1>1, <1>2, CalmUser DEF Next

\* scan, Append and the projection together: when one process scans, and no file comes
\* back as it was before it was deleted, current_files says after a complete pass that
\* nothing disturbed what the disk says, whatever went before: edits in the middle of a
\* walk, kills, resumed and capped passes.
THEOREM CalmPassIsAccurateAlone ==
  ASSUME ~ MayRestore, Alone
  PROVE  Spec => CalmPassIsAccurate
<1>1. ASSUME CalmInv, NEW s \in Scanner, scan[s].pc = "apply", scan[s].status = "complete", calm[s]
      PROVE  Accurate
  BY <1>1 DEF CalmInv, CalmOK
<1>2. CalmInv /\ [Next]_vars =>
        [\A s \in Scanner :
           scan[s].pc = "apply" /\ scan'[s].pc = "idle" /\ lastSeq' = Len(log)
             /\ scan[s].status = "complete" /\ calm[s] =>
             \A l \in Locator : IsHidden(l, rules) \/ Current(l, Len(log)) = disk[l]]_vars
  BY <1>1 DEF Accurate
<1>3. TypeInv /\ HonestInv /\ CalmInv /\ [Next]_vars => CalmInv'
  BY CalmInvStep
<1> QED BY <1>2, <1>3, CalmInvInit, TypeInvAlways, HonestInvAlways, PTL DEF Spec, CalmPassIsAccurate
=============================================================================
