-------------------------------- MODULE Rows --------------------------------
(***************************************************************************)
(* Rows of the observation log and the current_files fold over them:       *)
(* observations(seq, observation_id, ...) and current_files(source_id,     *)
(* locator, latest_seq, ...) of internal/store.                            *)
(*                                                                         *)
(* An observation stands for its observation_id together with everything   *)
(* the id determines.  A Locator stands for a (source_id, locator) pair,   *)
(* the primary key of current_files.                                       *)
(***************************************************************************)
EXTENDS Naturals, FiniteSets

CONSTANTS
  Obs,        \* observations, by id
  NoObs,      \* "this locator has never been observed"
  Locator,    \* keys of current_files
  LocatorOf,  \* the locator an observation is about
  FileStates, \* the observations that state a file's condition on disk
  State,      \* values of digest, size and presence
  StateOf     \* an observation's state: all that a fingerprint covers

\* An entry is a line of the fingerprint, one that does not exist is none.
ASSUME ObsAssumption ==
  /\ IsFiniteSet(Obs)
  /\ NoObs \notin Obs
  /\ LocatorOf \in [Obs -> Locator]
  /\ FileStates \subseteq Obs
  /\ StateOf \in [Obs \cup {NoObs} -> State]
  /\ \A o \in FileStates : StateOf[o] # StateOf[NoObs]

\* A committed or inserted row of the log.
Row == [seq : Nat \ {0}, obs : Obs]

\* A current_files entry that does not exist.
NoRow == [seq |-> 0, obs |-> NoObs]

View == [Locator -> Row \cup {NoRow}]

EmptyView == [l \in Locator |-> NoRow]

\* The file-state rows of a batch about one locator: fileState drops the
\* manifest and commit claims, which carry no fingerprint.
About(l, batch) == {r \in batch : r.obs \in FileStates /\ LocatorOf[r.obs] = l}

Newest(rows) == CHOOSE r \in rows : \A s \in rows : s.seq <= r.seq

\* The upsert of one batch: per locator only its newest row is written, and
\* only over an entry with a smaller latest_seq.
Fold(view, batch) ==
  [l \in Locator |-> Newest(About(l, batch) \cup {view[l]})]

\* What the view has to say about every row of a log up to seq n.
ReflectedUpTo(view, log, n) ==
  \A r \in log : r.obs \in FileStates /\ r.seq <= n
                   => r.seq <= view[LocatorOf[r.obs]].seq

\* The replay of the log from seq 0, to the last row.
Replayed(log) == Fold(EmptyView, log)

\* ProjectionFingerprint: the state of every entry, without latest_seq.
Fingerprint(view) == [l \in Locator |-> StateOf[view[l].obs]]
=============================================================================
