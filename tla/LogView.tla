------------------------------ MODULE LogView ------------------------------
(***************************************************************************)
(* What the store promises its readers, whatever runs concurrently: an     *)
(* append-only log in commit order, and a current-state view that is at    *)
(* every moment the fold of some prefix of that log and never goes back to *)
(* an earlier prefix.                                                      *)
(***************************************************************************)
EXTENDS Rows

VARIABLES log, view

logViewVars == <<log, view>>

Prefix(n) == {r \in log : r.seq <= n}

Init ==
  /\ log = {}
  /\ view = EmptyView

\* One batch becomes visible at once, above everything already visible, and
\* records no observation a second time.
Commit(rows) ==
  /\ \A r \in rows, s \in log : s.seq < r.seq /\ s.obs # r.obs
  /\ \A r, s \in rows : (r.seq = s.seq) <=> (r.obs = s.obs)
  /\ log' = log \cup rows
  /\ UNCHANGED view

\* The view moves forward to the fold of a longer prefix.
Publish(n) ==
  /\ view' = Fold(EmptyView, Prefix(n))
  /\ \A l \in Locator : view[l].seq <= view'[l].seq
  /\ UNCHANGED log

Next ==
  \/ Commit(log' \ log)
  \/ \E r \in log : Publish(r.seq)

Spec == Init /\ [][Next]_logViewVars
=============================================================================
