-------------------------- MODULE AttemptLifecycle --------------------------
(***************************************************************************)
(* What an attempt table promises, whatever leases, polls, retries, late   *)
(* answers, cleanups and crashes happen underneath: an attempt is opened    *)
(* once, is won at most once and only while it is open, and once it is over *)
(* it stays over.  An owner has at most one open attempt; attempts without  *)
(* an owner are not limited.  ReportVc and OpenDidLogin implement it.       *)
(***************************************************************************)
CONSTANTS Ids, Owners, None

VARIABLES
  state,   \* fresh, open, won or lost
  owner    \* who an attempt was opened for

vars == <<state, owner>>

OpenIds == {i \in Ids : state[i] = "open"}

Init ==
  /\ state = [i \in Ids |-> "fresh"]
  /\ owner = [i \in Ids |-> None]

\* A fresh attempt opens (or is over at once); others may be superseded by it.
Open(i, u) ==
  /\ state[i] = "fresh"
  /\ u # None => \A j \in OpenIds : owner[j] # u
  /\ \E S \in SUBSET OpenIds, st \in {"open", "lost"} :
       state' = [j \in Ids |-> IF j = i THEN st ELSE IF j \in S THEN "lost" ELSE state[j]]
  /\ owner' = [owner EXCEPT ![i] = u]

Win(i) ==
  /\ state[i] = "open"
  /\ state' = [state EXCEPT ![i] = "won"]
  /\ UNCHANGED owner

\* Any number of open attempts end at once: a failure, a cancellation, time.
Close(S) ==
  /\ S # {}
  /\ state' = [j \in Ids |-> IF j \in S THEN "lost" ELSE state[j]]
  /\ UNCHANGED owner

Next ==
  \/ \E i \in Ids, u \in Owners \cup {None} : Open(i, u)
  \/ \E i \in Ids : Win(i)
  \/ \E S \in SUBSET OpenIds : Close(S)

Spec == Init /\ [][Next]_vars
=============================================================================
