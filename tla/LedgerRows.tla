----------------------------- MODULE LedgerRows -----------------------------
(***************************************************************************)
(* The rows of one binding when its history is normalized again: save(),   *)
(* planSupersededPurge() and deleteSupersededRows() of                     *)
(* transaction.repository.adapters.ts, with the user's edits of            *)
(* event-reclassification.service.ts in between.                           *)
(*                                                                         *)
(* A row is keyed by leg (storage id) and event type.  A pass of the sync  *)
(* emits a leg under one type, folds it into another leg's row, or does    *)
(* not see it.  The same leg may come out differently in a later pass: new *)
(* rules, or a neighbouring leg that was not there before.                 *)
(***************************************************************************)
EXTENDS Integers, FiniteSets

CONSTANTS
  Legs,      \* storage ids
  Types,     \* event types
  Edits,     \* the edits the user makes: a bound
  Unset      \* no edit in force, or no row to take one from

ASSUME RowsAssumption ==
  /\ Unset \notin (Types \cup Edits)
  /\ {"netted", "unseen"} \cap Types = {}

VARIABLES
  rows,      \* TransactionNormalized of the binding
  pass,      \* the pass in progress: what it makes of every leg
  stored,    \* the pass has stored its rows
  made,      \* the edits made so far
  smooth,    \* history: every pass so far ended with its purge, and no edit came between
             \* its save and its purge
  last,      \* history: the last edit the user made of each leg
  forked     \* history: the legs the user edited in one row while another row of the leg
             \* carried an edit

users == <<last, forked>>
rowsVars == <<rows, pass, stored, made, smooth, last, forked>>

Row == [live: BOOLEAN, override: Edits \cup {Unset}, version: Nat, history: SUBSET Edits]

NoRow == [live |-> FALSE, override |-> Unset, version |-> 0, history |-> {}]

\* A row as the provider's data gives it.
NewRow == [live |-> TRUE, override |-> Unset, version |-> 1, history |-> {}]

\* What a pass makes of the legs: a leg is folded into one that is emitted.
Passes ==
  {f \in [Legs -> Types \cup {"netted", "unseen"}] :
     /\ \E l \in Legs : f[l] # "unseen"
     /\ (\E l \in Legs : f[l] = "netted") => \E l \in Legs : f[l] \in Types}

NoPass == [l \in Legs |-> "unseen"]

RowsInit ==
  /\ rows = [l \in Legs |-> [t \in Types |-> NoRow]]
  /\ pass = NoPass
  /\ stored = FALSE
  /\ made = {}
  /\ smooth = TRUE
  /\ last = [l \in Legs |-> Unset]
  /\ forked = {}

\* Fault: the provider's classification wins over the stored edit.
MergeClears(existing, incoming) ==
  [incoming EXCEPT !.version = existing.version, !.history = existing.history]

\* mergeSavedPayload(): the edit, its version and its history are the existing ones.
Merge(existing, incoming) ==
  [incoming EXCEPT !.override = existing.override, !.version = existing.version,
                   !.history = existing.history]

-----------------------------------------------------------------------------
(* A pass of persistChain().                                                *)

StartPass(f) ==
  /\ pass = NoPass
  /\ pass' = f
  /\ UNCHANGED <<rows, stored, made, smooth, users>>

\* The rows after the legs of S have been written under their types.
Written(S) ==
  [l \in Legs |-> [t \in Types |->
     IF l \notin S \/ pass[l] # t THEN rows[l][t]
     ELSE IF rows[l][t].live THEN Merge(rows[l][t], NewRow) ELSE NewRow]]

Save ==
  /\ pass # NoPass /\ ~stored
  /\ rows' = Written(Legs)
  /\ stored' = TRUE
  /\ UNCHANGED <<pass, made, smooth, users>>

\* save() fails at some row: the ones before it stay, and the chain is seen again.
SaveFails ==
  /\ pass # NoPass /\ ~stored
  /\ \E S \in SUBSET Legs :
       /\ rows' = Written(S)
       /\ smooth' = (smooth /\ S = {})
  /\ pass' = NoPass
  /\ UNCHANGED <<stored, made, users>>

\* The rows of a leg that the pass superseded: moved (rule A) or folded (rule B).
Stale(l) == {t \in Types : rows[l][t].live /\ pass[l] # "unseen" /\ pass[l] # t}

Overridden(l) == {t \in Stale(l) : rows[l][t].override # Unset}

\* The overridden rows of the highest version; the row ids decide between them.
Carriers(l) ==
  {t \in Overridden(l) : \A u \in Overridden(l) : rows[l][u].version <= rows[l][t].version}

Moved(l) == pass[l] \in Types

\* Fault: a folded leg takes its edited row along.
KeptOnlyOthers(l, carrier) == Overridden(l) \ {carrier}

\* Fault: a row whose edit has moved on is kept as well.
KeptAll(l, carrier) == Overridden(l)

\* The stale rows that stay: every overridden one but the carrier, and the carrier
\* too when its leg has no row to move to.
Kept(l, carrier) ==
  IF Moved(l) THEN Overridden(l) \ {carrier} ELSE Overridden(l)

\* The rows of a leg after the purge: the carrier's edit moves to the survivor.
Purged(l, carrier) ==
  [t \in Types |->
     IF t \in Stale(l) \ Kept(l, carrier) THEN NoRow
     ELSE IF t = pass[l] /\ carrier # Unset THEN Merge(rows[l][carrier], rows[l][t])
     ELSE rows[l][t]]

\* deleteSupersededRows(): one transaction.
Purge ==
  /\ stored
  /\ \E carrier \in [Legs -> Types \cup {Unset}] :
       /\ \A l \in Legs : IF Carriers(l) = {} THEN carrier[l] = Unset ELSE carrier[l] \in Carriers(l)
       /\ rows' = [l \in Legs |-> Purged(l, carrier[l])]
  /\ pass' = NoPass
  /\ stored' = FALSE
  /\ UNCHANGED <<made, smooth, users>>

\* The purge fails: the pass goes on without it.
PurgeFails ==
  /\ stored
  /\ pass' = NoPass
  /\ stored' = FALSE
  /\ smooth' = FALSE
  /\ UNCHANGED <<rows, made, users>>

-----------------------------------------------------------------------------
(* The user.                                                                *)

\* The row with edit e in force.
Edited(row, e) ==
  [row EXCEPT !.override = e, !.version = row.version + 1, !.history = row.history \cup {e}]

\* The rows of a leg that carry an edit.
EditedTypes(l) == {t \in Types : rows[l][t].live /\ rows[l][t].override # Unset}

\* reclassify(): of a row the user sees.
Reclassify(l, t, e) ==
  /\ rows[l][t].live
  /\ e \notin made
  /\ rows' = [rows EXCEPT ![l][t] = Edited(@, e)]
  /\ made' = made \cup {e}
  /\ smooth' = (smooth /\ ~stored)
  /\ last' = [last EXCEPT ![l] = e]
  /\ forked' = IF EditedTypes(l) \subseteq {t} THEN forked ELSE forked \cup {l}
  /\ UNCHANGED <<pass, stored>>

RowsNext ==
  \/ \E f \in Passes : StartPass(f)
  \/ Save \/ SaveFails \/ Purge \/ PurgeFails
  \/ \E l \in Legs, t \in Types, e \in Edits : Reclassify(l, t, e)

RowsSpec == RowsInit /\ [][RowsNext]_rowsVars

-----------------------------------------------------------------------------
(* Properties.                                                              *)

\* "User edits are never silently dropped" (transaction.repository.adapters.ts:51), as
\* long as every pass reaches its purge undisturbed: a leg that is moved between types,
\* folded, unfolded and edited on the way has each edit on record in some row.
EditsKept ==
  smooth => \A e \in made : \E l \in Legs, t \in Types : rows[l][t].live /\ e \in rows[l][t].history

\* A leg the user has edited has an edit in force for good, whatever passes fail half-way and
\* whenever the edits come: no pass brings the provider's classification back.  And the edit in
\* force is the user's last one of that leg.  One case is left out: a leg the user edited in
\* one row while another row of it carried an edit (after a purge that failed, or before it
\* ran).  There the next purge may carry the older edit over the newer one
\* (transaction.repository.adapters.ts:94-104), and all that is sure is that an edit is in force.
EditsInForce ==
  \A l \in Legs : last[l] # Unset =>
    /\ EditedTypes(l) # {}
    /\ l \notin forked => \A t \in EditedTypes(l) : rows[l][t].override = last[l]

\* After undisturbed passes the user sees a leg once: no ghost of what it was called before
\* stands next to its row (indexer.service.ts:299-304).
NoGhosts ==
  smooth /\ ~stored => \A l \in Legs : \A t, u \in Types : rows[l][t].live /\ rows[l][u].live => t = u
=============================================================================
