---------------------------- MODULE LedgerProofs ----------------------------
(***************************************************************************)
(* How rows come into the ledger: what a scan of a chain hands over        *)
(* (ChainScan), and what becomes of the rows and of the user's edits when  *)
(* a later pass reads the same legs again (LedgerRows).                    *)
(***************************************************************************)
EXTENDS LedgerRows, ChainScan, WellFoundedInduction, TLAPS

(***************************************************************************)
(* The user's edits survive every re-normalization of a binding, for any   *)
(* legs, event types and edits and any sequence of passes.                 *)
(*                                                                         *)
(* The argument.  A row's edit and its history go together (EditsPaired).  *)
(* A pass that reaches its purge finds at most one row of a leg that it    *)
(* has to give up, and if it finds one, the row it moves the edit to is as *)
(* the provider gave it (BeforePurge): so the merge overwrites nothing,    *)
(* and one row is left (NoGhosts).  When passes fail, a leg may have many  *)
(* rows; but unless the user edits two of them, one at most carries an     *)
(* edit (ForceInv), and a purge gives it up only for a survivor that takes *)
(* the edit over: so the edit in force is the user's last (EditsInForce).  *)
(***************************************************************************)

Outcomes == Types \cup {"netted", "unseen"}

RowTypesOK ==
  /\ rows \in [Legs -> [Types -> Row]]
  /\ pass \in [Legs -> Outcomes]
  /\ stored \in BOOLEAN
  /\ made \subseteq Edits
  /\ smooth \in BOOLEAN

\* A row was edited exactly when it has an edit in force.
EditsPaired == \A l \in Legs, t \in Types : rows[l][t].history # {} => rows[l][t].override # Unset

\* Between save() and the purge of an undisturbed pass a leg has its new row, at most one
\* other row, and if it has that one, a new row nobody has edited.
BeforePurge ==
  stored =>
    /\ pass # NoPass
    /\ \A l \in Legs : pass[l] \in Types => rows[l][pass[l]].live
    /\ smooth => \A l \in Legs :
         /\ \A t, u \in Types \ {pass[l]} : rows[l][t].live /\ rows[l][u].live => t = u
         /\ pass[l] \in Types /\ Stale(l) # {} => rows[l][pass[l]].history = {}

RowsInv == RowTypesOK /\ EditsPaired /\ BeforePurge /\ EditsKept /\ NoGhosts

LEMMA RowsInitially == RowsInit => RowsInv
<1> SUFFICES ASSUME RowsInit PROVE RowsInv
  OBVIOUS
<1>1. RowTypesOK
  BY DEF RowsInit, RowTypesOK, NoRow, Row, NoPass, Outcomes
<1>2. EditsPaired /\ BeforePurge /\ EditsKept /\ NoGhosts
  BY DEF RowsInit, EditsPaired, BeforePurge, EditsKept, NoGhosts, NoRow
<1> QED
  BY <1>1, <1>2 DEF RowsInv

\* What mergeSavedPayload() keeps of the stored row.
LEMMA MergeKeeps ==
  ASSUME NEW a \in Row, NEW b \in Row
  PROVE  /\ Merge(a, b) \in Row
         /\ Merge(a, b).override = a.override /\ Merge(a, b).history = a.history
         /\ Merge(a, b).live = b.live
BY DEF Merge, Row

LEMMA RowTypes == NewRow \in Row /\ NoRow \in Row /\ NewRow.live /\ ~NoRow.live
                  /\ NewRow.history = {} /\ NoRow.history = {} /\ NewRow.override = Unset
BY DEF NewRow, NoRow, Row

\* What save() makes of one row.
LEMMA WrittenRow ==
  ASSUME RowTypesOK, NEW S, NEW l \in Legs, NEW t \in Types
  PROVE  LET a == rows[l][t]  b == Written(S)[l][t] IN
         /\ a \in Row /\ b \in Row
         /\ l \notin S \/ pass[l] # t => b = a
         /\ a.live => b.live /\ b.history = a.history /\ b.override = a.override
         /\ l \in S /\ pass[l] = t => b.live /\ (~a.live => b.history = {} /\ b.override = Unset)
<1> DEFINE a == rows[l][t]
           b == Written(S)[l][t]
<1>1. a \in Row
  BY DEF RowTypesOK
<1>2. CASE l \notin S \/ pass[l] # t
  <2>1. b = a
    BY <1>2 DEF Written
  <2> QED
    BY <1>1, <1>2, <2>1
<1>3. CASE l \in S /\ pass[l] = t /\ a.live
  <2>1. b = Merge(a, NewRow)
    BY <1>3 DEF Written
  <2> QED
    BY <1>1, <1>3, <2>1, MergeKeeps, RowTypes
<1>4. CASE l \in S /\ pass[l] = t /\ ~a.live
  <2>1. b = NewRow
    BY <1>4 DEF Written
  <2> QED
    BY <1>1, <1>4, <2>1, RowTypes
<1> QED
  BY <1>2, <1>3, <1>4

\* Writing rows keeps them well formed and their edits on record.
LEMMA WrittenKeeps ==
  ASSUME RowsInv, NEW S, rows' = Written(S), UNCHANGED made
  PROVE  /\ rows' \in [Legs -> [Types -> Row]]
         /\ EditsPaired'
         /\ smooth => \A e \in made' : \E l \in Legs, t \in Types :
                        rows'[l][t].live /\ e \in rows'[l][t].history
<1>1. \A l \in Legs, t \in Types :
        LET a == rows[l][t]  b == rows'[l][t] IN
        /\ a \in Row /\ b \in Row
        /\ l \notin S \/ pass[l] # t => b = a
        /\ a.live => b.live /\ b.history = a.history /\ b.override = a.override
        /\ l \in S /\ pass[l] = t => b.live /\ (~a.live => b.history = {})
  BY WrittenRow DEF RowsInv
<1>2. rows' \in [Legs -> [Types -> Row]]
  <2>1. rows' = [l \in Legs |-> [t \in Types |-> rows'[l][t]]]
    BY DEF Written
  <2> QED
    BY <1>1, <2>1
<1>3. EditsPaired'
  BY <1>1 DEF RowsInv, EditsPaired
<1>4. smooth => \A e \in made' : \E l \in Legs, t \in Types :
                  rows'[l][t].live /\ e \in rows'[l][t].history
  BY <1>1 DEF RowsInv, EditsKept
<1> QED
  BY <1>2, <1>3, <1>4

LEMMA StartKeeps == ASSUME RowsInv, NEW f \in Passes, StartPass(f) PROVE RowsInv'
<1>1. RowTypesOK'
  BY DEF StartPass, RowsInv, RowTypesOK, Passes, Outcomes
<1>2. ~stored
  BY DEF StartPass, RowsInv, BeforePurge
<1> QED
  BY <1>1, <1>2 DEF StartPass, RowsInv, EditsPaired, BeforePurge, EditsKept, NoGhosts

\* save() of a whole pass: a leg had one row at most, so it has its new row and the one
\* it had, and if these differ the new row is the provider's.
LEMMA SaveKeeps == ASSUME RowsInv, Save PROVE RowsInv'
<1>1. rows' = Written(Legs) /\ stored' = TRUE /\ ~stored /\ pass # NoPass /\ UNCHANGED <<pass, made, smooth>>
  BY DEF Save
<1>2. /\ rows' \in [Legs -> [Types -> Row]]
      /\ EditsPaired'
      /\ smooth => \A e \in made' : \E l \in Legs, t \in Types :
                     rows'[l][t].live /\ e \in rows'[l][t].history
  BY <1>1, WrittenKeeps
<1>3. \A l \in Legs, t \in Types :
        LET a == rows[l][t]  b == rows'[l][t] IN
        /\ pass[l] # t => b = a
        /\ pass[l] = t => b.live /\ (~a.live => b.history = {})
  BY <1>1, WrittenRow DEF RowsInv
<1>4. ASSUME smooth, NEW l \in Legs
      PROVE  /\ \A t, u \in Types \ {pass[l]} : rows'[l][t].live /\ rows'[l][u].live => t = u
             /\ pass[l] \in Types /\ Stale(l)' # {} => rows'[l][pass[l]].history = {}
  <2>1. \A t, u \in Types : rows[l][t].live /\ rows[l][u].live => t = u
    BY <1>1, <1>4 DEF RowsInv, NoGhosts
  <2>2. \A t, u \in Types \ {pass[l]} : rows'[l][t].live /\ rows'[l][u].live => t = u
    BY <1>3, <2>1
  <2>3. ASSUME pass[l] \in Types, Stale(l)' # {} PROVE rows'[l][pass[l]].history = {}
    <3>1. PICK t \in Types : rows'[l][t].live /\ pass[l] # t
      BY <1>1, <2>3 DEF Stale
    <3>2. rows[l][t].live
      BY <1>3, <3>1
    <3>3. ~rows[l][pass[l]].live
      BY <2>1, <2>3, <3>1, <3>2
    <3> QED
      BY <1>3, <2>3, <3>3
  <2> QED
    BY <2>2, <2>3
<1>5. BeforePurge'
  BY <1>1, <1>3, <1>4 DEF BeforePurge
<1>6. EditsKept' /\ NoGhosts'
  BY <1>1, <1>2 DEF EditsKept, NoGhosts
<1>7. RowTypesOK'
  BY <1>1, <1>2 DEF RowsInv, RowTypesOK
<1> QED
  BY <1>2, <1>5, <1>6, <1>7 DEF RowsInv

LEMMA SaveFailsKeeps == ASSUME RowsInv, SaveFails PROVE RowsInv'
<1>1. PICK S \in SUBSET Legs : rows' = Written(S) /\ smooth' = (smooth /\ S = {})
  BY DEF SaveFails
<1>2. ~stored /\ pass' = NoPass /\ UNCHANGED <<stored, made>>
  BY DEF SaveFails
<1>3. /\ rows' \in [Legs -> [Types -> Row]]
      /\ EditsPaired'
      /\ smooth => \A e \in made' : \E l \in Legs, t \in Types :
                     rows'[l][t].live /\ e \in rows'[l][t].history
  BY <1>1, <1>2, WrittenKeeps
<1>4. NoGhosts'
  <2>1. S = {} => \A l \in Legs, t \in Types : rows'[l][t] = rows[l][t]
    BY <1>1, WrittenRow DEF RowsInv
  <2> QED
    BY <1>1, <1>2, <2>1 DEF RowsInv, NoGhosts
<1>5. RowTypesOK'
  BY <1>1, <1>2, <1>3 DEF RowsInv, RowTypesOK, NoPass, Outcomes
<1> QED
  BY <1>1, <1>2, <1>3, <1>4, <1>5 DEF RowsInv, EditsKept, BeforePurge

LEMMA PurgeFailsKeeps == ASSUME RowsInv, PurgeFails PROVE RowsInv'
BY DEF PurgeFails, RowsInv, RowTypesOK, NoPass, Outcomes, EditsPaired, BeforePurge, EditsKept, NoGhosts

LEMMA EditedRow ==
  ASSUME NEW a \in Row, NEW e \in Edits
  PROVE  LET b == Edited(a, e) IN
         b \in Row /\ b.override = e /\ b.history = a.history \cup {e} /\ b.live = a.live
<1>1. a.version + 1 \in Nat /\ a.history \cup {e} \in SUBSET Edits
  BY DEF Row
<1>2. ASSUME NEW v \in Nat, NEW H \in SUBSET Edits
      PROVE  LET c == [a EXCEPT !.override = e, !.version = v, !.history = H] IN
             c \in Row /\ c.override = e /\ c.history = H /\ c.live = a.live
  BY DEF Row
<1> QED
  BY <1>1, <1>2 DEF Edited

LEMMA ReclassifyKeeps ==
  ASSUME RowsInv, NEW l \in Legs, NEW t \in Types, NEW e \in Edits, Reclassify(l, t, e)
  PROVE  RowsInv'
<1>1. /\ rows[l][t].live /\ e # Unset
      /\ made' = made \cup {e} /\ smooth' = (smooth /\ ~stored) /\ UNCHANGED <<pass, stored>>
  BY RowsAssumption DEF Reclassify
<1> DEFINE b == Edited(rows[l][t], e)
<1>2. rows[l][t] \in Row /\ rows' = [rows EXCEPT ![l][t] = b]
  BY DEF Reclassify, RowsInv, RowTypesOK
<1>3. b \in Row /\ b.override = e /\ b.history = rows[l][t].history \cup {e} /\ b.live
  BY <1>1, <1>2, EditedRow
<1> HIDE DEF b
<1>4. /\ rows' \in [Legs -> [Types -> Row]]
      /\ rows'[l][t] = b
      /\ \A m \in Legs, u \in Types : m # l \/ u # t => rows'[m][u] = rows[m][u]
  BY <1>2, <1>3 DEF RowsInv, RowTypesOK
<1>5. RowTypesOK'
  BY <1>1, <1>4 DEF RowsInv, RowTypesOK
<1>6. EditsPaired'
  BY <1>3, <1>4, RowsAssumption DEF RowsInv, EditsPaired
<1>7. \A m \in Legs, u \in Types : rows'[m][u].live <=> rows[m][u].live
  BY <1>1, <1>3, <1>4
<1>8. NoGhosts'
  BY <1>1, <1>7 DEF RowsInv, NoGhosts
<1>9. BeforePurge'
  BY <1>1, <1>7 DEF RowsInv, BeforePurge
<1>10. EditsKept'
  <2> SUFFICES ASSUME smooth, NEW d \in made'
               PROVE  \E m \in Legs, u \in Types : rows'[m][u].live /\ d \in rows'[m][u].history
    BY <1>1 DEF EditsKept
  <2>1. CASE d = e
    BY <1>3, <1>4, <2>1
  <2>2. CASE d # e
    <3>1. PICK m \in Legs, u \in Types : rows[m][u].live /\ d \in rows[m][u].history
      BY <1>1, <2>2 DEF RowsInv, EditsKept
    <3>2. d \in rows'[m][u].history /\ rows'[m][u].live
      BY <1>3, <1>4, <1>7, <3>1
    <3> QED
      BY <3>2
  <2> QED
    BY <2>1, <2>2
<1> QED
  BY <1>5, <1>6, <1>8, <1>9, <1>10 DEF RowsInv

\* What the purge makes of one row, for the carrier it chose.
LEMMA PurgedRow ==
  ASSUME RowTypesOK, EditsPaired, NEW l \in Legs, NEW c \in Types \cup {Unset}, NEW t \in Types
  PROVE  LET b == Purged(l, c)[t] IN
         /\ b \in Row
         /\ b.history # {} => b.override # Unset
         /\ t \in Stale(l) \ Kept(l, c) => ~b.live
         /\ t \notin Stale(l) \ Kept(l, c) => b.live = rows[l][t].live
         /\ t \notin Stale(l) \ Kept(l, c) /\ (t # pass[l] \/ c = Unset) => b = rows[l][t]
         /\ t = pass[l] /\ c # Unset =>
              b.history = rows[l][c].history /\ b.override = rows[l][c].override
<1> DEFINE b == Purged(l, c)[t]
<1>1. rows[l][t] \in Row /\ (c # Unset => rows[l][c] \in Row)
  BY DEF RowTypesOK
<1>2. t = pass[l] => t \notin Stale(l)
  BY DEF Stale
<1>3. CASE t \in Stale(l) \ Kept(l, c)
  <2>1. b = NoRow
    BY <1>3 DEF Purged
  <2> QED
    BY <1>2, <1>3, <2>1, RowTypes
<1>4. CASE t \notin Stale(l) \ Kept(l, c) /\ t = pass[l] /\ c # Unset
  <2>1. b = Merge(rows[l][c], rows[l][t])
    BY <1>4 DEF Purged
  <2>2. rows[l][c].history # {} => rows[l][c].override # Unset
    BY <1>4 DEF EditsPaired
  <2> QED
    BY <1>1, <1>4, <2>1, <2>2, MergeKeeps
<1>5. CASE t \notin Stale(l) \ Kept(l, c) /\ ~(t = pass[l] /\ c # Unset)
  <2>1. b = rows[l][t]
    BY <1>5 DEF Purged
  <2> QED
    BY <1>1, <1>5, <2>1 DEF EditsPaired
<1> QED
  BY <1>3, <1>4, <1>5

\* The purge of an undisturbed pass: the carrier is the only stale row.
LEMMA PurgeKeeps == ASSUME RowsInv, Purge PROVE RowsInv'
<1>1. PICK carrier \in [Legs -> Types \cup {Unset}] :
        /\ \A l \in Legs : IF Carriers(l) = {} THEN carrier[l] = Unset ELSE carrier[l] \in Carriers(l)
        /\ rows' = [l \in Legs |-> Purged(l, carrier[l])]
  BY DEF Purge
<1>2. stored /\ pass' = NoPass /\ stored' = FALSE /\ UNCHANGED <<made, smooth>>
  BY DEF Purge
<1>3. \A l \in Legs, t \in Types :
        LET c == carrier[l]  b == rows'[l][t] IN
        /\ b \in Row
        /\ b.history # {} => b.override # Unset
        /\ t \in Stale(l) \ Kept(l, c) => ~b.live
        /\ t \notin Stale(l) \ Kept(l, c) => b.live = rows[l][t].live
        /\ t \notin Stale(l) \ Kept(l, c) /\ (t # pass[l] \/ c = Unset) => b = rows[l][t]
        /\ t = pass[l] /\ c # Unset => b.history = rows[l][c].history
  BY <1>1, PurgedRow DEF RowsInv
<1>4. rows' \in [Legs -> [Types -> Row]]
  <2>1. rows' = [l \in Legs |-> [t \in Types |-> rows'[l][t]]]
    BY <1>1 DEF Purged
  <2> QED
    BY <1>3, <2>1
<1>5. RowTypesOK' /\ EditsPaired' /\ BeforePurge'
  <2>1. RowTypesOK'
    BY <1>2, <1>4 DEF RowsInv, RowTypesOK, NoPass, Outcomes
  <2>2. EditsPaired'
    BY <1>3 DEF EditsPaired
  <2>3. BeforePurge'
    BY <1>2 DEF BeforePurge
  <2> QED
    BY <2>1, <2>2, <2>3
<1>6. ASSUME smooth, NEW l \in Legs, NEW t \in Types, t \in Overridden(l)
      PROVE  Overridden(l) = {t} /\ carrier[l] = t
  <2>1. \A u \in Overridden(l) : u = t
    BY <1>2, <1>6 DEF RowsInv, BeforePurge, Overridden, Stale
  <2>2. rows[l][t].version \in Nat
    BY DEF RowsInv, RowTypesOK, Row
  <2>3. Carriers(l) = {t}
    BY <1>6, <2>1, <2>2 DEF Carriers
  <2> QED
    BY <1>1, <1>6, <2>1, <2>3
<1>7. NoGhosts'
  <2> SUFFICES ASSUME smooth, NEW l \in Legs, NEW t \in Types, NEW u \in Types,
                      rows'[l][t].live, rows'[l][u].live, t # u
               PROVE  FALSE
    BY <1>2 DEF NoGhosts
  <2>1. /\ t \notin Stale(l) \ Kept(l, carrier[l]) /\ rows[l][t].live
        /\ u \notin Stale(l) \ Kept(l, carrier[l]) /\ rows[l][u].live
    BY <1>3
  <2>2. t = pass[l] \/ u = pass[l]
    BY <1>2, <2>1 DEF RowsInv, BeforePurge
  <2>3. Moved(l) /\ pass[l] # "unseen"
    BY <2>2, RowsAssumption DEF Moved
  <2>4. \A v \in Types : v # pass[l] /\ rows[l][v].live => v \in Stale(l)
    BY <2>3 DEF Stale
  <2>5. \A v \in Stale(l) : v \notin Kept(l, carrier[l])
    BY <1>6, <2>3 DEF Kept, Overridden, Stale
  <2> QED
    BY <2>1, <2>2, <2>4, <2>5
<1>8. EditsKept'
  <2> SUFFICES ASSUME smooth, NEW e \in made
               PROVE  \E l \in Legs, t \in Types : rows'[l][t].live /\ e \in rows'[l][t].history
    BY <1>2 DEF EditsKept
  <2>1. PICK l \in Legs, t \in Types : rows[l][t].live /\ e \in rows[l][t].history
    BY DEF RowsInv, EditsKept
  <2>2. rows[l][t].override # Unset
    BY <2>1 DEF RowsInv, EditsPaired
  <2>3. CASE t = pass[l]
    <3>1. Stale(l) = {}
      BY <1>2, <2>1, <2>3 DEF RowsInv, BeforePurge
    <3>2. carrier[l] = Unset
      BY <1>1, <3>1 DEF Carriers, Overridden
    <3> QED
      BY <1>3, <2>1, <3>1, <3>2
  <2>4. CASE t # pass[l] /\ pass[l] = "unseen"
    BY <1>3, <2>1, <2>4 DEF Stale
  <2>5. CASE t # pass[l] /\ pass[l] # "unseen"
    <3>1. t \in Overridden(l)
      BY <2>1, <2>2, <2>5 DEF Overridden, Stale
    <3>2. carrier[l] = t /\ t # Unset
      BY <1>6, <3>1, RowsAssumption
    <3>3. CASE Moved(l)
      <4>1. pass[l] \in Types /\ rows[l][pass[l]].live /\ pass[l] \notin Stale(l)
        BY <1>2, <3>3 DEF Moved, RowsInv, BeforePurge, Stale
      <4> QED
        BY <1>3, <2>1, <3>2, <4>1
    <3>4. CASE ~Moved(l)
      BY <1>3, <2>1, <2>5, <3>1, <3>4 DEF Kept
    <3> QED
      BY <3>3, <3>4
  <2> QED
    BY <2>3, <2>4, <2>5
<1> QED
  BY <1>5, <1>7, <1>8 DEF RowsInv

LEMMA StepKeeps == ASSUME RowsInv, [RowsNext]_rowsVars PROVE RowsInv'
<1>1. CASE UNCHANGED rowsVars
  BY <1>1 DEF rowsVars, RowsInv, RowTypesOK, EditsPaired, BeforePurge, Stale, EditsKept, NoGhosts
<1> QED
  BY <1>1, StartKeeps, SaveKeeps, SaveFailsKeeps, PurgeKeeps, PurgeFailsKeeps, ReclassifyKeeps
     DEF RowsNext

\* The inductive invariant of the rows, over every sequence of passes, failures and edits.
THEOREM RowsInductive == RowsSpec => []RowsInv
<1>1. RowsInit => RowsInv
  BY RowsInitially
<1>2. RowsInv /\ [RowsNext]_rowsVars => RowsInv'
  BY StepKeeps
<1> QED
  BY <1>1, <1>2, PTL DEF RowsSpec

\* As long as every pass reaches its purge undisturbed, each edit the user ever made is on
\* record in some row, through any sequence of moves, folds and unfolds (planSupersededPurge(),
\* deleteSupersededRows(), mergeSavedPayload()).
THEOREM EditsKeptTheorem == RowsSpec => []EditsKept
<1>1. RowsInv => EditsKept
  BY DEF RowsInv
<1> QED
  BY <1>1, RowsInductive, PTL

\* Legs whose edits never forked have one row at most that carries an edit.
ForceInv ==
  /\ last \in [Legs -> Edits \cup {Unset}]
  /\ \A l \in Legs \ forked : \A t, u \in EditedTypes(l) : t = u
  /\ EditsInForce

\* Writing rows adds no edit and takes none away.
LEMMA WrittenForce ==
  ASSUME RowsInv, ForceInv, NEW S, rows' = Written(S), UNCHANGED users
  PROVE  ForceInv'
<1>1. ASSUME NEW l \in Legs, NEW t \in Types
      PROVE  /\ t \in EditedTypes(l)' <=> t \in EditedTypes(l)
             /\ t \in EditedTypes(l) => rows'[l][t].override = rows[l][t].override
  <2>1. LET a == rows[l][t]  b == rows'[l][t] IN
        /\ l \notin S \/ pass[l] # t => b = a
        /\ a.live => b.live /\ b.override = a.override
        /\ l \in S /\ pass[l] = t /\ ~a.live => b.override = Unset
    BY WrittenRow DEF RowsInv
  <2> QED
    BY <2>1 DEF EditedTypes
<1>2. \A l \in Legs : EditedTypes(l) \subseteq Types /\ EditedTypes(l)' \subseteq Types
  BY DEF EditedTypes
<1> QED
  BY <1>1, <1>2 DEF ForceInv, EditsInForce, users

LEMMA ReclassifyForce ==
  ASSUME RowsInv, ForceInv, NEW l \in Legs, NEW t \in Types, NEW e \in Edits, Reclassify(l, t, e)
  PROVE  ForceInv'
<1> DEFINE b == Edited(rows[l][t], e)
<1>1. /\ rows[l][t].live /\ e # Unset /\ rows[l][t] \in Row /\ rows' = [rows EXCEPT ![l][t] = b]
      /\ last' = [last EXCEPT ![l] = e]
      /\ forked' = IF EditedTypes(l) \subseteq {t} THEN forked ELSE forked \cup {l}
  BY RowsAssumption DEF Reclassify, RowsInv, RowTypesOK
<1>2. b.override = e /\ b.live
  BY <1>1, EditedRow
<1> HIDE DEF b
<1>3. /\ rows'[l][t] = b
      /\ \A m \in Legs, u \in Types : m # l \/ u # t => rows'[m][u] = rows[m][u]
  BY <1>1 DEF RowsInv, RowTypesOK
<1>4. EditedTypes(l)' = EditedTypes(l) \cup {t}
  BY <1>1, <1>2, <1>3 DEF EditedTypes
<1>5. \A m \in Legs : m # l => EditedTypes(m)' = EditedTypes(m)
  BY <1>3 DEF EditedTypes
<1>6. /\ last' \in [Legs -> Edits \cup {Unset}] /\ last'[l] = e
      /\ \A m \in Legs : m # l => last'[m] = last[m]
  BY <1>1 DEF ForceInv
<1>7. l \notin forked' => EditedTypes(l)' = {t}
  BY <1>1, <1>4
<1>8. \A m \in Legs \ forked' : m \in Legs \ forked
  BY <1>1
<1>9. \A m \in Legs \ forked' : \A u, v \in EditedTypes(m)' : u = v
  BY <1>5, <1>7, <1>8 DEF ForceInv
<1>10. ASSUME NEW m \in Legs, last'[m] # Unset
       PROVE  /\ EditedTypes(m)' # {}
              /\ m \notin forked' => \A u \in EditedTypes(m)' : rows'[m][u].override = last'[m]
  <2>1. CASE m = l
    BY <1>2, <1>3, <1>4, <1>6, <1>7, <2>1
  <2>2. CASE m # l
    <3>1. EditedTypes(m)' = EditedTypes(m) /\ last'[m] = last[m] /\ EditedTypes(m) \subseteq Types
      BY <1>5, <1>6, <2>2 DEF EditedTypes
    <3> QED
      BY <1>3, <1>8, <1>10, <2>2, <3>1 DEF ForceInv, EditsInForce
  <2> QED
    BY <2>1, <2>2
<1>11. EditsInForce'
  BY <1>10 DEF EditsInForce
<1> QED
  BY <1>6, <1>9, <1>11 DEF ForceInv

\* The purge: a row that carries an edit goes only if the survivor takes the edit over.
LEMMA PurgeForce == ASSUME RowsInv, ForceInv, Purge PROVE ForceInv'
<1>1. PICK carrier \in [Legs -> Types \cup {Unset}] :
        /\ \A l \in Legs : IF Carriers(l) = {} THEN carrier[l] = Unset ELSE carrier[l] \in Carriers(l)
        /\ rows' = [l \in Legs |-> Purged(l, carrier[l])]
  BY DEF Purge
<1>2. stored /\ UNCHANGED users
  BY DEF Purge
<1>3. \A l \in Legs, t \in Types :
        LET c == carrier[l]  b == rows'[l][t] IN
        /\ t \in Stale(l) \ Kept(l, c) => ~b.live
        /\ t \notin Stale(l) \ Kept(l, c) => b.live = rows[l][t].live
        /\ t \notin Stale(l) \ Kept(l, c) /\ (t # pass[l] \/ c = Unset) => b = rows[l][t]
        /\ t = pass[l] /\ c # Unset => b.override = rows[l][c].override
  BY <1>1, PurgedRow DEF RowsInv
<1>4. \A l \in Legs : carrier[l] # Unset => carrier[l] \in Overridden(l)
  BY <1>1 DEF Carriers
<1>5. \A l \in Legs : /\ EditedTypes(l) \subseteq Types
                      /\ Overridden(l) = Stale(l) \cap EditedTypes(l)
  BY DEF Overridden, Stale, EditedTypes
<1>6. ASSUME NEW l \in Legs, EditedTypes(l) # {} PROVE EditedTypes(l)' # {}
  <2>1. CASE carrier[l] = Unset
    <3>1. Kept(l, carrier[l]) = Overridden(l)
      BY <1>5, <2>1, RowsAssumption DEF Kept, EditedTypes
    <3>2. PICK t \in EditedTypes(l) : t \notin Stale(l) \ Kept(l, carrier[l])
      BY <1>5, <1>6, <3>1
    <3>3. rows'[l][t] = rows[l][t]
      BY <1>3, <1>5, <2>1, <3>2
    <3> QED
      BY <1>5, <3>2, <3>3 DEF EditedTypes
  <2>2. CASE carrier[l] # Unset /\ Moved(l)
    <3>1. pass[l] \in Types /\ rows[l][pass[l]].live /\ pass[l] \notin Stale(l)
      BY <1>2, <2>2 DEF Moved, RowsInv, BeforePurge, Stale
    <3>2. rows[l][carrier[l]].override # Unset
      BY <1>4, <2>2 DEF Overridden
    <3> QED
      BY <1>3, <2>2, <3>1, <3>2 DEF EditedTypes
  <2>3. CASE carrier[l] # Unset /\ ~Moved(l)
    <3>1. carrier[l] \in Kept(l, carrier[l]) /\ carrier[l] \in EditedTypes(l) /\ carrier[l] \in Types
      BY <1>4, <1>5, <2>3 DEF Kept
    <3>2. carrier[l] # pass[l]
      BY <2>3, <3>1 DEF Moved
    <3>3. rows'[l][carrier[l]] = rows[l][carrier[l]]
      BY <1>3, <3>1, <3>2
    <3> QED
      BY <3>1, <3>3 DEF EditedTypes
  <2> QED
    BY <2>1, <2>2, <2>3
<1>7. ASSUME NEW l \in Legs, NEW t \in EditedTypes(l)'
      PROVE  /\ t \in Types /\ t \notin Stale(l) \ Kept(l, carrier[l])
             /\ \/ t \in EditedTypes(l) /\ rows'[l][t].override = rows[l][t].override
                \/ /\ t = pass[l] /\ carrier[l] \in EditedTypes(l) /\ carrier[l] \in Stale(l)
                   /\ rows'[l][t].override = rows[l][carrier[l]].override
  <2>1. t \in Types /\ rows'[l][t].live /\ rows'[l][t].override # Unset
    BY DEF EditedTypes
  <2>2. t \notin Stale(l) \ Kept(l, carrier[l])
    BY <1>3, <2>1
  <2>3. CASE t = pass[l] /\ carrier[l] # Unset
    BY <1>3, <1>4, <1>5, <2>1, <2>2, <2>3
  <2>4. CASE t # pass[l] \/ carrier[l] = Unset
    <3>1. rows'[l][t] = rows[l][t]
      BY <1>3, <2>1, <2>2, <2>4
    <3> QED
      BY <2>1, <2>2, <3>1 DEF EditedTypes
  <2> QED
    BY <2>3, <2>4
<1>8. ASSUME NEW l \in Legs \ forked, NEW t \in EditedTypes(l)', NEW u \in EditedTypes(l)', t # u
      PROVE  FALSE
  <2>1. \A v, w \in EditedTypes(l) : v = w
    BY DEF ForceInv
  <2>2. PICK v \in EditedTypes(l)' : v \in EditedTypes(l) /\ v # pass[l] /\ carrier[l] \in EditedTypes(l) /\ carrier[l] \in Stale(l)
    BY <1>7, <1>8, <2>1
  <2>3. v = carrier[l] /\ pass[l] \in Types
    BY <1>7, <1>8, <2>1, <2>2
  <2>4. v \in Stale(l) \ Kept(l, carrier[l])
    BY <2>2, <2>3 DEF Kept, Moved
  <2> QED
    BY <1>7, <2>2, <2>4
<1>9. ASSUME NEW l \in Legs, last[l] # Unset, l \notin forked, NEW t \in EditedTypes(l)'
      PROVE  rows'[l][t].override = last[l]
  BY <1>7, <1>9 DEF ForceInv, EditsInForce
<1>10. EditsInForce'
  BY <1>2, <1>6, <1>9 DEF ForceInv, EditsInForce, users
<1> QED
  BY <1>2, <1>8, <1>10 DEF ForceInv, users

LEMMA ForceStep == ASSUME RowsInv, ForceInv, [RowsNext]_rowsVars PROVE ForceInv'
<1>1. ASSUME UNCHANGED <<rows, users>> PROVE ForceInv'
  BY <1>1 DEF ForceInv, EditsInForce, EditedTypes, users
<1>2. CASE UNCHANGED rowsVars
  BY <1>1, <1>2 DEF rowsVars, users
<1>3. ASSUME NEW f \in Passes, StartPass(f) PROVE ForceInv'
  BY <1>1, <1>3 DEF StartPass
<1>4. CASE Save
  BY <1>4, WrittenForce DEF Save
<1>5. CASE SaveFails
  BY <1>5, WrittenForce DEF SaveFails
<1>6. CASE PurgeFails
  BY <1>1, <1>6 DEF PurgeFails
<1> QED
  BY <1>2, <1>3, <1>4, <1>5, <1>6, PurgeForce, ReclassifyForce DEF RowsNext

\* planSupersededPurge(), mergeSavedPayload(): a leg the user has edited has an edit in force for good, also after
\* passes that failed half-way and edits that came between a save and its purge; and it is the last edit the user
\* made of the leg, unless the user edited one row of it while another carried an edit.
THEOREM EditsInForceTheorem == RowsSpec => []EditsInForce
<1>1. RowsInit => ForceInv
  BY DEF RowsInit, ForceInv, EditsInForce, EditedTypes, NoRow
<1>2. RowsInv /\ ForceInv /\ [RowsNext]_rowsVars => ForceInv'
  BY ForceStep
<1>3. ForceInv => EditsInForce
  BY DEF ForceInv
<1> QED
  BY <1>1, <1>2, <1>3, RowsInductive, PTL DEF RowsSpec

\* After undisturbed passes a leg has one row at most: the purge leaves no ghost of what
\* the leg was called before (deleteSupersededRows()).
THEOREM NoGhostsTheorem == RowsSpec => []NoGhosts
<1>1. RowsInv => NoGhosts
  BY DEF RowsInv
<1> QED
  BY <1>1, RowsInductive, PTL

-----------------------------------------------------------------------------
(***************************************************************************)
(* An outage never degrades the ledger, for any chain, any number of scans *)
(* and candidates, any clock and any order of answers.                     *)
(*                                                                         *)
(* The argument.  A scan only goes past a source because that one refused  *)
(* it, or because it is blocked; and a block in force stands on a refusal  *)
(* one re-probe window before its end (BlocksOk), by whichever scan.  So   *)
(* what a scan has gone past is refused (Passed), measured from when it    *)
(* first looked for a source, and stays so while other scans and the clock *)
(* go on (ScanStays).                                                      *)
(***************************************************************************)

\* A scan is a record; what its fields hold does not matter here.
Shape(r) ==
  r \in [pc: {r.pc}, since: {r.since}, head: {r.head}, pages: {r.pages}, tries: {r.tries}, inbound: {r.inbound},
         outbound: {r.outbound}, next: {r.next}, source: {r.source}, asked: {r.asked}, todo: {r.todo},
         flight: {r.flight}, done: {r.done}, lost: {r.lost}, halt: {r.halt}]

LEMMA IdleShape == Shape(Idle) /\ Idle.pc = "idle" /\ Idle.next = 1 /\ Idle.source = None /\ Idle.halt = FALSE
  BY DEF Shape, Idle

\* What a step of a scan leaves alone.
Same(q, r) == q.next = r.next /\ q.source = r.source /\ q.asked = r.asked /\ q.inbound = r.inbound /\ q.outbound = r.outbound

LEMMA RefillKeeps ==
  ASSUME NEW r, Shape(r), NEW hash
  PROVE  /\ Shape(Refill(r, hash)) /\ Same(Refill(r, hash), r)
         /\ Refill(r, hash).pc = r.pc /\ Refill(r, hash).halt = r.halt
  BY DEF Shape, Same, Refill

LEMMA BatchKeeps ==
  ASSUME NEW r, Shape(r), NEW pc, NEW hashes
  PROVE  /\ Shape(Batch(r, pc, hashes)) /\ Same(Batch(r, pc, hashes), r)
         /\ Batch(r, pc, hashes).pc = pc /\ Batch(r, pc, hashes).halt = FALSE
  BY DEF Shape, Same, Batch

LEMMA MinIs ==
  ASSUME NEW S \in SUBSET Nat, S # {}
  PROVE  Min(S) \in S /\ \A y \in S : Min(S) <= y
<1>1. \E x \in S : \A y \in S : ~(<<y, x>> \in OpToRel(<,Nat))
  BY WFMin, NatLessThanWellFounded
<1>2. PICK x \in S : \A y \in S : ~(<<y, x>> \in OpToRel(<,Nat))
  BY <1>1
<1>3. ASSUME NEW y \in S PROVE x <= y
  <2>1. x \in Nat /\ y \in Nat
    OBVIOUS
  <2>2. <<y, x>> \in Nat \X Nat /\ <<y, x>>[1] = y /\ <<y, x>>[2] = x
    BY <2>1
  <2>3. y < x => <<y, x>> \in OpToRel(<,Nat)
    BY <2>2, Zenon DEF OpToRel
  <2>4. ~(y < x)
    BY <1>2, <2>3, Zenon
  <2> QED
    BY <2>1, <2>4
<1> QED
  BY <1>3 DEF Min

-----------------------------------------------------------------------------
(* The invariant.                                                           *)

Refused(ref, n, source, asked) == \E t \in 0..n : <<source, t>> \in ref /\ asked < t + Reprobe

\* The sources before the scan's own were refused, less than a re-probe window before it
\* began to ask.
Passed(r, sources, n, ref) ==
  \A k \in DOMAIN sources : k < r.next => Refused(ref, n, sources[k], r.asked)

\* The scan has the source it is at.
AtSource(r, sources) == r.next \in DOMAIN sources /\ r.source = sources[r.next]

Early == {"idle", "head", "in", "out"}

ScanOk(r, sources, n, ref) ==
  /\ Shape(r) /\ r.next \in Nat \ {0} /\ r.asked \in Nat /\ r.asked <= n /\ r.halt \in BOOLEAN
  /\ r.pc \in Early => r.source = None /\ r.next = 1
  /\ r.pc = "recover" => (r.source = None => r.next = 1) /\ Passed(r, sources, n, ref)
  /\ r.pc \in {"trace", "receipts", "diff"} => AtSource(r, sources) /\ Passed(r, sources, n, ref)
  /\ r.pc = "trace" => r.source = "alchemy-debug"
  /\ r.halt = TRUE => r.pc = "trace" /\ <<r.source, n>> \in ref
  /\ r.pc \in {"hand", "done"} /\ CandidatesIn(r.inbound \o r.outbound) # <<>> =>
       IF r.source = None THEN \A k \in DOMAIN sources : Refused(ref, n, sources[k], r.asked)
       ELSE AtSource(r, sources) /\ Passed(r, sources, n, ref)

\* A source is blocked because it was refused one re-probe window before the end of that.
BlocksOk(b, n, ref) ==
  /\ b \in [Sources -> Nat]
  /\ \A source \in Sources : n < b[source] => \E t \in 0..n : <<source, t>> \in ref /\ b[source] = t + Reprobe

ChainInv ==
  /\ world \in Worlds /\ now \in Nat
  /\ BlocksOk(blocked, now, refusals)
  /\ DOMAIN scans = Scans /\ \A s \in Scans : ScanOk(scans[s], world.sources, now, refusals)

LEMMA RefusedStays ==
  ASSUME NEW ref, NEW more, ref \subseteq more, NEW n \in Nat, NEW m \in Nat, n <= m, NEW source, NEW asked,
         Refused(ref, n, source, asked)
  PROVE  Refused(more, m, source, asked)
  BY DEF Refused

\* More refusals and more time change nothing of what a scan has found out.
LEMMA ScanStays ==
  ASSUME NEW ref, NEW more, ref \subseteq more, NEW n \in Nat, NEW m \in Nat, n <= m, NEW r, NEW sources,
         ScanOk(r, sources, n, ref), r.halt = TRUE => m = n
  PROVE  ScanOk(r, sources, m, more)
<1>1. Passed(r, sources, n, ref) => Passed(r, sources, m, more)
  BY RefusedStays DEF Passed
<1>2. (\A k \in DOMAIN sources : Refused(ref, n, sources[k], r.asked)) =>
        \A k \in DOMAIN sources : Refused(more, m, sources[k], r.asked)
  BY RefusedStays
<1>3. r.asked \in Nat /\ r.asked <= m
  BY DEF ScanOk
<1>4. r.halt = TRUE => r.pc = "trace" /\ <<r.source, m>> \in more
  BY DEF ScanOk
<1> QED
  BY <1>1, <1>2, <1>3, <1>4 DEF ScanOk

\* One scan moves.
LEMMA ScanMoves ==
  ASSUME ChainInv, NEW s \in Scans, NEW q, Become(s, q), world' = world, now' = now, refusals \subseteq refusals',
         BlocksOk(blocked', now, refusals'), ScanOk(q, world.sources, now, refusals')
  PROVE  ChainInv'
<1>1. DOMAIN scans' = Scans /\ scans'[s] = q /\ \A t \in Scans \ {s} : scans'[t] = scans[t]
  BY DEF Become, ChainInv
<1>2. ASSUME NEW t \in Scans PROVE ScanOk(scans[t], world.sources, now, refusals')
  <2>1. PICK n \in Nat : n = now /\ n <= n
    BY DEF ChainInv
  <2>2. ScanOk(scans[t], world.sources, n, refusals)
    BY <2>1 DEF ChainInv
  <2>3. ScanOk(scans[t], world.sources, n, refusals')
    BY <2>1, <2>2, ScanStays
  <2> QED
    BY <2>1, <2>3
<1>3. \A t \in Scans : ScanOk(scans'[t], world.sources, now, refusals')
  BY <1>1, <1>2
<1> QED
  BY <1>1, <1>3 DEF ChainInv

LEMMA QuietMove ==
  ASSUME ChainInv, NEW s \in Scans, NEW q, Become(s, q), KeepRest, ScanOk(q, world.sources, now, refusals)
  PROVE  ChainInv'
<1>1. world' = world /\ now' = now /\ refusals' = refusals /\ blocked' = blocked
  BY DEF KeepRest
<1>2. BlocksOk(blocked', now, refusals') /\ refusals \subseteq refusals'
  BY <1>1 DEF ChainInv
<1> QED
  BY <1>1, <1>2, ScanMoves

-----------------------------------------------------------------------------
(* The steps of a scan.                                                     *)

\* A step before the native sources are looked at.
LEMMA EarlyMove ==
  ASSUME ChainInv, NEW s \in Scans, NEW q, Become(s, q), KeepRest, scans[s].pc \in Early, Shape(q),
         q.pc \in {"head", "in", "out", "recover", "withheld"}, q.source = None, q.next = 1, q.halt = FALSE,
         q.asked \in Nat, q.asked <= now
  PROVE  ChainInv'
<1>1. Passed(q, world.sources, now, refusals)
  <2>1. world.sources \in Seq(Sources)
    BY ChainScanAssumption DEF ChainInv
  <2> QED
    BY <2>1 DEF Passed
<1>2. q.next \in Nat \ {0} /\ q.halt \in BOOLEAN
  <2>1. q.next \in Nat \ {0}
    OBVIOUS
  <2>2. q.halt \in BOOLEAN
    BY Zenon
  <2> QED
    BY <2>1, <2>2
<1>3. q.pc \in Early \/ q.pc \in {"recover", "withheld"}
  BY DEF Early
<1>4. q.pc \notin {"trace", "receipts", "diff", "hand", "done"}
  OBVIOUS
<1>5. ScanOk(q, world.sources, now, refusals)
  BY <1>1, <1>2, <1>3, <1>4 DEF ScanOk
<1> QED
  BY <1>5, QuietMove

\* A step within a stage of the scan.
LEMMA StageMove ==
  ASSUME ChainInv, NEW s \in Scans, NEW q, Become(s, q), KeepRest, Shape(q), Same(q, scans[s]),
         q.pc = scans[s].pc, q.halt = scans[s].halt
  PROVE  ChainInv'
<1>1. ScanOk(scans[s], world.sources, now, refusals)
  BY DEF ChainInv
<1>2. ScanOk(q, world.sources, now, refusals)
  BY <1>1 DEF ScanOk, Same, Passed, AtSource
<1> QED
  BY <1>2, QuietMove

\* The chain is withheld.
LEMMA WithheldMove ==
  ASSUME ChainInv, NEW s \in Scans, NEW q, Become(s, q), KeepRest, Shape(q), Same(q, scans[s]),
         q.pc = "withheld", q.halt = FALSE
  PROVE  ChainInv'
<1>1. ScanOk(scans[s], world.sources, now, refusals)
  BY DEF ChainInv
<1>2. ScanOk(q, world.sources, now, refusals)
  BY <1>1 DEF ScanOk, Same, Early
<1> QED
  BY <1>2, QuietMove

LEMMA ScanShape ==
  ASSUME ChainInv, NEW s \in Scans
  PROVE  /\ Shape(scans[s]) /\ scans[s].asked \in Nat /\ scans[s].asked <= now /\ scans[s].halt \in BOOLEAN
         /\ scans[s].pc \in Early => scans[s].source = None /\ scans[s].next = 1 /\ scans[s].halt = FALSE
         /\ scans[s].pc # "trace" => scans[s].halt = FALSE
  BY DEF ChainInv, ScanOk, Early

LEMMA StartMoves ==
  ASSUME ChainInv, NEW s \in Scans, Start(s)
  PROVE  ChainInv'
<1>1. PICK since : Become(s, [Idle EXCEPT !.pc = "head", !.since = since]) /\ KeepRest /\ scans[s].pc = "idle"
  BY DEF Start
<1> DEFINE q == [Idle EXCEPT !.pc = "head", !.since = since]
<1>2. Shape(q) /\ q.pc = "head" /\ q.source = None /\ q.next = 1 /\ q.halt = FALSE /\ q.asked = 0
  BY DEF Idle, Shape
<1>3. Become(s, q)
  BY <1>1
<1> HIDE DEF q
<1>4. now \in Nat
  BY DEF ChainInv
<1>5. scans[s].pc \in Early
  BY <1>1 DEF Early
<1>6. q.asked \in Nat /\ q.asked <= now
  BY <1>2, <1>4
<1> QED
  BY <1>1, <1>2, <1>3, <1>5, <1>6, EarlyMove

LEMMA RetryMoves ==
  ASSUME ChainInv, NEW s \in Scans, Retry(s)
  PROVE  ChainInv'
<1> DEFINE q == [scans[s] EXCEPT !.tries = @ + 1]
<1>1. Become(s, q) /\ KeepRest
  BY DEF Retry
<1>2. Shape(q) /\ Same(q, scans[s]) /\ q.pc = scans[s].pc /\ q.halt = scans[s].halt
  BY ScanShape DEF Shape, Same
<1> HIDE DEF q
<1> QED
  BY <1>1, <1>2, StageMove

LEMMA WithholdMoves ==
  ASSUME ChainInv, NEW s \in Scans, Withhold(s) \/ RepeatedKey(s)
  PROVE  ChainInv'
<1> DEFINE q == [scans[s] EXCEPT !.pc = "withheld"]
<1>1. Become(s, q) /\ KeepRest /\ scans[s].pc \in {"head", "in", "out"}
  BY DEF Withhold, RepeatedKey
<1>2. Shape(q) /\ Same(q, scans[s]) /\ q.pc = "withheld" /\ q.halt = scans[s].halt
  BY ScanShape DEF Shape, Same
<1>3. scans[s].halt = FALSE
  BY <1>1, ScanShape
<1> HIDE DEF q
<1> QED
  BY <1>1, <1>2, <1>3, WithheldMove

LEMMA FetchChainHeadMoves ==
  ASSUME ChainInv, NEW s \in Scans, FetchChainHead(s)
  PROVE  ChainInv'
<1> DEFINE q == [scans[s] EXCEPT !.pc = "in", !.head = height, !.tries = 0]
<1>1. Become(s, q) /\ KeepRest /\ scans[s].pc = "head"
  BY DEF FetchChainHead
<1>2. Shape(q) /\ Same(q, scans[s]) /\ q.pc = "in" /\ q.halt = scans[s].halt
  BY ScanShape DEF Shape, Same
<1>3. /\ scans[s].pc \in Early /\ scans[s].asked \in Nat /\ scans[s].asked <= now
      /\ scans[s].source = None /\ scans[s].next = 1 /\ scans[s].halt = FALSE
  BY <1>1, ScanShape DEF Early
<1> HIDE DEF q
<1> QED
  BY <1>1, <1>2, <1>3, EarlyMove DEF Same

LEMMA WithTransfersKeeps ==
  ASSUME ChainInv, NEW s \in Scans, scans[s].pc \in {"in", "out"}, NEW transfers, NEW final \in BOOLEAN
  PROVE  LET q == WithTransfers(s, transfers, final)
         IN  /\ Shape(q) /\ q.source = scans[s].source /\ q.next = scans[s].next /\ q.asked = scans[s].asked
             /\ q.halt = scans[s].halt /\ q.pc \in {"in", "out", "recover", "withheld"}
<1>1. Shape(scans[s])
  BY ScanShape
<1> DEFINE in == IF scans[s].pc = "in" THEN transfers ELSE scans[s].inbound
           out == IF scans[s].pc = "out" THEN transfers ELSE scans[s].outbound
           pages == IF final THEN 0 ELSE scans[s].pages + 1
           pc == CASE final /\ scans[s].pc = "in"              -> "out"
                   [] final /\ scans[s].pc = "out"             -> "recover"
                   [] ~final /\ scans[s].pages + 1 = MaxPages  -> "withheld"
                   [] OTHER                                    -> scans[s].pc
<1>2. pc \in {"in", "out", "recover", "withheld"}
  OBVIOUS
<1>3. WithTransfers(s, transfers, final)
        = [scans[s] EXCEPT !.inbound = in, !.outbound = out, !.tries = 0, !.pages = pages, !.pc = pc]
  BY DEF WithTransfers
<1> HIDE DEF in, out, pages, pc
<1> DEFINE q == [scans[s] EXCEPT !.inbound = in, !.outbound = out, !.tries = 0, !.pages = pages, !.pc = pc]
<1>4. /\ Shape(q) /\ q.source = scans[s].source /\ q.next = scans[s].next /\ q.asked = scans[s].asked
      /\ q.halt = scans[s].halt /\ q.pc = pc
  BY <1>1 DEF Shape
<1> HIDE DEF q
<1>5. WithTransfers(s, transfers, final) = q
  BY <1>3 DEF q
<1> QED
  BY <1>2, <1>4, <1>5

LEMMA PageMoves ==
  ASSUME ChainInv, NEW s \in Scans, Page(s)
  PROVE  ChainInv'
<1>1. scans[s].pc \in {"in", "out"} /\ KeepRest
  BY DEF Page
<1>2. PICK transfers : \E final \in BOOLEAN : Become(s, WithTransfers(s, transfers, final))
  BY DEF Page
<1>3. PICK q : /\ Become(s, q) /\ Shape(q) /\ q.source = scans[s].source /\ q.next = scans[s].next
               /\ q.asked = scans[s].asked /\ q.halt = scans[s].halt /\ q.pc \in {"in", "out", "recover", "withheld"}
  BY <1>1, <1>2, WithTransfersKeeps
<1>4. /\ scans[s].pc \in Early /\ scans[s].asked \in Nat /\ scans[s].asked <= now
      /\ scans[s].source = None /\ scans[s].next = 1 /\ scans[s].halt = FALSE
  BY <1>1, ScanShape DEF Early
<1> QED
  BY <1>1, <1>3, <1>4, EarlyMove

-----------------------------------------------------------------------------
(* The choice of a source.                                                  *)

LEMMA SourcesAre ==
  ASSUME ChainInv
  PROVE  /\ world.sources \in Seq(Sources) /\ DOMAIN world.sources \subseteq Nat \ {0}
         /\ \A k \in DOMAIN world.sources : world.sources[k] \in Sources /\ world.sources[k] # None
         /\ \A j, k \in DOMAIN world.sources : world.sources[j] = world.sources[k] => j = k
<1>1. world.sources \in Seq(Sources) /\ IsInjective(world.sources)
  BY ChainScanAssumption DEF ChainInv
<1>2. DOMAIN world.sources \subseteq Nat \ {0} /\ \A k \in DOMAIN world.sources : world.sources[k] \in Sources
  BY <1>1
<1> QED
  BY <1>1, <1>2, ChainScanAssumption DEF IsInjective

\* A source that the scan goes past, now or before, was refused in time.
LEMMA SkippedIsRefused ==
  ASSUME ChainInv, NEW s \in Scans, scans[s].pc = "recover", NEW k \in DOMAIN world.sources,
         k < scans[s].next \/ IsSourceUnavailable(world.sources[k]),
         NEW first, first = IF scans[s].source = None THEN now ELSE scans[s].asked
  PROVE  Refused(refusals, now, world.sources[k], first)
<1>1. /\ scans[s].next \in Nat \ {0} /\ scans[s].asked \in Nat /\ scans[s].asked <= now /\ now \in Nat
      /\ (scans[s].source = None => scans[s].next = 1) /\ Passed(scans[s], world.sources, now, refusals)
  BY DEF ChainInv, ScanOk
<1>2. k \in Nat \ {0} /\ world.sources[k] \in Sources
  BY SourcesAre
<1>3. CASE k < scans[s].next
  <2>1. scans[s].source # None
    BY <1>1, <1>2, <1>3
  <2> QED
    BY <1>1, <1>3, <2>1 DEF Passed
<1>4. CASE IsSourceUnavailable(world.sources[k])
  <2>1. PICK t \in 0..now : <<world.sources[k], t>> \in refusals /\ blocked[world.sources[k]] = t + Reprobe
    BY <1>2, <1>4 DEF ChainInv, BlocksOk, IsSourceUnavailable
  <2>2. first <= now /\ first \in Nat
    BY <1>1
  <2>3. first < t + Reprobe
    BY <1>1, <1>4, <2>1, <2>2, ChainScanAssumption DEF IsSourceUnavailable
  <2> QED
    BY <2>1, <2>3 DEF Refused
<1> QED
  BY <1>3, <1>4

\* A scan that goes to work with a source, or hands over what that one found.
LEMMA SourceMove ==
  ASSUME ChainInv, NEW s \in Scans, NEW q, Become(s, q), KeepRest, Shape(q),
         q.pc \in {"trace", "receipts", "diff", "hand", "done"}, q.pc = "trace" => q.source = "alchemy-debug",
         q.asked \in Nat, q.asked <= now, q.halt = FALSE,
         AtSource(q, world.sources), Passed(q, world.sources, now, refusals)
  PROVE  ChainInv'
<1>1. q.next \in Nat \ {0} /\ q.source # None
  BY SourcesAre DEF AtSource
<1>2. q.halt \in BOOLEAN
  BY Zenon
<1>3. q.pc \notin Early /\ q.pc # "recover"
  BY DEF Early
<1>4. ScanOk(q, world.sources, now, refusals)
  BY <1>1, <1>2, <1>3 DEF ScanOk
<1> QED
  BY <1>4, QuietMove

\* A scan that hands over without a source.
LEMMA BareMove ==
  ASSUME ChainInv, NEW s \in Scans, NEW q, Become(s, q), KeepRest, Shape(q), q.pc \in {"hand", "done"},
         q.source = None, q.next \in Nat \ {0}, q.asked \in Nat, q.asked <= now, q.halt = FALSE,
         CandidatesIn(q.inbound \o q.outbound) # <<>> =>
           \A k \in DOMAIN world.sources : Refused(refusals, now, world.sources[k], q.asked)
  PROVE  ChainInv'
<1>1. q.halt \in BOOLEAN
  BY Zenon
<1>2. q.pc \notin Early /\ q.pc # "recover" /\ q.pc \notin {"trace", "receipts", "diff"}
  BY DEF Early
<1>3. ScanOk(q, world.sources, now, refusals)
  BY <1>1, <1>2 DEF ScanOk
<1> QED
  BY <1>3, QuietMove

LEMMA RecoverNativeLegsMoves ==
  ASSUME ChainInv, NEW s \in Scans, RecoverNativeLegs(s)
  PROVE  ChainInv'
<1>1. scans[s].pc = "recover" /\ KeepRest
  BY DEF RecoverNativeLegs
<1>2. /\ Shape(scans[s]) /\ scans[s].next \in Nat \ {0} /\ scans[s].asked \in Nat /\ scans[s].asked <= now /\ now \in Nat
      /\ scans[s].halt = FALSE
  BY <1>1 DEF ChainInv, ScanOk
<1> DEFINE cands == NativeCandidates(s)
           open  == {k \in scans[s].next..Len(world.sources) : ~IsSourceUnavailable(world.sources[k])}
           first == IF scans[s].source = None THEN now ELSE scans[s].asked
           bare  == [scans[s] EXCEPT !.pc = "hand", !.source = None, !.asked = first]
           with(k) == [scans[s] EXCEPT !.next = k, !.source = world.sources[k], !.asked = first]
           stage(k) == IF world.sources[k] = "alchemy-debug" THEN "trace" ELSE "receipts"
<1>3. IF cands = <<>> \/ open = {} THEN Become(s, bare)
      ELSE Become(s, Batch(with(Min(open)), stage(Min(open)), cands))
  BY DEF RecoverNativeLegs
<1>4. /\ Shape(bare) /\ bare.pc = "hand" /\ bare.source = None /\ bare.next = scans[s].next /\ bare.asked = first
      /\ bare.halt = scans[s].halt /\ bare.inbound = scans[s].inbound /\ bare.outbound = scans[s].outbound
  BY <1>2 DEF Shape
<1>5. ASSUME NEW k
      PROVE  /\ Shape(with(k)) /\ with(k).next = k /\ with(k).source = world.sources[k] /\ with(k).asked = first
             /\ with(k).inbound = scans[s].inbound /\ with(k).outbound = scans[s].outbound
  BY <1>2 DEF Shape
<1>6. first \in Nat /\ first <= now
  BY <1>2
<1>7. ASSUME NEW k \in DOMAIN world.sources, k < scans[s].next \/ IsSourceUnavailable(world.sources[k])
      PROVE  Refused(refusals, now, world.sources[k], first)
  BY <1>1, <1>7, SkippedIsRefused
<1>8. ASSUME NEW k \in DOMAIN world.sources, k \notin open
      PROVE  k < scans[s].next \/ IsSourceUnavailable(world.sources[k])
  <2>1. k \in 1..Len(world.sources)
    BY SourcesAre
  <2> QED
    BY <1>2, <1>8, <2>1
<1>9. open \subseteq DOMAIN world.sources /\ open \subseteq Nat
  <2>1. DOMAIN world.sources = 1..Len(world.sources) /\ Len(world.sources) \in Nat
    BY SourcesAre
  <2> QED
    BY <1>2, <2>1
<1>10. CASE cands = <<>> \/ open = {}
  <2>1. CandidatesIn(bare.inbound \o bare.outbound) = cands
    BY <1>4 DEF NativeCandidates
  <2>2. CandidatesIn(bare.inbound \o bare.outbound) # <<>> =>
          \A k \in DOMAIN world.sources : Refused(refusals, now, world.sources[k], first)
    BY <1>7, <1>8, <1>10, <2>1
  <2>3. Become(s, bare)
    BY <1>3, <1>10
  <2> HIDE DEF bare, cands, open, first
  <2> QED
    BY <1>1, <1>2, <1>4, <1>6, <2>2, <2>3, BareMove
<1>11. CASE ~(cands = <<>> \/ open = {})
  <2>1. PICK k \in open : k = Min(open) /\ \A y \in open : k <= y
    <3>1. open \in SUBSET Nat /\ open # {}
      BY <1>9, <1>11
    <3> HIDE DEF open
    <3> QED
      BY <3>1, MinIs
  <2>2. k \in DOMAIN world.sources /\ k \in Nat \ {0} /\ world.sources[k] \in Sources
    BY <1>9, <2>1, SourcesAre
  <2>3. PICK q : q = Batch(with(k), stage(k), cands)
    OBVIOUS
  <2>4. Become(s, q)
    BY <1>3, <1>11, <2>1, <2>3
  <2>5. /\ Shape(q) /\ q.next = k /\ q.source = world.sources[k] /\ q.asked = first
        /\ q.pc = stage(k) /\ q.halt = FALSE
    <3>1. PICK w : w = with(k)
      OBVIOUS
    <3>2. Shape(w) /\ w.next = k /\ w.source = world.sources[k] /\ w.asked = first
      <4> HIDE DEF with, first
      <4> QED
        BY <1>5, <3>1
    <3>3. PICK at, list : at = stage(k) /\ list = cands
      OBVIOUS
    <3>4. q = Batch(w, at, list)
      <4> HIDE DEF with, stage, cands
      <4> QED
        BY <2>3, <3>1, <3>3
    <3> HIDE DEF with, stage, cands, first
    <3>5. Shape(q) /\ Same(q, w) /\ q.pc = at /\ q.halt = FALSE
      <4>1. /\ Shape(Batch(w, at, list)) /\ Same(Batch(w, at, list), w)
            /\ Batch(w, at, list).pc = at /\ Batch(w, at, list).halt = FALSE
        BY <3>2 DEF Shape, Same, Batch
      <4> QED
        BY <3>4, <4>1
    <3> QED
      BY <3>2, <3>3, <3>5 DEF Same
  <2>6. q.next = k /\ q.source = world.sources[k] /\ q.asked = first
    BY <2>5
  <2>7. q.pc \in {"trace", "receipts"} /\ (q.pc = "trace" => q.source = "alchemy-debug")
    BY <2>5, <2>6
  <2>8. AtSource(q, world.sources)
    BY <2>2, <2>6 DEF AtSource
  <2>9. Passed(q, world.sources, now, refusals)
    <3>1. SUFFICES ASSUME NEW j \in DOMAIN world.sources, j < k
                   PROVE  Refused(refusals, now, world.sources[j], first)
      BY <2>6 DEF Passed
    <3>2. j \notin open
      <4>1. j \in Nat /\ k \in Nat /\ ~(k <= j)
        BY <2>2, <3>1, SourcesAre
      <4> HIDE DEF open
      <4> QED
        BY <2>1, <4>1
    <3> QED
      BY <1>7, <1>8, <3>2
  <2> HIDE DEF with, stage, cands, open, first, bare
  <2>10. q.asked \in Nat /\ q.asked <= now
    BY <1>6, <2>6
  <2> QED
    BY <1>1, <2>4, <2>5, <2>7, <2>8, <2>9, <2>10, SourceMove
<1> QED
  BY <1>10, <1>11

-----------------------------------------------------------------------------
(* The answers of a source.                                                 *)

LEMMA AtWork ==
  ASSUME ChainInv, NEW s \in Scans, scans[s].pc \in {"trace", "receipts", "diff"}
  PROVE  /\ Shape(scans[s]) /\ scans[s].next \in Nat \ {0} /\ scans[s].asked \in Nat /\ scans[s].asked <= now
         /\ AtSource(scans[s], world.sources) /\ Passed(scans[s], world.sources, now, refusals)
         /\ scans[s].source \in Sources /\ scans[s].source # None /\ scans[s].halt \in BOOLEAN
<1>1. /\ Shape(scans[s]) /\ scans[s].next \in Nat \ {0} /\ scans[s].asked \in Nat /\ scans[s].asked <= now
      /\ AtSource(scans[s], world.sources) /\ Passed(scans[s], world.sources, now, refusals)
      /\ scans[s].halt \in BOOLEAN
  BY DEF ChainInv, ScanOk
<1> QED
  BY <1>1, SourcesAre DEF AtSource

LEMMA AnsweredMoves ==
  ASSUME ChainInv, NEW s \in Scans, NEW hash, Answered(s, hash) \/ AnsweredArchive(s, hash)
  PROVE  ChainInv'
<1>1. scans[s].pc \in {"trace", "receipts", "diff"} /\ KeepRest
  BY DEF Answered, AnsweredArchive, Asking
<1> DEFINE d == [scans[s] EXCEPT !.done = @ \cup {hash}]
           l == [scans[s] EXCEPT !.lost = @ \cup {hash}]
<1>2. Become(s, Refill(d, hash)) \/ Become(s, Refill(l, hash))
  BY DEF Answered, AnsweredArchive
<1>3. /\ Shape(d) /\ Same(d, scans[s]) /\ d.pc = scans[s].pc /\ d.halt = scans[s].halt
      /\ Shape(l) /\ Same(l, scans[s]) /\ l.pc = scans[s].pc /\ l.halt = scans[s].halt
  BY ScanShape DEF Shape, Same
<1> HIDE DEF d, l
<1>4. PICK e : /\ Become(s, Refill(e, hash)) /\ Shape(e) /\ Same(e, scans[s]) /\ e.pc = scans[s].pc
               /\ e.halt = scans[s].halt
  BY <1>2, <1>3
<1>5. PICK q : q = Refill(e, hash)
  OBVIOUS
<1>6. Shape(q) /\ Same(q, e) /\ q.pc = e.pc /\ q.halt = e.halt
  BY <1>4, <1>5, RefillKeeps
<1>7. Become(s, q) /\ Same(q, scans[s]) /\ q.pc = scans[s].pc /\ q.halt = scans[s].halt
  BY <1>4, <1>5, <1>6 DEF Same
<1> QED
  BY <1>1, <1>6, <1>7, StageMove

LEMMA AnsweredBusyMoves ==
  ASSUME ChainInv, NEW s \in Scans, NEW hash, AnsweredBusy(s, hash)
  PROVE  ChainInv'
<1> DEFINE q == [scans[s] EXCEPT !.flight[hash] = @ + 1]
<1>1. Become(s, q) /\ KeepRest
  BY DEF AnsweredBusy
<1>2. Shape(q) /\ Same(q, scans[s]) /\ q.pc = scans[s].pc /\ q.halt = scans[s].halt
  BY ScanShape DEF Shape, Same
<1> HIDE DEF q
<1> QED
  BY <1>1, <1>2, StageMove

LEMMA AnsweredErrorMoves ==
  ASSUME ChainInv, NEW s \in Scans, NEW hash, AnsweredError(s, hash)
  PROVE  ChainInv'
<1> DEFINE q == [scans[s] EXCEPT !.pc = "withheld", !.flight = <<>>, !.todo = <<>>, !.halt = FALSE]
<1>1. Become(s, q) /\ KeepRest
  BY DEF AnsweredError
<1>2. Shape(q) /\ Same(q, scans[s]) /\ q.pc = "withheld" /\ q.halt = FALSE
  BY ScanShape DEF Shape, Same
<1> HIDE DEF q
<1> QED
  BY <1>1, <1>2, WithheldMove

\* The source steps aside: it was refused just now and is blocked for a re-probe window.
LEMMA AsideMove ==
  ASSUME ChainInv, NEW s \in Scans, NEW q, Become(s, q), world' = world, now' = now, refusals \subseteq refusals',
         scans[s].pc \in {"trace", "receipts", "diff"}, <<scans[s].source, now>> \in refusals',
         MarkSourceUnavailable(scans[s].source), Shape(q), q.pc = "recover", q.next = scans[s].next + 1,
         q.source = scans[s].source, q.asked = scans[s].asked, q.halt = FALSE
  PROVE  ChainInv'
<1>1. PICK n \in Nat : n = now
  BY DEF ChainInv
<1>2. /\ scans[s].next \in Nat \ {0} /\ scans[s].asked \in Nat /\ scans[s].asked <= n
      /\ AtSource(scans[s], world.sources) /\ Passed(scans[s], world.sources, n, refusals)
      /\ scans[s].source \in Sources /\ scans[s].source # None
  BY <1>1, AtWork
<1>3. n <= n /\ n \in 0..n /\ Reprobe \in Nat /\ Reprobe > 0
  BY ChainScanAssumption
<1>4. BlocksOk(blocked', n, refusals')
  <2>1. blocked \in [Sources -> Nat] /\ BlocksOk(blocked, n, refusals)
    BY <1>1 DEF ChainInv, BlocksOk
  <2>2. /\ blocked' \in [Sources -> Nat] /\ blocked'[scans[s].source] = n + Reprobe
        /\ \A source \in Sources \ {scans[s].source} : blocked'[source] = blocked[source]
    BY <1>1, <1>2, <1>3, <2>1 DEF MarkSourceUnavailable
  <2>3. ASSUME NEW source \in Sources, n < blocked'[source]
        PROVE  \E t \in 0..n : <<source, t>> \in refusals' /\ blocked'[source] = t + Reprobe
    <3>1. CASE source = scans[s].source
      BY <1>1, <1>3, <2>2, <3>1
    <3>2. CASE source # scans[s].source
      BY <2>1, <2>2, <2>3, <3>2 DEF BlocksOk
    <3> QED
      BY <3>1, <3>2
  <2> QED
    BY <2>2, <2>3 DEF BlocksOk
<1>5. Passed(q, world.sources, n, refusals')
  <2>1. SUFFICES ASSUME NEW k \in DOMAIN world.sources, k < scans[s].next + 1
                 PROVE  Refused(refusals', n, world.sources[k], scans[s].asked)
    BY DEF Passed
  <2>2. k \in Nat
    BY SourcesAre
  <2>3. CASE k < scans[s].next
    <3>1. Refused(refusals, n, world.sources[k], scans[s].asked)
      BY <1>2, <2>3 DEF Passed
    <3> QED
      BY <1>3, <3>1, RefusedStays
  <2>4. CASE k = scans[s].next
    <3>1. world.sources[k] = scans[s].source
      BY <1>2, <2>4 DEF AtSource
    <3>2. scans[s].asked < n + Reprobe
      BY <1>2, <1>3
    <3> QED
      BY <1>1, <1>3, <3>1, <3>2 DEF Refused
  <2> QED
    BY <1>2, <2>1, <2>2, <2>3, <2>4
<1>6. q.next \in Nat \ {0}
  BY <1>2
<1>7. q.halt \in BOOLEAN
  BY Zenon
<1>8. q.pc \notin Early /\ q.pc \notin {"trace", "receipts", "diff", "hand", "done"}
  BY DEF Early
<1>9. ScanOk(q, world.sources, n, refusals')
  BY <1>2, <1>5, <1>6, <1>7, <1>8 DEF ScanOk
<1> QED
  BY <1>1, <1>4, <1>9, ScanMoves

LEMMA AnsweredRefusalMoves ==
  ASSUME ChainInv, NEW s \in Scans, NEW hash, AnsweredRefusal(s, hash)
  PROVE  ChainInv'
<1>1. /\ scans[s].pc \in {"trace", "receipts", "diff"} /\ world' = world /\ now' = now
      /\ refusals' = refusals \cup {<<scans[s].source, now>>}
  BY DEF AnsweredRefusal, Asking
<1>2. refusals \subseteq refusals' /\ <<scans[s].source, now>> \in refusals'
  BY <1>1
<1> DEFINE h == [scans[s] EXCEPT !.halt = TRUE, !.todo = <<>>]
           b == [scans[s] EXCEPT !.pc = "recover", !.next = @ + 1, !.flight = <<>>, !.todo = <<>>]
<1>3. /\ scans[s].pc = "trace" => Become(s, Refill(h, hash)) /\ blocked' = blocked
      /\ scans[s].pc # "trace" => Become(s, b) /\ MarkSourceUnavailable(scans[s].source)
  BY DEF AnsweredRefusal
<1>4. Shape(h) /\ Same(h, scans[s]) /\ h.pc = scans[s].pc /\ h.halt = TRUE
  BY ScanShape DEF Shape, Same
<1>5. /\ Shape(b) /\ b.pc = "recover" /\ b.next = scans[s].next + 1 /\ b.source = scans[s].source
      /\ b.asked = scans[s].asked /\ b.halt = scans[s].halt
  BY ScanShape DEF Shape
<1> HIDE DEF h, b
<1>6. CASE scans[s].pc # "trace"
  <2>1. scans[s].halt = FALSE
    BY <1>6, ScanShape
  <2> QED
    BY <1>1, <1>2, <1>3, <1>5, <1>6, <2>1, AsideMove
<1>7. CASE scans[s].pc = "trace"
  <2>1. PICK q : q = Refill(h, hash)
    OBVIOUS
  <2>2. Shape(q) /\ Same(q, scans[s]) /\ q.pc = "trace" /\ q.halt = TRUE /\ Become(s, q)
    <3>1. Shape(q) /\ Same(q, h) /\ q.pc = h.pc /\ q.halt = h.halt
      BY <1>4, <2>1, RefillKeeps
    <3> QED
      BY <1>3, <1>4, <1>7, <2>1, <3>1 DEF Same
  <2>3. PICK n \in Nat : n = now /\ n <= n
    BY DEF ChainInv
  <2>4. ScanOk(scans[s], world.sources, n, refusals) /\ BlocksOk(blocked, n, refusals)
    BY <2>3 DEF ChainInv
  <2>5. BlocksOk(blocked', n, refusals')
    BY <1>2, <1>3, <1>7, <2>4 DEF BlocksOk
  <2>6. q.halt \in BOOLEAN
    BY <2>2, Zenon
  <2>7. ScanOk(scans[s], world.sources, n, refusals')
    BY <1>2, <2>3, <2>4, ScanStays
  <2>8. <<q.source, n>> \in refusals'
    BY <1>2, <2>2, <2>3 DEF Same
  <2>9. ScanOk(q, world.sources, n, refusals')
    <3>1. Passed(q, world.sources, n, refusals') /\ AtSource(q, world.sources)
      BY <1>7, <2>2, <2>7 DEF ScanOk, Same, Passed, AtSource
    <3>2. q.pc \notin Early
      BY <2>2 DEF Early
    <3>3. /\ q.next \in Nat \ {0} /\ q.asked \in Nat /\ q.asked <= n /\ q.source = "alchemy-debug"
      BY <1>7, <2>2, <2>7 DEF ScanOk, Same
    <3> QED
      BY <2>2, <2>6, <2>8, <3>1, <3>2, <3>3 DEF ScanOk
  <2> QED
    BY <1>1, <1>2, <2>2, <2>3, <2>5, <2>9, ScanMoves
<1> QED
  BY <1>6, <1>7

-----------------------------------------------------------------------------
(* The ends of the stages, the environment.                                 *)

LEMMA EndTraceMoves ==
  ASSUME ChainInv, NEW s \in Scans, EndTrace(s)
  PROVE  ChainInv'
<1>1. scans[s].pc = "trace" /\ world' = world /\ now' = now /\ refusals' = refusals /\ UNCHANGED <<height, gated, saved>>
  BY DEF EndTrace
<1> DEFINE a == [scans[s] EXCEPT !.pc = "recover", !.next = @ + 1, !.halt = FALSE]
           h == [scans[s] EXCEPT !.pc = "hand"]
<1>2. /\ scans[s].halt = TRUE => MarkSourceUnavailable("alchemy-debug") /\ Become(s, a)
      /\ scans[s].halt = FALSE => Become(s, h) /\ blocked' = blocked
  BY DEF EndTrace
<1>3. /\ Shape(a) /\ a.pc = "recover" /\ a.next = scans[s].next + 1 /\ a.source = scans[s].source
      /\ a.asked = scans[s].asked /\ a.halt = FALSE
  BY ScanShape DEF Shape
<1>4. Shape(h) /\ Same(h, scans[s]) /\ h.pc = "hand" /\ h.halt = scans[s].halt
  BY ScanShape DEF Shape, Same
<1> HIDE DEF a, h
<1>5. scans[s].halt = TRUE \/ scans[s].halt = FALSE
  BY ScanShape, Zenon
<1>6. CASE scans[s].halt = TRUE
  <2>1. scans[s].source = "alchemy-debug" /\ <<scans[s].source, now>> \in refusals
    BY <1>1, <1>6 DEF ChainInv, ScanOk
  <2>2. MarkSourceUnavailable(scans[s].source)
    BY <1>2, <1>6, <2>1
  <2>3. refusals \subseteq refusals' /\ <<scans[s].source, now>> \in refusals'
    BY <1>1, <2>1
  <2>4. Become(s, a)
    BY <1>2, <1>6
  <2> QED
    BY <1>1, <1>3, <2>2, <2>3, <2>4, AsideMove
<1>7. CASE scans[s].halt = FALSE
  <2>1. Become(s, h) /\ KeepRest
    BY <1>1, <1>2, <1>7 DEF KeepRest
  <2>2. /\ scans[s].asked \in Nat /\ scans[s].asked <= now
        /\ AtSource(scans[s], world.sources) /\ Passed(scans[s], world.sources, now, refusals)
    BY <1>1, AtWork
  <2>3. AtSource(h, world.sources) /\ Passed(h, world.sources, now, refusals) /\ h.asked \in Nat /\ h.asked <= now
    BY <1>4, <2>2 DEF AtSource, Passed, Same
  <2>4. h.pc \in {"trace", "receipts", "diff", "hand", "done"} /\ h.pc # "trace" /\ h.halt = FALSE
    BY <1>4, <1>7
  <2> QED
    BY <1>4, <2>1, <2>3, <2>4, SourceMove
<1> QED
  BY <1>5, <1>6, <1>7

LEMMA EndReceiptsMoves ==
  ASSUME ChainInv, NEW s \in Scans, EndReceipts(s)
  PROVE  ChainInv'
<1>1. scans[s].pc = "receipts" /\ KeepRest
  BY DEF EndReceipts
<1>2. PICK list : Become(s, Batch(scans[s], "diff", list))
  BY DEF EndReceipts
<1>3. PICK q : q = Batch(scans[s], "diff", list)
  OBVIOUS
<1>4. Shape(q) /\ Same(q, scans[s]) /\ q.pc = "diff" /\ q.halt = FALSE
  <2>1. Shape(scans[s])
    BY ScanShape
  <2>2. /\ Shape(Batch(scans[s], "diff", list)) /\ Same(Batch(scans[s], "diff", list), scans[s])
        /\ Batch(scans[s], "diff", list).pc = "diff" /\ Batch(scans[s], "diff", list).halt = FALSE
    BY <2>1 DEF Shape, Same, Batch
  <2> QED
    BY <1>3, <2>2
<1>5. Become(s, q)
  BY <1>2, <1>3
<1>6. /\ scans[s].asked \in Nat /\ scans[s].asked <= now
      /\ AtSource(scans[s], world.sources) /\ Passed(scans[s], world.sources, now, refusals)
  BY <1>1, AtWork
<1>7. AtSource(q, world.sources) /\ Passed(q, world.sources, now, refusals) /\ q.asked \in Nat /\ q.asked <= now
  BY <1>4, <1>6 DEF AtSource, Passed, Same
<1> QED
  BY <1>1, <1>4, <1>5, <1>7, SourceMove

LEMMA EndDiffMoves ==
  ASSUME ChainInv, NEW s \in Scans, EndDiff(s)
  PROVE  ChainInv'
<1> DEFINE q == [scans[s] EXCEPT !.pc = "hand"]
<1>1. scans[s].pc = "diff" /\ KeepRest /\ Become(s, q)
  BY DEF EndDiff
<1>2. Shape(q) /\ Same(q, scans[s]) /\ q.pc = "hand" /\ q.halt = scans[s].halt
  BY ScanShape DEF Shape, Same
<1> HIDE DEF q
<1>3. scans[s].halt = FALSE
  BY <1>1, ScanShape
<1>4. /\ scans[s].asked \in Nat /\ scans[s].asked <= now
      /\ AtSource(scans[s], world.sources) /\ Passed(scans[s], world.sources, now, refusals)
  BY <1>1, AtWork
<1>5. AtSource(q, world.sources) /\ Passed(q, world.sources, now, refusals) /\ q.asked \in Nat /\ q.asked <= now
  BY <1>2, <1>4 DEF AtSource, Passed, Same
<1> QED
  BY <1>1, <1>2, <1>3, <1>5, SourceMove

LEMMA HandMoves ==
  ASSUME ChainInv, NEW s \in Scans, Hand(s)
  PROVE  ChainInv'
<1> DEFINE w == [scans[s] EXCEPT !.pc = "withheld"]
           d == [scans[s] EXCEPT !.pc = "done"]
<1>1. /\ scans[s].pc = "hand" /\ (Become(s, w) \/ Become(s, d))
      /\ world' = world /\ now' = now /\ refusals' = refusals /\ blocked' = blocked
  BY DEF Hand
<1>2. /\ Shape(w) /\ Same(w, scans[s]) /\ w.pc = "withheld" /\ w.halt = scans[s].halt
      /\ Shape(d) /\ Same(d, scans[s]) /\ d.pc = "done" /\ d.halt = scans[s].halt
  BY ScanShape DEF Shape, Same
<1> HIDE DEF w, d
<1>3. PICK q : Become(s, q) /\ Shape(q) /\ Same(q, scans[s]) /\ q.pc \in {"withheld", "done"} /\ q.halt = scans[s].halt
  BY <1>1, <1>2
<1>4. ScanOk(scans[s], world.sources, now, refusals) /\ BlocksOk(blocked, now, refusals)
  BY DEF ChainInv
<1>5. scans[s].halt = FALSE
  BY <1>1, ScanShape
<1>6. q.halt \in BOOLEAN /\ q.halt = FALSE
  BY <1>3, <1>5, Zenon
<1>7. q.pc \notin Early /\ q.pc \notin {"recover", "trace", "receipts", "diff"}
  BY <1>3 DEF Early
<1>8. /\ q.next \in Nat \ {0} /\ q.asked \in Nat /\ q.asked <= now
      /\ AtSource(scans[s], world.sources) => AtSource(q, world.sources)
      /\ Passed(scans[s], world.sources, now, refusals) => Passed(q, world.sources, now, refusals)
  BY <1>3, <1>4 DEF Same, ScanOk, AtSource, Passed
<1>9. CandidatesIn(q.inbound \o q.outbound) # <<>> =>
        IF q.source = None THEN \A k \in DOMAIN world.sources : Refused(refusals, now, world.sources[k], q.asked)
        ELSE AtSource(q, world.sources) /\ Passed(q, world.sources, now, refusals)
  BY <1>1, <1>3, <1>4, <1>8 DEF Same, ScanOk
<1>10. ScanOk(q, world.sources, now, refusals)
  BY <1>3, <1>6, <1>7, <1>8, <1>9 DEF ScanOk
<1>11. refusals \subseteq refusals' /\ BlocksOk(blocked', now, refusals') /\ ScanOk(q, world.sources, now, refusals')
  BY <1>1, <1>4, <1>10
<1> QED
  BY <1>1, <1>3, <1>11, ScanMoves

LEMMA TickMoves ==
  ASSUME ChainInv, Tick
  PROVE  ChainInv'
<1>1. PICK n \in Nat : n = now
  BY DEF ChainInv
<1>2. /\ now' = n + 1 /\ world' = world /\ blocked' = blocked /\ refusals' = refusals /\ scans' = scans
      /\ \A s \in Scans : ~scans[s].halt
  BY <1>1 DEF Tick
<1>3. n + 1 \in Nat /\ n <= n + 1
  OBVIOUS
<1>4. PICK m \in Nat : m = n + 1 /\ n <= m
  BY <1>3
<1>5. BlocksOk(blocked, n, refusals)
  BY <1>1 DEF ChainInv
<1>6. BlocksOk(blocked, m, refusals)
  BY <1>4, <1>5 DEF BlocksOk
<1>7. ASSUME NEW s \in Scans PROVE ScanOk(scans[s], world.sources, m, refusals)
  <2>1. ScanOk(scans[s], world.sources, n, refusals) /\ refusals \subseteq refusals
    BY <1>1 DEF ChainInv
  <2>2. scans[s].halt # TRUE
    BY <1>2
  <2> QED
    BY <1>4, <2>1, <2>2, ScanStays
<1> QED
  BY <1>2, <1>4, <1>6, <1>7 DEF ChainInv

LEMMA ChainStart ==
  ASSUME Init
  PROVE  ChainInv
<1>1. world \in Worlds /\ now = 0 /\ blocked = [source \in Sources |-> 0] /\ refusals = {} /\ scans = [s \in Scans |-> Idle]
  BY DEF Init
<1>2. BlocksOk(blocked, now, refusals)
  BY <1>1 DEF BlocksOk
<1>3. /\ Shape(Idle) /\ Idle.pc = "idle" /\ Idle.next = 1 /\ Idle.source = None /\ Idle.halt = FALSE
      /\ Idle.asked = 0
  BY IdleShape DEF Idle
<1>4. Idle.halt \in BOOLEAN
  BY <1>3, Zenon
<1>5. ScanOk(Idle, world.sources, now, refusals)
  BY <1>1, <1>3, <1>4 DEF ScanOk
<1>6. DOMAIN scans = Scans /\ \A s \in Scans : scans[s] = Idle
  BY <1>1
<1> QED
  BY <1>1, <1>2, <1>5, <1>6 DEF ChainInv

LEMMA ProgressMoves ==
  ASSUME ChainInv, NEW s \in Scans, Progress(s)
  PROVE  ChainInv'
<1>1. ASSUME NEW hash, \/ Answered(s, hash) \/ AnsweredBusy(s, hash) \/ AnsweredError(s, hash)
                       \/ AnsweredArchive(s, hash) \/ AnsweredRefusal(s, hash)
      PROVE  ChainInv'
  BY <1>1, AnsweredMoves, AnsweredBusyMoves, AnsweredErrorMoves, AnsweredRefusalMoves
<1> QED
  BY <1>1, RetryMoves, WithholdMoves, FetchChainHeadMoves, PageMoves, RecoverNativeLegsMoves, EndTraceMoves,
     EndReceiptsMoves, EndDiffMoves, HandMoves DEF Progress

LEMMA ChainStep ==
  ASSUME ChainInv, [Next]_vars
  PROVE  ChainInv'
<1>1. CASE UNCHANGED vars
  BY <1>1 DEF vars, ChainInv
<1>2. CASE NewBlock
  BY <1>2 DEF NewBlock, ChainInv
<1>3. CASE Upgrade
  BY <1>3 DEF Upgrade, ChainInv
<1> QED
  BY <1>1, <1>2, <1>3, TickMoves, StartMoves, ProgressMoves DEF Next

\* The invariant answers for every batch handed over.
LEMMA ChainInvShows ==
  ASSUME ChainInv
  PROVE  DegradedOnlyWhenRefused
<1>1. SUFFICES ASSUME NEW s \in Scans, scans[s].pc = "done", NativeCandidates(s) # <<>>,
                      NEW k \in DOMAIN world.sources,
                      \/ scans[s].source = None
                      \/ \E j \in DOMAIN world.sources : scans[s].source = world.sources[j] /\ k < j
               PROVE  Refused(refusals, now, world.sources[k], scans[s].asked)
  BY DEF DegradedOnlyWhenRefused, Handed, Refused
<1>2. IF scans[s].source = None
      THEN \A i \in DOMAIN world.sources : Refused(refusals, now, world.sources[i], scans[s].asked)
      ELSE AtSource(scans[s], world.sources) /\ Passed(scans[s], world.sources, now, refusals)
  BY <1>1 DEF ChainInv, ScanOk, NativeCandidates
<1>3. CASE scans[s].source = None
  BY <1>2, <1>3
<1>4. CASE scans[s].source # None
  <2>1. PICK j \in DOMAIN world.sources : scans[s].source = world.sources[j] /\ k < j
    BY <1>1, <1>4
  <2>2. j = scans[s].next
    BY <1>2, <1>4, <2>1, SourcesAre DEF AtSource
  <2> QED
    BY <1>2, <1>4, <2>1, <2>2 DEF Passed
<1> QED
  BY <1>3, <1>4

\* indexer.adapters.ts recoverNativeLegs: a batch that is handed over without the legs of a better source of its
\* chain stands on refusals of all the better ones, each less than a re-probe window before this scan first looked
\* for a source, whatever the other scans, errors, retries and blocks in between.
THEOREM SourcesInOrder == Spec => []DegradedOnlyWhenRefused
<1>1. Init => ChainInv
  BY ChainStart
<1>2. ChainInv /\ [Next]_vars => ChainInv'
  BY ChainStep
<1>3. ChainInv => DegradedOnlyWhenRefused
  BY ChainInvShows
<1> QED
  BY <1>1, <1>2, <1>3, PTL DEF Spec
=============================================================================
