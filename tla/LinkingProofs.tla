--------------------------- MODULE LinkingProofs ---------------------------
(***************************************************************************)
(* For any wallets, legs and transfer data: an edit is final that was not  *)
(* made while its row was being rewritten, and whose row no bridge link    *)
(* meant for another was written to; no row counts as a move to a wallet   *)
(* that is not bound, unless the unbind met a pass that had read the       *)
(* bindings before or was not carried out; and passes that nothing         *)
(* disturbs leave every pair of the ledger linked, whatever they started   *)
(* from and wherever their own writes landed.                              *)
(*                                                                         *)
(* None is inductive: what a pass will write is decided when it reads the  *)
(* ledger, so the invariant says what every planned write knows (SyncOK,   *)
(* UnbindOK, WalletsRead, Unlinks), and Healing says that the plans of     *)
(* undisturbed passes are what the ledger lacks.                           *)
(***************************************************************************)
EXTENDS Linking, FiniteSetTheorems, TLAPS

Steps == {"idle", "walk", "own", "owning", "bridging", "in"}

Links == [out: SUBSET Write, in: SUBSET Write]

Sync == [step: Steps, wallets: SUBSET Wallets, plan: SUBSET (Write \cup Links),
         in: (SUBSET Write) \cup {None}]

Unbinding == [step: {"idle", "read", "write"}, wallet: Wallets \cup {None}, plan: SUBSET Write]

\* The writes of a pass that are still to come.
OfLinks(links) == UNION {l.out \cup l.in : l \in links}

Coming(sy) ==
  CASE sy.step = "owning" -> sy.plan
    [] sy.step = "bridging" -> OfLinks(sy.plan)
    [] sy.step = "in" -> sy.in \cup OfLinks(sy.plan)
    [] OTHER -> {}

\* The rows whose last edit may be gone.
Excused == exposed \cup misled

Types ==
  /\ bound \in SUBSET Wallets
  /\ rows \in [Legs -> Row \cup {None}]
  /\ edits \in [Legs -> Nat] /\ made \in Nat
  /\ Excused \in SUBSET Legs /\ unproven \in SUBSET Legs

\* A planned write has no edit, and overwrites none that is not excused.
Harmless(w, ex, ed) ==
  /\ w.row.edit = 0
  /\ Data[w.slot].transfer = Of(w.row).transfer
  /\ w.slot \notin ex => ed[w.slot] = 0

\* A pass writes moves to wallets it has read, or bridges.
SyncOK(sy, ex, ed) ==
  /\ sy \in Sync
  /\ sy.step = "owning" => sy.plan \in SUBSET Write
  /\ sy.step \in {"bridging", "in"} => sy.plan \in SUBSET Links
  /\ sy.step = "in" => sy.in \in SUBSET Write
  /\ \A w \in Coming(sy) : Harmless(w, ex, ed)
  /\ sy.step = "owning" => \A w \in sy.plan : Of(w.row).counterparty \in sy.wallets
  /\ sy.step \in {"bridging", "in"} => \A w \in Coming(sy) : IsBridgeGroup(w.row.group)

\* An unbind writes no move.
UnbindOK(u, ex, ed) ==
  /\ u \in Unbinding
  /\ u.step = "idle" <=> u.wallet = None
  /\ u.step # "write" => u.plan = {}
  /\ \A w \in u.plan : Harmless(w, ex, ed) /\ w.row.class # "INTERNAL_TRANSFER"

\* A row holds a payload of its own transfer, and its wallet is bound.
Slots ==
  \A s \in Legs : rows[s] # None =>
    Data[s].transfer = Of(rows[s]).transfer /\ Data[s].wallet \in bound

EditKept(row, n) ==
  IF row = None THEN n = 0 ELSE row.edit = n /\ (n > 0 => row.class = "EDITED")

Final == \A s \in Legs \ Excused : EditKept(rows[s], edits[s])

\* The legs of a wallet that was unbound since the own-wallet pass read the bindings.
WalletsRead ==
  sync.step \in {"own", "owning"} =>
    \A l \in Legs : Data[l].counterparty \in sync.wallets \ bound => l \in unproven \/ rows[l] = None

\* A row that counts as a move between own wallets, without a bridge's key.
Move(row) == row.edit = 0 /\ row.class = "INTERNAL_TRANSFER" /\ ~IsBridgeGroup(row.group)

\* A row whose move no binding proves, and that is not marked as such.
Unproven(s) ==
  /\ rows[s] # None /\ s \notin unproven /\ Move(rows[s])
  /\ Of(rows[s]).counterparty \notin bound

\* Only the unbind under way may have left one, and it will revert it.
Unlinks ==
  \A s \in Legs : Unproven(s) =>
    /\ unbind.step # "idle" /\ Of(rows[s]).counterparty = unbind.wallet
    /\ unbind.step = "write" => \E w \in unbind.plan : w.slot = s

IInv ==
  /\ Types /\ SyncOK(sync, Excused, edits) /\ UnbindOK(unbind, Excused, edits)
  /\ Slots /\ Final /\ WalletsRead /\ Unlinks

-----------------------------------------------------------------------------
(* Plans.                                                                   *)

\* The write of a slot that is stored, has no edit and keeps its leg.
Rewrites(w, ledger) ==
  /\ w \in Write
  /\ ledger[w.slot] # None /\ ledger[w.slot].edit = 0
  /\ w.row.leg = ledger[w.slot].leg /\ w.row.edit = 0

\* What the own-wallet pass plans rewrites what it has read (apply()).
LEMMA OwnPlanRewrites ==
  ASSUME NEW ledger \in [Legs -> Row \cup {None}], NEW wallets \in SUBSET Wallets,
         NEW w \in OwnPlan(ledger, wallets)
  PROVE  Rewrites(w, ledger) /\ Of(w.row).counterparty \in wallets
<1>1. PICK s \in OwnMoves(ledger, wallets) :
        w = [slot |-> s, row |-> [ledger[s] EXCEPT !.class = "INTERNAL_TRANSFER", !.dest = None,
                                                   !.group = OwnGroup(ledger, wallets, s)]]
  BY DEF OwnPlan
<1>2. s \in Legs /\ ledger[s] # None /\ IsOwnMove(ledger[s], wallets)
  BY <1>1 DEF OwnMoves, Stored
<1>3. ledger[s] \in Row
  BY <1>2
<1>4. OwnGroup(ledger, wallets, s) \in Groups \cup {None}
  BY <1>2, <1>3 DEF OwnGroup, Groups, Of, Row
<1>5. PICK r : r = ledger[s]
  OBVIOUS
<1>6. PICK g : g = OwnGroup(ledger, wallets, s)
  OBVIOUS
<1>7. PICK n : n = [r EXCEPT !.class = "INTERNAL_TRANSFER", !.dest = None, !.group = g]
  OBVIOUS
<1>8. n \in Row /\ n.leg = r.leg /\ n.edit = r.edit
  BY <1>3, <1>4, <1>5, <1>6, <1>7 DEF Row, Classes
<1>9. w = [slot |-> s, row |-> n]
  BY <1>1, <1>5, <1>6, <1>7
<1>10. w.slot = s /\ w.row = n /\ w \in Write
  BY <1>2, <1>8, <1>9 DEF Write
<1>11. r.edit = 0 /\ Data[r.leg].counterparty \in wallets
  BY <1>2, <1>5 DEF IsOwnMove, Of
<1> QED
  BY <1>2, <1>5, <1>8, <1>10, <1>11 DEF Rewrites, Of

\* A pair's writes rewrite what was read, under the bridge's key (applyLink()).
LEMMA LinkRewrites ==
  ASSUME NEW ledger \in [Legs -> Row \cup {None}], NEW e \in Isolated(ledger)
  PROVE  /\ Link(ledger, e) \in Links
         /\ \A w \in Link(ledger, e).out \cup Link(ledger, e).in :
              Rewrites(w, ledger) /\ IsBridgeGroup(w.row.group)
<1>1. e \in Stored(ledger) \X Stored(ledger) /\ IsBridgeOut(ledger[e[1]]) /\ IsLinkableIn(ledger[e[2]])
  BY DEF Isolated, Edges
<1>2. PICK s, t \in Stored(ledger) : e[1] = s /\ e[2] = t
  BY <1>1
<1>3. PICK o, i : o = ledger[s] /\ i = ledger[t]
  OBVIOUS
<1>4. s \in Legs /\ t \in Legs /\ o \in Row /\ i \in Row /\ o # None /\ i # None
  BY <1>2, <1>3 DEF Stored
<1>5. o.edit = 0 /\ i.edit = 0
  BY <1>1, <1>2, <1>3 DEF IsBridgeOut, IsLinkableIn
<1>6. PICK g : g = <<"bridge", Data[o.leg].tx>>
  OBVIOUS
<1>7. g \in Groups /\ IsBridgeGroup(g)
  <2>1. o.leg \in Legs
    BY <1>4 DEF Row
  <2>2. g \in Groups
    BY <2>1, <1>6 DEF Groups
  <2>3. g # None
    BY <2>2, LinkingAssumption
  <2> QED
    BY <2>2, <2>3, <1>6 DEF IsBridgeGroup
<1>8. PICK k1 \in {"INTERNAL_TRANSFER", "EXCHANGE"} :
        k1 = IF LinkKind(Of(o), Of(i)) = "transfer" THEN "INTERNAL_TRANSFER" ELSE "EXCHANGE"
  OBVIOUS
<1>9. PICK k2 \in {"INTERNAL_TRANSFER", "RECEIVE"} :
        k2 = IF LinkKind(Of(o), Of(i)) = "transfer" THEN "INTERNAL_TRANSFER" ELSE "RECEIVE"
  OBVIOUS
<1>10. PICK c \in Chains : c = Data[i.leg].chain
  <2>1. i.leg \in Legs
    BY <1>4 DEF Row
  <2> QED
    BY <2>1 DEF Chains
<1>11. PICK out : out = [o EXCEPT !.class = k1, !.group = g, !.dest = c]
  OBVIOUS
<1>12. PICK in : in = [i EXCEPT !.class = k2, !.group = g]
  OBVIOUS
<1>13. out \in Row /\ out.leg = o.leg /\ out.edit = o.edit /\ out.group = g
  BY <1>4, <1>7, <1>11 DEF Row, Classes
<1>14. in \in Row /\ in.leg = i.leg /\ in.edit = i.edit /\ in.group = g
  BY <1>4, <1>7, <1>12 DEF Row, Classes
<1>15. Link(ledger, e) = [out |-> Due(ledger, [slot |-> s, row |-> out]),
                          in |-> Due(ledger, [slot |-> t, row |-> in])]
  BY <1>2, <1>3, <1>6, <1>8, <1>9, <1>10, <1>11, <1>12 DEF Link, Of
<1>16. PICK ws : ws = Due(ledger, [slot |-> s, row |-> out])
  OBVIOUS
<1>17. PICK wt : wt = Due(ledger, [slot |-> t, row |-> in])
  OBVIOUS
<1>18. ws \in SUBSET Write /\ \A w \in ws : w.slot = s /\ w.row = out
  BY <1>4, <1>13, <1>16 DEF Due, Write
<1>19. wt \in SUBSET Write /\ \A w \in wt : w.slot = t /\ w.row = in
  BY <1>4, <1>14, <1>17 DEF Due, Write
<1>20. Link(ledger, e) = [out |-> ws, in |-> wt]
  BY <1>15, <1>16, <1>17
<1>21. Link(ledger, e) \in Links /\ Link(ledger, e).out = ws /\ Link(ledger, e).in = wt
  BY <1>18, <1>19, <1>20 DEF Links
<1> QED
  BY <1>3, <1>4, <1>5, <1>7, <1>13, <1>14, <1>18, <1>19, <1>21 DEF Rewrites

\* A row as unlinkCounterparty() reverts it.
Plain(row) == [row EXCEPT !.class = Normal(row.leg).class, !.group = None, !.dest = None]

\* What unlinkCounterparty() plans for one row it has read.
LEMMA UnlinkRewrites ==
  ASSUME NEW ledger \in [Legs -> Row \cup {None}], NEW s \in Stored(ledger), NEW w,
         ledger[s].edit = 0,
         w = [slot |-> s, row |-> Plain(ledger[s])]
  PROVE  Rewrites(w, ledger) /\ w.slot = s /\ w.row.class # "INTERNAL_TRANSFER"
<1>1. PICK r : r = ledger[s]
  OBVIOUS
<1>2. s \in Legs /\ r \in Row /\ r # None
  BY <1>1 DEF Stored
<1>3. PICK c \in {"SEND", "RECEIVE"} : c = Normal(r.leg).class
  BY DEF Normal
<1>4. PICK n : n = [r EXCEPT !.class = c, !.group = None, !.dest = None]
  OBVIOUS
<1>5. n \in Row /\ n.leg = r.leg /\ n.edit = r.edit /\ n.class = c
  BY <1>2, <1>4 DEF Row, Classes
<1>6. w = [slot |-> s, row |-> n]
  BY <1>1, <1>3, <1>4 DEF Plain
<1>7. w \in Write /\ w.slot = s /\ w.row = n
  BY <1>2, <1>5, <1>6 DEF Write
<1> QED
  BY <1>1, <1>2, <1>3, <1>5, <1>7 DEF Rewrites

\* A rewrite of what is stored now is harmless.
LEMMA RewriteIsHarmless ==
  ASSUME IInv, NEW w, Rewrites(w, rows)
  PROVE  Harmless(w, Excused, edits)
<1>1. w.slot \in Legs /\ w.row \in Row
  BY DEF Rewrites, Write
<1>2. Data[w.slot].transfer = Of(w.row).transfer
  BY <1>1 DEF IInv, Slots, Rewrites, Of
<1>3. ASSUME w.slot \notin Excused PROVE edits[w.slot] = 0
  BY <1>1, <1>3 DEF IInv, Final, EditKept, Rewrites
<1> QED
  BY <1>2, <1>3 DEF Harmless, Rewrites
-----------------------------------------------------------------------------
(* The pass under way.                                                      *)

\* A pass that is not writing has nothing planned.
LEMMA StillIdle ==
  ASSUME NEW st \in {"idle", "walk", "own"}, NEW ws \in SUBSET Wallets, NEW ex, NEW ed,
         NEW sy, sy = [step |-> st, wallets |-> ws, plan |-> {}, in |-> None]
  PROVE  SyncOK(sy, ex, ed) /\ sy.step = st /\ sy.wallets = ws
<1>1. sy \in Sync /\ sy.step = st /\ sy.wallets = ws
  BY DEF Sync, Steps
<1>2. Coming(sy) = {}
  BY <1>1 DEF Coming
<1> QED
  BY <1>1, <1>2 DEF SyncOK

\* A planned write that is done, or has failed.
LEMMA OwnPlanShrinks ==
  ASSUME NEW sy, NEW ex, NEW ed, SyncOK(sy, ex, ed), sy.step = "owning", NEW w,
         NEW sy2, sy2 = [sy EXCEPT !.plan = @ \ {w}]
  PROVE  SyncOK(sy2, ex, ed) /\ sy2.step = "owning" /\ sy2.wallets = sy.wallets
<1>1. /\ sy2 \in Sync /\ sy2.step = "owning" /\ sy2.wallets = sy.wallets
      /\ sy2.plan = sy.plan \ {w}
  BY DEF SyncOK, Sync
<1>2. Coming(sy2) \subseteq Coming(sy) /\ Coming(sy2) = sy2.plan
  BY <1>1 DEF Coming
<1> QED
  BY <1>1, <1>2 DEF SyncOK

\* A pair that was given up.
LEMMA BridgePlanShrinks ==
  ASSUME NEW sy, NEW ex, NEW ed, SyncOK(sy, ex, ed), sy.step = "bridging", NEW l,
         NEW sy2, sy2 = [sy EXCEPT !.plan = @ \ {l}]
  PROVE  SyncOK(sy2, ex, ed) /\ sy2.step = "bridging"
<1>1. sy2 \in Sync /\ sy2.step = "bridging" /\ sy2.plan = sy.plan \ {l}
  BY DEF SyncOK, Sync
<1>2. Coming(sy2) \subseteq Coming(sy)
  BY <1>1 DEF Coming, OfLinks
<1> QED
  BY <1>1, <1>2 DEF SyncOK

\* A pair whose OUT was written.
LEMMA BridgeOutDone ==
  ASSUME NEW sy, NEW ex, NEW ed, SyncOK(sy, ex, ed), sy.step = "bridging", NEW l \in sy.plan,
         NEW sy2, sy2 = [sy EXCEPT !.step = "in", !.plan = @ \ {l}, !.in = l.in]
  PROVE  SyncOK(sy2, ex, ed) /\ sy2.step = "in"
<1>1. l \in Links /\ l.in \in SUBSET Write
  BY DEF SyncOK, Links
<1>2. sy2 \in Sync /\ sy2.step = "in" /\ sy2.plan = sy.plan \ {l} /\ sy2.in = l.in
  BY <1>1 DEF SyncOK, Sync, Steps
<1>3. Coming(sy2) \subseteq Coming(sy)
  BY <1>2 DEF Coming, OfLinks
<1> QED
  BY <1>1, <1>2, <1>3 DEF SyncOK

\* A pair whose IN was written, or failed.
LEMMA BridgeInDone ==
  ASSUME NEW sy, NEW ex, NEW ed, SyncOK(sy, ex, ed), sy.step = "in",
         NEW sy2, sy2 = [sy EXCEPT !.step = "bridging", !.in = None]
  PROVE  SyncOK(sy2, ex, ed) /\ sy2.step = "bridging"
<1>1. sy2 \in Sync /\ sy2.step = "bridging" /\ sy2.plan = sy.plan
  BY DEF SyncOK, Sync, Steps
<1>2. Coming(sy2) \subseteq Coming(sy)
  BY <1>1 DEF Coming
<1> QED
  BY <1>1, <1>2 DEF SyncOK

\* Every write that is still to come is one, with a slot among the legs.
LEMMA ComingAreWrites ==
  ASSUME NEW sy, NEW ex, NEW ed, SyncOK(sy, ex, ed)
  PROVE  Coming(sy) \subseteq Write
<1>1. ASSUME NEW P \in SUBSET Links PROVE OfLinks(P) \subseteq Write
  BY DEF OfLinks, Links
<1>2. CASE sy.step = "owning"
  BY <1>2 DEF SyncOK, Coming
<1>3. CASE sy.step = "bridging"
  BY <1>1, <1>3 DEF SyncOK, Coming
<1>4. CASE sy.step = "in"
  BY <1>1, <1>4 DEF SyncOK, Coming
<1>5. CASE sy.step \notin {"owning", "bridging", "in"}
  BY <1>5 DEF Coming
<1> QED
  BY <1>2, <1>3, <1>4, <1>5

\* Edits elsewhere, edits of excused legs and edits that go leave the plans harmless.
LEMMA PlansStay ==
  ASSUME NEW ex, NEW ed, NEW ex2, NEW ed2, NEW sy, NEW u,
         SyncOK(sy, ex, ed), UnbindOK(u, ex, ed),
         \A w \in Coming(sy) \cup u.plan :
           w.slot \notin ex2 => ed2[w.slot] = 0 \/ (w.slot \notin ex /\ ed2[w.slot] = ed[w.slot])
  PROVE  SyncOK(sy, ex2, ed2) /\ UnbindOK(u, ex2, ed2)
<1>1. \A w \in Coming(sy) \cup u.plan : Harmless(w, ex, ed) => Harmless(w, ex2, ed2)
  BY DEF Harmless
<1>2. SyncOK(sy, ex2, ed2)
  BY <1>1 DEF SyncOK
<1>3. UnbindOK(u, ex2, ed2)
  BY <1>1 DEF UnbindOK
<1> QED
  BY <1>2, <1>3

-----------------------------------------------------------------------------
(* Steps that leave the ledger alone.                                       *)

\* The pass moves on and nothing else changes.
LEMMA SyncMoves ==
  ASSUME IInv, UNCHANGED <<bound, rows, unbind, edits, made, Excused, unproven>>,
         SyncOK(sync', Excused, edits),
         sync'.step \in {"own", "owning"} =>
           \/ sync'.wallets = bound
           \/ sync.step \in {"own", "owning"} /\ sync'.wallets = sync.wallets
  PROVE  IInv'
<1>1. WalletsRead'
  BY DEF IInv, WalletsRead
<1>2. Unlinks'
  BY DEF IInv, Unlinks, Unproven
<1>3. (Types /\ Slots /\ Final)'
  BY DEF IInv, Types, Slots, Final
<1>4. SyncOK(sync, Excused, edits)' /\ UnbindOK(unbind, Excused, edits)'
  BY DEF IInv
<1> QED
  BY <1>1, <1>2, <1>3, <1>4 DEF IInv

LEMMA OnWalk ==
  ASSUME IInv, Walk
  PROVE  IInv'
<1>1. sync' = [step |-> "walk", wallets |-> {}, plan |-> {}, in |-> None]
  BY DEF Walk, Idle
<1>2. SyncOK(sync', Excused, edits) /\ sync'.step = "walk"
  BY <1>1, StillIdle
<1> QED
  BY <1>2, SyncMoves DEF Walk, Excused

LEMMA OnOwnWallets ==
  ASSUME IInv, OwnWallets
  PROVE  IInv'
<1>1. sync' = [step |-> "own", wallets |-> bound, plan |-> {}, in |-> None]
  BY DEF OwnWallets, Idle
<1>2. SyncOK(sync', Excused, edits) /\ sync'.wallets = bound
  BY <1>1, StillIdle DEF IInv, Types
<1> QED
  BY <1>2, SyncMoves DEF OwnWallets, Excused

LEMMA OnSyncStops ==
  ASSUME IInv, SyncEnds \/ LinkingFails
  PROVE  IInv'
<1>1. sync' = [step |-> "idle", wallets |-> {}, plan |-> {}, in |-> None]
  BY DEF SyncEnds, LinkingFails, Idle
<1>2. SyncOK(sync', Excused, edits) /\ sync'.step = "idle"
  BY <1>1, StillIdle
<1> QED
  BY <1>2, SyncMoves DEF SyncEnds, LinkingFails, Excused

LEMMA OnOwnLedger ==
  ASSUME IInv, OwnLedger
  PROVE  IInv'
<1>1. PICK p : p = OwnPlan(rows, sync.wallets)
  OBVIOUS
<1>2. sync \in Sync /\ sync.step = "own" /\ rows \in [Legs -> Row \cup {None}]
  BY DEF IInv, SyncOK, OwnLedger, Types
<1>3. sync.wallets \in SUBSET Wallets
  BY <1>2 DEF Sync
<1>4. \A w \in p : Rewrites(w, rows) /\ Of(w.row).counterparty \in sync.wallets
  BY <1>1, <1>2, <1>3, OwnPlanRewrites
<1>5. \A w \in p : w \in Write /\ Harmless(w, Excused, edits)
  BY <1>4, RewriteIsHarmless DEF Rewrites
<1>6. sync' = [sync EXCEPT !.step = "owning", !.plan = p]
  BY <1>1 DEF OwnLedger
<1>7. /\ sync' \in Sync /\ sync'.step = "owning" /\ sync'.plan = p
      /\ sync'.wallets = sync.wallets
  BY <1>2, <1>5, <1>6 DEF Sync, Steps
<1>8. Coming(sync') = p
  BY <1>7 DEF Coming
<1>9. SyncOK(sync', Excused, edits)
  BY <1>4, <1>5, <1>7, <1>8 DEF SyncOK
<1> QED
  BY <1>2, <1>7, <1>9, SyncMoves DEF OwnLedger, Excused

LEMMA OnBridgeLedger ==
  ASSUME IInv, BridgeLedger
  PROVE  IInv'
<1>1. PICK p : p = BridgePlan(rows)
  OBVIOUS
<1>2. rows \in [Legs -> Row \cup {None}]
  BY DEF IInv, Types
<1>3. \A l \in p : /\ l \in Links
                   /\ \A w \in l.out \cup l.in : Rewrites(w, rows) /\ IsBridgeGroup(w.row.group)
  <2>1. ASSUME NEW l \in p
        PROVE  /\ l \in Links
               /\ \A w \in l.out \cup l.in : Rewrites(w, rows) /\ IsBridgeGroup(w.row.group)
    <3>1. PICK e \in Isolated(rows) : l = Link(rows, e)
      BY <1>1, <2>1 DEF BridgePlan
    <3> QED
      BY <1>2, <3>1, LinkRewrites
  <2> QED
    BY <2>1
<1>4. \A w \in OfLinks(p) : Rewrites(w, rows) /\ IsBridgeGroup(w.row.group)
  BY <1>3 DEF OfLinks
<1>5. sync' = [step |-> "bridging", wallets |-> {}, plan |-> p, in |-> None]
  BY <1>1 DEF BridgeLedger, Idle
<1>6. sync' \in Sync /\ sync'.step = "bridging" /\ sync'.plan = p
  BY <1>3, <1>5 DEF Sync, Steps
<1>7. Coming(sync') = OfLinks(p)
  BY <1>6 DEF Coming
<1>8. \A w \in OfLinks(p) : Harmless(w, Excused, edits)
  BY <1>4, RewriteIsHarmless
<1>9. SyncOK(sync', Excused, edits)
  BY <1>3, <1>4, <1>6, <1>7, <1>8 DEF SyncOK
<1> QED
  BY <1>6, <1>9, SyncMoves DEF BridgeLedger, Excused

LEMMA OnFails ==
  ASSUME IInv,
         \/ \E w \in sync.plan : OwnWriteFails(w) \/ BridgeOutFails(w)
         \/ BridgeInFails
  PROVE  IInv'
<1>1. ASSUME NEW w, OwnWriteFails(w) PROVE IInv'
  <2>1. SyncOK(sync', Excused, edits) /\ sync'.wallets = sync.wallets
    BY <1>1, OwnPlanShrinks DEF IInv, OwnWriteFails
  <2> QED
    BY <1>1, <2>1, SyncMoves DEF OwnWriteFails, Excused
<1>2. ASSUME NEW w, BridgeOutFails(w) PROVE IInv'
  <2>1. SyncOK(sync', Excused, edits) /\ sync'.step = "bridging"
    BY <1>2, BridgePlanShrinks DEF IInv, BridgeOutFails
  <2> QED
    BY <1>2, <2>1, SyncMoves DEF BridgeOutFails, Excused
<1>3. ASSUME BridgeInFails PROVE IInv'
  <2>1. SyncOK(sync', Excused, edits) /\ sync'.step = "bridging"
    BY <1>3, BridgeInDone DEF IInv, BridgeInFails
  <2> QED
    BY <1>3, <2>1, SyncMoves DEF BridgeInFails, Excused
<1> QED
  BY <1>1, <1>2, <1>3
-----------------------------------------------------------------------------
(* Steps that write a row.                                                  *)

\* A harmless write of a row of its transfer: edits are kept, and a row that is written
\* where it was not planned is excused.
LEMMA WriteKeeps ==
  ASSUME IInv, NEW w \in Write, Harmless(w, Excused, edits),
         NEW s \in Legs, rows[s] # None, Data[s].transfer = Of(w.row).transfer,
         rows' = [rows EXCEPT ![s] = w.row], Excused' = Excused \cup ({s} \ {w.slot}),
         UNCHANGED <<bound, edits, made>>, unproven' \in SUBSET Legs
  PROVE  (Types /\ Slots /\ Final)'
<1>1. w.row \in Row /\ w.slot \in Legs
  BY DEF Write
<1>2. Types'
  BY <1>1 DEF IInv, Types
<1>3. rows'[s] = w.row /\ \A t \in Legs : t # s => rows'[t] = rows[t]
  BY DEF IInv, Types
<1>4. Slots'
  BY <1>3 DEF IInv, Slots
<1>5. ASSUME NEW t \in Legs, t \notin Excused' PROVE EditKept(rows'[t], edits'[t])
  <2>1. CASE t # s
    BY <1>3, <1>5, <2>1 DEF IInv, Final
  <2>2. CASE t = s
    <3>1. s = w.slot /\ s \notin Excused
      BY <1>5, <2>2
    <3>2. edits'[t] = 0 /\ w.row.edit = 0
      BY <2>2, <3>1 DEF Harmless
    <3> QED
      BY <1>3, <2>2, <3>2 DEF EditKept
  <2> QED
    BY <2>1, <2>2
<1>6. Final'
  BY <1>5 DEF Final
<1> QED
  BY <1>2, <1>4, <1>6

\* What a bridge write does to the ledger.
LEMMA BridgeWriteEffect ==
  ASSUME IInv, NEW ws \in SUBSET Write, BridgeWrite(ws),
         \A w \in ws : Harmless(w, Excused, edits) /\ IsBridgeGroup(w.row.group),
         UNCHANGED <<bound, unbind, edits, made, exposed, unproven>>
  PROVE  /\ (Types /\ Slots /\ Final /\ Unlinks)'
         /\ Excused \subseteq Excused'
<1>1. CASE UNCHANGED <<rows, Excused>>
  <2>1. (Types /\ Slots /\ Final)'
    BY <1>1 DEF IInv, Types, Slots, Final
  <2>2. Unlinks'
    BY <1>1 DEF IInv, Unlinks, Unproven
  <2> QED
    BY <1>1, <2>1, <2>2
<1>2. CASE \E w \in ws : \E s \in Found(w.row) :
             rows' = [rows EXCEPT ![s] = w.row] /\ Excused' = Excused \cup ({s} \ {w.slot})
  <2>0. PICK w \in ws : \E s \in Found(w.row) :
             rows' = [rows EXCEPT ![s] = w.row] /\ Excused' = Excused \cup ({s} \ {w.slot})
    BY <1>2
  <2>1. PICK s \in Found(w.row) :
             rows' = [rows EXCEPT ![s] = w.row] /\ Excused' = Excused \cup ({s} \ {w.slot})
    BY <2>0
  <2>2. s \in Legs /\ rows[s] # None /\ Of(rows[s]).transfer = Of(w.row).transfer
    BY <2>1 DEF Found, Stored
  <2>3. Data[s].transfer = Of(w.row).transfer
    BY <2>2 DEF IInv, Slots
  <2>4. w \in Write /\ Harmless(w, Excused, edits) /\ unproven' \in SUBSET Legs
    BY <2>1 DEF IInv, Types
  <2>5. (Types /\ Slots /\ Final)'
    BY <2>1, <2>2, <2>3, <2>4, WriteKeeps
  <2>6. rows'[s] = w.row /\ \A t \in Legs : t # s => rows'[t] = rows[t]
    BY <2>1, <2>2 DEF IInv, Types
  <2>7. ASSUME NEW t \in Legs, Unproven(t)'
        PROVE  /\ t # s /\ Unproven(t) /\ rows'[t] = rows[t]
    <3>1. t # s
      BY <2>6, <2>7 DEF Unproven, Move
    <3> QED
      BY <2>6, <2>7, <3>1 DEF Unproven
  <2>8. Unlinks'
    BY <2>7 DEF IInv, Unlinks
  <2> QED
    BY <2>1, <2>5, <2>8
<1> QED
  BY <1>1, <1>2 DEF BridgeWrite, Excused

\* The plans stay harmless when only the excused legs grow.
LEMMA ExcusedGrows ==
  ASSUME NEW ex, NEW ed, NEW ex2, NEW sy, NEW u,
         SyncOK(sy, ex, ed), UnbindOK(u, ex, ed), ex \subseteq ex2
  PROVE  SyncOK(sy, ex2, ed) /\ UnbindOK(u, ex2, ed)
BY PlansStay

LEMMA OnBridgeOut ==
  ASSUME IInv, NEW l \in sync.plan, BridgeOut(l)
  PROVE  IInv'
<1>1. sync.step = "bridging" /\ l \in Links /\ l.out \in SUBSET Write /\ l.out \subseteq Coming(sync)
  BY DEF IInv, SyncOK, BridgeOut, Links, Coming, OfLinks
<1>2. \A w \in l.out : Harmless(w, Excused, edits) /\ IsBridgeGroup(w.row.group)
  BY <1>1 DEF IInv, SyncOK
<1>3. (Types /\ Slots /\ Final /\ Unlinks)' /\ Excused \subseteq Excused'
  BY <1>1, <1>2, BridgeWriteEffect DEF BridgeOut
<1>4. SyncOK(sync', Excused, edits) /\ sync'.step = "in"
  BY <1>1, BridgeOutDone DEF IInv, BridgeOut
<1>5. SyncOK(sync', Excused', edits) /\ UnbindOK(unbind, Excused', edits)
  BY <1>3, <1>4, ExcusedGrows DEF IInv
<1>6. SyncOK(sync, Excused, edits)' /\ UnbindOK(unbind, Excused, edits)'
  BY <1>5 DEF BridgeOut
<1> QED
  BY <1>3, <1>4, <1>6 DEF IInv, WalletsRead

LEMMA OnBridgeIn ==
  ASSUME IInv, BridgeIn
  PROVE  IInv'
<1>1. sync.step = "in" /\ sync.in \in SUBSET Write /\ sync.in \subseteq Coming(sync)
  BY DEF IInv, SyncOK, BridgeIn, Coming
<1>2. \A w \in sync.in : Harmless(w, Excused, edits) /\ IsBridgeGroup(w.row.group)
  BY <1>1 DEF IInv, SyncOK
<1>3. (Types /\ Slots /\ Final /\ Unlinks)' /\ Excused \subseteq Excused'
  BY <1>1, <1>2, BridgeWriteEffect DEF BridgeIn
<1>4. SyncOK(sync', Excused, edits) /\ sync'.step = "bridging"
  BY <1>1, BridgeInDone DEF IInv, BridgeIn
<1>5. SyncOK(sync', Excused', edits) /\ UnbindOK(unbind, Excused', edits)
  BY <1>3, <1>4, ExcusedGrows DEF IInv
<1>6. SyncOK(sync, Excused, edits)' /\ UnbindOK(unbind, Excused, edits)'
  BY <1>5 DEF BridgeIn
<1> QED
  BY <1>3, <1>4, <1>6 DEF IInv, WalletsRead

\* What updatePayload() by storage id does to the ledger.
LEMMA StoreEffect ==
  ASSUME IInv, NEW w \in Write, Harmless(w, Excused, edits), rows' = Store(w.slot, w.row),
         UNCHANGED <<bound, edits, made, Excused, unproven>>
  PROVE  /\ (Types /\ Slots /\ Final)'
         /\ \A t \in Legs : /\ t # w.slot => rows'[t] = rows[t]
                            /\ rows[t] = None => rows'[t] = None
         /\ rows[w.slot] # None => rows'[w.slot] = w.row
<1>0. w.slot \in Legs /\ w.row \in Row
  BY DEF Write
<1>1. CASE rows[w.slot] = None
  <2>1. rows' = rows
    BY <1>1 DEF Store
  <2> QED
    BY <1>1, <2>1 DEF IInv, Types, Slots, Final
<1>2. CASE rows[w.slot] # None
  <2>1. rows' = [rows EXCEPT ![w.slot] = w.row]
    BY <1>2 DEF Store
  <2>2. Excused' = Excused \cup ({w.slot} \ {w.slot}) /\ unproven' \in SUBSET Legs
    BY DEF IInv, Types
  <2>3. Data[w.slot].transfer = Of(w.row).transfer
    BY DEF Harmless
  <2>4. (Types /\ Slots /\ Final)'
    BY <1>0, <1>2, <2>1, <2>2, <2>3, WriteKeeps
  <2> QED
    BY <1>0, <1>2, <2>1, <2>4 DEF IInv, Types
<1> QED
  BY <1>1, <1>2

\* The own-wallet pass: a wallet it has read is bound, or its legs are unproven.
LEMMA OnOwnWrite ==
  ASSUME IInv, NEW w \in sync.plan, OwnWrite(w)
  PROVE  IInv'
<1>1. /\ sync.step = "owning" /\ w \in Write /\ Harmless(w, Excused, edits)
      /\ Of(w.row).counterparty \in sync.wallets
  BY DEF IInv, SyncOK, OwnWrite, Coming
<1>2. /\ (Types /\ Slots /\ Final)'
      /\ \A t \in Legs : /\ t # w.slot => rows'[t] = rows[t]
                         /\ rows[t] = None => rows'[t] = None
      /\ rows[w.slot] # None => rows'[w.slot] = w.row
  BY <1>1, StoreEffect DEF OwnWrite, Excused
<1>3. SyncOK(sync', Excused, edits) /\ sync'.step = "owning" /\ sync'.wallets = sync.wallets
  BY <1>1, OwnPlanShrinks DEF IInv, OwnWrite
<1>4. SyncOK(sync, Excused, edits)' /\ UnbindOK(unbind, Excused, edits)'
  BY <1>3 DEF IInv, OwnWrite, Excused
<1>5. WalletsRead'
  BY <1>1, <1>2, <1>3 DEF IInv, WalletsRead, OwnWrite
<1>6. ASSUME NEW t \in Legs, Unproven(t)'
      PROVE  Unproven(t) /\ rows'[t] = rows[t]
  <2>1. CASE t # w.slot
    BY <1>2, <1>6, <2>1 DEF Unproven, OwnWrite
  <2>2. CASE t = w.slot
    <3>1. rows[t] # None /\ rows'[t] = w.row
      BY <1>2, <1>6, <2>2 DEF Unproven
    <3>2. Of(w.row).counterparty \in sync.wallets \ bound /\ t \notin unproven
      BY <1>1, <1>6, <3>1 DEF Unproven, OwnWrite
    <3>3. w.row.leg \in Legs /\ Data[t].transfer = Data[w.row.leg].transfer
      BY <1>1, <2>2 DEF Write, Row, Harmless, Of
    <3>4. Data[t].wallet \in bound
      BY <3>1 DEF IInv, Slots
    <3>5. t = w.row.leg
      BY <3>2, <3>3, <3>4, TransferAssumption DEF Of
    <3> QED
      BY <1>1, <3>1, <3>2, <3>5 DEF IInv, WalletsRead, Of
  <2> QED
    BY <2>1, <2>2
<1>7. Unlinks'
  BY <1>6 DEF IInv, Unlinks, OwnWrite
<1> QED
  BY <1>2, <1>4, <1>5, <1>7 DEF IInv
-----------------------------------------------------------------------------
(* The walk and the user.                                                   *)

\* What mergeSavedPayload() keeps of a stored row.
LEMMA MergeFacts ==
  ASSUME NEW l \in Legs, NEW old \in Row \cup {None}
  PROVE  LET r == Merge(old, Normal(l)) IN
         /\ r \in Row /\ r # None /\ r.leg = l
         /\ r.edit = IF old = None THEN 0 ELSE old.edit
         /\ old # None /\ old.edit > 0 => r.class = old.class
         /\ ~Move(r)
<1> DEFINE r == Merge(old, Normal(l))
<1>1. PICK n : n = Normal(l)
  OBVIOUS
<1>2. /\ n \in Row /\ n.leg = l /\ n.edit = 0 /\ n.class \in {"SEND", "RECEIVE"}
  BY <1>1 DEF Normal, Row, Classes
<1>3. CASE old = None
  <2>1. r = n
    BY <1>1, <1>3 DEF Merge
  <2> HIDE DEF r
  <2>2. r # None
    BY <1>2, <2>1, LinkingAssumption
  <2> QED
    BY <1>2, <1>3, <2>1, <2>2 DEF Move, r
<1>4. CASE old # None
  <2>0. old \in Row /\ old.edit \in Nat /\ old.class \in Classes
    BY <1>4 DEF Row
  <2>1. PICK c : c = IF old.edit > 0 THEN old.class ELSE n.class
    OBVIOUS
  <2>2. r = [n EXCEPT !.edit = old.edit, !.class = c]
    BY <1>1, <1>4, <2>1 DEF Merge
  <2> HIDE DEF r
  <2>3. c \in Classes
    BY <1>2, <2>0, <2>1 DEF Classes
  <2>4. r \in Row /\ r.leg = l /\ r.edit = old.edit /\ r.class = c
    BY <1>2, <2>0, <2>2, <2>3 DEF Row
  <2>5. r # None
    BY <2>4, LinkingAssumption
  <2>6. ~Move(r)
    BY <1>2, <2>0, <2>1, <2>4 DEF Move
  <2> QED
    BY <1>4, <2>1, <2>4, <2>5, <2>6 DEF r
<1> QED
  BY <1>3, <1>4

LEMMA OnIndex ==
  ASSUME IInv, NEW l \in Legs, Index(l)
  PROVE  IInv'
<1>1. PICK r : r = Merge(rows[l], Normal(l))
  OBVIOUS
<1>2. rows[l] \in Row \cup {None}
  BY DEF IInv, Types
<1>3. /\ r \in Row /\ r # None /\ r.leg = l
      /\ r.edit = IF rows[l] = None THEN 0 ELSE rows[l].edit
      /\ rows[l] # None /\ rows[l].edit > 0 => r.class = rows[l].class
      /\ ~Move(r)
  BY <1>1, <1>2, MergeFacts
<1>4. rows' = [rows EXCEPT ![l] = r]
  BY <1>1 DEF Index
<1>5. rows'[l] = r /\ \A t \in Legs : t # l => rows'[t] = rows[t]
  BY <1>4 DEF IInv, Types
<1>6. Types'
  BY <1>3, <1>4 DEF IInv, Types, Index, Excused
<1>7. Slots'
  BY <1>3, <1>5 DEF IInv, Slots, Index, Of
<1>8. ASSUME NEW t \in Legs, t \notin Excused' PROVE EditKept(rows'[t], edits'[t])
  <2>1. EditKept(rows[t], edits[t]) /\ edits'[t] = edits[t]
    BY <1>8 DEF IInv, Final, Index, Excused
  <2>2. CASE t # l
    BY <1>5, <2>1, <2>2
  <2>3. CASE t = l
    BY <1>2, <1>3, <1>5, <2>1, <2>3 DEF EditKept
  <2> QED
    BY <2>2, <2>3
<1>9. Final'
  BY <1>8 DEF Final
<1>10. ASSUME NEW t \in Legs, Unproven(t)' PROVE Unproven(t) /\ rows'[t] = rows[t]
  <2>1. t # l
    BY <1>3, <1>5, <1>10 DEF Unproven
  <2> QED
    BY <1>5, <1>10, <2>1 DEF Unproven, Index
<1>11. Unlinks'
  BY <1>10 DEF IInv, Unlinks, Index
<1>12. WalletsRead'
  BY DEF WalletsRead, Index
<1>13. SyncOK(sync, Excused, edits)' /\ UnbindOK(unbind, Excused, edits)'
  BY DEF IInv, Index, Excused
<1> QED
  BY <1>6, <1>7, <1>9, <1>11, <1>12, <1>13 DEF IInv

\* Planned is the slots of what is still to come.
LEMMA PlannedIsComing ==
  ASSUME IInv
  PROVE  Planned = {w.slot : w \in Coming(sync)}
<1>1. CASE sync.step \in {"owning", "bridging", "in"}
  BY <1>1 DEF Planned, Coming, OfLinks
<1>2. CASE sync.step \notin {"owning", "bridging", "in"}
  BY <1>2 DEF Planned, Coming
<1> QED
  BY <1>1, <1>2

\* The row an edit leaves.
LEMMA EditedRow ==
  ASSUME NEW r \in Row, NEW n \in Nat
  PROVE  LET q == [[r EXCEPT !.class = "EDITED"] EXCEPT !.edit = n] IN
         q \in Row /\ q.leg = r.leg /\ q.edit = n /\ q.class = "EDITED"
<1>1. PICK p : p = [r EXCEPT !.class = "EDITED"]
  OBVIOUS
<1>2. p \in Row /\ p.leg = r.leg /\ p.class = "EDITED"
  BY <1>1 DEF Row, Classes
<1>3. PICK q : q = [p EXCEPT !.edit = n]
  OBVIOUS
<1>4. q \in Row /\ q.leg = p.leg /\ q.edit = n /\ q.class = p.class
  BY <1>2, <1>3 DEF Row, Classes
<1>5. q = [[r EXCEPT !.class = "EDITED"] EXCEPT !.edit = n]
  BY <1>1, <1>3
<1> QED
  BY <1>2, <1>4, <1>5

LEMMA OnEdit ==
  ASSUME IInv, NEW l \in Legs, Edit(l)
  PROVE  IInv'
<1>1. rows[l] # None /\ rows[l] \in Row /\ made + 1 \in Nat /\ made + 1 > 0
  BY DEF IInv, Types, Edit
<1>2. PICK r : r = [[rows[l] EXCEPT !.class = "EDITED"] EXCEPT !.edit = made + 1]
  OBVIOUS
<1>3. r \in Row /\ r.leg = rows[l].leg /\ r.edit = made + 1 /\ r.class = "EDITED"
  BY <1>1, <1>2, EditedRow
<1>4. rows' = [rows EXCEPT ![l] = r]
  <2>1. rows' = [[rows EXCEPT ![l] = [rows[l] EXCEPT !.class = "EDITED"]]
                   EXCEPT ![l] = [([rows EXCEPT ![l] = [rows[l] EXCEPT !.class = "EDITED"]])[l]
                                    EXCEPT !.edit = made + 1]]
    BY DEF Edit
  <2>2. PICK p : p = [rows[l] EXCEPT !.class = "EDITED"]
    OBVIOUS
  <2>3. rows' = [[rows EXCEPT ![l] = p] EXCEPT ![l] = [([rows EXCEPT ![l] = p])[l] EXCEPT !.edit = made + 1]]
    BY <2>1, <2>2
  <2>4. ([rows EXCEPT ![l] = p])[l] = p
    BY DEF IInv, Types
  <2>5. rows' = [[rows EXCEPT ![l] = p] EXCEPT ![l] = [p EXCEPT !.edit = made + 1]]
    BY <2>3, <2>4
  <2>6. r = [p EXCEPT !.edit = made + 1]
    BY <1>2, <2>2
  <2>7. rows' = [[rows EXCEPT ![l] = p] EXCEPT ![l] = r]
    BY <2>5, <2>6
  <2> QED
    BY <2>7 DEF IInv, Types
<1>5. rows'[l] = r /\ \A t \in Legs : t # l => rows'[t] = rows[t]
  BY <1>4 DEF IInv, Types
<1>6. edits' = [edits EXCEPT ![l] = made + 1] /\ edits \in [Legs -> Nat]
  BY DEF Edit, IInv, Types
<1>7. r # None
  BY <1>3, LinkingAssumption
<1>8. Excused \subseteq Excused' /\ Excused' \in SUBSET Legs
  BY DEF Edit, IInv, Types, Excused
<1>9. Types'
  BY <1>1, <1>3, <1>4, <1>6, <1>8 DEF IInv, Types, Edit
<1>10. Slots'
  BY <1>1, <1>3, <1>5 DEF IInv, Slots, Edit, Of
<1>11. ASSUME NEW t \in Legs, t \notin Excused' PROVE EditKept(rows'[t], edits'[t])
  <2>1. CASE t # l
    BY <1>5, <1>6, <1>8, <1>11, <2>1 DEF IInv, Final
  <2>2. CASE t = l
    BY <1>3, <1>5, <1>6, <1>7, <2>2 DEF EditKept
  <2> QED
    BY <2>1, <2>2
<1>12. Final'
  BY <1>11 DEF Final
<1>13. ASSUME NEW t \in Legs, Unproven(t)' PROVE Unproven(t) /\ rows'[t] = rows[t]
  <2>1. t # l
    BY <1>1, <1>3, <1>5, <1>13 DEF Unproven, Move
  <2>2. bound' = bound /\ unproven' = unproven
    BY DEF Edit
  <2> QED
    BY <1>5, <1>13, <2>1, <2>2 DEF Unproven
<1>14. Unlinks'
  BY <1>13 DEF IInv, Unlinks, Edit
<1>15. WalletsRead'
  BY <1>1, <1>5 DEF IInv, WalletsRead, Edit
<1>16. ASSUME NEW w \in Coming(sync) \cup unbind.plan, w.slot \notin Excused'
       PROVE  w.slot \notin Excused /\ edits'[w.slot] = edits[w.slot]
  <2>1. w.slot \in Legs
    BY ComingAreWrites DEF IInv, UnbindOK, Unbinding, Write
  <2>2. w.slot # l
    BY <1>16, PlannedIsComing DEF Edit, Excused
  <2> QED
    BY <1>6, <1>8, <1>16, <2>1, <2>2
<1>17. SyncOK(sync, Excused', edits') /\ UnbindOK(unbind, Excused', edits')
  BY <1>16, PlansStay DEF IInv
<1>18. SyncOK(sync, Excused, edits)' /\ UnbindOK(unbind, Excused, edits)'
  BY <1>17 DEF Edit
<1> QED
  BY <1>9, <1>10, <1>12, <1>14, <1>15, <1>18 DEF IInv

LEMMA OnBind ==
  ASSUME IInv, NEW w \in Wallets, Bind(w)
  PROVE  IInv'
<1>1. (Types /\ Slots /\ Final)'
  BY DEF IInv, Types, Slots, Final, Bind, Excused
<1>2. WalletsRead'
  BY DEF IInv, WalletsRead, Bind
<1>3. \A t \in Legs : Unproven(t)' => Unproven(t)
  BY DEF Unproven, Bind
<1>4. Unlinks'
  BY <1>3 DEF IInv, Unlinks, Bind
<1>5. SyncOK(sync, Excused, edits)' /\ UnbindOK(unbind, Excused, edits)'
  BY DEF IInv, Bind, Excused
<1> QED
  BY <1>1, <1>2, <1>4, <1>5 DEF IInv
\* unbind(): what rested on the wallet is left to unlinkCounterparty(), or to a pass that
\* had read the bindings.
LEMMA OnUnbind ==
  ASSUME IInv, NEW w \in Wallets, Unbind(w)
  PROVE  IInv'
<1> DEFINE mine == {l \in Legs : Data[l].wallet = w}
           other == {l \in Legs : Data[l].counterparty = w}
<1>1. /\ unbind.step = "idle" /\ w \in bound /\ bound' = bound \ {w}
      /\ rows' = [l \in Legs |-> IF l \in mine THEN None ELSE rows[l]]
      /\ edits' = [l \in Legs |-> IF l \in mine THEN 0 ELSE edits[l]]
      /\ unbind' = [step |-> "read", wallet |-> w, plan |-> {}]
      /\ Excused' = Excused \ mine
      /\ unproven' = (unproven \ mine) \cup
           IF sync.step \in {"own", "owning"} /\ w \in sync.wallets THEN other ELSE {}
      /\ UNCHANGED <<sync, made>>
  BY DEF Unbind, Excused
<1>2. \A l \in Legs : /\ l \in mine => rows'[l] = None /\ edits'[l] = 0
                      /\ l \notin mine => rows'[l] = rows[l] /\ edits'[l] = edits[l]
  BY <1>1
<1>3. Types'
  <2>1. rows' \in [Legs -> Row \cup {None}] /\ edits' \in [Legs -> Nat]
    BY <1>1 DEF IInv, Types
  <2> QED
    BY <1>1, <2>1 DEF IInv, Types
<1>4. Slots'
  BY <1>1, <1>2 DEF IInv, Slots
<1>5. ASSUME NEW t \in Legs, t \notin Excused' PROVE EditKept(rows'[t], edits'[t])
  BY <1>1, <1>2, <1>5 DEF IInv, Final, EditKept
<1>6. Final'
  BY <1>5 DEF Final
<1>7. WalletsRead'
  BY <1>1, <1>2 DEF IInv, WalletsRead
<1>8. unbind' \in Unbinding /\ unbind'.step = "read" /\ unbind'.wallet = w /\ unbind'.plan = {}
  BY <1>1 DEF Unbinding
<1>9. ASSUME NEW t \in Legs, Unproven(t)' PROVE Of(rows'[t]).counterparty = w
  <2>1. t \notin mine /\ rows'[t] = rows[t]
    BY <1>2, <1>9 DEF Unproven
  <2>2. ~Unproven(t)
    BY <1>1 DEF IInv, Unlinks
  <2>3. Move(rows[t]) /\ rows[t] # None /\ t \notin unproven /\ Of(rows[t]).counterparty \notin bound'
    BY <1>1, <1>9, <2>1 DEF Unproven
  <2>4. Of(rows[t]).counterparty \in bound
    BY <2>2, <2>3 DEF Unproven
  <2> QED
    BY <1>1, <2>1, <2>3, <2>4
<1>10. Unlinks'
  BY <1>8, <1>9 DEF Unlinks
<1>11. \A v \in Coming(sync) : v.slot \notin Excused' =>
         edits'[v.slot] = 0 \/ (v.slot \notin Excused /\ edits'[v.slot] = edits[v.slot])
  <2>1. \A v \in Coming(sync) : v.slot \in Legs
    BY ComingAreWrites DEF IInv, Write
  <2> QED
    BY <1>1, <1>2, <2>1
<1>12. \A v \in unbind.plan : FALSE
  BY <1>1 DEF IInv, UnbindOK
<1>13. SyncOK(sync, Excused', edits')
  BY <1>11, <1>12, PlansStay DEF IInv
<1>14. SyncOK(sync, Excused, edits)'
  BY <1>1, <1>13
<1>15. UnbindOK(unbind, Excused, edits)'
  BY <1>8, LinkingAssumption DEF UnbindOK
<1> QED
  BY <1>3, <1>4, <1>6, <1>7, <1>10, <1>14, <1>15 DEF IInv

-----------------------------------------------------------------------------
(* unlinkCounterparty().                                                    *)

\* The unbind moves on, and marks what it leaves.
LEMMA UnbindMoves ==
  ASSUME IInv, UNCHANGED <<bound, rows, sync, edits, made, Excused>>,
         UnbindOK(unbind', Excused, edits), unproven \subseteq unproven',
         unproven' \in SUBSET Legs, Unlinks'
  PROVE  IInv'
<1>1. (Types /\ Slots /\ Final)'
  BY DEF IInv, Types, Slots, Final
<1>2. WalletsRead'
  BY DEF IInv, WalletsRead
<1>3. SyncOK(sync, Excused, edits)' /\ UnbindOK(unbind, Excused, edits)'
  BY DEF IInv
<1> QED
  BY <1>1, <1>2, <1>3 DEF IInv

\* Every row left without proof is one unlinkCounterparty() finds.
LEMMA OnUnlinkLedger ==
  ASSUME IInv, UnlinkLedger
  PROVE  IInv'
<1> DEFINE found == {s \in Stored(rows) : Claimed(rows[s], unbind.wallet)}
           write(s) == [slot |-> s, row |-> Plain(rows[s])]
<1>1. PICK p : p = {write(s) : s \in found}
  OBVIOUS
<1>2. unbind' = [unbind EXCEPT !.step = "write", !.plan = p] /\ unbind.step = "read"
  BY <1>1 DEF UnlinkLedger, Plain
<1>3. ASSUME NEW s \in found
      PROVE  Rewrites(write(s), rows) /\ write(s).slot = s /\ write(s).row.class # "INTERNAL_TRANSFER"
  <2>1. s \in Stored(rows) /\ rows[s].edit = 0 /\ rows \in [Legs -> Row \cup {None}]
    BY <1>3 DEF Claimed, IInv, Types
  <2> QED
    BY <2>1, UnlinkRewrites
<1> HIDE DEF write
<1>4. \A v \in p : Rewrites(v, rows) /\ v.row.class # "INTERNAL_TRANSFER" /\ v \in Write
  BY <1>1, <1>3 DEF Rewrites
<1>5. \A v \in p : Harmless(v, Excused, edits)
  BY <1>4, RewriteIsHarmless
<1>6. unbind \in Unbinding /\ unbind.wallet # None
  BY <1>2 DEF IInv, UnbindOK
<1>7. /\ unbind' \in Unbinding /\ unbind'.step = "write" /\ unbind'.plan = p
      /\ unbind'.wallet = unbind.wallet
  BY <1>2, <1>4, <1>6 DEF Unbinding
<1>8. UnbindOK(unbind', Excused, edits)
  BY <1>4, <1>5, <1>6, <1>7 DEF UnbindOK
<1>9. ASSUME NEW t \in Legs, Unproven(t)'
      PROVE  Of(rows[t]).counterparty = unbind.wallet /\ \E v \in p : v.slot = t
  <2>1. Unproven(t)
    BY <1>9 DEF Unproven, UnlinkLedger
  <2>2. Of(rows[t]).counterparty = unbind.wallet
    BY <2>1 DEF IInv, Unlinks
  <2>3. t \in found
    BY <2>1, <2>2 DEF Unproven, Move, Claimed, Stored
  <2> QED
    BY <1>1, <1>3, <2>2, <2>3
<1>10. rows' = rows
  BY DEF UnlinkLedger
<1>11. Unlinks'
  BY <1>7, <1>9, <1>10 DEF Unlinks
<1> QED
  BY <1>8, <1>11, UnbindMoves DEF UnlinkLedger, IInv, Types, Excused

\* A write of the unbind that is done, or has failed.
LEMMA UnlinkPlanShrinks ==
  ASSUME NEW u, NEW ex, NEW ed, UnbindOK(u, ex, ed), NEW w, NEW u2, u2 = [u EXCEPT !.plan = @ \ {w}]
  PROVE  UnbindOK(u2, ex, ed) /\ u2.step = u.step /\ u2.wallet = u.wallet /\ u2.plan = u.plan \ {w}
<1>1. u2 \in Unbinding /\ u2.step = u.step /\ u2.wallet = u.wallet /\ u2.plan = u.plan \ {w}
  BY DEF UnbindOK, Unbinding
<1> QED
  BY <1>1 DEF UnbindOK

LEMMA OnUnlinkWrite ==
  ASSUME IInv, NEW w \in unbind.plan, UnlinkWrite(w)
  PROVE  IInv'
<1>1. w \in Write /\ Harmless(w, Excused, edits) /\ w.row.class # "INTERNAL_TRANSFER"
  BY DEF IInv, UnbindOK, Unbinding
<1>2. /\ (Types /\ Slots /\ Final)'
      /\ \A t \in Legs : /\ t # w.slot => rows'[t] = rows[t]
                         /\ rows[t] = None => rows'[t] = None
      /\ rows[w.slot] # None => rows'[w.slot] = w.row
  BY <1>1, StoreEffect DEF UnlinkWrite, Excused
<1>3. /\ UnbindOK(unbind', Excused, edits) /\ unbind'.step = unbind.step
      /\ unbind'.wallet = unbind.wallet /\ unbind'.plan = unbind.plan \ {w}
  BY UnlinkPlanShrinks DEF IInv, UnlinkWrite
<1>4. SyncOK(sync, Excused, edits)' /\ UnbindOK(unbind, Excused, edits)'
  BY <1>3 DEF IInv, UnlinkWrite, Excused
<1>5. WalletsRead'
  BY <1>2 DEF IInv, WalletsRead, UnlinkWrite
<1>6. ASSUME NEW t \in Legs, Unproven(t)'
      PROVE  Unproven(t) /\ rows'[t] = rows[t] /\ t # w.slot
  <2>1. t # w.slot
    BY <1>1, <1>2, <1>6 DEF Unproven, Move
  <2> QED
    BY <1>2, <1>6, <2>1 DEF Unproven, UnlinkWrite
<1>7. ASSUME NEW t \in Legs, Unproven(t)'
      PROVE  /\ unbind'.step # "idle" /\ Of(rows'[t]).counterparty = unbind'.wallet
             /\ unbind'.step = "write" => \E v \in unbind'.plan : v.slot = t
  BY <1>3, <1>6, <1>7 DEF IInv, Unlinks
<1>8. Unlinks'
  BY <1>7 DEF Unlinks
<1> QED
  BY <1>2, <1>4, <1>5, <1>8 DEF IInv

LEMMA OnUnlinkWriteFails ==
  ASSUME IInv, NEW w \in unbind.plan, UnlinkWriteFails(w)
  PROVE  IInv'
<1>1. w.slot \in Legs
  BY DEF IInv, UnbindOK, Unbinding, Write
<1>2. /\ UnbindOK(unbind', Excused, edits) /\ unbind'.step = unbind.step
      /\ unbind'.wallet = unbind.wallet /\ unbind'.plan = unbind.plan \ {w}
  BY UnlinkPlanShrinks DEF IInv, UnlinkWriteFails
<1>3. ASSUME NEW t \in Legs, Unproven(t)'
      PROVE  Unproven(t) /\ rows'[t] = rows[t] /\ t # w.slot
  BY <1>3 DEF Unproven, UnlinkWriteFails
<1>4. ASSUME NEW t \in Legs, Unproven(t)'
      PROVE  /\ unbind'.step # "idle" /\ Of(rows'[t]).counterparty = unbind'.wallet
             /\ unbind'.step = "write" => \E v \in unbind'.plan : v.slot = t
  BY <1>2, <1>3, <1>4 DEF IInv, Unlinks
<1>5. Unlinks'
  BY <1>4 DEF Unlinks
<1>6. unproven \subseteq unproven' /\ unproven' \in SUBSET Legs
  BY <1>1 DEF UnlinkWriteFails, IInv, Types
<1> QED
  BY <1>2, <1>5, <1>6, UnbindMoves DEF UnlinkWriteFails, Excused

\* Nothing is left without proof once the unbind is over.
LEMMA OnUnbindStops ==
  ASSUME IInv, UnlinkStops \/ UnbindEnds
  PROVE  IInv'
<1>1. unbind' = [step |-> "idle", wallet |-> None, plan |-> {}]
  BY DEF UnlinkStops, UnbindEnds, Rest
<1>2. unbind' \in Unbinding /\ unbind'.step = "idle" /\ unbind'.wallet = None /\ unbind'.plan = {}
  BY <1>1 DEF Unbinding
<1>3. UnbindOK(unbind', Excused, edits)
  BY <1>2 DEF UnbindOK
<1>4. rows' = rows /\ bound' = bound /\ unproven \subseteq unproven' /\ unproven' \in SUBSET Legs
  BY DEF UnlinkStops, UnbindEnds, IInv, Types
<1>5. ASSUME NEW t \in Legs, Unproven(t)' PROVE FALSE
  <2>1. Unproven(t)
    BY <1>4, <1>5 DEF Unproven
  <2>2. Of(rows[t]).counterparty = unbind.wallet
    BY <2>1 DEF IInv, Unlinks
  <2>3. CASE UnlinkStops
    <3>1. rows[t].leg \in Legs /\ rows[t] # None
      BY <2>1 DEF Unproven, IInv, Types, Row
    <3>2. Data[t].transfer = Data[rows[t].leg].transfer /\ Data[t].wallet \in bound
      BY <3>1 DEF IInv, Slots, Of
    <3>3. t = rows[t].leg
      BY <2>1, <3>1, <3>2, TransferAssumption DEF Unproven, Of
    <3>4. t \in unproven'
      BY <2>2, <2>3, <3>3 DEF UnlinkStops, Of
    <3> QED
      BY <1>5, <3>4 DEF Unproven
  <2>4. CASE UnbindEnds
    BY <2>1, <2>4 DEF IInv, Unlinks, UnbindEnds
  <2> QED
    BY <2>3, <2>4
<1>6. Unlinks'
  BY <1>5 DEF Unlinks
<1> QED
  BY <1>3, <1>4, <1>6, UnbindMoves DEF UnlinkStops, UnbindEnds, Excused

-----------------------------------------------------------------------------
(* The theorems.                                                            *)

LEMMA Initially == Init => IInv
<1> SUFFICES ASSUME Init PROVE IInv
  OBVIOUS
<1>1. Types /\ Slots /\ Final
  BY DEF Init, Types, Slots, Final, EditKept, Excused
<1>2. sync = [step |-> "idle", wallets |-> {}, plan |-> {}, in |-> None]
  BY DEF Init, Idle
<1>3. SyncOK(sync, Excused, edits) /\ sync.step = "idle"
  BY <1>2, StillIdle
<1>4. unbind \in Unbinding /\ unbind.step = "idle" /\ unbind.wallet = None /\ unbind.plan = {}
  BY DEF Init, Rest, Unbinding
<1>5. UnbindOK(unbind, Excused, edits)
  BY <1>4 DEF UnbindOK
<1>6. WalletsRead
  BY <1>3 DEF WalletsRead
<1>7. Unlinks
  BY DEF Unlinks, Unproven, Init
<1> QED
  BY <1>1, <1>3, <1>5, <1>6, <1>7 DEF IInv

LEMMA Inductive == IInv /\ [Next]_vars => IInv'
<1> SUFFICES ASSUME IInv, [Next]_vars PROVE IInv'
  OBVIOUS
<1>1. CASE UNCHANGED vars
  <2>1. UNCHANGED <<bound, rows, unbind, edits, made, Excused, unproven>> /\ sync' = sync
    BY <1>1 DEF vars, Excused
  <2>2. SyncOK(sync', Excused, edits)
    BY <2>1 DEF IInv
  <2> QED
    BY <2>1, <2>2, SyncMoves
<1>2. CASE \/ Walk \/ OwnWallets \/ OwnLedger \/ BridgeLedger \/ BridgeIn \/ BridgeInFails
           \/ SyncEnds \/ LinkingFails
  BY <1>2, OnWalk, OnOwnWallets, OnOwnLedger, OnBridgeLedger, OnBridgeIn, OnFails, OnSyncStops
<1>3. CASE UnlinkLedger \/ UnlinkStops \/ UnbindEnds
  BY <1>3, OnUnlinkLedger, OnUnbindStops
<1>4. CASE \E l \in Legs : Index(l) \/ Edit(l)
  BY <1>4, OnIndex, OnEdit
<1>5. CASE \E w \in Wallets : Bind(w) \/ Unbind(w)
  BY <1>5, OnBind, OnUnbind
<1>6. CASE \E w \in sync.plan : OwnWrite(w) \/ OwnWriteFails(w) \/ BridgeOut(w) \/ BridgeOutFails(w)
  BY <1>6, OnOwnWrite, OnBridgeOut, OnFails
<1>7. CASE \E w \in unbind.plan : UnlinkWrite(w) \/ UnlinkWriteFails(w)
  BY <1>7, OnUnlinkWrite, OnUnlinkWriteFails
<1> QED
  BY <1>1, <1>2, <1>3, <1>4, <1>5, <1>6, <1>7 DEF Next

\* The invariant holds of every behaviour of the passes, the unbind and the user.
THEOREM InductiveInvariant == Spec => []IInv
<1>1. Init => IInv
  BY Initially
<1>2. IInv /\ [Next]_vars => IInv'
  BY Inductive
<1> QED
  BY <1>1, <1>2, PTL DEF Spec

\* A row keeps the user's last edit through every pass, resync and unbind
\* (own-wallet-linking.service.ts:48, 159), unless it was made while a write of that row
\* was planned (exposed), or a bridge link that was meant for the other row of the transfer
\* was written to it (misled; bridge-linking.service.ts:291).
THEOREM EditsFinalTheorem == Spec => []EditsFinal
<1>1. IInv => EditsFinal
  <2> SUFFICES ASSUME IInv, NEW s \in Stored(rows) \ Excused
               PROVE  rows[s].edit = edits[s] /\ (edits[s] > 0 => rows[s].class = "EDITED")
    BY DEF EditsFinal, Excused
  <2>1. s \in Legs \ Excused /\ rows[s] # None
    BY DEF Stored
  <2> QED
    BY <2>1 DEF IInv, Final, EditKept
<1> QED
  BY <1>1, InductiveInvariant, PTL

\* A row that counts as a move between the user's wallets is one with a wallet that is
\* bound, or is being unbound (own-wallet-linking.service.ts:119-125), unless the unbind
\* met a pass that had read the bindings or did not carry out its last step.
THEOREM MovesTheorem == Spec => []MovesAreProven
<1>1. IInv => MovesAreProven
  <2> SUFFICES ASSUME IInv, NEW s \in Stored(rows) \ unproven, Move(rows[s]),
                      Of(rows[s]).counterparty \notin bound
               PROVE  Of(rows[s]).counterparty \in {unbind.wallet} \ {None}
    BY DEF MovesAreProven, Move
  <2>1. s \in Legs /\ Unproven(s)
    BY DEF Stored, Unproven
  <2>2. unbind.step # "idle" /\ Of(rows[s]).counterparty = unbind.wallet
    BY <2>1 DEF IInv, Unlinks
  <2> QED
    BY <2>2 DEF IInv, UnbindOK
<1> QED
  BY <1>1, InductiveInvariant, PTL
-----------------------------------------------------------------------------
(* Self-healing.  While nothing disturbs the passes, what is planned is     *)
(* exactly what the ledger lacks: of the own-wallet pass row by row, of the *)
(* bridge pass pair by pair.  A link that lands on the wrong row can only   *)
(* land on one the user edited (Alone): it makes the pair none, and leaves  *)
(* all the others (StrayWrite).                                             *)

\* The row the own-wallet pass wants at s.
Target(ledger, wallets, s) ==
  [leg |-> ledger[s].leg, class |-> "INTERNAL_TRANSFER", group |-> OwnGroup(ledger, wallets, s),
   dest |-> None, edit |-> ledger[s].edit]

Owning(sy, ledger, wallets) ==
  /\ \A w \in sy.plan :
       w.slot \in OwnMoves(ledger, wallets) /\ w.row = Target(ledger, wallets, w.slot)
  /\ \A s \in OwnMoves(ledger, wallets) :
       ledger[s] = Target(ledger, wallets, s) \/ \E w \in sy.plan : w.slot = s

OwnSettled(ledger, wallets) ==
  \A s \in OwnMoves(ledger, wallets) :
    IF Paired(ledger, wallets, s) THEN ledger[s] = Target(ledger, wallets, s)
    ELSE ~IsOwnGroup(ledger[s].group)

\* A row holds a payload of its own transfer, and its wallet is one of these.
SlotsIn(ledger, wallets) ==
  \A s \in Stored(ledger) : Data[s].transfer = Of(ledger[s]).transfer /\ Data[s].wallet \in wallets

\* The user edited the other rows of the transfer.
Apart(ledger, s) ==
  \A t \in Stored(ledger) \ {s} : Of(ledger[t]).transfer = Of(ledger[s]).transfer => ledger[t].edit # 0

Linked(ledger, e) == Link(ledger, e).out = {} /\ Link(ledger, e).in = {}

\* The OUT of the pair is written, its IN is next.
Halfway(sy, ledger, e) ==
  sy.step = "in" /\ sy.in = Link(ledger, e).in /\ Link(ledger, e).out = {}

\* A write for a row that is stored, without an edit or an own-wallet pair.
Fits(ledger, w) ==
  /\ w.slot \in Stored(ledger) /\ ledger[w.slot].edit = 0 /\ ~IsOwnGroup(ledger[w.slot].group)
  /\ w.row \in Row /\ w.row.leg = ledger[w.slot].leg /\ w.row.edit = 0 /\ ~IsOwnGroup(w.row.group)

\* The writes of a pair whose OUT landed on the wrong row: they are of no pair any more.
Astray(writes, ledger) ==
  \A w \in writes :
    /\ Fits(ledger, w) /\ Apart(ledger, w.slot)
    /\ \A f \in Isolated(ledger) : f[1] # w.slot /\ f[2] # w.slot

Bridging(sy, ledger) ==
  /\ \A l \in sy.plan : \E e \in Isolated(ledger) : l = Link(ledger, e)
  /\ sy.step = "in" =>
       \/ \E e \in Isolated(ledger) :
            Halfway(sy, ledger, e) /\ (Link(ledger, e) \in sy.plan => Linked(ledger, e))
       \/ Astray(sy.in, ledger)
  /\ \A e \in Isolated(ledger) :
       Linked(ledger, e) \/ Link(ledger, e) \in sy.plan \/ Halfway(sy, ledger, e)

Healing ==
  quiet =>
    /\ sync.step \in {"own", "owning"} => sync.wallets = bound
    /\ sync.step = "owning" => Owning(sync, rows, bound)
    /\ sync.step \in {"bridging", "in"} => OwnSettled(rows, bound) /\ Bridging(sync, rows)
    /\ sync.step = "idle" => OwnSettled(rows, bound) /\ \A e \in Isolated(rows) : Linked(rows, e)

\* Ledgers with the same slots, legs and edits: the passes tell them apart by links only.
Alike(a, b) ==
  \A s \in Legs : /\ a[s] = None <=> b[s] = None
                  /\ a[s] # None => a[s].leg = b[s].leg /\ a[s].edit = b[s].edit

Ledgers == [Legs -> Row \cup {None}]

LEMMA AlikeMoves ==
  ASSUME NEW a \in Ledgers, NEW b \in Ledgers, Alike(a, b), NEW wallets
  PROVE  /\ OwnMoves(b, wallets) = OwnMoves(a, wallets)
         /\ \A s \in OwnMoves(a, wallets) : /\ Paired(b, wallets, s) = Paired(a, wallets, s)
                                            /\ Target(b, wallets, s) = Target(a, wallets, s)
<1>1. Stored(a) = Stored(b) /\ \A s \in Stored(a) : Of(b[s]) = Of(a[s]) /\ b[s].edit = a[s].edit
  BY DEF Alike, Stored, Of
<1>2. OwnMoves(b, wallets) = OwnMoves(a, wallets)
  BY <1>1 DEF OwnMoves, IsOwnMove
<1>3. ASSUME NEW s \in OwnMoves(a, wallets)
      PROVE  /\ Paired(b, wallets, s) = Paired(a, wallets, s)
             /\ Target(b, wallets, s) = Target(a, wallets, s)
  <2> DEFINE bucket(ledger, direction) ==
               {t \in OwnMoves(ledger, wallets) : /\ Of(ledger[t]).transfer = Of(ledger[s]).transfer
                                                  /\ Of(ledger[t]).direction = direction}
  <2>1. s \in Stored(a) /\ OwnMoves(a, wallets) \subseteq Stored(a)
    BY <1>3 DEF OwnMoves
  <2>2. \A direction : bucket(b, direction) = bucket(a, direction)
    BY <1>1, <1>2, <2>1
  <2>3. \A ledger : Paired(ledger, wallets, s) =
          (Cardinality(bucket(ledger, "OUT")) = 1 /\ Cardinality(bucket(ledger, "IN")) = 1)
    BY DEF Paired
  <2> HIDE DEF bucket
  <2>4. Paired(b, wallets, s) = Paired(a, wallets, s)
    BY <2>2, <2>3
  <2>5. OwnGroup(b, wallets, s) = OwnGroup(a, wallets, s)
    BY <1>1, <2>1, <2>4 DEF OwnGroup
  <2>6. b[s].leg = a[s].leg /\ b[s].edit = a[s].edit
    BY <2>1 DEF Alike, Stored
  <2> QED
    BY <2>4, <2>5, <2>6 DEF Target
<1> QED
  BY <1>2, <1>3

\* The plan of the own-wallet pass is what its ledger lacks.
LEMMA OwnPlanIsTarget ==
  ASSUME NEW ledger \in Ledgers, NEW wallets
  PROVE  /\ \A w \in OwnPlan(ledger, wallets) :
              w.slot \in OwnMoves(ledger, wallets) /\ w.row = Target(ledger, wallets, w.slot)
         /\ \A s \in OwnMoves(ledger, wallets) :
              ledger[s] = Target(ledger, wallets, s) \/ \E w \in OwnPlan(ledger, wallets) : w.slot = s
<1> DEFINE new(s) == [ledger[s] EXCEPT !.class = "INTERNAL_TRANSFER", !.dest = None,
                                       !.group = OwnGroup(ledger, wallets, s)]
           write(s) == [slot |-> s, row |-> new(s)]
<1>1. OwnPlan(ledger, wallets) =
        {w \in {write(s) : s \in OwnMoves(ledger, wallets)} : w.row # ledger[w.slot]}
  BY DEF OwnPlan
<1>2. ASSUME NEW s \in OwnMoves(ledger, wallets)
      PROVE  new(s) = Target(ledger, wallets, s)
  <2>1. PICK r : r = ledger[s]
    OBVIOUS
  <2>2. PICK g : g = OwnGroup(ledger, wallets, s)
    OBVIOUS
  <2>3. r \in Row
    BY <2>1 DEF OwnMoves, Stored, Ledgers
  <2>4. PICK n : n = [r EXCEPT !.class = "INTERNAL_TRANSFER", !.dest = None, !.group = g]
    OBVIOUS
  <2>5. new(s) = n
    BY <2>1, <2>2, <2>4
  <2> HIDE DEF new
  <2>6. n = [leg |-> r.leg, class |-> "INTERNAL_TRANSFER", group |-> g, dest |-> None, edit |-> r.edit]
    BY <2>3, <2>4 DEF Row
  <2> QED
    BY <2>1, <2>2, <2>5, <2>6 DEF Target
<1> HIDE DEF new
<1>3. \A s : write(s).slot = s /\ write(s).row = new(s)
  OBVIOUS
<1> HIDE DEF write
<1> QED
  BY <1>1, <1>2, <1>3

-----------------------------------------------------------------------------
(* The writes of a pair.                                                    *)

OutRow(o, i) ==
  [leg |-> o.leg,
   class |-> IF LinkKind(Of(o), Of(i)) = "transfer" THEN "INTERNAL_TRANSFER" ELSE "EXCHANGE",
   group |-> <<"bridge", Of(o).tx>>, dest |-> Of(i).chain, edit |-> o.edit]

InRow(o, i) ==
  [leg |-> i.leg,
   class |-> IF LinkKind(Of(o), Of(i)) = "transfer" THEN "INTERNAL_TRANSFER" ELSE "RECEIVE",
   group |-> <<"bridge", Of(o).tx>>, dest |-> i.dest, edit |-> i.edit]

WriteOf(slot, row, old) == IF row = old THEN {} ELSE {[slot |-> slot, row |-> row]}

LEMMA EdgeFacts ==
  ASSUME NEW ledger \in Ledgers, NEW e \in Isolated(ledger)
  PROVE  /\ e = <<e[1], e[2]>> /\ e[1] \in Stored(ledger) /\ e[2] \in Stored(ledger)
         /\ ledger[e[1]] \in Row /\ ledger[e[2]] \in Row
         /\ IsBridgeOut(ledger[e[1]]) /\ IsLinkableIn(ledger[e[2]])
<1>1. e \in Stored(ledger) \X Stored(ledger) /\ IsBridgeOut(ledger[e[1]]) /\ IsLinkableIn(ledger[e[2]])
  BY DEF Isolated, Edges
<1>2. e = <<e[1], e[2]>> /\ e[1] \in Stored(ledger) /\ e[2] \in Stored(ledger)
  BY <1>1
<1> QED
  BY <1>1, <1>2 DEF Stored, Ledgers

LEMMA LinkShape ==
  ASSUME NEW ledger \in Ledgers, NEW e \in Isolated(ledger)
  PROVE  LET o == ledger[e[1]]  i == ledger[e[2]] IN
         /\ Link(ledger, e) = [out |-> WriteOf(e[1], OutRow(o, i), o), in |-> WriteOf(e[2], InRow(o, i), i)]
         /\ Link(ledger, e).out = WriteOf(e[1], OutRow(o, i), o)
         /\ Link(ledger, e).in = WriteOf(e[2], InRow(o, i), i)
<1>1. PICK s, t : s = e[1] /\ t = e[2]
  OBVIOUS
<1>2. PICK o, i : o = ledger[s] /\ i = ledger[t]
  OBVIOUS
<1>3. o \in Row /\ i \in Row
  BY <1>1, <1>2, EdgeFacts
<1>4. PICK k1, k2 :
        /\ k1 = IF LinkKind(Of(o), Of(i)) = "transfer" THEN "INTERNAL_TRANSFER" ELSE "EXCHANGE"
        /\ k2 = IF LinkKind(Of(o), Of(i)) = "transfer" THEN "INTERNAL_TRANSFER" ELSE "RECEIVE"
  OBVIOUS
<1>5. PICK g, c : g = <<"bridge", Of(o).tx>> /\ c = Of(i).chain
  OBVIOUS
<1>6. PICK out : out = [o EXCEPT !.class = k1, !.group = g, !.dest = c]
  OBVIOUS
<1>7. PICK in : in = [i EXCEPT !.class = k2, !.group = g]
  OBVIOUS
<1>8. out = [leg |-> o.leg, class |-> k1, group |-> g, dest |-> c, edit |-> o.edit]
  BY <1>3, <1>6 DEF Row
<1>9. in = [leg |-> i.leg, class |-> k2, group |-> g, dest |-> i.dest, edit |-> i.edit]
  BY <1>3, <1>7 DEF Row
<1>10. out = OutRow(o, i) /\ in = InRow(o, i)
  BY <1>4, <1>5, <1>8, <1>9 DEF OutRow, InRow
<1>11. Link(ledger, e) = [out |-> Due(ledger, [slot |-> s, row |-> out]),
                          in |-> Due(ledger, [slot |-> t, row |-> in])]
  BY <1>1, <1>2, <1>4, <1>5, <1>6, <1>7 DEF Link
<1>12. /\ Due(ledger, [slot |-> s, row |-> out]) = WriteOf(s, out, o)
       /\ Due(ledger, [slot |-> t, row |-> in]) = WriteOf(t, in, i)
  BY <1>2 DEF Due, WriteOf
<1>13. Link(ledger, e) = [out |-> WriteOf(s, out, o), in |-> WriteOf(t, in, i)]
  BY <1>11, <1>12
<1>14. Link(ledger, e).out = WriteOf(s, out, o) /\ Link(ledger, e).in = WriteOf(t, in, i)
  BY <1>13
<1> QED
  BY <1>1, <1>2, <1>10, <1>13, <1>14

LEMMA LinkFields ==
  ASSUME NEW ledger \in Ledgers, NEW e \in Isolated(ledger), NEW o, NEW i,
         o = ledger[e[1]], i = ledger[e[2]]
  PROVE  /\ Link(ledger, e).out = WriteOf(e[1], OutRow(o, i), o)
         /\ Link(ledger, e).in = WriteOf(e[2], InRow(o, i), i)
BY LinkShape

\* A pair's writes are of its own rows.
LEMMA LinkSlots ==
  ASSUME NEW ledger \in Ledgers, NEW e \in Isolated(ledger)
  PROVE  /\ \A v \in Link(ledger, e).out : v.slot = e[1]
         /\ \A v \in Link(ledger, e).in : v.slot = e[2]
<1>1. \A slot, row, old : \A v \in WriteOf(slot, row, old) : v.slot = slot
  BY DEF WriteOf
<1> QED
  BY <1>1, LinkFields

\* A second write of the same pair has nothing to change.
LEMMA RowsSettle ==
  ASSUME NEW o \in Row, NEW i \in Row
  PROVE  /\ OutRow(OutRow(o, i), i) = OutRow(o, i) /\ InRow(OutRow(o, i), i) = InRow(o, i)
         /\ OutRow(o, InRow(o, i)) = OutRow(o, i) /\ InRow(o, InRow(o, i)) = InRow(o, i)
<1>1. PICK p : p = OutRow(o, i)
  OBVIOUS
<1>2. PICK q : q = InRow(o, i)
  OBVIOUS
<1>3. p.leg = o.leg /\ p.edit = o.edit /\ Of(p) = Of(o)
  BY <1>1 DEF OutRow, Of
<1>4. q.leg = i.leg /\ q.edit = i.edit /\ q.dest = i.dest /\ Of(q) = Of(i)
  BY <1>2 DEF InRow, Of
<1>5. OutRow(p, i) = OutRow(o, i) /\ InRow(p, i) = InRow(o, i)
  BY <1>3 DEF OutRow, InRow
<1>6. OutRow(o, q) = OutRow(o, i) /\ InRow(o, q) = InRow(o, i)
  BY <1>4 DEF OutRow, InRow
<1> QED
  BY <1>1, <1>2, <1>5, <1>6

LEMMA OutAgain ==
  ASSUME NEW b \in Ledgers, NEW e \in Isolated(b), NEW o \in Row, NEW i \in Row,
         b[e[1]] = OutRow(o, i), b[e[2]] = i
  PROVE  Link(b, e).out = {} /\ Link(b, e).in = WriteOf(e[2], InRow(o, i), i)
<1>1. PICK p : p = OutRow(o, i)
  OBVIOUS
<1>2. p = b[e[1]] /\ i = b[e[2]]
  BY <1>1
<1>3. /\ Link(b, e).out = WriteOf(e[1], OutRow(p, i), p)
      /\ Link(b, e).in = WriteOf(e[2], InRow(p, i), i)
  BY <1>2, LinkFields
<1>4. OutRow(p, i) = p /\ InRow(p, i) = InRow(o, i)
  BY <1>1, RowsSettle
<1> QED
  BY <1>3, <1>4 DEF WriteOf

LEMMA InAgain ==
  ASSUME NEW b \in Ledgers, NEW e \in Isolated(b), NEW o \in Row, NEW i \in Row,
         b[e[1]] = o, b[e[2]] = InRow(o, i)
  PROVE  Link(b, e).in = {} /\ Link(b, e).out = WriteOf(e[1], OutRow(o, i), o)
<1>1. PICK p : p = InRow(o, i)
  OBVIOUS
<1>2. o = b[e[1]] /\ p = b[e[2]]
  BY <1>1
<1>3. /\ Link(b, e).out = WriteOf(e[1], OutRow(o, p), o)
      /\ Link(b, e).in = WriteOf(e[2], InRow(o, p), p)
  BY <1>2, LinkFields
<1>4. OutRow(o, p) = OutRow(o, i) /\ InRow(o, p) = p
  BY <1>1, RowsSettle
<1> QED
  BY <1>3, <1>4 DEF WriteOf

\* Isolated pairs share no row.
LEMMA PairsApart ==
  ASSUME NEW ledger \in Ledgers, NEW e \in Isolated(ledger), NEW f \in Isolated(ledger)
  PROVE  /\ f # e => f[1] # e[1] /\ f[2] # e[2]
         /\ f[2] # e[1] /\ f[1] # e[2]
<1>1. f # e => f[1] # e[1] /\ f[2] # e[2]
  BY DEF Isolated
<1>2. /\ Of(ledger[e[1]]).direction = "OUT" /\ Of(ledger[f[1]]).direction = "OUT"
      /\ Of(ledger[e[2]]).direction = "IN" /\ Of(ledger[f[2]]).direction = "IN"
  BY EdgeFacts DEF IsBridgeOut, IsLinkableIn
<1> QED
  BY <1>1, <1>2

\* The ledger after one write.
Written(a, b, w) == b = [a EXCEPT ![w.slot] = w.row]

\* A write of one row that is not of an own-wallet pair, before or after.
LEMMA BridgeWriteStays ==
  ASSUME NEW a \in Ledgers, NEW s \in Stored(a), NEW r \in Row, NEW b, NEW w,
         Written(a, b, w), w.slot = s, w.row = r, r.leg = a[s].leg, r.edit = a[s].edit, ~IsOwnGroup(a[s].group), ~IsOwnGroup(r.group)
  PROVE  /\ b \in Ledgers /\ b[s] = r /\ \A t \in Legs : t # s => b[t] = a[t]
         /\ Isolated(b) = Isolated(a)
         /\ \A wallets : OwnSettled(a, wallets) => OwnSettled(b, wallets)
<1>1. s \in Legs /\ a[s] # None /\ r # None
  BY LinkingAssumption DEF Stored
<1>2. b \in Ledgers /\ b[s] = r /\ \A t \in Legs : t # s => b[t] = a[t]
  BY <1>1 DEF Ledgers, Written
<1>3. Alike(a, b)
  BY <1>1, <1>2 DEF Alike
<1>4. Stored(b) = Stored(a)
  BY <1>3 DEF Alike, Stored
<1>5. ASSUME NEW t \in Stored(a)
      PROVE  /\ IsBridgeOut(b[t]) = IsBridgeOut(a[t]) /\ IsLinkableIn(b[t]) = IsLinkableIn(a[t])
             /\ Of(b[t]) = Of(a[t])
  <2>1. b[t].leg = a[t].leg /\ b[t].edit = a[t].edit
    BY <1>3, <1>5 DEF Alike, Stored
  <2>2. IsOwnGroup(b[t].group) = IsOwnGroup(a[t].group)
    BY <1>2, <1>5 DEF Stored, IsOwnGroup
  <2> QED
    BY <2>1, <2>2 DEF IsBridgeOut, IsLinkableIn, Of
<1>6. Edges(b) = Edges(a)
  <2>1. ASSUME NEW e \in Stored(a) \X Stored(a)
        PROVE  /\ IsBridgeOut(b[e[1]]) = IsBridgeOut(a[e[1]])
               /\ IsLinkableIn(b[e[2]]) = IsLinkableIn(a[e[2]])
               /\ Of(b[e[1]]) = Of(a[e[1]]) /\ Of(b[e[2]]) = Of(a[e[2]])
    BY <1>5, <2>1
  <2> QED
    BY <1>4, <2>1 DEF Edges
<1>7. Isolated(b) = Isolated(a)
  BY <1>6 DEF Isolated
<1>8a. ASSUME NEW wallets, OwnSettled(a, wallets), NEW t \in OwnMoves(b, wallets), ~Paired(b, wallets, t)
       PROVE  ~IsOwnGroup(b[t].group)
  <2>1. t \in OwnMoves(a, wallets) /\ ~Paired(a, wallets, t) /\ t \in Legs
    BY <1>2, <1>3, <1>8a, AlikeMoves DEF OwnMoves, Stored
  <2> QED
    BY <1>2, <1>8a, <2>1 DEF OwnSettled
<1>8. ASSUME NEW wallets, OwnSettled(a, wallets), NEW t \in OwnMoves(b, wallets), Paired(b, wallets, t)
      PROVE  b[t] = Target(b, wallets, t)
  <2>1. t \in OwnMoves(a, wallets) /\ Paired(a, wallets, t) /\ Target(b, wallets, t) = Target(a, wallets, t)
    BY <1>2, <1>3, <1>8, AlikeMoves
  <2>2. a[t] = Target(a, wallets, t) /\ t \in Legs /\ a[t] \in Row
    BY <1>8, <2>1 DEF OwnSettled, OwnMoves, Stored, Ledgers
  <2>3. OwnGroup(a, wallets, t) = <<"own", Data[a[t].leg].transfer>>
    BY <2>1 DEF OwnGroup, Of
  <2>4. OwnGroup(a, wallets, t) \in Groups /\ OwnGroup(a, wallets, t)[1] = "own"
    BY <2>2, <2>3 DEF Groups, Row
  <2>5. a[t].group = OwnGroup(a, wallets, t)
    BY <2>2 DEF Target
  <2>6. IsOwnGroup(a[t].group)
    BY <2>4, <2>5, LinkingAssumption DEF IsOwnGroup
  <2>7. t # s
    BY <2>6
  <2> QED
    BY <1>2, <2>1, <2>2, <2>7
<1>9. \A wallets : OwnSettled(a, wallets) => OwnSettled(b, wallets)
  BY <1>8, <1>8a DEF OwnSettled
<1> QED
  BY <1>2, <1>7, <1>9

\* The rows of a pair's writes.
LEMMA PairRows ==
  ASSUME NEW ledger \in Ledgers, NEW e \in Isolated(ledger)
  PROVE  LET o == ledger[e[1]]  i == ledger[e[2]] IN
         /\ OutRow(o, i) \in Row /\ OutRow(o, i).leg = o.leg /\ OutRow(o, i).edit = o.edit
         /\ InRow(o, i) \in Row /\ InRow(o, i).leg = i.leg /\ InRow(o, i).edit = i.edit
         /\ ~IsOwnGroup(OutRow(o, i).group) /\ ~IsOwnGroup(InRow(o, i).group)
         /\ ~IsOwnGroup(o.group) /\ ~IsOwnGroup(i.group)
         /\ OutRow(o, i).group = InRow(o, i).group
<1>1. PICK o, i : o = ledger[e[1]] /\ i = ledger[e[2]]
  OBVIOUS
<1>2. o \in Row /\ i \in Row /\ IsBridgeOut(o) /\ IsLinkableIn(i)
  BY <1>1, EdgeFacts
<1>3. PICK g : g = <<"bridge", Of(o).tx>>
  OBVIOUS
<1>4. g \in Groups /\ g[1] = "bridge"
  BY <1>2, <1>3 DEF Groups, Of, Row
<1>5. Of(i).chain \in Chains
  BY <1>2 DEF Chains, Of, Row
<1>6. OutRow(o, i) \in Row /\ OutRow(o, i).leg = o.leg /\ OutRow(o, i).edit = o.edit /\ OutRow(o, i).group = g
  BY <1>2, <1>3, <1>4, <1>5 DEF OutRow, Row, Classes
<1>7. InRow(o, i) \in Row /\ InRow(o, i).leg = i.leg /\ InRow(o, i).edit = i.edit /\ InRow(o, i).group = g
  BY <1>2, <1>3, <1>4, <1>5 DEF InRow, Row, Classes
<1>8. ~IsOwnGroup(g) /\ ~IsOwnGroup(o.group) /\ ~IsOwnGroup(i.group)
  BY <1>2, <1>4 DEF IsOwnGroup, IsBridgeOut, IsLinkableIn
<1> QED
  BY <1>1, <1>6, <1>7, <1>8

\* A ledger that holds the same rows for a pair makes the same link of it.
LEMMA SameLink ==
  ASSUME NEW a \in Ledgers, NEW b \in Ledgers, NEW f \in Isolated(a), f \in Isolated(b),
         b[f[1]] = a[f[1]], b[f[2]] = a[f[2]]
  PROVE  Link(b, f) = Link(a, f)
BY LinkShape

\* Writing the OUT row of a pair.
LEMMA OutWritten ==
  ASSUME NEW a \in Ledgers, NEW e \in Isolated(a), NEW w \in Link(a, e).out,
         NEW b, Written(a, b, w)
  PROVE  /\ b \in Ledgers /\ Isolated(b) = Isolated(a)
         /\ \A wallets : OwnSettled(a, wallets) => OwnSettled(b, wallets)
         /\ Link(b, e).out = {} /\ Link(b, e).in = Link(a, e).in
         /\ \A f \in Isolated(a) : f # e => Link(b, f) = Link(a, f) /\ w \notin Link(a, f).out
<1>1. PICK o, i : o = a[e[1]] /\ i = a[e[2]]
  OBVIOUS
<1>2. /\ w \in WriteOf(e[1], OutRow(o, i), o)
      /\ Link(a, e).in = WriteOf(e[2], InRow(o, i), i)
  BY <1>1, LinkShape
<1>3. w = [slot |-> e[1], row |-> OutRow(o, i)]
  BY <1>2 DEF WriteOf
<1>4. w.slot = e[1] /\ w.row = OutRow(o, i)
  BY <1>3
<1>5. e[1] \in Stored(a) /\ e[2] \in Stored(a) /\ e[1] \in Legs /\ e[2] \in Legs /\ o \in Row /\ i \in Row
  BY <1>1, EdgeFacts DEF Stored
<1>6. /\ OutRow(o, i) \in Row /\ OutRow(o, i).leg = o.leg /\ OutRow(o, i).edit = o.edit
      /\ ~IsOwnGroup(OutRow(o, i).group) /\ ~IsOwnGroup(o.group)
  BY <1>1, PairRows
<1>7. /\ b \in Ledgers /\ b[e[1]] = OutRow(o, i) /\ \A t \in Legs : t # e[1] => b[t] = a[t]
      /\ Isolated(b) = Isolated(a)
      /\ \A wallets : OwnSettled(a, wallets) => OwnSettled(b, wallets)
  <2>1. PICK s, r : s = e[1] /\ r = OutRow(o, i)
    OBVIOUS
  <2>2. w.slot = s /\ w.row = r
    BY <1>4, <2>1
  <2>3. /\ s \in Stored(a) /\ r \in Row /\ r.leg = a[s].leg /\ r.edit = a[s].edit
        /\ ~IsOwnGroup(a[s].group) /\ ~IsOwnGroup(r.group)
    BY <1>1, <1>5, <1>6, <2>1
  <2> QED
    BY <2>1, <2>2, <2>3, BridgeWriteStays
<1>8. e[2] # e[1] /\ b[e[2]] = i
  BY <1>1, <1>5, <1>7, PairsApart
<1>9. Link(b, e).out = {} /\ Link(b, e).in = Link(a, e).in
  <2>1. b \in Ledgers /\ e \in Isolated(b) /\ b[e[1]] = OutRow(o, i) /\ b[e[2]] = i
    BY <1>7, <1>8
  <2>2. PICK c : c = b
    OBVIOUS
  <2>3. c \in Ledgers /\ e \in Isolated(c) /\ c[e[1]] = OutRow(o, i) /\ c[e[2]] = i
    BY <2>1, <2>2
  <2>4. Link(c, e).out = {} /\ Link(c, e).in = Link(a, e).in
    BY <1>2, <1>5, <2>3, OutAgain
  <2> QED
    BY <2>2, <2>4
<1>10. ASSUME NEW f \in Isolated(a), f # e
       PROVE  Link(b, f) = Link(a, f) /\ w \notin Link(a, f).out
  <2>1. f[1] # e[1] /\ f[2] # e[1] /\ f[1] \in Legs /\ f[2] \in Legs
    BY <1>10, PairsApart, EdgeFacts DEF Stored
  <2>2. Link(b, f) = Link(a, f)
    BY <1>7, <2>1, SameLink
  <2>3. \A v \in Link(a, f).out : v.slot = f[1]
    BY LinkSlots
  <2> QED
    BY <1>4, <2>1, <2>2, <2>3
<1> QED
  BY <1>7, <1>9, <1>10

\* Writing the IN row of a pair.
LEMMA InWritten ==
  ASSUME NEW a \in Ledgers, NEW e \in Isolated(a), NEW w \in Link(a, e).in,
         NEW b, Written(a, b, w)
  PROVE  /\ b \in Ledgers /\ Isolated(b) = Isolated(a)
         /\ \A wallets : OwnSettled(a, wallets) => OwnSettled(b, wallets)
         /\ Link(b, e).in = {} /\ Link(b, e).out = Link(a, e).out
         /\ \A f \in Isolated(a) : f # e => Link(b, f) = Link(a, f) /\ w \notin Link(a, f).in
<1>1. PICK o, i : o = a[e[1]] /\ i = a[e[2]]
  OBVIOUS
<1>2. /\ w \in WriteOf(e[2], InRow(o, i), i)
      /\ Link(a, e).out = WriteOf(e[1], OutRow(o, i), o)
  BY <1>1, LinkShape
<1>3. w = [slot |-> e[2], row |-> InRow(o, i)]
  BY <1>2 DEF WriteOf
<1>4. w.slot = e[2] /\ w.row = InRow(o, i)
  BY <1>3
<1>5. e[1] \in Stored(a) /\ e[2] \in Stored(a) /\ e[1] \in Legs /\ e[2] \in Legs /\ o \in Row /\ i \in Row
  BY <1>1, EdgeFacts DEF Stored
<1>6. /\ InRow(o, i) \in Row /\ InRow(o, i).leg = i.leg /\ InRow(o, i).edit = i.edit
      /\ ~IsOwnGroup(InRow(o, i).group) /\ ~IsOwnGroup(i.group)
  BY <1>1, PairRows
<1>7. /\ b \in Ledgers /\ b[e[2]] = InRow(o, i) /\ \A t \in Legs : t # e[2] => b[t] = a[t]
      /\ Isolated(b) = Isolated(a)
      /\ \A wallets : OwnSettled(a, wallets) => OwnSettled(b, wallets)
  <2>1. PICK s, r : s = e[2] /\ r = InRow(o, i)
    OBVIOUS
  <2>2. w.slot = s /\ w.row = r
    BY <1>4, <2>1
  <2>3. /\ s \in Stored(a) /\ r \in Row /\ r.leg = a[s].leg /\ r.edit = a[s].edit
        /\ ~IsOwnGroup(a[s].group) /\ ~IsOwnGroup(r.group)
    BY <1>1, <1>5, <1>6, <2>1
  <2> QED
    BY <2>1, <2>2, <2>3, BridgeWriteStays
<1>8. e[2] # e[1] /\ b[e[1]] = o
  BY <1>1, <1>5, <1>7, PairsApart
<1>9. Link(b, e).in = {} /\ Link(b, e).out = Link(a, e).out
  <2>1. b \in Ledgers /\ e \in Isolated(b) /\ b[e[1]] = o /\ b[e[2]] = InRow(o, i)
    BY <1>7, <1>8
  <2>2. PICK c : c = b
    OBVIOUS
  <2>3. c \in Ledgers /\ e \in Isolated(c) /\ c[e[1]] = o /\ c[e[2]] = InRow(o, i)
    BY <2>1, <2>2
  <2>4. Link(c, e).in = {} /\ Link(c, e).out = Link(a, e).out
    BY <1>2, <1>5, <2>3, InAgain
  <2> QED
    BY <2>2, <2>4
<1>10. ASSUME NEW f \in Isolated(a), f # e
       PROVE  Link(b, f) = Link(a, f) /\ w \notin Link(a, f).in
  <2>1. f[1] # e[2] /\ f[2] # e[2] /\ f[1] \in Legs /\ f[2] \in Legs
    BY <1>10, PairsApart, EdgeFacts DEF Stored
  <2>2. Link(b, f) = Link(a, f)
    BY <1>7, <2>1, SameLink
  <2>3. \A v \in Link(a, f).in : v.slot = f[2]
    BY LinkSlots
  <2> QED
    BY <1>4, <2>1, <2>2, <2>3
<1> QED
  BY <1>7, <1>9, <1>10

-----------------------------------------------------------------------------
(* A link that lands on the wrong row.                                      *)

\* Two rows of one transfer that nobody edited: a pair of the own-wallet pass, or twice the
\* same payload.
LEMMA TwoRows ==
  ASSUME NEW ledger \in Ledgers, NEW wallets, SlotsIn(ledger, wallets),
         NEW s \in Stored(ledger), NEW t \in Stored(ledger), s # t,
         Of(ledger[s]).transfer = Of(ledger[t]).transfer, ledger[s].edit = 0, ledger[t].edit = 0
  PROVE  /\ s \in OwnMoves(ledger, wallets) /\ t \in OwnMoves(ledger, wallets)
         /\ Of(ledger[s]).direction = Of(ledger[t]).direction =>
              /\ ledger[s].leg = ledger[t].leg
              /\ ~Paired(ledger, wallets, s) /\ ~Paired(ledger, wallets, t)
         /\ Of(ledger[s]).direction # Of(ledger[t]).direction => Paired(ledger, wallets, s)
<1>1. PICK p, q : p = ledger[s].leg /\ q = ledger[t].leg
  OBVIOUS
<1>2. s \in Legs /\ t \in Legs /\ p \in Legs /\ q \in Legs
  BY <1>1 DEF Stored, Ledgers, Row
<1>3. /\ Data[s].transfer = Data[t].transfer /\ Data[p].transfer = Data[s].transfer /\ Data[q].transfer = Data[s].transfer
      /\ Data[s].wallet \in wallets /\ Data[t].wallet \in wallets
  BY <1>1 DEF SlotsIn, Of
<1>4. /\ Data[s].wallet = Data[t].counterparty /\ Data[t].wallet = Data[s].counterparty
      /\ Data[s].wallet # Data[t].wallet /\ Data[s].direction # Data[t].direction
  BY <1>2, <1>3, TransferAssumption
<1>5. \A x \in Legs : Data[x].direction \in {"IN", "OUT"}
  BY LinkingAssumption DEF LegData
<1>6. ASSUME NEW x \in Legs, Data[x].transfer = Data[s].transfer PROVE x \in {s, t}
  <2>1. x = s \/ Data[x].direction # Data[s].direction
    BY <1>2, <1>6, TransferAssumption
  <2>2. x = t \/ Data[x].direction # Data[t].direction
    BY <1>2, <1>3, <1>6, TransferAssumption
  <2> QED
    BY <1>2, <1>4, <1>5, <2>1, <2>2
<1>7. p \in {s, t} /\ q \in {s, t}
  BY <1>2, <1>3, <1>6
<1>8. \A x \in {s, t} : Data[x].counterparty # Data[x].wallet /\ {Data[x].wallet, Data[x].counterparty} \subseteq wallets
  BY <1>3, <1>4
<1>9. s \in OwnMoves(ledger, wallets) /\ t \in OwnMoves(ledger, wallets)
  BY <1>1, <1>7, <1>8 DEF OwnMoves, IsOwnMove, Of
<1> DEFINE bucket(x, direction) ==
             {y \in OwnMoves(ledger, wallets) : /\ Of(ledger[y]).transfer = Of(ledger[x]).transfer
                                                /\ Of(ledger[y]).direction = direction}
<1>10. ASSUME NEW x \in {s, t}, NEW direction
       PROVE  bucket(x, direction) = {y \in {s, t} : Of(ledger[y]).direction = direction}
  <2>1. Of(ledger[x]).transfer = Data[s].transfer
    BY <1>1, <1>3 DEF Of
  <2>2. ASSUME NEW y \in OwnMoves(ledger, wallets), Of(ledger[y]).transfer = Data[s].transfer
        PROVE  y \in {s, t}
    <3>1. y \in Legs /\ Data[y].transfer = Data[s].transfer
      BY <2>2 DEF OwnMoves, Stored, SlotsIn
    <3> QED
      BY <1>6, <3>1
  <2>3. \A y \in {s, t} : Of(ledger[y]).transfer = Data[s].transfer
    BY <1>1, <1>3 DEF Of
  <2> QED
    BY <1>9, <2>1, <2>2, <2>3
<1>11. \A x : Paired(ledger, wallets, x) =
         (Cardinality(bucket(x, "OUT")) = 1 /\ Cardinality(bucket(x, "IN")) = 1)
  BY DEF Paired
<1> HIDE DEF bucket
<1>12. Of(ledger[s]).direction \in {"IN", "OUT"} /\ Of(ledger[t]).direction \in {"IN", "OUT"}
  BY <1>1, <1>2, <1>5 DEF Of
<1>13. CASE Of(ledger[s]).direction = Of(ledger[t]).direction
  <2>1. p = q
    BY <1>1, <1>4, <1>7, <1>13 DEF Of
  <2>2. PICK d \in {"IN", "OUT"} : d # Of(ledger[s]).direction
    BY <1>12
  <2>3. \A x \in {s, t} : bucket(x, d) = {}
    BY <1>10, <1>13, <2>2
  <2>4. \A x \in {s, t} : Cardinality(bucket(x, d)) # 1
    BY <2>3, FS_EmptySet
  <2> QED
    BY <1>1, <1>9, <1>11, <1>13, <2>1, <2>4
<1>14. CASE Of(ledger[s]).direction # Of(ledger[t]).direction
  <2>1. ASSUME NEW d \in {"IN", "OUT"} PROVE Cardinality(bucket(s, d)) = 1
    <3>1. bucket(s, d) = {s} \/ bucket(s, d) = {t}
      BY <1>10, <1>12, <1>14
    <3> QED
      BY <3>1, FS_Singleton
  <2> QED
    BY <1>9, <1>11, <1>14, <2>1
<1> QED
  BY <1>13, <1>14

\* The rows of an isolated pair are the only ones of their transfers that nobody edited.
LEMMA Alone ==
  ASSUME NEW ledger \in Ledgers, NEW wallets, SlotsIn(ledger, wallets), OwnSettled(ledger, wallets),
         NEW e \in Isolated(ledger)
  PROVE  Apart(ledger, e[1]) /\ Apart(ledger, e[2])
<1>1. /\ e = <<e[1], e[2]>> /\ e[1] \in Stored(ledger) /\ e[2] \in Stored(ledger)
      /\ IsBridgeOut(ledger[e[1]]) /\ IsLinkableIn(ledger[e[2]])
  BY EdgeFacts
<1>2. ASSUME NEW s \in {e[1], e[2]}, NEW t \in Stored(ledger) \ {s},
             Of(ledger[t]).transfer = Of(ledger[s]).transfer, ledger[t].edit = 0
      PROVE  /\ t \in Stored(ledger) /\ t # s /\ ledger[t].leg = ledger[s].leg /\ ~IsOwnGroup(ledger[t].group)
             /\ ledger[t].edit = 0
  <2>1. s \in Stored(ledger) /\ ledger[s].edit = 0 /\ ~IsOwnGroup(ledger[s].group)
    BY <1>1 DEF IsBridgeOut, IsLinkableIn
  <2>2. /\ s \in OwnMoves(ledger, wallets) /\ t \in OwnMoves(ledger, wallets)
        /\ Of(ledger[s]).direction = Of(ledger[t]).direction =>
              /\ ledger[s].leg = ledger[t].leg
              /\ ~Paired(ledger, wallets, s) /\ ~Paired(ledger, wallets, t)
        /\ Of(ledger[s]).direction # Of(ledger[t]).direction => Paired(ledger, wallets, s)
    BY <1>2, <2>1, TwoRows
  <2>3. ~Paired(ledger, wallets, s)
    <3> SUFFICES ASSUME Paired(ledger, wallets, s) PROVE FALSE
      OBVIOUS
    <3>1. ledger[s] = Target(ledger, wallets, s) /\ ledger[s] \in Row
      BY <2>1, <2>2 DEF OwnSettled, Stored, Ledgers
    <3>2. OwnGroup(ledger, wallets, s) = <<"own", Data[ledger[s].leg].transfer>>
      BY DEF OwnGroup, Of
    <3>3. OwnGroup(ledger, wallets, s) \in Groups /\ OwnGroup(ledger, wallets, s)[1] = "own"
      BY <3>1, <3>2 DEF Groups, Row
    <3>4. ledger[s].group = OwnGroup(ledger, wallets, s)
      <4>1. PICK q : q = Target(ledger, wallets, s)
        OBVIOUS
      <4>2. q.group = OwnGroup(ledger, wallets, s)
        BY <4>1 DEF Target
      <4> QED
        BY <3>1, <4>1, <4>2
    <3> QED
      BY <2>1, <3>3, <3>4, LinkingAssumption DEF IsOwnGroup
  <2> QED
    BY <1>2, <2>2, <2>3 DEF OwnSettled
<1>3. ASSUME NEW t \in Stored(ledger) \ {e[1]}, Of(ledger[t]).transfer = Of(ledger[e[1]]).transfer, ledger[t].edit = 0
      PROVE  FALSE
  <2>1. t # e[1] /\ ledger[t].leg = ledger[e[1]].leg /\ ~IsOwnGroup(ledger[t].group)
    BY <1>2, <1>3
  <2>2. e \in Edges(ledger) /\ IsPair(Of(ledger[e[1]]), Of(ledger[e[2]]))
    BY DEF Isolated, Edges
  <2>3. <<t, e[2]>> \in Edges(ledger)
    BY <1>1, <1>3, <2>1, <2>2 DEF Edges, IsBridgeOut, Of
  <2> QED
    BY <1>1, <2>1, <2>3 DEF Isolated
<1>4. ASSUME NEW t \in Stored(ledger) \ {e[2]}, Of(ledger[t]).transfer = Of(ledger[e[2]]).transfer, ledger[t].edit = 0
      PROVE  FALSE
  <2>1. t # e[2] /\ ledger[t].leg = ledger[e[2]].leg /\ ~IsOwnGroup(ledger[t].group)
    BY <1>2, <1>4
  <2>2. e \in Edges(ledger) /\ IsPair(Of(ledger[e[1]]), Of(ledger[e[2]]))
    BY DEF Isolated, Edges
  <2>3. <<e[1], t>> \in Edges(ledger)
    BY <1>1, <1>4, <2>1, <2>2 DEF Edges, IsLinkableIn, Of
  <2> QED
    BY <1>1, <2>1, <2>3 DEF Isolated
<1> QED
  BY <1>3, <1>4 DEF Apart

\* Two payloads that are a candidate pair.
Joins(o, i) == IsBridgeOut(o) /\ IsLinkableIn(i) /\ IsPair(Of(o), Of(i))

LEMMA EdgesJoin ==
  ASSUME NEW ledger, NEW x \in Stored(ledger), NEW y \in Stored(ledger)
  PROVE  <<x, y>> \in Edges(ledger) <=> Joins(ledger[x], ledger[y])
BY DEF Edges, Joins

LEMMA EdgesAreOfStored ==
  ASSUME NEW ledger
  PROVE  \A f \in Edges(ledger) : f = <<f[1], f[2]>> /\ f[1] \in Stored(ledger) /\ f[2] \in Stored(ledger)
BY DEF Edges

\* The edges between a ledger's rows, when t takes the payload of s and had no edge before.
Copies(S, A, B, s, t) ==
  /\ s \in S /\ t \in S /\ t # s /\ A \subseteq S \X S /\ B \subseteq S \X S
  /\ \A x, y \in S \ {t} : <<x, y>> \in B <=> <<x, y>> \in A
  /\ \A x \in S : <<x, t>> \notin A /\ <<t, x>> \notin A
  /\ \A x \in S \ {t} : /\ <<t, x>> \in B <=> <<s, x>> \in A
                        /\ <<x, t>> \in B <=> <<x, s>> \in A
  /\ <<t, t>> \notin B

LEMMA CopiedEdges ==
  ASSUME NEW a, NEW b, Stored(b) = Stored(a), NEW s \in Stored(a), NEW t \in Stored(a), t # s,
         \A x \in Stored(a) \ {t} : b[x] = a[x],
         \A row : (Joins(b[t], row) <=> Joins(a[s], row)) /\ (Joins(row, b[t]) <=> Joins(row, a[s])),
         \A row : ~Joins(a[t], row) /\ ~Joins(row, a[t]),
         ~Joins(b[t], b[t])
  PROVE  Copies(Stored(a), Edges(a), Edges(b), s, t)
<1>1. \A x, y \in Stored(a) : /\ <<x, y>> \in Edges(a) <=> Joins(a[x], a[y])
                              /\ <<x, y>> \in Edges(b) <=> Joins(b[x], b[y])
  BY EdgesJoin
<1>2. \A x, y \in Stored(a) \ {t} : <<x, y>> \in Edges(b) <=> <<x, y>> \in Edges(a)
  BY <1>1
<1>3. \A x \in Stored(a) : <<x, t>> \notin Edges(a) /\ <<t, x>> \notin Edges(a)
  BY <1>1
<1>4. ASSUME NEW x \in Stored(a) \ {t}
      PROVE  /\ <<t, x>> \in Edges(b) <=> <<s, x>> \in Edges(a)
             /\ <<x, t>> \in Edges(b) <=> <<x, s>> \in Edges(a)
  <2>1. (Joins(b[t], b[x]) <=> Joins(a[s], a[x])) /\ (Joins(b[x], b[t]) <=> Joins(a[x], a[s]))
    OBVIOUS
  <2> QED
    BY <1>1, <2>1
<1>5. <<t, t>> \notin Edges(b)
  BY <1>1
<1>6. Edges(a) \subseteq Stored(a) \X Stored(a) /\ Edges(b) \subseteq Stored(a) \X Stored(a)
  BY DEF Edges
<1> QED
  BY <1>2, <1>3, <1>4, <1>5, <1>6 DEF Copies

\* The pairs of a graph that share no end with another (Isolated).
Lone(E) == {e \in E : \A f \in E : f[1] = e[1] \/ f[2] = e[2] => f = e}

LEMMA CopiedLone ==
  ASSUME NEW S, NEW A, NEW B, NEW s, NEW t, Copies(S, A, B, s, t)
  PROVE  /\ \A f \in Lone(B) : f \in Lone(A) /\ f[1] \notin {s, t} /\ f[2] \notin {s, t}
         /\ \A f \in Lone(A) : f[1] # s /\ f[2] # s => f \in Lone(B)
<1>0. s \in S /\ t \in S /\ t # s /\ A \subseteq S \X S /\ B \subseteq S \X S
  BY DEF Copies
<1>1. ASSUME NEW f \in Lone(B) PROVE f \in Lone(A) /\ f[1] \notin {s, t} /\ f[2] \notin {s, t}
  <2>1. PICK x, y \in S : f = <<x, y>>
    BY <1>0 DEF Lone
  <2>2. <<x, y>> \in B /\ \A u \in S : (<<x, u>> \in B => u = y) /\ (<<u, y>> \in B => u = x)
    BY <2>1 DEF Lone
  <2>3. x # t
    BY <2>2 DEF Copies
  <2>4. y # t
    BY <2>2 DEF Copies
  <2>5. x # s /\ y # s
    BY <2>2, <2>3, <2>4 DEF Copies
  <2>6. <<x, y>> \in A
    BY <2>2, <2>3, <2>4 DEF Copies
  <2>7. ASSUME NEW g \in A, g[1] = x \/ g[2] = y PROVE g = <<x, y>>
    <3>1. PICK u, v \in S : g = <<u, v>>
      BY <1>0
    <3>2. u # t /\ v # t
      BY <3>1 DEF Copies
    <3>3. <<u, v>> \in B
      BY <3>1, <3>2 DEF Copies
    <3> QED
      BY <2>2, <2>7, <3>1, <3>3
  <2> QED
    BY <2>1, <2>3, <2>4, <2>5, <2>6, <2>7 DEF Lone
<1>2. ASSUME NEW f \in Lone(A), f[1] # s, f[2] # s PROVE f \in Lone(B)
  <2>1. PICK x, y \in S : f = <<x, y>>
    BY <1>0 DEF Lone
  <2>2. <<x, y>> \in A /\ \A u \in S : (<<x, u>> \in A => u = y) /\ (<<u, y>> \in A => u = x)
    BY <2>1 DEF Lone
  <2>3. x \notin {s, t} /\ y \notin {s, t}
    BY <1>2, <2>1, <2>2 DEF Copies
  <2>4. <<x, y>> \in B
    BY <2>2, <2>3 DEF Copies
  <2>5. ASSUME NEW g \in B, g[1] = x \/ g[2] = y PROVE g = <<x, y>>
    <3>1. PICK u, v \in S : g = <<u, v>>
      BY <1>0
    <3>2. CASE u # t /\ v # t
      BY <2>2, <2>5, <3>1, <3>2 DEF Copies
    <3>3. CASE u = t
      <4>1. v # t /\ v = y
        BY <2>3, <2>5, <3>1, <3>3 DEF Copies
      <4>2. <<s, y>> \in A
        BY <3>1, <3>3, <4>1 DEF Copies
      <4> QED
        BY <1>0, <2>2, <2>3, <4>2
    <3>4. CASE v = t
      <4>1. u # t /\ u = x
        BY <2>3, <2>5, <3>1, <3>4 DEF Copies
      <4>2. <<x, s>> \in A
        BY <3>1, <3>4, <4>1 DEF Copies
      <4> QED
        BY <1>0, <2>2, <2>3, <4>2
    <3> QED
      BY <3>2, <3>3, <3>4
  <2> QED
    BY <2>1, <2>4, <2>5 DEF Lone
<1> QED
  BY <1>1, <1>2

\* A payload meant for s that overwrites an edited row t: s is in no pair any more, and the
\* other pairs and the moves of the own-wallet pass stay as they are.
LEMMA StrayWrite ==
  ASSUME NEW a \in Ledgers, NEW wallets, SlotsIn(a, wallets), OwnSettled(a, wallets),
         NEW s \in Stored(a), NEW t \in Stored(a), t # s, Of(a[t]).transfer = Of(a[s]).transfer,
         a[s].edit = 0, a[t].edit # 0, ~IsOwnGroup(a[s].group),
         NEW r \in Row, r.leg = a[s].leg, r.edit = 0, ~IsOwnGroup(r.group),
         NEW b \in Ledgers, b[t] = r, \A x \in Legs : x # t => b[x] = a[x]
  PROVE  /\ Stored(b) = Stored(a) /\ OwnSettled(b, wallets)
         /\ Isolated(b) = {f \in Isolated(a) : f[1] # s /\ f[2] # s}
         /\ \A f \in Isolated(b) : Link(b, f) = Link(a, f)
<1>1. s \in Legs /\ t \in Legs /\ a[s] # None /\ a[t] # None /\ r # None
  BY LinkingAssumption DEF Stored
<1>2. b[t] = r /\ \A x \in Legs : x # t => b[x] = a[x]
  OBVIOUS
<1>3. Stored(b) = Stored(a)
  BY <1>1, <1>2 DEF Stored
<1>4. Of(r) = Of(a[s]) /\ IsBridgeOut(r) = IsBridgeOut(a[s]) /\ IsLinkableIn(r) = IsLinkableIn(a[s])
  BY DEF Of, IsBridgeOut, IsLinkableIn
<1>5. \A row : Joins(r, row) = Joins(a[s], row) /\ Joins(row, r) = Joins(row, a[s])
  BY <1>4 DEF Joins
<1>6. \A row : ~Joins(a[t], row) /\ ~Joins(row, a[t])
  BY DEF Joins, IsBridgeOut, IsLinkableIn
<1>7. ~Joins(r, r)
  BY DEF Joins, IsBridgeOut, IsLinkableIn
<1>8. \A x \in Stored(a) : x \in Legs /\ (x # t => b[x] = a[x])
  BY <1>2 DEF Stored
<1>9. Copies(Stored(a), Edges(a), Edges(b), s, t)
  BY <1>2, <1>3, <1>5, <1>6, <1>7, <1>8, CopiedEdges
<1>10. /\ Isolated(b) = {f \in Isolated(a) : f[1] # s /\ f[2] # s}
       /\ \A f \in Isolated(b) : f[1] # t /\ f[2] # t
  <2>1. Isolated(a) = Lone(Edges(a)) /\ Isolated(b) = Lone(Edges(b))
    BY DEF Isolated, Lone
  <2>2. /\ \A f \in Isolated(b) : f \in Isolated(a) /\ f[1] \notin {s, t} /\ f[2] \notin {s, t}
        /\ \A f \in Isolated(a) : f[1] # s /\ f[2] # s => f \in Isolated(b)
    BY <1>9, <2>1, CopiedLone
  <2> QED
    BY <2>2
<1>11. \A f \in Isolated(b) : Link(b, f) = Link(a, f)
  <2>1. ASSUME NEW f \in Isolated(b) PROVE Link(b, f) = Link(a, f)
    <3>1. f \in Isolated(a) /\ f[1] # t /\ f[2] # t
      BY <1>10
    <3>2. f[1] \in Stored(a) /\ f[2] \in Stored(a)
      BY <3>1, EdgeFacts
    <3> QED
      BY <1>8, <3>1, <3>2, SameLink
  <2> QED
    BY <2>1
<1>12. OwnSettled(b, wallets)
  <2>1. SlotsIn(b, wallets)
    BY <1>2, <1>3, <1>4, <1>8 DEF SlotsIn
  <2>2. b[s] = a[s] /\ Of(b[t]) = Of(b[s]) /\ b[t].edit = 0 /\ b[s].edit = 0
    BY <1>1, <1>2, <1>4
  <2>3. ~Paired(b, wallets, s) /\ ~Paired(b, wallets, t)
    <3>1. PICK c : c = b
      OBVIOUS
    <3>2. /\ c \in Ledgers /\ SlotsIn(c, wallets) /\ s \in Stored(c) /\ t \in Stored(c)
          /\ Of(c[s]).transfer = Of(c[t]).transfer /\ c[s].edit = 0 /\ c[t].edit = 0
          /\ Of(c[s]).direction = Of(c[t]).direction
      BY <1>2, <1>3, <2>1, <2>2, <3>1
    <3>3. ~Paired(c, wallets, s) /\ ~Paired(c, wallets, t)
      BY <3>2, TwoRows
    <3> QED
      BY <3>1, <3>3
  <2>4. ASSUME NEW u \in OwnMoves(b, wallets), u \notin {s, t}, Of(b[u]).transfer = Of(a[s]).transfer
        PROVE  FALSE
    <3>1. u \in Legs /\ u \in Stored(b) /\ Data[u].transfer = Of(a[s]).transfer
      BY <2>1, <2>4 DEF OwnMoves, Stored, SlotsIn
    <3>2. Data[s].transfer = Of(a[s]).transfer /\ Data[t].transfer = Of(a[s]).transfer
      BY DEF SlotsIn
    <3>3. /\ Data[u].direction # Data[s].direction /\ Data[u].direction # Data[t].direction
          /\ Data[s].direction # Data[t].direction
      BY <1>1, <2>4, <3>1, <3>2, TransferAssumption
    <3>4. \A x \in Legs : Data[x].direction \in {"IN", "OUT"}
      BY LinkingAssumption DEF LegData
    <3> QED
      BY <1>1, <3>1, <3>3, <3>4
  <2>5. ASSUME NEW u \in OwnMoves(b, wallets), Of(b[u]).transfer # Of(a[s]).transfer
        PROVE  IF Paired(b, wallets, u) THEN b[u] = Target(b, wallets, u) ELSE ~IsOwnGroup(b[u].group)
    <3> DEFINE bucket(ledger, direction) ==
                 {x \in OwnMoves(ledger, wallets) : /\ Of(ledger[x]).transfer = Of(ledger[u]).transfer
                                                    /\ Of(ledger[x]).direction = direction}
    <3>1. u # t /\ u \in Stored(a) /\ b[u] = a[u]
      BY <1>2, <1>3, <1>4, <1>8, <2>5 DEF OwnMoves
    <3>2. \A x \in Stored(a) : x # t => (x \in OwnMoves(b, wallets) <=> x \in OwnMoves(a, wallets))
      BY <1>3, <1>8 DEF OwnMoves
    <3>3. \A ledger : OwnMoves(ledger, wallets) \subseteq Stored(ledger)
      BY DEF OwnMoves
    <3>4. ASSUME NEW direction PROVE bucket(b, direction) = bucket(a, direction)
      <4>1. \A x \in bucket(b, direction) : x # t
        BY <1>2, <1>4, <2>5
      <4>2. \A x \in bucket(a, direction) : x # t
        BY <2>5, <3>1
      <4> QED
        BY <1>3, <1>8, <3>1, <3>2, <3>3, <4>1, <4>2
    <3>5. \A ledger : Paired(ledger, wallets, u) =
            (Cardinality(bucket(ledger, "OUT")) = 1 /\ Cardinality(bucket(ledger, "IN")) = 1)
      BY DEF Paired
    <3> HIDE DEF bucket
    <3>6. Paired(b, wallets, u) = Paired(a, wallets, u)
      BY <3>4, <3>5
    <3>7. OwnGroup(b, wallets, u) = OwnGroup(a, wallets, u)
      BY <3>1, <3>6 DEF OwnGroup
    <3>8. Target(b, wallets, u) = Target(a, wallets, u)
      BY <3>1, <3>7 DEF Target
    <3>9. u \in OwnMoves(a, wallets)
      BY <2>5, <3>1, <3>2
    <3> QED
      BY <3>1, <3>6, <3>8, <3>9 DEF OwnSettled
  <2>6. ASSUME NEW u \in OwnMoves(b, wallets)
        PROVE  IF Paired(b, wallets, u) THEN b[u] = Target(b, wallets, u) ELSE ~IsOwnGroup(b[u].group)
    <3>1. CASE Of(b[u]).transfer = Of(a[s]).transfer
      <4>1. u = s \/ u = t
        BY <2>4, <3>1
      <4>2. ~IsOwnGroup(b[u].group)
        BY <1>2, <2>2, <4>1
      <4>3. ~Paired(b, wallets, u)
        BY <2>3, <4>1
      <4> QED
        BY <4>2, <4>3
    <3> QED
      BY <2>5, <3>1
  <2> QED
    BY <2>6 DEF OwnSettled
<1> QED
  BY <1>2, <1>3, <1>10, <1>11, <1>12

-----------------------------------------------------------------------------
(* The steps of undisturbed passes.                                         *)

LEMMA HealOwnLedger ==
  ASSUME IInv, Healing, OwnLedger
  PROVE  Healing'
<1> SUFFICES ASSUME quiet' PROVE Healing'
  BY DEF Healing
<1>1. quiet /\ sync.step = "own" /\ rows' = rows /\ bound' = bound
  BY DEF OwnLedger
<1>2. sync.wallets = bound /\ rows \in Ledgers /\ sync \in Sync
  BY <1>1 DEF Healing, IInv, Types, SyncOK, Ledgers
<1>3. PICK p : p = OwnPlan(rows, bound)
  OBVIOUS
<1>4. sync' = [sync EXCEPT !.step = "owning", !.plan = p]
  BY <1>2, <1>3 DEF OwnLedger
<1>5. sync'.step = "owning" /\ sync'.plan = p /\ sync'.wallets = bound
  BY <1>2, <1>4 DEF Sync
<1>6. Owning(sync', rows, bound)
  BY <1>2, <1>3, <1>5, OwnPlanIsTarget DEF Owning
<1>7. Owning(sync', rows', bound')
  BY <1>1, <1>6
<1> QED
  BY <1>1, <1>5, <1>7 DEF Healing

LEMMA HealOwnWrite ==
  ASSUME IInv, Healing, NEW w \in sync.plan, OwnWrite(w)
  PROVE  Healing'
<1> SUFFICES ASSUME quiet' PROVE Healing'
  BY DEF Healing
<1>1. quiet /\ sync.step = "owning" /\ bound' = bound
  BY DEF OwnWrite
<1>2. sync.wallets = bound /\ Owning(sync, rows, bound) /\ rows \in Ledgers
  BY <1>1 DEF Healing, IInv, Types, Ledgers
<1>3. w.slot \in OwnMoves(rows, bound) /\ w.row = Target(rows, bound, w.slot) /\ w \in Write
  BY <1>1, <1>2 DEF Owning, IInv, SyncOK
<1>4. w.slot \in Legs /\ rows[w.slot] # None
  BY <1>3 DEF OwnMoves, Stored
<1>5. rows' = [rows EXCEPT ![w.slot] = w.row]
  BY <1>4 DEF OwnWrite, Store
<1>6. w.row \in Row /\ w.row # None /\ w.row.leg = rows[w.slot].leg /\ w.row.edit = rows[w.slot].edit
  BY <1>3, LinkingAssumption DEF Write, Target
<1>7. rows' \in Ledgers /\ rows'[w.slot] = w.row /\ \A t \in Legs : t # w.slot => rows'[t] = rows[t]
  BY <1>2, <1>4, <1>5, <1>6 DEF Ledgers
<1>8. Alike(rows, rows')
  BY <1>4, <1>6, <1>7 DEF Alike
<1>9. PICK new : new = rows'
  OBVIOUS
<1>10. /\ OwnMoves(new, bound) = OwnMoves(rows, bound)
       /\ \A s \in OwnMoves(rows, bound) : Target(new, bound, s) = Target(rows, bound, s)
  BY <1>2, <1>7, <1>8, <1>9, AlikeMoves
<1>11. /\ sync'.step = "owning" /\ sync'.wallets = sync.wallets
       /\ sync'.plan = sync.plan \ {w}
  BY <1>1 DEF OwnWrite, IInv, SyncOK, Sync
<1>12. ASSUME NEW v \in sync'.plan
       PROVE  v.slot \in OwnMoves(new, bound) /\ v.row = Target(new, bound, v.slot)
  BY <1>2, <1>10, <1>11, <1>12 DEF Owning
<1>13. ASSUME NEW s \in OwnMoves(new, bound)
       PROVE  new[s] = Target(new, bound, s) \/ \E v \in sync'.plan : v.slot = s
  <2>1. s \in OwnMoves(rows, bound) /\ s \in Legs
    BY <1>10, <1>13 DEF OwnMoves, Stored
  <2>2. CASE s = w.slot
    BY <1>3, <1>7, <1>9, <1>10, <2>1, <2>2
  <2>3. CASE s # w.slot /\ rows[s] = Target(rows, bound, s)
    BY <1>7, <1>9, <1>10, <2>1, <2>3
  <2>4. CASE s # w.slot /\ \E v \in sync.plan : v.slot = s
    BY <1>11, <2>4
  <2> QED
    BY <1>2, <2>1, <2>2, <2>3, <2>4 DEF Owning
<1>14. Owning(sync', new, bound)
  BY <1>12, <1>13 DEF Owning
<1>15. Owning(sync', rows', bound')
  BY <1>1, <1>9, <1>14
<1> QED
  BY <1>1, <1>2, <1>11, <1>15 DEF Healing

LEMMA HealBridgeLedger ==
  ASSUME IInv, Healing, BridgeLedger
  PROVE  Healing'
<1> SUFFICES ASSUME quiet' PROVE Healing'
  BY DEF Healing
<1>1. quiet /\ sync.step = "owning" /\ sync.plan = {} /\ rows' = rows /\ bound' = bound
  BY DEF BridgeLedger
<1>2. OwnSettled(rows, bound)
  <2>1. \A s \in OwnMoves(rows, bound) : rows[s] = Target(rows, bound, s)
    BY <1>1 DEF Healing, Owning
  <2>2. \A s \in OwnMoves(rows, bound) : ~Paired(rows, bound, s) => OwnGroup(rows, bound, s) = None
    BY DEF OwnGroup
  <2>3. ASSUME NEW s \in OwnMoves(rows, bound), ~Paired(rows, bound, s)
        PROVE  ~IsOwnGroup(rows[s].group)
    <3>1. PICK q : q = Target(rows, bound, s)
      OBVIOUS
    <3>2. q.group = None
      BY <2>2, <2>3, <3>1 DEF Target
    <3> QED
      BY <2>1, <3>1, <3>2 DEF IsOwnGroup
  <2> QED
    BY <2>1, <2>3 DEF OwnSettled
<1>3. PICK p : p = BridgePlan(rows)
  OBVIOUS
<1>4. sync' = [step |-> "bridging", wallets |-> {}, plan |-> p, in |-> None]
  BY <1>3 DEF BridgeLedger, Idle
<1>5. sync'.step = "bridging" /\ sync'.plan = p
  BY <1>4
<1>6. Bridging(sync', rows)
  BY <1>3, <1>5 DEF Bridging, BridgePlan
<1>7. OwnSettled(rows', bound') /\ Bridging(sync', rows')
  BY <1>1, <1>2, <1>6
<1> QED
  BY <1>5, <1>7 DEF Healing

LEMMA HealSyncEnds ==
  ASSUME IInv, Healing, SyncEnds
  PROVE  Healing'
<1> SUFFICES ASSUME quiet' PROVE Healing'
  BY DEF Healing
<1>1. quiet /\ sync.step = "bridging" /\ sync.plan = {} /\ rows' = rows /\ bound' = bound
  BY DEF SyncEnds
<1>2. OwnSettled(rows, bound) /\ \A e \in Isolated(rows) : Linked(rows, e)
  BY <1>1 DEF Healing, Bridging, Halfway
<1>3. sync'.step = "idle"
  BY DEF SyncEnds, Idle
<1>4. OwnSettled(rows', bound') /\ \A e \in Isolated(rows') : Linked(rows', e)
  BY <1>1, <1>2
<1> QED
  BY <1>3, <1>4 DEF Healing

\* A bridge write with rows to find writes one of the rows of its transfer.
LEMMA BridgeWriteCases ==
  ASSUME rows \in Ledgers, NEW ws, BridgeWrite(ws),
         \A w \in ws : w.slot \in Stored(rows) /\ Of(rows[w.slot]).transfer = Of(w.row).transfer
  PROVE  \/ ws = {} /\ rows' = rows
         \/ \E w \in ws, t \in Stored(rows) :
              Of(rows[t]).transfer = Of(w.row).transfer /\ rows' = [rows EXCEPT ![t] = w.row]
<1>1. CASE (\A w \in ws : Found(w.row) = {}) /\ UNCHANGED <<rows, misled>>
  <2>1. \A w \in ws : w.slot \in Found(w.row)
    BY DEF Found
  <2> QED
    BY <1>1, <2>1
<1>2. CASE \E w \in ws : \E s \in Found(w.row) :
             /\ rows' = [rows EXCEPT ![s] = w.row]
             /\ misled' = misled \cup ({s} \ {w.slot})
  <2>1. PICK w \in ws : \E s \in Found(w.row) : rows' = [rows EXCEPT ![s] = w.row]
    BY <1>2
  <2>2. PICK s \in Found(w.row) : rows' = [rows EXCEPT ![s] = w.row]
    BY <2>1
  <2>3. s \in Stored(rows) /\ Of(rows[s]).transfer = Of(w.row).transfer
    BY DEF Found
  <2> QED
    BY <2>2, <2>3
<1> QED
  BY <1>1, <1>2 DEF BridgeWrite

Placed(a, b, t, r) == b = [a EXCEPT ![t] = r]

\* The payload of a row that nobody edited, written to another row of its transfer: the user
\* had edited that one.
LEMMA Stray ==
  ASSUME IInv, rows \in Ledgers, OwnSettled(rows, bound),
         NEW s \in Stored(rows), Apart(rows, s), rows[s].edit = 0, ~IsOwnGroup(rows[s].group),
         NEW t \in Stored(rows), t # s, Of(rows[t]).transfer = Of(rows[s]).transfer,
         NEW r \in Row, r.leg = rows[s].leg, r.edit = 0, ~IsOwnGroup(r.group),
         NEW b, Placed(rows, b, t, r)
  PROVE  /\ b \in Ledgers /\ b[t] = r /\ Stored(b) = Stored(rows) /\ \A x \in Legs : x # t => b[x] = rows[x]
         /\ OwnSettled(b, bound)
         /\ Isolated(b) = {f \in Isolated(rows) : f[1] # s /\ f[2] # s}
         /\ \A f \in Isolated(b) : Link(b, f) = Link(rows, f)
<1>1. SlotsIn(rows, bound)
  BY DEF IInv, Slots, SlotsIn, Stored
<1>2. rows[t].edit # 0
  BY DEF Apart
<1>3. PICK c : c = b
  OBVIOUS
<1>4. c \in Ledgers /\ c[t] = r /\ \A x \in Legs : x # t => c[x] = rows[x]
  BY <1>3 DEF Ledgers, Stored, Placed
<1>5. PICK a : a = rows
  OBVIOUS
<1>6. /\ a \in Ledgers /\ SlotsIn(a, bound) /\ OwnSettled(a, bound)
      /\ s \in Stored(a) /\ t \in Stored(a) /\ Of(a[t]).transfer = Of(a[s]).transfer
      /\ a[s].edit = 0 /\ a[t].edit # 0 /\ ~IsOwnGroup(a[s].group) /\ r.leg = a[s].leg
      /\ \A x \in Legs : x # t => c[x] = a[x]
  BY <1>1, <1>2, <1>4, <1>5
<1>7. /\ Stored(c) = Stored(a) /\ OwnSettled(c, bound)
      /\ Isolated(c) = {f \in Isolated(a) : f[1] # s /\ f[2] # s}
      /\ \A f \in Isolated(c) : Link(c, f) = Link(a, f)
  BY <1>4, <1>6, StrayWrite
<1> QED
  BY <1>3, <1>4, <1>5, <1>7

\* A pair's writes fit its rows.
LEMMA PairFits ==
  ASSUME NEW ledger \in Ledgers, NEW e \in Isolated(ledger)
  PROVE  /\ \A w \in Link(ledger, e).out : w.slot = e[1] /\ Fits(ledger, w)
         /\ \A w \in Link(ledger, e).in : w.slot = e[2] /\ Fits(ledger, w)
<1>1. PICK o, i : o = ledger[e[1]] /\ i = ledger[e[2]]
  OBVIOUS
<1>2. /\ Link(ledger, e).out = WriteOf(e[1], OutRow(o, i), o)
      /\ Link(ledger, e).in = WriteOf(e[2], InRow(o, i), i)
  BY <1>1, LinkFields
<1>3. \A slot, row, was : \A w \in WriteOf(slot, row, was) : w.slot = slot /\ w.row = row
  BY DEF WriteOf
<1>4. e[1] \in Stored(ledger) /\ e[2] \in Stored(ledger) /\ o.edit = 0 /\ i.edit = 0
  BY <1>1, EdgeFacts DEF IsBridgeOut, IsLinkableIn
<1>5. /\ OutRow(o, i) \in Row /\ OutRow(o, i).leg = o.leg /\ OutRow(o, i).edit = o.edit
      /\ InRow(o, i) \in Row /\ InRow(o, i).leg = i.leg /\ InRow(o, i).edit = i.edit
      /\ ~IsOwnGroup(OutRow(o, i).group) /\ ~IsOwnGroup(InRow(o, i).group)
      /\ ~IsOwnGroup(o.group) /\ ~IsOwnGroup(i.group)
  BY <1>1, PairRows
<1> QED
  BY <1>1, <1>2, <1>3, <1>4, <1>5 DEF Fits

\* The links that are left after a write for a row of no other pair.
LEMMA InIsWritten ==
  ASSUME Bridging(sync, rows), sync.step = "in", sync'.step = "bridging", sync'.plan = sync.plan,
         NEW new, NEW w \in sync.in, rows \in Ledgers,
         \A f \in Isolated(new) : f \in Isolated(rows) /\ f[2] # w.slot /\ Link(new, f) = Link(rows, f),
         \A l \in sync.plan : \E f \in Isolated(new) : l = Link(rows, f)
  PROVE  Bridging(sync', new)
<1>1. \A l \in sync'.plan : \E f \in Isolated(new) : l = Link(new, f)
  OBVIOUS
<1>2. ASSUME NEW f \in Isolated(new) PROVE Linked(new, f) \/ Link(new, f) \in sync'.plan
  <2>1. f \in Isolated(rows) /\ f[2] # w.slot /\ Link(new, f) = Link(rows, f)
    OBVIOUS
  <2>2. ~Halfway(sync, rows, f)
    BY <2>1, LinkSlots DEF Halfway
  <2> QED
    BY <2>1, <2>2 DEF Bridging, Linked
<1> QED
  BY <1>1, <1>2 DEF Bridging

LEMMA HealBridgeOut ==
  ASSUME IInv, Healing, NEW l \in sync.plan, BridgeOut(l)
  PROVE  Healing'
<1> SUFFICES ASSUME quiet' PROVE Healing'
  BY DEF Healing
<1>1. sync.step = "bridging" /\ bound' = bound /\ sync \in Sync /\ rows \in Ledgers
  BY DEF BridgeOut, IInv, SyncOK, Types, Ledgers
<1>2. /\ sync'.step = "in" /\ sync'.plan = sync.plan \ {l} /\ sync'.in = l.in
  BY <1>1 DEF BridgeOut, Sync
<1>3. quiet /\ Bridging(sync, rows) /\ OwnSettled(rows, bound)
  <2>1. quiet
    BY DEF BridgeOut
  <2> QED
    BY <1>1, <2>1 DEF Healing
<1>4. PICK e \in Isolated(rows) : l = Link(rows, e)
  BY <1>3 DEF Bridging
<1>5. \A w \in l.out : w.slot = e[1] /\ Fits(rows, w)
  BY <1>1, <1>4, PairFits
<1>5a. \/ l.out = {} /\ rows' = rows
       \/ \E w \in l.out, t \in Stored(rows) :
            Of(rows[t]).transfer = Of(w.row).transfer /\ rows' = [rows EXCEPT ![t] = w.row]
  <2>1. \A w \in l.out : w.slot \in Stored(rows) /\ Of(rows[w.slot]).transfer = Of(w.row).transfer
    BY <1>5 DEF Fits, Of
  <2>2. BridgeWrite(l.out)
    BY DEF BridgeOut
  <2> QED
    BY <1>1, <2>1, <2>2, BridgeWriteCases
<1>6. OwnSettled(rows', bound') /\ Bridging(sync', rows')
  <2>1. CASE l.out = {} /\ rows' = rows
    <3>1. Halfway(sync', rows, e) /\ (Link(rows, e) \in sync'.plan => Linked(rows, e))
      BY <1>2, <1>4, <2>1 DEF Halfway
    <3>2. ASSUME NEW f \in Isolated(rows)
          PROVE  Linked(rows, f) \/ Link(rows, f) \in sync'.plan \/ Halfway(sync', rows, f)
      BY <1>1, <1>2, <1>3, <2>1, <3>2 DEF Bridging, Halfway
    <3>3. \A k \in sync'.plan : \E f \in Isolated(rows) : k = Link(rows, f)
      BY <1>2, <1>3 DEF Bridging
    <3>4. Bridging(sync', rows)
      BY <3>1, <3>2, <3>3 DEF Bridging
    <3> QED
      BY <1>1, <1>3, <2>1, <3>4
  <2>2. ASSUME NEW w \in l.out, rows' = [rows EXCEPT ![w.slot] = w.row]
        PROVE  OwnSettled(rows', bound') /\ Bridging(sync', rows')
    <3>0. PICK new : new = rows'
      OBVIOUS
    <3>1. Written(rows, new, w)
      BY <2>2, <3>0 DEF Written
    <3>2. /\ Isolated(new) = Isolated(rows)
          /\ \A wallets : OwnSettled(rows, wallets) => OwnSettled(new, wallets)
          /\ Link(new, e).out = {} /\ Link(new, e).in = l.in
          /\ \A f \in Isolated(rows) : f # e => Link(new, f) = Link(rows, f) /\ w \notin Link(rows, f).out
      BY <1>1, <1>4, <2>2, <3>1, OutWritten
    <3>3. \A k \in sync'.plan : \E f \in Isolated(new) : f # e /\ k = Link(new, f)
      <4>1. ASSUME NEW k \in sync'.plan PROVE \E f \in Isolated(new) : f # e /\ k = Link(new, f)
        <5>1. PICK f \in Isolated(rows) : k = Link(rows, f)
          BY <1>2, <1>3, <4>1 DEF Bridging
        <5>2. f # e
          BY <1>2, <1>4, <4>1, <5>1
        <5> QED
          BY <3>2, <5>1, <5>2
      <4> QED
        BY <4>1
    <3>4. Halfway(sync', new, e)
      BY <1>2, <3>2 DEF Halfway
    <3>5. ASSUME Link(new, e) \in sync'.plan PROVE Linked(new, e)
      <4>1. PICK f \in Isolated(new) : f # e /\ Link(new, e) = Link(new, f)
        BY <3>3, <3>5
      <4>2. Link(rows, f).in = Link(rows, e).in /\ f \in Isolated(rows)
        BY <1>4, <3>2, <4>1
      <4>3. f[2] # e[2]
        BY <1>1, <4>1, <4>2, PairsApart
      <4>4. Link(rows, e).in = {}
        BY <1>1, <4>2, <4>3, LinkSlots
      <4> QED
        BY <1>4, <3>2, <4>4 DEF Linked
    <3>6. ASSUME NEW f \in Isolated(new)
          PROVE  Linked(new, f) \/ Link(new, f) \in sync'.plan \/ Halfway(sync', new, f)
      <4>1. CASE f = e
        BY <3>4, <4>1
      <4>2. CASE f # e
        <5>1. Link(new, f) = Link(rows, f) /\ Link(rows, f) # l /\ f \in Isolated(rows)
          BY <2>2, <3>2, <3>6, <4>2
        <5>2. Linked(rows, f) \/ Link(rows, f) \in sync.plan
          BY <1>1, <1>3, <5>1 DEF Bridging, Halfway
        <5> QED
          BY <1>2, <5>1, <5>2 DEF Linked
      <4> QED
        BY <4>1, <4>2
    <3>7. Bridging(sync', new)
      BY <1>4, <3>2, <3>3, <3>4, <3>5, <3>6 DEF Bridging
    <3> QED
      BY <1>1, <1>3, <3>0, <3>2, <3>7
  <2>3. ASSUME NEW w \in l.out, NEW t \in Stored(rows), t # w.slot, Of(rows[t]).transfer = Of(w.row).transfer,
               rows' = [rows EXCEPT ![t] = w.row]
        PROVE  OwnSettled(rows', bound') /\ Bridging(sync', rows')
    <3>1. PICK new : new = rows'
      OBVIOUS
    <3>2. PICK s, r : s = e[1] /\ r = w.row
      OBVIOUS
    <3>3. /\ w.slot = s /\ s \in Stored(rows) /\ rows[s].edit = 0 /\ ~IsOwnGroup(rows[s].group)
          /\ r \in Row /\ r.leg = rows[s].leg /\ r.edit = 0 /\ ~IsOwnGroup(r.group)
      BY <1>5, <3>2 DEF Fits
    <3>4. Apart(rows, s) /\ Apart(rows, e[2])
      <4>1. SlotsIn(rows, bound)
        BY DEF IInv, Slots, SlotsIn, Stored
      <4> QED
        BY <1>1, <1>3, <3>2, <4>1, Alone
    <3>5. t # s /\ Of(rows[t]).transfer = Of(rows[s]).transfer /\ Placed(rows, new, t, r)
      BY <2>3, <3>1, <3>2, <3>3 DEF Of, Placed
    <3>6. /\ new \in Ledgers /\ new[t] = r /\ Stored(new) = Stored(rows) /\ \A x \in Legs : x # t => new[x] = rows[x]
          /\ OwnSettled(new, bound)
          /\ Isolated(new) = {f \in Isolated(rows) : f[1] # s /\ f[2] # s}
          /\ \A f \in Isolated(new) : Link(new, f) = Link(rows, f)
      BY <1>1, <1>3, <3>3, <3>4, <3>5, Stray
    <3>7. Isolated(new) = Isolated(rows) \ {e}
      BY <1>1, <3>2, <3>6, PairsApart
    <3>8. \A k \in sync'.plan : \E f \in Isolated(new) : k = Link(new, f)
      <4>1. ASSUME NEW k \in sync'.plan PROVE \E f \in Isolated(new) : k = Link(new, f)
        <5>1. PICK f \in Isolated(rows) : k = Link(rows, f)
          BY <1>2, <1>3, <4>1 DEF Bridging
        <5>2. f # e
          BY <1>2, <1>4, <4>1, <5>1
        <5> QED
          BY <3>6, <3>7, <5>1, <5>2
      <4> QED
        BY <4>1
    <3>9. Astray(sync'.in, new)
      <4>1. PICK u : u = e[2]
        OBVIOUS
      <4>2. /\ u \in Stored(rows) /\ u \in Legs
            /\ Of(rows[u]).transfer # Of(rows[s]).transfer
        BY <1>1, <3>2, <4>1, EdgeFacts DEF Isolated, Edges, IsPair, Stored
      <4>3. u # t /\ new[u] = rows[u]
        BY <3>5, <3>6, <4>2
      <4>4. Apart(new, u)
        <5>1. ASSUME NEW x \in Stored(new) \ {u}, Of(new[x]).transfer = Of(new[u]).transfer
              PROVE  new[x].edit # 0
          <6>1. Of(new[t]).transfer = Of(rows[s]).transfer
            BY <3>3, <3>6 DEF Of
          <6>2. x # t
            BY <4>2, <4>3, <5>1, <6>1
          <6>3. new[x] = rows[x] /\ x \in Stored(rows) \ {u}
            BY <3>6, <5>1, <6>2 DEF Stored
          <6> QED
            BY <3>4, <4>1, <4>3, <5>1, <6>3 DEF Apart
        <5> QED
          BY <5>1 DEF Apart
      <4>5. \A f \in Isolated(new) : f[1] # u /\ f[2] # u
        BY <1>1, <3>7, <4>1, PairsApart
      <4>6. \A v \in sync'.in : v.slot = u /\ Fits(rows, v)
        BY <1>1, <1>2, <1>4, <4>1, PairFits
      <4>7. \A v \in sync'.in : Fits(new, v)
        BY <3>6, <4>3, <4>6 DEF Fits
      <4> QED
        BY <4>4, <4>5, <4>6, <4>7 DEF Astray
    <3>10. ASSUME NEW f \in Isolated(new) PROVE Linked(new, f) \/ Link(new, f) \in sync'.plan
      <4>1. f \in Isolated(rows) /\ f # e /\ Link(new, f) = Link(rows, f)
        BY <3>6, <3>7
      <4>2. Link(rows, f) # l
        <5>1. f[1] # e[1] /\ \A v \in Link(rows, f).out : v.slot = f[1]
          BY <1>1, <4>1, PairsApart, LinkSlots
        <5> QED
          BY <1>5, <2>3, <5>1
      <4>3. Linked(rows, f) \/ Link(rows, f) \in sync.plan
        BY <1>1, <1>3, <4>1 DEF Bridging, Halfway
      <4> QED
        BY <1>2, <4>1, <4>2, <4>3 DEF Linked
    <3>11. Bridging(sync', new)
      BY <3>8, <3>9, <3>10 DEF Bridging
    <3> QED
      BY <1>1, <3>1, <3>6, <3>11
  <2> QED
    BY <1>5a, <2>1, <2>2, <2>3
<1> QED
  BY <1>2, <1>6 DEF Healing

LEMMA HealBridgeIn ==
  ASSUME IInv, Healing, BridgeIn
  PROVE  Healing'
<1> SUFFICES ASSUME quiet' PROVE Healing'
  BY DEF Healing
<1>1. sync.step = "in" /\ bound' = bound /\ sync \in Sync /\ rows \in Ledgers
  BY DEF BridgeIn, IInv, SyncOK, Types, Ledgers
<1>2. sync'.step = "bridging" /\ sync'.plan = sync.plan
  BY <1>1 DEF BridgeIn, Sync
<1>3. quiet /\ Bridging(sync, rows) /\ OwnSettled(rows, bound)
  <2>1. quiet
    BY DEF BridgeIn
  <2> QED
    BY <1>1, <2>1 DEF Healing
<1>4. CASE sync.in = {} /\ rows' = rows
  <2>1. ASSUME NEW f \in Isolated(rows)
        PROVE  Linked(rows, f) \/ Link(rows, f) \in sync'.plan
    BY <1>2, <1>3, <1>4, <2>1 DEF Bridging, Halfway, Linked
  <2>2. Bridging(sync', rows)
    BY <1>2, <1>3, <2>1 DEF Bridging
  <2> QED
    BY <1>1, <1>2, <1>3, <1>4, <2>2 DEF Healing
<1>5. ASSUME NEW w \in sync.in, NEW t \in Stored(rows), Of(rows[t]).transfer = Of(w.row).transfer,
             rows' = [rows EXCEPT ![t] = w.row],
             NEW e \in Isolated(rows), Halfway(sync, rows, e), Link(rows, e) \in sync.plan => Linked(rows, e)
      PROVE  OwnSettled(rows', bound') /\ Bridging(sync', rows')
  <2>1. sync.in = Link(rows, e).in /\ Link(rows, e).out = {} /\ w \in Link(rows, e).in
    BY <1>5 DEF Halfway
  <2>2. w.slot = e[2] /\ Fits(rows, w)
    BY <1>1, <2>1, PairFits
  <2>3. Link(rows, e) \notin sync.plan
    BY <1>5, <2>1 DEF Linked
  <2>4. \A l \in sync.plan : \E f \in Isolated(rows) : f # e /\ l = Link(rows, f)
    <3>1. ASSUME NEW l \in sync.plan PROVE \E f \in Isolated(rows) : f # e /\ l = Link(rows, f)
      <4>1. PICK f \in Isolated(rows) : l = Link(rows, f)
        BY <1>3 DEF Bridging
      <4> QED
        BY <2>3, <4>1
    <3> QED
      BY <3>1
  <2>5. CASE t = w.slot
    <3>1. PICK new : new = rows'
      OBVIOUS
    <3>2. Written(rows, new, w)
      BY <1>5, <2>5, <3>1 DEF Written
    <3>3. /\ Isolated(new) = Isolated(rows)
          /\ \A wallets : OwnSettled(rows, wallets) => OwnSettled(new, wallets)
          /\ Link(new, e).in = {} /\ Link(new, e).out = {}
          /\ \A f \in Isolated(rows) : f # e => Link(new, f) = Link(rows, f) /\ w \notin Link(rows, f).in
      BY <1>1, <2>1, <3>2, InWritten
    <3>4. \A l \in sync'.plan : \E f \in Isolated(new) : l = Link(new, f)
      BY <1>2, <2>4, <3>3
    <3>5. ASSUME NEW f \in Isolated(new) PROVE Linked(new, f) \/ Link(new, f) \in sync'.plan
      <4>1. CASE f = e
        BY <3>3, <4>1 DEF Linked
      <4>2. CASE f # e
        <5>1. Link(new, f) = Link(rows, f) /\ w \notin Link(rows, f).in /\ f \in Isolated(rows)
          BY <3>3, <3>5, <4>2
        <5>2. Linked(rows, f) \/ Link(rows, f) \in sync.plan
          BY <1>3, <1>5, <5>1 DEF Bridging, Halfway
        <5> QED
          BY <1>2, <5>1, <5>2 DEF Linked
      <4> QED
        BY <4>1, <4>2
    <3>6. Bridging(sync', new)
      BY <1>2, <3>4, <3>5 DEF Bridging
    <3> QED
      BY <1>1, <1>3, <3>1, <3>3, <3>6
  <2>6. CASE t # w.slot
    <3>1. PICK new : new = rows'
      OBVIOUS
    <3>2. PICK s, r : s = e[2] /\ r = w.row
      OBVIOUS
    <3>3. /\ w.slot = s /\ s \in Stored(rows) /\ rows[s].edit = 0 /\ ~IsOwnGroup(rows[s].group)
          /\ r \in Row /\ r.leg = rows[s].leg /\ r.edit = 0 /\ ~IsOwnGroup(r.group)
      BY <2>2, <3>2 DEF Fits
    <3>4. Apart(rows, s)
      <4>1. SlotsIn(rows, bound)
        BY DEF IInv, Slots, SlotsIn, Stored
      <4> QED
        BY <1>1, <1>3, <3>2, <4>1, Alone
    <3>5. t # s /\ Of(rows[t]).transfer = Of(rows[s]).transfer /\ Placed(rows, new, t, r)
      BY <1>5, <2>6, <3>1, <3>2, <3>3 DEF Of, Placed
    <3>6. /\ OwnSettled(new, bound)
          /\ Isolated(new) = {f \in Isolated(rows) : f[1] # s /\ f[2] # s}
          /\ \A f \in Isolated(new) : Link(new, f) = Link(rows, f)
      BY <1>1, <1>3, <3>3, <3>4, <3>5, Stray
    <3>7. Isolated(new) = Isolated(rows) \ {e}
      BY <1>1, <3>2, <3>6, PairsApart
    <3>8. \A f \in Isolated(new) : f \in Isolated(rows) /\ f[2] # w.slot /\ Link(new, f) = Link(rows, f)
      BY <3>3, <3>6
    <3>9. \A l \in sync.plan : \E f \in Isolated(new) : l = Link(rows, f)
      BY <2>4, <3>7
    <3>10. Bridging(sync', new)
      BY <1>1, <1>2, <1>3, <1>5, <3>8, <3>9, InIsWritten
    <3> QED
      BY <1>1, <3>1, <3>6, <3>10
  <2> QED
    BY <2>5, <2>6
<1>6. ASSUME NEW w \in sync.in, NEW t \in Stored(rows), Of(rows[t]).transfer = Of(w.row).transfer,
             rows' = [rows EXCEPT ![t] = w.row], Astray(sync.in, rows)
      PROVE  OwnSettled(rows', bound') /\ Bridging(sync', rows')
  <2>1. PICK new : new = rows'
    OBVIOUS
  <2>2. PICK s, r : s = w.slot /\ r = w.row
    OBVIOUS
  <2>3. /\ s \in Stored(rows) /\ rows[s].edit = 0 /\ ~IsOwnGroup(rows[s].group) /\ Apart(rows, s)
        /\ r \in Row /\ r.leg = rows[s].leg /\ r.edit = 0 /\ ~IsOwnGroup(r.group)
        /\ \A f \in Isolated(rows) : f[1] # s /\ f[2] # s
    BY <1>6, <2>2 DEF Astray, Fits
  <2>4. /\ OwnSettled(new, bound) /\ Isolated(new) = Isolated(rows)
        /\ \A f \in Isolated(new) : Link(new, f) = Link(rows, f)
    <3>1. CASE t = s
      <4>1. Written(rows, new, w)
        BY <1>6, <2>1, <2>2, <3>1 DEF Written
      <4>2. /\ new \in Ledgers /\ \A x \in Legs : x # s => new[x] = rows[x]
            /\ Isolated(new) = Isolated(rows)
            /\ \A wallets : OwnSettled(rows, wallets) => OwnSettled(new, wallets)
        BY <1>1, <2>2, <2>3, <4>1, BridgeWriteStays
      <4>3. ASSUME NEW f \in Isolated(rows) PROVE Link(new, f) = Link(rows, f)
        <5>1. f[1] \in Legs /\ f[2] \in Legs
          BY <1>1, EdgeFacts DEF Stored
        <5> QED
          BY <1>1, <2>3, <4>2, <5>1, SameLink
      <4> QED
        BY <1>3, <4>2, <4>3
    <3>2. CASE t # s
      <4>1. Of(rows[t]).transfer = Of(rows[s]).transfer /\ Placed(rows, new, t, r)
        BY <1>6, <2>1, <2>2, <2>3 DEF Of, Placed
      <4>2. /\ OwnSettled(new, bound)
            /\ Isolated(new) = {f \in Isolated(rows) : f[1] # s /\ f[2] # s}
            /\ \A f \in Isolated(new) : Link(new, f) = Link(rows, f)
        BY <1>1, <1>3, <2>3, <3>2, <4>1, Stray
      <4> QED
        BY <2>3, <4>2
    <3> QED
      BY <3>1, <3>2
  <2>5. \A f \in Isolated(new) : f \in Isolated(rows) /\ f[2] # w.slot /\ Link(new, f) = Link(rows, f)
    BY <2>2, <2>3, <2>4
  <2>6. \A l \in sync.plan : \E f \in Isolated(new) : l = Link(rows, f)
    BY <1>3, <2>4 DEF Bridging
  <2>7. Bridging(sync', new)
    BY <1>1, <1>2, <1>3, <1>6, <2>5, <2>6, InIsWritten
  <2> QED
    BY <1>1, <2>1, <2>4, <2>7
<1>7. \/ \E e \in Isolated(rows) : Halfway(sync, rows, e) /\ (Link(rows, e) \in sync.plan => Linked(rows, e))
      \/ Astray(sync.in, rows)
  BY <1>1, <1>3 DEF Bridging
<1>8. \/ sync.in = {} /\ rows' = rows
      \/ \E w \in sync.in, t \in Stored(rows) :
           Of(rows[t]).transfer = Of(w.row).transfer /\ rows' = [rows EXCEPT ![t] = w.row]
  <2>1. \A w \in sync.in : Fits(rows, w)
    <3>1. CASE Astray(sync.in, rows)
      BY <3>1 DEF Astray
    <3>2. ASSUME NEW e \in Isolated(rows), Halfway(sync, rows, e) PROVE \A w \in sync.in : Fits(rows, w)
      BY <1>1, <3>2, PairFits DEF Halfway
    <3> QED
      BY <1>7, <3>1, <3>2
  <2>2. \A w \in sync.in : w.slot \in Stored(rows) /\ Of(rows[w.slot]).transfer = Of(w.row).transfer
    BY <2>1 DEF Fits, Of
  <2>3. BridgeWrite(sync.in)
    BY DEF BridgeIn
  <2> QED
    BY <1>1, <2>2, <2>3, BridgeWriteCases
<1>9. sync.in # {} => OwnSettled(rows', bound') /\ Bridging(sync', rows')
  BY <1>5, <1>6, <1>7, <1>8
<1> QED
  BY <1>2, <1>4, <1>8, <1>9 DEF Healing

\* What disturbs the passes says so; what is left does not touch what they see.
LEMMA HealOthers ==
  ASSUME Healing,
         \/ quiet' = FALSE
         \/ UNCHANGED <<rows, bound, sync, quiet>>
         \/ sync'.step = "walk"
         \/ sync'.step = "own" /\ sync'.wallets = bound'
  PROVE  Healing'
<1>1. CASE quiet' = FALSE
  BY <1>1 DEF Healing
<1>2. CASE UNCHANGED <<rows, bound, sync, quiet>>
  BY <1>2 DEF Healing
<1>3. CASE sync'.step = "walk"
  BY <1>3 DEF Healing
<1>4. CASE sync'.step = "own" /\ sync'.wallets = bound'
  BY <1>4 DEF Healing
<1> QED
  BY <1>1, <1>2, <1>3, <1>4

LEMMA HealInductive == IInv /\ Healing /\ [Next]_vars => Healing'
<1> SUFFICES ASSUME IInv, Healing, [Next]_vars PROVE Healing'
  OBVIOUS
<1>1. CASE UNCHANGED vars
  BY <1>1, HealOthers DEF vars
<1>2. CASE Walk
  <2>1. sync'.step = "walk"
    BY <1>2 DEF Walk, Idle
  <2> QED
    BY <2>1, HealOthers
<1>3. CASE OwnWallets
  <2>1. sync'.step = "own" /\ sync'.wallets = bound'
    BY <1>3 DEF OwnWallets, Idle
  <2> QED
    BY <2>1, HealOthers
<1>4. CASE OwnLedger \/ BridgeLedger \/ BridgeIn \/ SyncEnds
  BY <1>4, HealOwnLedger, HealBridgeLedger, HealBridgeIn, HealSyncEnds
<1>5. CASE BridgeInFails \/ LinkingFails
  <2>1. quiet' = FALSE
    BY <1>5 DEF BridgeInFails, LinkingFails
  <2> QED
    BY <2>1, HealOthers
<1>6. CASE UnlinkLedger \/ UnlinkStops \/ UnbindEnds
  <2>1. UNCHANGED <<rows, bound, sync, quiet>>
    BY <1>6 DEF UnlinkLedger, UnlinkStops, UnbindEnds
  <2> QED
    BY <2>1, HealOthers
<1>7. CASE \E l \in Legs : Index(l) \/ Edit(l)
  <2>1. quiet' = FALSE
    BY <1>7 DEF Index, Edit
  <2> QED
    BY <2>1, HealOthers
<1>8. CASE \E w \in Wallets : Bind(w) \/ Unbind(w)
  <2>1. quiet' = FALSE
    BY <1>8 DEF Bind, Unbind
  <2> QED
    BY <2>1, HealOthers
<1>9. CASE \E w \in sync.plan : OwnWrite(w) \/ BridgeOut(w)
  BY <1>9, HealOwnWrite, HealBridgeOut
<1>10. CASE \E w \in sync.plan : OwnWriteFails(w) \/ BridgeOutFails(w)
  <2>1. quiet' = FALSE
    BY <1>10 DEF OwnWriteFails, BridgeOutFails
  <2> QED
    BY <2>1, HealOthers
<1>11. CASE \E w \in unbind.plan : UnlinkWrite(w) \/ UnlinkWriteFails(w)
  <2>1. quiet' = FALSE \/ UNCHANGED <<rows, bound, sync, quiet>>
    BY <1>11 DEF UnlinkWrite, UnlinkWriteFails
  <2> QED
    BY <2>1, HealOthers
<1> QED
  BY <1>1, <1>2, <1>3, <1>4, <1>5, <1>6, <1>7, <1>8, <1>9, <1>10, <1>11 DEF Next

\* Two linked rows carry one key.
LEMMA LinkedShareKey ==
  ASSUME NEW ledger \in Ledgers, NEW e \in Isolated(ledger), Linked(ledger, e)
  PROVE  ledger[e[1]].group = ledger[e[2]].group
<1>1. PICK o, i : o = ledger[e[1]] /\ i = ledger[e[2]]
  OBVIOUS
<1>2. WriteOf(e[1], OutRow(o, i), o) = {} /\ WriteOf(e[2], InRow(o, i), i) = {}
  BY <1>1, LinkFields DEF Linked
<1>3. OutRow(o, i) = o /\ InRow(o, i) = i
  BY <1>2 DEF WriteOf
<1> QED
  BY <1>1, <1>3, PairRows

\* Whatever earlier failures, resyncs, edits and unbinds left, and wherever their own writes
\* land, passes that nothing disturbs leave both legs of every move between bound wallets and
\* of every isolated bridge with one key and all that belongs to it
\* (bridge-linking.service.ts:101-104).  A payload that a misled link left in two rows is
\* neither.
THEOREM HealedTheorem == Spec => []Healed
<1>1. Init => Healing
  BY DEF Init, Healing
<1>2. IInv /\ Healing /\ [Next]_vars => Healing'
  BY HealInductive
<1>3. IInv /\ Healing => Healed
  <2> SUFFICES ASSUME IInv, Healing, sync.step = "idle", quiet
               PROVE  /\ \A s \in OwnMoves(rows, bound) : Paired(rows, bound, s) =>
                           /\ rows[s].class = "INTERNAL_TRANSFER" /\ rows[s].dest = None
                           /\ rows[s].group = <<"own", Of(rows[s]).transfer>>
                      /\ \A e \in Isolated(rows) :
                           /\ Link(rows, e).out = {} /\ Link(rows, e).in = {}
                           /\ rows[e[1]].group = rows[e[2]].group
    BY DEF Healed
  <2>1. OwnSettled(rows, bound) /\ (\A e \in Isolated(rows) : Linked(rows, e)) /\ rows \in Ledgers
    BY DEF Healing, IInv, Types, Ledgers
  <2>2. ASSUME NEW s \in OwnMoves(rows, bound), Paired(rows, bound, s)
        PROVE  /\ rows[s].class = "INTERNAL_TRANSFER" /\ rows[s].dest = None
               /\ rows[s].group = <<"own", Of(rows[s]).transfer>>
    <3>1. rows[s] = Target(rows, bound, s)
      BY <2>1, <2>2 DEF OwnSettled
    <3>2. OwnGroup(rows, bound, s) = <<"own", Of(rows[s]).transfer>>
      BY <2>2 DEF OwnGroup
    <3>3. PICK r : r = rows[s]
      OBVIOUS
    <3>4. r.class = "INTERNAL_TRANSFER" /\ r.dest = None /\ r.group = OwnGroup(rows, bound, s)
      BY <3>1, <3>3 DEF Target
    <3> QED
      BY <3>2, <3>3, <3>4
  <2>3. ASSUME NEW e \in Isolated(rows)
        PROVE  /\ Link(rows, e).out = {} /\ Link(rows, e).in = {}
               /\ rows[e[1]].group = rows[e[2]].group
    BY <2>1, LinkedShareKey DEF Linked
  <2> QED
    BY <2>2, <2>3
<1> QED
  BY <1>1, <1>2, <1>3, InductiveInvariant, PTL DEF Spec
=============================================================================
