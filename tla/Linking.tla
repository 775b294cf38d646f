------------------------------ MODULE Linking ------------------------------
(***************************************************************************)
(* The linking passes at the end of a sync, over one user's ledger:        *)
(* OwnWalletLinkingService (moves between two bound wallets), then         *)
(* BridgeLinkingService (an OUT to a bridge and the IN it became on        *)
(* another chain), with unlinkCounterparty() of an unbind and the user's   *)
(* edits in between.                                                       *)
(*                                                                         *)
(* A pass reads the bindings and the ledger once, plans, and writes whole  *)
(* payloads, row by row; every read and every write is a step.  A row is   *)
(* kept under the leg it was stored for; it also says whose payload it     *)
(* holds, because the bridge pass finds its row by payload.id, which both  *)
(* rows of one transfer may carry.  Legs of a swap (group_id), which       *)
(* neither pass takes, and the confidence, which follows the link, are     *)
(* left out.                                                               *)
(***************************************************************************)
EXTENDS Integers, FiniteSets

CONSTANTS
  Wallets,     \* addresses the user may bind
  Legs,        \* transfers as one wallet sees them
  Data,        \* leg -> what the provider says of it, which never changes
  Stables,     \* USD_STABLE_KEYS
  Window,      \* LINK_WINDOW_MS
  MaxEdits,    \* bound on the user's edits
  None

\* counterparty None is an address outside, asset None one that is not canonical;
\* transfer stands for payload.id and for the transfer key.
LegData == [wallet: Wallets, direction: {"IN", "OUT"}, counterparty: Wallets \cup {None},
            chain: Nat, tx: Nat, transfer: Nat, suspected: BOOLEAN,
            asset: STRING \cup {None}, amount: Nat, at: Nat]

\* Link keys: of a move between own wallets, and of a bridge.
Groups == ({"own"} \X {Data[l].transfer : l \in Legs}) \cup ({"bridge"} \X {Data[l].tx : l \in Legs})

Classes == {"SEND", "RECEIVE", "INTERNAL_TRANSFER", "EXCHANGE", "EDITED"}
Chains == {Data[l].chain : l \in Legs}

\* edit is the number of the user_override, 0 where there is none.
Row == [leg: Legs, class: Classes, group: Groups \cup {None}, dest: Chains \cup {None}, edit: Nat]

ASSUME LinkingAssumption ==
  /\ Data \in [Legs -> LegData]
  /\ {Window, MaxEdits} \subseteq Nat
  /\ None \notin Wallets \cup Groups \cup Row

\* A transfer has one sender, who sees it as OUT, and one receiver, who sees it as IN; a
\* wallet that is both sees it once.
ASSUME TransferAssumption ==
  \A s, t \in Legs : Data[s].transfer = Data[t].transfer =>
    \/ s = t
    \/ /\ Data[s].wallet = Data[t].counterparty /\ Data[s].wallet # Data[t].wallet
       /\ Data[s].direction # Data[t].direction

VARIABLES
  bound,       \* the user's bindings
  rows,        \* leg -> TransactionNormalized, None if it is not stored
  sync,        \* the sync in progress
  unbind,      \* the unbind in progress
  edits,       \* leg -> the last edit of its row, 0 if there is none
  made,        \* edits so far
  quiet,       \* since the bindings were read, no write or read of the passes failed and
               \* nobody but they changed the ledger or the bindings
  exposed,     \* legs edited while a write of their row was planned
  misled,      \* legs whose row was overwritten by a bridge link meant for the other row
               \* of the transfer
  unproven     \* legs whose unbind met an own-wallet pass, or was not carried out

vars == <<bound, rows, sync, unbind, edits, made, quiet, exposed, misled, unproven>>

\* A planned write: the row it is for, and its new payload.
Write == [slot: Legs, row: Row]

Idle == [step |-> "idle", wallets |-> {}, plan |-> {}, in |-> None]
Rest == [step |-> "idle", wallet |-> None, plan |-> {}]

Init ==
  /\ bound = {} /\ rows = [l \in Legs |-> None]
  /\ sync = Idle /\ unbind = Rest
  /\ edits = [l \in Legs |-> 0] /\ made = 0
  /\ quiet = FALSE /\ exposed = {} /\ misled = {} /\ unproven = {}

Of(row) == Data[row.leg]
Stored(ledger) == {s \in Legs : ledger[s] # None}
IsOwnGroup(group) == group # None /\ group[1] = "own"
IsBridgeGroup(group) == group # None /\ group[1] = "bridge"

-----------------------------------------------------------------------------
(* What the own-wallet pass plans.                                          *)

\* Fault: a row the user edited is taken too.
IsOwnMoveEdited(row, wallets) ==
  LET d == Of(row) IN d.counterparty # d.wallet /\ {d.wallet, d.counterparty} \subseteq wallets

IsOwnMove(row, wallets) ==
  LET d == Of(row) IN
  row.edit = 0 /\ d.counterparty # d.wallet /\ {d.wallet, d.counterparty} \subseteq wallets

OwnMoves(ledger, wallets) == {s \in Stored(ledger) : IsOwnMove(ledger[s], wallets)}

\* The bucket of a transfer is one OUT row and one IN row.
Paired(ledger, wallets, s) ==
  LET bucket(direction) ==
        {t \in OwnMoves(ledger, wallets) : /\ Of(ledger[t]).transfer = Of(ledger[s]).transfer
                                           /\ Of(ledger[t]).direction = direction}
  IN Cardinality(bucket("OUT")) = 1 /\ Cardinality(bucket("IN")) = 1

OwnGroup(ledger, wallets, s) ==
  IF Paired(ledger, wallets, s) THEN <<"own", Of(ledger[s]).transfer>> ELSE None

\* apply(): only a payload that differs is written.
OwnPlan(ledger, wallets) ==
  {w \in {[slot |-> s, row |-> [ledger[s] EXCEPT !.class = "INTERNAL_TRANSFER", !.dest = None,
                                                 !.group = OwnGroup(ledger, wallets, s)]] :
          s \in OwnMoves(ledger, wallets)} : w.row # ledger[w.slot]}

-----------------------------------------------------------------------------
(* What the bridge pass plans.                                              *)

IsBridgeOut(row) ==
  /\ Of(row).suspected /\ Of(row).direction = "OUT"
  /\ row.edit = 0 /\ ~IsOwnGroup(row.group)

\* Fault: a leg the own-wallet pass has paired is taken too.
IsLinkableInAny(row) == Of(row).direction = "IN" /\ row.edit = 0

IsLinkableIn(row) == Of(row).direction = "IN" /\ row.edit = 0 /\ ~IsOwnGroup(row.group)

\* amountWithinFeeBand(): 80% to 100.5% of what was sent.
WithinFeeBand(o, i) ==
  /\ o.amount > 0
  /\ i.amount * 1000 >= o.amount * 800 /\ i.amount * 1000 <= o.amount * 1005

WithinWindow(o, i) == i.at >= o.at /\ i.at - o.at <= Window

\* linkKind(): the same canonical asset, or two different stablecoins.
LinkKind(o, i) ==
  IF o.asset = None \/ i.asset = None THEN None
  ELSE IF o.asset = i.asset THEN "transfer"
  ELSE IF {o.asset, i.asset} \subseteq Stables THEN "swap" ELSE None

IsPair(o, i) ==
  /\ o.transfer # i.transfer /\ o.chain # i.chain
  /\ LinkKind(o, i) # None /\ WithinWindow(o, i) /\ WithinFeeBand(o, i)

Edges(ledger) ==
  {e \in Stored(ledger) \X Stored(ledger) :
     /\ IsBridgeOut(ledger[e[1]]) /\ IsLinkableIn(ledger[e[2]])
     /\ IsPair(Of(ledger[e[1]]), Of(ledger[e[2]]))}

\* The OUT has one eligible IN, and that IN one eligible OUT.
Isolated(ledger) ==
  {e \in Edges(ledger) : \A f \in Edges(ledger) : f[1] = e[1] \/ f[2] = e[2] => f = e}

\* applyLink(): only a payload that differs is written.
Due(ledger, write) == IF write.row = ledger[write.slot] THEN {} ELSE {write}

\* The two writes of a pair.
Link(ledger, e) ==
  LET o == ledger[e[1]]  i == ledger[e[2]]  kind == LinkKind(Of(o), Of(i))
      group == <<"bridge", Of(o).tx>>
      out == [o EXCEPT !.class = IF kind = "transfer" THEN "INTERNAL_TRANSFER" ELSE "EXCHANGE",
                       !.group = group, !.dest = Of(i).chain]
      in == [i EXCEPT !.class = IF kind = "transfer" THEN "INTERNAL_TRANSFER" ELSE "RECEIVE",
                      !.group = group]
  IN [out |-> Due(ledger, [slot |-> e[1], row |-> out]), in |-> Due(ledger, [slot |-> e[2], row |-> in])]

BridgePlan(ledger) == {Link(ledger, e) : e \in Isolated(ledger)}

-----------------------------------------------------------------------------
(* The sync.                                                                *)

\* A row as normalization makes it.  (SPAM and UNKNOWN, which it may also be, are to
\* the passes what SEND and RECEIVE are.)
Normal(l) == [leg |-> l, class |-> IF Data[l].direction = "OUT" THEN "SEND" ELSE "RECEIVE",
              group |-> None, dest |-> None, edit |-> 0]

\* mergeSavedPayload(): the edit survives, a link does not.
Merge(old, new) ==
  IF old = None THEN new
  ELSE [new EXCEPT !.edit = old.edit, !.class = IF old.edit > 0 THEN old.class ELSE @]

Walk ==
  /\ sync.step = "idle" /\ bound # {}
  /\ sync' = [Idle EXCEPT !.step = "walk"]
  /\ UNCHANGED <<bound, rows, unbind, edits, made, quiet, exposed, misled, unproven>>

\* A leg is stored, or stored again.
Index(l) ==
  /\ sync.step = "walk" /\ Data[l].wallet \in bound
  /\ rows' = [rows EXCEPT ![l] = Merge(@, Normal(l))]
  /\ quiet' = FALSE
  /\ unproven' = unproven \ {l}
  /\ UNCHANGED <<bound, sync, unbind, edits, made, exposed, misled>>

\* The own-wallet pass reads the bindings.
OwnWallets ==
  /\ sync.step = "walk"
  /\ sync' = [Idle EXCEPT !.step = "own", !.wallets = bound]
  /\ quiet' = TRUE
  /\ UNCHANGED <<bound, rows, unbind, edits, made, exposed, misled, unproven>>

\* It reads the ledger.
OwnLedger ==
  /\ sync.step = "own"
  /\ sync' = [sync EXCEPT !.step = "owning", !.plan = OwnPlan(rows, sync.wallets)]
  /\ UNCHANGED <<bound, rows, unbind, edits, made, quiet, exposed, misled, unproven>>

\* updatePayload(): a row that is gone is not written.
Store(slot, row) == IF rows[slot] = None THEN rows ELSE [rows EXCEPT ![slot] = row]

\* It addresses a row by its storage id.
OwnWrite(w) ==
  /\ sync.step = "owning" /\ w \in sync.plan
  /\ rows' = Store(w.slot, w.row)
  /\ sync' = [sync EXCEPT !.plan = @ \ {w}]
  /\ UNCHANGED <<bound, unbind, edits, made, quiet, exposed, misled, unproven>>

OwnWriteFails(w) ==
  /\ sync.step = "owning" /\ w \in sync.plan
  /\ sync' = [sync EXCEPT !.plan = @ \ {w}]
  /\ quiet' = FALSE
  /\ UNCHANGED <<bound, rows, unbind, edits, made, exposed, misled, unproven>>

\* The bridge pass reads the ledger.
BridgeLedger ==
  /\ sync.step = "owning" /\ sync.plan = {}
  /\ sync' = [Idle EXCEPT !.step = "bridging", !.plan = BridgePlan(rows)]
  /\ UNCHANGED <<bound, rows, unbind, edits, made, quiet, exposed, misled, unproven>>

\* The rows findForUser() may answer with: the one that was meant and any other that
\* holds a payload of the same transfer.
Found(row) == {s \in Stored(rows) : Of(rows[s]).transfer = Of(row).transfer}

\* It addresses a row by its payload.id.
BridgeWrite(writes) ==
  \/ /\ \A w \in writes : Found(w.row) = {}
     /\ UNCHANGED <<rows, misled>>
  \/ \E w \in writes : \E s \in Found(w.row) :
       /\ rows' = [rows EXCEPT ![s] = w.row]
       /\ misled' = misled \cup ({s} \ {w.slot})

BridgeOut(link) ==
  /\ sync.step = "bridging" /\ link \in sync.plan
  /\ BridgeWrite(link.out)
  /\ sync' = [sync EXCEPT !.step = "in", !.plan = @ \ {link}, !.in = link.in]
  /\ UNCHANGED <<bound, unbind, edits, made, quiet, exposed, unproven>>

BridgeIn ==
  /\ sync.step = "in"
  /\ BridgeWrite(sync.in)
  /\ sync' = [sync EXCEPT !.step = "bridging", !.in = None]
  /\ UNCHANGED <<bound, unbind, edits, made, quiet, exposed, unproven>>

\* The first write failed: the second is not tried.
BridgeOutFails(link) ==
  /\ sync.step = "bridging" /\ link \in sync.plan /\ link.out # {}
  /\ sync' = [sync EXCEPT !.plan = @ \ {link}]
  /\ quiet' = FALSE
  /\ UNCHANGED <<bound, rows, unbind, edits, made, exposed, misled, unproven>>

BridgeInFails ==
  /\ sync.step = "in" /\ sync.in # {}
  /\ sync' = [sync EXCEPT !.step = "bridging", !.in = None]
  /\ quiet' = FALSE
  /\ UNCHANGED <<bound, rows, unbind, edits, made, exposed, misled, unproven>>

SyncEnds ==
  /\ sync.step = "bridging" /\ sync.plan = {}
  /\ sync' = Idle
  /\ UNCHANGED <<bound, rows, unbind, edits, made, quiet, exposed, misled, unproven>>

\* A read fails: the sync goes on without links.
LinkingFails ==
  /\ \/ sync.step = "own"
     \/ sync.step = "owning" /\ sync.plan = {}
  /\ sync' = Idle
  /\ quiet' = FALSE
  /\ UNCHANGED <<bound, rows, unbind, edits, made, exposed, misled, unproven>>

-----------------------------------------------------------------------------
(* The user.                                                                *)

Bind(w) ==
  /\ w \notin bound
  /\ bound' = bound \cup {w}
  /\ quiet' = FALSE
  /\ UNCHANGED <<rows, sync, unbind, edits, made, exposed, misled, unproven>>

\* The rows somebody is about to write.
Planned ==
  CASE sync.step = "owning" -> {w.slot : w \in sync.plan}
    [] sync.step = "bridging" -> {w.slot : w \in UNION {l.out \cup l.in : l \in sync.plan}}
    [] sync.step = "in" -> {w.slot : w \in sync.in \cup UNION {l.out \cup l.in : l \in sync.plan}}
    [] OTHER -> {}

Edit(l) ==
  /\ rows[l] # None /\ made < MaxEdits
  /\ made' = made + 1
  /\ rows' = [rows EXCEPT ![l].class = "EDITED", ![l].edit = made + 1]
  /\ edits' = [edits EXCEPT ![l] = made + 1]
  /\ exposed' = IF l \in Planned \cup {w.slot : w \in unbind.plan} THEN exposed \cup {l} ELSE exposed
  /\ quiet' = FALSE
  /\ UNCHANGED <<bound, sync, unbind, misled, unproven>>

\* unbind(): the wallet's rows and then the binding go.
Unbind(w) ==
  LET mine == {l \in Legs : Data[l].wallet = w}
      other == {l \in Legs : Data[l].counterparty = w}
  IN /\ unbind.step = "idle" /\ w \in bound
     /\ rows' = [l \in Legs |-> IF l \in mine THEN None ELSE rows[l]]
     /\ edits' = [l \in Legs |-> IF l \in mine THEN 0 ELSE edits[l]]
     /\ bound' = bound \ {w}
     /\ unbind' = [step |-> "read", wallet |-> w, plan |-> {}]
     /\ exposed' = exposed \ mine /\ misled' = misled \ mine
     /\ unproven' = (unproven \ mine) \cup
          IF sync.step \in {"own", "owning"} /\ w \in sync.wallets THEN other ELSE {}
     /\ quiet' = FALSE
     /\ UNCHANGED <<sync, made>>

\* Fault: only moves that had both legs are judged again.
ClaimedPaired(row, w) ==
  row.edit = 0 /\ row.class = "INTERNAL_TRANSFER" /\ Of(row).counterparty = w /\ IsOwnGroup(row.group)

\* What the own-wallet pass claimed on the strength of this binding.
Claimed(row, w) ==
  row.edit = 0 /\ row.class = "INTERNAL_TRANSFER" /\ Of(row).counterparty = w /\ ~IsBridgeGroup(row.group)

\* unlinkCounterparty() reads the ledger.
UnlinkLedger ==
  /\ unbind.step = "read"
  /\ LET plain(row) == [row EXCEPT !.class = Normal(row.leg).class, !.group = None, !.dest = None]
     IN unbind' = [unbind EXCEPT !.step = "write", !.plan =
          {[slot |-> s, row |-> plain(rows[s])] :
             s \in {s \in Stored(rows) : Claimed(rows[s], unbind.wallet)}}]
  /\ UNCHANGED <<bound, rows, sync, edits, made, quiet, exposed, misled, unproven>>

UnlinkWrite(w) ==
  /\ unbind.step = "write" /\ w \in unbind.plan
  /\ rows' = Store(w.slot, w.row)
  /\ unbind' = [unbind EXCEPT !.plan = @ \ {w}]
  /\ quiet' = FALSE
  /\ UNCHANGED <<bound, sync, edits, made, exposed, misled, unproven>>

UnlinkWriteFails(w) ==
  /\ unbind.step = "write" /\ w \in unbind.plan
  /\ unbind' = [unbind EXCEPT !.plan = @ \ {w}]
  /\ unproven' = unproven \cup {w.slot}
  /\ UNCHANGED <<bound, rows, sync, edits, made, quiet, exposed, misled>>

\* The read fails, or the process ends: a second unbind finds no binding.
UnlinkStops ==
  /\ unbind.step \in {"read", "write"} /\ (unbind.step = "write" => unbind.plan # {})
  /\ unbind' = Rest
  /\ unproven' = unproven \cup {l \in Legs : Data[l].counterparty = unbind.wallet}
  /\ UNCHANGED <<bound, rows, sync, edits, made, quiet, exposed, misled>>

UnbindEnds ==
  /\ unbind.step = "write" /\ unbind.plan = {}
  /\ unbind' = Rest
  /\ UNCHANGED <<bound, rows, sync, edits, made, quiet, exposed, misled, unproven>>

Next ==
  \/ Walk \/ OwnWallets \/ OwnLedger \/ BridgeLedger \/ BridgeIn \/ BridgeInFails
  \/ SyncEnds \/ LinkingFails
  \/ UnlinkLedger \/ UnlinkStops \/ UnbindEnds
  \/ \E l \in Legs : Index(l) \/ Edit(l)
  \/ \E w \in Wallets : Bind(w) \/ Unbind(w)
  \/ \E w \in sync.plan : OwnWrite(w) \/ OwnWriteFails(w) \/ BridgeOut(w) \/ BridgeOutFails(w)
  \/ \E w \in unbind.plan : UnlinkWrite(w) \/ UnlinkWriteFails(w)

Spec == Init /\ [][Next]_vars

-----------------------------------------------------------------------------
(* Properties.                                                              *)

\* "A user edit is final" (own-wallet-linking.service.ts:48, 159): whatever passes, resyncs
\* and unbinds follow, a row keeps its last edit, with two exceptions.  The edit was made
\* while a write of that very row was already planned (exposed).  Or a bridge link that was
\* meant for the other row of the transfer landed on this one, because the bridge pass looks
\* its row up by payload.id, which both rows carry (misled; bridge-linking.service.ts:291):
\* there a user edit is not final.
EditsFinal ==
  \A s \in Stored(rows) \ (exposed \cup misled) :
    rows[s].edit = edits[s] /\ (edits[s] > 0 => rows[s].class = "EDITED")

\* "Self-healing" (bridge-linking.service.ts:101-104): after passes nothing disturbed,
\* whatever state earlier failures, resyncs, edits and unbinds left, and wherever the passes'
\* own writes landed, both legs of every move between bound wallets and of every isolated
\* bridge of the ledger carry one key, and the rest of what belongs to it.  What that does not
\* say: a link that landed on the wrong row (misled) leaves its payload in two rows, and
\* neither is the one leg of a move or of a bridge any more, so nothing links them.
Healed ==
  sync.step = "idle" /\ quiet =>
    /\ \A s \in OwnMoves(rows, bound) : Paired(rows, bound, s) =>
         /\ rows[s].class = "INTERNAL_TRANSFER" /\ rows[s].dest = None
         /\ rows[s].group = <<"own", Of(rows[s]).transfer>>
    /\ \A e \in Isolated(rows) :
         /\ Link(rows, e).out = {} /\ Link(rows, e).in = {}
         /\ rows[e[1]].group = rows[e[2]].group

\* "Only a binding is proof", also after an unbind (own-wallet-linking.service.ts:
\* 119-125): a row that counts as a move between the user's wallets, without a bridge's
\* key, is one with a wallet that is bound, unless the unbind met an own-wallet pass that
\* had read the bindings before or did not carry out its last step.
MovesAreProven ==
  \A s \in Stored(rows) \ unproven :
    rows[s].edit = 0 /\ rows[s].class = "INTERNAL_TRANSFER" /\ ~IsBridgeGroup(rows[s].group)
      => Of(rows[s]).counterparty \in bound \cup ({unbind.wallet} \ {None})
=============================================================================
