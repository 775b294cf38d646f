----------------------------- MODULE WalletSync -----------------------------
(***************************************************************************)
(* The wallets of one account and the sync that copies their history into  *)
(* the ledger: bind(), watch() and unbind() of the wallet services, and    *)
(* runSyncWork()/persistChain() of indexer.service.ts over the tables      *)
(* WalletBinding, BindingChainCursor and TransactionNormalized.            *)
(*                                                                         *)
(* A wallet has a transfer in every block of every chain: the hardest case *)
(* for "nothing is missing".  A ledger row is the normalization rules      *)
(* version that judged its block, 0 when there is no row.  A sync process  *)
(* stops at every await.  One process runs one sync of an account at a     *)
(* time (module SyncCoalesce); several processes may serve the account.    *)
(*                                                                         *)
(* Abstracted: prices and links do not decide whether a row is stored;     *)
(* anchoring is module Anchor.                                             *)
(***************************************************************************)
EXTENDS Integers, FiniteSets

CONSTANTS
  Wallets,    \* addresses
  Ids,        \* binding ids: bounds how often a wallet is registered
  Chains,
  Procs,      \* server processes, one sync of the account in each
  Clients,    \* requests of watch() and unbind() in flight
  Watching,   \* which of the client operations this instance exercises
  MaxHead,    \* bound on the height of a chain
  MaxRules,   \* bound on NORMALIZATION_RULES_VERSION
  MaxLag,     \* how far a provider's node may lag behind the chain
  Overlap,    \* TRUE: a wallet may be unbound while a sync is running
  Breaks,     \* TRUE: an unbind may stop half-way
  None

ASSUME SyncAssumption ==
  /\ {MaxHead, MaxRules, MaxLag} \subseteq Nat
  /\ MaxRules >= 1
  /\ {Overlap, Breaks} \subseteq BOOLEAN
  /\ Watching \subseteq {"watch", "unbind"}
  /\ None \notin (Wallets \cup Ids)

VARIABLES
  bindings,   \* WalletBinding
  cursors,    \* BindingChainCursor
  rows,       \* TransactionNormalized
  runs,       \* sync runs in progress
  clients,    \* watch() and unbind() calls in progress
  heads,      \* height of every chain
  rules       \* NORMALIZATION_RULES_VERSION of the deployed code

vars == <<bindings, cursors, rows, runs, clients, heads, rules>>

Blocks == 1..MaxHead

Binding == [wallet: Wallets \cup {None}, live: BOOLEAN, verified: BOOLEAN, synced: BOOLEAN]

\* rules = 0: there is no cursor.
Cursor == [block: 0..MaxHead, rules: 0..MaxRules]

\* A chain of the binding at hand: to be scanned, handed over to the queue, being
\* saved row by row, stored but its cursor not yet advanced, done, scanned but
\* not stored, and not scanned.
Phases == {"scan", "queued", "saving", "advance", "done", "failed", "lost"}

Walk == [phase: Phases, since: 0..MaxHead, head: 0..MaxHead, todo: SUBSET Blocks]

Run == [work: SUBSET Ids, unsynced: SUBSET Ids, id: Ids \cup {None}, active: BOOLEAN,
        walk: [Chains -> Walk]]

NoWalk == [phase |-> "scan", since |-> 0, head |-> 0, todo |-> {}]

NoRun == [work |-> {}, unsynced |-> {}, id |-> None, active |-> FALSE,
          walk |-> [c \in Chains |-> NoWalk]]

Client == [step: {"idle", "watch", "rows", "cursors", "binding"},
           wallet: Wallets \cup {None}, id: Ids \cup {None}]

NoClient == [step |-> "idle", wallet |-> None, id |-> None]

Unknown == [wallet |-> None, live |-> FALSE, verified |-> FALSE, synced |-> FALSE]

NoCursor == [block |-> 0, rules |-> 0]

Init ==
  /\ bindings = [i \in Ids |-> Unknown]
  /\ cursors = [i \in Ids |-> [c \in Chains |-> NoCursor]]
  /\ rows = [i \in Ids |-> [c \in Chains |-> [n \in Blocks |-> 0]]]
  /\ runs = [p \in Procs |-> NoRun]
  /\ clients = [q \in Clients |-> NoClient]
  /\ heads = [c \in Chains |-> 0]
  /\ rules = 1

-----------------------------------------------------------------------------
(* Wallets.                                                                 *)

\* The binding of a wallet: unique per account and address.
BindingOf(w) == {i \in Ids : bindings[i].live /\ bindings[i].wallet = w}

\* wallets.upsert(): a new row, or the verification fields of the existing one.
Upsert(w, verified) ==
  \E i \in Ids :
    /\ IF BindingOf(w) = {} THEN bindings[i].wallet = None ELSE i \in BindingOf(w)
    /\ bindings' = [bindings EXCEPT ![i] = [@ EXCEPT !.wallet = w, !.live = TRUE,
                                                     !.verified = verified]]

\* bind(): the signature was verified upstream.
Bind(w) ==
  /\ Upsert(w, TRUE)
  /\ UNCHANGED <<cursors, rows, runs, clients, heads, rules>>

\* watch(): a registered wallet is left alone.
WatchFind(q, w) ==
  /\ "watch" \in Watching
  /\ clients[q].step = "idle"
  /\ BindingOf(w) = {}
  /\ clients' = [clients EXCEPT ![q] = [step |-> "watch", wallet |-> w, id |-> None]]
  /\ UNCHANGED <<bindings, cursors, rows, runs, heads, rules>>

\* watch() after its lookup found nothing.
WatchUpsert(q) ==
  /\ clients[q].step = "watch"
  /\ Upsert(clients[q].wallet, FALSE)
  /\ clients' = [clients EXCEPT ![q] = NoClient]
  /\ UNCHANGED <<cursors, rows, runs, heads, rules>>

BeingUnbound(i) ==
  \E q \in Clients : clients[q].id = i /\ clients[q].step \in {"rows", "cursors", "binding"}

Syncing == \E p \in Procs : runs[p].active
Unbinding == \E i \in Ids : BeingUnbound(i)

\* unbind() finds the binding.
UnbindFind(q, w) ==
  /\ "unbind" \in Watching
  /\ Overlap \/ ~Syncing
  /\ clients[q].step = "idle"
  /\ \E i \in BindingOf(w) :
       clients' = [clients EXCEPT ![q] = [step |-> "rows", wallet |-> w, id |-> i]]
  /\ UNCHANGED <<bindings, cursors, rows, runs, heads, rules>>

\* transactions.deleteAllForBinding().
UnbindRows(q) ==
  /\ clients[q].step = "rows"
  /\ rows' = [rows EXCEPT ![clients[q].id] = [c \in Chains |-> [n \in Blocks |-> 0]]]
  /\ clients' = [clients EXCEPT ![q].step = "cursors"]
  /\ UNCHANGED <<bindings, cursors, runs, heads, rules>>

\* cursors.deleteForBinding().
UnbindCursors(q) ==
  /\ clients[q].step = "cursors"
  /\ cursors' = [cursors EXCEPT ![clients[q].id] = [c \in Chains |-> NoCursor]]
  /\ clients' = [clients EXCEPT ![q].step = "binding"]
  /\ UNCHANGED <<bindings, rows, runs, heads, rules>>

\* Rows or cursors refer to the binding.
Referenced(i) ==
  \E c \in Chains : cursors[i][c].rules > 0 \/ \E n \in Blocks : rows[i][c][n] > 0

\* wallets.delete(): the foreign keys refuse a binding that is still referred to,
\* and a binding that is gone is not found; either ends the request.
UnbindBinding(q) ==
  LET i == clients[q].id IN
  /\ clients[q].step = "binding"
  /\ bindings' = IF Referenced(i) THEN bindings ELSE [bindings EXCEPT ![i].live = FALSE]
  /\ clients' = [clients EXCEPT ![q] = NoClient]
  /\ UNCHANGED <<cursors, rows, runs, heads, rules>>

\* A step of the request fails or its process dies.
ClientFails(q) ==
  /\ clients[q].step = "watch" \/ (Breaks /\ clients[q].step # "idle")
  /\ clients' = [clients EXCEPT ![q] = NoClient]
  /\ UNCHANGED <<bindings, cursors, rows, runs, heads, rules>>

-----------------------------------------------------------------------------
(* runSyncWork().                                                           *)

\* sync() or ensureInitialSync(): the bindings are read once, for the whole run.
StartRun(p) ==
  LET live == {i \in Ids : bindings[i].live} IN
  /\ ~runs[p].active
  /\ Overlap \/ ~Unbinding
  /\ \E work \in {live, {i \in live : ~bindings[i].synced}} :
       /\ work # {}
       /\ runs' = [runs EXCEPT ![p] = [NoRun EXCEPT !.active = TRUE, !.work = work,
                                         !.unsynced = {i \in work : ~bindings[i].synced}]]
  /\ UNCHANGED <<bindings, cursors, rows, clients, heads, rules>>

\* Fault: the rules version of a cursor is not looked at.
SinceAnyRules(cursor) == cursor.block

\* Where the walk of a chain begins: at the cursor, or at genesis when the cursor
\* was walked under older rules.
Since(cursor) == IF cursor.rules < rules THEN 0 ELSE cursor.block

\* The next binding: its cursors are read.
StartBinding(p, i) ==
  /\ runs[p].active /\ runs[p].id = None
  /\ i \in runs[p].work
  /\ runs' = [runs EXCEPT ![p] =
       [@ EXCEPT !.id = i, !.work = runs[p].work \ {i},
                 !.walk = [c \in Chains |-> [NoWalk EXCEPT !.since = Since(cursors[i][c])]]]]
  /\ UNCHANGED <<bindings, cursors, rows, clients, heads, rules>>

\* The walk of a chain in the run of a process.
SetWalk(p, c, walk) ==
  runs' = [runs EXCEPT ![p].walk = [@ EXCEPT ![c] = walk]]

SetPhase(p, c, phase) == SetWalk(p, c, [runs[p].walk[c] EXCEPT !.phase = phase])

\* The adapter snapshots the head, reads both directions up to it and hands the
\* chain over.
Scan(p, c) ==
  LET walk == runs[p].walk[c] IN
  /\ runs[p].id # None
  /\ walk.phase = "scan"
  /\ \E head \in 0..heads[c] :
       /\ head >= heads[c] - MaxLag
       /\ SetWalk(p, c, [walk EXCEPT !.phase = "queued", !.head = head,
                                     !.todo = {n \in Blocks : walk.since <= n /\ n <= head}])
  /\ UNCHANGED <<bindings, cursors, rows, clients, heads, rules>>

\* A page, a trace or a normalization fails: the whole chain is withheld.
ScanFails(p, c) ==
  /\ runs[p].id # None
  /\ runs[p].walk[c].phase = "scan"
  /\ SetPhase(p, c, "lost")
  /\ UNCHANGED <<bindings, cursors, rows, clients, heads, rules>>

\* The queue starts persistChain() when the chain before it is through.
Persist(p, c) ==
  /\ runs[p].walk[c].phase = "queued"
  /\ \A d \in Chains : runs[p].walk[d].phase \notin {"saving", "advance"}
  /\ SetPhase(p, c, "saving")
  /\ UNCHANGED <<bindings, cursors, rows, clients, heads, rules>>

\* save(): one transaction per row; the row needs its binding.
SaveRow(p, c) ==
  LET walk == runs[p].walk[c]  i == runs[p].id IN
  /\ walk.phase = "saving"
  /\ bindings[i].live
  /\ \E n \in walk.todo :
       /\ rows' = [rows EXCEPT ![i][c][n] = rules]
       /\ SetWalk(p, c, [walk EXCEPT !.todo = @ \ {n}])
  /\ UNCHANGED <<bindings, cursors, clients, heads, rules>>

\* The rows are stored and what they superseded is purged.
Saved(p, c) ==
  /\ runs[p].walk[c].phase = "saving"
  /\ runs[p].walk[c].todo = {}
  /\ SetPhase(p, c, "advance")
  /\ UNCHANGED <<bindings, cursors, rows, clients, heads, rules>>

Greatest(m, n) == IF m > n THEN m ELSE n

\* advance(): neither field ever goes back.
Advanced(cursor, head) ==
  [block |-> Greatest(cursor.block, head), rules |-> Greatest(cursor.rules, rules)]

\* cursors.advance(), which needs the binding.
Advance(p, c) ==
  LET walk == runs[p].walk[c]  i == runs[p].id IN
  /\ walk.phase = "advance"
  /\ bindings[i].live
  /\ cursors' = [cursors EXCEPT ![i][c] = Advanced(@, walk.head)]
  /\ SetPhase(p, c, "done")
  /\ UNCHANGED <<bindings, rows, clients, heads, rules>>

\* Fault: a chain that could not be saved still advances its cursor.
PersistFailsAdvanced(p, c) ==
  LET walk == runs[p].walk[c]  i == runs[p].id IN
  /\ walk.phase \in {"saving", "advance"}
  /\ cursors' = [cursors EXCEPT ![i][c] = Advanced(@, walk.head)]
  /\ SetPhase(p, c, "failed")
  /\ UNCHANGED <<bindings, rows, clients, heads, rules>>

\* The catch of persistChain(): the cursor stays where it was.
PersistFails(p, c) ==
  /\ runs[p].walk[c].phase \in {"saving", "advance"}
  /\ SetPhase(p, c, "failed")
  /\ UNCHANGED <<bindings, cursors, rows, clients, heads, rules>>

\* Every chain is through: markInitialSynced() for a binding that was not marked
\* when the run started, unless no chain was observed at all.
EndBinding(p) ==
  LET i == runs[p].id
      observed == \E c \in Chains : runs[p].walk[c].phase # "lost"
  IN
  /\ i # None
  /\ \A c \in Chains : runs[p].walk[c].phase \in {"done", "failed", "lost"}
  /\ bindings' = IF observed /\ i \in runs[p].unsynced /\ bindings[i].live
                 THEN [bindings EXCEPT ![i].synced = TRUE] ELSE bindings
  /\ runs' = [runs EXCEPT ![p].id = None]
  /\ UNCHANGED <<cursors, rows, clients, heads, rules>>

\* Nothing is left, or the process dies.
EndRun(p) ==
  /\ runs[p].active
  /\ runs' = [runs EXCEPT ![p] = NoRun]
  /\ UNCHANGED <<bindings, cursors, rows, clients, heads, rules>>

-----------------------------------------------------------------------------
(* Chains and deployments.                                                  *)

NewBlock(c) ==
  /\ heads[c] < MaxHead
  /\ heads' = [heads EXCEPT ![c] = @ + 1]
  /\ UNCHANGED <<bindings, cursors, rows, runs, clients, rules>>

\* A release with newer normalization rules restarts every process.
Deploy ==
  /\ rules < MaxRules
  /\ Breaks \/ ~Unbinding
  /\ rules' = rules + 1
  /\ runs' = [p \in Procs |-> NoRun]
  /\ clients' = [q \in Clients |-> NoClient]
  /\ UNCHANGED <<bindings, cursors, rows, heads>>

ChainStep(p, c) ==
  \/ Scan(p, c) \/ ScanFails(p, c) \/ Persist(p, c) \/ SaveRow(p, c) \/ Saved(p, c)
  \/ Advance(p, c) \/ PersistFails(p, c)

RunStep(p) ==
  \/ StartRun(p) \/ EndBinding(p) \/ EndRun(p)
  \/ \E i \in Ids : StartBinding(p, i)
  \/ \E c \in Chains : ChainStep(p, c)

ClientStep(q) ==
  \/ UnbindRows(q) \/ UnbindCursors(q) \/ UnbindBinding(q) \/ WatchUpsert(q) \/ ClientFails(q)
  \/ \E w \in Wallets : WatchFind(q, w) \/ UnbindFind(q, w)

Next ==
  \/ \E p \in Procs : RunStep(p)
  \/ \E q \in Clients : ClientStep(q)
  \/ \E w \in Wallets : Bind(w)
  \/ \E c \in Chains : NewBlock(c)
  \/ Deploy

Spec == Init /\ [][Next]_vars

-----------------------------------------------------------------------------
(* Properties.                                                              *)

TypeOK ==
  /\ bindings \in [Ids -> Binding]
  /\ cursors \in [Ids -> [Chains -> Cursor]]
  /\ rows \in [Ids -> [Chains -> [Blocks -> 0..MaxRules]]]
  /\ runs \in [Procs -> Run]
  /\ clients \in [Clients -> Client]
  /\ heads \in [Chains -> 0..MaxHead]
  /\ rules \in 1..MaxRules

\* Once no unbind of the wallet is under way, its cursor does not stand beyond a
\* block that is missing from the ledger: a sync that starts there would never see
\* that block again.  "A failure anywhere leaves the
\* cursor where it was" (indexer.service.ts:258); an unbind that stops half-way
\* leaves a wallet whose next sync "walks from the beginning again"
\* (wallet-unbind.service.ts:17).
NoGap ==
  \A i \in Ids, c \in Chains :
    ~BeingUnbound(i) => \A n \in 1..cursors[i][c].block : rows[i][c][n] > 0

\* What a cursor says of the rules is true of every row up to it: no row that older
\* rules judged is left behind a cursor that claims newer ones
\* (indexer.service.ts:170-179).
JudgedByRules ==
  \A i \in Ids, c \in Chains :
    ~BeingUnbound(i) =>
      \A n \in 1..cursors[i][c].block : rows[i][c][n] >= cursors[i][c].rules
=============================================================================
