-------------------------- MODULE WalletSyncProofs --------------------------
(***************************************************************************)
(* For any wallets, chains, processes and heights, and for nodes that lag  *)
(* behind the chain by any amount: no cursor stands beyond a block missing *)
(* from the ledger, as long as no wallet is unbound while a sync runs and  *)
(* an unbind is carried through.  And when the nodes do not lag, no cursor *)
(* claims newer normalization rules than those that judged the rows up to  *)
(* it.                                                                     *)
(***************************************************************************)
EXTENDS WalletSync, TLAPS

Pending == {"queued", "saving", "advance"}
UnbindSteps == {"rows", "cursors", "binding"}

\* A sync of the account and an unbind of one of its wallets exclude each other.
Exclusive == Syncing => ~Unbinding

\* A binding is only worked on by an active run, a chain only within a binding.
RunsOK ==
  \A p \in Procs :
    /\ runs[p].id # None => runs[p].active
    /\ \A c \in Chains : runs[p].walk[c].phase \in Pending => runs[p].id # None

\* What a walk leaves out is stored already; what it was handed is stored or to do.
WalkOK(i, c, walk) ==
  /\ \A n \in Blocks : n < walk.since => rows[i][c][n] > 0
  /\ walk.phase \in Pending =>
       \A n \in Blocks : n <= walk.head => n < walk.since \/ n \in walk.todo \/ rows[i][c][n] > 0
  /\ walk.phase = "advance" => walk.todo = {}

WalksOK ==
  \A p \in Procs, c \in Chains :
    runs[p].id # None => WalkOK(runs[p].id, c, runs[p].walk[c])

\* An unbind has really deleted what it says it has.
ClientsOK ==
  \A q \in Clients :
    /\ clients[q].step \in UnbindSteps => clients[q].id \in Ids
    /\ clients[q].step \in {"cursors", "binding"} =>
         \A c \in Chains, n \in Blocks : rows[clients[q].id][c][n] = 0
    /\ clients[q].step = "binding" =>
         \A c \in Chains : cursors[clients[q].id][c] = NoCursor

\* NoGap says nothing of the walks in progress, whose cursors are about to move:
\* they need WalksOK, which survives because of Exclusive; and the end of an unbind
\* needs ClientsOK.
IInv == TypeOK /\ Exclusive /\ RunsOK /\ WalksOK /\ ClientsOK /\ NoGap

LEMMA Constants ==
  MaxHead \in Nat /\ MaxRules \in Nat /\ MaxRules >= 1 /\ None \notin Ids /\ None \notin Wallets
  BY SyncAssumption

LEMMA Members ==
  /\ NoRun \in Run /\ NoClient \in Client /\ NoCursor \in Cursor /\ Unknown \in Binding
  /\ NoWalk \in Walk
<1>1. NoWalk \in Walk
  BY Constants DEF NoWalk, Walk, Phases
<1> QED
  BY <1>1, Constants DEF NoRun, Run, NoClient, Client, NoCursor, Cursor, Unknown, Binding

LEMMA Initially == Init => IInv
<1> SUFFICES ASSUME Init PROVE IInv
  OBVIOUS
<1>1. TypeOK
  BY Members, Constants DEF Init, TypeOK
<1>2. \A p \in Procs : runs[p].id = None /\ ~runs[p].active
        /\ \A c \in Chains : runs[p].walk[c].phase = "scan"
  BY DEF Init, NoRun, NoWalk
<1>3. \A q \in Clients : clients[q].step = "idle"
  BY DEF Init, NoClient
<1>4. \A i \in Ids, c \in Chains : cursors[i][c].block = 0
  BY DEF Init, NoCursor
<1>5. Exclusive /\ RunsOK /\ WalksOK /\ ClientsOK
  BY <1>2, <1>3 DEF Exclusive, Syncing, RunsOK, WalksOK, ClientsOK, Pending, UnbindSteps
<1>6. NoGap
  BY <1>4 DEF NoGap
<1> QED
  BY <1>1, <1>5, <1>6 DEF IInv

-----------------------------------------------------------------------------
(* Wallets.                                                                 *)

LEMMA UpsertTypes ==
  ASSUME TypeOK, NEW w \in Wallets \cup {None}, NEW verified \in BOOLEAN, Upsert(w, verified)
  PROVE  bindings' \in [Ids -> Binding]
<1>1. PICK i \in Ids :
        bindings' = [bindings EXCEPT ![i] = [@ EXCEPT !.wallet = w, !.live = TRUE,
                                                      !.verified = verified]]
  BY DEF Upsert
<1>2. bindings \in [Ids -> Binding] /\ bindings[i] \in Binding
  BY DEF TypeOK
<1>3. [bindings[i] EXCEPT !.wallet = w, !.live = TRUE, !.verified = verified] \in Binding
  BY <1>2 DEF Binding
<1> QED
  BY <1>1, <1>2, <1>3

LEMMA BindPreserves ==
  ASSUME IInv, NEW w \in Wallets, Bind(w)
  PROVE  IInv'
<1>1. bindings' \in [Ids -> Binding]
  BY UpsertTypes DEF IInv, Bind
<1>2. UNCHANGED <<cursors, rows, runs, clients, heads, rules>>
  BY DEF Bind
<1>3. TypeOK'
  BY <1>1, <1>2 DEF IInv, TypeOK
<1>4. Exclusive' /\ RunsOK' /\ WalksOK' /\ ClientsOK' /\ NoGap'
  BY <1>2 DEF IInv, Exclusive, Syncing, Unbinding, BeingUnbound, RunsOK, WalksOK, WalkOK,
     ClientsOK, NoGap
<1> QED
  BY <1>3, <1>4 DEF IInv

\* A request that starts, ends or is dropped, and unbinds nothing before or after.
LEMMA OtherClient ==
  ASSUME IInv, NEW q \in Clients, NEW client \in Client,
         clients[q].step \notin UnbindSteps, client.step \notin UnbindSteps,
         clients' = [clients EXCEPT ![q] = client],
         bindings' \in [Ids -> Binding], UNCHANGED <<cursors, rows, runs, heads, rules>>
  PROVE  IInv'
<1>1. clients \in [Clients -> Client]
  BY DEF IInv, TypeOK
<1>2. \A r \in Clients : clients'[r].step \in UnbindSteps => clients'[r] = clients[r]
  BY <1>1
<1>3. \A i \in Ids : BeingUnbound(i)' <=> BeingUnbound(i)
  BY <1>1 DEF BeingUnbound, UnbindSteps
<1>4. TypeOK'
  BY <1>1 DEF IInv, TypeOK
<1>5. Exclusive' /\ NoGap'
  BY <1>3 DEF IInv, Exclusive, Syncing, Unbinding, NoGap
<1>6. ClientsOK'
  BY <1>2 DEF IInv, ClientsOK, UnbindSteps
<1>7. RunsOK' /\ WalksOK'
  BY DEF IInv, RunsOK, WalksOK, WalkOK
<1> QED
  BY <1>4, <1>5, <1>6, <1>7 DEF IInv

LEMMA WatchPreserves ==
  ASSUME IInv, NEW q \in Clients, WatchUpsert(q) \/ (\E w \in Wallets : WatchFind(q, w))
  PROVE  IInv'
<1>1. CASE \E w \in Wallets : WatchFind(q, w)
  <2>1. PICK w \in Wallets : WatchFind(q, w)
    BY <1>1
  <2>2. [step |-> "watch", wallet |-> w, id |-> None] \in Client
    BY DEF Client
  <2> QED
    BY <2>1, <2>2, OtherClient DEF WatchFind, UnbindSteps, IInv, TypeOK
<1>2. CASE WatchUpsert(q)
  <2>1. clients[q].wallet \in Wallets \cup {None} /\ clients[q].step = "watch"
    BY <1>2 DEF IInv, TypeOK, Client, WatchUpsert
  <2>2. bindings' \in [Ids -> Binding]
    BY <2>1, <1>2, UpsertTypes DEF WatchUpsert, IInv
  <2>3. NoClient \in Client /\ NoClient.step = "idle"
    BY Members DEF NoClient
  <2> QED
    BY <2>1, <2>2, <2>3, <1>2, OtherClient DEF WatchUpsert, UnbindSteps
<1> QED
  BY <1>1, <1>2

\* While a wallet is being unbound no run is active.
LEMMA NoRunMeanwhile ==
  ASSUME IInv, NEW q \in Clients, clients[q].step \in UnbindSteps
  PROVE  /\ clients[q].id \in Ids /\ BeingUnbound(clients[q].id)
         /\ \A p \in Procs : ~runs[p].active /\ runs[p].id = None
<1>1. clients[q].id \in Ids /\ BeingUnbound(clients[q].id)
  BY DEF IInv, ClientsOK, BeingUnbound, UnbindSteps
<1>2. ~Syncing
  BY <1>1 DEF IInv, Exclusive, Unbinding
<1> QED
  BY <1>1, <1>2 DEF Syncing, IInv, RunsOK

LEMMA UnbindFindPreserves ==
  ASSUME IInv, Overlap = FALSE, NEW q \in Clients, NEW w \in Wallets, UnbindFind(q, w)
  PROVE  IInv'
<1>1. PICK i \in BindingOf(w) :
        clients' = [clients EXCEPT ![q] = [step |-> "rows", wallet |-> w, id |-> i]]
  BY DEF UnbindFind
<1>2. i \in Ids
  BY DEF BindingOf
<1>3. /\ UNCHANGED <<bindings, cursors, rows, runs, heads, rules>>
      /\ ~Syncing /\ clients[q].step = "idle"
  BY DEF UnbindFind
<1>4. clients \in [Clients -> Client]
  BY DEF IInv, TypeOK
<1>5. TypeOK'
  BY <1>1, <1>2, <1>3, <1>4 DEF IInv, TypeOK, Client
<1>6. Exclusive'
  BY <1>3 DEF Exclusive, Syncing
<1>7. RunsOK' /\ WalksOK'
  BY <1>3 DEF IInv, RunsOK, WalksOK, WalkOK
<1>8. ClientsOK'
  BY <1>1, <1>2, <1>3, <1>4 DEF IInv, ClientsOK, UnbindSteps
<1>9. \A j \in Ids : BeingUnbound(j) => BeingUnbound(j)'
  BY <1>1, <1>3, <1>4 DEF BeingUnbound
<1>10. NoGap'
  BY <1>3, <1>9 DEF IInv, NoGap
<1> QED
  BY <1>5, <1>6, <1>7, <1>8, <1>10 DEF IInv

LEMMA UnbindRowsPreserves ==
  ASSUME IInv, NEW q \in Clients, UnbindRows(q)
  PROVE  IInv'
<1> DEFINE i == clients[q].id
           Empty == [c \in Chains |-> [n \in Blocks |-> 0]]
<1>1. /\ clients[q].step = "rows"
      /\ rows' = [rows EXCEPT ![i] = Empty]
      /\ clients' = [clients EXCEPT ![q].step = "cursors"]
      /\ UNCHANGED <<bindings, cursors, runs, heads, rules>>
  BY DEF UnbindRows
<1>2. i \in Ids /\ BeingUnbound(i) /\ \A p \in Procs : ~runs[p].active /\ runs[p].id = None
  BY <1>1, NoRunMeanwhile DEF UnbindSteps
<1>3. clients \in [Clients -> Client] /\ clients[q] \in Client
      /\ rows \in [Ids -> [Chains -> [Blocks -> 0..MaxRules]]]
  BY DEF IInv, TypeOK
<1>4. Empty \in [Chains -> [Blocks -> 0..MaxRules]]
  BY Constants
<1>5. rows' \in [Ids -> [Chains -> [Blocks -> 0..MaxRules]]]
  BY <1>1, <1>3, <1>4
<1>6. clients' \in [Clients -> Client]
  BY <1>1, <1>3 DEF Client
<1>7. TypeOK'
  BY <1>1, <1>5, <1>6 DEF IInv, TypeOK
<1>8. /\ clients'[q].step = "cursors" /\ clients'[q].id = i
      /\ \A r \in Clients \ {q} : clients'[r] = clients[r]
  BY <1>1, <1>3 DEF Client
<1>9. /\ \A c \in Chains, n \in Blocks : rows'[i][c][n] = 0
      /\ \A j \in Ids \ {i} : rows'[j] = rows[j]
  BY <1>1, <1>2, <1>3
<1>10. Exclusive' /\ RunsOK' /\ WalksOK'
  BY <1>1, <1>2 DEF IInv, Exclusive, Syncing, RunsOK, WalksOK
<1>11. ClientsOK'
  <2>1. \A r \in Clients \ {q} :
          /\ clients'[r].step \in UnbindSteps => clients'[r].id \in Ids
          /\ clients'[r].step \in {"cursors", "binding"} =>
               \A c \in Chains, n \in Blocks : rows'[clients'[r].id][c][n] = 0
          /\ clients'[r].step = "binding" =>
               \A c \in Chains : cursors'[clients'[r].id][c] = NoCursor
    BY <1>1, <1>8, <1>9 DEF IInv, ClientsOK, UnbindSteps
  <2>2. q \in Clients /\ clients'[q].step = "cursors" /\ clients'[q].id = i
    BY <1>8
  <2> QED
    BY <2>1, <2>2, <1>2, <1>9 DEF ClientsOK
<1>12. \A j \in Ids : BeingUnbound(j)' <=> BeingUnbound(j)
  BY <1>1, <1>8 DEF BeingUnbound
<1>13. NoGap'
  BY <1>1, <1>2, <1>9, <1>12 DEF IInv, NoGap
<1> QED
  BY <1>7, <1>10, <1>11, <1>13 DEF IInv

LEMMA UnbindCursorsPreserves ==
  ASSUME IInv, NEW q \in Clients, UnbindCursors(q)
  PROVE  IInv'
<1> DEFINE i == clients[q].id
           Empty == [c \in Chains |-> NoCursor]
<1>1. /\ clients[q].step = "cursors"
      /\ cursors' = [cursors EXCEPT ![i] = Empty]
      /\ clients' = [clients EXCEPT ![q].step = "binding"]
      /\ UNCHANGED <<bindings, rows, runs, heads, rules>>
  BY DEF UnbindCursors
<1>2. i \in Ids /\ BeingUnbound(i) /\ \A p \in Procs : ~runs[p].active /\ runs[p].id = None
  BY <1>1, NoRunMeanwhile DEF UnbindSteps
<1>3. clients \in [Clients -> Client] /\ clients[q] \in Client
      /\ cursors \in [Ids -> [Chains -> Cursor]]
  BY DEF IInv, TypeOK
<1>4. Empty \in [Chains -> Cursor]
  BY Members
<1>5. cursors' \in [Ids -> [Chains -> Cursor]]
  BY <1>1, <1>3, <1>4
<1>6. clients' \in [Clients -> Client]
  BY <1>1, <1>3 DEF Client
<1>7. TypeOK'
  BY <1>1, <1>5, <1>6 DEF IInv, TypeOK
<1>8. /\ clients'[q].step = "binding" /\ clients'[q].id = i
      /\ \A r \in Clients \ {q} : clients'[r] = clients[r]
  BY <1>1, <1>3 DEF Client
<1>9. /\ \A c \in Chains : cursors'[i][c] = NoCursor
      /\ \A j \in Ids \ {i} : cursors'[j] = cursors[j]
  BY <1>1, <1>2, <1>3
<1>10. Exclusive' /\ RunsOK' /\ WalksOK'
  BY <1>1, <1>2 DEF IInv, Exclusive, Syncing, RunsOK, WalksOK
<1>11. ClientsOK'
  <2>1. \A r \in Clients \ {q} :
          /\ clients'[r].step \in UnbindSteps => clients'[r].id \in Ids
          /\ clients'[r].step \in {"cursors", "binding"} =>
               \A c \in Chains, n \in Blocks : rows'[clients'[r].id][c][n] = 0
          /\ clients'[r].step = "binding" =>
               \A c \in Chains : cursors'[clients'[r].id][c] = NoCursor
    BY <1>1, <1>8, <1>9 DEF IInv, ClientsOK, UnbindSteps
  <2>2. \A c \in Chains, n \in Blocks : rows'[i][c][n] = 0
    BY <1>1 DEF IInv, ClientsOK
  <2> QED
    BY <2>1, <2>2, <1>2, <1>8, <1>9 DEF ClientsOK
<1>12. \A j \in Ids : BeingUnbound(j)' <=> BeingUnbound(j)
  BY <1>1, <1>8 DEF BeingUnbound
<1>13. NoGap'
  BY <1>1, <1>2, <1>9, <1>12 DEF IInv, NoGap
<1> QED
  BY <1>7, <1>10, <1>11, <1>13 DEF IInv

LEMMA UnbindBindingPreserves ==
  ASSUME IInv, NEW q \in Clients, UnbindBinding(q)
  PROVE  IInv'
<1> DEFINE i == clients[q].id
<1>1. /\ clients[q].step = "binding"
      /\ bindings' = IF Referenced(i) THEN bindings ELSE [bindings EXCEPT ![i].live = FALSE]
      /\ clients' = [clients EXCEPT ![q] = NoClient]
      /\ UNCHANGED <<cursors, rows, runs, heads, rules>>
  BY DEF UnbindBinding
<1>2. i \in Ids /\ \A p \in Procs : ~runs[p].active /\ runs[p].id = None
  BY <1>1, NoRunMeanwhile DEF UnbindSteps
<1>3. clients \in [Clients -> Client] /\ bindings \in [Ids -> Binding]
  BY DEF IInv, TypeOK
<1>4. bindings' \in [Ids -> Binding]
  <2>1. bindings[i] \in Binding
    BY <1>2, <1>3
  <2>2. [bindings EXCEPT ![i].live = FALSE] \in [Ids -> Binding]
    BY <1>3, <2>1 DEF Binding
  <2> QED
    BY <1>1, <1>3, <2>2
<1>5. TypeOK'
  BY <1>1, <1>3, <1>4, Members DEF IInv, TypeOK
<1>6. clients'[q].step = "idle" /\ \A r \in Clients \ {q} : clients'[r] = clients[r]
  BY <1>1, <1>3 DEF NoClient
<1>7. Exclusive' /\ RunsOK' /\ WalksOK'
  BY <1>1, <1>2 DEF IInv, Exclusive, Syncing, RunsOK, WalksOK
<1>8. ClientsOK'
  BY <1>1, <1>6 DEF IInv, ClientsOK, UnbindSteps
<1>9. \A j \in Ids \ {i} : BeingUnbound(j)' <=> BeingUnbound(j)
  BY <1>1, <1>6 DEF BeingUnbound
<1>10. \A c \in Chains : cursors'[i][c].block = 0
  BY <1>1 DEF IInv, ClientsOK, NoCursor
<1>11. NoGap'
  BY <1>1, <1>9, <1>10 DEF IInv, NoGap
<1> QED
  BY <1>5, <1>7, <1>8, <1>11 DEF IInv

LEMMA ClientFailsPreserves ==
  ASSUME IInv, Breaks = FALSE, NEW q \in Clients, ClientFails(q)
  PROVE  IInv'
<1>1. NoClient \in Client /\ NoClient.step = "idle"
  BY Members DEF NoClient
<1> QED
  BY <1>1, OtherClient DEF ClientFails, UnbindSteps, IInv, TypeOK

-----------------------------------------------------------------------------
(* Runs.                                                                    *)

\* A run in progress means that no wallet is being unbound.
LEMMA NoUnbindMeanwhile ==
  ASSUME IInv, NEW p \in Procs, runs[p].active
  PROVE  /\ \A i \in Ids : ~BeingUnbound(i)
         /\ \A q \in Clients : clients[q].step \notin UnbindSteps
<1>1. ~Unbinding
  BY DEF IInv, Exclusive, Syncing
<1>2. \A i \in Ids : ~BeingUnbound(i)
  BY <1>1 DEF Unbinding
<1>3. \A q \in Clients : clients[q].step \in UnbindSteps => BeingUnbound(clients[q].id)
  BY DEF BeingUnbound, UnbindSteps
<1> QED
  BY <1>2, <1>3 DEF IInv, ClientsOK

LEMMA SetWalkFacts ==
  ASSUME IInv, NEW p \in Procs, NEW c \in Chains, NEW walk \in Walk, SetWalk(p, c, walk)
  PROVE  /\ runs' \in [Procs -> Run]
         /\ \A r \in Procs \ {p} : runs'[r] = runs[r]
         /\ runs'[p].id = runs[p].id /\ runs'[p].active = runs[p].active
         /\ runs'[p].walk[c] = walk
         /\ \A d \in Chains \ {c} : runs'[p].walk[d] = runs[p].walk[d]
<1>1. runs \in [Procs -> Run] /\ runs[p] \in Run /\ runs[p].walk \in [Chains -> Walk]
  BY DEF IInv, TypeOK, Run
<1>2. [runs[p].walk EXCEPT ![c] = walk] \in [Chains -> Walk]
  BY <1>1
<1>3. [runs[p] EXCEPT !.walk = [runs[p].walk EXCEPT ![c] = walk]] \in Run
  BY <1>1, <1>2 DEF Run
<1>4. runs' = [runs EXCEPT ![p] = [runs[p] EXCEPT !.walk = [runs[p].walk EXCEPT ![c] = walk]]]
  BY <1>1 DEF SetWalk
<1>5. runs' \in [Procs -> Run]
  BY <1>1, <1>3, <1>4
<1>6. runs'[p] = [runs[p] EXCEPT !.walk = [runs[p].walk EXCEPT ![c] = walk]]
  BY <1>1, <1>4
<1>7. runs'[p].id = runs[p].id /\ runs'[p].active = runs[p].active
      /\ runs'[p].walk = [runs[p].walk EXCEPT ![c] = walk]
  BY <1>1, <1>6 DEF Run
<1> QED
  BY <1>1, <1>4, <1>5, <1>7

\* A step of a walk that neither stores a row nor moves a cursor.
LEMMA WalkStep ==
  ASSUME IInv, NEW p \in Procs, NEW c \in Chains, NEW walk \in Walk, SetWalk(p, c, walk),
         runs[p].id # None, WalkOK(runs[p].id, c, walk),
         UNCHANGED <<bindings, cursors, rows, clients, heads, rules>>
  PROVE  IInv'
<1>1. /\ runs' \in [Procs -> Run]
      /\ \A r \in Procs \ {p} : runs'[r] = runs[r]
      /\ runs'[p].id = runs[p].id /\ runs'[p].active = runs[p].active
      /\ runs'[p].walk[c] = walk
      /\ \A d \in Chains \ {c} : runs'[p].walk[d] = runs[p].walk[d]
  BY SetWalkFacts
<1>2. TypeOK'
  BY <1>1 DEF IInv, TypeOK
<1>3. Exclusive' /\ ClientsOK' /\ NoGap'
  BY <1>1 DEF IInv, Exclusive, Syncing, Unbinding, BeingUnbound, ClientsOK, NoGap
<1>4. RunsOK'
  BY <1>1 DEF IInv, RunsOK
<1>5. WalksOK'
  BY <1>1 DEF IInv, WalksOK, WalkOK
<1> QED
  BY <1>2, <1>3, <1>4, <1>5 DEF IInv

LEMMA WalkMember ==
  ASSUME IInv, NEW p \in Procs, NEW c \in Chains
  PROVE  /\ runs[p].walk[c] \in Walk
         /\ runs[p].id # None => runs[p].id \in Ids /\ WalkOK(runs[p].id, c, runs[p].walk[c])
  BY DEF IInv, TypeOK, Run, WalksOK

LEMMA ScanPreserves ==
  ASSUME IInv, NEW p \in Procs, NEW c \in Chains, Scan(p, c)
  PROVE  IInv'
<1> DEFINE walk == runs[p].walk[c]
<1>1. PICK head \in 0..heads[c] :
        SetWalk(p, c, [walk EXCEPT !.phase = "queued", !.head = head,
                                   !.todo = {n \in Blocks : walk.since <= n /\ n <= head}])
  BY DEF Scan
<1> DEFINE new == [walk EXCEPT !.phase = "queued", !.head = head,
                               !.todo = {n \in Blocks : walk.since <= n /\ n <= head}]
<1>2. runs[p].id # None /\ UNCHANGED <<bindings, cursors, rows, clients, heads, rules>>
  BY DEF Scan
<1>3. walk \in Walk /\ WalkOK(runs[p].id, c, walk)
  BY <1>2, WalkMember
<1>4. head \in 0..MaxHead
  BY Constants DEF IInv, TypeOK
<1>5. new \in Walk
  BY <1>3, <1>4 DEF Walk, Phases
<1>6. new.phase = "queued" /\ new.since = walk.since /\ new.head = head
      /\ new.todo = {n \in Blocks : walk.since <= n /\ n <= head}
  BY <1>3 DEF Walk
<1>7. walk.since \in 0..MaxHead
  BY <1>3 DEF Walk
<1>8. WalkOK(runs[p].id, c, new)
  <2>1. \A n \in Blocks : n < walk.since => rows[runs[p].id][c][n] > 0
    BY <1>3 DEF WalkOK
  <2>2. \A n \in Blocks : n <= head => n < walk.since \/ n \in new.todo
    BY <1>4, <1>6, <1>7, Constants DEF Blocks
  <2> QED
    BY <1>6, <2>1, <2>2 DEF WalkOK
<1>9. SetWalk(p, c, new)
  BY <1>1
<1> HIDE DEF new
<1> QED
  BY <1>2, <1>5, <1>8, <1>9, WalkStep

\* A walk that goes into another phase with what it holds.
LEMMA PhaseStep ==
  ASSUME IInv, NEW p \in Procs, NEW c \in Chains, NEW phase \in Phases, SetPhase(p, c, phase),
         runs[p].id # None, UNCHANGED <<bindings, cursors, rows, clients, heads, rules>>,
         phase \in Pending => runs[p].walk[c].phase \in Pending,
         phase = "advance" => runs[p].walk[c].todo = {}
  PROVE  IInv'
<1> DEFINE walk == runs[p].walk[c]
           new == [walk EXCEPT !.phase = phase]
<1>1. walk \in Walk /\ WalkOK(runs[p].id, c, walk)
  BY WalkMember
<1>2. new \in Walk /\ new.phase = phase /\ new.since = walk.since /\ new.head = walk.head
      /\ new.todo = walk.todo
  BY <1>1 DEF Walk
<1>3. WalkOK(runs[p].id, c, new)
  BY <1>1, <1>2 DEF WalkOK
<1>4. SetWalk(p, c, new)
  BY DEF SetPhase
<1> HIDE DEF new
<1> QED
  BY <1>2, <1>3, <1>4, WalkStep

LEMMA PhasesPreserve ==
  ASSUME IInv, NEW p \in Procs, NEW c \in Chains,
         ScanFails(p, c) \/ Persist(p, c) \/ Saved(p, c) \/ PersistFails(p, c)
  PROVE  IInv'
<1>1. runs[p].walk[c].phase \in Pending => runs[p].id # None
  BY DEF IInv, RunsOK
<1>2. CASE ScanFails(p, c)
  BY <1>2, PhaseStep DEF ScanFails, Phases, Pending
<1>3. CASE Persist(p, c)
  BY <1>1, <1>3, PhaseStep DEF Persist, Phases, Pending
<1>4. CASE Saved(p, c)
  BY <1>1, <1>4, PhaseStep DEF Saved, Phases, Pending
<1>5. CASE PersistFails(p, c)
  BY <1>1, <1>5, PhaseStep DEF PersistFails, Phases, Pending
<1> QED
  BY <1>2, <1>3, <1>4, <1>5

\* save() stores a row: what was stored or to do still is.
LEMMA SaveRowPreserves ==
  ASSUME IInv, NEW p \in Procs, NEW c \in Chains, SaveRow(p, c)
  PROVE  IInv'
<1> DEFINE walk == runs[p].walk[c]
           i == runs[p].id
<1>1. PICK n \in walk.todo : /\ rows' = [rows EXCEPT ![i][c][n] = rules]
                             /\ SetWalk(p, c, [walk EXCEPT !.todo = @ \ {n}])
  BY DEF SaveRow
<1>2. walk.phase = "saving" /\ UNCHANGED <<bindings, cursors, clients, heads, rules>>
  BY DEF SaveRow
<1>3. i # None /\ runs[p].active
  BY <1>2 DEF IInv, RunsOK, Pending
<1>4. walk \in Walk /\ i \in Ids /\ WalkOK(i, c, walk)
  BY <1>3, WalkMember
<1> DEFINE new == [walk EXCEPT !.todo = walk.todo \ {n}]
<1>5. new \in Walk /\ new.phase = "saving" /\ new.since = walk.since /\ new.head = walk.head
      /\ new.todo = walk.todo \ {n} /\ n \in Blocks
  BY <1>1, <1>2, <1>4 DEF Walk
<1>6. SetWalk(p, c, new)
  BY <1>1, <1>4 DEF Walk
<1>7. rows \in [Ids -> [Chains -> [Blocks -> 0..MaxRules]]] /\ rules \in 1..MaxRules
  BY DEF IInv, TypeOK
<1>8. /\ rows' \in [Ids -> [Chains -> [Blocks -> 0..MaxRules]]]
      /\ rows'[i][c][n] = rules
      /\ \A j \in Ids, d \in Chains, m \in Blocks :
           rows'[j][d][m] = rows[j][d][m] \/ rows'[j][d][m] = rules
  BY <1>1, <1>4, <1>5, <1>7, Constants
<1>9. \A j \in Ids, d \in Chains, m \in Blocks : rows[j][d][m] > 0 => rows'[j][d][m] > 0
  <2>1. rules > 0
    BY <1>7
  <2> QED
    BY <2>1, <1>8
<1>10. rows'[i][c][n] > 0
  BY <1>7, <1>8, Constants
<1> HIDE DEF new
<1>11. /\ runs' \in [Procs -> Run]
       /\ \A r \in Procs \ {p} : runs'[r] = runs[r]
       /\ runs'[p].id = runs[p].id /\ runs'[p].active = runs[p].active
       /\ runs'[p].walk[c] = new
       /\ \A d \in Chains \ {c} : runs'[p].walk[d] = runs[p].walk[d]
  BY <1>5, <1>6, SetWalkFacts
<1>12. TypeOK'
  BY <1>2, <1>8, <1>11 DEF IInv, TypeOK
<1>13. Exclusive'
  BY <1>2, <1>11 DEF IInv, Exclusive, Syncing, Unbinding, BeingUnbound
<1>14. RunsOK'
  BY <1>3, <1>11 DEF IInv, RunsOK
<1>15. WalksOK'
  <2>1. WalkOK(runs[p].id, c, runs[p].walk[c])'
    <3>1. \A m \in Blocks : m < walk.since => rows'[i][c][m] > 0
      BY <1>4, <1>9 DEF WalkOK
    <3>2. \A m \in Blocks : m <= walk.head =>
            m < walk.since \/ m \in walk.todo \ {n} \/ rows'[i][c][m] > 0
      BY <1>2, <1>4, <1>9, <1>10 DEF WalkOK, Pending
    <3> QED
      BY <3>1, <3>2, <1>5, <1>11 DEF WalkOK
  <2>2. ASSUME NEW r \in Procs, NEW d \in Chains, runs'[r].id # None, r # p \/ d # c
        PROVE  WalkOK(runs[r].id, d, runs[r].walk[d])'
    <3>1. runs'[r].id = runs[r].id /\ runs'[r].walk[d] = runs[r].walk[d]
      BY <1>11, <2>2
    <3>2. runs[r].id \in Ids /\ WalkOK(runs[r].id, d, runs[r].walk[d])
      BY <2>2, <3>1, WalkMember
    <3> QED
      BY <3>1, <3>2, <1>9 DEF WalkOK
  <2> QED
    BY <2>1, <2>2 DEF WalksOK
<1>16. ClientsOK'
  <2>1. \A q \in Clients : clients'[q].step \notin UnbindSteps
    BY <1>2, <1>3, NoUnbindMeanwhile
  <2> QED
    BY <2>1 DEF ClientsOK, UnbindSteps
<1>17. NoGap'
  <2>1. \A j \in Ids : BeingUnbound(j)' <=> BeingUnbound(j)
    BY <1>2 DEF BeingUnbound
  <2>2. \A j \in Ids, d \in Chains : cursors[j][d].block \in 0..MaxHead
    BY DEF IInv, TypeOK, Cursor
  <2>3. \A j \in Ids, d \in Chains : \A m \in 1..cursors[j][d].block : m \in Blocks
    BY <2>2, Constants DEF Blocks
  <2> QED
    BY <1>2, <1>9, <2>1, <2>3 DEF IInv, NoGap
<1> QED
  BY <1>12, <1>13, <1>14, <1>15, <1>16, <1>17 DEF IInv

\* The cursor is raised to a head below which nothing is missing.
LEMMA AdvancePreserves ==
  ASSUME IInv, NEW p \in Procs, NEW c \in Chains, Advance(p, c)
  PROVE  IInv'
<1> DEFINE walk == runs[p].walk[c]
           i == runs[p].id
<1>1. /\ walk.phase = "advance"
      /\ cursors' = [cursors EXCEPT ![i][c] = Advanced(cursors[i][c], walk.head)]
      /\ SetPhase(p, c, "done")
      /\ UNCHANGED <<bindings, rows, clients, heads, rules>>
  BY DEF Advance
<1>2. i # None /\ runs[p].active
  BY <1>1 DEF IInv, RunsOK, Pending
<1>3. walk \in Walk /\ i \in Ids /\ WalkOK(i, c, walk)
  BY <1>2, WalkMember
<1>4. walk.head \in 0..MaxHead /\ walk.todo = {}
  BY <1>1, <1>3 DEF Walk, WalkOK
<1>5. cursors \in [Ids -> [Chains -> Cursor]] /\ rules \in 1..MaxRules
  BY DEF IInv, TypeOK
<1>6. cursors[i][c] \in Cursor
  BY <1>3, <1>5
<1>7. Advanced(cursors[i][c], walk.head) \in Cursor
  BY <1>4, <1>5, <1>6, Constants DEF Advanced, Greatest, Cursor
<1>8. cursors' \in [Ids -> [Chains -> Cursor]]
  BY <1>1, <1>3, <1>5, <1>7
<1>9. /\ cursors'[i][c] = Advanced(cursors[i][c], walk.head)
      /\ \A j \in Ids, d \in Chains : j # i \/ d # c => cursors'[j][d] = cursors[j][d]
  BY <1>1, <1>3, <1>5
<1> DEFINE new == [walk EXCEPT !.phase = "done"]
<1>10. new \in Walk /\ new.phase = "done" /\ new.since = walk.since
  BY <1>3 DEF Walk, Phases
<1>11. SetWalk(p, c, new)
  BY <1>1 DEF SetPhase
<1> HIDE DEF new
<1>12. /\ runs' \in [Procs -> Run]
       /\ \A r \in Procs \ {p} : runs'[r] = runs[r]
       /\ runs'[p].id = runs[p].id /\ runs'[p].active = runs[p].active
       /\ runs'[p].walk[c] = new
       /\ \A d \in Chains \ {c} : runs'[p].walk[d] = runs[p].walk[d]
  BY <1>10, <1>11, SetWalkFacts
<1>13. TypeOK'
  BY <1>1, <1>8, <1>12 DEF IInv, TypeOK
<1>14. Exclusive' /\ RunsOK'
  BY <1>1, <1>2, <1>12 DEF IInv, Exclusive, Syncing, Unbinding, BeingUnbound, RunsOK
<1>15. WalksOK'
  <2>1. WalkOK(runs[p].id, c, runs[p].walk[c])'
    BY <1>1, <1>3, <1>10, <1>12 DEF WalkOK, Pending
  <2>2. ASSUME NEW r \in Procs, NEW d \in Chains, runs'[r].id # None, r # p \/ d # c
        PROVE  WalkOK(runs[r].id, d, runs[r].walk[d])'
    <3>1. runs'[r].id = runs[r].id /\ runs'[r].walk[d] = runs[r].walk[d]
      BY <1>12, <2>2
    <3> QED
      BY <1>1, <2>2, <3>1, WalkMember DEF WalkOK
  <2> QED
    BY <2>1, <2>2 DEF WalksOK
<1>16. ClientsOK'
  <2>1. \A q \in Clients : clients'[q].step \notin UnbindSteps
    BY <1>1, <1>2, NoUnbindMeanwhile
  <2> QED
    BY <2>1 DEF ClientsOK, UnbindSteps
<1>17. \A j \in Ids : ~BeingUnbound(j) /\ ~BeingUnbound(j)'
  BY <1>1, <1>2, NoUnbindMeanwhile DEF BeingUnbound
<1>18. \A m \in 1..cursors'[i][c].block : rows[i][c][m] > 0
  <2>1. \A m \in 1..cursors[i][c].block : rows[i][c][m] > 0
    BY <1>3, <1>17 DEF IInv, NoGap
  <2>2. \A m \in 1..walk.head : rows[i][c][m] > 0
    BY <1>1, <1>3, <1>4, Constants DEF WalkOK, Pending, Blocks
  <2>3. cursors'[i][c].block = cursors[i][c].block \/ cursors'[i][c].block = walk.head
    BY <1>9 DEF Advanced, Greatest
  <2> QED
    BY <2>1, <2>2, <2>3
<1>19. NoGap'
  BY <1>1, <1>9, <1>17, <1>18 DEF IInv, NoGap
<1> QED
  BY <1>13, <1>14, <1>15, <1>16, <1>19 DEF IInv

\* A run that begins or ends, or is between two bindings, has no walk that counts.
LEMMA IdleRun ==
  ASSUME IInv, NEW p \in Procs, NEW run \in Run, runs' = [runs EXCEPT ![p] = run],
         run.id = None, \A c \in Chains : run.walk[c].phase \notin Pending,
         run.active => ~Unbinding,
         bindings' \in [Ids -> Binding], UNCHANGED <<cursors, rows, clients, heads, rules>>
  PROVE  IInv'
<1>1. runs \in [Procs -> Run]
  BY DEF IInv, TypeOK
<1>2. runs'[p] = run /\ \A r \in Procs \ {p} : runs'[r] = runs[r]
  BY <1>1
<1>3. TypeOK'
  BY <1>1 DEF IInv, TypeOK
<1>4. Exclusive'
  BY <1>2 DEF IInv, Exclusive, Syncing, Unbinding, BeingUnbound
<1>5. RunsOK' /\ WalksOK'
  BY <1>2 DEF IInv, RunsOK, WalksOK, WalkOK
<1>6. ClientsOK' /\ NoGap'
  BY DEF IInv, ClientsOK, NoGap, BeingUnbound
<1> QED
  BY <1>3, <1>4, <1>5, <1>6 DEF IInv

LEMMA StartRunPreserves ==
  ASSUME IInv, Overlap = FALSE, NEW p \in Procs, StartRun(p)
  PROVE  IInv'
<1>1. PICK work \in SUBSET Ids :
        runs' = [runs EXCEPT ![p] = [NoRun EXCEPT !.active = TRUE, !.work = work,
                                       !.unsynced = {i \in work : ~bindings[i].synced}]]
  BY DEF StartRun
<1> DEFINE run == [NoRun EXCEPT !.active = TRUE, !.work = work,
                                !.unsynced = {i \in work : ~bindings[i].synced}]
<1>2. run \in Run /\ run.id = None /\ run.walk = NoRun.walk
  BY Members DEF Run, NoRun
<1>3. \A c \in Chains : run.walk[c].phase \notin Pending
  BY <1>2 DEF NoRun, NoWalk, Pending
<1>4. ~Unbinding /\ UNCHANGED <<bindings, cursors, rows, clients, heads, rules>>
  BY DEF StartRun
<1>5. bindings' \in [Ids -> Binding]
  BY <1>4 DEF IInv, TypeOK
<1>6. runs' = [runs EXCEPT ![p] = run]
  BY <1>1
<1> HIDE DEF run
<1> QED
  BY <1>2, <1>3, <1>4, <1>5, <1>6, IdleRun

LEMMA EndRunPreserves ==
  ASSUME IInv, NEW p \in Procs, EndRun(p)
  PROVE  IInv'
<1>1. NoRun \in Run /\ NoRun.id = None /\ ~NoRun.active
      /\ \A c \in Chains : NoRun.walk[c].phase \notin Pending
  BY Members DEF NoRun, NoWalk, Pending
<1> QED
  BY <1>1, IdleRun DEF EndRun, IInv, TypeOK

LEMMA EndBindingPreserves ==
  ASSUME IInv, NEW p \in Procs, EndBinding(p)
  PROVE  IInv'
<1> DEFINE i == runs[p].id
           run == [runs[p] EXCEPT !.id = None]
<1>1. /\ i # None
      /\ \A c \in Chains : runs[p].walk[c].phase \in {"done", "failed", "lost"}
      /\ runs' = [runs EXCEPT ![p].id = None]
      /\ UNCHANGED <<cursors, rows, clients, heads, rules>>
  BY DEF EndBinding
<1>2. runs \in [Procs -> Run] /\ runs[p] \in Run /\ bindings \in [Ids -> Binding]
  BY DEF IInv, TypeOK
<1>3. run \in Run /\ run.id = None /\ run.walk = runs[p].walk /\ run.active = runs[p].active
  BY <1>2 DEF Run
<1>4. \A c \in Chains : run.walk[c].phase \notin Pending
  BY <1>1, <1>3 DEF Pending
<1>5. runs' = [runs EXCEPT ![p] = run]
  BY <1>1, <1>2
<1>6. i \in Ids /\ bindings[i] \in Binding
  BY <1>1, <1>2 DEF Run
<1>7. [bindings EXCEPT ![i].synced = TRUE] \in [Ids -> Binding]
  BY <1>2, <1>6 DEF Binding
<1>8. bindings' \in [Ids -> Binding]
  BY <1>2, <1>7 DEF EndBinding
<1>9. ~Unbinding
  BY <1>1 DEF IInv, RunsOK, Exclusive, Syncing
<1> HIDE DEF run
<1> QED
  BY <1>1, <1>3, <1>4, <1>5, <1>8, <1>9, IdleRun

\* The next binding: what its cursors let the walk leave out is stored.
LEMMA StartBindingPreserves ==
  ASSUME IInv, NEW p \in Procs, NEW i \in Ids, StartBinding(p, i)
  PROVE  IInv'
<1> DEFINE first == [c \in Chains |-> [NoWalk EXCEPT !.since = Since(cursors[i][c])]]
           run == [runs[p] EXCEPT !.id = i, !.work = runs[p].work \ {i}, !.walk = first]
<1>1. runs[p].active /\ UNCHANGED <<bindings, cursors, rows, clients, heads, rules>>
  BY DEF StartBinding
<1>2. runs \in [Procs -> Run] /\ runs[p] \in Run
      /\ cursors \in [Ids -> [Chains -> Cursor]]
  BY DEF IInv, TypeOK
<1>3. \A c \in Chains : cursors[i][c] \in Cursor /\ Since(cursors[i][c]) \in 0..MaxHead
        /\ Since(cursors[i][c]) <= cursors[i][c].block
  BY <1>2, Constants DEF Since, Cursor
<1>4. \A c \in Chains : [NoWalk EXCEPT !.since = Since(cursors[i][c])] \in Walk
  BY <1>3, Members DEF Walk
<1>5. first \in [Chains -> Walk]
  BY <1>4
<1>6. \A c \in Chains : first[c].phase = "scan" /\ first[c].since = Since(cursors[i][c])
  BY DEF NoWalk
<1>7. runs' = [runs EXCEPT ![p] = run]
  BY <1>2 DEF StartBinding
<1> HIDE DEF first
<1>8. run \in Run /\ run.id = i /\ run.active = runs[p].active /\ run.walk = first
  BY <1>2, <1>5 DEF Run
<1> HIDE DEF run
<1>9. runs' \in [Procs -> Run] /\ runs'[p] = run /\ \A r \in Procs \ {p} : runs'[r] = runs[r]
  BY <1>2, <1>7, <1>8
<1>10. TypeOK'
  BY <1>1, <1>9 DEF IInv, TypeOK
<1>11. Exclusive'
  BY <1>1, <1>8, <1>9 DEF IInv, Exclusive, Syncing, Unbinding, BeingUnbound
<1>12. RunsOK'
  BY <1>1, <1>6, <1>8, <1>9, Constants DEF IInv, RunsOK, Pending
<1>13. WalksOK'
  <2>1. ASSUME NEW c \in Chains PROVE WalkOK(runs[p].id, c, runs[p].walk[c])'
    <3>1. \A n \in 1..cursors[i][c].block : rows[i][c][n] > 0
      BY <1>1, NoUnbindMeanwhile DEF IInv, NoGap
    <3>2. \A n \in Blocks : n < Since(cursors[i][c]) => n \in 1..cursors[i][c].block
      BY <1>3, Constants DEF Blocks, Cursor
    <3>3. \A n \in Blocks : n < Since(cursors[i][c]) => rows[i][c][n] > 0
      BY <3>1, <3>2
    <3> QED
      BY <1>1, <1>6, <1>8, <1>9, <3>3 DEF WalkOK, Pending
  <2>2. ASSUME NEW r \in Procs \ {p}, NEW c \in Chains, runs'[r].id # None
        PROVE  WalkOK(runs[r].id, c, runs[r].walk[c])'
    BY <1>1, <1>9, <2>2, WalkMember DEF WalkOK
  <2> QED
    BY <2>1, <2>2 DEF WalksOK
<1>14. ClientsOK' /\ NoGap'
  BY <1>1 DEF IInv, ClientsOK, NoGap, BeingUnbound
<1> QED
  BY <1>10, <1>11, <1>12, <1>13, <1>14 DEF IInv

-----------------------------------------------------------------------------
(* Chains and deployments.                                                  *)

LEMMA NewBlockPreserves ==
  ASSUME IInv, NEW c \in Chains, NewBlock(c)
  PROVE  IInv'
<1>1. heads' \in [Chains -> 0..MaxHead]
  BY Constants DEF NewBlock, IInv, TypeOK
<1>2. UNCHANGED <<bindings, cursors, rows, runs, clients, rules>>
  BY DEF NewBlock
<1>3. TypeOK'
  BY <1>1, <1>2 DEF IInv, TypeOK
<1>4. Exclusive' /\ RunsOK' /\ WalksOK' /\ ClientsOK' /\ NoGap'
  BY <1>2 DEF IInv, Exclusive, Syncing, Unbinding, BeingUnbound, RunsOK, WalksOK, WalkOK,
     ClientsOK, NoGap
<1> QED
  BY <1>3, <1>4 DEF IInv

\* A release ends every run and every request; with unbinds carried through there
\* is none under way.
LEMMA DeployPreserves ==
  ASSUME IInv, Breaks = FALSE, Deploy
  PROVE  IInv'
<1>1. /\ rules < MaxRules /\ rules' = rules + 1 /\ ~Unbinding
      /\ runs' = [p \in Procs |-> NoRun]
      /\ clients' = [q \in Clients |-> NoClient]
      /\ UNCHANGED <<bindings, cursors, rows, heads>>
  BY DEF Deploy
<1>2. TypeOK'
  BY <1>1, Members, Constants DEF IInv, TypeOK
<1>3. \A p \in Procs : runs'[p].id = None /\ ~runs'[p].active
        /\ \A c \in Chains : runs'[p].walk[c].phase = "scan"
  BY <1>1 DEF NoRun, NoWalk
<1>4. \A q \in Clients : clients'[q].step = "idle"
  BY <1>1 DEF NoClient
<1>5. Exclusive' /\ RunsOK' /\ WalksOK' /\ ClientsOK'
  BY <1>3, <1>4 DEF Exclusive, Syncing, RunsOK, WalksOK, ClientsOK, Pending, UnbindSteps
<1>6. \A i \in Ids : ~BeingUnbound(i)
  BY <1>1 DEF Unbinding
<1>7. NoGap'
  BY <1>1, <1>6 DEF IInv, NoGap
<1> QED
  BY <1>2, <1>5, <1>7 DEF IInv

-----------------------------------------------------------------------------
(* The results.                                                             *)

\* Each step of a sync, an unbind, a registration or a release keeps the invariant.
LEMMA NextPreserves ==
  ASSUME IInv, Overlap = FALSE, Breaks = FALSE, [Next]_vars
  PROVE  IInv'
<1>1. CASE UNCHANGED vars
  BY <1>1 DEF vars, IInv, TypeOK, Exclusive, Syncing, Unbinding, BeingUnbound, RunsOK, WalksOK,
     WalkOK, ClientsOK, NoGap
<1>2. ASSUME NEW p \in Procs, RunStep(p) PROVE IInv'
  <2>1. ASSUME NEW c \in Chains, ChainStep(p, c) PROVE IInv'
    BY <2>1, ScanPreserves, PhasesPreserve, SaveRowPreserves, AdvancePreserves DEF ChainStep
  <2>2. ASSUME NEW i \in Ids, StartBinding(p, i) PROVE IInv'
    BY <2>2, StartBindingPreserves
  <2> QED
    BY <1>2, <2>1, <2>2, StartRunPreserves, EndBindingPreserves, EndRunPreserves DEF RunStep
<1>3. ASSUME NEW q \in Clients, ClientStep(q) PROVE IInv'
  <2>1. CASE UnbindRows(q) \/ UnbindCursors(q) \/ UnbindBinding(q) \/ ClientFails(q)
    BY <2>1, UnbindRowsPreserves, UnbindCursorsPreserves, UnbindBindingPreserves,
       ClientFailsPreserves
  <2>2. CASE \E w \in Wallets : UnbindFind(q, w)
    BY <2>2, UnbindFindPreserves
  <2>3. CASE WatchUpsert(q) \/ \E w \in Wallets : WatchFind(q, w)
    BY <2>3, WatchPreserves
  <2> QED
    BY <1>3, <2>1, <2>2, <2>3 DEF ClientStep
<1>4. CASE \E w \in Wallets : Bind(w)
  BY <1>4, BindPreserves
<1>5. CASE (\E c \in Chains : NewBlock(c)) \/ Deploy
  BY <1>5, NewBlockPreserves, DeployPreserves
<1> QED
  BY <1>1, <1>2, <1>3, <1>4, <1>5 DEF Next

\* The strengthening of NoGap, for instances without overlapping and broken unbinds.
THEOREM InductiveInvariant ==
  ASSUME Overlap = FALSE, Breaks = FALSE
  PROVE  Spec => []IInv
<1>1. IInv /\ [Next]_vars => IInv'
  BY NextPreserves
<1> QED
  BY <1>1, Initially, PTL DEF Spec

\* Whatever fails, in whichever order chains and processes finish and however far
\* their nodes lag, no later sync starts beyond a block that is missing
\* (persistChain() and advance(), indexer.service.ts:258).
THEOREM NothingIsSkipped ==
  ASSUME Overlap = FALSE, Breaks = FALSE
  PROVE  Spec => []NoGap
<1>1. IInv => NoGap
  BY DEF IInv
<1> QED
  BY <1>1, InductiveInvariant, PTL

-----------------------------------------------------------------------------
(* The rules version of a cursor, for nodes that do not lag.  With a lag a  *)
(* walk under newer rules may end below the cursor and still raise its      *)
(* rules version.                                                           *)

\* What a walk leaves out was judged by the current rules; what it was handed is judged
\* by them or to do; and if its cursor stands beyond its head, another walk under the
\* current rules has put it there.
JudgedWalk(i, c, walk) ==
  /\ \A n \in Blocks : n < walk.since => rows[i][c][n] >= rules
  /\ walk.phase \in Pending =>
       /\ \A n \in Blocks :
            n <= walk.head => n < walk.since \/ n \in walk.todo \/ rows[i][c][n] >= rules
       /\ cursors[i][c].block > walk.head => cursors[i][c].rules >= rules
       /\ walk.head <= heads[c]

JudgedWalks ==
  \A p \in Procs, c \in Chains :
    runs[p].id # None => JudgedWalk(runs[p].id, c, runs[p].walk[c])

\* No cursor is ahead of its chain or of the deployed rules.
NotAhead == \A i \in Ids, c \in Chains : cursors[i][c].block <= heads[c] /\ cursors[i][c].rules <= rules

JInv == JudgedWalks /\ NotAhead /\ JudgedByRules

LEMMA JudgedInitially == Init => JInv
<1> SUFFICES ASSUME Init PROVE JInv
  OBVIOUS
<1>1. \A p \in Procs : runs[p].id = None
  BY DEF Init, NoRun
<1>2. \A i \in Ids, c \in Chains : cursors[i][c].block = 0 /\ cursors[i][c].rules = 0
  BY DEF Init, NoCursor
<1>3. JudgedWalks /\ NotAhead /\ JudgedByRules
  BY <1>1, <1>2 DEF Init, JudgedWalks, NotAhead, JudgedByRules
<1> QED
  BY <1>3 DEF JInv

\* The numbers of the tables.
LEMMA Numbers ==
  ASSUME IInv
  PROVE  /\ rules \in Nat /\ rules >= 1
         /\ \A c \in Chains : heads[c] \in Nat
         /\ \A i \in Ids, c \in Chains :
              /\ cursors[i][c].block \in Nat /\ cursors[i][c].rules \in Nat
              /\ \A n \in Blocks : rows[i][c][n] \in Nat
              /\ \A n \in 1..cursors[i][c].block : n \in Blocks
<1>1. rules \in 1..MaxRules /\ heads \in [Chains -> 0..MaxHead]
      /\ rows \in [Ids -> [Chains -> [Blocks -> 0..MaxRules]]]
      /\ cursors \in [Ids -> [Chains -> Cursor]]
  BY DEF IInv, TypeOK
<1>2. \A i \in Ids, c \in Chains :
        cursors[i][c].block \in 0..MaxHead /\ cursors[i][c].rules \in 0..MaxRules
  BY <1>1 DEF Cursor
<1>3. \A i \in Ids, c \in Chains : \A n \in 1..cursors[i][c].block : n \in Blocks
  BY <1>2, Constants DEF Blocks
<1>4. \A i \in Ids, c \in Chains : \A n \in Blocks : rows[i][c][n] \in 0..MaxRules
  BY <1>1
<1> QED
  BY <1>1, <1>2, <1>3, <1>4, Constants

\* A request that neither deletes anything nor ends an unbind.
LEMMA JudgedClient ==
  ASSUME JInv, UNCHANGED <<cursors, rows, runs, heads, rules>>,
         \A i \in Ids : BeingUnbound(i) => BeingUnbound(i)'
  PROVE  JInv'
<1>1. JudgedWalks'
  BY DEF JInv, JudgedWalks, JudgedWalk
<1>2. NotAhead' /\ JudgedByRules'
  BY DEF JInv, NotAhead, JudgedByRules
<1> QED
  BY <1>1, <1>2 DEF JInv

LEMMA JudgedRequests ==
  ASSUME IInv, JInv, Breaks = FALSE,
         \/ \E w \in Wallets : Bind(w)
         \/ \E q \in Clients : \/ WatchUpsert(q) \/ ClientFails(q)
                               \/ \E w \in Wallets : WatchFind(q, w) \/ UnbindFind(q, w)
  PROVE  JInv'
<1>1. UNCHANGED <<cursors, rows, runs, heads, rules>>
  BY DEF Bind, WatchUpsert, ClientFails, WatchFind, UnbindFind
<1>2. \A i \in Ids : BeingUnbound(i) => BeingUnbound(i)'
  <2>1. CASE \E w \in Wallets : Bind(w)
    BY <2>1 DEF Bind, BeingUnbound
  <2>2. CASE \E q \in Clients : \/ WatchUpsert(q) \/ ClientFails(q)
                                \/ \E w \in Wallets : WatchFind(q, w) \/ UnbindFind(q, w)
    <3>1. PICK q \in Clients : \/ WatchUpsert(q) \/ ClientFails(q)
                               \/ \E w \in Wallets : WatchFind(q, w) \/ UnbindFind(q, w)
      BY <2>2
    <3>2. clients \in [Clients -> Client]
      BY DEF IInv, TypeOK
    <3>3. clients[q].step \in {"idle", "watch"} /\ \A r \in Clients \ {q} : clients'[r] = clients[r]
      BY <3>1, <3>2 DEF WatchUpsert, ClientFails, WatchFind, UnbindFind
    <3> QED
      BY <3>3 DEF BeingUnbound
  <2> QED
    BY <2>1, <2>2
<1> QED
  BY <1>1, <1>2, JudgedClient

\* An unbind deletes the rows and the cursors of a wallet no run is working on.
LEMMA JudgedUnbind ==
  ASSUME IInv, JInv, NEW q \in Clients, UnbindRows(q) \/ UnbindCursors(q) \/ UnbindBinding(q)
  PROVE  JInv'
<1> DEFINE i == clients[q].id
<1>1. clients[q].step \in UnbindSteps /\ UNCHANGED <<runs, heads, rules>>
  BY DEF UnbindRows, UnbindCursors, UnbindBinding, UnbindSteps
<1>2. i \in Ids /\ BeingUnbound(i) /\ \A p \in Procs : ~runs[p].active /\ runs[p].id = None
  BY <1>1, NoRunMeanwhile
<1>3. JudgedWalks'
  BY <1>1, <1>2 DEF JudgedWalks
<1>4. clients \in [Clients -> Client] /\ rows \in [Ids -> [Chains -> [Blocks -> 0..MaxRules]]]
      /\ cursors \in [Ids -> [Chains -> Cursor]]
  BY DEF IInv, TypeOK
<1>5. /\ \A r \in Clients \ {q} : clients'[r] = clients[r]
      /\ \A j \in Ids \ {i} : rows'[j] = rows[j] /\ cursors'[j] = cursors[j]
  BY <1>1, <1>4 DEF UnbindRows, UnbindCursors, UnbindBinding
<1>6. \A j \in Ids \ {i} : BeingUnbound(j) => BeingUnbound(j)'
  BY <1>5 DEF BeingUnbound
<1>7. \A c \in Chains : cursors'[i][c] = cursors[i][c] \/ cursors'[i][c] = NoCursor
  BY <1>2, <1>4 DEF UnbindRows, UnbindCursors, UnbindBinding
<1>8. NotAhead'
  <2>1. \A c \in Chains : heads[c] \in Nat /\ rules \in Nat
    BY Numbers
  <2> QED
    BY <1>1, <1>5, <1>7, <2>1 DEF JInv, NotAhead, NoCursor
<1>9. JudgedByRules'
  <2> SUFFICES ASSUME NEW j \in Ids, NEW c \in Chains, ~BeingUnbound(j)',
                      NEW n \in 1..cursors'[j][c].block
               PROVE  rows'[j][c][n] >= cursors'[j][c].rules
    BY DEF JudgedByRules
  <2>1. CASE j # i
    BY <1>5, <1>6, <2>1 DEF JInv, JudgedByRules
  <2>2. CASE j = i
    <3>1. PICK k \in Ids : k = i
      BY <1>2
    <3>2. BeingUnbound(k)' \/ \A d \in Chains : cursors'[k][d].block = 0
      <4>1. CASE UnbindRows(q) \/ UnbindCursors(q)
        BY <1>4, <3>1, <4>1 DEF UnbindRows, UnbindCursors, BeingUnbound, Client
      <4>2. CASE UnbindBinding(q)
        BY <3>1, <4>2 DEF UnbindBinding, IInv, ClientsOK, NoCursor
      <4> QED
        BY <4>1, <4>2
    <3> QED
      BY <2>2, <3>1, <3>2
  <2> QED
    BY <2>1, <2>2
<1> QED
  BY <1>3, <1>8, <1>9 DEF JInv

\* A step of one walk that neither stores a row nor moves a cursor.
LEMMA JudgedWalkStep ==
  ASSUME IInv, JInv, NEW p \in Procs, NEW c \in Chains, NEW walk \in Walk, SetWalk(p, c, walk),
         JudgedWalk(runs[p].id, c, walk),
         UNCHANGED <<cursors, rows, clients, heads, rules>>
  PROVE  JInv'
<1>1. /\ \A r \in Procs \ {p} : runs'[r] = runs[r]
      /\ runs'[p].id = runs[p].id
      /\ runs'[p].walk[c] = walk
      /\ \A d \in Chains \ {c} : runs'[p].walk[d] = runs[p].walk[d]
  BY SetWalkFacts
<1>2. JudgedWalks'
  BY <1>1 DEF JInv, JudgedWalks, JudgedWalk
<1>3. NotAhead' /\ JudgedByRules'
  BY DEF JInv, NotAhead, JudgedByRules, BeingUnbound
<1> QED
  BY <1>2, <1>3 DEF JInv

\* The walk snapshots the head of the chain, and no cursor is beyond that.
LEMMA JudgedScan ==
  ASSUME IInv, JInv, MaxLag = 0, NEW p \in Procs, NEW c \in Chains, Scan(p, c)
  PROVE  JInv'
<1> DEFINE walk == runs[p].walk[c]
<1>1. PICK head \in 0..heads[c] :
        /\ head >= heads[c] - MaxLag
        /\ SetWalk(p, c, [walk EXCEPT !.phase = "queued", !.head = head,
                                      !.todo = {n \in Blocks : walk.since <= n /\ n <= head}])
  BY DEF Scan
<1> DEFINE new == [walk EXCEPT !.phase = "queued", !.head = head,
                               !.todo = {n \in Blocks : walk.since <= n /\ n <= head}]
<1>2. runs[p].id # None /\ UNCHANGED <<cursors, rows, clients, heads, rules>>
  BY DEF Scan
<1>3. walk \in Walk /\ runs[p].id \in Ids /\ JudgedWalk(runs[p].id, c, walk)
  BY <1>2, WalkMember DEF JInv, JudgedWalks
<1>4. heads[c] \in 0..MaxHead /\ head \in 0..MaxHead /\ head = heads[c]
  <2>1. heads[c] \in 0..MaxHead
    BY DEF IInv, TypeOK
  <2> QED
    BY <1>1, <2>1, Constants
<1>5. new \in Walk
  BY <1>3, <1>4 DEF Walk, Phases
<1>6. new.phase = "queued" /\ new.since = walk.since /\ new.head = head
      /\ new.todo = {n \in Blocks : walk.since <= n /\ n <= head}
  BY <1>3 DEF Walk
<1>7. walk.since \in 0..MaxHead
  BY <1>3 DEF Walk
<1>8. \A n \in Blocks : n <= head => n < walk.since \/ n \in new.todo
  BY <1>4, <1>6, <1>7, Constants DEF Blocks
<1>9. ~(cursors[runs[p].id][c].block > head)
  BY <1>3, <1>4, Numbers DEF JInv, NotAhead
<1>10. SetWalk(p, c, new)
  BY <1>1
<1> HIDE DEF new
<1>11. JudgedWalk(runs[p].id, c, new)
  BY <1>3, <1>4, <1>6, <1>8, <1>9, Constants DEF JudgedWalk
<1> QED
  BY <1>2, <1>5, <1>10, <1>11, JudgedWalkStep

LEMMA JudgedPhases ==
  ASSUME IInv, JInv, NEW p \in Procs, NEW c \in Chains,
         ScanFails(p, c) \/ Persist(p, c) \/ Saved(p, c) \/ PersistFails(p, c)
  PROVE  JInv'
<1> DEFINE walk == runs[p].walk[c]
<1>1. runs[p].id # None /\ UNCHANGED <<cursors, rows, clients, heads, rules>>
  BY DEF ScanFails, Persist, Saved, PersistFails, IInv, RunsOK, Pending
<1>2. PICK phase \in Phases : SetPhase(p, c, phase) /\ (phase \in Pending => walk.phase \in Pending)
  BY DEF ScanFails, Persist, Saved, PersistFails, Phases, Pending
<1> DEFINE new == [walk EXCEPT !.phase = phase]
<1>3. walk \in Walk /\ JudgedWalk(runs[p].id, c, walk)
  BY <1>1, WalkMember DEF JInv, JudgedWalks
<1>4. new \in Walk /\ new.phase = phase /\ new.since = walk.since /\ new.head = walk.head
      /\ new.todo = walk.todo
  BY <1>3 DEF Walk
<1>5. JudgedWalk(runs[p].id, c, new)
  BY <1>2, <1>3, <1>4 DEF JudgedWalk
<1>6. SetWalk(p, c, new)
  BY <1>2 DEF SetPhase
<1> HIDE DEF new
<1> QED
  BY <1>1, <1>4, <1>5, <1>6, JudgedWalkStep

\* A row is stored under the current rules, which no cursor is ahead of.
LEMMA JudgedSaveRow ==
  ASSUME IInv, JInv, NEW p \in Procs, NEW c \in Chains, SaveRow(p, c)
  PROVE  JInv'
<1> DEFINE walk == runs[p].walk[c]
           i == runs[p].id
<1>1. PICK n \in walk.todo : /\ rows' = [rows EXCEPT ![i][c][n] = rules]
                             /\ SetWalk(p, c, [walk EXCEPT !.todo = @ \ {n}])
  BY DEF SaveRow
<1>2. walk.phase = "saving" /\ UNCHANGED <<bindings, cursors, clients, heads, rules>>
  BY DEF SaveRow
<1>3. i # None
  BY <1>2 DEF IInv, RunsOK, Pending
<1>4. walk \in Walk /\ i \in Ids /\ JudgedWalk(i, c, walk)
  BY <1>3, WalkMember DEF JInv, JudgedWalks
<1> DEFINE new == [walk EXCEPT !.todo = walk.todo \ {n}]
<1>5. new \in Walk /\ new.phase = "saving" /\ new.since = walk.since /\ new.head = walk.head
      /\ new.todo = walk.todo \ {n} /\ n \in Blocks
  BY <1>1, <1>2, <1>4 DEF Walk
<1>6. SetWalk(p, c, new)
  BY <1>1, <1>4 DEF Walk
<1>7. /\ rows'[i][c][n] = rules
      /\ \A j \in Ids, d \in Chains, m \in Blocks :
           rows'[j][d][m] = rows[j][d][m] \/ rows'[j][d][m] = rules
  BY <1>1, <1>4, <1>5 DEF IInv, TypeOK
<1>8. \A j \in Ids, d \in Chains, m \in Blocks :
        /\ rows[j][d][m] >= rules => rows'[j][d][m] >= rules
        /\ rows[j][d][m] >= cursors[j][d].rules => rows'[j][d][m] >= cursors[j][d].rules
  BY <1>7, Numbers DEF JInv, NotAhead
<1>9. rows'[i][c][n] >= rules
  BY <1>7, Numbers
<1> HIDE DEF new
<1>10. /\ \A r \in Procs \ {p} : runs'[r] = runs[r]
       /\ runs'[p].id = runs[p].id
       /\ runs'[p].walk[c] = new
       /\ \A d \in Chains \ {c} : runs'[p].walk[d] = runs[p].walk[d]
  BY <1>5, <1>6, SetWalkFacts
<1>11. JudgedWalks'
  <2>1. JudgedWalk(runs[p].id, c, runs[p].walk[c])'
    <3>1. \A m \in Blocks : m < walk.since => rows'[i][c][m] >= rules
      BY <1>4, <1>8 DEF JudgedWalk
    <3>2. \A m \in Blocks : m <= walk.head =>
            m < walk.since \/ m \in walk.todo \ {n} \/ rows'[i][c][m] >= rules
      BY <1>2, <1>4, <1>8, <1>9 DEF JudgedWalk, Pending
    <3>3. /\ cursors[i][c].block > walk.head => cursors[i][c].rules >= rules
          /\ walk.head <= heads[c]
      BY <1>2, <1>4 DEF JudgedWalk, Pending
    <3> QED
      BY <3>1, <3>2, <3>3, <1>2, <1>5, <1>10 DEF JudgedWalk
  <2>2. ASSUME NEW r \in Procs, NEW d \in Chains, runs'[r].id # None, r # p \/ d # c
        PROVE  JudgedWalk(runs[r].id, d, runs[r].walk[d])'
    <3>1. runs'[r].id = runs[r].id /\ runs'[r].walk[d] = runs[r].walk[d]
      BY <1>10, <2>2
    <3>2. runs[r].id \in Ids /\ JudgedWalk(runs[r].id, d, runs[r].walk[d])
      BY <2>2, <3>1, WalkMember DEF JInv, JudgedWalks
    <3> QED
      BY <1>2, <1>8, <3>1, <3>2 DEF JudgedWalk
  <2> QED
    BY <2>1, <2>2 DEF JudgedWalks
<1>12. NotAhead'
  BY <1>2 DEF JInv, NotAhead
<1>13. JudgedByRules'
  <2>1. \A j \in Ids : BeingUnbound(j)' <=> BeingUnbound(j)
    BY <1>2 DEF BeingUnbound
  <2>2. \A j \in Ids, d \in Chains : \A m \in 1..cursors[j][d].block : m \in Blocks
    BY Numbers
  <2> QED
    BY <1>2, <1>8, <2>1, <2>2 DEF JInv, JudgedByRules
<1> QED
  BY <1>11, <1>12, <1>13 DEF JInv

\* The cursor takes over the current rules: up to the head by what the walk stored, and
\* beyond it because only a walk under these rules can have put it there.
LEMMA JudgedAdvance ==
  ASSUME IInv, JInv, NEW p \in Procs, NEW c \in Chains, Advance(p, c)
  PROVE  JInv'
<1> DEFINE walk == runs[p].walk[c]
           i == runs[p].id
           old == cursors[i][c]
<1>1. /\ walk.phase = "advance"
      /\ cursors' = [cursors EXCEPT ![i][c] = Advanced(old, walk.head)]
      /\ SetPhase(p, c, "done")
      /\ UNCHANGED <<bindings, rows, clients, heads, rules>>
  BY DEF Advance
<1>2. i # None /\ runs[p].active
  BY <1>1 DEF IInv, RunsOK, Pending
<1>3. walk \in Walk /\ i \in Ids /\ WalkOK(i, c, walk) /\ JudgedWalk(i, c, walk)
  BY <1>2, WalkMember DEF JInv, JudgedWalks
<1>4. walk.head \in 0..MaxHead /\ walk.todo = {} /\ walk.since \in 0..MaxHead
  BY <1>1, <1>3 DEF Walk, WalkOK
<1>5. /\ old.block \in Nat /\ old.rules \in Nat /\ rules \in Nat /\ walk.head \in Nat
      /\ old.rules <= rules /\ old.block <= heads[c] /\ heads[c] \in Nat
      /\ walk.head <= heads[c] /\ (old.block > walk.head => old.rules >= rules)
  BY <1>1, <1>3, <1>4, Numbers, Constants DEF JInv, NotAhead, JudgedWalk, Pending
<1>6. /\ \A j \in Ids, d \in Chains : j # i \/ d # c => cursors'[j][d] = cursors[j][d]
      /\ cursors'[i][c] = Advanced(old, walk.head)
  BY <1>1, <1>3 DEF IInv, TypeOK
<1> DEFINE cur == Advanced(old, walk.head)
<1>7. /\ cur.rules = rules
      /\ cur.block = old.block \/ cur.block = walk.head
      /\ cur.block \in Nat /\ cur.block >= old.block /\ cur.block >= walk.head
  BY <1>5 DEF Advanced, Greatest
<1> DEFINE new == [walk EXCEPT !.phase = "done"]
<1>8. new \in Walk /\ new.phase = "done" /\ new.since = walk.since
  BY <1>3 DEF Walk, Phases
<1>9. SetWalk(p, c, new)
  BY <1>1 DEF SetPhase
<1> HIDE DEF new
<1>10. /\ \A r \in Procs \ {p} : runs'[r] = runs[r]
       /\ runs'[p].id = runs[p].id
       /\ runs'[p].walk[c] = new
       /\ \A d \in Chains \ {c} : runs'[p].walk[d] = runs[p].walk[d]
  BY <1>8, <1>9, SetWalkFacts
<1>11. NotAhead'
  BY <1>1, <1>5, <1>6, <1>7 DEF JInv, NotAhead
<1>12. JudgedWalks'
  <2>1. JudgedWalk(runs[p].id, c, runs[p].walk[c])'
    BY <1>1, <1>3, <1>8, <1>10 DEF JudgedWalk, Pending
  <2>2. ASSUME NEW r \in Procs, NEW d \in Chains, runs'[r].id # None, r # p \/ d # c
        PROVE  JudgedWalk(runs[r].id, d, runs[r].walk[d])'
    <3>1. runs'[r].id = runs[r].id /\ runs'[r].walk[d] = runs[r].walk[d]
      BY <1>10, <2>2
    <3>2. runs[r].id \in Ids /\ JudgedWalk(runs[r].id, d, runs[r].walk[d])
      BY <2>2, <3>1, WalkMember DEF JInv, JudgedWalks
    <3>3. cursors'[runs[r].id][d] = cursors[runs[r].id][d] \/ cursors'[runs[r].id][d].rules >= rules
      BY <1>5, <1>6, <1>7, <3>2
    <3> QED
      BY <1>1, <3>1, <3>2, <3>3 DEF JudgedWalk
  <2> QED
    BY <2>1, <2>2 DEF JudgedWalks
<1>13. \A j \in Ids : ~BeingUnbound(j)
  BY <1>2, NoUnbindMeanwhile
<1>14. \A m \in 1..cur.block : rows[i][c][m] >= rules
  <2>1. \A m \in 1..walk.head : rows[i][c][m] >= rules
    <3>1. \A m \in 1..walk.head : m \in Blocks /\ m <= walk.head
      BY <1>4, Constants DEF Blocks
    <3>2. \A m \in Blocks : m <= walk.head => m < walk.since \/ rows[i][c][m] >= rules
      BY <1>1, <1>3, <1>4 DEF JudgedWalk, Pending
    <3>3. \A m \in Blocks : m < walk.since => rows[i][c][m] >= rules
      BY <1>3 DEF JudgedWalk
    <3> QED
      BY <3>1, <3>2, <3>3
  <2>2. CASE cur.block = walk.head
    BY <2>1, <2>2
  <2>3. CASE cur.block # walk.head
    <3>1. cur.block = old.block /\ old.block > walk.head
      BY <1>5, <1>7, <2>3
    <3>2. old.rules = rules
      BY <1>5, <3>1
    <3> QED
      BY <1>3, <1>13, <3>1, <3>2 DEF JInv, JudgedByRules
  <2> QED
    BY <2>2, <2>3
<1>15. JudgedByRules'
  <2> SUFFICES ASSUME NEW j \in Ids, NEW d \in Chains, NEW m \in 1..cursors'[j][d].block
               PROVE  rows[j][d][m] >= cursors'[j][d].rules
    BY <1>1 DEF JudgedByRules
  <2>1. CASE j = i /\ d = c
    BY <1>6, <1>7, <1>14, <2>1
  <2>2. CASE j # i \/ d # c
    BY <1>6, <1>13, <2>2 DEF JInv, JudgedByRules
  <2> QED
    BY <2>1, <2>2
<1> QED
  BY <1>11, <1>12, <1>15 DEF JInv

\* A run that begins or ends, or is between two bindings, has no walk that counts.
LEMMA JudgedIdleRun ==
  ASSUME IInv, JInv, NEW p \in Procs, runs' \in [Procs -> Run], runs'[p].id = None,
         \A r \in Procs \ {p} : runs'[r] = runs[r],
         UNCHANGED <<cursors, rows, clients, heads, rules>>
  PROVE  JInv'
<1>1. JudgedWalks'
  BY DEF JInv, JudgedWalks, JudgedWalk
<1>2. NotAhead' /\ JudgedByRules'
  BY DEF JInv, NotAhead, JudgedByRules, BeingUnbound
<1> QED
  BY <1>1, <1>2 DEF JInv

LEMMA JudgedRuns ==
  ASSUME IInv, JInv, Overlap = FALSE, NEW p \in Procs, StartRun(p) \/ EndRun(p) \/ EndBinding(p)
  PROVE  JInv'
<1>1. IInv'
  BY StartRunPreserves, EndRunPreserves, EndBindingPreserves
<1>2. runs \in [Procs -> Run] /\ runs' \in [Procs -> Run]
  BY <1>1 DEF IInv, TypeOK
<1>3. UNCHANGED <<cursors, rows, clients, heads, rules>>
  BY DEF StartRun, EndRun, EndBinding
<1>4. \A r \in Procs \ {p} : runs'[r] = runs[r]
  BY <1>2 DEF StartRun, EndRun, EndBinding
<1>5. CASE StartRun(p)
  <2>1. PICK work \in SUBSET Ids :
          runs' = [runs EXCEPT ![p] = [NoRun EXCEPT !.active = TRUE, !.work = work,
                                         !.unsynced = {i \in work : ~bindings[i].synced}]]
    BY <1>5 DEF StartRun
  <2> DEFINE run == [NoRun EXCEPT !.active = TRUE, !.work = work,
                                  !.unsynced = {i \in work : ~bindings[i].synced}]
  <2>2. run.id = None
    BY DEF NoRun
  <2>3. runs'[p] = run
    BY <1>2, <2>1
  <2>4. runs'[p].id = None
    BY <2>2, <2>3
  <2> QED
    BY <1>2, <1>3, <1>4, <2>4, JudgedIdleRun
<1>6. CASE EndRun(p)
  <2>1. runs'[p].id = None
    BY <1>2, <1>6 DEF EndRun, NoRun
  <2> QED
    BY <1>2, <1>3, <1>4, <2>1, JudgedIdleRun
<1>7. CASE EndBinding(p)
  <2>1. runs'[p].id = None
    BY <1>2, <1>7 DEF EndBinding, Run
  <2> QED
    BY <1>2, <1>3, <1>4, <2>1, JudgedIdleRun
<1> QED
  BY <1>5, <1>6, <1>7

\* A walk begins beyond genesis only if its cursor was walked under the current rules,
\* and then what it leaves out was judged by them.
LEMMA JudgedStartBinding ==
  ASSUME IInv, JInv, NEW p \in Procs, NEW i \in Ids, StartBinding(p, i)
  PROVE  JInv'
<1> DEFINE first == [c \in Chains |-> [NoWalk EXCEPT !.since = Since(cursors[i][c])]]
           run == [runs[p] EXCEPT !.id = i, !.work = runs[p].work \ {i}, !.walk = first]
<1>1. runs[p].active /\ UNCHANGED <<bindings, cursors, rows, clients, heads, rules>>
  BY DEF StartBinding
<1>2. runs \in [Procs -> Run] /\ runs[p] \in Run
  BY DEF IInv, TypeOK
<1>3. \A c \in Chains : first[c].phase = "scan" /\ first[c].since = Since(cursors[i][c])
  BY DEF NoWalk
<1>4. runs' = [runs EXCEPT ![p] = run]
  BY <1>2 DEF StartBinding
<1> HIDE DEF first
<1>5. run.id = i /\ run.walk = first
  BY <1>2 DEF Run
<1> HIDE DEF run
<1>6. runs'[p] = run /\ \A r \in Procs \ {p} : runs'[r] = runs[r]
  BY <1>2, <1>4
<1>7. JudgedWalks'
  <2>1. ASSUME NEW c \in Chains PROVE JudgedWalk(runs[p].id, c, runs[p].walk[c])'
    <3>1. \A n \in 1..cursors[i][c].block : rows[i][c][n] >= cursors[i][c].rules
      BY <1>1, NoUnbindMeanwhile DEF JInv, JudgedByRules
    <3>2. ASSUME NEW n \in Blocks, n < Since(cursors[i][c]) PROVE rows[i][c][n] >= rules
      <4>1. n \in Nat /\ n >= 1
        BY Constants DEF Blocks
      <4>2. cursors[i][c].rules >= rules /\ n < cursors[i][c].block
        BY <3>2, <4>1, Numbers DEF Since
      <4>3. n \in 1..cursors[i][c].block
        BY <4>1, <4>2, Numbers
      <4> QED
        BY <3>1, <4>2, <4>3, Numbers
    <3> QED
      BY <1>1, <1>3, <1>5, <1>6, <3>2 DEF JudgedWalk, Pending
  <2>2. ASSUME NEW r \in Procs \ {p}, NEW c \in Chains, runs'[r].id # None
        PROVE  JudgedWalk(runs[r].id, c, runs[r].walk[c])'
    BY <1>1, <1>6, <2>2 DEF JInv, JudgedWalks, JudgedWalk
  <2> QED
    BY <2>1, <2>2 DEF JudgedWalks
<1>8. NotAhead' /\ JudgedByRules'
  BY <1>1 DEF JInv, NotAhead, JudgedByRules, BeingUnbound
<1> QED
  BY <1>7, <1>8 DEF JInv

\* A block raises a head; a release raises the rules when no run is in progress.
LEMMA JudgedOutside ==
  ASSUME IInv, JInv, Breaks = FALSE, (\E c \in Chains : NewBlock(c)) \/ Deploy
  PROVE  JInv'
<1>1. CASE \E c \in Chains : NewBlock(c)
  <2>1. UNCHANGED <<cursors, rows, runs, clients, rules>>
    BY <1>1 DEF NewBlock
  <2>2. heads \in [Chains -> 0..MaxHead]
    BY DEF IInv, TypeOK
  <2>3. \A c \in Chains : heads'[c] \in Nat /\ heads[c] <= heads'[c]
    BY <1>1, <2>2, Constants DEF NewBlock
  <2>4. NotAhead'
    BY <2>1, <2>3, Numbers DEF JInv, NotAhead
  <2>5. ASSUME NEW p \in Procs, NEW c \in Chains, runs[p].id # None
        PROVE  JudgedWalk(runs[p].id, c, runs[p].walk[c])'
    <3>1. JudgedWalk(runs[p].id, c, runs[p].walk[c])
      BY <2>5 DEF JInv, JudgedWalks
    <3>2. runs[p].walk[c].head \in Nat
      BY WalkMember, Constants DEF Walk
    <3> QED
      BY <2>1, <2>3, <3>1, <3>2, Numbers DEF JudgedWalk
  <2>6. JudgedWalks'
    BY <2>1, <2>5 DEF JudgedWalks
  <2>7. JudgedByRules'
    BY <2>1 DEF JInv, JudgedByRules, BeingUnbound
  <2> QED
    BY <2>4, <2>6, <2>7 DEF JInv
<1>2. CASE Deploy
  <2>1. rules' = rules + 1 /\ ~Unbinding /\ UNCHANGED <<bindings, cursors, rows, heads>>
    BY <1>2 DEF Deploy
  <2>2. \A p \in Procs : runs'[p].id = None
    BY <1>2 DEF Deploy, NoRun
  <2>3. JudgedWalks'
    BY <2>2 DEF JudgedWalks
  <2>4. NotAhead'
    BY <2>1, Numbers DEF JInv, NotAhead
  <2>5. JudgedByRules'
    BY <2>1 DEF JInv, JudgedByRules, Unbinding
  <2> QED
    BY <2>3, <2>4, <2>5 DEF JInv
<1> QED
  BY <1>1, <1>2

LEMMA JudgedNext ==
  ASSUME IInv, JInv, Overlap = FALSE, Breaks = FALSE, MaxLag = 0, [Next]_vars
  PROVE  JInv'
<1>1. CASE UNCHANGED vars
  BY <1>1, JudgedClient DEF vars, BeingUnbound
<1>2. ASSUME NEW p \in Procs, RunStep(p) PROVE JInv'
  <2>1. ASSUME NEW c \in Chains, ChainStep(p, c) PROVE JInv'
    BY <2>1, JudgedScan, JudgedPhases, JudgedSaveRow, JudgedAdvance DEF ChainStep
  <2>2. ASSUME NEW i \in Ids, StartBinding(p, i) PROVE JInv'
    BY <2>2, JudgedStartBinding
  <2> QED
    BY <1>2, <2>1, <2>2, JudgedRuns DEF RunStep
<1>3. ASSUME NEW q \in Clients, ClientStep(q) PROVE JInv'
  BY <1>3, JudgedUnbind, JudgedRequests DEF ClientStep
<1>4. CASE \E w \in Wallets : Bind(w)
  BY <1>4, JudgedRequests
<1>5. CASE (\E c \in Chains : NewBlock(c)) \/ Deploy
  BY <1>5, JudgedOutside
<1> QED
  BY <1>1, <1>2, <1>3, <1>4, <1>5 DEF Next

\* After a release with newer rules no cursor claims them for a row that older rules
\* judged, with any number of processes re-walking the same wallet and failing anywhere,
\* as long as the nodes do not lag (Since(), advance(), indexer.service.ts:170-179).
THEOREM RulesAreHonest ==
  ASSUME Overlap = FALSE, Breaks = FALSE, MaxLag = 0
  PROVE  Spec => []JudgedByRules
<1>1. Init => IInv /\ JInv
  BY Initially, JudgedInitially
<1>2. (IInv /\ JInv) /\ [Next]_vars => (IInv /\ JInv)'
  BY NextPreserves, JudgedNext
<1>3. IInv /\ JInv => JudgedByRules
  BY DEF JInv
<1> QED
  BY <1>1, <1>2, <1>3, PTL DEF Spec
=============================================================================
