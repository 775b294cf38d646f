---------------------------- MODULE SyncCoalesce ----------------------------
(***************************************************************************)
(* How the sync requests of one account share runs in one process:         *)
(* sync(), ensureInitialSync() and coalesce() of indexer.service.ts.       *)
(*                                                                         *)
(* A forced sync ("all") reads every binding, a read-path sync ("subset")  *)
(* the ones never synced; both then ask coalesce() for a run.  coalesce()  *)
(* has no await before it inserts its entry, so it is one step.  What a    *)
(* run does to the ledger is module WalletSync.                            *)
(***************************************************************************)
EXTENDS Integers, FiniteSets

CONSTANTS
  Wallets,    \* wallets of the account
  Reqs,       \* requests in flight
  Runs,       \* places for runs: a request holds one at most, so as many as requests do
  None

ASSUME CoalesceAssumption == None \notin (Wallets \cup Reqs \cup Runs)

VARIABLES
  bound,      \* wallets that are registered
  synced,     \* wallets whose initialSyncedAt is set
  reqs,       \* requests in progress
  runs,       \* the runs
  inflight    \* the entry of the account in the map of that name

vars == <<bound, synced, reqs, runs, inflight>>

Modes == {"subset", "all"}

Request == [step: {"idle", "read", "wait", "again", "ride"}, mode: Modes, work: SUBSET Wallets,
            unsynced: SUBSET Wallets, run: Runs \cup {None}]

NoRequest == [step |-> "idle", mode |-> "all", work |-> {}, unsynced |-> {}, run |-> None]

Run == [state: {"none", "running", "settled"}, mode: Modes, work: SUBSET Wallets,
        left: SUBSET Wallets, unsynced: SUBSET Wallets, served: BOOLEAN]

NoRun == [state |-> "none", mode |-> "all", work |-> {}, left |-> {}, unsynced |-> {},
          served |-> FALSE]

Init ==
  /\ bound = {}
  /\ synced = {}
  /\ reqs = [q \in Reqs |-> NoRequest]
  /\ runs = [r \in Runs |-> NoRun]
  /\ inflight = None

Unsynced == bound \ synced

\* A wallet is registered.
Register(w) ==
  /\ w \notin bound
  /\ bound' = bound \cup {w}
  /\ UNCHANGED <<synced, reqs, runs, inflight>>

Read(q, mode, work) ==
  /\ reqs[q].step = "idle"
  /\ work # {}
  /\ reqs' = [reqs EXCEPT ![q] = [step |-> "read", mode |-> mode, work |-> work,
                                  unsynced |-> work \cap Unsynced, run |-> None]]
  /\ UNCHANGED <<bound, synced, runs, inflight>>

\* sync(): all bindings are read.
Sync(q) == Read(q, "all", bound)

\* ensureInitialSync(): the bindings never synced are read.
EnsureInitialSync(q) == Read(q, "subset", Unsynced)

Goes(q, step, r) == reqs' = [reqs EXCEPT ![q] = [@ EXCEPT !.step = step, !.run = r]]

\* The request is served by a run: its own list of bindings is not used any more.
Rides(q, r) ==
  reqs' = [reqs EXCEPT ![q] = [step |-> "ride", mode |-> reqs[q].mode, work |-> {},
                               unsynced |-> {}, run |-> r]]

\* The request lets go of its run, which is collected if it was the last to hold it.
Released(q) ==
  [r \in Runs |-> IF /\ r = reqs[q].run /\ runs[r].state = "settled"
                     /\ \A p \in Reqs \ {q} : reqs[p].run # r
                  THEN NoRun ELSE runs[r]]

\* A new run for the request.
Fresh(q) ==
  LET free == {s \in Runs : runs[s].state = "none"}
      r == CHOOSE s \in free : TRUE
  IN /\ free # {}
     /\ runs' = [runs EXCEPT ![r] = [state |-> "running", mode |-> reqs[q].mode,
                                     work |-> reqs[q].work, left |-> reqs[q].work,
                                     unsynced |-> reqs[q].unsynced, served |-> FALSE]]
     /\ inflight' = r
     /\ Rides(q, r)

\* A request that waited for a run goes on in the microtasks of its settlement, before
\* any request whose bindings are still being read.
Woken ==
  \E p \in Reqs : \/ reqs[p].step = "again"
                  \/ reqs[p].step = "wait" /\ runs[reqs[p].run].state = "settled"

Asks(q) == reqs[q].step = "again" \/ (reqs[q].step = "read" /\ ~Woken)

\* Fault: a forced request does not wait for a bootstrap.
CoalesceAtOnce(q) ==
  /\ Asks(q)
  /\ IF inflight # None /\ (reqs[q].mode = "subset" \/ runs[inflight].mode = "all")
     THEN Rides(q, inflight) /\ UNCHANGED <<runs, inflight>>
     ELSE Fresh(q)
  /\ UNCHANGED <<bound, synced>>

\* coalesce(): start a run, ride the one in flight, or wait for it first.
Coalesce(q) ==
  /\ Asks(q)
  /\ \/ inflight = None /\ Fresh(q)
     \/ /\ inflight # None
        /\ reqs[q].mode = "subset" \/ runs[inflight].mode = "all"
        /\ Rides(q, inflight)
        /\ UNCHANGED <<runs, inflight>>
     \/ /\ inflight # None
        /\ reqs[q].mode = "all" /\ runs[inflight].mode = "subset"
        /\ Goes(q, "wait", inflight)
        /\ UNCHANGED <<runs, inflight>>
  /\ UNCHANGED <<bound, synced>>

\* Fault: a waiting request takes the outcome of the bootstrap for its own.
WakeServed(q) ==
  /\ reqs[q].step = "wait"
  /\ runs[reqs[q].run].state = "settled"
  /\ Rides(q, reqs[q].run)
  /\ UNCHANGED <<bound, synced, runs, inflight>>

\* The run it waited for settled, either way: the request asks again, with the
\* bindings it has read.
Wake(q) ==
  /\ reqs[q].step = "wait"
  /\ runs[reqs[q].run].state = "settled"
  /\ Goes(q, "again", None)
  /\ runs' = Released(q)
  /\ UNCHANGED <<bound, synced, inflight>>

\* The run of the request settled; the caller gets its result or its error.
Answer(q) ==
  /\ reqs[q].step = "ride"
  /\ runs[reqs[q].run].state = "settled"
  /\ reqs' = [reqs EXCEPT ![q] = NoRequest]
  /\ runs' = Released(q)
  /\ UNCHANGED <<bound, synced, inflight>>

\* ensureInitialSync() with waitMs: the read does not wait any longer.
Timeout(q) ==
  /\ reqs[q].mode = "subset" /\ reqs[q].step = "ride"
  /\ reqs' = [reqs EXCEPT ![q] = NoRequest]
  /\ runs' = Released(q)
  /\ UNCHANGED <<bound, synced, inflight>>

\* The run walks a binding and marks it if it was not marked when it was read; it is
\* not a total failure any more (allFailed).
Walk(r, w) ==
  /\ runs[r].state = "running"
  /\ w \in runs[r].left
  /\ runs' = [runs EXCEPT ![r] = [runs[r] EXCEPT !.left = @ \ {w}, !.served = TRUE]]
  /\ synced' = IF w \in runs[r].unsynced THEN synced \cup {w} ELSE synced
  /\ UNCHANGED <<bound, reqs, inflight>>

\* The binding is unavailable: it stays unmarked.
WalkFails(r, w) ==
  /\ runs[r].state = "running"
  /\ w \in runs[r].left
  /\ runs' = [runs EXCEPT ![r].left = @ \ {w}]
  /\ UNCHANGED <<bound, synced, reqs, inflight>>

\* What is left of a run when its promise is settled: what its requests are told.
Settled(r) ==
  IF \E q \in Reqs : reqs[q].run = r
  THEN [NoRun EXCEPT !.state = "settled", !.mode = runs[r].mode, !.served = runs[r].served]
  ELSE NoRun

\* The promise settles, rejected if no binding was served, and its entry is taken out
\* of the map.
Settle(r) ==
  /\ runs[r].state = "running" /\ runs[r].left = {}
  /\ runs' = [runs EXCEPT ![r] = Settled(r)]
  /\ inflight' = IF inflight = r THEN None ELSE inflight
  /\ UNCHANGED <<bound, synced, reqs>>

\* The process dies and starts again: requests, runs and the map were its memory.
Restart ==
  /\ reqs' = [q \in Reqs |-> NoRequest]
  /\ runs' = [r \in Runs |-> NoRun]
  /\ inflight' = None
  /\ UNCHANGED <<bound, synced>>

Progress ==
  \/ \E q \in Reqs : Coalesce(q) \/ Wake(q) \/ Answer(q)
  \/ \E r \in Runs : Settle(r) \/ \E w \in Wallets : Walk(r, w) \/ WalkFails(r, w)

Next ==
  \/ Progress
  \/ \E w \in Wallets : Register(w)
  \/ \E q \in Reqs : Sync(q) \/ EnsureInitialSync(q) \/ Timeout(q)
  \/ Restart

Spec == Init /\ [][Next]_vars


-----------------------------------------------------------------------------
(* Properties.                                                              *)

\* The map holds the one run under way in this process, and nothing when there is
\* none, however requests arrive while others wait, wake and ride: two runs never
\* write the same wallet's rows, and no request rides a run that is over.
SingleRun == \A r \in Runs : runs[r].state = "running" <=> inflight = r

\* A forced refresh "must NEVER be satisfied by a 'subset' bootstrap"
\* (indexer.service.ts:102), not even by the one it waited for.
ForcedByForced ==
  \A q \in Reqs :
    reqs[q].mode = "all" /\ reqs[q].step = "ride" => runs[reqs[q].run].mode = "all"
=============================================================================
