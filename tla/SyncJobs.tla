------------------------------ MODULE SyncJobs ------------------------------
(***************************************************************************)
(* The asynchronous sync jobs of one account around the runs of module     *)
(* SyncCoalesce: sync-job.ts (the store), sync-job.service.ts (enqueue and *)
(* the runner), sync.queue.ts (the two dispatchers) and sync-progress.ts   *)
(* with the hooks of runSyncWork() and persistChain() that drive it.       *)
(*                                                                         *)
(* A job is a request of SyncCoalesce from the moment its handler runs.    *)
(* Records, progress and the in-process queue are memory of the process;   *)
(* the Bull queue is in Redis and survives a restart.  Phases are always   *)
(* published (publish(true)) and counters are left out, so the progress in *)
(* a job's record is its tracker's for as long as there is a record.       *)
(***************************************************************************)
EXTENDS SyncCoalesce, Sequences, SequencesExt

CONSTANTS
  Jobs,        \* job ids of the account, numbered by the store's counter: requests
  Chains,      \* the supported chains that are followed; there may be others
  Other,       \* any job of any other account
  MaxRecords   \* MAX_RECORDS

ASSUME JobsAssumption ==
  /\ Jobs \subseteq Reqs \cap Nat
  /\ Other \notin Jobs
  /\ MaxRecords \in Nat \ {0}

VARIABLES
  dispatcher,  \* the one configured: "bull" or "in_process"
  record,      \* status of each job's record
  records,     \* the store's Map, in insertion order
  sending,     \* jobs whose dispatcher.enqueue() is awaited
  queue,       \* dispatched and not picked up
  active,      \* jobs whose handler runs
  track        \* SyncProgressTracker of the run a job started

jobVars == <<dispatcher, record, records, sending, queue, active, track>>
allVars == <<vars, jobVars>>

Unfinished == {"queued", "running"}
Finished == {"done", "failed"}

\* Phases of a chain: fetching and tracing are "scanning", pricing and saving are
\* "persisting"; "refused" (by the scan) and "failed" (later) are both shown as failed.
Scan == {"pending", "scanning"}
Terminal == {"done", "refused", "failed"}

JobsInit ==
  /\ Init
  /\ dispatcher \in {"bull", "in_process"}
  /\ record = [j \in Jobs |-> "none"]
  /\ records = <<>> /\ queue = <<>>
  /\ sending = {} /\ active = {}
  /\ track = [j \in Jobs |-> <<>>]

-----------------------------------------------------------------------------
(* The store.                                                               *)

HasRecord(j) == record[j] \in Unfinished \cup Finished

\* prune(): finished records whose TTL is over, then the oldest until the count fits.
Prune(expired) ==
  LET kept == SelectSeq(records, LAMBDA x : x \notin expired)
      over == Len(kept) - MaxRecords
  IN IF over > 0 THEN SubSeq(kept, over + 1, Len(kept)) ELSE kept

\* create() after prune(); a record that is dropped is gone for good, and so is its
\* progress when the job is over.
Create(x) ==
  \E expired \in SUBSET {j \in Jobs : record[j] \in Finished} :
    LET kept == Prune(expired)
        dropped == {j \in Jobs : HasRecord(j) /\ j \notin ToSet(kept)}
    IN /\ records' = Append(kept, x)
       /\ record' = [j \in Jobs |-> IF j = x THEN "queued"
                                    ELSE IF j \in dropped THEN "gone" ELSE record[j]]
       /\ track' = [j \in Jobs |-> IF j \in dropped /\ record[j] \in Finished THEN <<>> ELSE track[j]]

\* update(): throws when the record is gone, which every caller survives.
Update(j, status) == record' = IF HasRecord(j) THEN [record EXCEPT ![j] = status] ELSE record

-----------------------------------------------------------------------------
(* Enqueue and dispatch.                                                    *)

FindActive == {j \in Jobs : record[j] \in Unfinished}

\* The id the counter gives next.
Unused(j) == record[j] = "none" /\ \A i \in Jobs : i < j => record[i] # "none"

\* Fault: the lookup of the active job is left out.
EnqueueBlind(j) ==
  /\ Unused(j) /\ bound # {}
  /\ Create(j)
  /\ sending' = sending \cup {j}
  /\ UNCHANGED <<vars, dispatcher, queue, active>>

\* enqueue(): with a wallet bound and no job active, a record is made and dispatched.
\* Lookup and create have no await between them.
Enqueue(j) ==
  /\ Unused(j) /\ bound # {}
  /\ FindActive = {}
  /\ Create(j)
  /\ sending' = sending \cup {j}
  /\ UNCHANGED <<vars, dispatcher, queue, active>>

\* queue.add() was accepted, or setImmediate() called.
Dispatched(j) ==
  /\ j \in sending
  /\ sending' = sending \ {j}
  /\ queue' = Append(queue, j)
  /\ UNCHANGED <<vars, dispatcher, record, records, active, track>>

\* Fault: a job whose dispatch failed stays queued.
DispatchFailsQuietly(j) ==
  /\ j \in sending /\ dispatcher = "bull"
  /\ sending' = sending \ {j}
  /\ UNCHANGED <<vars, dispatcher, record, records, queue, active, track>>

\* queue.add() rejected.
DispatchFails(j) ==
  /\ j \in sending /\ dispatcher = "bull"
  /\ sending' = sending \ {j}
  /\ Update(j, "failed")
  /\ UNCHANGED <<vars, dispatcher, records, queue, active, track>>

\* Another account's job is made: its record takes a place in the same store.
OthersEnqueue ==
  /\ Create(Other)
  /\ UNCHANGED <<vars, dispatcher, sending, queue, active>>

\* The Bull worker has concurrency 1 and takes the head, when other accounts' jobs before
\* it are over; an in-process job waits for none.
Picks(j) ==
  \E i \in DOMAIN queue :
    /\ queue[i] = j
    /\ dispatcher = "bull" => active = {} /\ i = 1
    /\ queue' = RemoveAt(queue, i)

\* SyncJobRunner.run() of a job with a record: it is running, and sync() reads bindings.
Start(j) ==
  /\ Picks(j) /\ HasRecord(j)
  /\ Update(j, "running")
  /\ active' = active \cup {j}
  /\ Sync(j)
  /\ UNCHANGED <<dispatcher, records, sending, track>>

\* run() of a job whose record is gone, pruned or lost in a restart: nothing is done.
Skip(j) ==
  /\ Picks(j) /\ ~HasRecord(j)
  /\ UNCHANGED <<vars, dispatcher, record, records, sending, active, track>>

\* The job's sync() asks for a run; if it starts one, that run reports to this job.
JobCoalesce(j) ==
  /\ Coalesce(j)
  /\ track' = IF runs' = runs THEN track
              ELSE [track EXCEPT ![j] = [p \in reqs[j].work \X Chains |-> "pending"]]
  /\ UNCHANGED <<dispatcher, record, records, sending, queue, active>>

JobWake(j) == Wake(j) /\ UNCHANGED jobVars

\* sync() resolves, or rejects when no binding was served, and the record is finished.
Finish(j) ==
  /\ Answer(j)
  /\ Update(j, IF runs[reqs[j].run].served THEN "done" ELSE "failed")
  /\ active' = active \ {j}
  /\ track' = IF HasRecord(j) THEN track ELSE [track EXCEPT ![j] = <<>>]
  /\ UNCHANGED <<dispatcher, records, sending, queue>>

-----------------------------------------------------------------------------
(* The run of a job reports its chains.                                     *)

Tracks(j) == track[j] # <<>>
Phases(j, w) == {track[j][<<w, c>>] : c \in Chains}

\* The binding being walked: unsynced ones first, one after the other.
Walking(j, w) ==
  /\ reqs[j].step = "ride" /\ Tracks(j)
  /\ LET run == runs[reqs[j].run]
     IN /\ run.state = "running" /\ w \in run.left
        /\ run.left \cap run.unsynced # {} => w \in run.unsynced
        /\ \A v \in run.left \ {w} : Phases(j, v) = {"pending"}

Enter(j, w, c, phase) ==
  /\ track' = [track EXCEPT ![j][<<w, c>>] = phase]
  /\ UNCHANGED <<vars, dispatcher, record, records, sending, queue, active>>

\* The adapter reports on the chain for the first time.
Scanning(j, w, c) ==
  /\ Walking(j, w)
  /\ track[j][<<w, c>>] = "pending"
  /\ Enter(j, w, c, "scanning")

\* Fault: a late callback is applied.
LateScanApplied(j, w, c) ==
  /\ Tracks(j) /\ <<w, c>> \in DOMAIN track[j] /\ track[j][<<w, c>>] = "refused"
  /\ Enter(j, w, c, "scanning")

\* Traces in flight when their chain was given up still report, also after the run:
\* scanning() leaves a chain that is terminal alone.
LateScan(j, w, c) ==
  /\ Tracks(j) /\ <<w, c>> \in DOMAIN track[j] /\ track[j][<<w, c>>] = "refused"
  /\ Enter(j, w, c, "refused")

\* onChainError(): the chain's scan failed.
ChainError(j, w, c) ==
  /\ Walking(j, w)
  /\ track[j][<<w, c>>] \in Scan
  /\ Enter(j, w, c, "refused")

\* onChain() hands the chain to the queue, which persists one after the other.
Persisting(j, w, c) ==
  /\ Walking(j, w)
  /\ track[j][<<w, c>>] = "scanning"
  /\ "persisting" \notin Phases(j, w)
  /\ Enter(j, w, c, "persisting")

\* persistChain() stores the rows and moves the cursor, or fails.
Persisted(j, w, c) ==
  /\ Walking(j, w)
  /\ track[j][<<w, c>>] = "persisting"
  /\ Enter(j, w, c, "done") \/ Enter(j, w, c, "failed")

\* fetchTransactions() returned, since some chain answered, every chain is persisted or
\* reported, and the binding is marked.
JobWalk(j, w) ==
  /\ Walking(j, w)
  /\ Phases(j, w) \subseteq Terminal
  /\ Walk(reqs[j].run, w)
  /\ UNCHANGED jobVars

\* The binding is unavailable: its cursors cannot be read, no chain answered, or it
\* cannot be marked.  Chains not terminal are failed.
JobWalkFails(j, w) ==
  /\ Walking(j, w)
  /\ Phases(j, w) = {"pending"} \/ Phases(j, w) \subseteq Terminal
  /\ WalkFails(reqs[j].run, w)
  /\ track' = [track EXCEPT ![j] = [p \in DOMAIN track[j] |->
                 IF p[1] = w /\ track[j][p] \notin Terminal THEN "failed" ELSE track[j][p]]]
  /\ UNCHANGED <<dispatcher, record, records, sending, queue, active>>

-----------------------------------------------------------------------------
(* Requests without a job, and the process.                                 *)

Callers == Reqs \ Jobs

\* The legacy endpoint's sync() and the reads' ensureInitialSync().
Call(q) == (Sync(q) \/ EnsureInitialSync(q)) /\ UNCHANGED jobVars

CallerGoes(q) == (Coalesce(q) \/ Wake(q) \/ Answer(q)) /\ UNCHANGED jobVars

GiveUp(q) == Timeout(q) /\ UNCHANGED jobVars

\* A run that reports to no job.
OwnedByJob(r) == \E j \in Jobs : Tracks(j) /\ reqs[j].step = "ride" /\ reqs[j].run = r

QuietWalk(r, w) ==
  /\ ~OwnedByJob(r)
  /\ Walk(r, w) \/ WalkFails(r, w)
  /\ UNCHANGED jobVars

RunSettles(r) == Settle(r) /\ UNCHANGED jobVars

Bind(w) == Register(w) /\ UNCHANGED jobVars

\* The process restarts: the store is empty.  Bull delivers the job again whose worker
\* died; an in-process queue is lost.
JobsRestart ==
  /\ Restart
  /\ record' = [j \in Jobs |-> IF record[j] = "none" THEN "none" ELSE "gone"]
  /\ records' = <<>> /\ sending' = {} /\ active' = {}
  /\ queue' = IF dispatcher = "bull" THEN SetToSeq(active) \o queue ELSE <<>>
  /\ track' = [j \in Jobs |-> <<>>]
  /\ UNCHANGED dispatcher

ChainStep(j, w) ==
  \/ \E c \in Chains : Scanning(j, w, c) \/ ChainError(j, w, c)
                       \/ Persisting(j, w, c) \/ Persisted(j, w, c)
  \/ JobWalk(j, w) \/ JobWalkFails(j, w)

JobStep(j) == JobCoalesce(j) \/ JobWake(j) \/ Finish(j)

Worker == \E j \in Jobs : Start(j) \/ Skip(j)

JobsNext ==
  \/ \E j \in Jobs : Enqueue(j) \/ Dispatched(j) \/ DispatchFails(j) \/ JobStep(j)
  \/ \E j \in Jobs, w \in Wallets : ChainStep(j, w) \/ \E c \in Chains : LateScan(j, w, c)
  \/ OthersEnqueue \/ Worker
  \/ \E q \in Callers : Call(q) \/ CallerGoes(q) \/ GiveUp(q)
  \/ \E r \in Runs : RunSettles(r) \/ \E w \in Wallets : QuietWalk(r, w)
  \/ \E w \in Wallets : Bind(w)
  \/ JobsRestart

JobsSpec == JobsInit /\ [][JobsNext]_allVars

\* A request can go on: ask for a run, ask again, or take its answer.
Ready(q) == Asks(q) \/ (reqs[q].step \in {"wait", "ride"} /\ runs[reqs[q].run].state = "settled")

\* The worker takes what is queued and queue.add() returns, runs end since their calls
\* are answered or given up, and a request that can go on again and again does.  Each is
\* the fairness of the actions that change the expression named.
JobsFair ==
  /\ []<>(queue = <<>> \/ active # {}) \/ []<><<queue' # queue>>_allVars
  /\ []<>(sending = {}) \/ []<><<sending' # sending>>_allVars
  /\ []<>(inflight = None) \/ []<><<<<runs, track>>' # <<runs, track>>>>_allVars
  /\ \A q \in Reqs : <>[]~Ready(q) \/ []<><<reqs[q]' # reqs[q]>>_allVars

FairJobsSpec == JobsSpec /\ JobsFair

-----------------------------------------------------------------------------
(* Properties.                                                              *)

\* Repeated refreshes share one job: an account never has two records that are not
\* finished, whatever is pruned, delivered again or lost (enqueue()).  A job whose record is
\* pruned does not count: a second one may then start beside it.
OneActiveJob == Cardinality(FindActive) <= 1

\* When a job says it is finished, its progress is too: no chain is left pending or
\* under way on the screen, by a binding that failed before its chains were reached or
\* by a callback that comes after the chain, the run or the job is over.
FinishedShowsAll ==
  \A j \in Jobs : record[j] \in Finished /\ Tracks(j) =>
    \A p \in DOMAIN track[j] : track[j][p] \in Terminal

\* Every job ends or is forgotten: again and again the account has no job under way,
\* or enqueue() would hand out the same one for ever.  A forced request that waits for
\* bootstraps, however many reads start and fail, is among what a job needs.
EveryJobEnds == []<>(FindActive = {})
=============================================================================
