------------------------------- MODULE Anchor -------------------------------
(***************************************************************************)
(* Anchoring a hash on chain: AnchorSubmissionService, the dispatchers and *)
(* AnchorService.process() over the AnchorRecord table, with their callers *)
(* (TaxEvidenceService.record, ReportService.finalize, anchorStored of the *)
(* sync) and the chain.                                                    *)
(*                                                                         *)
(* A process p is one execution of a caller or of a queue worker; it stops *)
(* at every await.  A submission leaves a Bull job that workers run, up to *)
(* MaxAttempts times.  In contract mode VeraAnchor refuses a hash it holds;*)
(* in self-send mode every transaction is accepted.  (The dispatcher that  *)
(* runs process() in the caller belongs to the mock mode, with no chain.)  *)
(* Every call to the database may fail; a write that fails may have been   *)
(* made all the same.                                                      *)
(***************************************************************************)
EXTENDS Integers, FiniteSets

CONSTANTS
  Hashes,       \* payload hashes
  Txs,          \* transactions: bounds how many are ever sent
  Jobs,         \* Bull jobs: bounds how many submissions are enqueued
  Clients,      \* executions of callers in progress at the same time
  Workers,      \* queue workers
  Callers,      \* which callers this instance exercises
  MaxAttempts,  \* 5, of the queue and of the record
  Contract,     \* TRUE: ANCHOR_CONTRACT_ADDRESS is set
  Faults,       \* bound on crashes and on calls to the database or the queue that fail
  None

ASSUME AnchorAssumption ==
  /\ MaxAttempts \in Nat \ {0}
  /\ Contract \in BOOLEAN
  /\ Faults \in Nat
  /\ Clients \cap Workers = {}
  /\ Callers \subseteq {"record", "finalize", "stored"}
  /\ None \notin (Hashes \cup Txs \cup Jobs)

VARIABLES
  records,   \* AnchorRecord
  txs,       \* the chain
  jobs,      \* the Bull queue
  procs,     \* executions in progress
  reports,   \* TaxReport.status of the report whose audit hash this is: open (draft or
             \* finalized) or anchored
  faults,    \* crashes and such failed calls so far
  lost       \* history: jobs that ended or lost an attempt outside process()'s try

Procs == Clients \cup Workers

vars == <<records, txs, jobs, procs, reports, faults, lost>>

Record == [status: {"absent", "pending", "anchored", "failed"}, attempts: Nat,
           tx: Txs \cup {None}]

Tx == [hash: Hashes \cup {None}, state: {"none", "pending", "success", "reverted"}]

Job == [hash: Hashes \cup {None}, state: {"none", "waiting", "active", "done", "failed"},
        made: 0..MaxAttempts, stalled: BOOLEAN]

Steps == {"idle", "prepare", "enqueue", "get", "upgrade", "find", "increment", "send", "wait",
          "mark", "catch", "fail", "syncfail"}

Proc == [step: Steps, caller: {"record", "finalize", "stored", "worker"},
         hash: Hashes \cup {None}, job: Jobs \cup {None}, tx: Txs \cup {None}]

Idle == [step |-> "idle", caller |-> "worker", hash |-> None, job |-> None, tx |-> None]

Init ==
  /\ records = [h \in Hashes |-> [status |-> "absent", attempts |-> 0, tx |-> None]]
  /\ txs = [t \in Txs |-> [hash |-> None, state |-> "none"]]
  /\ jobs = [j \in Jobs |-> [hash |-> None, state |-> "none", made |-> 0, stalled |-> FALSE]]
  /\ procs = [p \in Procs |-> Idle]
  /\ reports = [h \in Hashes |-> "open"]
  /\ faults = 0
  /\ lost = {}

\* On to the next step; a transaction is remembered until it is recorded or given up.
To(p, step) ==
  procs' = [procs EXCEPT ![p].step = step,
                         ![p].tx = IF step \in {"wait", "mark"} THEN @ ELSE None]

Done(p) == procs' = [procs EXCEPT ![p] = Idle]

\* The transactions of a hash that the chain accepted.
Accepted(h) == {t \in Txs : txs[t].hash = h /\ txs[t].state = "success"}

\* Something goes wrong that the model bounds.
Faulty == faults < Faults /\ faults' = faults + 1

\* Jobs and transactions are new ones and idle workers are alike: which one it is does
\* not matter.
FreshJobs == {j \in Jobs : jobs[j].state = "none"}
FreshTxs == {t \in Txs : txs[t].state = "none"}
FreshJob == CHOOSE j \in FreshJobs : TRUE
FreshTx == CHOOSE t \in FreshTxs : TRUE
IdleWorker == CHOOSE p \in Workers : procs[p].step = "idle"

\* The writes of AnchorRepository.  create() leaves an existing record as it is, and an
\* update of a record that does not exist is refused.
Created(h) == [records EXCEPT ![h].status = IF @ = "absent" THEN "pending" ELSE @]
Counted(h) == [records EXCEPT ![h].attempts = @ + 1]
MarkedAnchored(h, t) == [records EXCEPT ![h].status = "anchored", ![h].tx = t]
MarkedFailed(h) == [records EXCEPT ![h].status = IF @ = "absent" THEN @ ELSE "failed"]

-----------------------------------------------------------------------------
(* Callers and submit().                                                    *)

\* No submission begins once the jobs are used up: a bound.
Begin(p, caller, h, step) ==
  /\ caller \in Callers /\ p \in Clients
  /\ FreshJobs # {}
  /\ procs[p].step = "idle"
  /\ procs' = [procs EXCEPT ![p] = [Idle EXCEPT !.step = step, !.caller = caller, !.hash = h]]

\* TaxEvidenceService.record(): the document is saved, then submit().
RecordEvidence(p, h) ==
  /\ Begin(p, "record", h, "prepare")
  /\ UNCHANGED <<records, txs, jobs, reports, faults, lost>>

\* ReportService.finalize(): the report is finalized, then submit().
Finalize(p, h) ==
  /\ Begin(p, "finalize", h, "prepare")
  /\ reports' = [reports EXCEPT ![h] = "open"]
  /\ UNCHANGED <<records, txs, jobs, faults, lost>>

\* anchorStored(): a record that is pending or anchored is skipped.
AnchorStored(p, h) ==
  /\ records[h].status \in {"absent", "failed"}
  /\ Begin(p, "stored", h, "prepare")
  /\ UNCHANGED <<records, txs, jobs, reports, faults, lost>>

\* Its read fails, and the catch is entered whatever the record says.
StoredReadFails(p, h) ==
  /\ Faulty
  /\ Begin(p, "stored", h, "syncfail")
  /\ UNCHANGED <<records, txs, jobs, reports, lost>>

\* prepare().
Prepare(p) ==
  /\ procs[p].step = "prepare"
  /\ records' = Created(procs[p].hash)
  /\ To(p, "enqueue")
  /\ UNCHANGED <<txs, jobs, reports, faults, lost>>

\* Where a rejection of submit() ends: anchorStored() catches it, the others pass
\* it to the client.
Rejected(p) == IF procs[p].caller = "stored" THEN To(p, "syncfail") ELSE Done(p)

PrepareFails(p) ==
  /\ Faulty
  /\ procs[p].step = "prepare"
  /\ records' \in {records, Created(procs[p].hash)}
  /\ Rejected(p)
  /\ UNCHANGED <<txs, jobs, reports, lost>>

\* BullAnchorDispatcher.enqueue(): jobs are not deduplicated by hash.
Enqueue(p) ==
  /\ procs[p].step = "enqueue"
  /\ FreshJobs # {}
  /\ jobs' = [jobs EXCEPT ![FreshJob] = [hash |-> procs[p].hash, state |-> "waiting",
                                         made |-> 0, stalled |-> FALSE]]
  /\ To(p, "get")
  /\ UNCHANGED <<records, txs, reports, faults, lost>>

\* The queue is unavailable.
EnqueueFails(p) ==
  /\ Faulty
  /\ procs[p].step = "enqueue"
  /\ Rejected(p)
  /\ UNCHANGED <<records, txs, jobs, reports, lost>>

\* submit() reads the record back; finalize() goes on if it is anchored.
Get(p) ==
  /\ procs[p].step = "get"
  /\ IF procs[p].caller = "finalize" /\ records[procs[p].hash].status = "anchored"
     THEN To(p, "upgrade") ELSE Done(p)
  /\ UNCHANGED <<records, txs, jobs, reports, faults, lost>>

\* The job is in the queue, and submit() rejects all the same.
GetFails(p) ==
  /\ Faulty
  /\ procs[p].step = "get"
  /\ Rejected(p)
  /\ UNCHANGED <<records, txs, jobs, reports, lost>>

\* finalize() marks the report anchored.
Upgrade(p) ==
  /\ procs[p].step = "upgrade"
  /\ reports' = [reports EXCEPT ![procs[p].hash] = "anchored"]
  /\ Done(p)
  /\ UNCHANGED <<records, txs, jobs, faults, lost>>

\* That write fails: the report stays finalized.
UpgradeFails(p) ==
  /\ Faulty
  /\ procs[p].step = "upgrade"
  /\ Done(p)
  /\ UNCHANGED <<records, txs, jobs, reports, lost>>

\* The catch of anchorStored(): markFailed(), whatever the record says by now.
SyncFail(p) ==
  /\ procs[p].step = "syncfail"
  /\ records' = MarkedFailed(procs[p].hash)
  /\ Done(p)
  /\ UNCHANGED <<txs, jobs, reports, faults, lost>>

\* That fails too, and is only reported.
SyncFailFails(p) ==
  /\ Faulty
  /\ procs[p].step = "syncfail"
  /\ Done(p)
  /\ UNCHANGED <<records, txs, jobs, reports, lost>>

-----------------------------------------------------------------------------
(* AnchorService.process(), run by a worker.                                *)

\* A worker takes a job.
Start(p, j) ==
  /\ p \in Workers /\ procs[p].step = "idle" /\ p = IdleWorker
  /\ jobs[j].state = "waiting"
  /\ jobs' = [jobs EXCEPT ![j].state = "active"]
  /\ procs' = [procs EXCEPT ![p] = [Idle EXCEPT !.step = "find", !.hash = jobs[j].hash, !.job = j]]
  /\ UNCHANGED <<records, txs, reports, faults, lost>>

\* process() returned: the job is done.
Returned(p) ==
  /\ Done(p)
  /\ jobs' = [jobs EXCEPT ![procs[p].job].state = "done"]

\* Fault: the queue gives up one attempt early.
ThrewEarly(p) ==
  LET j == procs[p].job IN
  /\ Done(p)
  /\ jobs' = [jobs EXCEPT ![j].made = @ + 1, ![j].state =
       IF jobs[j].made + 1 < MaxAttempts - 1 THEN "waiting" ELSE "failed"]

\* process() threw: Bull retries while attempts are left.
Threw(p) ==
  LET j == procs[p].job IN
  /\ Done(p)
  /\ jobs' = [jobs EXCEPT ![j].made = @ + 1, ![j].state =
       IF jobs[j].made + 1 < MaxAttempts THEN "waiting" ELSE "failed"]

\* The attempt that process() makes of its job is the last one.
LastAttempt(p) == jobs[procs[p].job].made + 1 >= MaxAttempts

\* The job goes without what this attempt owed its record.
Loses(p) == lost' = lost \cup {procs[p].job}

\* An anchored record is answered from the table.
Find(p) ==
  /\ procs[p].step = "find"
  /\ IF records[procs[p].hash].status = "anchored" THEN Returned(p)
     ELSE To(p, "increment") /\ UNCHANGED jobs
  /\ UNCHANGED <<records, txs, reports, faults, lost>>

\* The read is before the try: an attempt of the job is gone and the record has not
\* counted it.
FindFails(p) ==
  /\ Faulty
  /\ procs[p].step = "find"
  /\ Threw(p)
  /\ Loses(p)
  /\ UNCHANGED <<records, txs, reports>>

Increment(p) ==
  /\ procs[p].step = "increment"
  /\ records' = Counted(procs[p].hash)
  /\ To(p, "send")
  /\ UNCHANGED <<txs, jobs, reports, faults, lost>>

\* So is the counter; if it was written, only a last attempt is lost, for the catch
\* is not reached.
IncrementFails(p) ==
  /\ Faulty
  /\ procs[p].step = "increment"
  /\ Threw(p)
  /\ \/ UNCHANGED records /\ Loses(p)
     \/ /\ records' = Counted(procs[p].hash)
        /\ IF LastAttempt(p) THEN Loses(p) ELSE UNCHANGED lost
  /\ UNCHANGED <<txs, reports>>

\* The transaction is sent.  A contract that holds the hash makes the gas
\* estimate fail instead.
Send(p) ==
  LET h == procs[p].hash IN
  /\ procs[p].step = "send"
  /\ ~(Contract /\ Accepted(h) # {})
  /\ FreshTxs # {}
  /\ txs' = [txs EXCEPT ![FreshTx] = [hash |-> h, state |-> "pending"]]
  /\ procs' = [procs EXCEPT ![p].step = "wait", ![p].tx = FreshTx]
  /\ UNCHANGED <<records, jobs, reports, faults, lost>>

\* The RPC fails, or refuses the call; or the transaction went out and its hash
\* never came back.
SendFails(p) ==
  LET h == procs[p].hash IN
  /\ procs[p].step = "send"
  /\ \/ UNCHANGED txs
     \/ /\ ~(Contract /\ Accepted(h) # {})
        /\ FreshTxs # {}
        /\ txs' = [txs EXCEPT ![FreshTx] = [hash |-> h, state |-> "pending"]]
  /\ To(p, "catch")
  /\ UNCHANGED <<records, jobs, reports, faults, lost>>

\* Fault: the contract seals a hash again.
MineAgain(t) ==
  /\ txs[t].state = "pending"
  /\ txs' = [txs EXCEPT ![t].state = "success"]
  /\ UNCHANGED <<records, jobs, procs, reports, faults, lost>>

\* The chain takes the transaction: VeraAnchor.anchor() reverts for a sealed hash.
Mine(t) ==
  /\ txs[t].state = "pending"
  /\ txs' = [txs EXCEPT ![t].state =
       IF Contract /\ Accepted(txs[t].hash) # {} THEN "reverted" ELSE "success"]
  /\ UNCHANGED <<records, jobs, procs, reports, faults, lost>>

\* Fault: the status of the receipt is not looked at.
ReceiptUnchecked(p) ==
  /\ procs[p].step = "wait"
  /\ txs[procs[p].tx].state \in {"success", "reverted"}
  /\ To(p, "mark")
  /\ UNCHANGED <<records, txs, jobs, reports, faults, lost>>

\* waitForTransactionReceipt() answers.
Receipt(p) ==
  /\ procs[p].step = "wait"
  /\ txs[procs[p].tx].state \in {"success", "reverted"}
  /\ To(p, IF txs[procs[p].tx].state = "success" THEN "mark" ELSE "catch")
  /\ UNCHANGED <<records, txs, jobs, reports, faults, lost>>

\* It times out, or the RPC fails: what becomes of the transaction is not known.
WaitFails(p) ==
  /\ procs[p].step = "wait"
  /\ To(p, "catch")
  /\ UNCHANGED <<records, txs, jobs, reports, faults, lost>>

\* markAnchored().
Mark(p) ==
  /\ procs[p].step = "mark"
  /\ records' = MarkedAnchored(procs[p].hash, procs[p].tx)
  /\ Returned(p)
  /\ UNCHANGED <<txs, reports, faults, lost>>

\* markAnchored() is inside the try.
MarkFails(p) ==
  /\ Faulty
  /\ procs[p].step = "mark"
  /\ records' \in {records, MarkedAnchored(procs[p].hash, procs[p].tx)}
  /\ To(p, "catch")
  /\ UNCHANGED <<txs, jobs, reports, lost>>

\* Fault: the record is given up one attempt late.
CatchLate(p) ==
  /\ procs[p].step = "catch"
  /\ IF records[procs[p].hash].attempts > MaxAttempts
     THEN To(p, "fail") /\ UNCHANGED jobs
     ELSE Threw(p)
  /\ UNCHANGED <<records, txs, reports, faults, lost>>

\* The catch: the record is read again, and given up after MaxAttempts.
Catch(p) ==
  /\ procs[p].step = "catch"
  /\ IF records[procs[p].hash].attempts >= MaxAttempts
     THEN To(p, "fail") /\ UNCHANGED jobs
     ELSE Threw(p)
  /\ UNCHANGED <<records, txs, reports, faults, lost>>

\* The catch's read fails.
CatchFails(p) ==
  /\ Faulty
  /\ procs[p].step = "catch"
  /\ Threw(p)
  /\ IF LastAttempt(p) THEN Loses(p) ELSE UNCHANGED lost
  /\ UNCHANGED <<records, txs, reports>>

\* markFailed(), then the error is rethrown.
Fail(p) ==
  /\ procs[p].step = "fail"
  /\ records' = MarkedFailed(procs[p].hash)
  /\ Threw(p)
  /\ UNCHANGED <<txs, reports, faults, lost>>

\* markFailed() fails.
FailFails(p) ==
  /\ Faulty
  /\ procs[p].step = "fail"
  /\ Threw(p)
  /\ \/ /\ UNCHANGED records
        /\ IF LastAttempt(p) THEN Loses(p) ELSE UNCHANGED lost
     \/ records' = MarkedFailed(procs[p].hash) /\ UNCHANGED lost
  /\ UNCHANGED <<txs, reports>>

\* A process dies.  Bull gives a stalled job back once, then fails it.
Crash(p) ==
  LET j == procs[p].job
      again == jobs[j].state = "active" /\ ~jobs[j].stalled
  IN
  /\ Faulty
  /\ procs[p].step # "idle"
  /\ Done(p)
  /\ IF j = None THEN UNCHANGED <<jobs, lost>>
     ELSE /\ jobs' = [jobs EXCEPT ![j].state = IF again THEN "waiting" ELSE "failed",
                                  ![j].stalled = TRUE]
          /\ IF again THEN UNCHANGED lost ELSE Loses(p)
  /\ UNCHANGED <<records, txs, reports>>

Submitting(p) ==
  \/ Prepare(p) \/ PrepareFails(p) \/ Enqueue(p) \/ EnqueueFails(p) \/ Get(p) \/ GetFails(p)
  \/ Upgrade(p) \/ UpgradeFails(p) \/ SyncFail(p) \/ SyncFailFails(p)

Processes(p) ==
  \/ \E j \in Jobs : Start(p, j)
  \/ Find(p) \/ FindFails(p) \/ Increment(p) \/ IncrementFails(p) \/ Send(p) \/ SendFails(p)
  \/ Receipt(p) \/ WaitFails(p) \/ Mark(p) \/ MarkFails(p) \/ Catch(p) \/ CatchFails(p)
  \/ Fail(p) \/ FailFails(p)

Begins(p, h) ==
  RecordEvidence(p, h) \/ Finalize(p, h) \/ AnchorStored(p, h) \/ StoredReadFails(p, h)

Next ==
  \/ \E p \in Procs :
       Submitting(p) \/ Processes(p) \/ Crash(p) \/ \E h \in Hashes : Begins(p, h)
  \/ \E t \in Txs : Mine(t)

Spec == Init /\ [][Next]_vars

\* Workers that are up keep working (the event loop, Bull's poll, the
\* timeout of the receipt wait).
FairSpec == Spec /\ \A p \in Workers : WF_vars(Processes(p))

-----------------------------------------------------------------------------
(* Properties.                                                              *)

\* A receipt in the table is a transaction of that very hash which the chain
\* accepted, whatever other attempts of the hash failed, reverted or are still out
\* (anchor(), :102-104, markAnchored()), and a report that says "anchored" is on chain.
AnchoredIsOnChain ==
  \A h \in Hashes :
    /\ records[h].status = "anchored" => records[h].tx # None
    /\ records[h].tx # None => records[h].tx \in Accepted(h)
    /\ reports[h] = "anchored" => Accepted(h) # {}

\* Once a receipt is recorded it never changes: "the recorded tx hash changes every
\* time and the receipt link the user saved goes stale" is what process() ends
\* (anchor.service.ts:14-16).
ReceiptStable ==
  [][\A h \in Hashes : records[h].tx # None => records'[h].tx = records[h].tx]_vars

Settled(h) == records[h].status \in {"anchored", "failed"}

\* A record whose job is over is not pending for ever, which every later sync would
\* skip (indexer.service.ts:339): the counters of the job and of its record are two, and
\* they agree that the last attempt marks the record failed, whatever the chain, the
\* other jobs of the hash and a stall did.  Exempt is a job in `lost`: a database
\* call of process() outside its try failed (:19, :23, and :29-30 in its last attempt), or
\* Bull failed it at its second stall.
OverIsSettled ==
  \A j \in Jobs :
    jobs[j].state \in {"done", "failed"} => Settled(jobs[j].hash) \/ j \in lost

\* And a job that was enqueued does settle its record, with the same exemption.
JobSettles ==
  \A j \in Jobs : \A h \in Hashes :
    (jobs[j].state = "waiting" /\ jobs[j].hash = h) ~> Settled(h) \/ j \in lost
=============================================================================
