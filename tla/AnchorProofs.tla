---------------------------- MODULE AnchorProofs ----------------------------
(***************************************************************************)
(* The table of anchors and the chain agree, for any hashes, transactions, *)
(* jobs, callers, workers and any number of attempts, crashes and failed   *)
(* calls; with the contract a recorded receipt is final; and a job that is *)
(* over has settled its record unless it lost an attempt.                  *)
(*                                                                         *)
(* The argument.  What a worker or a caller has learned from the chain     *)
(* stays true until it writes it down, because the chain takes nothing     *)
(* back (ProcsOK, ChainKeeps).  That two workers which both saw a success  *)
(* write the same receipt is the contract's doing: it accepts a hash once  *)
(* (SealedOnce).  The counter of the record never falls behind that of the *)
(* job, and is one ahead from the counter on (Books, JobBooks).            *)
(***************************************************************************)
EXTENDS Anchor, TLAPS

JobRow == [hash: Hashes \cup {None}, state: {"none", "waiting", "active", "done", "failed"},
           made: Nat, stalled: BOOLEAN]

\* The shape of the tables, of the chain and of the executions.
Types ==
  /\ records \in [Hashes -> Record]
  /\ txs \in [Txs -> Tx]
  /\ jobs \in [Jobs -> JobRow]
  /\ procs \in [Procs -> Proc]
  /\ reports \in [Hashes -> {"open", "anchored"}]
  /\ faults \in Nat

Processing == {"find", "increment", "send", "wait", "mark", "catch", "fail"}

\* A job in the queue has its hash.
JobsOK == \A j \in Jobs : jobs[j].state # "none" => jobs[j].hash \in Hashes

\* The transactions of a hash that a chain c accepted.
AcceptedIn(c, h) == {t \in Txs : c[t].hash = h /\ c[t].state = "success"}

\* What an execution q has learned of a chain c and a queue b.  It knows its hash and, in process(),
\* its job; one that waits for a receipt has sent that transaction for its hash; one that
\* is about to record it has seen it succeed; and one that is about to mark a report has
\* seen its hash anchored.
Knows(q, c, b) ==
  /\ q.step # "idle" => q.hash \in Hashes
  /\ q.step \in Processing => q.job \in Jobs
  /\ q.job \in Jobs => b[q.job].state # "none"
  /\ q.step \in {"wait", "mark"} =>
       q.tx \in Txs /\ c[q.tx].hash = q.hash /\ c[q.tx].state # "none"
  /\ q.step = "mark" => c[q.tx].state = "success"
  /\ q.step = "upgrade" => AcceptedIn(c, q.hash) # {}

ProcsOK == \A p \in Procs : Knows(procs[p], txs, jobs)

\* VeraAnchor seals a hash once.
SealedOnce == Contract => \A h \in Hashes : \A t, u \in Accepted(h) : t = u

IInv == Types /\ JobsOK /\ ProcsOK /\ SealedOnce /\ AnchoredIsOnChain

\* What the chain never takes back: a transaction that was sent and one that succeeded.
ChainKeeps ==
  \A t \in Txs :
    /\ txs[t].state # "none" => txs'[t].state # "none" /\ txs'[t].hash = txs[t].hash
    /\ txs[t].state = "success" => txs'[t].state = "success"

\* And the queue never forgets a job.
QueueKeeps == \A j \in Jobs : jobs[j].state # "none" => jobs'[j].state # "none"

LEMMA Initially == Init => IInv
<1> SUFFICES ASSUME Init PROVE IInv
  OBVIOUS
<1>1. Types
  BY DEF Init, Types, Record, Tx, JobRow, Proc, Idle, Steps
<1>2. JobsOK /\ ProcsOK
  BY AnchorAssumption DEF Init, JobsOK, ProcsOK, Knows, Idle, Processing
<1>3. SealedOnce /\ AnchoredIsOnChain
  BY DEF Init, SealedOnce, AnchoredIsOnChain, Accepted
<1> QED
  BY <1>1, <1>2, <1>3 DEF IInv

\* A fresh transaction or job is one nobody has used.
LEMMA FreshTxIsNew == FreshTxs # {} => FreshTx \in Txs /\ txs[FreshTx].state = "none"
BY DEF FreshTx, FreshTxs

LEMMA FreshJobIsNew == FreshJobs # {} => FreshJob \in Jobs /\ jobs[FreshJob].state = "none"
BY DEF FreshJob, FreshJobs

\* What was accepted stays accepted.
LEMMA AcceptedKeeps ==
  ASSUME Types, ChainKeeps, NEW h
  PROVE  /\ Accepted(h) \subseteq AcceptedIn(txs', h)
         /\ AcceptedIn(txs, h) \subseteq AcceptedIn(txs', h)
BY DEF Types, ChainKeeps, Accepted, AcceptedIn, Tx

\* What an execution has learned stays true.
LEMMA KnowsKeeps ==
  ASSUME Types, ChainKeeps, QueueKeeps, NEW q, Knows(q, txs, jobs)
  PROVE  Knows(q, txs', jobs')
BY AcceptedKeeps DEF Knows, ChainKeeps, QueueKeeps

LEMMA QueueUnchanged == ASSUME UNCHANGED jobs PROVE QueueKeeps
BY DEF QueueKeeps

LEMMA ChainUnchanged == ASSUME UNCHANGED txs PROVE ChainKeeps
BY DEF ChainKeeps

\* A new transaction takes an unused name.
LEMMA ChainAppends ==
  ASSUME Types, FreshTxs # {}, NEW h \in Hashes,
         txs' = [txs EXCEPT ![FreshTx] = [hash |-> h, state |-> "pending"]]
  PROVE  ChainKeeps /\ \A g : AcceptedIn(txs', g) = AcceptedIn(txs, g)
<1>1. FreshTx \in Txs /\ txs[FreshTx].state = "none"
  BY FreshTxIsNew
<1>2. \A t \in Txs : t # FreshTx => txs'[t] = txs[t]
  BY DEF Types
<1>3. txs'[FreshTx].state = "pending"
  BY <1>1 DEF Types
<1>4. \A g : AcceptedIn(txs', g) = AcceptedIn(txs, g)
  BY <1>1, <1>2, <1>3 DEF AcceptedIn
<1> QED
  BY <1>1, <1>2, <1>3, <1>4 DEF ChainKeeps

\* A step of p keeps what the other executions know.
LEMMA OthersKeep ==
  ASSUME Types, ProcsOK, ChainKeeps, QueueKeeps, NEW p \in Procs,
         \A o \in Procs : o # p => procs'[o] = procs[o], Knows(procs'[p], txs', jobs')
  PROVE  ProcsOK'
<1> SUFFICES ASSUME NEW o \in Procs, o # p PROVE Knows(procs'[o], txs', jobs')
  BY DEF ProcsOK
<1>1. procs'[o] = procs[o] /\ Knows(procs[o], txs, jobs)
  BY DEF ProcsOK
<1> QED
  BY <1>1, KnowsKeeps

\* Going idle, and going on to a step that needs nothing new.
LEMMA DoneKeeps ==
  ASSUME Types, ProcsOK, ChainKeeps, QueueKeeps, NEW p \in Procs, Done(p)
  PROVE  ProcsOK' /\ procs' \in [Procs -> Proc]
<1>1. procs'[p] = Idle /\ \A o \in Procs : o # p => procs'[o] = procs[o]
  BY DEF Done, Types
<1>2. Knows(Idle, txs', jobs') /\ Idle \in Proc
  BY AnchorAssumption DEF Knows, Idle, Proc, Steps, Processing
<1>3. procs' \in [Procs -> Proc]
  BY <1>2 DEF Done, Types
<1> QED
  BY <1>1, <1>2, <1>3, OthersKeep

LEMMA ToMoves ==
  ASSUME Types, NEW p \in Procs, NEW s \in Steps, To(p, s)
  PROVE  /\ procs' \in [Procs -> Proc]
         /\ \A o \in Procs : o # p => procs'[o] = procs[o]
         /\ procs'[p].step = s
         /\ procs'[p].hash = procs[p].hash
         /\ procs'[p].job = procs[p].job
         /\ s \in {"wait", "mark"} => procs'[p].tx = procs[p].tx
<1> DEFINE t == IF s \in {"wait", "mark"} THEN procs[p].tx ELSE None
<1>1. t \in Txs \cup {None} /\ (s \in {"wait", "mark"} => t = procs[p].tx)
  BY DEF Types, Proc
<1>2. procs' = [procs EXCEPT ![p] = [procs[p] EXCEPT !.step = s, !.tx = t]]
  BY DEF To, Types, Proc
<1> HIDE DEF t
<1>3. ASSUME NEW a \in Proc
      PROVE  LET b == [a EXCEPT !.step = s, !.tx = t] IN
             b \in Proc /\ b.step = s /\ b.tx = t /\ b.hash = a.hash /\ b.job = a.job
  BY <1>1 DEF Proc
<1> QED
  BY <1>1, <1>2, <1>3 DEF Types

\* The contract's promise and the table's, when the chain accepts nothing new.
LEMMA SealedUnchanged ==
  ASSUME SealedOnce, \A h : AcceptedIn(txs', h) = AcceptedIn(txs, h)
  PROVE  SealedOnce'
BY DEF SealedOnce, Accepted, AcceptedIn

\* Records that do not change stay true.
LEMMA RecordsUnchanged ==
  ASSUME Types, AnchoredIsOnChain, ChainKeeps, UNCHANGED <<records, reports>>
  PROVE  AnchoredIsOnChain'
BY AcceptedKeeps DEF AnchoredIsOnChain, Accepted, AcceptedIn

\* What every step does to the tables and the chain, and to the queue.
TablesSound ==
  /\ ChainKeeps /\ SealedOnce' /\ AnchoredIsOnChain'
  /\ records' \in [Hashes -> Record] /\ txs' \in [Txs -> Tx]
  /\ reports' \in [Hashes -> {"open", "anchored"}]

QueueSound == jobs' \in [Jobs -> JobRow] /\ JobsOK' /\ QueueKeeps

LEMMA TablesUnchanged == ASSUME IInv, UNCHANGED <<records, txs, reports>> PROVE TablesSound
<1>1. ChainKeeps /\ \A h : AcceptedIn(txs', h) = AcceptedIn(txs, h)
  BY ChainUnchanged
<1>2. SealedOnce' /\ AnchoredIsOnChain'
  BY <1>1, SealedUnchanged, RecordsUnchanged DEF IInv
<1> QED
  BY <1>1, <1>2 DEF IInv, Types, TablesSound

LEMMA QueueSame == ASSUME IInv, UNCHANGED jobs PROVE QueueSound
BY QueueUnchanged DEF IInv, Types, JobsOK, QueueSound

LEMMA CountsFaults == ASSUME IInv, Faulty \/ UNCHANGED faults PROVE faults' \in Nat
BY DEF Faulty, IInv, Types

\* The writes of the table that carry no receipt.
LEMMA PlainWrite ==
  ASSUME IInv, NEW h \in Hashes, UNCHANGED <<txs, reports>>,
         records' \in {records, Created(h), Counted(h), MarkedFailed(h)}
  PROVE  TablesSound
<1>1. ChainKeeps /\ SealedOnce'
  BY ChainUnchanged, SealedUnchanged DEF IInv
<1>2. CASE UNCHANGED records
  BY <1>2, TablesUnchanged
<1>3. CASE records' \in {Created(h), Counted(h), MarkedFailed(h)}
  <2>1. records' \in [Hashes -> Record]
    BY <1>3 DEF IInv, Types, Record, Created, Counted, MarkedFailed
  <2>2. \A g \in Hashes : /\ records'[g].tx = records[g].tx
                          /\ records'[g].status = "anchored" => records[g].status = "anchored"
    BY <1>3 DEF IInv, Types, Record, Created, Counted, MarkedFailed
  <2>3. AnchoredIsOnChain'
    BY <2>2 DEF IInv, AnchoredIsOnChain, Accepted
  <2> QED
    BY <1>1, <2>1, <2>3 DEF TablesSound, IInv, Types
<1> QED
  BY <1>2, <1>3

\* A receipt is written by who has seen its transaction succeed.
LEMMA ReceiptWrite ==
  ASSUME IInv, NEW h \in Hashes, NEW t \in Txs, txs[t].hash = h, txs[t].state = "success",
         UNCHANGED <<txs, reports>>, records' = MarkedAnchored(h, t)
  PROVE  TablesSound
<1>1. ChainKeeps /\ SealedOnce'
  BY ChainUnchanged, SealedUnchanged DEF IInv
<1> DEFINE w == [records[h] EXCEPT !.status = "anchored", !.tx = t]
<1>2. records' = [records EXCEPT ![h] = w]
  BY DEF IInv, Types, Record, MarkedAnchored
<1>3. ASSUME NEW a \in Record
      PROVE  LET b == [a EXCEPT !.status = "anchored", !.tx = t] IN b \in Record /\ b.tx = t
  BY DEF Record
<1>3a. w \in Record /\ w.tx = t
  BY <1>3 DEF IInv, Types
<1> HIDE DEF w
<1>4. /\ records' \in [Hashes -> Record]
      /\ \A g \in Hashes : g # h => records'[g] = records[g]
      /\ records'[h].tx = t
  BY <1>2, <1>3a DEF IInv, Types
<1>5. t # None /\ t \in Accepted(h)
  BY AnchorAssumption DEF Accepted
<1>6. AnchoredIsOnChain'
  BY <1>4, <1>5 DEF IInv, AnchoredIsOnChain, Accepted
<1> QED
  BY <1>1, <1>4, <1>6 DEF TablesSound, IInv, Types

\* A step of p: on to a step s that needs nothing p does not know.
LEMMA Moves ==
  ASSUME IInv, TablesSound, QueueSound, faults' \in Nat, NEW p \in Procs, NEW s \in Steps,
         To(p, s),
         s # "idle" => procs[p].hash \in Hashes,
         s \in Processing => procs[p].step \in Processing,
         s = "wait" => FALSE,
         s = "mark" => /\ procs[p].tx \in Txs /\ txs'[procs[p].tx].hash = procs[p].hash
                       /\ txs'[procs[p].tx].state = "success",
         s = "upgrade" => AcceptedIn(txs', procs[p].hash) # {}
  PROVE  IInv'
<1>1. /\ procs' \in [Procs -> Proc]
      /\ \A o \in Procs : o # p => procs'[o] = procs[o]
      /\ procs'[p].step = s
      /\ procs'[p].hash = procs[p].hash
      /\ procs'[p].job = procs[p].job
      /\ s \in {"wait", "mark"} => procs'[p].tx = procs[p].tx
  BY ToMoves DEF IInv
<1>2. Knows(procs'[p], txs', jobs')
  <2>1. Knows(procs[p], txs, jobs)
    BY DEF IInv, ProcsOK
  <2> QED
    BY <1>1, <2>1 DEF Knows, QueueSound, QueueKeeps
<1>3. ProcsOK'
  BY <1>1, <1>2, OthersKeep DEF IInv, TablesSound, QueueSound
<1> QED
  BY <1>1, <1>3 DEF IInv, Types, TablesSound, QueueSound

\* A step that ends p's execution.
LEMMA Ends ==
  ASSUME IInv, TablesSound, QueueSound, faults' \in Nat, NEW p \in Procs, Done(p)
  PROVE  IInv'
<1>1. ProcsOK' /\ procs' \in [Procs -> Proc]
  BY DoneKeeps DEF IInv, TablesSound, QueueSound
<1> QED
  BY <1>1 DEF IInv, Types, TablesSound, QueueSound

LEMMA IdleType == Idle \in Proc
BY DEF Idle, Proc, Steps

\* A caller starts.
LEMMA BeginKeeps ==
  ASSUME IInv, TablesSound, QueueSound, faults' \in Nat, NEW p \in Procs, NEW h \in Hashes,
         NEW c \in {"record", "finalize", "stored"}, NEW s \in {"prepare", "syncfail"},
         Begin(p, c, h, s)
  PROVE  IInv'
<1> DEFINE q == [Idle EXCEPT !.step = s, !.caller = c, !.hash = h]
<1>1. ASSUME NEW a \in Proc
      PROVE  LET b == [a EXCEPT !.step = s, !.caller = c, !.hash = h] IN
             b \in Proc /\ b.step = s /\ b.hash = h /\ b.job = a.job
  BY DEF Proc, Steps
<1>2. q \in Proc /\ q.step = s /\ q.hash = h /\ q.job = Idle.job
  BY <1>1, IdleType
<1>3. procs' = [procs EXCEPT ![p] = q]
  BY DEF Begin
<1> HIDE DEF q
<1>4. procs' \in [Procs -> Proc] /\ procs'[p] = q /\ \A o \in Procs : o # p => procs'[o] = procs[o]
  BY <1>2, <1>3 DEF IInv, Types
<1>5. Knows(procs'[p], txs', jobs')
  BY <1>2, <1>4, AnchorAssumption DEF Knows, Processing, Idle
<1>6. ProcsOK'
  BY <1>4, <1>5, OthersKeep DEF IInv, TablesSound, QueueSound
<1> QED
  BY <1>4, <1>6 DEF IInv, Types, TablesSound, QueueSound

LEMMA CallerBegins == ASSUME IInv, NEW p \in Procs, NEW h \in Hashes, Begins(p, h) PROVE IInv'
<1>1. QueueSound
  BY QueueSame DEF Begins, RecordEvidence, AnchorStored, StoredReadFails, Finalize
<1>2. faults' \in Nat
  BY CountsFaults DEF Begins, RecordEvidence, AnchorStored, StoredReadFails, Finalize
<1>3. CASE RecordEvidence(p, h) \/ AnchorStored(p, h) \/ StoredReadFails(p, h)
  <2>1. TablesSound
    BY <1>3, TablesUnchanged DEF RecordEvidence, AnchorStored, StoredReadFails
  <2> QED
    BY <1>1, <1>2, <1>3, <2>1, BeginKeeps DEF RecordEvidence, AnchorStored, StoredReadFails
<1>4. CASE Finalize(p, h)
  <2>1. UNCHANGED <<records, txs>> /\ reports' = [reports EXCEPT ![h] = "open"]
    BY <1>4 DEF Finalize
  <2>2. ChainKeeps /\ SealedOnce'
    BY <2>1, ChainUnchanged, SealedUnchanged DEF IInv
  <2>3. AnchoredIsOnChain'
    BY <2>1 DEF IInv, Types, AnchoredIsOnChain, Accepted
  <2>4. TablesSound
    BY <2>1, <2>2, <2>3 DEF IInv, Types, TablesSound
  <2> QED
    BY <1>1, <1>2, <1>4, <2>4, BeginKeeps DEF Finalize
<1> QED
  BY <1>3, <1>4 DEF Begins

\* What an execution knows of itself.
LEMMA Known ==
  ASSUME IInv, NEW p \in Procs
  PROVE  /\ procs[p].step # "idle" => procs[p].hash \in Hashes
         /\ procs[p].step \in Processing =>
              /\ procs[p].job \in Jobs
              /\ jobs[procs[p].job].state # "none" /\ jobs[procs[p].job].hash \in Hashes
BY DEF IInv, ProcsOK, Knows, JobsOK

\* submit() rejects: its caller ends or goes to its catch.
LEMMA RejectedKeeps ==
  ASSUME IInv, TablesSound, UNCHANGED jobs, faults' \in Nat, NEW p \in Procs,
         procs[p].step # "idle", Rejected(p)
  PROVE  IInv'
<1>1. QueueSound
  BY QueueSame
<1>2. CASE To(p, "syncfail")
  BY <1>1, <1>2, Known, Moves DEF Steps, Processing
<1>3. CASE Done(p)
  BY <1>1, <1>3, Ends
<1> QED
  BY <1>2, <1>3 DEF Rejected

LEMMA SubmitKeeps == ASSUME IInv, NEW p \in Procs, Submitting(p) PROVE IInv'
<1> DEFINE h == procs[p].hash
<1>1. CASE Prepare(p)
  <2>1. TablesSound /\ QueueSound /\ faults' \in Nat
    BY <1>1, Known, PlainWrite, QueueSame, CountsFaults DEF Prepare
  <2> QED
    BY <1>1, <2>1, Known, Moves DEF Prepare, Steps, Processing
<1>2. CASE PrepareFails(p)
  <2>1. TablesSound /\ faults' \in Nat
    BY <1>2, Known, PlainWrite, CountsFaults DEF PrepareFails
  <2> QED
    BY <1>2, <2>1, RejectedKeeps DEF PrepareFails
<1>3. CASE Enqueue(p)
  <2>1. TablesSound /\ faults' \in Nat /\ h \in Hashes
    BY <1>3, Known, TablesUnchanged, CountsFaults DEF Enqueue
  <2>2. QueueSound
    BY <1>3, <2>1, FreshJobIsNew DEF Enqueue, IInv, Types, JobRow, JobsOK, QueueKeeps, QueueSound
  <2> QED
    BY <1>3, <2>1, <2>2, Known, Moves DEF Enqueue, Steps, Processing
<1>4. CASE EnqueueFails(p) \/ GetFails(p)
  <2>1. TablesSound /\ faults' \in Nat
    BY <1>4, TablesUnchanged, CountsFaults DEF EnqueueFails, GetFails
  <2> QED
    BY <1>4, <2>1, RejectedKeeps DEF EnqueueFails, GetFails
<1>5. CASE Get(p)
  <2>1. TablesSound /\ QueueSound /\ faults' \in Nat /\ h \in Hashes
    BY <1>5, Known, TablesUnchanged, QueueSame, CountsFaults DEF Get
  <2>2. CASE records[h].status = "anchored" /\ To(p, "upgrade")
    <3>1. AcceptedIn(txs', h) # {}
      BY <1>5, <2>1, <2>2 DEF Get, IInv, AnchoredIsOnChain, Accepted, AcceptedIn
    <3> QED
      BY <2>1, <2>2, <3>1, Known, Moves DEF Steps, Processing
  <2>3. CASE Done(p)
    BY <2>1, <2>3, Ends
  <2> QED
    BY <1>5, <2>2, <2>3 DEF Get
<1>6. CASE Upgrade(p)
  <2>1. QueueSound /\ faults' \in Nat /\ h \in Hashes /\ AcceptedIn(txs, h) # {}
    BY <1>6, QueueSame, CountsFaults DEF Upgrade, IInv, ProcsOK, Knows
  <2>2. ChainKeeps /\ SealedOnce'
    BY <1>6, ChainUnchanged, SealedUnchanged DEF IInv, Upgrade
  <2>3. AnchoredIsOnChain'
    BY <1>6, <2>1 DEF Upgrade, IInv, Types, AnchoredIsOnChain, Accepted, AcceptedIn
  <2>4. TablesSound
    BY <1>6, <2>2, <2>3 DEF Upgrade, IInv, Types, TablesSound
  <2> QED
    BY <1>6, <2>1, <2>4, Ends DEF Upgrade
<1>7. CASE UpgradeFails(p) \/ SyncFailFails(p)
  <2>1. TablesSound /\ QueueSound /\ faults' \in Nat
    BY <1>7, TablesUnchanged, QueueSame, CountsFaults DEF UpgradeFails, SyncFailFails
  <2> QED
    BY <1>7, <2>1, Ends DEF UpgradeFails, SyncFailFails
<1>8. CASE SyncFail(p)
  <2>1. TablesSound /\ QueueSound /\ faults' \in Nat
    BY <1>8, Known, PlainWrite, QueueSame, CountsFaults DEF SyncFail
  <2> QED
    BY <1>8, <2>1, Ends DEF SyncFail
<1> QED
  BY <1>1, <1>2, <1>3, <1>4, <1>5, <1>6, <1>7, <1>8 DEF Submitting

LEMMA StartKeeps == ASSUME IInv, NEW p \in Procs, NEW j \in Jobs, Start(p, j) PROVE IInv'
<1> DEFINE h == jobs[j].hash
           q == [Idle EXCEPT !.step = "find", !.hash = h, !.job = j]
<1>1. h \in Hashes
  BY DEF Start, IInv, JobsOK
<1>2. UNCHANGED <<records, txs, reports, faults>> /\ procs' = [procs EXCEPT ![p] = q]
  BY DEF Start
<1>3. QueueSound /\ jobs'[j].state # "none"
  BY <1>1 DEF Start, IInv, Types, JobRow, JobsOK, QueueKeeps, QueueSound
<1> HIDE DEF h
<1>4. ASSUME NEW a \in Proc
      PROVE  LET b == [a EXCEPT !.step = "find", !.hash = h, !.job = j] IN
             b \in Proc /\ b.step = "find" /\ b.hash = h /\ b.job = j
  BY <1>1 DEF Proc, Steps
<1>5. q \in Proc /\ q.step = "find" /\ q.hash = h /\ q.job = j
  BY <1>4, IdleType
<1> HIDE DEF q
<1>6. TablesSound
  BY <1>2, TablesUnchanged
<1>7. procs' \in [Procs -> Proc] /\ procs'[p] = q /\ \A o \in Procs : o # p => procs'[o] = procs[o]
  BY <1>2, <1>5 DEF IInv, Types
<1>8. Knows(procs'[p], txs', jobs')
  BY <1>1, <1>3, <1>5, <1>7 DEF Knows
<1>9. ProcsOK'
  BY <1>3, <1>6, <1>7, <1>8, OthersKeep DEF IInv, TablesSound, QueueSound
<1> QED
  BY <1>2, <1>3, <1>6, <1>7, <1>9 DEF IInv, Types, TablesSound, QueueSound

\* Bull's book of a job after process() threw.
LEMMA ThrewCounts ==
  ASSUME IInv, NEW p \in Procs, procs[p].step \in Processing, Threw(p)
  PROVE  LET j == procs[p].job IN
         /\ Done(p) /\ jobs' \in [Jobs -> JobRow]
         /\ \A i \in Jobs : i # j => jobs'[i] = jobs[i]
         /\ jobs'[j].hash = jobs[j].hash
         /\ jobs'[j].made = jobs[j].made + 1
         /\ jobs'[j].state = IF jobs[j].made + 1 < MaxAttempts THEN "waiting" ELSE "failed"
<1> DEFINE j == procs[p].job
           s == IF jobs[j].made + 1 < MaxAttempts THEN "waiting" ELSE "failed"
           m == jobs[j].made + 1
<1>1. j \in Jobs
  BY Known
<1>2. m \in Nat /\ s \in {"waiting", "failed"}
  BY <1>1 DEF IInv, Types, JobRow
<1>3. Done(p) /\ jobs' = [jobs EXCEPT ![j].made = m, ![j].state = s]
  BY DEF Threw
<1> HIDE DEF s, m, j
<1>4. jobs' = [jobs EXCEPT ![j] = [jobs[j] EXCEPT !.made = m, !.state = s]]
  BY <1>1, <1>3 DEF IInv, Types, JobRow
<1>5. ASSUME NEW a \in JobRow
      PROVE  LET b == [a EXCEPT !.made = m, !.state = s] IN
             b \in JobRow /\ b.hash = a.hash /\ b.made = m /\ b.state = s
  BY <1>2 DEF JobRow
<1>6. /\ jobs' \in [Jobs -> JobRow] /\ \A i \in Jobs : i # j => jobs'[i] = jobs[i]
      /\ jobs'[j].hash = jobs[j].hash /\ jobs'[j].made = m /\ jobs'[j].state = s
  BY <1>1, <1>4, <1>5 DEF IInv, Types
<1> QED
  BY <1>3, <1>6 DEF j, m, s

LEMMA ReturnedCounts ==
  ASSUME IInv, NEW p \in Procs, procs[p].step \in Processing, Returned(p)
  PROVE  LET j == procs[p].job IN
         /\ Done(p) /\ jobs' \in [Jobs -> JobRow]
         /\ \A i \in Jobs : i # j => jobs'[i] = jobs[i]
         /\ jobs'[j].hash = jobs[j].hash /\ jobs'[j].state = "done"
<1>1. procs[p].job \in Jobs
  BY Known
<1> QED
  BY <1>1 DEF Returned, IInv, Types, JobRow

\* The end of process() keeps the queue well formed.
LEMMA ProcessEnds ==
  ASSUME IInv, NEW p \in Procs, procs[p].step \in Processing, Returned(p) \/ Threw(p)
  PROVE  QueueSound /\ Done(p)
<1>1. procs[p].job \in Jobs /\ jobs[procs[p].job].hash \in Hashes
  BY Known
<1>2. CASE Returned(p)
  BY <1>1, <1>2, ReturnedCounts DEF IInv, JobsOK, QueueKeeps, QueueSound
<1>3. CASE Threw(p)
  BY <1>1, <1>3, ThrewCounts DEF IInv, JobsOK, QueueKeeps, QueueSound
<1> QED
  BY <1>2, <1>3

\* An attempt that ends in an exception.
LEMMA ThrowKeeps ==
  ASSUME IInv, NEW p \in Procs, procs[p].step \in Processing, Threw(p),
         UNCHANGED <<txs, reports>>, Faulty \/ UNCHANGED faults,
         records' \in {records, Counted(procs[p].hash), MarkedFailed(procs[p].hash)}
  PROVE  IInv'
<1>1. procs[p].step # "idle"
  BY DEF Processing
<1>2. TablesSound /\ faults' \in Nat
  BY <1>1, Known, PlainWrite, CountsFaults
<1> QED
  BY <1>2, ProcessEnds, Ends

\* A transaction that goes out changes nothing that was recorded.
LEMMA SentKeeps ==
  ASSUME IInv, NEW h \in Hashes, FreshTxs # {},
         txs' = [txs EXCEPT ![FreshTx] = [hash |-> h, state |-> "pending"]],
         UNCHANGED <<records, reports>>
  PROVE  TablesSound /\ FreshTx \in Txs /\ txs'[FreshTx].hash = h /\ txs'[FreshTx].state = "pending"
<1>1. ChainKeeps /\ \A g : AcceptedIn(txs', g) = AcceptedIn(txs, g)
  BY ChainAppends DEF IInv
<1>2. FreshTx \in Txs
  BY FreshTxIsNew
<1>3. SealedOnce' /\ AnchoredIsOnChain'
  BY <1>1, SealedUnchanged, RecordsUnchanged DEF IInv
<1> QED
  BY <1>1, <1>2, <1>3 DEF IInv, Types, Tx, TablesSound

LEMMA SendKeeps == ASSUME IInv, NEW p \in Procs, Send(p) PROVE IInv'
<1> DEFINE h == procs[p].hash
<1>1. h \in Hashes /\ procs[p].step \in Processing /\ Knows(procs[p], txs, jobs)
  BY DEF Send, IInv, ProcsOK, Knows, Processing
<1>2. TablesSound /\ FreshTx \in Txs /\ txs'[FreshTx].hash = h /\ txs'[FreshTx].state = "pending"
  BY <1>1, SentKeeps DEF Send
<1>3. QueueSound
  BY QueueSame DEF Send
<1>4. /\ procs' \in [Procs -> Proc]
      /\ \A o \in Procs : o # p => procs'[o] = procs[o]
      /\ procs'[p].step = "wait"
      /\ procs'[p].hash = procs[p].hash
      /\ procs'[p].job = procs[p].job
      /\ procs'[p].tx = FreshTx
  BY <1>2 DEF Send, IInv, Types, Proc, Steps
<1>5. Knows(procs'[p], txs', jobs')
  BY <1>1, <1>2, <1>4 DEF Knows, Send
<1>6. ProcsOK'
  BY <1>2, <1>3, <1>4, <1>5, OthersKeep DEF IInv, TablesSound, QueueSound
<1> QED
  BY <1>2, <1>3, <1>4, <1>6 DEF Send, IInv, Types, TablesSound, QueueSound

\* The contract refuses a second transaction of a hash: the one place where a hash is
\* sealed keeps SealedOnce.
LEMMA MineKeeps == ASSUME IInv, NEW t \in Txs, Mine(t) PROVE IInv'
<1> DEFINE s == IF Contract /\ Accepted(txs[t].hash) # {} THEN "reverted" ELSE "success"
<1>1. txs[t].state = "pending" /\ txs' = [txs EXCEPT ![t].state = s]
  BY DEF Mine
<1>2. s \in {"reverted", "success"} /\ (Contract /\ s = "success" => Accepted(txs[t].hash) = {})
  OBVIOUS
<1> HIDE DEF s
<1>3. /\ txs' \in [Txs -> Tx]
      /\ \A u \in Txs : txs'[u].hash = txs[u].hash /\ (u # t => txs'[u].state = txs[u].state)
      /\ txs'[t].state = s
  BY <1>1, <1>2 DEF IInv, Types, Tx
<1>4. ChainKeeps /\ QueueKeeps
  BY <1>1, <1>2, <1>3, QueueUnchanged DEF ChainKeeps, Mine
<1>5. SealedOnce'
  <2> SUFFICES ASSUME Contract, NEW h \in Hashes, NEW u \in AcceptedIn(txs', h),
                      NEW v \in AcceptedIn(txs', h)
               PROVE  u = v
    BY DEF SealedOnce, Accepted, AcceptedIn
  <2>1. \A w \in AcceptedIn(txs', h) : w = t \/ w \in Accepted(h)
    BY <1>3 DEF Accepted, AcceptedIn
  <2>2. t \in AcceptedIn(txs', h) => Accepted(h) = {}
    BY <1>2, <1>3 DEF AcceptedIn
  <2> QED
    BY <2>1, <2>2 DEF IInv, SealedOnce
<1>6. AnchoredIsOnChain'
  BY <1>4, RecordsUnchanged DEF IInv, Mine
<1>7. ProcsOK'
  <2> SUFFICES ASSUME NEW o \in Procs PROVE Knows(procs[o], txs', jobs')
    BY DEF ProcsOK, Mine
  <2> QED
    BY <1>4, KnowsKeeps DEF IInv, ProcsOK
<1> QED
  BY <1>3, <1>5, <1>6, <1>7 DEF Mine, IInv, Types, JobsOK

\* markAnchored() writes what the worker saw succeed.
LEMMA MarkWrites ==
  ASSUME IInv, NEW p \in Procs, procs[p].step = "mark", UNCHANGED <<txs, reports>>,
         records' \in {records, MarkedAnchored(procs[p].hash, procs[p].tx)}
  PROVE  TablesSound
<1>1. /\ procs[p].hash \in Hashes /\ procs[p].tx \in Txs
      /\ txs[procs[p].tx].hash = procs[p].hash /\ txs[procs[p].tx].state = "success"
  BY DEF IInv, ProcsOK, Knows
<1>2. CASE UNCHANGED records
  BY <1>2, TablesUnchanged
<1>3. CASE records' = MarkedAnchored(procs[p].hash, procs[p].tx)
  BY <1>1, <1>3, ReceiptWrite
<1> QED
  BY <1>2, <1>3

LEMMA ProcessKeeps == ASSUME IInv, NEW p \in Procs, Processes(p) PROVE IInv'
<1> DEFINE h == procs[p].hash
<1>1. ASSUME NEW j \in Jobs, Start(p, j) PROVE IInv'
  BY <1>1, StartKeeps
<1>2. CASE Find(p)
  <2>1. TablesSound /\ faults' \in Nat
    BY <1>2, TablesUnchanged, CountsFaults DEF Find
  <2>2. CASE Returned(p)
    BY <1>2, <2>1, <2>2, ProcessEnds, Ends DEF Find, Processing
  <2>3. CASE To(p, "increment") /\ UNCHANGED jobs
    BY <1>2, <2>1, <2>3, Known, QueueSame, Moves DEF Find, Steps, Processing
  <2> QED
    BY <1>2, <2>2, <2>3 DEF Find
<1>3. CASE Increment(p)
  <2>1. TablesSound /\ QueueSound /\ faults' \in Nat
    BY <1>3, Known, PlainWrite, QueueSame, CountsFaults DEF Increment
  <2> QED
    BY <1>3, <2>1, Known, Moves DEF Increment, Steps, Processing
<1>4. CASE FindFails(p) \/ IncrementFails(p) \/ CatchFails(p) \/ Fail(p) \/ FailFails(p)
  BY <1>4, ThrowKeeps DEF FindFails, IncrementFails, CatchFails, Fail, FailFails, Processing
<1>5. CASE Send(p)
  BY <1>5, SendKeeps
<1>6. CASE SendFails(p)
  <2>1. h \in Hashes /\ procs[p].step \in Processing
    BY <1>6, Known DEF SendFails, Processing
  <2>2. CASE UNCHANGED txs
    <3>1. TablesSound /\ QueueSound /\ faults' \in Nat
      BY <1>6, <2>2, TablesUnchanged, QueueSame, CountsFaults DEF SendFails
    <3> QED
      BY <1>6, <2>1, <3>1, Moves DEF SendFails, Steps
  <2>3. CASE /\ FreshTxs # {}
             /\ txs' = [txs EXCEPT ![FreshTx] = [hash |-> h, state |-> "pending"]]
    <3>1. TablesSound /\ QueueSound /\ faults' \in Nat
      BY <1>6, <2>1, <2>3, SentKeeps, QueueSame, CountsFaults DEF SendFails
    <3> QED
      BY <1>6, <2>1, <3>1, Moves DEF SendFails, Steps
  <2> QED
    BY <1>6, <2>2, <2>3 DEF SendFails
<1>7. CASE Receipt(p)
  <2>1. /\ h \in Hashes /\ procs[p].step \in Processing /\ procs[p].tx \in Txs
        /\ txs[procs[p].tx].hash = h
    BY <1>7 DEF Receipt, IInv, ProcsOK, Knows, Processing
  <2>2. TablesSound /\ QueueSound /\ faults' \in Nat
    BY <1>7, TablesUnchanged, QueueSame, CountsFaults DEF Receipt
  <2>3. CASE txs[procs[p].tx].state = "success"
    BY <1>7, <2>1, <2>2, <2>3, Moves DEF Receipt, Steps
  <2>4. CASE txs[procs[p].tx].state # "success"
    BY <1>7, <2>1, <2>2, <2>4, Moves DEF Receipt, Steps
  <2> QED
    BY <2>3, <2>4
<1>8. CASE WaitFails(p)
  <2>1. TablesSound /\ QueueSound /\ faults' \in Nat
    BY <1>8, TablesUnchanged, QueueSame, CountsFaults DEF WaitFails
  <2> QED
    BY <1>8, <2>1, Known, Moves DEF WaitFails, Steps, Processing
<1>9. CASE Mark(p)
  <2>1. TablesSound /\ faults' \in Nat
    BY <1>9, MarkWrites, CountsFaults DEF Mark
  <2> QED
    BY <1>9, <2>1, ProcessEnds, Ends DEF Mark, Processing
<1>10. CASE MarkFails(p)
  <2>1. TablesSound /\ QueueSound /\ faults' \in Nat
    BY <1>10, MarkWrites, QueueSame, CountsFaults DEF MarkFails
  <2> QED
    BY <1>10, <2>1, Known, Moves DEF MarkFails, Steps, Processing
<1>11. CASE Catch(p)
  <2>1. CASE Threw(p)
    BY <1>11, <2>1, ThrowKeeps DEF Catch, Processing
  <2>2. CASE To(p, "fail") /\ UNCHANGED jobs
    <3>1. TablesSound /\ QueueSound /\ faults' \in Nat
      BY <1>11, <2>2, TablesUnchanged, QueueSame, CountsFaults DEF Catch
    <3> QED
      BY <1>11, <2>2, <3>1, Known, Moves DEF Catch, Steps, Processing
  <2> QED
    BY <1>11, <2>1, <2>2 DEF Catch
<1> QED
  BY <1>1, <1>2, <1>3, <1>4, <1>5, <1>6, <1>7, <1>8, <1>9, <1>10, <1>11 DEF Processes

\* What a crash makes of the job in hand.
LEMMA CrashCounts ==
  ASSUME IInv, NEW p \in Procs, Crash(p), procs[p].job # None
  PROVE  LET j == procs[p].job
             again == jobs[j].state = "active" /\ ~jobs[j].stalled
         IN
         /\ j \in Jobs /\ jobs' \in [Jobs -> JobRow]
         /\ \A i \in Jobs : i # j => jobs'[i] = jobs[i]
         /\ jobs'[j].hash = jobs[j].hash /\ jobs'[j].made = jobs[j].made
         /\ jobs'[j].state = IF again THEN "waiting" ELSE "failed"
<1> DEFINE j == procs[p].job
           s == IF jobs[j].state = "active" /\ ~jobs[j].stalled THEN "waiting" ELSE "failed"
<1>1. j \in Jobs /\ s \in {"waiting", "failed"}
  BY DEF IInv, Types, Proc
<1>2. jobs' = [jobs EXCEPT ![j].state = s, ![j].stalled = TRUE]
  BY DEF Crash
<1> HIDE DEF s
<1>3. /\ jobs' \in [Jobs -> JobRow] /\ \A i \in Jobs : i # j => jobs'[i] = jobs[i]
      /\ jobs'[j].hash = jobs[j].hash /\ jobs'[j].made = jobs[j].made /\ jobs'[j].state = s
  BY <1>1, <1>2 DEF IInv, Types, JobRow
<1> QED
  BY <1>1, <1>3 DEF s

LEMMA CrashKeeps == ASSUME IInv, NEW p \in Procs, Crash(p) PROVE IInv'
<1> DEFINE j == procs[p].job
<1>1. QueueSound
  <2>1. CASE j = None
    BY <2>1, QueueSame DEF Crash
  <2>2. CASE j # None
    <3>1. jobs[j].state # "none" /\ jobs[j].hash \in Hashes
      BY <2>2, CrashCounts DEF IInv, ProcsOK, Knows, JobsOK
    <3> QED
      BY <2>2, <3>1, CrashCounts DEF IInv, Types, JobsOK, QueueKeeps, QueueSound
  <2> QED
    BY <2>1, <2>2
<1>2. faults' \in Nat /\ Done(p) /\ TablesSound
  BY CountsFaults, TablesUnchanged DEF Crash
<1> QED
  BY <1>1, <1>2, Ends

LEMMA StepKeeps == ASSUME IInv, [Next]_vars PROVE IInv'
<1>1. CASE \E p \in Procs : Submitting(p) \/ Processes(p) \/ Crash(p)
  BY <1>1, SubmitKeeps, ProcessKeeps, CrashKeeps
<1>2. CASE \E p \in Procs : \E h \in Hashes : Begins(p, h)
  BY <1>2, CallerBegins
<1>3. CASE \E t \in Txs : Mine(t)
  BY <1>3, MineKeeps
<1>4. CASE UNCHANGED vars
  <2>1. UNCHANGED <<records, txs, jobs, procs, reports, faults>>
    BY <1>4 DEF vars
  <2>2. TablesSound /\ QueueSound
    BY <2>1, TablesUnchanged, QueueSame
  <2>3. ProcsOK'
    BY <2>1 DEF IInv, ProcsOK
  <2> QED
    BY <2>1, <2>2, <2>3 DEF IInv, Types, TablesSound, QueueSound
<1> QED
  BY <1>1, <1>2, <1>3, <1>4 DEF Next

\* The inductive invariant holds in every state: of the tables and the queue, of what the
\* executions of process() and of the callers know, and of the contract.
THEOREM InductiveInvariant == Spec => []IInv
<1>1. Init => IInv
  BY Initially
<1>2. IInv /\ [Next]_vars => IInv'
  BY StepKeeps
<1> QED
  BY <1>1, <1>2, PTL DEF Spec

\* A receipt in the table is a transaction of its hash that the chain accepted, and a
\* report that says "anchored" is on chain, however callers, workers, retries, timeouts
\* and crashes interleave, in both modes (AnchorService.process(), markAnchored(),
\* ReportService.finalize()).
THEOREM AnchoredTheorem == Spec => []AnchoredIsOnChain
<1>1. IInv => AnchoredIsOnChain
  BY DEF IInv
<1> QED
  BY <1>1, InductiveInvariant, PTL

\* VeraAnchor's own promise as the backend drives it: no two transactions of a hash are
\* both accepted (anchor() reverts for a sealed hash).
THEOREM SealedTheorem == Spec => []SealedOnce
<1>1. IInv => SealedOnce
  BY DEF IInv
<1> QED
  BY <1>1, InductiveInvariant, PTL

ReceiptKept == \A h \in Hashes : records[h].tx # None => records'[h].tx = records[h].tx

\* Only markAnchored() writes a receipt; with the contract, the one it writes over the
\* one that is there is the same.
LEMMA MarkWritesTheSame ==
  ASSUME IInv, Contract, NEW p \in Procs, procs[p].step = "mark",
         records' = MarkedAnchored(procs[p].hash, procs[p].tx)
  PROVE  ReceiptKept
<1> SUFFICES ASSUME NEW h \in Hashes, records[h].tx # None PROVE records'[h].tx = records[h].tx
  BY DEF ReceiptKept
<1>1. CASE h # procs[p].hash
  BY <1>1 DEF MarkedAnchored, IInv, Types, Record
<1>2. CASE h = procs[p].hash
  <2>1. procs[p].tx \in Accepted(h)
    BY <1>2 DEF IInv, ProcsOK, Knows, Accepted
  <2>2. records[h].tx \in Accepted(h)
    BY DEF IInv, AnchoredIsOnChain
  <2>3. records[h].tx = procs[p].tx
    BY <2>1, <2>2 DEF IInv, SealedOnce
  <2>4. records'[h].tx = procs[p].tx
    BY <1>2 DEF MarkedAnchored, IInv, Types, Record
  <2> QED
    BY <2>3, <2>4
<1> QED
  BY <1>1, <1>2

\* What a step writes into the table: nothing, one write without a receipt, or a receipt
\* by who is about to mark.
Writes(p) ==
  LET h == procs[p].hash IN
  \/ UNCHANGED records
  \/ h \in Hashes /\ records' \in {Created(h), Counted(h), MarkedFailed(h)}
  \/ h \in Hashes /\ procs[p].step = "mark" /\ records' = MarkedAnchored(h, procs[p].tx)

LEMMA StepWrites ==
  ASSUME IInv, [Next]_vars
  PROVE  UNCHANGED records \/ \E p \in Procs : Writes(p)
<1>1. ASSUME NEW p \in Procs, Submitting(p) PROVE Writes(p)
  <2>1. CASE Prepare(p) \/ PrepareFails(p) \/ SyncFail(p)
    BY <2>1, Known DEF Prepare, PrepareFails, SyncFail, Writes
  <2>2. CASE Enqueue(p) \/ EnqueueFails(p) \/ Get(p) \/ GetFails(p) \/ Upgrade(p)
             \/ UpgradeFails(p) \/ SyncFailFails(p)
    BY <2>2 DEF Enqueue, EnqueueFails, Get, GetFails, Upgrade, UpgradeFails, SyncFailFails, Writes
  <2> QED
    BY <1>1, <2>1, <2>2 DEF Submitting
<1>2. ASSUME NEW p \in Procs, Processes(p) PROVE Writes(p)
  <2>1. CASE Increment(p) \/ IncrementFails(p) \/ Fail(p) \/ FailFails(p)
    BY <2>1, Known DEF Increment, IncrementFails, Fail, FailFails, Writes
  <2>2. CASE Mark(p) \/ MarkFails(p)
    BY <2>2, Known DEF Mark, MarkFails, Writes
  <2>3. CASE Find(p) \/ FindFails(p) \/ Send(p) \/ SendFails(p) \/ Receipt(p) \/ WaitFails(p)
             \/ Catch(p) \/ CatchFails(p) \/ \E j \in Jobs : Start(p, j)
    BY <2>3 DEF Find, FindFails, Send, SendFails, Receipt, WaitFails, Catch, CatchFails, Start, Writes
  <2> QED
    BY <1>2, <2>1, <2>2, <2>3 DEF Processes
<1>3. ASSUME NEW p \in Procs, Crash(p) PROVE UNCHANGED records
  BY <1>3 DEF Crash
<1>4. ASSUME NEW p \in Procs, NEW h \in Hashes, Begins(p, h) PROVE UNCHANGED records
  BY <1>4 DEF Begins, RecordEvidence, Finalize, AnchorStored, StoredReadFails
<1>5. ASSUME NEW t \in Txs, Mine(t) PROVE UNCHANGED records
  BY <1>5 DEF Mine
<1>6. CASE UNCHANGED vars
  BY <1>6 DEF vars
<1> QED
  BY <1>1, <1>2, <1>3, <1>4, <1>5, <1>6 DEF Next

LEMMA StepKeepsReceipts == ASSUME IInv, Contract, [Next]_vars PROVE ReceiptKept
<1>1. CASE UNCHANGED records
  BY <1>1 DEF ReceiptKept
<1>2. ASSUME NEW p \in Procs, Writes(p) PROVE ReceiptKept
  <2>1. CASE /\ procs[p].hash \in Hashes
             /\ records' \in {Created(procs[p].hash), Counted(procs[p].hash), MarkedFailed(procs[p].hash)}
    BY <2>1 DEF Created, Counted, MarkedFailed, ReceiptKept, IInv, Types, Record
  <2> QED
    BY <1>1, <1>2, <2>1, MarkWritesTheSame DEF Writes
<1> QED
  BY <1>1, <1>2, StepWrites

\* With the contract, a recorded receipt never changes, whatever a late or repeated
\* job, a timeout that was no failure, or a crash makes of the record afterwards
\* (anchor.service.ts:14-16).
THEOREM ReceiptTheorem == Contract => (Spec => ReceiptStable)
<1> SUFFICES ASSUME Contract PROVE Spec => ReceiptStable
  OBVIOUS
<1>1. IInv /\ [Next]_vars => [ReceiptKept]_vars
  BY StepKeepsReceipts
<1>2. Spec => [][ReceiptKept]_vars
  BY <1>1, InductiveInvariant, PTL DEF Spec
<1> QED
  BY <1>2 DEF ReceiptStable, ReceiptKept
-----------------------------------------------------------------------------
(* The counters of the job and of its record.                               *)

\* The steps of process() after the counter.
Past == {"send", "wait", "mark", "catch", "fail"}

Present(r, h) == r[h].status # "absent"
SettledIn(r, h) == r[h].status \in {"anchored", "failed"}

\* What an execution q may rely on, in a queue b, a table r and the lost jobs l: it is alone
\* on an active job of its hash, and once past the counter the record has counted the
\* attempt in hand, which the job has not.
Books(q, b, r, l) ==
  /\ q.step \in Processing => b[q.job].state = "active" /\ b[q.job].hash = q.hash
  /\ q.step \notin Processing => q.job = None
  /\ q.step \in Past => q.job \in l \/ b[q.job].made + 1 <= r[q.hash].attempts
  /\ q.step = "enqueue" => Present(r, q.hash)

\* The record of a job is there; it has counted at least the attempts the job has made;
\* and it is settled when the job is over.
JobBooks(j, b, r, l) ==
  /\ b[j].state # "none" => Present(r, b[j].hash)
  /\ b[j].state \in {"waiting", "active"} => j \in l \/ b[j].made <= r[b[j].hash].attempts
  /\ b[j].state \in {"done", "failed"} => j \in l \/ SettledIn(r, b[j].hash)

CInv ==
  /\ \A p \in Procs : Books(procs[p], jobs, records, lost)
  /\ \A j \in Jobs : JobBooks(j, jobs, records, lost)
  /\ \A p, o \in Procs :
       p # o /\ procs[p].step \in Processing /\ procs[o].step \in Processing
         => procs[p].job # procs[o].job

LEMMA CountsInitially == Init => CInv
BY DEF Init, CInv, Books, JobBooks, Idle, Processing, Past

\* A record only counts on, stays and stays settled.
RecordsGrow ==
  \A h \in Hashes :
    /\ records'[h].attempts \in Nat /\ records[h].attempts <= records'[h].attempts
    /\ Present(records, h) => Present(records', h)
    /\ SettledIn(records, h) => SettledIn(records', h)

LEMMA StepGrows == ASSUME IInv, [Next]_vars PROVE RecordsGrow
<1>0. \A h \in Hashes : records[h].attempts \in Nat /\ records'[h].attempts \in Nat
  BY StepKeeps DEF IInv, Types, Record
<1>1. CASE UNCHANGED records
  BY <1>0, <1>1 DEF RecordsGrow, Present, SettledIn
<1>2. ASSUME NEW p \in Procs, Writes(p) PROVE RecordsGrow
  <2> DEFINE h == procs[p].hash
  <2>1. CASE h \in Hashes /\ records' = Created(h)
    BY <1>0, <2>1 DEF Created, RecordsGrow, Present, SettledIn, IInv, Types, Record
  <2>2. CASE h \in Hashes /\ records' = Counted(h)
    BY <1>0, <2>2 DEF Counted, RecordsGrow, Present, SettledIn, IInv, Types, Record
  <2>3. CASE h \in Hashes /\ records' = MarkedFailed(h)
    BY <1>0, <2>3 DEF MarkedFailed, RecordsGrow, Present, SettledIn, IInv, Types, Record
  <2>4. CASE h \in Hashes /\ records' = MarkedAnchored(h, procs[p].tx)
    BY <1>0, <2>4 DEF MarkedAnchored, RecordsGrow, Present, SettledIn, IInv, Types, Record
  <2> QED
    BY <1>1, <1>2, <2>1, <2>2, <2>3, <2>4 DEF Writes
<1> QED
  BY <1>1, <1>2, StepWrites

\* What a step of p leaves of the books of the others.
LEMMA CountsKept ==
  ASSUME IInv, CInv, RecordsGrow, lost \subseteq lost', NEW p \in Procs,
         \A o \in Procs : o # p => procs'[o] = procs[o],
         \A j \in Jobs : \/ jobs'[j] = jobs[j]
                         \/ /\ JobBooks(j, jobs', records', lost')
                            /\ procs[p].job = j \/ jobs[j].state # "active",
         Books(procs'[p], jobs', records', lost'),
         procs'[p].step \in Processing => \/ procs[p].step \in Processing /\ procs'[p].job = procs[p].job
                                          \/ jobs[procs'[p].job].state # "active",
         procs[p].step \in Processing \/ procs[p].job = None
  PROVE  CInv'
<1>1. ASSUME NEW o \in Procs, o # p, procs[o].step \in Processing
      PROVE  /\ procs[o].job \in Jobs /\ procs[o].hash \in Hashes
             /\ jobs[procs[o].job].state = "active" /\ jobs'[procs[o].job] = jobs[procs[o].job]
  <2>1. procs[o].job \in Jobs /\ procs[o].hash \in Hashes /\ jobs[procs[o].job].state = "active"
    BY <1>1, Known DEF CInv, Books, Processing
  <2>2. procs[p].job # procs[o].job
    BY <1>1, <2>1, AnchorAssumption DEF CInv
  <2> QED
    BY <2>1, <2>2
<1>2. ASSUME NEW j \in Jobs, jobs'[j] = jobs[j] PROVE JobBooks(j, jobs', records', lost')
  <2>1. JobBooks(j, jobs, records, lost) /\ (jobs[j].state # "none" => jobs[j].hash \in Hashes)
    BY DEF CInv, IInv, JobsOK
  <2>2. jobs[j].made \in Nat /\ jobs[j].state \in {"none", "waiting", "active", "done", "failed"}
    BY DEF IInv, Types, JobRow
  <2>4. CASE jobs[j].state = "none"
    BY <1>2, <2>4 DEF JobBooks
  <2>5. CASE jobs[j].state # "none"
    <3> DEFINE h == jobs[j].hash
    <3>1. h \in Hashes /\ Present(records', h)
      BY <2>1, <2>5 DEF JobBooks, RecordsGrow
    <3>2. SettledIn(records, h) => SettledIn(records', h)
      BY <3>1 DEF RecordsGrow
    <3>3. \A m \in Nat : m <= records[h].attempts => m <= records'[h].attempts
      BY <3>1 DEF RecordsGrow, IInv, Types, Record
    <3> QED
      BY <1>2, <2>1, <2>2, <3>1, <3>2, <3>3 DEF JobBooks
  <2> QED
    BY <2>4, <2>5
<1>3. ASSUME NEW o \in Procs, o # p PROVE Books(procs'[o], jobs', records', lost')
  <2>1. procs'[o] = procs[o] /\ Books(procs[o], jobs, records, lost)
    BY <1>3 DEF CInv
  <2>2. procs[o].step # "idle" => procs[o].hash \in Hashes
    BY Known
  <2>3. CASE procs[o].step \in Processing
    <3> DEFINE h == procs[o].hash
               j == procs[o].job
    <3>1. h \in Hashes /\ j \in Jobs /\ jobs'[j] = jobs[j]
      BY <1>1, <1>3, <2>3
    <3>2. \A m \in Nat : m + 1 <= records[h].attempts => m + 1 <= records'[h].attempts
      BY <3>1 DEF RecordsGrow, IInv, Types, Record
    <3>3. jobs[j].made \in Nat
      BY <3>1 DEF IInv, Types, JobRow
    <3>4. procs[o].step \in Past => j \in lost' \/ jobs'[j].made + 1 <= records'[h].attempts
      BY <2>1, <3>1, <3>2, <3>3 DEF Books
    <3> QED
      BY <2>1, <2>3, <3>1, <3>4 DEF Books, Processing
  <2>4. CASE procs[o].step \notin Processing
    BY <2>1, <2>2, <2>4 DEF Books, Processing, Past, RecordsGrow
  <2> QED
    BY <2>3, <2>4
<1>4. ASSUME NEW o \in Procs, o # p, procs'[o].step \in Processing, procs'[p].step \in Processing
      PROVE  procs'[o].job # procs'[p].job
  BY <1>1, <1>4 DEF CInv
<1>5. \A o, q \in Procs :
        o # q /\ procs'[o].step \in Processing /\ procs'[q].step \in Processing
          => procs'[o].job # procs'[q].job
  BY <1>4 DEF CInv
<1> QED
  BY <1>2, <1>3, <1>5 DEF CInv

\* Steps that leave the queue alone.
LEMMA CountsMove ==
  ASSUME IInv, CInv, RecordsGrow, UNCHANGED <<jobs, lost>>, NEW p \in Procs, NEW s \in Steps,
         To(p, s),
         s \in Processing <=> procs[p].step \in Processing,
         s \in Past => \/ procs[p].step \in Past
                       \/ records' = Counted(procs[p].hash),
         s = "enqueue" => Present(records', procs[p].hash)
  PROVE  CInv'
<1> DEFINE h == procs[p].hash
           j == procs[p].job
<1>1. /\ \A o \in Procs : o # p => procs'[o] = procs[o]
      /\ procs'[p].step = s /\ procs'[p].hash = h /\ procs'[p].job = j
  BY ToMoves DEF IInv
<1>2. Books(procs[p], jobs, records, lost)
  BY DEF CInv
<1>3. s \in Past => j \in lost \/ jobs[j].made + 1 <= records'[h].attempts
  <2> SUFFICES ASSUME s \in Past, j \notin lost PROVE jobs[j].made + 1 <= records'[h].attempts
    OBVIOUS
  <2>1. procs[p].step \in Processing /\ procs[p].step # "idle"
    BY DEF Past, Processing
  <2>2. h \in Hashes /\ j \in Jobs /\ jobs[j].hash = h /\ jobs[j].state = "active"
    BY <1>2, <2>1, Known DEF Books
  <2>3. jobs[j].made \in Nat /\ records[h].attempts \in Nat
    BY <2>2 DEF IInv, Types, JobRow, Record
  <2>4. CASE procs[p].step \in Past
    <3>1. jobs[j].made + 1 <= records[h].attempts
      BY <1>2, <2>4 DEF Books
    <3>2. records[h].attempts <= records'[h].attempts
      BY <2>2 DEF RecordsGrow
    <3>3. records'[h].attempts \in Nat
      BY <2>2 DEF RecordsGrow
    <3> QED
      BY <2>3, <3>1, <3>2, <3>3
  <2>5. CASE records' = Counted(h)
    <3>1. records'[h].attempts = records[h].attempts + 1
      BY <2>2, <2>5 DEF Counted, IInv, Types, Record
    <3>2. jobs[j].made <= records[h].attempts
      BY <2>2 DEF CInv, JobBooks
    <3> QED
      BY <2>3, <3>1, <3>2
  <2> QED
    BY <2>4, <2>5
<1>4. Books(procs'[p], jobs', records', lost')
  BY <1>1, <1>2, <1>3 DEF Books, Processing, Past
<1> QED
  BY <1>1, <1>2, <1>4, CountsKept DEF Books

\* A caller ends.
LEMMA CountsEnd ==
  ASSUME IInv, CInv, RecordsGrow, UNCHANGED <<jobs, lost>>, NEW p \in Procs, Done(p),
         procs[p].step \notin Processing
  PROVE  CInv'
<1>1. procs'[p] = Idle /\ \A o \in Procs : o # p => procs'[o] = procs[o]
  BY DEF Done, IInv, Types
<1>2. Books(Idle, jobs', records', lost') /\ Idle.step \notin Processing
  BY DEF Books, Idle, Processing, Past
<1> QED
  BY <1>1, <1>2, CountsKept DEF CInv, Books

\* process() ends: the job has what its new state asks for.
LEMMA CountsJobEnds ==
  ASSUME IInv, CInv, RecordsGrow, lost \subseteq lost', NEW p \in Procs, Done(p),
         procs[p].step \in Processing,
         \A i \in Jobs : i # procs[p].job => jobs'[i] = jobs[i],
         JobBooks(procs[p].job, jobs', records', lost')
  PROVE  CInv'
<1>1. procs'[p] = Idle /\ \A o \in Procs : o # p => procs'[o] = procs[o]
  BY DEF Done, IInv, Types
<1>2. Books(Idle, jobs', records', lost') /\ Idle.step \notin Processing
  BY DEF Books, Idle, Processing, Past
<1> QED
  BY <1>1, <1>2, CountsKept

\* The job in hand.
LEMMA InHand ==
  ASSUME IInv, CInv, NEW p \in Procs, procs[p].step \in Processing
  PROVE  LET j == procs[p].job
             h == procs[p].hash
         IN
         /\ j \in Jobs /\ h \in Hashes /\ jobs[j].hash = h /\ jobs[j].state = "active"
         /\ jobs[j].made \in Nat /\ Present(records, h)
         /\ j \in lost \/ jobs[j].made <= records[h].attempts
         /\ procs[p].step \in Past => j \in lost \/ jobs[j].made + 1 <= records[h].attempts
<1>1. procs[p].job \in Jobs /\ procs[p].hash \in Hashes
  BY Known DEF Processing
<1> QED
  BY <1>1 DEF CInv, Books, JobBooks, IInv, Types, JobRow

LEMMA CountsThrew ==
  ASSUME IInv, CInv, RecordsGrow, lost \subseteq lost', NEW p \in Procs,
         procs[p].step \in Processing, Threw(p),
         \/ procs[p].job \in lost'
         \/ /\ jobs[procs[p].job].made + 1 <= records'[procs[p].hash].attempts
            /\ jobs[procs[p].job].made + 1 < MaxAttempts \/ SettledIn(records', procs[p].hash)
  PROVE  CInv'
<1> DEFINE j == procs[p].job
           h == procs[p].hash
<1>1. /\ j \in Jobs /\ h \in Hashes /\ jobs[j].hash = h /\ Present(records', h)
  BY InHand DEF RecordsGrow
<1>2. /\ Done(p) /\ \A i \in Jobs : i # j => jobs'[i] = jobs[i]
      /\ jobs'[j].hash = h /\ jobs'[j].made = jobs[j].made + 1
      /\ jobs'[j].state = IF jobs[j].made + 1 < MaxAttempts THEN "waiting" ELSE "failed"
  BY <1>1, ThrewCounts
<1>3. JobBooks(j, jobs', records', lost')
  <2>1. CASE jobs[j].made + 1 < MaxAttempts
    BY <1>1, <1>2, <2>1 DEF JobBooks
  <2>2. CASE ~(jobs[j].made + 1 < MaxAttempts)
    BY <1>1, <1>2, <2>2 DEF JobBooks
  <2> QED
    BY <2>1, <2>2
<1> QED
  BY <1>2, <1>3, CountsJobEnds

LEMMA CountsReturned ==
  ASSUME IInv, CInv, RecordsGrow, UNCHANGED lost, NEW p \in Procs,
         procs[p].step \in Processing, Returned(p), SettledIn(records', procs[p].hash)
  PROVE  CInv'
<1> DEFINE j == procs[p].job
           h == procs[p].hash
<1>1. /\ j \in Jobs /\ h \in Hashes /\ jobs[j].hash = h /\ Present(records', h)
  BY InHand DEF RecordsGrow
<1>2. /\ Done(p) /\ \A i \in Jobs : i # j => jobs'[i] = jobs[i]
      /\ jobs'[j].hash = h /\ jobs'[j].state = "done"
  BY <1>1, ReturnedCounts
<1>3. JobBooks(j, jobs', records', lost')
  BY <1>1, <1>2 DEF JobBooks
<1> QED
  BY <1>2, <1>3, CountsJobEnds

LEMMA CountsBegin ==
  ASSUME IInv, CInv, RecordsGrow, NEW p \in Procs, NEW h \in Hashes, Begins(p, h)
  PROVE  CInv'
<1>1. UNCHANGED <<jobs, lost>>
  BY DEF Begins, RecordEvidence, Finalize, AnchorStored, StoredReadFails
<1>2. PICK c, s : s \in {"prepare", "syncfail"} /\ Begin(p, c, h, s)
  BY DEF Begins, RecordEvidence, Finalize, AnchorStored, StoredReadFails
<1> DEFINE q == [Idle EXCEPT !.step = s, !.caller = c, !.hash = h]
<1>3. q.step = s /\ q.job = None
  BY DEF Idle
<1>4. procs' = [procs EXCEPT ![p] = q] /\ procs[p].step = "idle"
  BY <1>2 DEF Begin
<1> HIDE DEF q
<1>5. procs'[p] = q /\ \A o \in Procs : o # p => procs'[o] = procs[o]
  BY <1>4 DEF IInv, Types
<1>6. Books(q, jobs', records', lost') /\ q.step \notin Processing
  BY <1>2, <1>3 DEF Books, Processing, Past
<1>7. procs[p].step \in Processing \/ procs[p].job = None
  BY DEF CInv, Books
<1> QED
  BY <1>1, <1>5, <1>6, <1>7, CountsKept

LEMMA CountsRejected ==
  ASSUME IInv, CInv, RecordsGrow, UNCHANGED <<jobs, lost>>, NEW p \in Procs, Rejected(p),
         procs[p].step \in {"prepare", "enqueue", "get"}
  PROVE  CInv'
<1>1. procs[p].step \notin Processing
  BY DEF Processing
<1>2. CASE To(p, "syncfail")
  BY <1>1, <1>2, CountsMove DEF Steps, Processing, Past
<1>3. CASE Done(p)
  BY <1>1, <1>3, CountsEnd
<1> QED
  BY <1>2, <1>3 DEF Rejected

LEMMA CountsEnqueue ==
  ASSUME IInv, CInv, RecordsGrow, NEW p \in Procs, Enqueue(p)
  PROVE  CInv'
<1> DEFINE h == procs[p].hash
           j == FreshJob
<1>1. h \in Hashes /\ Present(records, h) /\ procs[p].job = None /\ records[h].attempts \in Nat
  BY Known DEF Enqueue, CInv, Books, Processing, IInv, Types, Record
<1>2. j \in Jobs /\ jobs[j].state = "none"
  BY FreshJobIsNew DEF Enqueue
<1>3. jobs' = [jobs EXCEPT ![j] = [hash |-> h, state |-> "waiting", made |-> 0, stalled |-> FALSE]]
      /\ UNCHANGED <<records, lost>> /\ To(p, "get")
  BY DEF Enqueue
<1> HIDE DEF j
<1>4. /\ \A i \in Jobs : i # j => jobs'[i] = jobs[i]
      /\ jobs'[j].hash = h /\ jobs'[j].state = "waiting" /\ jobs'[j].made = 0
  BY <1>2, <1>3 DEF IInv, Types
<1>5. JobBooks(j, jobs', records', lost')
  BY <1>1, <1>3, <1>4 DEF JobBooks
<1>6. /\ \A o \in Procs : o # p => procs'[o] = procs[o]
      /\ procs'[p].step = "get" /\ procs'[p].job = procs[p].job
  BY <1>3, ToMoves DEF IInv, Steps
<1>7. Books(procs'[p], jobs', records', lost') /\ procs'[p].step \notin Processing
  BY <1>1, <1>6 DEF Books, Processing, Past
<1> QED
  BY <1>1, <1>2, <1>3, <1>4, <1>5, <1>6, <1>7, CountsKept

LEMMA CountsSubmit ==
  ASSUME IInv, CInv, RecordsGrow, NEW p \in Procs, Submitting(p)
  PROVE  CInv'
<1>1. CASE Prepare(p)
  <2>1. Present(records', procs[p].hash)
    BY <1>1, Known DEF Prepare, Created, Present, IInv, Types, Record
  <2> QED
    BY <1>1, <2>1, CountsMove DEF Prepare, Steps, Processing, Past
<1>2. CASE PrepareFails(p) \/ EnqueueFails(p) \/ GetFails(p)
  BY <1>2, CountsRejected DEF PrepareFails, EnqueueFails, GetFails
<1>3. CASE Enqueue(p)
  BY <1>3, CountsEnqueue
<1>4. CASE Get(p)
  <2>1. CASE To(p, "upgrade")
    BY <1>4, <2>1, CountsMove DEF Get, Steps, Processing, Past
  <2>2. CASE Done(p)
    BY <1>4, <2>2, CountsEnd DEF Get, Processing
  <2> QED
    BY <1>4, <2>1, <2>2 DEF Get
<1>5. CASE Upgrade(p) \/ UpgradeFails(p) \/ SyncFail(p) \/ SyncFailFails(p)
  BY <1>5, CountsEnd DEF Upgrade, UpgradeFails, SyncFail, SyncFailFails, Processing
<1> QED
  BY <1>1, <1>2, <1>3, <1>4, <1>5 DEF Submitting

LEMMA CountsStart ==
  ASSUME IInv, CInv, RecordsGrow, NEW p \in Procs, NEW j \in Jobs, Start(p, j)
  PROVE  CInv'
<1> DEFINE h == jobs[j].hash
           q == [Idle EXCEPT !.step = "find", !.hash = h, !.job = j]
<1>1. /\ procs' = [procs EXCEPT ![p] = q] /\ jobs' = [jobs EXCEPT ![j].state = "active"]
      /\ UNCHANGED <<records, lost>> /\ jobs[j].state = "waiting" /\ procs[p].step = "idle"
  BY DEF Start
<1>2. q.step = "find" /\ q.hash = h /\ q.job = j
  BY DEF Idle
<1> HIDE DEF q
<1>3. /\ \A i \in Jobs : i # j => jobs'[i] = jobs[i]
      /\ jobs'[j].hash = h /\ jobs'[j].state = "active" /\ jobs'[j].made = jobs[j].made
  BY <1>1 DEF IInv, Types, JobRow
<1>4. JobBooks(j, jobs', records', lost')
  BY <1>1, <1>3 DEF CInv, JobBooks
<1>5. procs'[p] = q /\ \A o \in Procs : o # p => procs'[o] = procs[o]
  BY <1>1 DEF IInv, Types
<1>6. Books(q, jobs', records', lost')
  BY <1>2, <1>3 DEF Books, Processing, Past
<1>7. procs[p].step \in Processing \/ procs[p].job = None
  BY DEF CInv, Books
<1> QED
  BY <1>1, <1>2, <1>3, <1>4, <1>5, <1>6, <1>7, CountsKept

\* The attempt that fails: before the counter it is lost; after it, the record has counted
\* it, and in the last attempt the record is marked failed or the job is lost.
LEMMA CountsThrown ==
  ASSUME IInv, CInv, RecordsGrow, NEW p \in Procs,
         \/ FindFails(p) \/ IncrementFails(p) \/ CatchFails(p) \/ Fail(p) \/ FailFails(p)
         \/ Catch(p) /\ Threw(p)
  PROVE  CInv'
<1> DEFINE j == procs[p].job
           h == procs[p].hash
<1>1. procs[p].step \in Processing
  BY DEF FindFails, IncrementFails, CatchFails, Fail, FailFails, Catch, Processing
<1>2. /\ j \in Jobs /\ h \in Hashes /\ jobs[j].made \in Nat /\ Present(records, h)
      /\ records[h].attempts \in Nat
      /\ j \in lost \/ jobs[j].made <= records[h].attempts
      /\ procs[p].step \in Past => j \in lost \/ jobs[j].made + 1 <= records[h].attempts
  BY <1>1, InHand DEF IInv, Types, Record
<1>3. MaxAttempts \in Nat
  BY AnchorAssumption
<1>4. Threw(p) /\ lost \subseteq lost'
  BY DEF FindFails, IncrementFails, CatchFails, Fail, FailFails, Catch, Loses
<1>5. CASE j \in lost'
  BY <1>1, <1>4, <1>5, CountsThrew
<1>6. CASE j \notin lost'
  <2>1. jobs[j].made + 1 <= records'[h].attempts
    <3>1. CASE IncrementFails(p)
      <4>1. records' = Counted(h)
        BY <1>6, <3>1 DEF IncrementFails, Loses
      <4>2. records'[h].attempts = records[h].attempts + 1
        BY <1>2, <4>1 DEF Counted, IInv, Types, Record
      <4> QED
        BY <1>2, <1>4, <1>6, <4>2
    <3>2. CASE CatchFails(p) \/ Fail(p) \/ FailFails(p) \/ Catch(p)
      <4>1. procs[p].step \in Past
        BY <3>2 DEF CatchFails, Fail, FailFails, Catch, Past
      <4>2. records'[h].attempts \in Nat /\ records[h].attempts <= records'[h].attempts
        BY <1>2 DEF RecordsGrow
      <4> QED
        BY <1>2, <1>4, <1>6, <4>1, <4>2
    <3> QED
      BY <1>6, <3>1, <3>2 DEF FindFails, Loses
  <2>2. jobs[j].made + 1 < MaxAttempts \/ SettledIn(records', h)
    <3>1. CASE IncrementFails(p) \/ CatchFails(p)
      BY <1>2, <1>3, <1>6, <3>1 DEF IncrementFails, CatchFails, Loses, LastAttempt
    <3>2. CASE Catch(p) /\ Threw(p)
      <4>1. ~(records[h].attempts >= MaxAttempts) \/ To(p, "fail")
        BY <3>2 DEF Catch
      <4>2. ~To(p, "fail")
        <5>1. procs'[p] = Idle
          BY <1>4 DEF Threw, Done, IInv, Types
        <5>2. To(p, "fail") => procs'[p].step = "fail"
          BY ToMoves DEF IInv, Steps
        <5> QED
          BY <5>1, <5>2 DEF Idle
      <4>3. procs[p].step \in Past
        BY <3>2 DEF Catch, Past
      <4> QED
        BY <1>2, <1>3, <1>4, <1>6, <4>1, <4>2, <4>3
    <3>3. CASE Fail(p) \/ (FailFails(p) /\ records' = MarkedFailed(h))
      <4>1. records' = MarkedFailed(h)
        BY <3>3 DEF Fail
      <4> QED
        BY <1>2, <4>1 DEF MarkedFailed, Present, SettledIn, IInv, Types, Record
    <3>4. CASE FailFails(p) /\ records' # MarkedFailed(h)
      BY <1>2, <1>3, <1>6, <3>4 DEF FailFails, Loses, LastAttempt
    <3>5. ~FindFails(p)
      BY <1>6 DEF FindFails, Loses
    <3> QED
      BY <3>1, <3>2, <3>3, <3>4, <3>5
  <2> QED
    BY <1>1, <1>4, <2>1, <2>2, CountsThrew
<1> QED
  BY <1>5, <1>6

LEMMA CountsProcess ==
  ASSUME IInv, CInv, RecordsGrow, NEW p \in Procs, Processes(p)
  PROVE  CInv'
<1>1. ASSUME NEW j \in Jobs, Start(p, j) PROVE CInv'
  BY <1>1, CountsStart
<1>2. CASE Find(p)
  <2>1. CASE records[procs[p].hash].status = "anchored" /\ Returned(p)
    <3>1. procs[p].step \in Processing /\ UNCHANGED <<records, lost>>
      BY <1>2 DEF Find, Processing
    <3>2. SettledIn(records', procs[p].hash)
      BY <2>1, <3>1 DEF SettledIn
    <3> QED
      BY <2>1, <3>1, <3>2, CountsReturned
  <2>2. CASE To(p, "increment") /\ UNCHANGED jobs
    BY <1>2, <2>2, CountsMove DEF Find, Steps, Processing, Past
  <2> QED
    BY <1>2, <2>1, <2>2 DEF Find
<1>3. CASE FindFails(p) \/ IncrementFails(p) \/ CatchFails(p) \/ Fail(p) \/ FailFails(p)
  BY <1>3, CountsThrown
<1>4. CASE Increment(p)
  BY <1>4, CountsMove DEF Increment, Steps, Processing, Past
<1>5. CASE Send(p)
  <2> DEFINE q == [procs[p] EXCEPT !.step = "wait", !.tx = FreshTx]
  <2>1. procs' = [procs EXCEPT ![p] = q] /\ procs[p].step = "send" /\ UNCHANGED <<jobs, lost>>
    BY <1>5 DEF Send, IInv, Types, Proc
  <2>2. q.step = "wait" /\ q.hash = procs[p].hash /\ q.job = procs[p].job
    BY DEF IInv, Types, Proc
  <2> HIDE DEF q
  <2>3. procs'[p] = q /\ \A o \in Procs : o # p => procs'[o] = procs[o]
    BY <2>1 DEF IInv, Types
  <2>4. records' = records
    BY <1>5 DEF Send
  <2>5. Books(q, jobs', records', lost')
    BY <2>1, <2>2, <2>4 DEF CInv, Books, Processing, Past
  <2> QED
    BY <2>1, <2>2, <2>3, <2>5, CountsKept DEF Processing
<1>6. CASE SendFails(p) \/ WaitFails(p) \/ MarkFails(p)
  BY <1>6, CountsMove DEF SendFails, WaitFails, MarkFails, Steps, Processing, Past
<1>7. CASE Receipt(p)
  <2>1. CASE txs[procs[p].tx].state = "success"
    BY <1>7, <2>1, CountsMove DEF Receipt, Steps, Processing, Past
  <2>2. CASE txs[procs[p].tx].state # "success"
    BY <1>7, <2>2, CountsMove DEF Receipt, Steps, Processing, Past
  <2> QED
    BY <2>1, <2>2
<1>8. CASE Mark(p)
  <2>1. procs[p].step \in Processing /\ procs[p].hash \in Hashes
    BY <1>8, Known DEF Mark, Processing
  <2>2. SettledIn(records', procs[p].hash)
    BY <1>8, <2>1 DEF Mark, MarkedAnchored, SettledIn, IInv, Types, Record
  <2> QED
    BY <1>8, <2>1, <2>2, CountsReturned DEF Mark
<1>9. CASE Catch(p)
  <2>1. CASE Threw(p)
    BY <1>9, <2>1, CountsThrown
  <2>2. CASE To(p, "fail") /\ UNCHANGED jobs
    BY <1>9, <2>2, CountsMove DEF Catch, Steps, Processing, Past
  <2> QED
    BY <1>9, <2>1, <2>2 DEF Catch
<1> QED
  BY <1>1, <1>2, <1>3, <1>4, <1>5, <1>6, <1>7, <1>8, <1>9 DEF Processes

LEMMA CountsCrash ==
  ASSUME IInv, CInv, RecordsGrow, NEW p \in Procs, Crash(p)
  PROVE  CInv'
<1> DEFINE j == procs[p].job
<1>1. CASE j = None
  <2>1. procs[p].step \notin Processing
    BY <1>1, Known, AnchorAssumption
  <2> QED
    BY <1>1, <2>1, CountsEnd DEF Crash
<1>2. CASE j # None
  <2>1. procs[p].step \in Processing
    BY <1>2 DEF CInv, Books
  <2>2. /\ j \in Jobs /\ jobs[j].state = "active" /\ jobs[j].hash \in Hashes
        /\ jobs[j].made \in Nat /\ Present(records, jobs[j].hash)
        /\ j \in lost \/ jobs[j].made <= records[jobs[j].hash].attempts
    BY <2>1, InHand
  <2>3. /\ \A i \in Jobs : i # j => jobs'[i] = jobs[i]
        /\ jobs'[j].hash = jobs[j].hash /\ jobs'[j].made = jobs[j].made
        /\ jobs'[j].state = IF ~jobs[j].stalled THEN "waiting" ELSE "failed"
    BY <1>2, <2>2, CrashCounts
  <2>4. Done(p) /\ records' = records /\ lost \subseteq lost' /\ (jobs[j].stalled => j \in lost')
    BY <1>2 DEF Crash, Loses
  <2>5. JobBooks(j, jobs', records', lost')
    BY <2>2, <2>3, <2>4 DEF JobBooks
  <2> QED
    BY <2>1, <2>3, <2>4, <2>5, CountsJobEnds
<1> QED
  BY <1>1, <1>2

LEMMA CountsStep == ASSUME IInv, CInv, [Next]_vars PROVE CInv'
<1>1. RecordsGrow
  BY StepGrows
<1>2. CASE \E p \in Procs : Submitting(p) \/ Processes(p) \/ Crash(p)
  BY <1>1, <1>2, CountsSubmit, CountsProcess, CountsCrash
<1>3. CASE \E p \in Procs : \E h \in Hashes : Begins(p, h)
  BY <1>1, <1>3, CountsBegin
<1>4. CASE \E t \in Txs : Mine(t)
  BY <1>4 DEF Mine, CInv
<1>5. CASE UNCHANGED vars
  BY <1>5 DEF vars, CInv
<1> QED
  BY <1>2, <1>3, <1>4, <1>5 DEF Next

\* A job that is over leaves its record anchored or failed, or it is one that lost an
\* attempt outside process()'s try or that Bull failed at its second stall: for any
\* number of jobs of a hash, workers, retries, transactions and failures
\* (anchor.service.ts:18-33).
THEOREM SettledTheorem == Spec => []OverIsSettled
<1>1. Init => IInv /\ CInv
  BY Initially, CountsInitially
<1>2. IInv /\ CInv /\ [Next]_vars => IInv' /\ CInv'
  BY StepKeeps, CountsStep
<1>3. IInv /\ CInv => OverIsSettled
  BY DEF CInv, JobBooks, SettledIn, OverIsSettled, Settled
<1> QED
  BY <1>1, <1>2, <1>3, PTL DEF Spec
=============================================================================
