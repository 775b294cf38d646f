--------------------------- MODULE SyncJobsProofs ---------------------------
(***************************************************************************)
(* Theorems about SyncCoalesce and SyncJobs, for any wallets, requests,    *)
(* runs, jobs, chains and size of the store: one run of an account at a    *)
(* time in a process, a forced refresh only ever answered by a forced run, *)
(* one active job, and no chain left under way on the screen of a finished *)
(* job.                                                                    *)
(***************************************************************************)
EXTENDS SyncJobs, FiniteSetTheorems, SequenceTheorems, TLAPS

-----------------------------------------------------------------------------
(* The runs and the requests that share them (SyncCoalesce).               *)

\* The types of what the argument is about: requests, runs and the map.
Types ==
  /\ bound \in SUBSET Wallets
  /\ reqs \in [Reqs -> Request]
  /\ runs \in [Runs -> Run]
  /\ inflight \in Runs \cup {None}

\* A request that waits for a run or rides one holds a run that was started.
HoldsRun ==
  \A q \in Reqs : reqs[q].step \in {"wait", "ride"} =>
    reqs[q].run \in Runs /\ runs[reqs[q].run].state # "none"

\* SingleRun is inductive with the types; ForcedByForced needs HoldsRun, since a run
\* keeps its mode only once it was started.
IInv == Types /\ SingleRun /\ HoldsRun /\ ForcedByForced

LEMMA NoneIsNoRun == None \notin Runs
  BY CoalesceAssumption

LEMMA Initially == Init => IInv
  BY NoneIsNoRun DEF Init, IInv, Types, SingleRun, HoldsRun, ForcedByForced, Request, Run,
     NoRequest, NoRun, Modes

\* A request reads the bindings.
LEMMA ReadPreserves ==
  ASSUME IInv, NEW q \in Reqs, NEW mode \in Modes, NEW work \in SUBSET Wallets,
         Read(q, mode, work)
  PROVE  IInv'
<1>1. Types'
  <2>1. work \cap Unsynced \in SUBSET Wallets
    OBVIOUS
  <2>2. [step |-> "read", mode |-> mode, work |-> work, unsynced |-> work \cap Unsynced,
         run |-> None] \in Request
    BY <2>1 DEF Request
  <2> QED
    BY <2>2 DEF IInv, Types, Read
<1>2. SingleRun'
  BY DEF IInv, SingleRun, Read
<1>3. HoldsRun' /\ ForcedByForced'
  BY DEF IInv, Types, HoldsRun, ForcedByForced, Read
<1> QED
  BY <1>1, <1>2, <1>3 DEF IInv

\* What riding a run makes of the requests.
LEMMA RidesType ==
  ASSUME Types, NEW q \in Reqs, NEW r \in Runs, Rides(q, r)
  PROVE  /\ reqs' \in [Reqs -> Request]
         /\ reqs'[q].step = "ride" /\ reqs'[q].run = r /\ reqs'[q].mode = reqs[q].mode
         /\ \A p \in Reqs \ {q} : reqs'[p] = reqs[p]
<1> DEFINE after == [step |-> "ride", mode |-> reqs[q].mode, work |-> {}, unsynced |-> {}, run |-> r]
<1>1. after \in Request
  BY DEF Types, Request
<1>2. reqs' = [reqs EXCEPT ![q] = after]
  BY DEF Rides
<1> QED
  BY <1>1, <1>2 DEF Types

\* A request gets a run of its own when none is in flight.
LEMMA FreshPreserves ==
  ASSUME IInv, NEW q \in Reqs, inflight = None, Fresh(q), bound' = bound
  PROVE  IInv'
<1>1. PICK r \in Runs :
        /\ runs[r].state = "none"
        /\ runs' = [runs EXCEPT ![r] = [state |-> "running", mode |-> reqs[q].mode,
                                        work |-> reqs[q].work, left |-> reqs[q].work,
                                        unsynced |-> reqs[q].unsynced, served |-> FALSE]]
        /\ inflight' = r
        /\ Rides(q, r)
  <2> DEFINE free == {s \in Runs : runs[s].state = "none"}
             r == CHOOSE s \in free : TRUE
  <2>1. r \in free
    BY Zenon DEF Fresh
  <2> QED
    BY <2>1 DEF Fresh
<1>2. reqs[q] \in Request
  BY DEF IInv, Types
<1>3. Types'
  <2>1. reqs' \in [Reqs -> Request]
    BY <1>1, RidesType DEF IInv
  <2>2. runs' \in [Runs -> Run]
    BY <1>1, <1>2 DEF IInv, Types, Request, Run
  <2> QED
    BY <1>1, <2>1, <2>2 DEF IInv, Types
<1>4. SingleRun'
  BY <1>1, NoneIsNoRun DEF IInv, Types, SingleRun
<1>5. reqs'[q].step = "ride" /\ reqs'[q].run = r /\ reqs'[q].mode = reqs[q].mode
      /\ \A p \in Reqs \ {q} : reqs'[p] = reqs[p]
  BY <1>1, RidesType DEF IInv
<1>6. runs'[r].state = "running" /\ runs'[r].mode = reqs[q].mode
      /\ \A s \in Runs \ {r} : runs'[s] = runs[s]
  BY <1>1 DEF IInv, Types
<1>7. \A p \in Reqs \ {q} : reqs[p].step \in {"wait", "ride"} =>
        reqs[p].run \in Runs \ {r} /\ runs[reqs[p].run].state # "none"
  BY <1>1 DEF IInv, HoldsRun
<1>8. HoldsRun'
  BY <1>5, <1>6, <1>7 DEF HoldsRun
<1>9. ForcedByForced'
  BY <1>5, <1>6, <1>7 DEF IInv, ForcedByForced
<1> QED
  BY <1>3, <1>4, <1>8, <1>9 DEF IInv

\* A request takes up, or waits for, a run that was started.
LEMMA GoesPreserves ==
  ASSUME IInv, NEW q \in Reqs, NEW r \in Runs, runs[r].state # "none",
         Goes(q, "wait", r) \/ (Rides(q, r) /\ (reqs[q].mode = "all" => runs[r].mode = "all")),
         UNCHANGED <<bound, runs, inflight>>
  PROVE  IInv'
<1>1. reqs[q] \in Request
  BY DEF IInv, Types
<1>2. /\ reqs' \in [Reqs -> Request]
      /\ reqs'[q].run = r
      /\ reqs'[q].step = "wait" \/ (reqs'[q].step = "ride" /\ reqs'[q].mode = reqs[q].mode
                                    /\ (reqs[q].mode = "all" => runs[r].mode = "all"))
      /\ \A p \in Reqs \ {q} : reqs'[p] = reqs[p]
  <2>1. CASE Goes(q, "wait", r)
    BY <1>1, <2>1 DEF IInv, Types, Request, Goes
  <2>2. CASE Rides(q, r) /\ (reqs[q].mode = "all" => runs[r].mode = "all")
    BY <2>2, RidesType DEF IInv
  <2> QED
    BY <2>1, <2>2
<1>3. Types' /\ SingleRun'
  BY <1>2 DEF IInv, Types, SingleRun
<1>4. HoldsRun' /\ ForcedByForced'
  BY <1>2 DEF IInv, HoldsRun, ForcedByForced
<1> QED
  BY <1>3, <1>4 DEF IInv

LEMMA CoalescePreserves ==
  ASSUME IInv, NEW q \in Reqs, Coalesce(q)
  PROVE  IInv'
<1>1. CASE inflight = None
  BY <1>1, FreshPreserves DEF Coalesce
<1>2. CASE inflight # None
  <2>1. inflight \in Runs /\ runs[inflight].state # "none"
    BY <1>2 DEF IInv, Types, SingleRun
  <2>2. reqs[q].mode \in Modes
    BY DEF IInv, Types, Request
  <2>3. CASE Rides(q, inflight) /\ (reqs[q].mode = "subset" \/ runs[inflight].mode = "all")
             /\ UNCHANGED <<bound, runs, inflight>>
    BY <2>1, <2>2, <2>3, GoesPreserves DEF Modes
  <2>4. CASE Goes(q, "wait", inflight) /\ UNCHANGED <<bound, runs, inflight>>
    BY <2>1, <2>4, GoesPreserves
  <2> QED
    BY <1>2, <2>3, <2>4 DEF Coalesce
<1> QED
  BY <1>1, <1>2

\* Letting go of a run leaves every run alone that another request holds.
LEMMA ReleaseKeeps ==
  ASSUME IInv, NEW q \in Reqs, runs' = Released(q)
  PROVE  /\ runs' \in [Runs -> Run]
         /\ \A r \in Runs : runs'[r].state = "running" <=> runs[r].state = "running"
         /\ \A p \in Reqs \ {q} : reqs[p].run \in Runs => runs'[reqs[p].run] = runs[reqs[p].run]
<1>1. NoRun \in Run /\ NoRun.state = "none"
  BY DEF NoRun, Run, Modes
<1>2. runs' \in [Runs -> Run]
  BY <1>1 DEF IInv, Types, Released
<1>3. \A r \in Runs : runs'[r].state = "running" <=> runs[r].state = "running"
  BY <1>1 DEF Released
<1>4. \A p \in Reqs \ {q} : reqs[p].run \in Runs => runs'[reqs[p].run] = runs[reqs[p].run]
  BY DEF Released
<1> QED
  BY <1>2, <1>3, <1>4

\* The request is over, or asks again: it holds no run.
LEMMA EndPreserves ==
  ASSUME IInv, NEW q \in Reqs, Wake(q) \/ Answer(q) \/ Timeout(q)
  PROVE  IInv'
<1>1. runs' = Released(q) /\ UNCHANGED <<bound, inflight>>
  BY DEF Wake, Answer, Timeout
<1>2. reqs[q] \in Request
  BY DEF IInv, Types
<1>3. /\ reqs' \in [Reqs -> Request]
      /\ reqs'[q].step \in {"idle", "again"}
      /\ \A p \in Reqs \ {q} : reqs'[p] = reqs[p]
  <2>1. CASE Wake(q)
    BY <1>2, <2>1 DEF IInv, Types, Wake, Goes, Request
  <2>2. CASE Answer(q) \/ Timeout(q)
    <3>1. NoRequest \in Request /\ NoRequest.step = "idle"
      BY DEF NoRequest, Request, Modes
    <3> QED
      BY <2>2, <3>1 DEF IInv, Types, Answer, Timeout
  <2> QED
    BY <2>1, <2>2
<1>4. Types'
  BY <1>1, <1>3, ReleaseKeeps DEF IInv, Types
<1>5. SingleRun'
  BY <1>1, ReleaseKeeps DEF IInv, SingleRun
<1>6. HoldsRun' /\ ForcedByForced'
  BY <1>1, <1>3, ReleaseKeeps DEF IInv, HoldsRun, ForcedByForced
<1> QED
  BY <1>4, <1>5, <1>6 DEF IInv

\* A run walks a binding.
LEMMA WalkPreserves ==
  ASSUME IInv, NEW r \in Runs, NEW w \in Wallets, Walk(r, w) \/ WalkFails(r, w)
  PROVE  IInv'
<1>1. /\ \/ runs' = [runs EXCEPT ![r].left = @ \ {w}]
         \/ runs' = [runs EXCEPT ![r] = [runs[r] EXCEPT !.left = @ \ {w}, !.served = TRUE]]
      /\ UNCHANGED <<bound, reqs, inflight>>
  BY DEF Walk, WalkFails
<1>2. runs[r] \in Run
  BY DEF IInv, Types
<1>3. PICK after \in Run :
        /\ runs' = [runs EXCEPT ![r] = after]
        /\ after.state = runs[r].state /\ after.mode = runs[r].mode
  <2>1. CASE runs' = [runs EXCEPT ![r].left = @ \ {w}]
    <3>1. [runs[r] EXCEPT !.left = @ \ {w}] \in Run
      BY <1>2 DEF Run
    <3> QED
      BY <1>2, <2>1, <3>1 DEF Run
  <2>2. CASE runs' = [runs EXCEPT ![r] = [runs[r] EXCEPT !.left = @ \ {w}, !.served = TRUE]]
    <3> DEFINE after == [runs[r] EXCEPT !.left = @ \ {w}, !.served = TRUE]
    <3>1. after \in Run
      BY <1>2 DEF Run
    <3>2. after.state = runs[r].state /\ after.mode = runs[r].mode
      BY <1>2 DEF Run
    <3>3. runs' = [runs EXCEPT ![r] = after]
      BY <2>2
    <3> QED
      BY <3>1, <3>2, <3>3
  <2> QED
    BY <1>1, <2>1, <2>2
<1>4. runs' \in [Runs -> Run] /\ \A s \in Runs : runs'[s].state = runs[s].state /\ runs'[s].mode = runs[s].mode
  BY <1>3 DEF IInv, Types
<1>5. Types'
  BY <1>1, <1>4 DEF IInv, Types
<1>6. SingleRun'
  BY <1>1, <1>4 DEF IInv, SingleRun
<1>7. HoldsRun'
  BY <1>1, <1>4 DEF IInv, HoldsRun
<1>8. ForcedByForced'
  BY <1>1, <1>4 DEF IInv, HoldsRun, ForcedByForced
<1> QED
  BY <1>5, <1>6, <1>7, <1>8 DEF IInv

\* A run settles.
LEMMA SettlePreserves ==
  ASSUME IInv, NEW r \in Runs, Settle(r)
  PROVE  IInv'
<1>1. /\ runs[r].state = "running"
      /\ runs' = [runs EXCEPT ![r] = Settled(r)]
      /\ inflight' = IF inflight = r THEN None ELSE inflight
      /\ UNCHANGED <<bound, reqs>>
  BY DEF Settle
<1>2. runs[r] \in Run
  BY DEF IInv, Types
<1>3. /\ Settled(r) \in Run
      /\ Settled(r).state # "running"
      /\ (\E q \in Reqs : reqs[q].run = r) =>
           Settled(r).state = "settled" /\ Settled(r).mode = runs[r].mode
  <2>1. CASE \E q \in Reqs : reqs[q].run = r
    <3>1. Settled(r) = [state |-> "settled", mode |-> runs[r].mode, work |-> {}, left |-> {},
                        unsynced |-> {}, served |-> runs[r].served]
      BY <2>1 DEF Settled, NoRun
    <3> QED
      BY <1>2, <3>1 DEF Run
  <2>2. CASE ~ \E q \in Reqs : reqs[q].run = r
    BY <2>2 DEF Settled, NoRun, Run, Modes
  <2> QED
    BY <2>1, <2>2
<1>4. /\ runs' \in [Runs -> Run]
      /\ runs'[r] = Settled(r)
      /\ \A s \in Runs \ {r} : runs'[s] = runs[s]
  BY <1>1, <1>3 DEF IInv, Types
<1>5. inflight = r /\ inflight' = None
  BY <1>1 DEF IInv, SingleRun
<1>6. Types'
  BY <1>1, <1>4, <1>5 DEF IInv, Types
<1>7. SingleRun'
  BY <1>3, <1>4, <1>5, NoneIsNoRun DEF IInv, SingleRun
<1>8. HoldsRun'
  BY <1>1, <1>3, <1>4 DEF IInv, HoldsRun
<1>9. ForcedByForced'
  BY <1>1, <1>3, <1>4 DEF IInv, HoldsRun, ForcedByForced
<1> QED
  BY <1>6, <1>7, <1>8, <1>9 DEF IInv

\* The process restarts.
LEMMA RestartPreserves ==
  ASSUME IInv, Restart
  PROVE  IInv'
<1>1. reqs' \in [Reqs -> Request] /\ \A q \in Reqs : reqs'[q].step = "idle"
  BY DEF Restart, NoRequest, Request, Modes
<1>2. NoRun \in Run /\ NoRun.state = "none"
  BY DEF NoRun, Run, Modes
<1>3. runs' \in [Runs -> Run] /\ \A r \in Runs : runs'[r].state # "running"
  BY <1>2 DEF Restart
<1>4. Types' /\ SingleRun'
  BY <1>1, <1>3, NoneIsNoRun DEF IInv, Types, SingleRun, Restart
<1>5. HoldsRun' /\ ForcedByForced'
  BY <1>1 DEF HoldsRun, ForcedByForced
<1> QED
  BY <1>4, <1>5 DEF IInv

LEMMA StepPreserves == ASSUME IInv, [Next]_vars PROVE IInv'
<1>1. CASE UNCHANGED vars
  BY <1>1 DEF vars, IInv, Types, SingleRun, HoldsRun, ForcedByForced
<1>2. ASSUME NEW q \in Reqs, Coalesce(q) PROVE IInv'
  BY <1>2, CoalescePreserves
<1>3. ASSUME NEW q \in Reqs, Wake(q) \/ Answer(q) \/ Timeout(q) PROVE IInv'
  BY <1>3, EndPreserves
<1>4. ASSUME NEW r \in Runs, Settle(r) PROVE IInv'
  BY <1>4, SettlePreserves
<1>5. ASSUME NEW r \in Runs, NEW w \in Wallets, Walk(r, w) \/ WalkFails(r, w) PROVE IInv'
  BY <1>5, WalkPreserves
<1>6. ASSUME NEW w \in Wallets, Register(w) PROVE IInv'
  BY <1>6 DEF Register, IInv, Types, SingleRun, HoldsRun, ForcedByForced
<1>7. ASSUME NEW q \in Reqs, Sync(q) \/ EnsureInitialSync(q) PROVE IInv'
  <2>1. bound \in SUBSET Wallets /\ Unsynced \in SUBSET Wallets
    BY DEF IInv, Types, Unsynced
  <2>2. CASE Sync(q)
    BY <2>1, <2>2, ReadPreserves DEF Sync, Modes
  <2>3. CASE EnsureInitialSync(q)
    BY <2>1, <2>3, ReadPreserves DEF EnsureInitialSync, Modes
  <2> QED
    BY <1>7, <2>2, <2>3
<1>8. CASE Restart
  BY <1>8, RestartPreserves
<1> QED
  BY <1>1, <1>2, <1>3, <1>4, <1>5, <1>6, <1>7, <1>8 DEF Next, Progress

\* The strengthening that carries the two results below: what a request holds was
\* started, and its place is not given to another run.
THEOREM InductiveInvariant == Spec => []IInv
  BY Initially, StepPreserves, PTL DEF Spec

\* However many requests arrive, wait and wake, the entry of the map is the one run
\* under way (coalesce(), indexer.service.ts:97-125).
THEOREM OneRunAtATime == Spec => []SingleRun
  BY InductiveInvariant, PTL DEF IInv

\* No order of requests and runs lets a forced refresh be answered by a bootstrap
\* (indexer.service.ts:102-104).
THEOREM ForcedIsForced == Spec => []ForcedByForced
  BY InductiveInvariant, PTL DEF IInv

-----------------------------------------------------------------------------
(* The jobs around the runs (SyncJobs).                                     *)

\* A tracker's phases, by wallet and chain.
Tracker == UNION {[D -> Scan \cup {"persisting"} \cup Terminal] : D \in SUBSET (Wallets \X Chains)}

JobTypes ==
  /\ record \in [Jobs -> {"none", "gone"} \cup Unfinished \cup Finished]
  /\ sending \in SUBSET Jobs
  /\ queue \in Seq(Jobs)
  /\ active \in SUBSET Jobs /\ IsFiniteSet(active)
  /\ track \in [Jobs -> Tracker]

\* No two records of the account are unfinished.
OneActive == \A i, j \in FindActive : i = j

Queued(j) == \E i \in DOMAIN queue : queue[i] = j

\* Where a job with a record can be: being dispatched or in the queue, once, while it is
\* queued, and in its handler only while it is running.  This is what a delivery relies
\* on: a job that starts was queued, so its record was not finished before.
Placed ==
  \A j \in Jobs :
    /\ record[j] = "none" => j \notin sending /\ ~Queued(j) /\ j \notin active /\ reqs[j].step = "idle"
    /\ HasRecord(j) =>
         /\ j \in sending => record[j] = "queued" /\ ~Queued(j)
         /\ Queued(j) => record[j] = "queued"
         /\ \A i, k \in DOMAIN queue : queue[i] = j /\ queue[k] = j => i = k
         /\ reqs[j].step # "idle" => record[j] = "running"

\* A tracker belongs to a job that rides its run, or to a finished record.
OwnTracker == \A j \in Jobs : Tracks(j) => record[j] \in Finished \/ reqs[j].step = "ride"

Riding(j) == Tracks(j) /\ reqs[j].step = "ride"

\* A run reports to one job at most.
OneOwner == \A i, j \in Jobs : Riding(i) /\ Riding(j) /\ reqs[i].run = reqs[j].run => i = j

\* What is not terminal yet is of a wallet the run has still to walk.
StillLeft ==
  \A j \in Jobs : Riding(j) =>
    \A p \in DOMAIN track[j] :
      \/ track[j][p] \in Terminal
      \/ runs[reqs[j].run].state = "running" /\ p[1] \in runs[reqs[j].run].left

JobInv == JobTypes /\ OneActive /\ Placed /\ OwnTracker /\ OneOwner /\ StillLeft /\ FinishedShowsAll

LEMMA JobsAreRequests == Jobs \subseteq Reqs /\ Other \notin Jobs
  BY JobsAssumption

\* Every step of the jobs is a step of the runs they share, or leaves those alone.
LEMMA JobsStepIsStep == ASSUME IInv, JobsNext PROVE [Next]_vars
<1>1. ASSUME NEW j \in Jobs, Enqueue(j) \/ Dispatched(j) \/ DispatchFails(j) PROVE [Next]_vars
  BY <1>1 DEF Enqueue, Dispatched, DispatchFails
<1>2. ASSUME NEW j \in Jobs, JobStep(j) PROVE [Next]_vars
  <2>1. j \in Reqs /\ (Coalesce(j) \/ Wake(j) \/ Answer(j))
    BY <1>2, JobsAreRequests DEF JobStep, JobCoalesce, JobWake, Finish
  <2> QED
    BY <2>1 DEF Next, Progress
<1>3. ASSUME NEW j \in Jobs, NEW w \in Wallets, ChainStep(j, w) PROVE [Next]_vars
  <2>1. CASE \E c \in Chains : Scanning(j, w, c) \/ ChainError(j, w, c) \/ Persisting(j, w, c)
                               \/ Persisted(j, w, c)
    BY <2>1 DEF Scanning, ChainError, Persisting, Persisted, Enter
  <2>2. CASE JobWalk(j, w) \/ JobWalkFails(j, w)
    <3>1. Walk(reqs[j].run, w) \/ WalkFails(reqs[j].run, w)
      BY <2>2 DEF JobWalk, JobWalkFails
    <3>2. reqs[j].run \in Runs
      BY <2>2, JobsAreRequests DEF JobWalk, JobWalkFails, Walking, IInv, HoldsRun
    <3> QED
      BY <3>1, <3>2 DEF Next, Progress
  <2> QED
    BY <1>3, <2>1, <2>2 DEF ChainStep
<1>4. ASSUME NEW j \in Jobs, NEW w \in Wallets, NEW c \in Chains, LateScan(j, w, c) PROVE [Next]_vars
  BY <1>4 DEF LateScan, Enter
<1>5. CASE OthersEnqueue
  BY <1>5 DEF OthersEnqueue
<1>6. CASE Worker
  <2>1. ASSUME NEW j \in Jobs, Start(j) PROVE [Next]_vars
    BY <2>1, JobsAreRequests DEF Start, Next
  <2>2. ASSUME NEW j \in Jobs, Skip(j) PROVE [Next]_vars
    BY <2>2 DEF Skip
  <2> QED
    BY <1>6, <2>1, <2>2 DEF Worker
<1>7. ASSUME NEW q \in Callers, Call(q) \/ CallerGoes(q) \/ GiveUp(q) PROVE [Next]_vars
  BY <1>7 DEF Callers, Call, CallerGoes, GiveUp, Next, Progress
<1>8. ASSUME NEW r \in Runs, RunSettles(r) PROVE [Next]_vars
  BY <1>8 DEF RunSettles, Next, Progress
<1>9. ASSUME NEW r \in Runs, NEW w \in Wallets, QuietWalk(r, w) PROVE [Next]_vars
  BY <1>9 DEF QuietWalk, Next, Progress
<1>10. ASSUME NEW w \in Wallets, Bind(w) PROVE [Next]_vars
  BY <1>10 DEF Bind, Next
<1>11. CASE JobsRestart
  BY <1>11 DEF JobsRestart, Next
<1> QED
  BY <1>1, <1>2, <1>3, <1>4, <1>5, <1>6, <1>7, <1>8, <1>9, <1>10, <1>11 DEF JobsNext
LEMMA NoTracker == <<>> \in Tracker /\ DOMAIN <<>> = {}
<1>1. DOMAIN <<>> = {}
  OBVIOUS
<1>2. <<>> \in [{} -> Scan \cup {"persisting"} \cup Terminal]
  OBVIOUS
<1> QED
  BY <1>1, <1>2 DEF Tracker

LEMMA JobsInitially == ASSUME JobsInit PROVE JobInv
<1>1. JobTypes
  BY NoTracker, FS_EmptySet DEF JobsInit, JobTypes
<1>2. OneActive
  BY DEF JobsInit, OneActive, FindActive, Unfinished
<1>3. \A j \in Jobs : reqs[j].step = "idle"
  BY JobsAreRequests DEF JobsInit, Init, NoRequest
<1>4. Placed
  BY <1>3 DEF JobsInit, Placed, Queued, HasRecord, Unfinished, Finished
<1>5. OwnTracker /\ OneOwner /\ StillLeft /\ FinishedShowsAll
  BY DEF JobsInit, OwnTracker, OneOwner, StillLeft, FinishedShowsAll, Riding, Tracks
<1> QED
  BY <1>1, <1>2, <1>4, <1>5 DEF JobInv

-----------------------------------------------------------------------------
(* Steps of the requests and runs that leave the jobs' own state alone.     *)

\* The jobs' requests stay as they are, and what is not terminal is still to be walked.
LEMMA OthersPreserve ==
  ASSUME JobInv, UNCHANGED jobVars, \A j \in Jobs : reqs'[j] = reqs[j], StillLeft'
  PROVE  JobInv'
<1> USE DEF JobInv, jobVars
<1>1. JobTypes' /\ OneActive'
  BY DEF JobTypes, OneActive, FindActive
<1>2. Placed'
  BY DEF Placed, Queued, HasRecord
<1>3. OwnTracker' /\ OneOwner'
  BY DEF OwnTracker, OneOwner, Riding, Tracks
<1>4. FinishedShowsAll'
  BY DEF FinishedShowsAll, Tracks
<1> QED
  BY <1>1, <1>2, <1>3, <1>4

\* Runs that report to a job stay as they are.
LEMMA RunsKept ==
  ASSUME StillLeft, UNCHANGED track, \A j \in Jobs : reqs'[j] = reqs[j],
         \A j \in Jobs : Riding(j) => runs'[reqs[j].run] = runs[reqs[j].run]
  PROVE  StillLeft'
  BY DEF StillLeft, Riding, Tracks

\* What coalesce() does to the request, and that it leaves the others and their runs alone.
LEMMA CoalesceFrame ==
  ASSUME IInv, NEW q \in Reqs, Coalesce(q)
  PROVE  /\ \A p \in Reqs \ {q} :
              /\ reqs'[p] = reqs[p]
              /\ reqs[p].step \in {"wait", "ride"} => runs'[reqs[p].run] = runs[reqs[p].run]
         /\ \/ runs' = runs /\ reqs'[q].step \in {"wait", "ride"}
            \/ /\ runs' # runs /\ reqs'[q].step = "ride"
               /\ runs'[reqs'[q].run].state = "running"
               /\ runs'[reqs'[q].run].left = reqs[q].work
               /\ \A p \in Reqs \ {q} : reqs[p].step \in {"wait", "ride"} => reqs[p].run # reqs'[q].run
<1>1. reqs[q] \in Request
  BY DEF IInv, Types
<1>2. CASE Fresh(q)
  <2>1. PICK r \in Runs :
          /\ runs[r].state = "none"
          /\ runs' = [runs EXCEPT ![r] = [state |-> "running", mode |-> reqs[q].mode,
                                          work |-> reqs[q].work, left |-> reqs[q].work,
                                          unsynced |-> reqs[q].unsynced, served |-> FALSE]]
          /\ Rides(q, r)
    <3> DEFINE free == {s \in Runs : runs[s].state = "none"}
               r == CHOOSE s \in free : TRUE
    <3>1. r \in free
      BY <1>2, Zenon DEF Fresh
    <3> QED
      BY <1>2, <3>1 DEF Fresh
  <2>2. reqs'[q].step = "ride" /\ reqs'[q].run = r /\ \A p \in Reqs \ {q} : reqs'[p] = reqs[p]
    BY <2>1, RidesType DEF IInv
  <2>3. runs'[r].state = "running" /\ runs'[r].left = reqs[q].work
        /\ \A s \in Runs \ {r} : runs'[s] = runs[s]
    BY <2>1 DEF IInv, Types
  <2>4. \A p \in Reqs \ {q} : reqs[p].step \in {"wait", "ride"} => reqs[p].run \in Runs \ {r}
    BY <2>1 DEF IInv, HoldsRun
  <2>5. runs' # runs
    BY <2>1, <2>3
  <2> QED
    BY <2>2, <2>3, <2>4, <2>5
<1>3. CASE Rides(q, inflight) /\ runs' = runs /\ inflight # None
  BY <1>3, RidesType DEF IInv, Types
<1>4. CASE Goes(q, "wait", inflight) /\ runs' = runs
  BY <1>1, <1>4 DEF Goes, IInv, Types, Request
<1> QED
  BY <1>2, <1>3, <1>4 DEF Coalesce

\* A caller that is no job reads, asks, rides, waits, is answered or gives up.
LEMMA CallerPreserves ==
  ASSUME IInv, JobInv, NEW q \in Callers, Call(q) \/ CallerGoes(q) \/ GiveUp(q)
  PROVE  JobInv'
<1>1. q \in Reqs /\ \A j \in Jobs : j \in Reqs \ {q}
  BY JobsAreRequests DEF Callers
<1>2. UNCHANGED jobVars
  BY DEF Call, CallerGoes, GiveUp
<1>3. UNCHANGED track
  BY <1>2 DEF jobVars
<1>4. /\ \A j \in Jobs : reqs'[j] = reqs[j]
      /\ \A j \in Jobs : reqs[j].step = "ride" => runs'[reqs[j].run] = runs[reqs[j].run]
  <2>1. CASE Sync(q) \/ EnsureInitialSync(q)
    BY <1>1, <2>1 DEF Sync, EnsureInitialSync, Read, IInv, Types
  <2>2. CASE Coalesce(q)
    BY <1>1, <2>2, CoalesceFrame
  <2>3. CASE Wake(q) \/ Answer(q) \/ Timeout(q)
    <3>1. \A p \in Reqs \ {q} : reqs'[p] = reqs[p]
      BY <1>1, <2>3 DEF Wake, Answer, Timeout, Goes, IInv, Types
    <3>2. \A p \in Reqs \ {q} : reqs[p].run \in Runs => runs'[reqs[p].run] = runs[reqs[p].run]
      BY <1>1, <2>3, ReleaseKeeps DEF Wake, Answer, Timeout
    <3> QED
      BY <1>1, <3>1, <3>2 DEF IInv, HoldsRun
  <2> QED
    BY <2>1, <2>2, <2>3 DEF Call, CallerGoes, GiveUp
<1>5. StillLeft'
  BY <1>3, <1>4, RunsKept DEF JobInv, Riding
<1> QED
  BY <1>2, <1>4, <1>5, OthersPreserve

\* A run that is over has nothing left to walk.
LEMMA RunSettlesPreserves ==
  ASSUME IInv, JobInv, NEW r \in Runs, RunSettles(r)
  PROVE  JobInv'
<1>1. UNCHANGED jobVars /\ UNCHANGED track
  BY DEF RunSettles, jobVars
<1>2. reqs' = reqs /\ runs[r].left = {} /\ runs' = [runs EXCEPT ![r] = Settled(r)]
  BY DEF RunSettles, Settle
<1>3. \A s \in Runs \ {r} : runs'[s] = runs[s]
  BY <1>2 DEF IInv, Types
<1>4. \A j \in Jobs : Riding(j) => reqs[j].run \in Runs
  BY JobsAreRequests DEF Riding, IInv, HoldsRun
<1>5. StillLeft'
  BY <1>1, <1>2, <1>3, <1>4 DEF JobInv, StillLeft, Riding, Tracks
<1> QED
  BY <1>1, <1>2, <1>5, OthersPreserve

\* What a walked wallet leaves of its run.
LEMMA WalkFrame ==
  ASSUME IInv, NEW r \in Runs, NEW w \in Wallets, Walk(r, w) \/ WalkFails(r, w)
  PROVE  /\ reqs' = reqs
         /\ \A s \in Runs \ {r} : runs'[s] = runs[s]
         /\ runs'[r].state = runs[r].state /\ runs'[r].left = runs[r].left \ {w}
<1>1. /\ \/ runs' = [runs EXCEPT ![r].left = @ \ {w}]
         \/ runs' = [runs EXCEPT ![r] = [runs[r] EXCEPT !.left = @ \ {w}, !.served = TRUE]]
      /\ reqs' = reqs
  BY DEF Walk, WalkFails
<1>2. runs[r] \in Run
  BY DEF IInv, Types
<1>3. CASE runs' = [runs EXCEPT ![r].left = @ \ {w}]
  BY <1>1, <1>2, <1>3 DEF IInv, Types, Run
<1>4. CASE runs' = [runs EXCEPT ![r] = [runs[r] EXCEPT !.left = @ \ {w}, !.served = TRUE]]
  <2> DEFINE after == [runs[r] EXCEPT !.left = @ \ {w}, !.served = TRUE]
  <2>1. after.state = runs[r].state /\ after.left = runs[r].left \ {w}
    BY <1>2 DEF Run
  <2>2. runs' = [runs EXCEPT ![r] = after]
    BY <1>4
  <2> HIDE DEF after
  <2> QED
    BY <1>1, <2>1, <2>2 DEF IInv, Types
<1> QED
  BY <1>1, <1>3, <1>4

\* A run that reports to no job walks.
LEMMA QuietWalkPreserves ==
  ASSUME IInv, JobInv, NEW r \in Runs, NEW w \in Wallets, QuietWalk(r, w)
  PROVE  JobInv'
<1>1. UNCHANGED jobVars /\ UNCHANGED track
  BY DEF QuietWalk, jobVars
<1>2. reqs' = reqs /\ \A s \in Runs \ {r} : runs'[s] = runs[s]
  BY WalkFrame DEF QuietWalk
<1>3. \A j \in Jobs : Riding(j) => reqs[j].run \in Runs \ {r}
  BY JobsAreRequests DEF QuietWalk, OwnedByJob, Riding, IInv, HoldsRun
<1>4. StillLeft'
  BY <1>1, <1>2, <1>3, RunsKept DEF JobInv
<1> QED
  BY <1>1, <1>2, <1>4, OthersPreserve

LEMMA BindPreserves ==
  ASSUME JobInv, NEW w \in Wallets, Bind(w)
  PROVE  JobInv'
<1>1. UNCHANGED jobVars /\ UNCHANGED <<track, reqs, runs>>
  BY DEF Bind, Register, jobVars
<1>2. StillLeft'
  BY <1>1, RunsKept DEF JobInv
<1> QED
  BY <1>1, <1>2, OthersPreserve

-----------------------------------------------------------------------------
(* Steps of a job's run.                                                    *)

\* A tracker's entries are of wallets and chains.
LEMMA TrackerDomain ==
  ASSUME JobTypes, NEW j \in Jobs
  PROVE  /\ DOMAIN track[j] \subseteq Wallets \X Chains
         /\ track[j] \in [DOMAIN track[j] -> Scan \cup {"persisting"} \cup Terminal]
<1>1. track[j] \in Tracker
  BY DEF JobTypes
<1>2. PICK D \in SUBSET (Wallets \X Chains) : track[j] \in [D -> Scan \cup {"persisting"} \cup Terminal]
  BY <1>1 DEF Tracker
<1>3. DOMAIN track[j] = D
  BY <1>2
<1> QED
  BY <1>2, <1>3

\* The tracker of one job gets new entries on the same wallets and chains, each terminal or
\* of a wallet left; a job that is finished has terminal ones only.
LEMMA TrackPreserves ==
  ASSUME IInv, JobInv, NEW j \in Jobs, NEW t, Tracks(j),
         t \in [DOMAIN track[j] -> Scan \cup {"persisting"} \cup Terminal],
         track' = [track EXCEPT ![j] = t],
         UNCHANGED <<record, sending, queue, active>>, \A i \in Jobs : reqs'[i] = reqs[i],
         reqs[j].step = "ride" => \A p \in DOMAIN track[j] :
           t[p] \in Terminal
           \/ (runs'[reqs[j].run].state = "running" /\ p[1] \in runs'[reqs[j].run].left),
         \A i \in Jobs \ {j} : Riding(i) => runs'[reqs[i].run] = runs[reqs[i].run],
         record[j] \in Finished => \A p \in DOMAIN track[j] : t[p] \in Terminal
  PROVE  JobInv'
<1>1. /\ track'[j] = t /\ DOMAIN t = DOMAIN track[j]
      /\ \A i \in Jobs \ {j} : track'[i] = track[i]
  BY DEF JobInv, JobTypes
<1>2. JobTypes'
  <2>1. t \in Tracker
    BY TrackerDomain DEF JobInv, Tracker
  <2> QED
    BY <2>1 DEF JobInv, JobTypes
<1>3. OneActive' /\ Placed'
  BY DEF JobInv, OneActive, FindActive, Placed, Queued, HasRecord
<1>4. \A i \in Jobs : Tracks(i)' => Tracks(i)
  BY <1>1 DEF Tracks
<1>5. OwnTracker' /\ OneOwner'
  BY <1>4 DEF JobInv, OwnTracker, OneOwner, Riding
<1>6. StillLeft'
  <2> SUFFICES ASSUME NEW i \in Jobs, Riding(i)', NEW p \in DOMAIN track'[i]
               PROVE  \/ track'[i][p] \in Terminal
                      \/ /\ runs'[reqs'[i].run].state = "running"
                         /\ p[1] \in runs'[reqs'[i].run].left
    BY DEF StillLeft
  <2>1. Riding(i)
    BY <1>4 DEF Riding
  <2>2. CASE i = j
    BY <1>1, <2>1, <2>2 DEF Riding
  <2>3. CASE i # j
    BY <1>1, <2>1, <2>3 DEF JobInv, StillLeft
  <2> QED
    BY <2>2, <2>3
<1>7. FinishedShowsAll'
  BY <1>1, <1>4 DEF JobInv, FinishedShowsAll
<1> QED
  BY <1>2, <1>3, <1>5, <1>6, <1>7 DEF JobInv

\* One entry is written: a terminal one, or one of a wallet the job's run has left.
LEMMA EnterPreserves ==
  ASSUME IInv, JobInv, NEW j \in Jobs, NEW w \in Wallets, NEW c \in Chains,
         NEW phase \in Scan \cup {"persisting"} \cup Terminal, Tracks(j),
         Enter(j, w, c, phase), phase \in Terminal \/ Walking(j, w)
  PROVE  JobInv'
<1> DEFINE t == [track[j] EXCEPT ![<<w, c>>] = phase]
<1>1. t \in [DOMAIN track[j] -> Scan \cup {"persisting"} \cup Terminal]
      /\ \A p \in DOMAIN track[j] : t[p] = IF p = <<w, c>> THEN phase ELSE track[j][p]
  BY TrackerDomain DEF JobInv
<1>2. track' = [track EXCEPT ![j] = t]
  BY DEF Enter
<1>3. UNCHANGED <<record, sending, queue, active>> /\ UNCHANGED <<reqs, runs>>
  BY DEF Enter, vars
<1>4. phase \in Terminal \/ (/\ reqs[j].step = "ride" /\ runs[reqs[j].run].state = "running"
                             /\ w \in runs[reqs[j].run].left)
  BY DEF Walking
<1>5. reqs[j].step = "ride" => record[j] \notin Finished
  BY JobsAreRequests DEF JobInv, Placed, HasRecord, Finished
<1> HIDE DEF t
<1>6. reqs[j].step = "ride" => \A p \in DOMAIN track[j] :
        t[p] \in Terminal \/ (runs[reqs[j].run].state = "running" /\ p[1] \in runs[reqs[j].run].left)
  BY <1>1, <1>4 DEF JobInv, StillLeft, Riding
<1>7. record[j] \in Finished => \A p \in DOMAIN track[j] : t[p] \in Terminal
  BY <1>1, <1>4, <1>5 DEF JobInv, FinishedShowsAll
<1> QED
  BY <1>1, <1>2, <1>3, <1>6, <1>7, TrackPreserves

LEMMA ReportPreserves ==
  ASSUME IInv, JobInv, NEW j \in Jobs, NEW w \in Wallets, NEW c \in Chains,
         Scanning(j, w, c) \/ ChainError(j, w, c) \/ Persisting(j, w, c) \/ Persisted(j, w, c)
         \/ LateScan(j, w, c)
  PROVE  JobInv'
<1>1. PICK phase \in Scan \cup {"persisting"} \cup Terminal :
        Enter(j, w, c, phase) /\ Tracks(j) /\ (phase \in Terminal \/ Walking(j, w))
  BY DEF Scanning, ChainError, Persisting, Persisted, LateScan, Walking, Scan, Terminal
<1> QED
  BY <1>1, EnterPreserves

\* A wallet is walked when all its chains are terminal.
LEMMA JobWalkPreserves ==
  ASSUME IInv, JobInv, NEW j \in Jobs, NEW w \in Wallets, JobWalk(j, w)
  PROVE  JobInv'
<1>1. UNCHANGED jobVars /\ UNCHANGED track /\ Riding(j)
  BY DEF JobWalk, jobVars, Walking, Riding
<1>2. reqs[j].run \in Runs
  BY <1>1, JobsAreRequests DEF Riding, IInv, HoldsRun
<1>3. /\ reqs' = reqs
      /\ \A s \in Runs \ {reqs[j].run} : runs'[s] = runs[s]
      /\ runs'[reqs[j].run].state = runs[reqs[j].run].state
      /\ runs'[reqs[j].run].left = runs[reqs[j].run].left \ {w}
  BY <1>2, WalkFrame DEF JobWalk
<1>4. \A p \in DOMAIN track[j] : p[1] = w => track[j][p] \in Terminal
  <2> SUFFICES ASSUME NEW p \in DOMAIN track[j], p[1] = w PROVE track[j][p] \in Terminal
    OBVIOUS
  <2>1. p \in Wallets \X Chains
    BY TrackerDomain DEF JobInv
  <2>2. PICK c \in Chains : p = <<w, c>>
    BY <2>1
  <2> QED
    BY <2>2 DEF JobWalk, Phases
<1>5. \A i \in Jobs \ {j} : Riding(i) => reqs[i].run \in Runs \ {reqs[j].run}
  BY <1>1, JobsAreRequests DEF JobInv, OneOwner, Riding, IInv, HoldsRun
<1>6. StillLeft'
  <2> SUFFICES ASSUME NEW i \in Jobs, Riding(i), NEW p \in DOMAIN track[i]
               PROVE  \/ track[i][p] \in Terminal
                      \/ /\ runs'[reqs[i].run].state = "running"
                         /\ p[1] \in runs'[reqs[i].run].left
    BY <1>1, <1>3 DEF StillLeft, Riding, Tracks
  <2>1. CASE i = j
    BY <1>3, <1>4, <2>1 DEF JobInv, StillLeft
  <2>2. CASE i # j
    BY <1>3, <1>5, <2>2 DEF JobInv, StillLeft
  <2> QED
    BY <2>1, <2>2
<1> QED
  BY <1>1, <1>3, <1>6, OthersPreserve

\* A wallet fails: its chains are made terminal.
LEMMA JobWalkFailsPreserves ==
  ASSUME IInv, JobInv, NEW j \in Jobs, NEW w \in Wallets, JobWalkFails(j, w)
  PROVE  JobInv'
<1> DEFINE t == [p \in DOMAIN track[j] |->
                   IF p[1] = w /\ track[j][p] \notin Terminal THEN "failed" ELSE track[j][p]]
<1>1. /\ Tracks(j) /\ reqs[j].step = "ride" /\ UNCHANGED <<record, sending, queue, active>>
      /\ track' = [track EXCEPT ![j] = t]
  BY DEF JobWalkFails, Walking
<1>2. t \in [DOMAIN track[j] -> Scan \cup {"persisting"} \cup Terminal]
  BY TrackerDomain DEF JobInv, Terminal
<1>3. \A p \in DOMAIN track[j] : t[p] \in Terminal \/ (p[1] # w /\ t[p] = track[j][p])
  BY DEF Terminal
<1> HIDE DEF t
<1>4. reqs[j].run \in Runs
  BY <1>1, JobsAreRequests DEF IInv, HoldsRun
<1>5. /\ reqs' = reqs
      /\ \A s \in Runs \ {reqs[j].run} : runs'[s] = runs[s]
      /\ runs'[reqs[j].run].state = runs[reqs[j].run].state
      /\ runs'[reqs[j].run].left = runs[reqs[j].run].left \ {w}
  BY <1>4, WalkFrame DEF JobWalkFails
<1>6. \A i \in Jobs \ {j} : Riding(i) => runs'[reqs[i].run] = runs[reqs[i].run]
  BY <1>1, <1>5, JobsAreRequests DEF JobInv, OneOwner, Riding, IInv, HoldsRun
<1>7. \A p \in DOMAIN track[j] :
        t[p] \in Terminal \/ (/\ runs'[reqs[j].run].state = "running"
                              /\ p[1] \in runs'[reqs[j].run].left)
  BY <1>1, <1>3, <1>5 DEF JobInv, StillLeft, Riding
<1>8. record[j] \notin Finished
  BY <1>1 DEF JobInv, Placed, HasRecord, Finished
<1> QED
  BY <1>1, <1>2, <1>5, <1>6, <1>7, <1>8, TrackPreserves

-----------------------------------------------------------------------------
(* Steps of a job.                                                          *)

LEMMA RemoveAtElements ==
  ASSUME NEW S, NEW s \in Seq(S), NEW i \in DOMAIN s
  PROVE  /\ RemoveAt(s, i) \in Seq(S)
         /\ DOMAIN RemoveAt(s, i) = 1 .. (Len(s) - 1)
         /\ \A k \in 1 .. (Len(s) - 1) : RemoveAt(s, i)[k] = IF k < i THEN s[k] ELSE s[k + 1]
<1> DEFINE a == SubSeq(s, 1, i - 1)
           b == SubSeq(s, i + 1, Len(s))
<1>1. i \in 1 .. Len(s) /\ Len(s) \in Nat
  OBVIOUS
<1>2. a \in Seq(S) /\ Len(a) = i - 1 /\ \A k \in 1 .. (i - 1) : a[k] = s[k]
  BY <1>1
<1>3. b \in Seq(S) /\ Len(b) = Len(s) - i /\ \A k \in 1 .. (Len(s) - i) : b[k] = s[i + k]
  BY <1>1
<1>4. RemoveAt(s, i) = a \o b
  BY DEF RemoveAt
<1> HIDE DEF a, b
<1>5. a \o b \in Seq(S) /\ Len(a \o b) = Len(s) - 1
  BY <1>1, <1>2, <1>3
<1>6. DOMAIN (a \o b) = 1 .. (Len(s) - 1)
  BY <1>5
<1>7. \A k \in 1 .. (Len(s) - 1) : (a \o b)[k] = IF k < i THEN s[k] ELSE s[k + 1]
  <2> SUFFICES ASSUME NEW k \in 1 .. (Len(s) - 1)
               PROVE  (a \o b)[k] = IF k < i THEN s[k] ELSE s[k + 1]
    OBVIOUS
  <2>1. (a \o b)[k] = IF k <= Len(a) THEN a[k] ELSE b[k - Len(a)]
    BY <1>1, <1>2, <1>3
  <2>2. CASE k < i
    BY <1>1, <1>2, <2>1, <2>2
  <2>3. CASE k >= i
    <3>1. (a \o b)[k] = b[k - (i - 1)] /\ k - (i - 1) \in 1 .. (Len(s) - i)
      BY <1>1, <1>2, <2>1, <2>3
    <3>2. b[k - (i - 1)] = s[i + (k - (i - 1))] /\ i + (k - (i - 1)) = k + 1
      BY <1>1, <1>3, <3>1
    <3> QED
      BY <1>1, <2>3, <3>1, <3>2
  <2>4. k < i \/ k >= i
    BY <1>1
  <2> QED
    BY <2>2, <2>3, <2>4, Zenon
<1> QED
  BY <1>4, <1>5, <1>6, <1>7

\* What picking a job leaves in the queue.
LEMMA PicksElements ==
  ASSUME JobTypes, NEW j \in Jobs, Picks(j)
  PROVE  /\ queue' \in Seq(Jobs) /\ Queued(j)
         /\ \A x \in Jobs : Queued(x)' => Queued(x)
         /\ \A x \in Jobs : (\A i, k \in DOMAIN queue : queue[i] = x /\ queue[k] = x => i = k) =>
              /\ \A i, k \in DOMAIN queue' : queue'[i] = x /\ queue'[k] = x => i = k
              /\ x = j => ~Queued(x)'
<1>1. queue \in Seq(Jobs)
  BY DEF JobTypes
<1>2. PICK n \in DOMAIN queue : queue[n] = j /\ queue' = RemoveAt(queue, n)
  BY DEF Picks
<1>3. n \in 1 .. Len(queue) /\ DOMAIN queue = 1 .. Len(queue) /\ Len(queue) \in Nat
  BY <1>1
<1>4. /\ queue' \in Seq(Jobs)
      /\ DOMAIN queue' = 1 .. (Len(queue) - 1)
      /\ \A k \in 1 .. (Len(queue) - 1) : queue'[k] = IF k < n THEN queue[k] ELSE queue[k + 1]
  BY <1>1, <1>2, RemoveAtElements
<1> DEFINE was(k) == IF k < n THEN k ELSE k + 1
<1>5. \A k \in DOMAIN queue' : was(k) \in DOMAIN queue \ {n} /\ queue'[k] = queue[was(k)]
  BY <1>3, <1>4
<1>6. \A k, l \in DOMAIN queue' : was(k) = was(l) => k = l
  BY <1>3, <1>4
<1> HIDE DEF was
<1>7. \A x \in Jobs : Queued(x)' => Queued(x)
  BY <1>5 DEF Queued
<1>8. ASSUME NEW x \in Jobs, \A i, k \in DOMAIN queue : queue[i] = x /\ queue[k] = x => i = k
      PROVE  /\ \A i, k \in DOMAIN queue' : queue'[i] = x /\ queue'[k] = x => i = k
             /\ x = j => ~Queued(x)'
  BY <1>2, <1>5, <1>6, <1>8 DEF Queued
<1> QED
  BY <1>2, <1>4, <1>7, <1>8 DEF Queued

\* A job is started.
LEMMA StartPreserves ==
  ASSUME IInv, JobInv, NEW j \in Jobs, Start(j)
  PROVE  JobInv'
<1>1. /\ Picks(j) /\ HasRecord(j) /\ record' = [record EXCEPT ![j] = "running"]
      /\ active' = active \cup {j} /\ sending' = sending /\ track' = track /\ Sync(j)
  BY DEF Start, Update
<1>2. /\ queue' \in Seq(Jobs) /\ Queued(j)
      /\ \A x \in Jobs : Queued(x)' => Queued(x)
      /\ \A x \in Jobs : (\A i, k \in DOMAIN queue : queue[i] = x /\ queue[k] = x => i = k) =>
           /\ \A i, k \in DOMAIN queue' : queue'[i] = x /\ queue'[k] = x => i = k
           /\ x = j => ~Queued(x)'
  BY <1>1, PicksElements DEF JobInv
<1>3. record[j] = "queued" /\ record'[j] = "running" /\ \A i \in Jobs \ {j} : record'[i] = record[i]
  BY <1>1, <1>2 DEF JobInv, Placed, JobTypes
<1>4. /\ runs' = runs /\ reqs[j].step = "idle" /\ reqs'[j].step = "read"
      /\ \A i \in Jobs \ {j} : reqs'[i] = reqs[i]
  BY <1>1, JobsAreRequests DEF Sync, Read, IInv, Types
<1>5. ~Tracks(j)
  BY <1>3, <1>4 DEF JobInv, OwnTracker, Finished
<1>6. JobTypes'
  BY <1>1, <1>2, FS_AddElement DEF JobInv, JobTypes, Unfinished
<1>7. OneActive'
  BY <1>3 DEF JobInv, OneActive, FindActive, Unfinished
<1>8. Placed'
  <2>1. ASSUME NEW x \in Jobs
        PROVE  /\ record'[x] = "none" => /\ x \notin sending' /\ ~Queued(x)' /\ x \notin active'
                                         /\ reqs'[x].step = "idle"
               /\ HasRecord(x)' =>
                   /\ x \in sending' => record'[x] = "queued" /\ ~Queued(x)'
                   /\ Queued(x)' => record'[x] = "queued"
                   /\ \A i, k \in DOMAIN queue' : queue'[i] = x /\ queue'[k] = x => i = k
                   /\ reqs'[x].step # "idle" => record'[x] = "running"
    <3>1. CASE x = j
      BY <1>1, <1>2, <1>3, <3>1 DEF JobInv, Placed
    <3>2. CASE x # j
      BY <1>1, <1>2, <1>3, <1>4, <3>2 DEF JobInv, Placed, HasRecord
    <3> QED
      BY <3>1, <3>2
  <2> QED
    BY <2>1 DEF Placed
<1>9. \A i \in Jobs : /\ Tracks(i)' => Tracks(i) /\ i # j
                      /\ Riding(i)' => Riding(i) /\ i # j
  BY <1>1, <1>4, <1>5 DEF Tracks, Riding
<1>10. OwnTracker' /\ OneOwner'
  BY <1>3, <1>4, <1>9 DEF JobInv, OwnTracker, OneOwner
<1>11. StillLeft'
  BY <1>1, <1>4, <1>9 DEF JobInv, StillLeft
<1>12. FinishedShowsAll'
  BY <1>1, <1>3, <1>9 DEF JobInv, FinishedShowsAll
<1> QED
  BY <1>6, <1>7, <1>8, <1>10, <1>11, <1>12 DEF JobInv

\* A job without a record is taken from the queue.
LEMMA SkipPreserves ==
  ASSUME JobInv, NEW j \in Jobs, Skip(j)
  PROVE  JobInv'
<1>1. Picks(j) /\ UNCHANGED <<reqs, runs, record, sending, active, track>>
  BY DEF Skip, vars
<1>2. /\ queue' \in Seq(Jobs)
      /\ \A x \in Jobs : Queued(x)' => Queued(x)
      /\ \A x \in Jobs : (\A i, k \in DOMAIN queue : queue[i] = x /\ queue[k] = x => i = k) =>
           \A i, k \in DOMAIN queue' : queue'[i] = x /\ queue'[k] = x => i = k
  BY <1>1, PicksElements DEF JobInv
<1>3. JobTypes' /\ OneActive'
  BY <1>1, <1>2 DEF JobInv, JobTypes, OneActive, FindActive
<1>4. Placed'
  BY <1>1, <1>2 DEF JobInv, Placed, HasRecord
<1>5. OwnTracker' /\ OneOwner' /\ StillLeft'
  BY <1>1 DEF JobInv, OwnTracker, OneOwner, StillLeft, Riding, Tracks
<1>6. FinishedShowsAll'
  BY <1>1 DEF JobInv, FinishedShowsAll, Tracks
<1> QED
  BY <1>3, <1>4, <1>5, <1>6 DEF JobInv

\* A job is dispatched.
LEMMA DispatchedPreserves ==
  ASSUME JobInv, NEW j \in Jobs, Dispatched(j)
  PROVE  JobInv'
<1>1. /\ j \in sending /\ sending' = sending \ {j} /\ queue' = Append(queue, j)
      /\ UNCHANGED <<reqs, runs, record, active, track>>
  BY DEF Dispatched, vars
<1>2. /\ queue' \in Seq(Jobs) /\ DOMAIN queue' = 1 .. (Len(queue) + 1) /\ DOMAIN queue = 1 .. Len(queue)
      /\ Len(queue) \in Nat /\ queue'[Len(queue) + 1] = j
      /\ \A i \in 1 .. Len(queue) : queue'[i] = queue[i]
  BY <1>1 DEF JobInv, JobTypes
<1>3. \A x \in Jobs : Queued(x)' <=> Queued(x) \/ x = j
  BY <1>2 DEF Queued
<1>4. JobTypes' /\ OneActive'
  BY <1>1, <1>2 DEF JobInv, JobTypes, OneActive, FindActive
<1>5. \A x \in Jobs : HasRecord(x) => \A i, k \in DOMAIN queue' : queue'[i] = x /\ queue'[k] = x => i = k
  <2>1. HasRecord(j) => \A i \in DOMAIN queue : queue[i] # j
    BY <1>1 DEF JobInv, Placed, Queued
  <2>2. \A x \in Jobs : HasRecord(x) => \A i, k \in DOMAIN queue : queue[i] = x /\ queue[k] = x => i = k
    BY DEF JobInv, Placed
  <2> QED
    BY <1>2, <2>1, <2>2
<1>6. Placed'
  BY <1>1, <1>3, <1>5 DEF JobInv, Placed, HasRecord
<1>7. OwnTracker' /\ OneOwner' /\ StillLeft'
  BY <1>1 DEF JobInv, OwnTracker, OneOwner, StillLeft, Riding, Tracks
<1>8. FinishedShowsAll'
  BY <1>1 DEF JobInv, FinishedShowsAll, Tracks
<1> QED
  BY <1>4, <1>6, <1>7, <1>8 DEF JobInv

\* Its dispatch is refused: nothing was tracked for it yet.
LEMMA DispatchFailsPreserves ==
  ASSUME JobInv, NEW j \in Jobs, DispatchFails(j)
  PROVE  JobInv'
<1>1. /\ j \in sending /\ sending' = sending \ {j} /\ Update(j, "failed")
      /\ UNCHANGED <<reqs, runs, queue, active, track>>
  BY DEF DispatchFails, vars
<1>2. CASE ~HasRecord(j)
  <2>1. record' = record
    BY <1>1, <1>2 DEF Update
  <2>2. JobTypes' /\ OneActive'
    BY <1>1, <2>1 DEF JobInv, JobTypes, OneActive, FindActive
  <2>3. Placed'
    BY <1>1, <2>1 DEF JobInv, Placed, HasRecord, Queued
  <2>4. OwnTracker' /\ OneOwner' /\ StillLeft' /\ FinishedShowsAll'
    BY <1>1, <2>1 DEF JobInv, OwnTracker, OneOwner, StillLeft, FinishedShowsAll, Riding, Tracks
  <2> QED
    BY <2>2, <2>3, <2>4 DEF JobInv
<1>3. CASE HasRecord(j)
  <2>1. record' = [record EXCEPT ![j] = "failed"]
    BY <1>1, <1>3 DEF Update
  <2>2. /\ record[j] = "queued" /\ ~Queued(j) /\ reqs[j].step = "idle"
        /\ record'[j] = "failed" /\ \A i \in Jobs \ {j} : record'[i] = record[i]
    BY <1>1, <1>3, <2>1 DEF JobInv, Placed, JobTypes
  <2>3. ~Tracks(j)
    BY <2>2 DEF JobInv, OwnTracker, Finished
  <2>4. JobTypes' /\ OneActive'
    BY <1>1, <2>1, <2>2 DEF JobInv, JobTypes, OneActive, FindActive, Finished, Unfinished
  <2>5. Placed'
    BY <1>1, <2>2 DEF JobInv, Placed, HasRecord, Queued
  <2>6. OwnTracker' /\ OneOwner' /\ StillLeft'
    BY <1>1, <2>2, <2>3 DEF JobInv, OwnTracker, OneOwner, StillLeft, Riding, Tracks
  <2>7. FinishedShowsAll'
    BY <1>1, <2>2, <2>3 DEF JobInv, FinishedShowsAll, Tracks
  <2> QED
    BY <2>4, <2>5, <2>6, <2>7 DEF JobInv
<1> QED
  BY <1>2, <1>3

\* A record is made: others may be dropped, a finished one with its tracker.
LEMMA CreateEffect ==
  ASSUME NEW x, Create(x)
  PROVE  \E dropped \in SUBSET Jobs :
           /\ \A j \in dropped : HasRecord(j)
           /\ record' = [j \in Jobs |-> IF j = x THEN "queued"
                                        ELSE IF j \in dropped THEN "gone" ELSE record[j]]
           /\ track' = [j \in Jobs |-> IF j \in dropped /\ record[j] \in Finished THEN <<>> ELSE track[j]]
<1>1. PICK expired \in SUBSET {j \in Jobs : record[j] \in Finished} :
        LET dropped == {j \in Jobs : HasRecord(j) /\ j \notin ToSet(Prune(expired))}
        IN /\ record' = [j \in Jobs |-> IF j = x THEN "queued"
                                        ELSE IF j \in dropped THEN "gone" ELSE record[j]]
           /\ track' = [j \in Jobs |-> IF j \in dropped /\ record[j] \in Finished THEN <<>> ELSE track[j]]
  BY Zenon DEF Create
<1> DEFINE dropped == {j \in Jobs : HasRecord(j) /\ j \notin ToSet(Prune(expired))}
<1>2. dropped \in SUBSET Jobs /\ \A j \in dropped : HasRecord(j)
  OBVIOUS
<1> QED
  BY <1>1, <1>2, Zenon

LEMMA CreatePreserves ==
  ASSUME JobInv, NEW x, Create(x), UNCHANGED <<reqs, runs, queue, active>>,
         \/ x \notin Jobs /\ sending' = sending
         \/ /\ x \in Jobs /\ record[x] = "none" /\ FindActive = {}
            /\ sending' = sending \cup {x}
  PROVE  JobInv'
<1>1. PICK dropped \in SUBSET Jobs :
        /\ \A j \in dropped : HasRecord(j)
        /\ record' = [j \in Jobs |-> IF j = x THEN "queued"
                                     ELSE IF j \in dropped THEN "gone" ELSE record[j]]
        /\ track' = [j \in Jobs |-> IF j \in dropped /\ record[j] \in Finished THEN <<>> ELSE track[j]]
  BY CreateEffect
<1>2. \A j \in Jobs : /\ j = x => record[j] = "none" /\ record'[j] = "queued"
                      /\ j # x => record'[j] = IF j \in dropped THEN "gone" ELSE record[j]
  BY <1>1
<1>3. \A j \in Jobs : \/ track'[j] = track[j] /\ ~(j \in dropped /\ record[j] \in Finished)
                      \/ track'[j] = <<>>
  BY <1>1
<1>4. \A j \in Jobs : /\ Tracks(j)' => /\ Tracks(j) /\ track'[j] = track[j]
                                       /\ ~(j \in dropped /\ record[j] \in Finished)
                      /\ Riding(j)' => Riding(j) /\ track'[j] = track[j]
  BY <1>3 DEF Tracks, Riding
<1>5. JobTypes'
  <2>1. record' \in [Jobs -> {"none", "gone"} \cup Unfinished \cup Finished]
    BY <1>1 DEF JobInv, JobTypes, Unfinished
  <2>2. track' \in [Jobs -> Tracker]
    BY <1>1, NoTracker DEF JobInv, JobTypes
  <2> QED
    BY <2>1, <2>2 DEF JobInv, JobTypes
<1>6. OneActive'
  BY <1>2 DEF JobInv, OneActive, FindActive, Unfinished
<1>7. Placed'
  <2>1. ASSUME NEW j \in Jobs
        PROVE  /\ record'[j] = "none" => /\ j \notin sending' /\ ~Queued(j)' /\ j \notin active'
                                         /\ reqs'[j].step = "idle"
               /\ HasRecord(j)' =>
                   /\ j \in sending' => record'[j] = "queued" /\ ~Queued(j)'
                   /\ Queued(j)' => record'[j] = "queued"
                   /\ \A i, k \in DOMAIN queue' : queue'[i] = j /\ queue'[k] = j => i = k
                   /\ reqs'[j].step # "idle" => record'[j] = "running"
    <3>1. Queued(j)' <=> Queued(j)
      BY DEF Queued
    <3>2. CASE j = x
      BY <1>2, <3>1, <3>2 DEF JobInv, Placed, Queued
    <3>3. CASE j # x
      BY <1>2, <3>1, <3>3 DEF JobInv, Placed, HasRecord, Unfinished, Finished
    <3> QED
      BY <3>2, <3>3
  <2> QED
    BY <2>1 DEF Placed
<1>8. OwnTracker'
  <2> SUFFICES ASSUME NEW j \in Jobs, Tracks(j)' PROVE record'[j] \in Finished \/ reqs'[j].step = "ride"
    BY DEF OwnTracker
  <2>1. Tracks(j) /\ ~(j \in dropped /\ record[j] \in Finished)
    BY <1>4
  <2>2. CASE reqs[j].step = "ride"
    BY <2>2
  <2>3. CASE record[j] \in Finished
    BY <1>2, <2>1, <2>3 DEF Finished
  <2> QED
    BY <2>1, <2>2, <2>3 DEF JobInv, OwnTracker
<1>9. OneOwner' /\ StillLeft'
  BY <1>4 DEF JobInv, OneOwner, StillLeft
<1>10. FinishedShowsAll'
  BY <1>2, <1>4 DEF JobInv, FinishedShowsAll, Finished
<1> QED
  BY <1>5, <1>6, <1>7, <1>8, <1>9, <1>10 DEF JobInv

LEMMA EnqueuePreserves ==
  ASSUME JobInv, (\E j \in Jobs : Enqueue(j)) \/ OthersEnqueue
  PROVE  JobInv'
<1>1. ASSUME NEW j \in Jobs, Enqueue(j) PROVE JobInv'
  <2>1. /\ Create(j) /\ record[j] = "none" /\ FindActive = {} /\ sending' = sending \cup {j}
        /\ UNCHANGED <<reqs, runs, queue, active>>
    BY <1>1 DEF Enqueue, Unused, vars
  <2> QED
    BY <2>1, CreatePreserves
<1>2. CASE OthersEnqueue
  <2>1. Create(Other) /\ sending' = sending /\ UNCHANGED <<reqs, runs, queue, active>>
    BY <1>2 DEF OthersEnqueue, vars
  <2> QED
    BY <2>1, JobsAreRequests, CreatePreserves
<1> QED
  BY <1>1, <1>2

\* A job that has not begun to ride shows nothing.
LEMMA NothingTracked ==
  ASSUME JobInv, NEW j \in Jobs, reqs[j].step \notin {"idle", "ride"}
  PROVE  ~Tracks(j) /\ record[j] # "none" /\ (HasRecord(j) => record[j] = "running")
  BY DEF JobInv, OwnTracker, Placed, HasRecord, Finished

\* The job asks for a run; the one it starts reports to it, and to no other job.
LEMMA JobCoalescePreserves ==
  ASSUME IInv, JobInv, NEW j \in Jobs, JobCoalesce(j)
  PROVE  JobInv'
<1>1. /\ Coalesce(j) /\ UNCHANGED <<record, sending, queue, active>>
      /\ track' = IF runs' = runs THEN track
                  ELSE [track EXCEPT ![j] = [p \in reqs[j].work \X Chains |-> "pending"]]
  BY DEF JobCoalesce
<1>2. j \in Reqs /\ reqs[j] \in Request
  BY JobsAreRequests DEF IInv, Types
<1>3. reqs[j].step \in {"read", "again"}
  BY <1>1 DEF Coalesce, Asks
<1>4. ~Tracks(j) /\ record[j] # "none" /\ (HasRecord(j) => record[j] = "running")
  BY <1>3, NothingTracked
<1>5. \A i \in Jobs \ {j} : /\ reqs'[i] = reqs[i]
                            /\ reqs[i].step = "ride" => runs'[reqs[i].run] = runs[reqs[i].run]
  BY <1>1, <1>2, JobsAreRequests, CoalesceFrame
<1>6. \/ runs' = runs /\ track' = track /\ reqs'[j].step \in {"wait", "ride"}
      \/ /\ track' = [track EXCEPT ![j] = [p \in reqs[j].work \X Chains |-> "pending"]]
         /\ reqs'[j].step = "ride"
         /\ runs'[reqs'[j].run].state = "running" /\ runs'[reqs'[j].run].left = reqs[j].work
         /\ \A i \in Jobs \ {j} : reqs[i].step = "ride" => reqs[i].run # reqs'[j].run
  BY <1>1, <1>2, JobsAreRequests, CoalesceFrame
<1>7. JobTypes'
  <2>1. [p \in reqs[j].work \X Chains |-> "pending"] \in Tracker
    <3>1. reqs[j].work \X Chains \in SUBSET (Wallets \X Chains)
      BY <1>2 DEF Request
    <3>2. [p \in reqs[j].work \X Chains |-> "pending"]
            \in [reqs[j].work \X Chains -> Scan \cup {"persisting"} \cup Terminal]
      BY DEF Scan
    <3> QED
      BY <3>1, <3>2 DEF Tracker
  <2>2. track' \in [Jobs -> Tracker]
    BY <1>6, <2>1 DEF JobInv, JobTypes
  <2> QED
    BY <1>1, <2>2 DEF JobInv, JobTypes
<1>8. OneActive'
  BY <1>1 DEF JobInv, OneActive, FindActive
<1>9. Placed'
  BY <1>1, <1>4, <1>5 DEF JobInv, Placed, HasRecord, Queued
<1>10. \A i \in Jobs \ {j} : track'[i] = track[i] /\ (Tracks(i)' => Tracks(i)) /\ (Riding(i)' => Riding(i))
  BY <1>5, <1>6 DEF JobInv, JobTypes, Tracks, Riding
<1>11. CASE runs' = runs /\ track' = track
  <2>1. ~Tracks(j)' /\ ~Riding(j)'
    BY <1>4, <1>11 DEF Tracks, Riding
  <2>2. OwnTracker' /\ OneOwner' /\ StillLeft'
    BY <1>1, <1>5, <1>10, <2>1 DEF JobInv, OwnTracker, OneOwner, StillLeft, Riding
  <2>3. FinishedShowsAll'
    BY <1>1, <1>10, <2>1 DEF JobInv, FinishedShowsAll
  <2> QED
    BY <1>7, <1>8, <1>9, <2>2, <2>3 DEF JobInv
<1>12. CASE /\ track' = [track EXCEPT ![j] = [p \in reqs[j].work \X Chains |-> "pending"]]
            /\ reqs'[j].step = "ride"
            /\ runs'[reqs'[j].run].state = "running" /\ runs'[reqs'[j].run].left = reqs[j].work
            /\ \A i \in Jobs \ {j} : reqs[i].step = "ride" => reqs[i].run # reqs'[j].run
  <2>1. track'[j] = [p \in reqs[j].work \X Chains |-> "pending"]
    BY <1>12 DEF JobInv, JobTypes
  <2>2. \A p \in DOMAIN track'[j] : p[1] \in reqs[j].work
    BY <2>1
  <2>3. OwnTracker'
    BY <1>1, <1>5, <1>10, <1>12 DEF JobInv, OwnTracker
  <2>4. OneOwner'
    BY <1>5, <1>10, <1>12 DEF JobInv, OneOwner, Riding
  <2>5. StillLeft'
    BY <1>5, <1>10, <1>12, <2>2 DEF JobInv, StillLeft, Riding
  <2>6. record'[j] \notin Finished
    BY <1>1, <1>4 DEF HasRecord, Finished
  <2>7. FinishedShowsAll'
    BY <1>1, <1>10, <2>6 DEF JobInv, FinishedShowsAll
  <2> QED
    BY <1>7, <1>8, <1>9, <2>3, <2>4, <2>5, <2>7 DEF JobInv
<1> QED
  BY <1>6, <1>11, <1>12

\* The run the job waited for is over.
LEMMA JobWakePreserves ==
  ASSUME IInv, JobInv, NEW j \in Jobs, JobWake(j)
  PROVE  JobInv'
<1>1. /\ UNCHANGED <<record, sending, queue, active, track>>
      /\ Wake(j) /\ j \in Reqs
  BY JobsAreRequests DEF JobWake, jobVars
<1>2. reqs[j] \in Request /\ reqs[j].step = "wait"
  BY <1>1 DEF IInv, Types, Wake
<1>3. ~Tracks(j) /\ record[j] # "none" /\ (HasRecord(j) => record[j] = "running")
  BY <1>2, NothingTracked
<1>4. reqs'[j].step = "again" /\ \A i \in Jobs \ {j} : reqs'[i] = reqs[i]
  BY <1>1, <1>2, JobsAreRequests DEF Wake, Goes, IInv, Types, Request
<1>5. \A i \in Jobs \ {j} : Riding(i) => runs'[reqs[i].run] = runs[reqs[i].run]
  BY <1>1, JobsAreRequests, ReleaseKeeps DEF Wake, Riding, IInv, HoldsRun
<1>6. JobTypes' /\ OneActive'
  BY <1>1 DEF JobInv, JobTypes, OneActive, FindActive
<1>7. Placed'
  BY <1>1, <1>3, <1>4 DEF JobInv, Placed, HasRecord, Queued
<1>8. \A i \in Jobs : (Tracks(i)' => Tracks(i) /\ i # j) /\ (Riding(i)' => Riding(i) /\ i # j)
  BY <1>1, <1>3, <1>4 DEF Tracks, Riding
<1>9. OwnTracker' /\ OneOwner' /\ StillLeft' /\ FinishedShowsAll'
  BY <1>1, <1>4, <1>5, <1>8 DEF JobInv, OwnTracker, OneOwner, StillLeft, FinishedShowsAll
<1> QED
  BY <1>6, <1>7, <1>9 DEF JobInv

\* The job ends: its run is settled, so nothing it shows is still to be walked.
LEMMA FinishPreserves ==
  ASSUME IInv, JobInv, NEW j \in Jobs, Finish(j)
  PROVE  JobInv'
<1>1. /\ Answer(j) /\ active' = active \ {j} /\ UNCHANGED <<sending, queue>>
      /\ Update(j, IF runs[reqs[j].run].served THEN "done" ELSE "failed")
      /\ track' = IF HasRecord(j) THEN track ELSE [track EXCEPT ![j] = <<>>]
  BY DEF Finish
<1>2. j \in Reqs /\ reqs[j].step = "ride" /\ runs[reqs[j].run].state = "settled"
  BY <1>1, JobsAreRequests DEF Answer
<1>3. reqs'[j].step = "idle" /\ \A i \in Jobs \ {j} : reqs'[i] = reqs[i]
  BY <1>1, <1>2, JobsAreRequests DEF Answer, NoRequest, IInv, Types
<1>4. \A i \in Jobs \ {j} : Riding(i) => runs'[reqs[i].run] = runs[reqs[i].run]
  BY <1>1, <1>2, JobsAreRequests, ReleaseKeeps DEF Answer, Riding, IInv, HoldsRun
<1>5. record[j] # "none" /\ (HasRecord(j) => record[j] = "running")
  BY <1>2 DEF JobInv, Placed
<1>6. Tracks(j) => \A p \in DOMAIN track[j] : track[j][p] \in Terminal
  BY <1>2 DEF JobInv, StillLeft, Riding
<1>7. /\ \A i \in Jobs \ {j} : record'[i] = record[i] /\ track'[i] = track[i]
      /\ HasRecord(j) => record'[j] \in Finished /\ track'[j] = track[j]
      /\ ~HasRecord(j) => record'[j] = record[j] /\ track'[j] = <<>>
      /\ record' \in [Jobs -> {"none", "gone"} \cup Unfinished \cup Finished]
      /\ track' \in [Jobs -> Tracker]
  BY <1>1, NoTracker DEF Update, JobInv, JobTypes, Finished
<1>8. JobTypes'
  BY <1>1, <1>7, FS_RemoveElement DEF JobInv, JobTypes
<1>9. OneActive'
  BY <1>7 DEF JobInv, OneActive, FindActive, HasRecord, Finished, Unfinished
<1>10. Placed'
  <2>1. ASSUME NEW x \in Jobs
        PROVE  /\ record'[x] = "none" => /\ x \notin sending' /\ ~Queued(x)' /\ x \notin active'
                                         /\ reqs'[x].step = "idle"
               /\ HasRecord(x)' =>
                   /\ x \in sending' => record'[x] = "queued" /\ ~Queued(x)'
                   /\ Queued(x)' => record'[x] = "queued"
                   /\ \A i, k \in DOMAIN queue' : queue'[i] = x /\ queue'[k] = x => i = k
                   /\ reqs'[x].step # "idle" => record'[x] = "running"
    <3>1. Queued(x)' <=> Queued(x)
      BY <1>1 DEF Queued
    <3>2. CASE x = j
      BY <1>1, <1>3, <1>5, <1>7, <3>1, <3>2 DEF JobInv, Placed, HasRecord, Finished, Unfinished
    <3>3. CASE x # j
      BY <1>1, <1>3, <1>7, <3>1, <3>3 DEF JobInv, Placed, HasRecord
    <3> QED
      BY <3>2, <3>3
  <2> QED
    BY <2>1 DEF Placed
<1>11. \A i \in Jobs : /\ Tracks(i)' => Tracks(i) /\ (i = j => HasRecord(j)) /\ track'[i] = track[i]
                       /\ Riding(i)' => Riding(i) /\ i # j
  BY <1>3, <1>7 DEF Tracks, Riding
<1>12. OwnTracker' /\ OneOwner' /\ StillLeft'
  BY <1>3, <1>4, <1>7, <1>11 DEF JobInv, OwnTracker, OneOwner, StillLeft
<1>13. FinishedShowsAll'
  BY <1>6, <1>7, <1>11 DEF JobInv, FinishedShowsAll
<1> QED
  BY <1>8, <1>9, <1>10, <1>12, <1>13 DEF JobInv

\* Jobs put back into the queue are jobs whose handler ran.
LEMMA SetToSeqElements ==
  ASSUME NEW S, IsFiniteSet(S)
  PROVE  SetToSeq(S) \in Seq(S) /\ \A i \in DOMAIN SetToSeq(S) : SetToSeq(S)[i] \in S
<1> DEFINE n == Cardinality(S)
           f == SetToSeq(S)
<1>1. n \in Nat /\ ExistsBijection(1 .. n, S)
  BY FS_CardinalityType
<1>2. \E g \in [1 .. n -> S] : IsInjective(g)
  BY <1>1 DEF ExistsBijection, Bijection, Injection
<1>3. f \in [1 .. n -> S]
  BY <1>2, Zenon DEF SetToSeq
<1> QED
  BY <1>1, <1>3

\* The process restarts: no record is left, and what is queued once had one.
LEMMA JobsRestartPreserves ==
  ASSUME JobInv, JobsRestart
  PROVE  JobInv'
<1>1. /\ record' = [j \in Jobs |-> IF record[j] = "none" THEN "none" ELSE "gone"]
      /\ sending' = {} /\ active' = {} /\ track' = [j \in Jobs |-> <<>>]
      /\ queue' = IF dispatcher = "bull" THEN SetToSeq(active) \o queue ELSE <<>>
  BY DEF JobsRestart
<1>2. \A j \in Jobs : reqs'[j].step = "idle"
  BY JobsAreRequests DEF JobsRestart, Restart, NoRequest
<1>3. queue' \in Seq(Jobs) /\ \A j \in Jobs : Queued(j)' => j \in active \/ Queued(j)
  <2>1. CASE dispatcher # "bull"
    BY <1>1, <2>1 DEF Queued
  <2>2. CASE dispatcher = "bull"
    <3> DEFINE s == SetToSeq(active)
    <3>1. s \in Seq(active) /\ active \subseteq Jobs /\ queue \in Seq(Jobs)
      BY SetToSeqElements DEF JobInv, JobTypes
    <3>2. queue' = s \o queue
      BY <1>1, <2>2
    <3> HIDE DEF s
    <3>3. s \in Seq(Jobs) /\ \A i \in DOMAIN s : s[i] \in active
      BY <3>1
    <3>4. queue' \in Seq(Jobs)
      BY <3>1, <3>2, <3>3
    <3>5. \A i \in DOMAIN queue' : (\E k \in DOMAIN s : queue'[i] = s[k])
                                   \/ (\E k \in DOMAIN queue : queue'[i] = queue[k])
      <4> SUFFICES ASSUME NEW i \in DOMAIN queue'
                   PROVE  (\E k \in DOMAIN s : queue'[i] = s[k])
                          \/ (\E k \in DOMAIN queue : queue'[i] = queue[k])
        OBVIOUS
      <4>1. i \in 1 .. (Len(s) + Len(queue)) /\ Len(s) \in Nat /\ Len(queue) \in Nat
            /\ DOMAIN s = 1 .. Len(s) /\ DOMAIN queue = 1 .. Len(queue)
        BY <3>1, <3>2, <3>3
      <4>2. queue'[i] = IF i <= Len(s) THEN s[i] ELSE queue[i - Len(s)]
        BY <3>1, <3>2, <3>3, <4>1
      <4>3. CASE i <= Len(s)
        BY <4>1, <4>2, <4>3
      <4>4. CASE i > Len(s)
        <5>1. i - Len(s) \in DOMAIN queue /\ queue'[i] = queue[i - Len(s)]
          BY <4>1, <4>2, <4>4
        <5> QED
          BY <5>1
      <4>5. i <= Len(s) \/ i > Len(s)
        BY <4>1
      <4> QED
        BY <4>3, <4>4, <4>5
    <3> QED
      BY <3>3, <3>4, <3>5 DEF Queued
  <2> QED
    BY <2>1, <2>2
<1>4. \A j \in Jobs : ~HasRecord(j)' /\ (record'[j] = "none" => record[j] = "none")
  BY <1>1 DEF HasRecord, Unfinished, Finished
<1>5. JobTypes'
  BY <1>1, <1>3, NoTracker, FS_EmptySet DEF JobTypes
<1>6. OneActive'
  BY <1>4 DEF OneActive, FindActive, HasRecord
<1>7. Placed'
  BY <1>1, <1>2, <1>3, <1>4 DEF JobInv, Placed
<1>8. OwnTracker' /\ OneOwner' /\ StillLeft' /\ FinishedShowsAll'
  BY <1>1 DEF OwnTracker, OneOwner, StillLeft, FinishedShowsAll, Riding, Tracks
<1> QED
  BY <1>5, <1>6, <1>7, <1>8 DEF JobInv

-----------------------------------------------------------------------------
(* The theorems about the jobs.                                             *)

LEMMA JobsStepPreserves ==
  ASSUME IInv, JobInv, [JobsNext]_allVars
  PROVE  IInv' /\ JobInv'
<1>1. CASE UNCHANGED allVars
  <2>1. UNCHANGED vars /\ UNCHANGED jobVars
    BY <1>1 DEF allVars
  <2>2. UNCHANGED <<reqs, runs, track>>
    BY <2>1 DEF vars, jobVars
  <2>3. StillLeft'
    BY <2>2, RunsKept DEF JobInv
  <2> QED
    BY <2>1, <2>2, <2>3, StepPreserves, OthersPreserve
<1>2. CASE JobsNext
  <2>1. IInv'
    BY <1>2, JobsStepIsStep, StepPreserves
  <2>2. ASSUME NEW j \in Jobs, Enqueue(j) \/ Dispatched(j) \/ DispatchFails(j) \/ JobStep(j)
        PROVE  JobInv'
    BY <2>2, EnqueuePreserves, DispatchedPreserves, DispatchFailsPreserves, JobCoalescePreserves,
       JobWakePreserves, FinishPreserves DEF JobStep
  <2>3. ASSUME NEW j \in Jobs, NEW w \in Wallets,
               ChainStep(j, w) \/ \E c \in Chains : LateScan(j, w, c)
        PROVE  JobInv'
    BY <2>3, ReportPreserves, JobWalkPreserves, JobWalkFailsPreserves DEF ChainStep
  <2>4. CASE OthersEnqueue \/ Worker
    BY <2>1, <2>4, EnqueuePreserves, StartPreserves, SkipPreserves DEF Worker
  <2>5. ASSUME NEW q \in Callers, Call(q) \/ CallerGoes(q) \/ GiveUp(q) PROVE JobInv'
    BY <2>5, CallerPreserves
  <2>6. ASSUME NEW r \in Runs, RunSettles(r) \/ \E w \in Wallets : QuietWalk(r, w) PROVE JobInv'
    BY <2>6, RunSettlesPreserves, QuietWalkPreserves
  <2>7. CASE (\E w \in Wallets : Bind(w)) \/ JobsRestart
    BY <2>1, <2>7, BindPreserves, JobsRestartPreserves
  <2> QED
    BY <1>2, <2>1, <2>2, <2>3, <2>4, <2>5, <2>6, <2>7 DEF JobsNext
<1> QED
  BY <1>1, <1>2

\* The invariant that carries the results below: where a job with a record can be, whom
\* its run reports to, and that what is not terminal is still to be walked.
THEOREM JobsInductive == JobsSpec => [](IInv /\ JobInv)
<1>1. JobsInit => IInv /\ JobInv
  BY Initially, JobsInitially DEF JobsInit
<1>2. IInv /\ JobInv /\ [JobsNext]_allVars => (IInv /\ JobInv)'
  BY JobsStepPreserves
<1> QED
  BY <1>1, <1>2, PTL DEF JobsSpec

\* Whatever is pruned, delivered again or lost, for any size of the store and either
\* dispatcher: an account has one unfinished record at most (SyncJobService.enqueue(),
\* sync-job.service.ts:72-79).
THEOREM OneJobAtATime == JobsSpec => []OneActiveJob
<1>1. OneActive => OneActiveJob
  <2> SUFFICES ASSUME OneActive PROVE Cardinality(FindActive) <= 1
    BY DEF OneActiveJob
  <2>1. CASE FindActive = {}
    BY <2>1, FS_EmptySet
  <2>2. CASE FindActive # {}
    <3>1. PICK j \in FindActive : TRUE
      BY <2>2
    <3>2. FindActive = {j}
      BY <3>1 DEF OneActive
    <3>3. Cardinality(FindActive) = 1
      BY <3>2, FS_Singleton, Zenon
    <3> QED
      BY <3>3
  <2> QED
    BY <2>1, <2>2
<1> QED
  BY <1>1, JobsInductive, PTL DEF JobInv

\* A job that says it is finished shows no chain under way, however its wallets failed and
\* however late its callbacks come (SyncProgressTracker, sync-progress.ts:81-108).
THEOREM FinishedIsFinished == JobsSpec => []FinishedShowsAll
  BY JobsInductive, PTL DEF JobInv

\* The jobs with their store, queue and trackers implement the coalescing of SyncCoalesce:
\* every step of theirs is a step of the requests and runs or leaves those alone, so what
\* holds of those holds of the jobs.
THEOREM JobsImplementCoalesce == JobsSpec => Spec /\ [](SingleRun /\ ForcedByForced)
<1>1. JobsInit => Init
  BY DEF JobsInit
<1>2. IInv /\ [JobsNext]_allVars => [Next]_vars
  <2>1. UNCHANGED allVars => UNCHANGED vars
    BY DEF allVars
  <2> QED
    BY <2>1, JobsStepIsStep
<1> QED
  BY <1>1, <1>2, JobsInductive, OneRunAtATime, ForcedIsForced, PTL DEF JobsSpec, Spec
=============================================================================
