# VERA Wallet backend: TLA+ specifications

These modules specify the parts of the VERA Wallet backend in which the order of things matters: the
credential workflows with OpenDID, the walk of a wallet's history into a tax ledger, the ledger's own
upkeep (superseded rows, links between legs, cost basis), the jobs that drive it, the caches and holdings
that are served from it, and the anchoring of hashes on chain. TLC
checks them on small instances, TLAPS proves the main invariants for every instance. Paths below are
relative to `src/apps/backend/src/` unless they start with `src/`.

## 1. The system

A NestJS backend over PostgreSQL (Prisma), Redis (Bull) and external services (Alchemy, price APIs, an
Issuer and a Verifier of OpenDID, an EVM chain for anchors). It may run as several processes; within
one process JavaScript runs without preemption, so anything can happen at an `await` and nothing
between two of them.

| component | state it keeps | operations | talks to |
|---|---|---|---|
| report credentials (`report-vc/`) | `ReportVcAttempt`, `ReportVcWallet`, `ReportVcCredential`, binding cookie | link, issue (with idempotency key), verify, poll, cancel, unlink, cleanup | Issuer, Verifier, evidence and anchor records |
| OpenDID integration (`src/integrations/opendid/`) | the Issuer's offers | create offer, cancel, bind holder, issue, revoke | report credentials, the holder's phone |
| OpenDID login (`auth/opendid-*`) | `OpenDidAttempt`, cookie of the browser | offer, present (acquire, check, complete or release), cleanup | Verifier, sessions |
| sessions, CX identity (`auth/`, `identity/`) | identity verification rows | callback, issue session | OpenDID login |
| wallet challenges and bindings (`wallet/`) | nonces in memory, `WalletBinding` | challenge, bind, watch, unbind | sync, ledger, linking, anchors |
| sync runs (`indexer/indexer.service.ts`) | `SyncCursor`, `initialSyncedAt` | per binding and chain: scan, save, purge, advance cursor, anchor; then linking | chain adapter, ledger rows, anchoring |
| sync coalescing (same file) | a map of runs in flight, per account | sync, ensureInitialSync, coalesce | sync runs |
| sync jobs (`indexer/sync-job*.ts`, `sync.queue.ts`, `sync-progress.ts`) | job records in memory, Bull jobs, progress per chain | enqueue, dispatch, start, progress, settle, prune | sync coalescing |
| chain adapter (`indexer/indexer.adapters.ts`, `native-*.ts`, `spam-filter.ts`) | which native sources were refused, and when | read the head, page through transfers, recover native movements, normalize legs into events | Alchemy |
| ledger rows (`indexer/transaction.repository.adapters.ts`) | `TransactionNormalized` | save (edit-preserving), purge superseded rows, reclassify | everything that reads the ledger |
| ledger cache (same file, `cost-basis-snapshot.service.ts`, `transaction-availability.service.ts`) | snapshots per user, loads in flight, folds and prices memoized per snapshot | list, invalidate, gate, fold | readers of the ledger |
| move linking (`own-wallet-linking`, `bridge-linking`) | fields of ledger rows | own-wallet pass, bridge pass, unlinkCounterparty | ledger rows, bindings |
| cost basis (`src/packages/tax-engine/src/core/cost-basis.ts`) | none: a fold | sort, pair bridges, attribute gas, fold | tax estimates, holdings |
| tax estimates, reports, evidence | `TaxReport`, `TaxEvent`, evidence documents | estimate, generate, finalize, record | cost basis, anchoring |
| anchoring (`anchor/`, `contracts/VeraAnchor.sol`) | `AnchorRecord`, Bull jobs, the chain | submit, process (with retries), mark | evidence, reports, sync |
| portfolio (`portfolio/`) | memos of holdings per scope and of balances per wallet | load: list, fold, read balances, resolve, price | ledger cache, Alchemy, prices |
| prices, queries | caches | lookups | price APIs |

What is hard here, and what correctness means:

* **Handlers that outlive what they read.** A poll waits up to a minute for a provider while the attempt
  is cancelled, expires, is superseded or is taken by a second poll. One session per presentation, one
  link per DID, one operation per account, and nothing that has ended comes back.
* **Two systems of record.** Credentials exist here and at the Issuer, receipts here and on chain. The
  tables must not claim more than the other side did.
* **A cursor that stands for work done.** A chain's cursor says "everything below is stored, judged by these
  rules". Failing pages, failing saves, two processes, releases and unbinds must not make it a lie: the
  history it skips is never fetched again.
* **A ledger the program and the user both write.** Resyncs, purges and linking passes rewrite rows the user
  may have edited.
* **Retries.** A transaction whose receipt was lost is sent again; a job is given back after a worker's death.
* **Conservation.** Cost that travels over bridges must be neither made nor lost, in any order of legs, and a
  scan must report what a wallet gained and lost whatever pages, refunds, forged logs and fallbacks it meets.
* **Jobs in memory, queues in Redis.** A restart keeps one and loses the other; pruning forgets what is running.
* **Failures that look like answers.** A provider that fails must not read as "no token", "no market" or "no
  native movement": the user sees a smaller wealth, or the ledger a smaller disposal, and nobody is told.
* **Caches over caches.** A snapshot, a fold, a balance and an answer age separately, and loads outlive entries.

## 2. The modules

| module | models | state | actions |
|---|---|---|---|
| `ReportVc` | `report-vc.service.ts`, `report-vc.store.ts`, `report-vc.gateway.ts`, the Issuer | attempts, wallets, credentials, issuer, presented, cookie, reqs (handlers between awaits), now | one per stretch of a handler between two awaits: `Link`, `Verify`, `IssueRead`/`IssueCreate`/`IssueReplay`, `OfferAnswered`/`OfferFailed`, `Activate`, `Fail`, `Poll`, `LinkResult`…`VerifyResult`, `CompleteLink`…, `Release`, `Cancel`/`UpstreamCancel`/`StoreCancel`, `Unlink`, `Cleanup`, `Crash`, `Tick`; the phone and the Issuer: `PresentDid`, `PresentVc`, `Bind`, `IssueVc`, `Revoke` |
| `OpenDidLogin` | `opendid-login.service.ts`, `opendid-attempt.store.ts`, `issueSession()` | attempts, jar (cookies), presented, reqs, sessions, now | `Offer`/`Create`/`OfferAnswer`, `Present`, `Acquire`, `CheckVerified`/`CheckOther`, `Complete`, `Release`, `IssueSession`, `Crash`, `Cleanup`, `Tick` |
| `AttemptLifecycle` | what both stores promise of an attempt | stage, holder of the lease | the abstract specification that `ReportVc` and `OpenDidLogin` implement (`ImplementsLifecycle`) |
| `WalletSync` | `wallet-binding`, `wallet-unbind`, `runSyncWork()`, `persistChain()`, `sync-cursor.repository` | bindings, rows, cursors, runs, clients, head, rules | `Bind`, `WatchFind`/`WatchUpsert`, `UnbindFind`…`UnbindBinding`, `StartRun`, `StartBinding`, `Scan`, `SaveRow`, `Advance`, their failures, `NewBlock`, `Deploy` |
| `SyncCoalesce` | `sync()`, `ensureInitialSync()`, `coalesce()` | bound, synced (marks), reqs, runs, inflight | `Register`, `Sync`, `EnsureInitialSync`, `Coalesce`, `Wake`, `Answer`, `Timeout`, `Walk`, `WalkFails`, `Settle`, `Restart` |
| `SyncJobs` (extends `SyncCoalesce`) | `sync-job.ts`, `sync-job.service.ts`, `sync.queue.ts`, `sync-progress.ts`, the hooks of `runSyncWork()` and `persistChain()` | dispatcher, record, records (the store in order), queue, active, sending, track (progress per chain) | `Enqueue`, `Dispatched`, `DispatchFails`, `JobStep`, `ChainStep`, `LateScan`, `OthersEnqueue`, `Worker`, callers of the read path, `RunSettles`, `QuietWalk`, `Bind`, `JobsRestart` |
| `LedgerRows` | `save()`, `mergeSavedPayload()`, `planSupersededPurge()`, `reclassify()` | rows per leg and event type, the pass in progress, the edits made; histories last, forked | `StartPass`, `Save`, `SaveFails`, `Purge`, `PurgeFails`, `Reclassify` |
| `Linking` | `own-wallet-linking.service.ts`, `bridge-linking.service.ts`, the end of `unbind()` | bound, rows, sync, unbind; histories of the edits and of what disturbed them (edits, quiet, exposed, misled, unproven) | `Index`, `OwnWallets`, `OwnLedger`, `OwnWrite`, `BridgeLedger`, `BridgeOut`, `BridgeIn`, `Bind`, `Edit`, `Unbind`, `UnlinkLedger`, `UnlinkWrite`, and every failure |
| `Normalize` | `normalizeChain()`, `classifyGroup()` and below in `indexer.adapters.ts`, `spam-filter.ts` | none: operators from transfers to ledger rows | |
| `NativeRecovery` (extends `Normalize`) | `native-trace.ts`, `native-balance-diff.ts`, what the provider reports of a transaction | none: operators from transactions to synthesized transfers | |
| `ChainScan` (extends `NativeRecovery`) | `AlchemyAdapter` | world, height, now, gated, refusals, scans | `Start`, the steps of a scan (head, pages of both directions, candidates of a native source in batches, fall back, hand over, withhold), `NewBlock`, `Tick`, `Upgrade` |
| `LedgerCache` | `CachedTransactionRepository`, `TransactionAvailabilityService`, `CostBasisSnapshotService` | version, writing, snapshot, load, array (memos per rows array), reader | `Commit`, `Invalidate`, `WriteFails`, `List`, `LoadReads`, `LoadEnds`, `LoadFails`, `Gate`, `GateOpens`, `GateFails`, `Probe`, `ProbeEnds`, `Fold`, `Return` |
| `Holdings` | `AlchemyBalanceReader`, `mergeSnapshots()`, `resolveAssets()`, `priceAssets()`, `toHoldingDto()`, `walletSummary()` | none: an answer as a function of ledger, chain and providers | |
| `Portfolio` (extends both) | `PortfolioHoldingsService` | memo, balanceMemo, hload | `Call`, `WalletsRead`, `NextWallet`, `BalancesRead`, rejection and eviction, the steps of `LedgerCache`, `Tick` |
| `CostBasis` | `foldCostBasis()` | ledger, order, cells, escrow, results | `Extend`, `StartFold`, `BridgeOut`, `BridgeOutShort`, `BridgeIn`, `BridgeInEmpty`, `Exclude`, `Acquire`, `Dispose`, `Finish` |
| `Anchor` | `anchor-submission`, `anchor.service`, `anchor.queue`, `VeraAnchor.anchor()`, callers | records, txs, jobs, procs, reports; histories faults, lost | `RecordEvidence`, `Finalize`, `AnchorStored`, `Prepare`, `Enqueue`, `Start`, `Find`, `Increment`, `Send`, `Mine`, `Receipt`, `Mark`, `Catch`, `Fail`, `Crash`, and the failure of each call |

`ReportVcProofs`, `OpenDidLoginProofs`, `WalletSyncProofs`, `SyncJobsProofs` (of `SyncCoalesce` and `SyncJobs`),
`LedgerProofs` (of `LedgerRows` and `ChainScan`), `LinkingProofs`, `PortfolioProofs` (of `LedgerCache` and `Portfolio`) and
`AnchorProofs` hold the theorems. `LedgerRows` has names of its own for its specification (`RowsSpec`), so that one module can
extend it together with `ChainScan`. `MC…` modules only give
constants, symmetries and, for `ReportVc`, a state constraint for TLC. A definition whose comment begins with "Fault:" is a variant of the
definition after it with a plausible mistake; `PROJECT.json` says which property that mistake breaks.

Abstractions worth knowing:

* *ReportVc.* CX checks, the reads of evidence and anchors and the rate budget only refuse requests before
  they change anything, so a handler may simply not start. A random token is the name of the handler that
  drew it, and a handler whose name is still in a row does not start again (`FreshToken`). A deleted row
  stays in the model, marked `gone`, so that properties can speak about its past.
* *OpenDidLogin* is the Prisma store. In the in-memory store of mock mode `complete()` claims the row
  before it awaits the identity's upsert, which only removes interleavings.
* *WalletSync.* A wallet has a transfer in every block, the worst case for a skipped block. A row is the rules
  version it was judged by. The provider's answer is complete up to a head that may lag (`MaxLag`).
  Processes of different releases at the same time are not modelled: `Deploy` waits for idle processes.
* *LedgerRows.* The purge's read and its transaction are one step; two edits in flight are not modelled.
* *Linking.* The reads go through the ledger cache in the code; a stale answer is a read that happened
  earlier, and a pass may be delayed arbitrarily between its read and its writes. An edit is one step.
  Deleting the rows and the binding is one step here (`WalletSync` has them apart).
* *SyncJobs.* One account in full; jobs of other accounts only take places in the store (`OthersEnqueue`). `Chains`
  are the chains a wallet follows, and a chain's phases are pending, under way and its ends. A call that rides
  another call's run shares no progress, as in the code, and a job may end `done` with every chain failed.
  Places for runs are collected when nobody holds them, so behaviours have any number of runs. Bull's stall
  check, a lost reply of `queue.add()` and two processes on one Redis are not modelled.
* *ChainScan.* One chain and one wallet; several scans share the memory of refused sources. The three reads of
  one candidate in the balance pass are one step. The provider serves all receipts of a block alike, and no
  world has a transaction in a candidate's block that moves the wallet's coin and is no candidate (section 5).
  The mock adapter, the address tables and display labels are left out.
* *LedgerCache, Portfolio.* The ledger is its version. Continuations of settled promises are microtasks: they run
  before any reply (`Going`), and a fold is atomic. `snapshotFor()` and `holdingsFor()` are one table. Metadata is
  immutable, so its cache is no state. Rounding to eight places and display order are left out. The bound
  wallets are constant: a new wallet shows up when the memo has expired. Unknown tokens keep the order of the
  provider. The price probe of an empty ledger is not read, and its fold is empty either way.
* *CostBasis.* Any order of the sort is possible, ids are unique, amounts are whole numbers: rounding
  of decimal.js at 20 digits is not modelled. Proceeds may be negative.
* *Anchor* in contract mode. The dispatcher that processes in the caller exists in mock mode only.

## 3. The runs

Every run finishes within five minutes on two cores. A passing run also fires every action of its module.

| run | bounds | shows |
|---|---|---|
| `reportvc` | 2 accounts, 1 DID, 1 root, 3 attempts, 2 handlers, attempts and leases live 1 tick, offers 2, clock to 2 (in the last tick only behaviours of a single account with one link and up to two issues, `OneAccountLast`) | `OneActivePerAccount`, `IssuanceHolderLinked`, `CredentialIsReal`, `CancelledIsDeadUpstream`, `VerifiedIsRecorded`, `ImplementsLifecycle` |
| `opendid_login` | 2 browsers, 2 offers, 2 handlers, clock to 2, leases of 1 tick | `ConsumedOnce`, `SessionIsBrowsers`, `ImplementsLifecycle` |
| `anchor` | 1 hash, 2 jobs, 2 transactions, 2 workers, 2 attempts, any 2 faults (a call that fails, a worker that dies), fair | `AnchoredIsOnChain`, `ReceiptStable`, `OverIsSettled`, `JobSettles` |
| `walletsync` | 1 wallet, 2 binding ids, 2 processes, 1 chain, 2 blocks, 2 rules versions | `NoGap`, `JudgedByRules` |
| `walletsync_breaks` | the same, with unbinds that stop half-way | **violates** `NoGap` |
| `syncjobs` | 1 wallet, 2 jobs, 1 read-path caller, 1 chain, a store of 1 record, restarts, any number of runs, fair | `SingleRun`, `ForcedByForced`, `OneActiveJob`, `FinishedShowsAll`, `EveryJobEnds` |
| `ledgerrows` | 2 legs, 3 event types, 3 edits, any number of passes | `EditsKept`, `EditsInForce`, `NoGhosts` |
| `linking` | 2 wallets, a move between them, a bridge between two stablecoins, 1 edit | `EditsFinal`, `Healed`, `MovesAreProven` |
| `costbasis` | every ledger of up to 4 events of 15 kinds, with and without gas | `Conserved`, `PairsMove`, `GasOnce` |
| `chainscan` | every transaction of up to 3 logs of 16 kinds; every call tree of 4 kinds with every payer, value, gas price and set of refused sources; 2 or 3 transactions in 2 blocks under each kind of failure, 2 scans, pages of 1 | `FlowsTrue`, `PairsWhole`, `ForgedLegsInert`, `DegradedOnlyWhenRefused`, `RescanConverges`, `ScanEnds` |
| `chainscan_switched` | one sale, a key that may trace only from the second scan on | **violates** `SourceSwitchConverges` |
| `portfolio` | 2 loads, 3 arrays, 1 write, TTLs of 2 and 1 ticks, 2 wallets, 10 assets on 4 chains, every combination of up to 2 odd lookups | `ServedIsRecent`, `FoldsAsProbed`, `HoldingsHonest`, `EntriesKept` |

Why the bounds are enough for the questions asked. Three attempts and two handlers let a replay, a late
activation and a replacement overlap; a third handler would only add a second bystander, as every guard
relates a handler to one row. Two ticks make every expiry fall before, between and after
the steps of a handler. Attempts and leases run out together in `reportvc`: a lease taken over inside a live
attempt is left to the theorems. In `WalletSync` a gap needs a cursor above one missing block, so two blocks
and two processes suffice, and rules are compared in pairs. A leg that moves, folds and comes back uses
three event types. A store of one record makes every enqueue of another account prune a running job, and two
jobs are what a restart can leave of one account: the one in Redis and the new one. In `ChainScan` a group of
legs is classified by its sides, and three legs are enough for a side in two parts beside a refund, a forged log or
a bridge; two blocks let the head move between the directions, two candidates let one be refused while the
other is in flight, and two scans overlap in one block. In `Portfolio` a fault needs a load and one that outlives its
entry; two odd lookups let one failure hide behind another. A swap, a bridge and the acquisition they draw on fit in four events. In `Anchor` two
transactions are enough for one to be accepted and one to revert, two jobs for a retry to race a
new submission, and two faults for a worker to die twice on one job (Bull's second stall) or for a failing
database call to meet a failing attempt. `CHECK_DEADLOCK FALSE` is set where the bounded model may stop (identifiers, edits or the
clock are used up, a fold is done).

What the properties do not promise, each named in its comment: `EditsKept` and `NoGhosts` of `LedgerRows` hold while
every pass reaches its purge (`smooth`), and `EditsInForce` asks for the user's last edit of a leg only where he never
edited the leg in two rows at once (`forked`). `EditsFinal` and `MovesAreProven` of `Linking` leave out the rows in
`exposed`, `misled` and `unproven`. `OverIsSettled` and `JobSettles` of `Anchor` leave out the jobs in `lost`. `HoldingsHonest`
counts a token whose own balance failed as nothing, and takes a missing market as a reason to hide any token.
`ServedIsRecent` rests on the TTLs alone: it bounds the age of what an entry in time answers, and says nothing of a
caller still waiting for a load that outlives its entry. `FlowsTrue` holds in worlds without the two kinds of block
section 5 names. Without these conditions TLC finds the counterexamples of section 5.

Fairness. `SyncJobs!FairJobsSpec`: the worker takes what is queued, `queue.add()` returns, runs end (every call a run
makes is answered or given up: the adapter sets no time limit of its own and relies on the one of the HTTP
client), and a request that can go on again and again does. The last is strong fairness: a request that was woken
runs in a microtask, before a new request can take the entry it found free. It is not assumed that anybody asks
or that a run succeeds. `ChainScan!Spec`: the provider answers every request in some way, so a scan under way takes
another step. `Anchor!FairSpec`: a worker that is up takes jobs and goes on (Bull's poll, the timeout of the receipt
wait); mining is not assumed, a transaction may stay out for ever. In `SyncJobs` and `ChainScan` the conditions are
written as formulas over the variables that a step changes, which says the same as `WF` and `SF` of the actions named
there and spares TLC their `ENABLED`. The other modules state safety only.

## 4. The theorems

All are proved from the named assumptions on constants in the modules, for every value of them.

* **`ReportVcProofs`** — `TypeCorrect`, `AccountExclusion` (`OneActivePerAccount`), `HolderStaysLinked`
  (`IssuanceHolderLinked`), `CredentialsAreReal` (`CredentialIsReal`), `CancellationReachesIssuer`
  (`CancelledIsDeadUpstream`). None of the invariants is inductive alone. `IInv` adds `RowsOK` (nobody holds
  the cookie of a row that is still being created, an upstream id belongs to an offer that exists) and `HandlersOK`
  (what a handler carries between awaits: an expiry no later than the row's, the holder and root the Issuer froze,
  a VC the Issuer has issued). Without the first a late activation could revive an expired attempt next to a new
  one; without the second a completed poll could record a credential the Issuer never issued. Lemmas: one per
  action, on top of facts about writing one row (`RowWrite`, `RowUpdateKeeps`, `CompletesRow`).
  Two more rest on it. `RefinementTheorem` (`ImplementsLifecycle`): every step is quiet for the lifecycle, opens an
  attempt or completes one (lemma `Effects`), and each of the three is a step of `AttemptLifecycle` or a stutter.
  `VerifiedTheorem` (`VerifiedIsRecorded`), which needs `ResultsRecorded`: a handler that
  is about to store "verified" has found the credential, and no step takes a credential out of the table.
* **`OpenDidLoginProofs`** — `ConsumedOnceTheorem` (`ConsumedOnce`), `SessionTheorem` (`SessionIsBrowsers`), `RefinementTheorem`
  (`ImplementsLifecycle`), for any browsers, offers, handlers, lease and clock. `IInv` adds `ReqsOK` (what a handler knows
  between awaits: whose attempt it works on, that the holder it carries was presented, that its attempt is consumed
  when it is about to sign), `JarOK` (a cookie holds a secret of its own browser), `OneSigner` (an attempt is
  signed for by one handler, which has not signed yet) and `Chained`. Without `OneSigner` two handlers that outlive
  each other's lease could each sign a session for one presentation.
* **`AnchorProofs`** — `AnchoredTheorem` (`AnchoredIsOnChain`), for both modes; `SealedTheorem` and `ReceiptTheorem`
  (`ReceiptStable`) with the contract (`Contract`): in self-send mode a retry may replace a receipt, see
  section 5; `SettledTheorem` (`OverIsSettled`). What a worker has learned from the chain stays true until it writes it down, because the chain takes
  nothing back (`ProcsOK`, `ChainKeeps`); that two workers which both saw a success write the same receipt is the
  contract's doing (`SealedOnce`). `OverIsSettled` relates the attempts Bull counts to those the record counts.
* **`WalletSyncProofs`** — `NothingIsSkipped` (`NoGap`), for any number of processes, chains and blocks and any lag, under
  `~Overlap` and `~Breaks` (no unbind overlaps a sync or stops half-way). `IInv` adds `Exclusive`, `RunsOK`, `WalksOK` (below the start of a walk everything is
  stored; up to its head every block is stored, left out rightly, or still to do) and `ClientsOK` (an
  unbind has deleted what it says). `WalksOK` is what survives a second process deleting nothing and raising
  the cursor meanwhile. The two hypotheses are needed: see section 5. `RulesAreHonest` (`JudgedByRules`) also asks
  that a provider answers up to the block it announced (`MaxLag = 0`), without which it is false. It adds
  `JudgedWalks` (a walk leaves behind it rows of the rules it started under) and `NotAhead` (no cursor names rules
  newer than those deployed).
* **`SyncJobsProofs`** — `OneRunAtATime` (`SingleRun`), `ForcedIsForced` (`ForcedByForced`), for any number of
  requests and runs, with restarts of the process. `ForcedByForced` needs `HoldsRun`: a request only holds runs
  that were started, and a started run keeps its mode. The place of a run is collected when its last request
  lets go of it, so the proof also shows that no place is given away under a request that still looks at it.
  `JobsImplementCoalesce`: with the hooks of the jobs around it, every step of `SyncJobs` is still a step of `SyncCoalesce` or a
  stutter. On top of it `OneJobAtATime` (`OneActiveJob`) and `FinishedIsFinished` (`FinishedShowsAll`), for any jobs, chains, size
  of the store and either dispatcher. `JobInv` adds `Placed` (where the job of each record can be: sent, queued, active or
  over), `OwnTracker` and `OneOwner` (a run reports its chains to one job at most), and `StillLeft` (a chain not at its end
  belongs to a wallet the run has still to walk). Without `OneOwner` a job could finish while another one's run goes on
  writing its chains.
* **`LedgerProofs`**, rows — `EditsKeptTheorem` (`EditsKept`), `EditsInForceTheorem` (`EditsInForce`), `NoGhostsTheorem` (`NoGhosts`), for
  any legs, event types, edits and passes. `BeforePurge` is what makes them inductive: between `save()` and the purge of an
  undisturbed pass a leg has its new row and at most one other, and then nobody has edited the new one, so the
  purge carries the one edit there is over to it. For `EditsInForce`, which no failure suspends, `ForceInv` follows the last edit
  of each leg: some row carries an edit as soon as there was one, and only the last one unless the leg is in `forked`.
* **`LedgerProofs`**, scans — `SourcesInOrder` (`DegradedOnlyWhenRefused`), for any worlds, scans, candidates, workers, retries and
  clock. `ChainInv` adds `BlocksOk` (a block that is in force stands on a refusal exactly one re-probe window before its
  end, by whichever scan) and, per scan, `Passed` (every source before its own was refused in time) and the halted trace
  (its refusal is of this very moment, so that the block it sets in `EndTrace` is honest). It uses `ChainScanAssumption`: the
  registry lists a chain's sources, each once, and the re-probe window is not empty. As in the runs, the clock counts in
  hours and stands still between a refusal and the choice of the next source (`Tick`); in milliseconds the window begins
  when the last request under way has returned, so the bound is off by that long.
* **`PortfolioProofs`** — `ServedInTime` (`ServedIsRecent`), `FoldsHonourProbes` (`FoldsAsProbed`), `EntriesStay` (`EntriesKept`), for any
  TTLs and load times, any reads, arrays, writes, wallets and scopes. How old an answer is takes a chain of bounds:
  what a load saw was superseded during the load at the earliest (`LoadIsRecent`), a snapshot in time is older than that by its
  age (`SnapshotAge`), the rows of a load that fills a memo are bounded against the age of the memo's entry and not their
  own (`ListedRecent`), because the entry is made before the ledger is asked, and so is the answer (`AnswersRecent`).
  `EntriesStay` is an action property: of all the steps, only the rejection of an entry's own load takes it out in
  time, which is what the identity checks before `delete` are for. The assumptions are about the encoding (`None` is
  no reader, array or entry), that the TTLs are positive, and that the bound wallets are a sequence.
* **`LinkingProofs`** — `EditsFinalTheorem` (`EditsFinal`), `MovesTheorem` (`MovesAreProven`), `HealedTheorem` (`Healed`), for any
  wallets, legs, transfer data, fee bands and windows. What a pass writes is decided when it reads the ledger, so `IInv` says what
  each planned write still knows when it is done: it carries no edit and overwrites none outside `exposed` and
  `misled` (`Harmless`), it is a move to a wallet the pass has read, or a bridge (`SyncOK`), the legs of a wallet unbound
  since are named (`WalletsRead`), and an unproven move is one the unbind under way will revert (`Unlinks`).
  `MovesAreProven` uses `TransferAssumption`: two legs of one transfer are its sender's and its receiver's, because a
  wallet's own transfers are merged by their id (`indexer.adapters.ts:754-761`). For `Healed`, `Healing` says that the plan of
  undisturbed passes is what the ledger lacks: row by row of the own-wallet pass (`Owning`), pair by pair of the
  bridge pass (`Bridging`), where isolated pairs share no row and a written row changes no other pair. A link may land on
  the other row of its transfer, but only on one the user has edited, since two rows nobody edited would be a move or
  no isolated pair (`TwoRows`, `Alone`): then the pair is one no more, what is left of its writes concerns no other
  (`Astray`), and the other pairs stay (`StrayWrite`).

Only model-checked:

* liveness (`JobSettles`, `EveryJobEnds`, `ScanEnds`): the prover has no support for fairness or `ENABLED`;
* `Conserved`, `PairsMove` and `GasOnce` of `CostBasis`: sums over the ledger and the flattened order of the fold, for ledgers
  of every length, need induction over data;
* `FlowsTrue`, `PairsWhole`, `ForgedLegsInert` and `RescanConverges` of `ChainScan`: sums and selections over the legs of a
  transaction, and a fold over the saved batches, for the same reason;
* `HoldingsHonest` of `Portfolio`: the merged snapshots are folds over chains and tokens.

## 5. Where the code and its promises part

With a run:

* `walletsync_breaks`: an unbind that fails between deleting rows and deleting cursors (`wallet-unbind.service.ts:44-45`)
  leaves cursors without rows. Its comment says the cursor is gone in that case. The next sync starts at the
  cursor and the deleted history stays missing.
* `chainscan_switched`: a native movement recovered from balances is stored as `…:balance:0`; when the trace source
  opens later and the chain is walked again, the same movement is stored as `…:internal:<path>` too
  (`indexer.adapters.ts:656`). Nothing purges the first row, so the ledger counts the movement twice, although a
  re-sync "must CONVERGE, not accumulate ghost rows" (`transaction.repository.adapters.spec.ts:48`).

Without a run of their own, found by TLC with other constants or stronger properties, or met while modelling:

* `WalletSync`, `MaxLag = 1`: a re-walk under new rules reads a node that lags behind the recorded block; block
  and rules version are raised independently (`sync-cursor.repository.adapters.ts:52-53`), so the cursor claims the
  new rules for blocks not walked again (`JudgedByRules`).
* `WalletSync`, `Overlap = TRUE`: a sync that read its bindings before an unbind writes its cursor between the
  unbind's steps (`indexer.service.ts:316`); rows are gone and the cursor stays (`NoGap`).
* `WalletSync`: `watch()` finds no binding, `bind()` verifies the address, and the upsert of `watch()` turns it back to
  watch-only (`wallet-binding.service.ts:36`).
* `SyncCoalesce`: a wallet registered after an "all" run read its bindings is answered by that run without
  being walked (`indexer.service.ts:100-101` calls it a superset).
* `SyncCoalesce`: a forced request that waited for a bootstrap marks `initialSyncedAt` again, because it judges by
  the binding it read before it waited (`indexer.service.ts:218`).
* `Anchor`: a rejected enqueue of one submission, or a failing read of `anchorStored()`, marks a record failed that another
  one anchored meanwhile (`markFailed()` is unconditional, `anchor.service.ts:30`). The receipt is kept, and a later
  submission finds the hash on chain.
* `Anchor`: a database call outside the `try` of `process()` that fails (`anchor.service.ts:19`, `:23`), or a failing read or
  write of the last `catch` (`:29`, `:30`), costs a Bull attempt the record does not hear of; at a second stall Bull fails
  the job by itself. The record is then pending for ever, and every later sync skips it (`OverIsSettled` without `lost`).
* `Anchor` with `Contract = FALSE`: self-send mode sends a hash twice after a lost receipt.
* `LedgerRows`: when a purge failed and the user edited both rows of a leg, the next purge carries the stale row's
  edit over the survivor's (`transaction.repository.adapters.ts:94-104`), also when the survivor's is the later one
  (`EditsInForce` without `forked`).
* `Linking`: a move between two bound wallets of which only one leg is stored has no `own:` key
  (`own-wallet-linking.service.ts:106`), so the bridge pass may pair it with an unrelated OUT, which then counts as
  tax-free; from then on each sync writes the leg back and forth (`indexer.service.ts:236-240`).
* `Linking`: "a user edit is final" (`own-wallet-linking.service.ts:48`) has two exceptions. An edit made between a pass's
  read and its write of that row is overwritten (`EditsFinal` without `exposed`). And the bridge pass finds its row by
  `payload.id` (`bridge-linking.service.ts:291`), which both rows of a move between two wallets carry: when one of them was
  edited the other is one-sided, and a bridge link of it may land on the edited row, payload, edit and all (`EditsFinal`
  without `misled`). The payload is then in two rows, which no later pass links again, and the edited leg's is gone.
* `Linking`: an unbind that meets an own-wallet pass, or whose last step fails, leaves moves that no later
  pass reverts (`MovesAreProven` without `unproven`).
* `LedgerCache`: a load that read the database before a write installs its rows after the write has emptied the
  cache, and a write that throws half-way empties nothing; "읽기는 항상 최신을 본다" (reads always see the latest,
  `transaction.repository.adapters.ts:254-255`) holds up to the TTL and the time of a load only, which is what
  `ServedIsRecent` bounds.
* `Holdings`: a token whose own balance is an error or no number is skipped, in one wallet or in all, and no mark tells
  (`balance-reader.adapters.ts:170-173`; its comment at 38-39 says that the caller withholds the chain): a holding is missing,
  or short by one wallet's part, without a trace (`Readable` is what `HoldingsHonest` counts instead).
* `Holdings`: a token without a market is dropped as one "the wallet never traded" (`holdings.service.ts:317`), which the
  filter does not check: one the ledger knows is dropped too (`Verdict`).
* `ChainScan`: a transaction that is no candidate and moves the wallet's coin in a candidate's block is attributed to
  the candidate (`native-balance-diff.ts:14-16`, `:175`); of two candidates in one block, one that drops out beyond the
  archive depth leaves the other with the change of both (`indexer.adapters.ts:569`). The worlds of the run leave
  both out.

## 6. Not modelled

* Rate budgets and wallet challenges: maps in memory without an await between check and update; they only refuse.
* Report-credential policy, tax estimates, the Merkle root: pure functions of documents and numbers.
* Presentation and queries: no state.
* Prices (`historical-price-*`, `native-price-backfill`, `price-oracle`): best-effort lookups. What a lookup answers is an
  input of `Holdings`, `LedgerCache` and `CostBasis`; their own caches, rate limits and schedule are not modelled.
* CX callbacks and JWTs (stateless conversions), the mock adapters, infrastructure.

`PROJECT.json` lists every component with its status.

## 7. Plan

Done, in the order of importance: `ReportVc` with its proofs, `OpenDidLogin` and the common lifecycle, `Anchor`, `WalletSync`
and `SyncCoalesce` with their proofs, `LedgerRows`, `CostBasis`, `Linking`, `SyncJobs`, `ChainScan` with `Normalize` and
`NativeRecovery`, `LedgerCache` with `Holdings` and `Portfolio`.

Next modules: the price enrichment with its single-flight lookups and negative caches; `ChainScan` as an implementation of the
`Scan` step of `WalletSync`.

Next theorems: what is left needs lemmas about sums and selections over sequences (section 4); the first would be that a step
of the fold changes the sums of `Conserved` by what it moves.
