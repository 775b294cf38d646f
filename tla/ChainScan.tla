------------------------------ MODULE ChainScan ------------------------------
(***************************************************************************)
(* Scans of one wallet on one chain by the Alchemy adapter                 *)
(* (indexer.adapters.ts): the head is read once, then the two directions   *)
(* page by page, then the native movements the Transfers API leaves out,   *)
(* then everything is normalized and handed over as one batch, which the   *)
(* caller upserts.  Any failure withholds the whole chain; a native source *)
(* that the API key may not use steps aside for the next one and is not    *)
(* asked again for a while.                                                *)
(*                                                                         *)
(* Several scans share the adapter's memory of refused sources.  The       *)
(* provider answers, refuses, or fails in the ways world.faults names.     *)
(***************************************************************************)
EXTENDS NativeRecovery

CONSTANTS
  Worlds,             \* what the chain holds and how the provider behaves
  Scans,              \* the scans, numbered
  PageSize,           \* transfers on a page
  MaxPages,           \* MAX_PAGES
  RateLimitRetries,   \* RATE_LIMIT_RETRIES
  Concurrency,        \* TRACE_CONCURRENCY, BALANCE_DIFF_CONCURRENCY
  Reprobe,            \* NATIVE_SOURCE_REPROBE_MS
  MaxNow              \* bound of the clock

Sources == {"alchemy-debug", "balance-diff"}

\* The registry lists the native sources of a chain, each once (nativeSources).
ASSUME ChainScanAssumption ==
  /\ \A w \in Worlds : w.sources \in Seq(Sources) /\ IsInjective(w.sources)
  /\ Reprobe \in Nat \ {0}
  /\ None \notin Sources

VARIABLES
  world,      \* [txs, internal, sources, gated, faults, scans, start, top]
  height,     \* the chain's head
  now,
  gated,      \* sources the API key may not use
  blocked,    \* nativeSourceBlockedUntil
  refusals,   \* history: <<source, time>> of the provider's refusals
  scans,
  saved       \* the scans whose batches the caller has saved, in that order

vars == <<world, height, now, gated, blocked, refusals, scans, saved>>

Idle ==
  [pc |-> "idle", since |-> 0, head |-> 0, pages |-> 0, tries |-> 0, inbound |-> <<>>, outbound |-> <<>>,
   next |-> 1, source |-> None, asked |-> 0, todo |-> <<>>, flight |-> <<>>, done |-> {}, lost |-> {},
   halt |-> FALSE]

Init ==
  /\ world \in Worlds
  /\ height = world.start
  /\ now = 0
  /\ gated = world.gated
  /\ blocked = [source \in Sources |-> 0]
  /\ refusals = {}
  /\ scans = [s \in Scans |-> Idle]
  /\ saved = <<>>

TxOf(hash) == CHOOSE tx \in world.txs : tx.hash = hash
TxsOf(hashes) == {TxOf(h) : h \in hashes}
May(fault) == fault \in world.faults
Become(s, r) == scans' = [scans EXCEPT ![s] = r]
KeepRest == UNCHANGED <<world, height, now, gated, blocked, refusals, saved>>

-----------------------------------------------------------------------------
(* fetchTransactions: the start of a scan, from the cursor or from genesis. *)

Cursor == Max({0} \cup {scans[s].head : s \in {t \in Scans : scans[t].pc = "done"}})

Start(s) ==
  /\ scans[s].pc = "idle"
  /\ s <= world.scans
  /\ \E since \in {0, Cursor} : Become(s, [Idle EXCEPT !.pc = "head", !.since = since])
  /\ KeepRest

\* Fault: the attempts of one request are not counted up to the limit.
RetryUncounted(s) ==
  /\ scans[s].pc \in {"head", "in", "out"}
  /\ May("busy")
  /\ Become(s, [scans[s] EXCEPT !.tries = (@ + 1) % 2])
  /\ KeepRest

\* rpcPost: a rate limit or a gateway error is retried.
Retry(s) ==
  /\ scans[s].pc \in {"head", "in", "out"}
  /\ May("busy")
  /\ scans[s].tries < RateLimitRetries
  /\ Become(s, [scans[s] EXCEPT !.tries = @ + 1])
  /\ KeepRest

\* A busy answer after the last attempt, an HTTP or RPC error, a body of the wrong shape: the chain is withheld.
Withhold(s) ==
  /\ scans[s].pc \in {"head", "in", "out"}
  /\ May("error") \/ (May("busy") /\ scans[s].tries = RateLimitRetries)
  /\ Become(s, [scans[s] EXCEPT !.pc = "withheld"])
  /\ KeepRest

FetchChainHead(s) ==
  /\ scans[s].pc = "head"
  /\ Become(s, [scans[s] EXCEPT !.pc = "in", !.head = height, !.tries = 0])
  /\ KeepRest

-----------------------------------------------------------------------------
(* fetchDirection: the pages of one direction, up to the head read before.  *)

\* Fault: each direction is read up to the head of its own moment.
HorizonLatest(s) == height

\* The last block both directions ask for.
Horizon(s) == scans[s].head

Hashes(low, high) == SetToSortSeq({tx.hash : tx \in {t \in world.txs : t.block \in low..high}}, <)

\* What the provider holds for one direction, oldest first.
Listing(s, dir) ==
  LET hashes == Hashes(scans[s].since, Horizon(s))
      all == FlattenSeq([i \in DOMAIN hashes |-> Reported(TxOf(hashes[i]), world.internal)])
  IN  SelectSeq(all, LAMBDA t : IF dir = "in" THEN t.to = Wallet ELSE t.from = Wallet)

Collected(s) == IF scans[s].pc = "in" THEN scans[s].inbound ELSE scans[s].outbound

\* The scan with its direction's transfers, ready for the next page or the next stage.
WithTransfers(s, transfers, last) ==
  [scans[s] EXCEPT
     !.inbound  = IF scans[s].pc = "in" THEN transfers ELSE @,
     !.outbound = IF scans[s].pc = "out" THEN transfers ELSE @,
     !.tries = 0,
     !.pages = IF last THEN 0 ELSE @ + 1,
     !.pc = CASE last /\ @ = "in"                -> "out"
              [] last /\ @ = "out"               -> "recover"
              [] ~last /\ scans[s].pages + 1 = MaxPages -> "withheld"
              [] OTHER                           -> @]

\* A page: the next transfers, one of which may be unreadable, and a key unless it is the last.
Page(s) ==
  /\ scans[s].pc \in {"in", "out"}
  /\ LET all  == Listing(s, scans[s].pc)
         got  == Len(Collected(s))
         upto == Min({got + PageSize, Len(all)})
         page == SubSeq(all, got + 1, upto)
     IN  \/ Become(s, WithTransfers(s, Collected(s) \o page, upto = Len(all)))
         \/ /\ May("spoiled")
            /\ \E i \in DOMAIN page :
                 Become(s, WithTransfers(s, Collected(s) \o [page EXCEPT ![i].bad = TRUE], upto = Len(all)))
  /\ KeepRest

\* A page key seen before is no proof that the list ended.
RepeatedKey(s) ==
  /\ scans[s].pc \in {"in", "out"}
  /\ May("repeat")
  /\ scans[s].pages > 0
  /\ Become(s, [scans[s] EXCEPT !.pc = "withheld"])
  /\ KeepRest

-----------------------------------------------------------------------------
(* recoverNativeLegs: the sources of the chain in order, over the           *)
(* transactions in which a contract had to be involved.                     *)

CandidatesIn(observed) ==
  LET worth(t) == /\ ~t.bad
                  /\ t.category \in {"erc20", "erc721", "erc1155"} \/ (t.category = "external" /\ t.from = Wallet)
  IN  SetToSortSeq({observed[i].hash : i \in {j \in DOMAIN observed : worth(observed[j])}}, <)

NativeCandidates(s) == CandidatesIn(scans[s].inbound \o scans[s].outbound)

IsSourceUnavailable(source) == now < blocked[source]

\* Some workers take the first candidates, the rest waits.
Batch(r, pc, hashes) ==
  LET n == Min({Concurrency, Len(hashes)})
  IN  [r EXCEPT !.pc = pc, !.done = {}, !.halt = FALSE,
                !.flight = [h \in ToSet(SubSeq(hashes, 1, n)) |-> 0],
                !.todo = SubSeq(hashes, n + 1, Len(hashes))]

RecoverNativeLegs(s) ==
  /\ scans[s].pc = "recover"
  /\ LET r     == scans[s]
         cands == NativeCandidates(s)
         open  == {k \in r.next..Len(world.sources) : ~IsSourceUnavailable(world.sources[k])}
         k     == Min(open)
         first == IF r.source = None THEN now ELSE r.asked
     IN  IF cands = <<>> \/ open = {}
         THEN Become(s, [r EXCEPT !.pc = "hand", !.source = None, !.asked = first])
         ELSE Become(s, Batch([r EXCEPT !.next = k, !.source = world.sources[k], !.asked = first],
                              IF world.sources[k] = "alchemy-debug" THEN "trace" ELSE "receipts", cands))
  /\ KeepRest

\* A worker is done with a candidate and takes the next one, unless the source was refused meanwhile.
Refill(r, hash) ==
  LET left == DOMAIN r.flight \ {hash}
      more == r.todo # <<>> /\ ~r.halt
  IN  [r EXCEPT !.flight = [h \in left \cup (IF more THEN {Head(r.todo)} ELSE {}) |->
                              IF h \in left THEN r.flight[h] ELSE 0],
                !.todo = IF more THEN Tail(@) ELSE @]

Asking(s, hash) ==
  /\ scans[s].pc \in {"trace", "receipts", "diff"}
  /\ hash \in DOMAIN scans[s].flight

\* Whether one of these candidates is in the same block: the provider serves a block's state or does not.
SameBlock(hash, hashes) == \E h \in hashes : TxOf(h).block = TxOf(hash).block

Answered(s, hash) ==
  /\ Asking(s, hash)
  /\ scans[s].source \notin gated
  /\ ~SameBlock(hash, scans[s].lost)
  /\ Become(s, Refill([scans[s] EXCEPT !.done = @ \cup {hash}], hash))
  /\ KeepRest

AnsweredBusy(s, hash) ==
  /\ Asking(s, hash)
  /\ May("busy")
  /\ scans[s].flight[hash] < RateLimitRetries
  /\ Become(s, [scans[s] EXCEPT !.flight[hash] = @ + 1])
  /\ KeepRest

\* Fault: any failure of a read makes the source step aside.
AnsweredErrorSteps(s, hash) ==
  /\ Asking(s, hash)
  /\ May("error") \/ (May("busy") /\ scans[s].flight[hash] = RateLimitRetries)
  /\ Become(s, [scans[s] EXCEPT !.pc = "recover", !.next = @ + 1, !.flight = <<>>, !.todo = <<>>])
  /\ KeepRest

\* Any other failure, an unusable answer included, withholds the chain; the other workers run on in vain.
AnsweredError(s, hash) ==
  /\ Asking(s, hash)
  /\ \/ May("error")
     \/ May("busy") /\ scans[s].flight[hash] = RateLimitRetries
     \/ May("archive") /\ scans[s].pc = "trace"
  /\ Become(s, [scans[s] EXCEPT !.pc = "withheld", !.flight = <<>>, !.todo = <<>>, !.halt = FALSE])
  /\ KeepRest

\* The provider does not serve the state of that block: the candidate drops out.
AnsweredArchive(s, hash) ==
  /\ Asking(s, hash)
  /\ scans[s].pc # "trace"
  /\ May("archive")
  /\ ~SameBlock(hash, scans[s].done)
  /\ Become(s, Refill([scans[s] EXCEPT !.lost = @ \cup {hash}], hash))
  /\ KeepRest

MarkSourceUnavailable(source) == blocked' = [blocked EXCEPT ![source] = now + Reprobe]

\* The method is not available to this key.  A trace pass waits for the requests under way; a balance pass
\* ends at once.
AnsweredRefusal(s, hash) ==
  /\ Asking(s, hash)
  /\ scans[s].source \in gated
  /\ refusals' = refusals \cup {<<scans[s].source, now>>}
  /\ IF scans[s].pc = "trace"
     THEN /\ Become(s, Refill([scans[s] EXCEPT !.halt = TRUE, !.todo = <<>>], hash))
          /\ UNCHANGED blocked
     ELSE /\ Become(s, [scans[s] EXCEPT !.pc = "recover", !.next = @ + 1, !.flight = <<>>, !.todo = <<>>])
          /\ MarkSourceUnavailable(scans[s].source)
  /\ UNCHANGED <<world, height, now, gated, saved>>

\* The trace is all or nothing.
EndTrace(s) ==
  /\ scans[s].pc = "trace"
  /\ scans[s].flight = <<>>
  /\ IF scans[s].halt
     THEN /\ MarkSourceUnavailable("alchemy-debug")
          /\ Become(s, [scans[s] EXCEPT !.pc = "recover", !.next = @ + 1, !.halt = FALSE])
     ELSE /\ Become(s, [scans[s] EXCEPT !.pc = "hand"])
          /\ UNCHANGED blocked
  /\ UNCHANGED <<world, height, now, gated, refusals, saved>>

\* The receipts decide which candidates a balance can be attributed to.
EndReceipts(s) ==
  /\ scans[s].pc = "receipts"
  /\ scans[s].flight = <<>>
  /\ LET usable == {tx.hash : tx \in SelectUnambiguousCandidates(TxsOf(scans[s].done))}
     IN  Become(s, Batch(scans[s], "diff", SelectSeq(NativeCandidates(s), LAMBDA h : h \in usable)))
  /\ KeepRest

EndDiff(s) ==
  /\ scans[s].pc = "diff"
  /\ scans[s].flight = <<>>
  /\ Become(s, [scans[s] EXCEPT !.pc = "hand"])
  /\ KeepRest

-----------------------------------------------------------------------------
(* The batch.                                                              *)

\* Fault: recovered movements are numbered within the window that was asked for.
RecoveredByWindow(s) ==
  LET hashes == IF scans[s].source = None THEN <<>>
                ELSE SelectSeq(NativeCandidates(s), LAMBDA h : h \in scans[s].done)
      legs(h) == IF scans[s].source = "alchemy-debug"
                 THEN TraceLegs(TxOf(h))
                 ELSE RecoverBalanceDiffLeg(TxOf(h), BalanceAt(world.txs, TxOf(h).block - 1), BalanceAt(world.txs, TxOf(h).block))
      all == FlattenSeq([i \in DOMAIN hashes |-> legs(hashes[i])])
  IN  [i \in DOMAIN all |-> [all[i] EXCEPT !.uid = <<all[i].hash, "internal", 10 * scans[s].since + i>>]]

\* The transfers that the source in charge recovered.
Recovered(s) ==
  LET hashes == IF scans[s].source = None THEN <<>>
                ELSE SelectSeq(NativeCandidates(s), LAMBDA h : h \in scans[s].done)
      legs(h) == LET tx == TxOf(h)
                 IN  IF scans[s].source = "alchemy-debug"
                     THEN TraceLegs(tx)
                     ELSE RecoverBalanceDiffLeg(tx, BalanceAt(world.txs, tx.block - 1), BalanceAt(world.txs, tx.block))
  IN  FlattenSeq([i \in DOMAIN hashes |-> legs(hashes[i])])

Transfers(s) == scans[s].inbound \o scans[s].outbound \o Recovered(s)

\* The rows of the batch, a function of what the scan collected.
Rows(s) == NormalizeChain(Transfers(s))

\* Upsert by leg and event type, then delete the rows of legs that now have another type or were absorbed.
Upsert(stored, rows) ==
  LET emitted  == {r.id : r \in rows}
      absorbed == UNION {r.netted : r \in rows}
  IN  {r \in stored : r.id \notin emitted \cup absorbed} \cup rows

\* The ledger's rows of this wallet and chain.
Stored == FoldLeft(LAMBDA stored, s : Upsert(stored, Rows(s)), {}, saved)

\* normalizeChain and onChain, or the chain is withheld because a transfer does not parse.
Hand(s) ==
  /\ scans[s].pc = "hand"
  /\ IF \E i \in DOMAIN (scans[s].inbound \o scans[s].outbound) : Unusable((scans[s].inbound \o scans[s].outbound)[i])
     THEN Become(s, [scans[s] EXCEPT !.pc = "withheld"]) /\ UNCHANGED saved
     ELSE Become(s, [scans[s] EXCEPT !.pc = "done"]) /\ saved' = Append(saved, s)
  /\ UNCHANGED <<world, height, now, gated, blocked, refusals>>

-----------------------------------------------------------------------------
NewBlock ==
  /\ height < world.top
  /\ height' = height + 1
  /\ UNCHANGED <<world, now, gated, blocked, refusals, scans, saved>>

\* The clock counts in hours: it does not move between a refusal and the choice of the next source, and only
\* chains with native sources look at it.
Tick ==
  /\ now < MaxNow
  /\ world.sources # <<>>
  /\ \A s \in Scans : ~scans[s].halt /\ scans[s].pc # "recover"
  /\ now' = now + 1
  /\ UNCHANGED <<world, height, gated, blocked, refusals, scans, saved>>

\* A plan upgrade opens every source.
Upgrade ==
  /\ gated # {}
  /\ May("upgrade")
  /\ gated' = {}
  /\ UNCHANGED <<world, height, now, blocked, refusals, scans, saved>>

Progress(s) ==
  \/ Retry(s) \/ Withhold(s) \/ FetchChainHead(s) \/ Page(s) \/ RepeatedKey(s)
  \/ RecoverNativeLegs(s) \/ EndTrace(s) \/ EndReceipts(s) \/ EndDiff(s) \/ Hand(s)
  \/ \E hash \in DOMAIN scans[s].flight :
       \/ Answered(s, hash) \/ AnsweredBusy(s, hash) \/ AnsweredError(s, hash)
       \/ AnsweredArchive(s, hash) \/ AnsweredRefusal(s, hash)

Next ==
  \/ \E s \in Scans : Start(s) \/ Progress(s)
  \/ NewBlock \/ Tick \/ Upgrade

Resting(s) == scans[s].pc \in {"idle", "done", "withheld"}

\* The provider answers every request, in whatever way: a scan that is under way takes another step.  This is weak
\* fairness of Progress(s), which is enabled exactly when the scan does not rest, without ENABLED.
Answers(s) == []<>Resting(s) \/ []<><<scans[s]' # scans[s]>>_vars

Spec == Init /\ [][Next]_vars /\ \A s \in Scans : Answers(s)

-----------------------------------------------------------------------------
(* Properties.                                                             *)

Signed(dir, amount) == IF dir = "IN" THEN amount ELSE -amount

\* What rows, or legs, say a transaction did to the wallet's holding of an asset.
Flow(items, hash, asset) ==
  MapThenSumSet(LAMBDA r : Signed(r.dir, r.amount),
                {r \in items : r.hash = hash /\ r.asset = asset /\ ~r.self})

\* What the transaction did according to its logs, its top-level value and nothing else.
Visible(tx, asset) == Flow(ToSet(LegsOf(Reported(tx, FALSE))), tx.hash, asset)

\* The readings of a transaction that are true: every asset moved as the chain says; of the native coin the
\* inner movements are in or, where no source may list them, left out as a whole.
TrueFlow(rows, tx, exact) ==
  /\ \A asset \in {r.asset : r \in {q \in rows : q.hash = tx.hash}} \cup AssetsOf(LegsOf(Reported(tx, FALSE))) :
       asset # Native => Flow(rows, tx.hash, asset) = Visible(tx, asset)
  /\ LET native == Flow(rows, tx.hash, Native) - Visible(tx, Native)
     IN  native = InternalFlow(tx) \/ (~exact /\ native = 0)

Handed == {s \in Scans : scans[s].pc = "done"}
Window(s) == {tx \in world.txs : tx.block \in scans[s].since..scans[s].head}

\* A batch that is handed over tells, for every transaction of the window it claims, exactly what the wallet
\* gained and lost, spam included, and nothing of other transactions: whatever the pages, retries, directions,
\* split and refunded legs, and whichever source the native legs come from.  The worlds leave out the two cases in
\* which it does not hold of the balance source: a transaction that is no candidate moves the wallet's balance in a
\* candidate's block (native-balance-diff.ts:14-16), and a block of two candidates is archived for one of them only.
FlowsTrue ==
  \A s \in Handed :
    /\ {r.hash : r \in Rows(s)} \subseteq {tx.hash : tx \in Window(s)}
    /\ \A tx \in Window(s) :
         TrueFlow(Rows(s), tx,
                  world.internal \/ (scans[s].source = "alchemy-debug" /\ tx.hash \in ToSet(NativeCandidates(s))))

\* Pairing: a disposal marked as exchange has exactly one acquisition of another asset under its group, no two
\* rows of a batch share an id, an absorbed leg has no row of its own, and a row is up for review exactly when a
\* leg it stands for went through a known bridge.
PairsWhole ==
  \A s \in Handed :
    LET rows == Rows(s)
        legs == ToSet(LegsOf(Transfers(s)))
        standsFor(r) == {leg \in legs : \/ leg.id = r.id
                                       \/ /\ r.group # None /\ leg.hash = r.hash /\ ~leg.self
                                          /\ leg.asset = r.asset /\ leg.dir = r.dir /\ ~IsForgedLeg(leg)}
    IN  /\ \A r, q \in rows : r.id = q.id => r = q
        /\ \A r, q \in rows : r.id \notin q.netted
        /\ \A r \in rows : r.class = "EXCHANGE" =>
             Cardinality({q \in rows : q.group = r.group /\ q.dir = "IN" /\ q.class = "RECEIVE" /\ q.asset # r.asset}) = 1
        /\ \A r \in rows : r.group # None => Cardinality({q \in rows : q.group = r.group}) = 2 /\ r.amount > 0
        /\ \A r \in rows : r.review = \E leg \in standsFor(r) : ~leg.self /\ leg.party = Bridge

\* A forged leg in a transaction changes nothing about how its real legs are read: the rows besides the forged
\* ones are those of the transaction without them.
ForgedLegsInert ==
  \A s \in Handed :
    LET legs   == LegsOf(Transfers(s))
        forged == {legs[i].id : i \in {j \in DOMAIN legs : IsForgedLeg(legs[j])}}
        real   == SelectSeq(legs, LAMBDA leg : leg.id \notin forged)
    IN  /\ {r \in Rows(s) : r.id \notin forged}
             = UNION {ClassifyGroup(SelectSeq(real, LAMBDA leg : leg.hash = h)) : h \in {real[i].hash : i \in DOMAIN real}}
        /\ \A r \in Rows(s) : r.id \in forged => r.class = "SPAM"

\* A batch without the exact native legs is only handed over when every better source of the chain was refused to
\* the key, and less than a re-probe window before: an outage never degrades the ledger.
DegradedOnlyWhenRefused ==
  \A s \in Handed :
    NativeCandidates(s) # <<>> =>
      \A k \in DOMAIN world.sources :
        (scans[s].source = None \/ (\E j \in DOMAIN world.sources : scans[s].source = world.sources[j] /\ k < j)) =>
          \E t \in 0..now : <<world.sources[k], t>> \in refusals /\ scans[s].asked < t + Reprobe

Covered == UNION {Window(s) : s \in Handed}

\* Every batch so far came from the same source and lost no candidate.
Steady == \A s, t \in Handed : scans[s].source = scans[t].source /\ scans[s].lost = {}

\* Scanning the same blocks again, by increments or from genesis, leaves the ledger telling the truth once: the ids
\* of recovered legs are the same every time, as long as the source is.
RescanConverges ==
  Steady => \A tx \in Covered : TrueFlow(Stored, tx, FALSE)

\* The same without the condition on the source: what the ledger holds after any sequence of scans.
SourceSwitchConverges ==
  \A tx \in Covered : TrueFlow(Stored, tx, FALSE)

\* Every scan ends, handed over or withheld, as long as the provider answers in whatever way.
ScanEnds ==
  \A s \in Scans : scans[s].pc # "idle" ~> scans[s].pc \in {"done", "withheld"}
=============================================================================
