----------------------------- MODULE Portfolio -----------------------------
(***************************************************************************)
(* PortfolioHoldingsService of one account, on the ledger read side of     *)
(* LedgerCache: the memo of holdings per scope, the memo of balances per   *)
(* wallet, and the loads that fill them.  A load reads the ledger and the  *)
(* balances of its wallets, one wallet after another, while the fold runs; *)
(* what it then answers is computed by Holdings.                           *)
(*                                                                         *)
(* A load is a read of the ledger (Readers).  It starts at most one        *)
(* balance read at a time, so a balance read is named by the load that     *)
(* started it.                                                             *)
(***************************************************************************)
EXTENDS LedgerCache, Holdings

CONSTANTS
  Wallets,      \* addresses of the account, in the order of the bindings
  Scopes,       \* what is asked for: "all" or one wallet
  HoldingsTtl   \* HOLDINGS_TTL_MS

ASSUME PortfolioAssumption ==
  /\ Scopes \subseteq {"all"} \cup ToSet(Wallets)
  /\ Wallets \in Seq(ToSet(Wallets))
  /\ HoldingsTtl \in Nat \ {0} /\ Horizon >= Ttl + MaxLoad + HoldingsTtl

\* Entries of the two memos.
Entry == [by: Readers \cup {None}, age: Nat, from: (0..MaxVersion) \cup {None}]
BalanceEntry == [by: Readers \cup {None}, age: Nat]

ASSUME EntryAssumption == None \notin Entry /\ None \notin BalanceEntry

VARIABLES
  memo,         \* memo[s]: the load that fills it or the version answered from, and age
  balanceMemo,  \* balanceMemo[w]: the read that fills it, None once it has, and age
  hload         \* the loads

portfolioVars == <<memo, balanceMemo, hload>>

Asked(s) == IF s = "all" THEN Wallets ELSE <<s>>

NoLoad == [step |-> "idle", scope |-> None, todo |-> <<>>, waits |-> None]

PortfolioInit ==
  /\ CacheInit
  /\ memo = [s \in Scopes |-> None]
  /\ balanceMemo = [w \in ToSet(Wallets) |-> None]
  /\ hload = [h \in Readers |-> NoLoad]

Unexpired(entry) == entry # None /\ entry.age < HoldingsTtl

\* A call that misses sweeps every expired entry of the table.
Sweep(table) == [k \in DOMAIN table |-> IF Unexpired(table[k]) THEN table[k] ELSE None]

-----------------------------------------------------------------------------
(* holdings() and load().                                                   *)

\* A load that has rejected is gone when the work it leaves behind is over.
Gone(l, rd) == l.step = "rejected" /\ l.waits = None /\ l.todo = <<>> /\ rd.step = "idle"
Rest(ls, rds) == [h \in Readers |-> IF Gone(ls[h], rds[h]) THEN NoLoad ELSE ls[h]]

\* Fault: a rejection takes whatever entry is there.
EvictAny(table, own) == [k \in DOMAIN table |-> IF \E e \in own : e[1] = k THEN None ELSE table[k]]

\* A rejection takes its entry out of the table, if it is still its own.
Evict(table, own) ==
  [k \in DOMAIN table |-> IF table[k] # None /\ <<k, table[k].by>> \in own THEN None ELSE table[k]]

\* A load rejects with the first of its parts that does; what else it began goes on.
Rejecting(hs) == {h \in hs : hload[h].step \in {"ledger", "reads"}}
Without(hs) == Evict(memo, {<<hload[h].scope, h>> : h \in Rejecting(hs)})

\* holdings(): an entry in time is handed out as it is, otherwise a load is started.
Call(s) ==
  /\ ~Unexpired(memo[s])
  /\ \E h \in Readers :
       /\ hload[h] = NoLoad
       /\ memo' = [Sweep(memo) EXCEPT ![s] = [by |-> h, age |-> 0, from |-> None]]
       /\ hload' = [hload EXCEPT ![h] = [NoLoad EXCEPT !.step = "wallets", !.scope = s]]
  /\ UNCHANGED <<cacheVars, balanceMemo>>

\* The bindings are read; then the ledger is asked for.
WalletsRead(h) ==
  /\ hload[h].step = "wallets"
  /\ hload' = [hload EXCEPT ![h].step = "ledger"]
  /\ reader' = [reader EXCEPT ![h].step = "ask"]
  /\ UNCHANGED <<version, old, writing, snapshot, load, array, memo, balanceMemo>>

\* No bound wallet, or not this one, or no answer of the database.
NotFound(h) ==
  /\ hload[h].step = "wallets"
  /\ memo' = Evict(memo, {<<hload[h].scope, h>>})
  /\ hload' = [hload EXCEPT ![h] = NoLoad]
  /\ UNCHANGED <<cacheVars, balanceMemo>>

\* The rows are there: balances and fold are read side by side.
RowsRead(h, ok) ==
  /\ hload[h].step = "ledger"
  /\ Probe(h, ok)
  /\ LET throws == reader'[h].step = "idle"
     IN /\ memo' = IF throws THEN Without({h}) ELSE memo
        /\ hload' = [hload EXCEPT ![h] = [@ EXCEPT !.step = IF throws THEN "rejected" ELSE "reads",
                                                   !.todo = Asked(hload[h].scope)]]
  /\ UNCHANGED balanceMemo

\* readBalances(): the balances of the next wallet are memoized, or joined, or read.
NextWallet(h) ==
  /\ hload[h].todo # <<>> /\ hload[h].waits = None
  /\ LET w == Head(hload[h].todo)
         entry == balanceMemo[w]
     IN \/ /\ Unexpired(entry) /\ entry.by = None
           /\ hload' = Rest([hload EXCEPT ![h].todo = Tail(@)], reader)
           /\ UNCHANGED balanceMemo
        \/ /\ Unexpired(entry) /\ entry.by # None
           /\ hload' = [hload EXCEPT ![h].waits = entry.by]
           /\ UNCHANGED balanceMemo
        \/ /\ ~Unexpired(entry)
           /\ hload' = [hload EXCEPT ![h].waits = h]
           /\ balanceMemo' = [Sweep(balanceMemo) EXCEPT ![w] = [by |-> h, age |-> 0]]
  /\ UNCHANGED <<cacheVars, memo>>

\* The balance read h started ends: its entry is filled, or dropped if it is still its
\* own, and every load that waits for it goes on to its next wallet, or rejects.
BalancesRead(h, ok) ==
  LET w == Head(hload[h].todo)
      waiting == {g \in Readers : hload[g].waits = h}
      own == balanceMemo[w] # None /\ balanceMemo[w].by = h
      after(g) == [hload[g] EXCEPT !.waits = None, !.todo = IF ok THEN Tail(@) ELSE <<>>,
                                   !.step = IF ok \/ g \notin Rejecting(waiting) THEN @ ELSE "rejected"]
  IN /\ hload[h].waits = h
     /\ balanceMemo' = IF ~ok THEN Evict(balanceMemo, {<<w, h>>})
                       ELSE IF own THEN [balanceMemo EXCEPT ![w].by = None] ELSE balanceMemo
     /\ memo' = IF ok THEN memo ELSE Without(waiting)
     /\ hload' = Rest([g \in Readers |-> IF g \in waiting THEN after(g) ELSE hload[g]], reader)
     /\ UNCHANGED cacheVars

\* A reply to the ledger read; the loads of the reads it rejects reject.
LedgerReply ==
  /\ \/ LoadReads \/ LoadEnds \/ LoadFails
     \/ \E h \in Readers : GateOpens(h) \/ GateFails(h)
     \/ \E a \in Arrays, answers, ok \in BOOLEAN : ProbeEnds(a, answers, ok)
  /\ LET lost == {h \in Readers : reader[h].step # "idle" /\ reader'[h].step = "idle"}
     IN /\ memo' = Without(lost)
        /\ hload' = Rest([h \in Readers |-> IF h \in lost THEN [hload[h] EXCEPT !.step = "rejected"]
                                            ELSE hload[h]], reader')
  /\ UNCHANGED balanceMemo

\* Metadata and prices are looked up, which no failure interrupts, and the load answers:
\* its entry, if it is still its own, has what was computed from the rows it listed.
Answers(h) ==
  /\ hload[h].step = "reads" /\ reader[h].step = "done"
  /\ hload[h].todo = <<>> /\ hload[h].waits = None
  /\ LET s == hload[h].scope
     IN memo' = IF memo[s] # None /\ memo[s].by = h
                THEN [memo EXCEPT ![s] = [@ EXCEPT !.by = None, !.from = array[reader[h].array].version]]
                ELSE memo
  /\ Return(h)
  /\ hload' = [hload EXCEPT ![h] = NoLoad]
  /\ UNCHANGED balanceMemo

\* The fold of a load that has rejected ends for nobody.
Leftover(h) ==
  /\ hload[h].step = "rejected" /\ reader[h].step = "done"
  /\ Return(h)
  /\ hload' = Rest(hload, reader')
  /\ UNCHANGED <<memo, balanceMemo>>

Older(table) == [k \in DOMAIN table |->
  IF table[k] = None THEN None ELSE [table[k] EXCEPT !.age = Upto(@, HoldingsTtl)]]

Tick ==
  /\ CacheTick
  /\ memo' = Older(memo) /\ balanceMemo' = Older(balanceMemo)
  /\ UNCHANGED hload

Write == (Commit \/ Invalidate \/ WriteFails) /\ UNCHANGED portfolioVars

\* What a load does between two replies runs in microtasks: no reply comes before it.
Goes(h) ==
  \/ (List(h) \/ Gate(h)) /\ UNCHANGED portfolioVars
  \/ \E ok \in BOOLEAN : RowsRead(h, ok)
  \/ NextWallet(h) \/ Leftover(h)
Going(h) ==
  \/ reader[h].step \in {"ask", "rows"}
  \/ hload[h].todo # <<>> /\ hload[h].waits = None
  \/ hload[h].step = "rejected" /\ reader[h].step = "done"

Replies ==
  \/ LedgerReply
  \/ \E s \in Scopes : Call(s)
  \/ \E h \in Readers :
       \/ WalletsRead(h) \/ NotFound(h) \/ Answers(h)
       \/ \E ok \in BOOLEAN : BalancesRead(h, ok)

Next ==
  \/ \E h \in Readers : Goes(h)
  \/ (\A h \in Readers : ~Going(h)) /\ (Replies \/ Write \/ Tick)

Spec == PortfolioInit /\ [][Next]_<<cacheVars, portfolioVars>>

-----------------------------------------------------------------------------
(* Properties.                                                              *)

\* What is served lags behind the ledger for a bounded time: a snapshot handed out for
\* less than its TTL and the time a load takes, although a load may install what it read
\* before a write that has already invalidated the cache, and a write that throws half-way
\* invalidates nothing; holdings for one holdings TTL more.
ServedIsRecent ==
  /\ SnapshotIsRecent
  /\ \A s \in Scopes : Unexpired(memo[s]) /\ memo[s].by = None =>
       old[memo[s].from] < Ttl + MaxLoad + HoldingsTtl

\* Whatever the providers answered, no failure and no cap hides or falsifies a holding in what
\* holdings() serves (Honest): what is not shown, or not all of it, is on a chain the answer
\* marks, counted as unresolved, or hidden for a reason that is no failure, a missing market
\* of a token the wallet did trade among them (Verdict; holdings.service.ts:317).  One failure
\* does hide without a trace, and is left out: that of a token's own balance, in the reply
\* of a chain that was read (Readable; balance-reader.adapters.ts:170).
HonestFor == [s \in Scopes, v \in 0..MaxVersion |->
  \A answers \in ProviderAnswers :
    (\A w \in ToSet(Asked(s)) : Observed(w, answers)) => Honest(ToSet(Asked(s)), v, answers)]
HoldingsHonest ==
  \A s \in Scopes : memo[s] # None /\ memo[s].by = None => HonestFor[s, memo[s].from]

\* An entry in time leaves its table only because its own load, or its own balance read,
\* fails: the late rejection of an older one does not take the newer entry away.
Leaves(table, k) == Unexpired(table[k]) /\ table'[k] = None
EntriesKept ==
  [][/\ \A s \in Scopes : Leaves(memo, s) =>
          memo[s].by # None /\ hload[memo[s].by].scope = s
          /\ hload'[memo[s].by].step \in {"idle", "rejected"}
     /\ \A w \in ToSet(Wallets) : Leaves(balanceMemo, w) =>
          balanceMemo[w].by # None /\ hload[balanceMemo[w].by].waits = balanceMemo[w].by
          /\ hload'[balanceMemo[w].by].waits = None]_<<cacheVars, portfolioVars>>
=============================================================================
