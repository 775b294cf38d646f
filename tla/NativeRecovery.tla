--------------------------- MODULE NativeRecovery ---------------------------
(***************************************************************************)
(* Movements of the native coin that the Transfers API does not report,    *)
(* read from a call trace (native-trace.ts) or inferred from the wallet's  *)
(* balance around a block (native-balance-diff.ts), and the provider's     *)
(* side of it: what a transaction did to the wallet.                       *)
(*                                                                         *)
(* A transaction is [hash, block, from, to, value, ok, gas, price,         *)
(* txPrice, extra, tokens, frames]: price is the gas price of the receipt  *)
(* and txPrice the one of the transaction (either may be None), extra the  *)
(* OP-stack surcharges, tokens the token transfers of its logs, frames the *)
(* calls below the root as [type, from, to, value, err, parent] with       *)
(* parent 0 for a child of the root.                                       *)
(***************************************************************************)
EXTENDS Normalize

-----------------------------------------------------------------------------
(* native-trace.ts.                                                        *)

ValueMovingTypes == {"CALL", "CALLCODE", "CREATE", "CREATE2", "SELFDESTRUCT"}

\* A frame took effect when neither it nor a call around it reverted; a failing root reverts everything.
TookEffect(tx) ==
  LET live[i \in 0..Len(tx.frames)] ==
        IF i = 0 THEN tx.ok ELSE ~tx.frames[i].err /\ live[tx.frames[i].parent]
  IN  live

\* The frames below the root that moved native coin from or to the wallet, by their place in the tree.
ExtractNativeTransfers(tx) ==
  SelectSeq([i \in DOMAIN tx.frames |-> i],
            LAMBDA i : /\ TookEffect(tx)[i]
                       /\ tx.frames[i].type \in ValueMovingTypes
                       /\ tx.frames[i].value > 0
                       /\ Wallet \in {tx.frames[i].from, tx.frames[i].to})

NativeTransfer(tx, uid, category, from, to, value) ==
  [uid |-> uid, hash |-> tx.hash, category |-> category, from |-> from, to |-> to,
   items |-> <<[asset |-> Native, amount |-> value]>>, bad |-> FALSE]

TraceLegs(tx) ==
  LET found == ExtractNativeTransfers(tx)
  IN  [k \in DOMAIN found |->
        LET f == tx.frames[found[k]]
        IN  NativeTransfer(tx, <<tx.hash, "internal", found[k]>>, "internal", f.from, f.to, f.value)]

-----------------------------------------------------------------------------
(* native-balance-diff.ts.                                                 *)

TotalFeePaid(tx) ==
  LET price == IF tx.price # None THEN tx.price ELSE tx.txPrice
  IN  IF price = None THEN None ELSE tx.gas * price + tx.extra

\* What is left of the balance's change when the fee and the top-level value, visible elsewhere, are taken out.
InternalNativeDelta(tx, fee, before, after) ==
  after - before
    + (IF tx.from = Wallet THEN fee + tx.value ELSE 0)
    - (IF tx.to = Wallet THEN tx.value ELSE 0)

\* One net leg, or none.  The counterparty is the contract called, unless that names nobody or the wallet.
NativeLegFromDelta(tx, delta) ==
  LET party == IF tx.to \in {None, Wallet} THEN Other ELSE tx.to
      uid   == <<tx.hash, "balance", 0>>
  IN  CASE delta = 0 -> <<>>
        [] delta > 0 -> <<NativeTransfer(tx, uid, "internal", party, Wallet, delta)>>
        [] delta < 0 -> <<NativeTransfer(tx, uid, "internal", Wallet, party, -delta)>>

\* A sender whose fee nobody reports is skipped: the fee would be read as a movement.
RecoverBalanceDiffLeg(tx, before, after) ==
  LET fee == TotalFeePaid(tx)
  IN  IF fee = None /\ tx.from = Wallet
      THEN <<>>
      ELSE NativeLegFromDelta(tx, InternalNativeDelta(tx, IF fee = None THEN 0 ELSE fee, before, after))

\* Candidates that succeeded and have their block for themselves.
SelectUnambiguousCandidates(txs) ==
  {tx \in txs : tx.ok /\ \A other \in txs : other.ok /\ other.block = tx.block => other = tx}

-----------------------------------------------------------------------------
(* The chain behind the provider.                                          *)

\* The native coin that inner calls brought the wallet, less what they took.
InternalFlow(tx) ==
  MapThenSumSet(LAMBDA i : (IF tx.frames[i].to = Wallet THEN tx.frames[i].value ELSE 0)
                           - (IF tx.frames[i].from = Wallet THEN tx.frames[i].value ELSE 0),
                {i \in DOMAIN tx.frames : TookEffect(tx)[i] /\ tx.frames[i].type # "DELEGATECALL"})

\* What a transaction did to the wallet's balance.
Effect(tx) ==
  InternalFlow(tx)
    + (IF tx.ok /\ tx.to = Wallet THEN tx.value ELSE 0)
    - (IF tx.ok /\ tx.from = Wallet THEN tx.value ELSE 0)
    - (IF tx.from = Wallet
       THEN tx.gas * (IF tx.price # None THEN tx.price ELSE IF tx.txPrice # None THEN tx.txPrice ELSE 1) + tx.extra
       ELSE 0)

BalanceAt(txs, block) == MapThenSumSet(Effect, {tx \in txs : tx.block <= block})

\* What the Transfers API reports of a transaction: the top-level value, inner calls where the chain has that
\* category, and the token logs; zero amounts are left out.
Reported(tx, internal) ==
  (IF tx.value > 0 /\ Wallet \in {tx.from, tx.to}
   THEN <<NativeTransfer(tx, <<tx.hash, "external", 0>>, "external", tx.from, tx.to, tx.value)>>
   ELSE <<>>)
  \o (IF internal THEN TraceLegs(tx) ELSE <<>>)
  \o [k \in DOMAIN tx.tokens |->
       [uid |-> <<tx.hash, "log", k>>, hash |-> tx.hash, category |-> tx.tokens[k].category,
        from |-> tx.tokens[k].from, to |-> tx.tokens[k].to, items |-> tx.tokens[k].items, bad |-> FALSE]]
=============================================================================
