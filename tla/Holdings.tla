------------------------------ MODULE Holdings ------------------------------
(***************************************************************************)
(* What a holdings load answers, as a function of the wallets asked for,   *)
(* the version of the ledger it listed and what the providers answered:    *)
(* AlchemyBalanceReader, then mergeSnapshots(), resolveAssets(),           *)
(* priceAssets(), toHoldingDto() and walletSummary() of the service.       *)
(*                                                                         *)
(* Amounts are integers of the smallest unit, scaled by decimals up to     *)
(* MaxDecimals; the rounding of values to eight places is left out.        *)
(***************************************************************************)
EXTENDS Integers, FiniteSets, FiniteSetsExt, SequencesExt

CONSTANTS
  AssetList,    \* the assets, in the order a provider lists them
  Native,       \* the native coins among them
  ChainOf,      \* ChainOf[a]: the chain of an asset
  Balance,      \* Balance[w][a]: what wallet w has of it on the chain
  Decimals,     \* Decimals[a]: of its contract
  Guess,        \* Guess[a]: the decimals in the ledger's rows
  Weaponized,   \* tokens whose symbol the inbound heuristics catch
  Allowlist,    \* CONTRACT_ALLOWLIST
  Source,       \* Source[a]: where its price is looked up
  Price,        \* Price[a]
  RowsOf,       \* RowsOf[v]: rows of version v, [asset, spam, usable]
  MaxListed,    \* MAX_TOKEN_PAGES, in tokens
  MaxUnknown,   \* MAX_UNKNOWN_TOKENS_PER_CHAIN
  MaxDecimals,
  ProviderAnswers   \* what the providers may answer: chain, reverting, meta and market

Assets == ToSet(AssetList)
ChainIds == {ChainOf[a] : a \in Assets}
Tokens == Assets \ Native

\* Position of an asset in what the providers list.
Place == [a \in Assets |-> CHOOSE i \in DOMAIN AssetList : AssetList[i] = a]

\* The first n of a set of assets, in that order.
FirstOf(n, S) == {a \in S : Cardinality({b \in S : Place[b] < Place[a]}) < n}

-----------------------------------------------------------------------------
(* readBalances().  answers.chain[w][c] says whether the chain was read;    *)
(* a chain that fails in any page, or answers no number, is skipped.        *)

\* The tokens a wallet has on a chain, and those past the last page that is read.
Listable(w, c) == {a \in Tokens : ChainOf[a] = c /\ Balance[w][a] > 0}
Unlisted == [w \in DOMAIN Balance |->
  UNION {Listable(w, c) \ FirstOf(MaxListed, Listable(w, c)) : c \in ChainIds}]

\* What one wallet's balance read returns.  A token whose own balance cannot be read is
\* left out without a mark.
readBalances(w, answers) ==
  [raw |-> [a \in Assets |->
     IF answers.chain[w][ChainOf[a]] /\ a \notin Unlisted[w] /\ <<w, a>> \notin answers.reverting
     THEN Balance[w][a] ELSE 0],
   skipped |-> {c \in ChainIds : ~answers.chain[w][c]},
   truncated |-> {c \in ChainIds : answers.chain[w][c] /\ \E a \in Unlisted[w] : ChainOf[a] = c}]

\* The read of a wallet throws if it observed no chain.
Observed(w, answers) == \E c \in ChainIds : answers.chain[w][c]

\* mergeSnapshots(): the same asset is summed over the wallets, the marks are united.
mergeSnapshots(ws, answers) ==
  LET read == [w \in ws |-> readBalances(w, answers)]
  IN [raw |-> [a \in Assets |-> MapThenSumSet(LAMBDA w : read[w].raw[a], ws)],
      skipped |-> UNION {read[w].skipped : w \in ws},
      truncated |-> UNION {read[w].truncated : w \in ws}]

-----------------------------------------------------------------------------
(* resolveAssets().                                                         *)

\* indexLedgerAssets(): the rows that name a symbol and decimals; a token is spam only if
\* all of them say so.
indexLedgerAssets(v) ==
  LET rows(a) == {r \in RowsOf[v] : r.asset = a /\ r.usable}
  IN [a \in {a \in Tokens : rows(a) # {}} |-> [spamOnly |-> \A r \in rows(a) : r.spam]]

\* Tokens the ledger does not know, and those of them that are looked up, a number per
\* chain; the order they are taken in is the providers', whichever wallet has them.
Unknown(raw, v) == {a \in Tokens : raw[a] > 0} \ DOMAIN indexLedgerAssets(v)
OnChain(S, c) == {a \in S : ChainOf[a] = c}
LookedUp(raw, v) == UNION {FirstOf(MaxUnknown, OnChain(Unknown(raw, v), c)) : c \in ChainIds}
Capped(raw, v) == {c \in ChainIds : Cardinality(OnChain(Unknown(raw, v), c)) > MaxUnknown}

\* Tokens whose lookup failed, the ledger having nothing to stand in: they are counted.
Unresolved(raw, v, answers) == {a \in LookedUp(raw, v) : answers.meta[a] = "failed"}

\* Natives, tokens of the ledger that are not spam, and unknown tokens the provider
\* describes and the inbound heuristics let pass.
Resolved(raw, v, answers) ==
  LET ledger == indexLedgerAssets(v)
  IN {a \in Native : raw[a] > 0}
     \cup {a \in DOMAIN ledger : raw[a] > 0 /\ ~ledger[a].spamOnly}
     \cup {a \in LookedUp(raw, v) : answers.meta[a] = "answer" /\ a \notin Weaponized}

\* The provider's decimals, and the ledger's if it has none.
DecimalsOf(a, answers) == IF a \in Native \/ answers.meta[a] = "answer" THEN Decimals[a] ELSE Guess[a]

-----------------------------------------------------------------------------
(* priceAssets(), toHoldingDto() and walletSummary().                       *)

Market(a, answers) == answers.market[Source[a]]

\* Fault: a lookup that failed is read as no market.
KeptFailedIsDust(a, answers) ==
  a \in Native \cup Allowlist \/ Market(a, answers) \notin {"no_market", "failed"}

\* A token without any market is dust, unless allowlisted; one whose lookup failed is kept.
Kept(a, answers) == a \in Native \cup Allowlist \/ Market(a, answers) # "no_market"

\* A price that cannot be parsed, or is not there, leaves the value open.
IsPriced(a, answers) == Market(a, answers) = "priced"

\* formatUnits(), in the smallest unit there is.
formatUnits(raw, decimals) == raw * 10^(MaxDecimals - decimals)

Value(raw, a, answers) == formatUnits(raw, DecimalsOf(a, answers)) * Price[a]

\* One wallet's part: only what the whole answer shows counts.
walletSummary(w, shown, answers) ==
  LET raw == readBalances(w, answers).raw
      mine == {a \in shown : raw[a] > 0}
      priced == {a \in mine : IsPriced(a, answers)}
  IN [total |-> MapThenSumSet(LAMBDA a : Value(raw[a], a, answers), priced),
      chains |-> {ChainOf[a] : a \in mine},
      unpriced |-> Cardinality(mine \ priced)]

\* The answer to a load of the wallets ws that listed version v.
HoldingsDto(ws, v, answers) ==
  LET merged == mergeSnapshots(ws, answers)
      shown == {a \in Resolved(merged.raw, v, answers) : Kept(a, answers)}
      priced == {a \in shown : IsPriced(a, answers)}
  IN [raw |-> [a \in shown |-> merged.raw[a]],
      amount |-> [a \in shown |-> formatUnits(merged.raw[a], DecimalsOf(a, answers))],
      skipped |-> merged.skipped,
      truncated |-> merged.truncated \cup Capped(merged.raw, v),
      unresolved |-> Cardinality(Unresolved(merged.raw, v, answers)),
      total |-> MapThenSumSet(LAMBDA a : Value(merged.raw[a], a, answers), priced),
      unpriced |-> Cardinality(shown \ priced),
      byWallet |-> [w \in ws |-> walletSummary(w, shown, answers)]]

-----------------------------------------------------------------------------
(* What an answer promises.                                                 *)

Truly(ws, a) == MapThenSumSet(LAMBDA w : Balance[w][a], ws)

\* What could be read of it: a token whose own balance is an error or no number counts as
\* nothing, in one wallet or in all, and no mark tells (balance-reader.adapters.ts:170-173).
Readable(ws, a, answers) ==
  MapThenSumSet(LAMBDA w : IF <<w, a>> \in answers.reverting THEN 0 ELSE Balance[w][a], ws)

\* The reasons to hide a token that are not a failure: all its rows in the ledger are spam;
\* the ledger does not know it, and the provider describes nothing usable or the inbound
\* heuristics catch its symbol; or the market answers that there is none.  That last reason
\* hides a token the ledger knows too, although "the wallet never traded" it is what
\* holdings.service.ts:317 says.
Verdict(a, v, answers) ==
  LET ledger == indexLedgerAssets(v)
      noMarket == Market(a, answers) = "no_market"
  IN IF a \in DOMAIN ledger THEN ledger[a].spamOnly \/ noMarket
     ELSE \/ answers.meta[a] = "null"
          \/ answers.meta[a] = "answer" /\ (a \in Weaponized \/ noMarket)

\* Nothing that could be read (Readable) is missing or wrong unless the answer says so: a
\* native coin not shown is on a skipped chain; a token not shown is on a skipped or a
\* truncated one, is counted as unresolved, or has a verdict against it (Verdict).  What is
\* shown is never more than what the wallets hold, and is exactly what could be read of it
\* unless the chain is skipped or, for a token, truncated; it is in the contract's unit if the
\* provider gave that, and otherwise in the one the ledger guesses.  The wallets' parts add
\* up to the whole.
Honest(ws, v, answers) ==
  LET dto == HoldingsDto(ws, v, answers)
      marked(a) == ChainOf[a] \in dto.skipped \/ (a \in Tokens /\ ChainOf[a] \in dto.truncated)
      shown == DOMAIN dto.raw
      missing == {a \in Assets \ shown : Readable(ws, a, answers) > 0 /\ ~marked(a)}
  IN /\ missing \cap Native = {}
     /\ Cardinality({a \in missing : ~Verdict(a, v, answers)}) <= dto.unresolved
     /\ \A a \in shown :
          /\ dto.raw[a] <= Truly(ws, a)
          /\ ~marked(a) => dto.raw[a] = Readable(ws, a, answers)
          /\ (a \in Native \/ answers.meta[a] = "answer") =>
               dto.amount[a] = formatUnits(dto.raw[a], Decimals[a])
     /\ dto.total = MapThenSumSet(LAMBDA w : dto.byWallet[w].total, ws)
=============================================================================
