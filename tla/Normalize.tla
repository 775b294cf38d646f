------------------------------ MODULE Normalize ------------------------------
(***************************************************************************)
(* How the chain adapter reads the transfers of one chain into ledger rows *)
(* (normalizeChain of indexer.adapters.ts, spam-filter.ts).                *)
(*                                                                         *)
(* A transfer is what the provider reports, or what NativeRecovery         *)
(* synthesizes:                                                            *)
(*   [uid, hash, category, from, to, items, bad]                           *)
(* where items are its <<asset, amount>> parts (several only for an        *)
(* ERC1155 batch) and bad says that a field of it does not parse.  An      *)
(* asset is [type, list, symbol, n]: its standard, whether the contract is *)
(* on the allowlist or the denylist, the kind of its symbol, and a number  *)
(* that tells contracts and token ids apart.  Addresses are the wallet,    *)
(* a known bridge contract, anybody else, or None.                         *)
(***************************************************************************)
EXTENDS Integers, FiniteSets, Sequences, SequencesExt

CONSTANTS None, Wallet, Bridge, Other

Native == [type |-> "NATIVE", list |-> "none", symbol |-> "plain", n |-> 0]

Total(legs) == FoldLeft(LAMBDA sum, leg : sum + leg.amount, 0, legs)
AssetsOf(legs) == {legs[i].asset : i \in DOMAIN legs}
IdsOf(legs) == {legs[i].id : i \in DOMAIN legs}

-----------------------------------------------------------------------------
(* Spam: a blank or weaponized symbol, the symbol of the native coin on a  *)
(* token, and the two curated lists.                                       *)

IsNativeImpersonation(asset) == asset.type = "ERC20" /\ asset.symbol = "native"

IsWeaponizedSymbol(asset) == asset.symbol \in {"blank", "weapon"}

IsInboundSpam(asset) ==
  /\ asset.list # "allow"
  /\ \/ asset.list = "deny"
     \/ asset.type \in {"ERC721", "ERC1155"}
     \/ asset.type = "ERC20" /\ IsWeaponizedSymbol(asset)
     \/ IsNativeImpersonation(asset)

\* The signals that are read in both directions: anybody can emit a log that names the wallet as sender.
IsForgedLeg(leg) ==
  /\ ~leg.self
  /\ leg.asset.type # "NATIVE"
  /\ leg.asset.list # "allow"
  /\ \/ leg.asset.list = "deny"
     \/ /\ ~(leg.dir = "OUT" /\ leg.asset.symbol = "blank")
        /\ IsNativeImpersonation(leg.asset) \/ IsWeaponizedSymbol(leg.asset)

-----------------------------------------------------------------------------
(* Transfers into legs.                                                    *)

Unusable(t) ==
  \/ t.bad
  \/ Wallet \notin {t.from, t.to}
  \/ t.items = <<>>

NormalizeTransfer(t) ==
  LET self == t.from = Wallet /\ t.to = Wallet
      dir  == IF t.to = Wallet /\ ~self THEN "IN" ELSE "OUT"
  IN  [i \in DOMAIN t.items |->
        [id |-> <<t.uid, i>>, hash |-> t.hash, dir |-> dir, self |-> self,
         asset |-> t.items[i].asset,
         amount |-> IF t.items[i].asset.type = "ERC721" THEN 1 ELSE t.items[i].amount,
         party |-> IF dir = "IN" THEN t.from ELSE t.to]]

\* A transfer from the wallet to itself is reported in both directions, under one id.
Deduplicate(transfers) ==
  FoldLeft(LAMBDA seen, t : IF \E i \in DOMAIN seen : seen[i].uid = t.uid THEN seen ELSE Append(seen, t),
           <<>>, transfers)

LegsOf(transfers) ==
  LET unique == Deduplicate(transfers)
  IN  FlattenSeq([i \in DOMAIN unique |-> NormalizeTransfer(unique[i])])

-----------------------------------------------------------------------------
(* The legs of one transaction into rows.                                  *)

IsBridgeContract(party) == party = Bridge

BuildLeg(leg, class) ==
  [id |-> leg.id, hash |-> leg.hash, class |-> class, dir |-> leg.dir, self |-> leg.self,
   eventType |-> IF leg.dir = "IN" THEN "transfer_in" ELSE "transfer_out",
   asset |-> leg.asset, amount |-> leg.amount, group |-> None, netted |-> {},
   review |-> ~leg.self /\ IsBridgeContract(leg.party)]

\* One side of a swap: the first leg gives the identity, the amounts are added up.
BuildSwapSide(side, class, group) ==
  [BuildLeg(Head(side.legs), class) EXCEPT
     !.eventType = IF class = "EXCHANGE" THEN "swap" ELSE "transfer_in",
     !.amount = side.amount,
     !.group = group,
     !.netted = side.netted,
     !.review = \E i \in DOMAIN side.legs : IsBridgeContract(side.legs[i].party)]

Side(legs) == [legs |-> legs, amount |-> Total(legs), netted |-> {}]

\* Fault: the residual is netted whatever is left of the side it is netted against.
NetAnyAmount(single, mixed) ==
  LET shared   == Head(single).asset
      residual == SelectSeq(mixed, LAMBDA leg : leg.asset = shared)
  IN  IF /\ single # <<>> /\ mixed # <<>>
         /\ Cardinality(AssetsOf(single)) = 1 /\ Cardinality(AssetsOf(mixed)) = 2
         /\ shared \in AssetsOf(mixed)
      THEN [netted |-> [legs |-> single, amount |-> Total(single) - Total(residual), netted |-> IdsOf(residual)],
            counter |-> Side(SelectSeq(mixed, LAMBDA leg : leg.asset # shared))]
      ELSE None

\* The side of one asset against a side of that asset and one other: what came back of the shared asset is
\* subtracted, unless nothing is left.
Net(single, mixed) ==
  LET shared   == Head(single).asset
      residual == SelectSeq(mixed, LAMBDA leg : leg.asset = shared)
      amount   == Total(single) - Total(residual)
  IN  IF /\ single # <<>> /\ mixed # <<>>
         /\ Cardinality(AssetsOf(single)) = 1
         /\ Cardinality(AssetsOf(mixed)) = 2
         /\ shared \in AssetsOf(mixed)
         /\ amount > 0
      THEN [netted |-> [legs |-> single, amount |-> amount, netted |-> IdsOf(residual)],
            counter |-> Side(SelectSeq(mixed, LAMBDA leg : leg.asset # shared))]
      ELSE None

\* The two sides of the swap a group is, if it is one.
SwapSides(inLegs, outLegs) ==
  LET inbound  == Net(outLegs, inLegs)
      outbound == Net(inLegs, outLegs)
  IN  CASE /\ inLegs # <<>> /\ outLegs # <<>>
           /\ Cardinality(AssetsOf(inLegs)) = 1 /\ Cardinality(AssetsOf(outLegs)) = 1
           /\ AssetsOf(inLegs) # AssetsOf(outLegs)  -> [out |-> Side(outLegs), in |-> Side(inLegs)]
        [] inbound # None                           -> [out |-> inbound.netted, in |-> inbound.counter]
        [] inbound = None /\ outbound # None        -> [out |-> outbound.counter, in |-> outbound.netted]
        [] OTHER                                    -> None

ClassOf(leg, mixed) ==
  CASE leg.self                                        -> "INTERNAL_TRANSFER"
    [] ~leg.self /\ mixed                              -> "UNKNOWN"
    [] ~leg.self /\ ~mixed /\ leg.dir = "OUT"          -> "SEND"
    [] OTHER -> IF IsInboundSpam(leg.asset) THEN "SPAM" ELSE "RECEIVE"

\* Fault: forged legs take part in the shape of the transaction.
ClassifyGroupMixed(legs) ==
  LET inLegs  == SelectSeq(legs, LAMBDA leg : ~leg.self /\ leg.dir = "IN")
      outLegs == SelectSeq(legs, LAMBDA leg : ~leg.self /\ leg.dir = "OUT")
      swap    == SwapSides(inLegs, outLegs)
      mixed   == inLegs # <<>> /\ outLegs # <<>>
  IN  IF swap # None
      THEN {BuildSwapSide(swap.out, "EXCHANGE", Head(legs).hash), BuildSwapSide(swap.in, "RECEIVE", Head(legs).hash)}
      ELSE {BuildLeg(legs[i], IF IsForgedLeg(legs[i]) THEN "SPAM" ELSE ClassOf(legs[i], mixed)) : i \in DOMAIN legs}

\* Forged legs are set apart before the shape is read, and kept as spam.  The legs from the wallet to itself
\* that accompany a swap are dropped.
ClassifyGroup(legs) ==
  LET real    == SelectSeq(legs, LAMBDA leg : ~IsForgedLeg(leg))
      spam    == {BuildLeg(legs[i], "SPAM") : i \in {j \in DOMAIN legs : IsForgedLeg(legs[j])}}
      inLegs  == SelectSeq(real, LAMBDA leg : ~leg.self /\ leg.dir = "IN")
      outLegs == SelectSeq(real, LAMBDA leg : ~leg.self /\ leg.dir = "OUT")
      swap    == SwapSides(inLegs, outLegs)
      mixed   == inLegs # <<>> /\ outLegs # <<>>
  IN  spam \cup IF swap # None
                THEN {BuildSwapSide(swap.out, "EXCHANGE", Head(legs).hash),
                      BuildSwapSide(swap.in, "RECEIVE", Head(legs).hash)}
                ELSE {BuildLeg(real[i], ClassOf(real[i], mixed)) : i \in DOMAIN real}

\* Rows of a chain: every transaction is read by itself.
NormalizeChain(transfers) ==
  LET legs == LegsOf(transfers)
  IN  UNION {ClassifyGroup(SelectSeq(legs, LAMBDA leg : leg.hash = h)) : h \in {legs[i].hash : i \in DOMAIN legs}}
=============================================================================
