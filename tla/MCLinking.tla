----------------------------- MODULE MCLinking -----------------------------
EXTENDS Linking

CONSTANTS A, B, sent, received, bridged, arrived

Leg(wallet, direction, counterparty, chain, transfer, asset, amount, at) ==
  [wallet |-> wallet, direction |-> direction, counterparty |-> counterparty, chain |-> chain,
   tx |-> transfer, transfer |-> transfer, suspected |-> FALSE, asset |-> asset,
   amount |-> amount, at |-> at]

\* A move from A to B, seen by both; a bridge out of A on another chain, and what
\* arrived from it at B, in another stablecoin.  The move happens to have an amount
\* and a time that fit the bridge.
MCData ==
  [l \in Legs |->
     CASE l = sent -> Leg(A, "OUT", B, 1, 1, "USDT", 100, 2)
       [] l = received -> Leg(B, "IN", A, 1, 1, "USDT", 100, 2)
       [] l = bridged -> [Leg(A, "OUT", None, 2, 2, "USDT", 100, 1) EXCEPT !.suspected = TRUE]
       [] l = arrived -> Leg(B, "IN", None, 1, 3, "USDC", 97, 3)]
=============================================================================
