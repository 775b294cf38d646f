----------------------------- MODULE MCCostBasis -----------------------------
EXTENDS CostBasis

CONSTANTS source, dest, group, swapped

\* Amounts are multiples of 12: most shares of a short ledger are whole numbers.
Plain(direction, asset, qty, swap, gas) ==
  [direction |-> direction, asset |-> asset, qty |-> qty, fiat |-> 24,
   class |-> "TAXABLE", bridge |-> None, swap |-> swap, gas |-> gas]

Bridge(direction, asset, qty) ==
  [direction |-> direction, asset |-> asset, qty |-> qty, fiat |-> None,
   class |-> "INTERNAL_TRANSFER", bridge |-> group, swap |-> None, gas |-> 12]

\* Acquisitions and disposals of one or two units, legs of a swap, legs of a bridge
\* from one asset to the other with and without a readable quantity, a leg of the bridge the user
\* made taxable, and an event nobody priced.
MCLegs ==
  {Plain("IN", source, 1, None, 12), Plain("IN", source, 2, None, None), Plain("IN", dest, 1, swapped, 12),
   Plain("IN", source, 1, swapped, 12),
   Plain("OUT", source, 1, None, 12), Plain("OUT", source, 2, swapped, 12), Plain("OUT", dest, 1, None, None),
   Plain("OUT", source, 1, swapped, 12),
   Bridge("OUT", source, 1), Bridge("OUT", source, 2), Bridge("OUT", source, 0),
   Bridge("IN", dest, 1), Bridge("IN", source, 1),
   [Bridge("OUT", source, 1) EXCEPT !.class = "TAXABLE", !.fiat = 24],
   [Plain("IN", source, 1, swapped, 12) EXCEPT !.fiat = None]}
=============================================================================
