------------------------------ MODULE CostBasis ------------------------------
(***************************************************************************)
(* foldCostBasis() of cost-basis.ts: the moving-average fold over the whole *)
(* ledger, with the cost that travels between the legs of a bridge and the  *)
(* gas that is charged to one leg of a swap.                                *)
(*                                                                          *)
(* The ledger is given in the order of the sort (time, log index, id); every*)
(* order is possible, an IN leg before its OUT leg included.  A position in *)
(* it stands for the event's id.  A cell keeps the quantity and the total   *)
(* cost, quantity times the code's avgCost.  Costs are whole numbers: what  *)
(* leaves a cell is rounded down and the rest stays in it, where the code   *)
(* keeps the decimals it has.                                               *)
(***************************************************************************)
EXTENDS Integers, FiniteSets, SequencesExt

CONSTANTS
  Assets,      \* asset keys
  Bridges,     \* bridge group ids
  Swaps,       \* swap group ids
  Legs,        \* the events a ledger may hold
  MaxEvents,   \* bound on the ledger
  None

Reviews == {"disposal_exceeds_holdings", "bridge_move_unmatched", "gas_unpriced"}

\* An event as the fold reads it: quantity 0 stands for one that cannot be read or
\* is not positive, fiat None for a missing price, gas for the value of the fee
\* (None when the native close of the day is not known).
Leg == [direction: {"IN", "OUT"}, asset: Assets, qty: Nat, fiat: Nat \cup {None},
        class: {"TAXABLE", "INTERNAL_TRANSFER", "SPAM"}, bridge: Bridges \cup {None},
        swap: Swaps \cup {None}, gas: Nat \cup {None}]

ASSUME LegsAssumption == Legs \subseteq Leg /\ MaxEvents \in Nat

VARIABLES
  ledger,      \* the events in the order of the sort
  phase,       \* "input", "fold", "done"
  withGas,     \* options.nativePrices is given
  ordered,     \* the order of the fold, as positions in the ledger
  next,        \* index in ordered of the event to fold next
  state,       \* asset key -> cell
  escrow,      \* bridge group -> the cost in flight, None if there is none
  unmatched,   \* OUT legs to be flagged at the end
  results      \* position -> CostBasisResult

vars == <<ledger, phase, withGas, ordered, next, state, escrow, unmatched, results>>

Cell == [qty: Nat, cost: Nat]

NoResult == [folded |-> FALSE, excluded |-> FALSE, cost |-> 0, proceeds |-> None,
             review |-> None, move |-> None, bears |-> FALSE]

Init ==
  /\ ledger = << >> /\ phase = "input" /\ withGas = FALSE
  /\ ordered = << >> /\ next = 1
  /\ state = [a \in Assets |-> [qty |-> 0, cost |-> 0]]
  /\ escrow = [g \in Bridges |-> None]
  /\ unmatched = {}
  /\ results = << >>

Positions == 1..Len(ledger)

-----------------------------------------------------------------------------
(* What is decided before the fold.                                         *)

\* bridgeGroupOf(): a leg the user has made taxable again is out of the move.
BridgeGroup(e) == IF e.class = "INTERNAL_TRANSFER" THEN e.bridge ELSE None

Excluded(e) == e.class # "TAXABLE" \/ e.fiat = None

TaxableLine(e) == ~Excluded(e) /\ e.qty > 0

LegsOf(g, direction) ==
  {n \in Positions : BridgeGroup(ledger[n]) = g /\ ledger[n].direction = direction}

\* scanBridgePairs(): the group has one OUT leg and one IN leg, both with a
\* usable quantity.
Moves(g) ==
  /\ Cardinality(LegsOf(g, "OUT")) = 1 /\ Cardinality(LegsOf(g, "IN")) = 1
  /\ \A n \in LegsOf(g, "OUT") \cup LegsOf(g, "IN") : ledger[n].qty > 0

Pairs == {g \in Bridges : Moves(g)}

Out(g) == CHOOSE n \in LegsOf(g, "OUT") : TRUE
In(g) == CHOOSE n \in LegsOf(g, "IN") : TRUE

\* Fault: the events are folded in the order of the sort.
AsSorted == [n \in Positions |-> n]

\* orderBridgeInsAfterOuts(): an IN leg that sorts before its OUT leg is lifted and
\* put right behind it.
InsAfterOuts ==
  LET inverted == {g \in Pairs : In(g) < Out(g)}
      lifted == {In(g) : g \in inverted}
      behind(n) == SetToSeq({In(g) : g \in {g \in inverted : Out(g) = n}})
  IN FlattenSeq([n \in Positions |-> IF n \in lifted THEN << >> ELSE <<n>> \o behind(n)])

Before(n, m) == \E i, j \in DOMAIN ordered : i < j /\ ordered[i] = n /\ ordered[j] = m

SwapLegs(s, direction) ==
  {n \in Positions : TaxableLine(ledger[n]) /\ ledger[n].swap = s /\ ledger[n].direction = direction}

\* Fault: the fee is charged to an acquisition and to a disposal of the swap.
GasTargetsBoth ==
  {n \in Positions :
     /\ TaxableLine(ledger[n])
     /\ LET s == ledger[n].swap IN
        \/ s = None
        \/ \A m \in SwapLegs(s, ledger[n].direction) : m = n \/ Before(n, m)}

\* planGasAttribution(): an event of no swap bears its own fee; a swap's fee goes to
\* its first acquisition, or to its first disposal if it has none.
GasTargets ==
  {n \in Positions :
     /\ TaxableLine(ledger[n])
     /\ LET s == ledger[n].swap IN
        \/ s = None
        \/ /\ \A m \in SwapLegs(s, ledger[n].direction) : m = n \/ Before(n, m)
           /\ ledger[n].direction = "OUT" => SwapLegs(s, "IN") = {}}

\* The ledger as the database gives it.
Extend(e) ==
  /\ phase = "input" /\ Len(ledger) < MaxEvents
  /\ ledger' = Append(ledger, e)
  /\ UNCHANGED <<phase, withGas, ordered, next, state, escrow, unmatched, results>>

\* The legs of a group that does not move are flagged at the end.
StartFold(gas) ==
  /\ phase = "input"
  /\ phase' = "fold"
  /\ withGas' = gas
  /\ ordered' = InsAfterOuts
  /\ unmatched' = {n \in Positions : \E g \in Bridges \ Pairs : n \in LegsOf(g, "OUT")}
  /\ results' = [n \in Positions |-> NoResult]
  /\ UNCHANGED <<ledger, next, state, escrow>>

-----------------------------------------------------------------------------
(* One event of the fold.                                                   *)

Folds(n) ==
  /\ phase = "fold"
  /\ next <= Len(ordered) /\ ordered[next] = n
  /\ next' = next + 1
  /\ UNCHANGED <<ledger, phase, withGas, ordered>>

Moving(n) == BridgeGroup(ledger[n]) \in Pairs

Moved == [NoResult EXCEPT !.folded = TRUE, !.excluded = TRUE]

Result(n, r) == results' = [results EXCEPT ![n] = r]

\* What leaves a cell that holds less than the quantity is all it holds.
Disposable(cell, qty) == IF qty < cell.qty THEN qty ELSE cell.qty

\* The cost of so much of a cell: quantity times the average.
CostOf(cell, qty) == IF cell.qty = 0 THEN 0 ELSE (cell.cost * qty) \div cell.qty

Less(cell, qty) ==
  LET left == Disposable(cell, qty)
  IN [qty |-> cell.qty - left, cost |-> cell.cost - CostOf(cell, left)]

More(cell, qty, cost) == [qty |-> cell.qty + qty, cost |-> cell.cost + cost]

\* A leg ships its cost when its source accounts for the whole quantity.
BridgeOut(n) ==
  LET e == ledger[n]  cell == state[e.asset] IN
  /\ Folds(n) /\ Moving(n) /\ e.direction = "OUT" /\ cell.qty >= e.qty
  /\ state' = [state EXCEPT ![e.asset] = Less(cell, e.qty)]
  /\ escrow' = [escrow EXCEPT ![e.bridge] = CostOf(cell, e.qty)]
  /\ Result(n, [Moved EXCEPT !.move = "out"])
  /\ UNCHANGED unmatched

\* Fault: the part of the cost that is known travels.
BridgeOutPartly(n) ==
  LET e == ledger[n]  cell == state[e.asset] IN
  /\ Folds(n) /\ Moving(n) /\ e.direction = "OUT" /\ cell.qty < e.qty
  /\ state' = [state EXCEPT ![e.asset] = Less(cell, e.qty)]
  /\ escrow' = [escrow EXCEPT ![e.bridge] = cell.cost]
  /\ Result(n, [Moved EXCEPT !.move = "out"])
  /\ UNCHANGED unmatched

\* A short source ships nothing: what it should have shipped is not known.
BridgeOutShort(n) ==
  LET e == ledger[n]  cell == state[e.asset] IN
  /\ Folds(n) /\ Moving(n) /\ e.direction = "OUT" /\ cell.qty < e.qty
  /\ state' = [state EXCEPT ![e.asset] = Less(cell, e.qty)]
  /\ unmatched' = unmatched \cup {n}
  /\ Result(n, [Moved EXCEPT !.review = "disposal_exceeds_holdings"])
  /\ UNCHANGED escrow

\* The whole cost lands on the quantity that arrived.
BridgeIn(n) ==
  LET e == ledger[n]  cost == escrow[e.bridge] IN
  /\ Folds(n) /\ Moving(n) /\ e.direction = "IN" /\ cost # None
  /\ escrow' = [escrow EXCEPT ![e.bridge] = None]
  /\ state' = [state EXCEPT ![e.asset] = More(@, e.qty, cost)]
  /\ Result(n, [Moved EXCEPT !.move = "in", !.cost = cost])
  /\ UNCHANGED unmatched

\* Nothing was shipped: nothing is credited.
BridgeInEmpty(n) ==
  LET e == ledger[n] IN
  /\ Folds(n) /\ Moving(n) /\ e.direction = "IN" /\ escrow[e.bridge] = None
  /\ unmatched' = unmatched \cup {Out(e.bridge)}
  /\ Result(n, Moved)
  /\ UNCHANGED <<state, escrow>>

Exclude(n) ==
  /\ Folds(n) /\ ~Moving(n) /\ ~TaxableLine(ledger[n])
  /\ Result(n, [NoResult EXCEPT !.folded = TRUE, !.excluded = TRUE])
  /\ UNCHANGED <<state, escrow, unmatched>>

\* The event bears its transaction's fee (gasFiat is present).
Bears(n) == withGas /\ n \in GasTargets

\* The value of the fee, 0 where there is none to reckon with.
GasAmount(n) == IF Bears(n) /\ ledger[n].gas # None THEN ledger[n].gas ELSE 0

GasReview(n) == IF Bears(n) /\ ledger[n].gas = None THEN "gas_unpriced" ELSE None

\* The fee of an acquisition is part of its cost.
Acquire(n) ==
  LET e == ledger[n]  cost == e.fiat + GasAmount(n) IN
  /\ Folds(n) /\ ~Moving(n) /\ TaxableLine(e) /\ e.direction = "IN"
  /\ state' = [state EXCEPT ![e.asset] = More(@, e.qty, cost)]
  /\ Result(n, [NoResult EXCEPT !.folded = TRUE, !.cost = cost, !.bears = Bears(n),
                                !.review = GasReview(n)])
  /\ UNCHANGED <<escrow, unmatched>>

\* The cost of a disposal is that of the quantity the cell holds at most; its fee is
\* taken off the proceeds.
Dispose(n) ==
  LET e == ledger[n]  cell == state[e.asset] IN
  /\ Folds(n) /\ ~Moving(n) /\ TaxableLine(e) /\ e.direction = "OUT"
  /\ state' = [state EXCEPT ![e.asset] = Less(cell, e.qty)]
  /\ Result(n, [NoResult EXCEPT !.folded = TRUE,
       !.cost = CostOf(cell, Disposable(cell, e.qty)),
       !.proceeds = e.fiat - GasAmount(n), !.bears = Bears(n),
       !.review = IF e.qty > cell.qty THEN "disposal_exceeds_holdings" ELSE GasReview(n)])
  /\ UNCHANGED <<escrow, unmatched>>

\* pickReview(): the more severe of two flags; bridge_move_unmatched is only ever
\* joined to none or to disposal_exceeds_holdings.
Flagged(r) == [r EXCEPT !.review = IF @ = "disposal_exceeds_holdings" THEN @
                                   ELSE "bridge_move_unmatched"]

\* The end of the fold: what is still in flight was never received.
Finish ==
  /\ phase = "fold" /\ next > Len(ordered)
  /\ phase' = "done"
  /\ LET lost == unmatched \cup {Out(g) : g \in {g \in Bridges : escrow[g] # None}} IN
     /\ unmatched' = lost
     /\ results' = [n \in Positions |-> IF n \in lost THEN Flagged(results[n]) ELSE results[n]]
  /\ UNCHANGED <<ledger, withGas, ordered, next, state, escrow>>

Next ==
  \/ \E e \in Legs : Extend(e)
  \/ \E gas \in BOOLEAN : StartFold(gas)
  \/ \E n \in Positions :
       \/ BridgeOut(n) \/ BridgeOutShort(n) \/ BridgeIn(n) \/ BridgeInEmpty(n)
       \/ Exclude(n) \/ Acquire(n) \/ Dispose(n)
  \/ Finish

Spec == Init /\ [][Next]_vars

-----------------------------------------------------------------------------
(* Properties.                                                              *)

Folded == {n \in DOMAIN results : results[n].folded}
Acquisitions == {n \in Folded : ~results[n].excluded /\ ledger[n].direction = "IN"}
Disposals == {n \in Folded : ~results[n].excluded /\ ledger[n].direction = "OUT"}
Short == {n \in Folded : results[n].review = "disposal_exceeds_holdings"}

\* Cost is neither made nor lost on its way from acquisitions over bridges to
\* disposals: what was paid is in the cells, in flight or recognized in a disposal,
\* and only a bridge leg with a short source, which is flagged, gives some of it up
\* (cost-basis.ts:466-477, 554-556).
CostIsKept ==
  LET paid == MapThenSumSet(LAMBDA n : results[n].cost, Acquisitions)
      sold == MapThenSumSet(LAMBDA n : results[n].cost, Disposals)
      held == MapThenSumSet(LAMBDA a : state[a].cost, Assets)
      flying == MapThenSumSet(LAMBDA g : escrow[g], {g \in Bridges : escrow[g] # None})
  IN /\ held + sold + flying <= paid
     /\ Short \cap {n \in Folded : Moving(n)} = {} => held + sold + flying = paid

\* The same of quantities, per asset: as long as no leg of the asset is flagged, a
\* cell holds what was acquired and received less what was disposed of and shipped.
QuantityIsKept ==
  \A a \in Assets :
    LET sum(S) == MapThenSumSet(LAMBDA n : ledger[n].qty, {n \in S : ledger[n].asset = a})
    IN (\A n \in Short : ledger[n].asset # a) =>
         state[a].qty = sum(Acquisitions) + sum({n \in Folded : results[n].move = "in"})
                        - sum(Disposals) - sum({n \in Folded : results[n].move = "out"})

\* Neither cost nor quantity is made or lost.
Conserved == CostIsKept /\ QuantityIsKept

\* When the fold is over every event was folded, and a bridge leg that left either
\* reached its other leg with its cost or says that it did not: a pair whose source
\* was sufficient always moves, in whichever order the legs were sorted, and any
\* other OUT leg of a group is flagged (cost-basis.ts:244-258, 484-488).
PairsMove ==
  phase = "done" =>
    /\ Folded = Positions
    /\ \A g \in Pairs : IF Out(g) \in Short THEN results[In(g)].move = None
                        ELSE results[Out(g)].move = "out" /\ results[In(g)].move = "in"
    /\ \A g \in Bridges : \A n \in LegsOf(g, "OUT") :
         results[n].review = None => g \in Pairs /\ results[n].move = "out"

\* A transaction pays its fee once: of the legs of a swap exactly one bears it, unless
\* none can, and a bridge leg or an excluded one never does (cost-basis.ts:289-298).
GasOnce ==
  phase = "done" /\ withGas =>
    LET bearers == {n \in Positions : results[n].bears} IN
    /\ \A n \in bearers : ~results[n].excluded
    /\ \A s \in Swaps :
         LET taxable == SwapLegs(s, "IN") \cup SwapLegs(s, "OUT")
         IN taxable # {} => Cardinality(taxable \cap bearers) = 1
=============================================================================
