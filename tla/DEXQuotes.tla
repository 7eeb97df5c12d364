----------------------------- MODULE DEXQuotes -----------------------------
(***************************************************************************)
(* get_best_price of the dex-router contract: an insertion sort of the live *)
(* orders of a bond followed by a greedy fill, compared with the cheapest   *)
(* of all ways to fill the amount.                                          *)
(***************************************************************************)
EXTENDS DEXRouter, SequencesExt

(* MUTANT of Precedes: both sides sort by ascending price. *)
Precedes_Ascending(side, o, c) ==
  \/ order[o].price_per_token < order[c].price_per_token
  \/ order[o].price_per_token = order[c].price_per_token /\ o < c

(* Whether o goes before c: best price first, older order first. *)
Precedes(side, o, c) ==
  LET p == order[o].price_per_token
      q == order[c].price_per_token
  IN (IF side = "Buy" THEN p < q ELSE p > q) \/ (p = q /\ o < c)

(* The insertion: in front of the first entry that o precedes. *)
InsertOrder(side, sorted, o) ==
  LET position == SelectInSeq(sorted, LAMBDA c : Precedes(side, o, c)) IN
  IF position = 0 THEN Append(sorted, o) ELSE InsertAt(sorted, position, o)

Quotable(o) == order[o].status \in Live /\ order[o].amount > 0 /\ ~is_order_expired(o)

SortedOrders(b, side) ==
  FoldLeft(LAMBDA sorted, o : InsertOrder(side, sorted, o), <<>>,
           SelectSeq(get_bond_orders(b), Quotable))

(* The greedy fill takes as much as it can from each order in turn. *)
TakeFrom(fill, o) ==
  LET take == IF fill.remaining < order[o].amount THEN fill.remaining ELSE order[o].amount IN
  [remaining |-> fill.remaining - take, filled |-> fill.filled + take,
   total |-> fill.total + take * order[o].price_per_token]

(* (average_price, total, slippage_bps), for a positive amount. *)
get_best_price(b, side, amount) ==
  LET sorted == SortedOrders(b, side)
      fill == FoldLeft(TakeFrom, [remaining |-> amount, filled |-> 0, total |-> 0], sorted)
      ideal == fill.filled * order[sorted[1]].price_per_token
      adverse == IF side = "Buy" THEN fill.total - ideal ELSE ideal - fill.total
  IN IF sorted = <<>> THEN <<0, 0, 0>>
     ELSE <<fill.total \div fill.filled, fill.total, (adverse * 10000) \div ideal>>

-----------------------------------------------------------------------------
(* Properties *)

(* The ways to take at most n tokens from the quotable orders of a bond. *)
Fills(b, n) ==
  LET live == {o \in 1 .. order_count : order[o].bond_id = b /\ Quotable(o)} IN
  {f \in [live -> 0 .. n] :
     (\A o \in live : f[o] <= order[o].amount) /\ Total(live, f) <= n}

Cost(f) == Total(DOMAIN f, [o \in DOMAIN f |-> f[o] * order[o].price_per_token])

(* get_best_price quotes the best fill of as much of the amount as the      *)
(* order book can serve: the cheapest one for a buyer, the dearest one for  *)
(* a seller, for every book that listings, fills, cancellations and         *)
(* expiries can leave behind; and its slippage is never negative.           *)
QuoteIsBest ==
  \A b \in BondIds, side \in {"Buy", "Sell"}, n \in {a \in Amounts : a > 0} :
    LET quote == get_best_price(b, side, n)
        most == Max({Total(DOMAIN f, f) : f \in Fills(b, n)})
        costs == {Cost(f) : f \in {g \in Fills(b, n) : Total(DOMAIN g, g) = most}}
    IN /\ quote[2] = (IF side = "Buy" THEN Min(costs) ELSE Max(costs))
       /\ quote[3] >= 0
=============================================================================
