-------------------------- MODULE DEXRouterProofs --------------------------
(* The order book and the quote balances of the router, settling through    *)
(* the bond issuer, for any accounts, bonds, orders, prices and deposits.   *)
(* And, apart from it, the API's mirror of the contracts' nonces, for any   *)
(* number of concurrent requests and of losses of Redis data.               *)
EXTENDS DEXRouter, BondIssuerProofs, NonceMirror

OrderRecords ==
  [status : {"Open", "PartiallyFilled", "Filled", "Cancelled", "Expired"},
   seller : Addresses, bond_id : BondIds, amount : Nat, price_per_token : Nat,
   quote_asset : QuoteAssets, expires_at : Nat]

(* Ids are handed out in order; an entry has the fields the calls read.     *)
BookTypeOK ==
  /\ order_count \in 0 .. MaxOrders
  /\ DOMAIN order = OrderIds
  /\ \A o \in OrderIds : /\ o <= order_count => order[o] \in OrderRecords
                         /\ o > order_count => order[o] = NoOrder /\ sold[o] = 0
  /\ seller_orders \in [Addresses -> Seq(OrderIds)]
  /\ bond_orders \in [BondIds -> Seq(OrderIds)]
  /\ listed \in [OrderIds -> Nat]
  /\ sold \in [OrderIds -> Nat]

QuotesAddUp ==
  /\ quote_balance \in [QuoteAssets -> [Addresses -> Nat]]
  /\ deposited \in [QuoteAssets -> Nat]
  /\ \A q \in QuoteAssets :
       /\ IsFiniteSet(UnitsOf(Addresses, quote_balance[q]))
       /\ Total(Addresses, quote_balance[q]) = deposited[q]

FillsAddUp ==
  \A o \in 1 .. order_count :
    /\ order[o].status = "Filled" => sold[o] = listed[o]
    /\ order[o].status # "Filled" => sold[o] + order[o].amount = listed[o]
    /\ order[o].status = "Open" => sold[o] = 0
    /\ order[o].status = "PartiallyFilled" => sold[o] > 0

OrdersIndexed ==
  \A o \in 1 .. order_count :
    /\ \E i \in 1 .. Len(seller_orders[order[o].seller]) : seller_orders[order[o].seller][i] = o
    /\ \E i \in 1 .. Len(bond_orders[order[o].bond_id]) : bond_orders[order[o].bond_id][i] = o

(* The inductive invariant, beside that of the issuer: withdraw_quote       *)
(* leaves deposited a natural because it is the sum of the balances.        *)
BookInv == BookTypeOK /\ FillsAddUp /\ OrdersIndexed
DEXInv == IInv /\ BookInv /\ QuotesAddUp

-----------------------------------------------------------------------------
(* Nothing is listed or deposited at first.                                 *)
LEMMA DEXInvInit == DEXInit => DEXInv
<1> SUFFICES ASSUME DEXInit
             PROVE  DEXInv
  OBVIOUS
<1> USE DEXAssumption DEF DEXInit
<1>1. IInv
  BY IInvInit
<1>2. BookTypeOK
  BY DEF BookTypeOK, OrderIds, NoOrder
<1>3. QuotesAddUp
  BY TotalZero DEF QuotesAddUp
<1>4. FillsAddUp /\ OrdersIndexed
  BY DEF FillsAddUp, OrdersIndexed
<1> QED
  BY <1>1, <1>2, <1>3, <1>4 DEF DEXInv, BookInv

(* Only an order that was listed can be open.                               *)
LEMMA LiveIsListed ==
  ASSUME BookTypeOK, NEW o \in OrderIds, order[o].status \in Live
  PROVE  o \in 1 .. order_count /\ order[o] \in OrderRecords
<1>1. NoOrder.status \notin Live
  BY DEF NoOrder, Live
<1>2. o \in Nat /\ 1 <= o /\ order_count \in Nat
  BY DEXAssumption DEF BookTypeOK, OrderIds
<1>3. ~(o > order_count)
  BY <1>1 DEF BookTypeOK
<1> QED
  BY <1>2, <1>3 DEF BookTypeOK

(* A step of the router is a step of the issuer or leaves it alone:         *)
(* purchases reach it through its own transfer.                             *)
LEMMA DEXIsIssuerStep ==
  ASSUME DEXInv, [DEXNext]_dexAllVars
  PROVE  [Next]_vars
<1>1. ASSUME NEW buyer \in Addresses, NEW o \in OrderIds, NEW max_price \in Prices,
             NEW amount \in Amounts, execute_purchase(buyer, o, max_price, amount), UNCHANGED now
      PROVE  Next
  <2>1. order[o].status \in Live /\ transfer(order[o].seller, buyer, order[o].bond_id, amount)
    BY <1>1, Zenon DEF execute_purchase, Purchasable
  <2>2. order[o].seller \in Addresses /\ order[o].bond_id \in BondIds
    BY <2>1, LiveIsListed DEF DEXInv, BookInv, OrderRecords
  <2> QED
    BY <1>1, <2>1, <2>2 DEF Next, IssuerCall
<1>2. ASSUME UNCHANGED issuerVars, UNCHANGED now
      PROVE  UNCHANGED vars
  BY <1>2 DEF vars
<1> QED
  BY <1>1, <1>2, Zenon DEF DEXNext, DEXCall, dexAllVars, list_bond_tokens, cancel_listing,
     deposit_quote, withdraw_quote, clean_expired_orders_range

-----------------------------------------------------------------------------
(* Quote balances *)

(* deposit_quote and withdraw_quote change one balance and the deposits of  *)
(* the asset by the same amount.                                            *)
LEMMA DepositStep ==
  ASSUME DEXInv, NEW caller \in Addresses, NEW asset \in QuoteAssets, NEW amount \in Deposits,
         deposit_quote(caller, asset, amount) \/ withdraw_quote(caller, asset, amount)
  PROVE  QuotesAddUp'
<1> DEFINE f == quote_balance[asset]
<1>0. /\ f \in [Addresses -> Nat] /\ deposited[asset] \in Nat
      /\ IsFiniteSet(UnitsOf(Addresses, f)) /\ Total(Addresses, f) = deposited[asset]
  BY DEF DEXInv, QuotesAddUp
<1>1. /\ quote_balance \in [QuoteAssets -> [Addresses -> Nat]]
      /\ deposited \in [QuoteAssets -> Nat]
  BY DEF DEXInv, QuotesAddUp
<1>2. ASSUME NEW g \in [Addresses -> Nat], NEW d \in Nat,
             quote_balance' = [quote_balance EXCEPT ![asset] = g],
             deposited' = [deposited EXCEPT ![asset] = d],
             IsFiniteSet(UnitsOf(Addresses, g)), Total(Addresses, g) = d
      PROVE  QuotesAddUp'
  BY <1>1, <1>2 DEF DEXInv, QuotesAddUp
<1>3. CASE deposit_quote(caller, asset, amount)
  <2> DEFINE g == [f EXCEPT ![caller] = @ + amount]
  <2>1. amount \in Nat
    BY <1>3, DEXAssumption DEF deposit_quote
  <2>2. g \in [Addresses -> Nat] /\ g[caller] = f[caller] + amount
        /\ \A y \in Addresses \ {caller} : g[y] = f[y]
    BY <1>0, <2>1
  <2>3. /\ quote_balance' = [quote_balance EXCEPT ![asset] = g]
        /\ deposited' = [deposited EXCEPT ![asset] = deposited[asset] + amount]
    BY <1>3 DEF deposit_quote
  <2> HIDE DEF f, g
  <2>4. /\ IsFiniteSet(UnitsOf(Addresses, g))
        /\ Total(Addresses, g) = Total(Addresses, f) + amount
    BY ONLY <1>0, <2>1, <2>2, TotalRaised, caller \in Addresses
  <2>5. Total(Addresses, g) = deposited[asset] + amount /\ deposited[asset] + amount \in Nat
    BY <1>0, <2>1, <2>4
  <2> QED
    BY <1>0, <1>1, <1>2, <2>1, <2>2, <2>3, <2>4, <2>5, Zenon
<1>4. CASE withdraw_quote(caller, asset, amount)
  <2> DEFINE g == [f EXCEPT ![caller] = @ - amount]
  <2>1. amount \in Nat /\ f[caller] >= amount
    BY <1>4, DEXAssumption DEF withdraw_quote, CanWithdraw, get_quote_balance
  <2>2. g \in [Addresses -> Nat] /\ f[caller] = g[caller] + amount
        /\ \A y \in Addresses \ {caller} : g[y] = f[y]
    BY <1>0, <2>1
  <2>3. /\ quote_balance' = [quote_balance EXCEPT ![asset] = g]
        /\ deposited' = [deposited EXCEPT ![asset] = deposited[asset] - amount]
    BY <1>4 DEF withdraw_quote
  <2> HIDE DEF f, g
  <2>4. /\ IsFiniteSet(UnitsOf(Addresses, g)) /\ Total(Addresses, g) \in Nat
        /\ Total(Addresses, g) = Total(Addresses, f) - amount
    BY ONLY <1>0, <2>1, <2>2, TotalLowered, caller \in Addresses
  <2>5. Total(Addresses, g) = deposited[asset] - amount /\ deposited[asset] - amount \in Nat
    BY <1>0, <2>1, <2>4
  <2> QED
    BY <1>0, <1>1, <1>2, <2>1, <2>2, <2>3, <2>4, <2>5, Zenon
<1> QED
  BY <1>3, <1>4

(* The facts of a purchase: who, what and how much changes hands.           *)
LEMMA PurchaseFacts ==
  ASSUME DEXInv, NEW buyer \in Addresses, NEW o \in OrderIds, NEW max_price \in Prices,
         NEW amount \in Amounts, execute_purchase(buyer, o, max_price, amount)
  PROVE  /\ o \in 1 .. order_count /\ order[o] \in OrderRecords /\ order[o].status \in Live
         /\ amount \in Nat /\ amount > 0 /\ amount <= order[o].amount
         /\ now < order[o].expires_at
         /\ order[o].seller # buyer
         /\ amount * order[o].price_per_token \in Nat
         /\ PayQuote(order[o].quote_asset, buyer, order[o].seller, amount * order[o].price_per_token)
         /\ transfer(order[o].seller, buyer, order[o].bond_id, amount)
         /\ FillOrder(o, amount)
         /\ sold' = [sold EXCEPT ![o] = @ + amount]
         /\ UNCHANGED <<order_count, seller_orders, bond_orders, listed, deposited>>
<1>1. /\ Purchasable(buyer, o, max_price, amount)
      /\ PayQuote(order[o].quote_asset, buyer, order[o].seller, amount * order[o].price_per_token)
      /\ transfer(order[o].seller, buyer, order[o].bond_id, amount)
      /\ FillOrder(o, amount)
      /\ sold' = [sold EXCEPT ![o] = @ + amount]
      /\ UNCHANGED <<order_count, seller_orders, bond_orders, listed, deposited>>
  BY Zenon DEF execute_purchase
<1>2. /\ order[o].status \in Live /\ buyer # order[o].seller /\ ~is_order_expired(o)
      /\ amount > 0 /\ amount <= order[o].amount
  BY <1>1 DEF Purchasable
<1>3. o \in 1 .. order_count /\ order[o] \in OrderRecords
  BY <1>2, LiveIsListed DEF DEXInv, BookInv
<1>4. amount \in Nat
  BY <1>2, IssuerAssumption
<1>5. /\ order[o].price_per_token \in Nat /\ order[o].expires_at \in Nat
      /\ now \in Nat
  BY <1>3, IssuerAssumption DEF OrderRecords, DEXInv, IInv, TypeOK
<1>6. amount * order[o].price_per_token \in Nat
  BY <1>4, <1>5
<1>7. now < order[o].expires_at
  BY <1>2, <1>5 DEF is_order_expired
<1> QED
  BY <1>1, <1>2, <1>3, <1>4, <1>6, <1>7

(* A purchase moves the price from the buyer to the seller.                 *)
LEMMA PaymentStep ==
  ASSUME DEXInv, NEW buyer \in Addresses, NEW o \in OrderIds, NEW max_price \in Prices,
         NEW amount \in Amounts, execute_purchase(buyer, o, max_price, amount)
  PROVE  QuotesAddUp'
<1> DEFINE q == order[o].quote_asset
           seller == order[o].seller
           due == amount * order[o].price_per_token
           f == quote_balance[q]
           g == [f EXCEPT ![buyer] = @ - due, ![seller] = @ + due]
<1>1. /\ q \in QuoteAssets /\ seller \in Addresses /\ buyer # seller /\ due \in Nat
      /\ PayQuote(q, buyer, seller, due) /\ deposited' = deposited
  BY PurchaseFacts DEF OrderRecords
<1> HIDE DEF q, seller, due
<1>2. /\ quote_balance \in [QuoteAssets -> [Addresses -> Nat]]
      /\ deposited \in [QuoteAssets -> Nat] /\ f \in [Addresses -> Nat]
      /\ IsFiniteSet(UnitsOf(Addresses, f)) /\ Total(Addresses, f) = deposited[q]
  BY <1>1 DEF DEXInv, QuotesAddUp
<1>3. f[buyer] >= due /\ quote_balance' = [quote_balance EXCEPT ![q] = g]
  BY <1>1, Zenon DEF PayQuote, get_quote_balance
<1>4. /\ g \in [Addresses -> Nat]
      /\ IsFiniteSet(UnitsOf(Addresses, g)) /\ Total(Addresses, g) = Total(Addresses, f)
  <2>1. /\ g \in [Addresses -> Nat] /\ f[buyer] = g[buyer] + due /\ g[seller] = f[seller] + due
        /\ \A a \in Addresses \ {buyer, seller} : g[a] = f[a]
    BY <1>1, <1>2, <1>3
  <2> HIDE DEF f, g
  <2>2. IsFiniteSet(UnitsOf(Addresses, g)) /\ Total(Addresses, g) = Total(Addresses, f)
    <3>1. /\ seller \in Addresses \ {buyer} /\ due \in Nat
          /\ f \in [Addresses -> Nat] /\ IsFiniteSet(UnitsOf(Addresses, f))
      BY <1>1, <1>2
    <3> QED
      BY ONLY <2>1, <3>1, TotalMoved, buyer \in Addresses
  <2> QED
    BY <2>1, <2>2
<1> HIDE DEF f, g
<1> QED
  BY <1>1, <1>2, <1>3, <1>4 DEF DEXInv, QuotesAddUp

-----------------------------------------------------------------------------
(* The order book *)

(* An order whose status, or status and amount, is set keeps its other      *)
(* fields.                                                                  *)
SameOffer(new, old) ==
  /\ new \in OrderRecords
  /\ new.seller = old.seller /\ new.bond_id = old.bond_id
  /\ new.price_per_token = old.price_per_token /\ new.quote_asset = old.quote_asset
  /\ new.expires_at = old.expires_at

LEMMA StatusSet ==
  ASSUME NEW offer \in OrderRecords,
         NEW to \in {"PartiallyFilled", "Filled", "Cancelled", "Expired"}
  PROVE  LET new == [offer EXCEPT !.status = to] IN
         SameOffer(new, offer) /\ new.status = to /\ new.amount = offer.amount
  BY Zenon DEF OrderRecords, SameOffer

LEMMA RemainderSet ==
  ASSUME NEW offer \in OrderRecords, NEW rest \in Nat
  PROVE  LET new == [offer EXCEPT !.status = "PartiallyFilled", !.amount = rest] IN
         SameOffer(new, offer) /\ new.status = "PartiallyFilled" /\ new.amount = rest
<1> DEFINE mid == [offer EXCEPT !.status = "PartiallyFilled"]
           new == [mid EXCEPT !.amount = rest]
<1>1. SameOffer(mid, offer) /\ mid.status = "PartiallyFilled"
  BY StatusSet, Zenon
<1> HIDE DEF mid
<1>2. SameOffer(new, mid) /\ new.status = mid.status /\ new.amount = rest
  BY <1>1, Zenon DEF OrderRecords, SameOffer
<1>3. SameOffer(new, offer) /\ new.status = "PartiallyFilled" /\ new.amount = rest
  BY <1>1, <1>2, Zenon DEF SameOffer
<1> QED
  BY <1>3 DEF mid

(* Calls that update listed orders in place keep the book's types and       *)
(* indexes; what they must show is that the fills still add up.             *)
LEMMA UpdatesKeepBook ==
  ASSUME BookInv, DOMAIN order' = OrderIds,
         \A o \in 1 .. order_count : SameOffer(order'[o], order[o]),
         \A o \in OrderIds : o > order_count => order'[o] = order[o] /\ sold'[o] = sold[o],
         sold' \in [OrderIds -> Nat],
         UNCHANGED <<order_count, seller_orders, bond_orders, listed>>,
         FillsAddUp'
  PROVE  BookInv'
<1>1. order_count \in Nat /\ order_count <= MaxOrders
  BY DEXAssumption DEF BookInv, BookTypeOK
<1>2. \A o \in OrderIds : o <= order_count => o \in 1 .. order_count
  BY <1>1, DEXAssumption DEF OrderIds
<1>3. BookTypeOK'
  BY <1>1, <1>2 DEF BookInv, BookTypeOK, SameOffer
<1>4. OrdersIndexed'
  BY DEF BookInv, OrdersIndexed, SameOffer
<1> QED
  BY <1>3, <1>4 DEF BookInv

(* A call that replaces one listed order by what remains of it.             *)
LEMMA OrderReplaced ==
  ASSUME BookInv, NEW o \in 1 .. order_count, NEW new, NEW k \in Nat,
         order' = [order EXCEPT ![o] = new], SameOffer(new, order[o]),
         sold' = [sold EXCEPT ![o] = @ + k],
         UNCHANGED <<order_count, seller_orders, bond_orders, listed>>,
         order[o].status \in Live,
         \/ new.status = "Filled" /\ k = order[o].amount
         \/ new.status = "PartiallyFilled" /\ k > 0 /\ new.amount = order[o].amount - k
         \/ new.status \in {"Cancelled", "Expired"} /\ k = 0 /\ new.amount = order[o].amount
  PROVE  BookInv'
<1>1. order_count \in Nat /\ order_count <= MaxOrders /\ MaxOrders \in Nat
  BY DEXAssumption DEF BookInv, BookTypeOK
<1>2. o \in OrderIds /\ DOMAIN order = OrderIds /\ sold \in [OrderIds -> Nat]
  BY <1>1 DEF BookInv, BookTypeOK, OrderIds
<1>3. /\ DOMAIN order' = OrderIds /\ order'[o] = new
      /\ \A c \in OrderIds \ {o} : order'[c] = order[c]
      /\ sold' \in [OrderIds -> Nat] /\ sold'[o] = sold[o] + k
      /\ \A c \in OrderIds \ {o} : sold'[c] = sold[c]
  BY <1>2
<1>4. \A c \in 1 .. order_count : c \in OrderIds /\ order[c] \in OrderRecords
  BY <1>1 DEF BookInv, BookTypeOK, OrderIds
<1>5. \A c \in 1 .. order_count : SameOffer(order'[c], order[c])
  BY <1>3, <1>4 DEF SameOffer
<1>6. FillsAddUp'
  <2> SUFFICES ASSUME NEW c \in 1 .. order_count
               PROVE  /\ order'[c].status = "Filled" => sold'[c] = listed[c]
                      /\ order'[c].status # "Filled" => sold'[c] + order'[c].amount = listed[c]
                      /\ order'[c].status = "Open" => sold'[c] = 0
                      /\ order'[c].status = "PartiallyFilled" => sold'[c] > 0
    BY DEF FillsAddUp
  <2>1. CASE c # o
    BY <1>3, <1>4, <2>1 DEF BookInv, FillsAddUp
  <2>2. CASE c = o
    <3>1. sold[o] \in Nat /\ order[o].amount \in Nat /\ sold[o] + order[o].amount = listed[o]
      BY <1>2, <1>4 DEF BookInv, FillsAddUp, Live, OrderRecords
    <3> QED
      BY <1>3, <2>2, <3>1
  <2> QED
    BY <2>1, <2>2
<1> QED
  BY <1>1, <1>2, <1>3, <1>5, <1>6, UpdatesKeepBook

(* cancel_listing closes an open order.                                     *)
LEMMA CancelStep ==
  ASSUME BookInv, NEW caller \in Addresses, NEW o \in OrderIds, cancel_listing(caller, o)
  PROVE  BookInv'
<1>1. /\ order[o].status \in Live
      /\ order' = [order EXCEPT ![o].status = "Cancelled"]
      /\ UNCHANGED <<order_count, seller_orders, bond_orders, listed, sold>>
  BY Zenon DEF cancel_listing, MayCancel
<1> DEFINE new == [order[o] EXCEPT !.status = "Cancelled"]
<1>2. o \in 1 .. order_count /\ order[o] \in OrderRecords
  BY <1>1, LiveIsListed DEF BookInv
<1>3. SameOffer(new, order[o]) /\ new.status = "Cancelled" /\ new.amount = order[o].amount
  BY <1>2, StatusSet, Zenon
<1>4. order' = [order EXCEPT ![o] = new]
  BY <1>1
<1> HIDE DEF new
<1>5. sold' = [sold EXCEPT ![o] = @ + 0]
  BY <1>1, <1>2 DEF BookInv, BookTypeOK, OrderIds
<1> QED
  BY <1>1, <1>2, <1>3, <1>4, <1>5, OrderReplaced, Zenon

(* A purchase fills the order, or leaves what the buyer did not take.       *)
LEMMA FillStep ==
  ASSUME DEXInv, NEW buyer \in Addresses, NEW o \in OrderIds, NEW max_price \in Prices,
         NEW amount \in Amounts, execute_purchase(buyer, o, max_price, amount)
  PROVE  BookInv'
<1>1. /\ o \in 1 .. order_count /\ order[o] \in OrderRecords /\ order[o].status \in Live
      /\ amount \in Nat /\ amount > 0 /\ amount <= order[o].amount
      /\ FillOrder(o, amount)
      /\ sold' = [sold EXCEPT ![o] = @ + amount]
      /\ UNCHANGED <<order_count, seller_orders, bond_orders, listed>>
  BY PurchaseFacts
<1>2. BookInv /\ order[o].amount - amount \in Nat
  BY <1>1 DEF DEXInv, OrderRecords
<1>3. CASE amount = order[o].amount
  <2> DEFINE new == [order[o] EXCEPT !.status = "Filled"]
  <2>1. order' = [order EXCEPT ![o] = new]
    BY <1>1, <1>3, Zenon DEF FillOrder
  <2>2. SameOffer(new, order[o]) /\ new.status = "Filled"
    BY <1>1, StatusSet, Zenon
  <2> HIDE DEF new
  <2> QED
    BY <1>1, <1>2, <1>3, <2>1, <2>2, OrderReplaced, Zenon
<1>4. CASE amount # order[o].amount
  <2> DEFINE rest == order[o].amount - amount
             new == [order[o] EXCEPT !.status = "PartiallyFilled", !.amount = rest]
  <2>1. order' = [order EXCEPT ![o] = new]
    BY <1>1, <1>4, Zenon DEF FillOrder
  <2>2. rest \in Nat
    BY <1>2
  <2> HIDE DEF rest
  <2>3. SameOffer(new, order[o]) /\ new.status = "PartiallyFilled" /\ new.amount = rest
    BY <1>1, <2>2, RemainderSet, Zenon
  <2> HIDE DEF new
  <2>4. new.amount = order[o].amount - amount
    BY <2>3 DEF rest
  <2> QED
    BY <1>1, <1>2, <2>1, <2>3, <2>4, OrderReplaced, Zenon
<1> QED
  BY <1>3, <1>4

(* clean_expired_orders_range closes what has expired, and nothing else.    *)
LEMMA CleanStep ==
  ASSUME BookInv, NEW caller \in Addresses, NEW start_id \in OrderIds, NEW end_id \in OrderIds,
         clean_expired_orders_range(caller, start_id, end_id)
  PROVE  BookInv'
<1> DEFINE Closes(o) == o \in start_id .. end_id /\ order[o].status \in Live /\ is_order_expired(o)
<1>1. /\ order' = [o \in OrderIds |-> IF Closes(o) THEN [order[o] EXCEPT !.status = "Expired"]
                                                   ELSE order[o]]
      /\ UNCHANGED <<order_count, seller_orders, bond_orders, listed, sold>>
  BY Zenon DEF clean_expired_orders_range
<1>2. DOMAIN order' = OrderIds
  BY <1>1, Zenon
<1>3. ASSUME NEW o \in 1 .. order_count
      PROVE  /\ o \in OrderIds
             /\ SameOffer(order'[o], order[o]) /\ order'[o].amount = order[o].amount
             /\ \/ order'[o].status = order[o].status
                \/ order[o].status \in Live /\ order'[o].status = "Expired"
  <2>1. o \in OrderIds /\ order[o] \in OrderRecords
    BY DEXAssumption DEF BookInv, BookTypeOK, OrderIds
  <2>2. CASE Closes(o)
    <3> DEFINE new == [order[o] EXCEPT !.status = "Expired"]
    <3>1. order'[o] = new
      BY <1>1, <2>1, <2>2, Zenon
    <3>2. SameOffer(new, order[o]) /\ new.status = "Expired" /\ new.amount = order[o].amount
      BY <2>1, StatusSet, Zenon
    <3> HIDE DEF new
    <3> QED
      BY <2>1, <2>2, <3>1, <3>2
  <2>3. CASE ~Closes(o)
    <3>1. order'[o] = order[o]
      BY <1>1, <2>1, <2>3, Zenon
    <3> QED
      BY <2>1, <3>1 DEF SameOffer
  <2> QED
    BY <2>2, <2>3
<1>4. ASSUME NEW o \in OrderIds, o > order_count
      PROVE  order'[o] = order[o]
  <2>1. ~(o \in 1 .. order_count)
    BY <1>4, DEXAssumption DEF BookInv, BookTypeOK, OrderIds
  <2>2. ~Closes(o)
    BY <2>1, LiveIsListed DEF BookInv
  <2> QED
    BY <1>1, <2>2, Zenon
<1>5. FillsAddUp'
  <2> SUFFICES ASSUME NEW o \in 1 .. order_count
               PROVE  /\ order'[o].status = "Filled" => sold[o] = listed[o]
                      /\ order'[o].status # "Filled" => sold[o] + order'[o].amount = listed[o]
                      /\ order'[o].status = "Open" => sold[o] = 0
                      /\ order'[o].status = "PartiallyFilled" => sold[o] > 0
    BY <1>1 DEF FillsAddUp
  <2>1. /\ order[o].status = "Filled" => sold[o] = listed[o]
        /\ order[o].status # "Filled" => sold[o] + order[o].amount = listed[o]
        /\ order[o].status = "Open" => sold[o] = 0
        /\ order[o].status = "PartiallyFilled" => sold[o] > 0
    BY DEF BookInv, FillsAddUp
  <2>2. /\ order'[o].amount = order[o].amount
        /\ \/ order'[o].status = order[o].status
           \/ order[o].status \in Live /\ order'[o].status = "Expired"
    BY <1>3
  <2> QED
    BY ONLY <2>1, <2>2 DEF Live
<1> QED
  BY <1>1, <1>2, <1>3, <1>4, <1>5, UpdatesKeepBook, Zenon DEF BookInv, BookTypeOK

(* Appending to a sequence keeps what it holds and adds the new element.    *)
LEMMA StillFound ==
  ASSUME NEW S, NEW s \in Seq(S), NEW x \in S
  PROVE  /\ Append(s, x) \in Seq(S)
         /\ \E i \in 1 .. Len(Append(s, x)) : Append(s, x)[i] = x
         /\ \A y : (\E i \in 1 .. Len(s) : s[i] = y)
                     => \E i \in 1 .. Len(Append(s, x)) : Append(s, x)[i] = y
<1>1. /\ Append(s, x) \in Seq(S) /\ Len(Append(s, x)) = Len(s) + 1 /\ Len(s) \in Nat
      /\ Append(s, x)[Len(s) + 1] = x /\ \A i \in 1 .. Len(s) : Append(s, x)[i] = s[i]
  OBVIOUS
<1> QED
  BY <1>1

LEMMA IndexAdded ==
  ASSUME NEW D, NEW S, NEW index \in [D -> Seq(S)], NEW d \in D, NEW x \in S, NEW new,
         new = [index EXCEPT ![d] = Append(@, x)]
  PROVE  /\ new \in [D -> Seq(S)]
         /\ \E i \in 1 .. Len(new[d]) : new[d][i] = x
         /\ \A e \in D, y \in S : (\E i \in 1 .. Len(index[e]) : index[e][i] = y)
                                => \E i \in 1 .. Len(new[e]) : new[e][i] = y
<1>1. /\ index[d] \in Seq(S) /\ new[d] = Append(index[d], x)
      /\ \A e \in D \ {d} : new[e] = index[e]
  OBVIOUS
<1>2. /\ Append(index[d], x) \in Seq(S)
      /\ \E i \in 1 .. Len(new[d]) : new[d][i] = x
      /\ \A y : (\E i \in 1 .. Len(index[d]) : index[d][i] = y)
                  => \E i \in 1 .. Len(new[d]) : new[d][i] = y
  BY <1>1, StillFound
<1>3. new \in [D -> Seq(S)]
  BY <1>2
<1>4. ASSUME NEW e \in D, NEW y \in S, \E i \in 1 .. Len(index[e]) : index[e][i] = y
      PROVE  \E i \in 1 .. Len(new[e]) : new[e][i] = y
  <2>1. CASE e = d
    BY <1>2, <1>4, <2>1
  <2>2. CASE e # d
    BY <1>1, <1>4, <2>2
  <2> QED
    BY <2>1, <2>2
<1> QED
  BY <1>2, <1>3, <1>4

(* list_bond_tokens adds an order, under its seller and its bond.           *)
LEMMA ListStep ==
  ASSUME DEXInv, NEW seller \in Addresses, NEW b \in BondIds, NEW amount \in Amounts,
         NEW price \in Prices, NEW asset \in QuoteAssets, NEW life \in Lifetimes,
         list_bond_tokens(seller, b, amount, price, asset, life)
  PROVE  BookInv'
<1> DEFINE id == order_count + 1
           new == [status |-> "Open", seller |-> seller, bond_id |-> b, amount |-> amount,
                   price_per_token |-> price, quote_asset |-> asset, expires_at |-> now + life]
<1>1. /\ id \in OrderIds /\ amount > 0 /\ price > 0
      /\ order_count' = id /\ order' = [order EXCEPT ![id] = new]
      /\ seller_orders' = [seller_orders EXCEPT ![seller] = Append(@, id)]
      /\ bond_orders' = [bond_orders EXCEPT ![b] = Append(@, id)]
      /\ listed' = [listed EXCEPT ![id] = amount] /\ sold' = sold
  BY Zenon DEF list_bond_tokens
<1>2. /\ amount \in Nat /\ price \in Nat /\ now + life \in Nat
      /\ order_count \in Nat /\ MaxOrders \in Nat /\ id <= MaxOrders
  <2>1. amount \in Int /\ price \in Int /\ life \in Nat /\ MaxOrders \in Nat
    BY IssuerAssumption, DEXAssumption, Zenon
  <2>2. now \in Nat /\ order_count \in 0 .. MaxOrders
    BY DEF DEXInv, IInv, TypeOK, BookInv, BookTypeOK
  <2>3. id \in 1 .. MaxOrders
    BY <1>1, Zenon DEF OrderIds
  <2> QED
    BY ONLY <1>1, <2>1, <2>2, <2>3
<1>3. new \in OrderRecords /\ new.status = "Open" /\ new.seller = seller /\ new.bond_id = b
      /\ new.amount = amount
  BY <1>2 DEF OrderRecords
<1> HIDE DEF new
<1>4. BookTypeOK /\ FillsAddUp /\ OrdersIndexed
  BY DEF DEXInv, BookInv
<1>5. /\ order'[id] = new /\ sold[id] = 0 /\ listed'[id] = amount
      /\ \A o \in OrderIds \ {id} : order'[o] = order[o] /\ listed'[o] = listed[o]
      /\ DOMAIN order' = OrderIds /\ listed' \in [OrderIds -> Nat]
  BY <1>1, <1>2, <1>4 DEF BookTypeOK
<1>6. \A o \in 1 .. order_count' :
        o = id \/ (o \in 1 .. order_count /\ o \in OrderIds \ {id})
  BY <1>1, <1>2 DEF OrderIds
<1>7. /\ seller_orders' \in [Addresses -> Seq(OrderIds)] /\ bond_orders' \in [BondIds -> Seq(OrderIds)]
      /\ \E i \in 1 .. Len(seller_orders'[seller]) : seller_orders'[seller][i] = id
      /\ \E i \in 1 .. Len(bond_orders'[b]) : bond_orders'[b][i] = id
      /\ \A a \in Addresses, o \in OrderIds :
           (\E i \in 1 .. Len(seller_orders[a]) : seller_orders[a][i] = o)
             => \E i \in 1 .. Len(seller_orders'[a]) : seller_orders'[a][i] = o
      /\ \A c \in BondIds, o \in OrderIds :
           (\E i \in 1 .. Len(bond_orders[c]) : bond_orders[c][i] = o)
             => \E i \in 1 .. Len(bond_orders'[c]) : bond_orders'[c][i] = o
  <2>1. /\ seller_orders \in [Addresses -> Seq(OrderIds)]
        /\ bond_orders \in [BondIds -> Seq(OrderIds)]
    BY <1>4 DEF BookTypeOK
  <2> HIDE DEF id
  <2>2. /\ seller_orders' \in [Addresses -> Seq(OrderIds)]
        /\ \E i \in 1 .. Len(seller_orders'[seller]) : seller_orders'[seller][i] = id
        /\ \A a \in Addresses, o \in OrderIds :
             (\E i \in 1 .. Len(seller_orders[a]) : seller_orders[a][i] = o)
               => \E i \in 1 .. Len(seller_orders'[a]) : seller_orders'[a][i] = o
    BY ONLY <1>1, <2>1, IndexAdded, seller \in Addresses, SMTT(30)
  <2>3. /\ bond_orders' \in [BondIds -> Seq(OrderIds)]
        /\ \E i \in 1 .. Len(bond_orders'[b]) : bond_orders'[b][i] = id
        /\ \A c \in BondIds, o \in OrderIds :
             (\E i \in 1 .. Len(bond_orders[c]) : bond_orders[c][i] = o)
               => \E i \in 1 .. Len(bond_orders'[c]) : bond_orders'[c][i] = o
    BY ONLY <1>1, <2>1, IndexAdded, b \in BondIds, SMTT(30)
  <2> QED
    BY <2>2, <2>3
<1>8. BookTypeOK'
  <2>1. order_count' \in 0 .. MaxOrders
    BY ONLY <1>1, <1>2
  <2>2. ASSUME NEW o \in OrderIds
        PROVE  /\ o <= order_count' => order'[o] \in OrderRecords
               /\ o > order_count' => order'[o] = NoOrder /\ sold'[o] = 0
    <3>1. CASE o = id
      BY ONLY <1>1, <1>2, <1>3, <1>5, <3>1
    <3>2. CASE o # id
      <4>1. /\ o <= order_count => order[o] \in OrderRecords
            /\ o > order_count => order[o] = NoOrder /\ sold[o] = 0
        BY <1>4 DEF BookTypeOK
      <4>2. order'[o] = order[o] /\ o \in Nat /\ sold' = sold
        BY <1>1, <1>5, <3>2, <1>2 DEF OrderIds
      <4> QED
        BY ONLY <1>1, <1>2, <3>2, <4>1, <4>2
    <3> QED
      BY <3>1, <3>2
  <2> QED
    BY <1>1, <1>4, <1>5, <1>7, <2>1, <2>2, Zenon DEF BookTypeOK
<1>9. FillsAddUp'
  <2>1. sold'[id] + new.amount = listed'[id] /\ sold'[id] = 0
    BY <1>1, <1>2, <1>3, <1>5
  <2> QED
    BY <1>1, <1>3, <1>4, <1>5, <1>6, <2>1, ZenonT(30) DEF FillsAddUp
<1>10. \A o \in 1 .. order_count : order[o].seller \in Addresses /\ order[o].bond_id \in BondIds
  <2>1. \A o \in 1 .. order_count : o \in OrderIds /\ o <= order_count
    BY ONLY <1>2 DEF OrderIds
  <2>2. \A o \in 1 .. order_count : order[o] \in OrderRecords
    BY <1>4, <2>1, Zenon DEF BookTypeOK
  <2> QED
    BY <2>2, Zenon DEF OrderRecords
<1>11. OrdersIndexed'
  <2> DEFINE Indexed(o, offer) ==
        /\ \E i \in 1 .. Len(seller_orders'[offer.seller]) : seller_orders'[offer.seller][i] = o
        /\ \E i \in 1 .. Len(bond_orders'[offer.bond_id]) : bond_orders'[offer.bond_id][i] = o
  <2>1. Indexed(id, new)
    BY <1>3, <1>7
  <2>2. ASSUME NEW o \in 1 .. order_count, o \in OrderIds
        PROVE  Indexed(o, order[o])
    <3>1. order[o].seller \in Addresses /\ order[o].bond_id \in BondIds
      BY <1>10
    <3>2. /\ \E i \in 1 .. Len(seller_orders[order[o].seller]) : seller_orders[order[o].seller][i] = o
          /\ \E i \in 1 .. Len(bond_orders[order[o].bond_id]) : bond_orders[order[o].bond_id][i] = o
      BY <1>4 DEF OrdersIndexed
    <3> QED
      BY ONLY <1>7, <2>2, <3>1, <3>2, Zenon
  <2>3. \A o \in 1 .. order_count' : Indexed(o, order'[o])
    <3> HIDE DEF Indexed, id
    <3> QED
      BY ONLY <1>5, <1>6, <2>1, <2>2
  <2> QED
    BY <2>3 DEF OrdersIndexed
<1> QED
  BY <1>8, <1>9, <1>11 DEF BookInv

-----------------------------------------------------------------------------
(* The composition *)

(* Every step of the router, and of the issuer beside it, keeps the         *)
(* invariant.                                                               *)
LEMMA DEXInvStep == DEXInv /\ [DEXNext]_dexAllVars => DEXInv'
<1> SUFFICES ASSUME DEXInv, [DEXNext]_dexAllVars
             PROVE  DEXInv'
  OBVIOUS
<1>1. IInv'
  BY DEXIsIssuerStep, IInvStep DEF DEXInv
<1>2. ASSUME UNCHANGED bookVars
      PROVE  BookInv'
  BY <1>2, Zenon DEF bookVars, DEXInv, BookInv, BookTypeOK, FillsAddUp, OrdersIndexed
<1>3. ASSUME UNCHANGED quoteVars
      PROVE  QuotesAddUp'
  BY <1>3 DEF quoteVars, DEXInv, QuotesAddUp
<1>4. CASE UNCHANGED dexVars
  BY <1>1, <1>2, <1>3, <1>4 DEF dexVars, DEXInv
<1>5. ASSUME NEW seller \in Addresses, NEW b \in BondIds, NEW amount \in Amounts,
             NEW price \in Prices, NEW asset \in QuoteAssets, NEW life \in Lifetimes,
             list_bond_tokens(seller, b, amount, price, asset, life)
      PROVE  BookInv' /\ QuotesAddUp'
  <2>1. UNCHANGED quoteVars
    BY <1>5, Zenon DEF list_bond_tokens
  <2> QED
    BY <1>3, <1>5, <2>1, ListStep
<1>6. ASSUME NEW caller \in Addresses, NEW o \in OrderIds, cancel_listing(caller, o)
      PROVE  BookInv' /\ QuotesAddUp'
  <2>1. UNCHANGED quoteVars
    BY <1>6, Zenon DEF cancel_listing
  <2> QED
    BY <1>3, <1>6, <2>1, CancelStep DEF DEXInv
<1>7. ASSUME NEW buyer \in Addresses, NEW o \in OrderIds, NEW max_price \in Prices,
             NEW amount \in Amounts, execute_purchase(buyer, o, max_price, amount)
      PROVE  BookInv' /\ QuotesAddUp'
  BY <1>7, FillStep, PaymentStep
<1>8. ASSUME NEW caller \in Addresses, NEW asset \in QuoteAssets, NEW amount \in Deposits,
             deposit_quote(caller, asset, amount) \/ withdraw_quote(caller, asset, amount)
      PROVE  BookInv' /\ QuotesAddUp'
  <2>1. UNCHANGED bookVars
    BY <1>8, Zenon DEF deposit_quote, withdraw_quote
  <2> QED
    BY <1>2, <1>8, <2>1, DepositStep
<1>9. ASSUME NEW caller \in Addresses, NEW start_id \in OrderIds, NEW end_id \in OrderIds,
             clean_expired_orders_range(caller, start_id, end_id)
      PROVE  BookInv' /\ QuotesAddUp'
  <2>1. UNCHANGED quoteVars
    BY <1>9, Zenon DEF clean_expired_orders_range
  <2> QED
    BY <1>3, <1>9, <2>1, CleanStep DEF DEXInv
<1>10. CASE DEXCall
  <2>1. BookInv' /\ QuotesAddUp'
    BY <1>5, <1>6, <1>7, <1>8, <1>9, <1>10, Zenon DEF DEXCall
  <2> QED
    BY <1>1, <2>1 DEF DEXInv
<1> QED
  BY <1>4, <1>10, Zenon DEF DEXNext, dexAllVars

LEMMA DEXInvHolds == DEXSpec => []DEXInv
  BY DEXInvInit, DEXInvStep, PTL DEF DEXSpec

(* The issuer keeps its specification under the router: a purchase is one   *)
(* of its transfers, every other call of the router leaves it alone, so     *)
(* what is proved of the issuer holds of the composition.                   *)
THEOREM DEXImplementsIssuer == DEXSpec => Spec
<1>1. DEXInit => Init
  BY DEF DEXInit
<1> QED
  BY <1>1, DEXInvHolds, DEXIsIssuerStep, PTL DEF DEXSpec, Spec

(* So, whatever is listed, bought or cancelled: the balances of a bond add  *)
(* up to what was subscribed, every holder is listed, and from the maturity *)
(* date on no balance grows, through a purchase either.                     *)
THEOREM IssuerSafeUnderDEX ==
  DEXSpec => []TokensConserved /\ []HoldersListed /\ MaturityFreezes
  BY DEXImplementsIssuer, Conservation, EveryHolderListed, FrozenAtMaturity, PTL

(* The quote the contract owes is the quote it holds: deposits, withdrawals *)
(* and purchases of any size, in any order, keep the balances of each asset *)
(* natural numbers whose sum is deposits less withdrawals.                  *)
THEOREM QuoteConservation == DEXSpec => []QuoteConserved
<1>1. DEXInv => QuoteConserved
  <2> SUFFICES ASSUME DEXInv, NEW q \in QuoteAssets
               PROVE  /\ Total(Addresses, [a \in Addresses |-> get_quote_balance(a, q)]) = deposited[q]
                      /\ \A a \in Addresses : get_quote_balance(a, q) >= 0
    BY DEF QuoteConserved
  <2>1. quote_balance[q] \in [Addresses -> Nat] /\ Total(Addresses, quote_balance[q]) = deposited[q]
    BY DEF DEXInv, QuotesAddUp
  <2>2. [a \in Addresses |-> get_quote_balance(a, q)] = quote_balance[q]
    BY <2>1 DEF get_quote_balance
  <2>3. \A a \in Addresses : get_quote_balance(a, q) >= 0
    BY <2>1 DEF get_quote_balance
  <2> QED
    BY <2>1, <2>2, <2>3
<1> QED
  BY <1>1, DEXInvHolds, PTL

(* Over any sequence of listings, partial fills, cancellations and          *)
(* clean-ups an order sells exactly what was listed, and both indexes       *)
(* (DataKey::SellerOrders, DataKey::BondOrders) find it.                    *)
THEOREM ListingHonoured == DEXSpec => []SoldWithinListing
<1>1. DEXInv => SoldWithinListing
  BY Zenon DEF DEXInv, BookInv, FillsAddUp, OrdersIndexed, SoldWithinListing, get_order,
     get_seller_orders, get_bond_orders
<1> QED
  BY <1>1, DEXInvHolds, PTL

-----------------------------------------------------------------------------
(* Delivery versus payment *)

(* What an order sold changed hands against its price, before it expired.   *)
Settled(o, amount, seller, b, q, due) ==
  /\ now < order[o].expires_at
  /\ holder_balance'[b][seller] = holder_balance[b][seller] - amount
  /\ quote_balance'[q][seller] = quote_balance[q][seller] + due
  /\ \E buyer \in Addresses \ {seller} :
       /\ holder_balance'[b][buyer] = holder_balance[b][buyer] + amount
       /\ quote_balance'[q][buyer] = quote_balance[q][buyer] - due

(* A purchase settles the order it fills, and fills no other.               *)
LEMMA PurchaseSettles ==
  ASSUME DEXInv, NEW buyer \in Addresses, NEW o \in OrderIds, NEW max_price \in Prices,
         NEW amount \in Amounts, execute_purchase(buyer, o, max_price, amount),
         NEW c \in OrderIds, sold'[c] # sold[c]
  PROVE  Settled(c, sold'[c] - sold[c], order[c].seller, order[c].bond_id, order[c].quote_asset,
                 (sold'[c] - sold[c]) * order[c].price_per_token)
<1> DEFINE seller == order[o].seller
           b == order[o].bond_id
           q == order[o].quote_asset
           due == amount * order[o].price_per_token
<1>1. /\ seller \in Addresses /\ b \in BondIds /\ q \in QuoteAssets /\ amount \in Nat
      /\ due \in Nat /\ buyer # seller /\ now < order[o].expires_at
      /\ PayQuote(q, buyer, seller, due) /\ transfer(seller, buyer, b, amount)
      /\ sold' = [sold EXCEPT ![o] = @ + amount]
  BY PurchaseFacts DEF OrderRecords
<1>2. /\ sold \in [OrderIds -> Nat]
      /\ quote_balance \in [QuoteAssets -> [Addresses -> Nat]]
      /\ holder_balance \in [BondIds -> [Addresses -> Nat]]
  BY DEF DEXInv, BookInv, BookTypeOK, QuotesAddUp, IInv, TypeOK
<1>3. c = o /\ sold'[o] - sold[o] = amount
  <2>1. c = o /\ sold'[o] = sold[o] + amount /\ sold[o] \in Nat
    BY <1>1, <1>2, Zenon
  <2> QED
    BY ONLY <1>1, <2>1
<1> HIDE DEF seller, b, q, due
<1>4. /\ quote_balance'[q][seller] = quote_balance[q][seller] + due
      /\ quote_balance'[q][buyer] = quote_balance[q][buyer] - due
  <2>1. PayQuote(q, buyer, seller, due)
    BY <1>1, Zenon
  <2>2. /\ seller \in Addresses /\ buyer \in Addresses /\ q \in QuoteAssets /\ buyer # seller
        /\ quote_balance \in [QuoteAssets -> [Addresses -> Nat]]
    BY <1>1, <1>2, Zenon
  <2> QED
    BY ONLY <2>1, <2>2 DEF PayQuote
<1>5. /\ holder_balance'[b][seller] = holder_balance[b][seller] - amount
      /\ holder_balance'[b][buyer] = holder_balance[b][buyer] + amount
  <2>1. holder_balance' = [holder_balance EXCEPT ![b][seller] = @ - amount,
                                                 ![b][buyer] = @ + amount]
    BY <1>1, Zenon DEF transfer
  <2>2. /\ seller \in Addresses /\ buyer \in Addresses /\ b \in BondIds /\ buyer # seller
        /\ holder_balance \in [BondIds -> [Addresses -> Nat]]
    BY <1>1, <1>2, Zenon
  <2> QED
    BY <2>1, <2>2
<1>6. Settled(o, amount, seller, b, q, due)
  BY <1>1, <1>4, <1>5, Zenon DEF Settled
<1> QED
  BY <1>3, <1>6, Zenon DEF seller, b, q, due

(* Tokens leave a listing only against their price, paid by one buyer to    *)
(* the seller in the same step, and never after the order expired: no       *)
(* other step of the router, the issuer or the clock touches what was sold. *)
THEOREM PaidOnDelivery == DEXSpec => DeliveryVersusPayment
<1> DEFINE Step ==
      \A o \in OrderIds : sold'[o] # sold[o] =>
        Settled(o, sold'[o] - sold[o], order[o].seller, order[o].bond_id, order[o].quote_asset,
                (sold'[o] - sold[o]) * order[o].price_per_token)
<1>1. ASSUME DEXInv, [DEXNext]_dexAllVars
      PROVE  Step
  <2>1. ASSUME NEW buyer \in Addresses, NEW o \in OrderIds, NEW max_price \in Prices,
               NEW amount \in Amounts, execute_purchase(buyer, o, max_price, amount)
        PROVE  Step
    BY <1>1, <2>1, PurchaseSettles, Zenon
  <2>2. CASE UNCHANGED sold
    BY <2>2, Zenon
  <2> HIDE DEF Step
  <2> QED
    BY <1>1, <2>1, <2>2, Zenon DEF DEXNext, DEXCall, dexAllVars, dexVars, bookVars,
       list_bond_tokens, cancel_listing, deposit_quote, withdraw_quote, clean_expired_orders_range
<1>2. DEXInv /\ [DEXNext]_dexAllVars => [Step]_dexAllVars
  BY <1>1, Zenon
<1> QED
  BY <1>2, DEXInvHolds, PTL DEF DEXSpec, DeliveryVersusPayment, Settled

-----------------------------------------------------------------------------
(* The API: NonceMirror. *)

Stages == {"idle", "check", "lock", "wait", "read", "seed", "release", "abort", "incr",
           "reread", "reseed", "simulate", "submit", "poll", "done"}

MirrorTypeOK ==
  /\ chain_nonce \in Nat
  /\ mirror \in Int \cup {Absent}
  /\ reconciler \in Int \cup {Absent}
  /\ pc \in [Requests -> Stages]
  /\ seen \in [Requests -> Int \cup {Absent}]
  /\ taken \in [Requests -> Int \cup {Absent}]
  /\ tx \in [Requests -> {"none", "pending", "applied", "failed", "dropped"}]

(* What sync() is about to write it has read from the chain. *)
ReadBeforeSeed == \A r \in Requests : pc[r] \in {"seed", "reseed"} => seen[r] \in Int

(* The stages at which a request has found or set the key. *)
PastSeeding == {"release", "incr", "reread", "reseed", "simulate", "submit", "poll"}

(* From there on the key stays, unless Redis loses it.                      *)
SeededBeforeIncrement ==
  \A r \in Requests : pc[r] \in PastSeeding /\ r \notin lost => mirror # Absent

(* Only a request under which Redis lost data creates the key without a     *)
(* read.                                                                    *)
ReadFromChain == mirror # Absent /\ lost = {} => seeded

(* A request with a transaction is past next(): its nonce is settled. *)
SubmittedLast == \A r \in Requests : tx[r] # "none" => pc[r] \in {"poll", "done"}

AppliedBelow ==
  \A r \in Requests : tx[r] = "applied" => taken[r] \in Int /\ taken[r] < chain_nonce

(* The inductive invariant.  NoncesAppliedOnce needs AppliedBelow to know   *)
(* that the nonce of the next transaction is new, and SubmittedLast to know *)
(* that a request's nonce no longer changes once its transaction is out;    *)
(* NeverIncrementsMissingKey needs the key to be there for INCR and DECR,   *)
(* which would create it without a read.                                    *)
MirrorInv ==
  /\ MirrorTypeOK
  /\ ReadBeforeSeed
  /\ SeededBeforeIncrement
  /\ ReadFromChain
  /\ SubmittedLast
  /\ AppliedBelow
  /\ NoncesAppliedOnce

-----------------------------------------------------------------------------
(* At the start nothing is read, submitted or applied.                      *)
LEMMA MirrorInvInit == MirrorInit => MirrorInv
  BY NonceMirrorAssumption
     DEF MirrorInit, MirrorInv, MirrorTypeOK, Stages, ReadBeforeSeed, SeededBeforeIncrement,
         PastSeeding, ReadFromChain, SubmittedLast, AppliedBelow, NoncesAppliedOnce

(* The steps of a request write the mirror, the lock and their own fields.  *)
(* What any of them does to the rest of the state is stated once here.      *)
LEMMA RequestEffect ==
  ASSUME MirrorInv, NEW r \in Requests, RequestStep(r)
  PROVE  /\ UNCHANGED <<chain_nonce, reconciler, losses, lost>>
         /\ pc' \in [Requests -> Stages]
         /\ \A q \in Requests \ {r} : /\ pc'[q] = pc[q]
                                      /\ seen'[q] = seen[q]
                                      /\ taken'[q] = taken[q]
                                      /\ tx'[q] = tx[q]
         /\ mirror' \in Int \cup {Absent}
         /\ mirror # Absent => mirror' # Absent
         /\ seen' \in [Requests -> Int \cup {Absent}]
         /\ taken' \in [Requests -> Int \cup {Absent}]
         /\ tx' \in [Requests -> {"none", "pending", "applied", "failed", "dropped"}]
         /\ pc'[r] \in {"seed", "reseed"} => seen'[r] \in Int
         /\ pc'[r] \in PastSeeding /\ r \notin lost => mirror' # Absent
         /\ mirror' # Absent /\ lost = {} => seeded'
         /\ tx'[r] # "none" => pc'[r] \in {"poll", "done"}
         /\ tx[r] # "none" => taken'[r] = taken[r]
         /\ tx'[r] = "applied" <=> tx[r] = "applied"
<1> USE NonceMirrorAssumption DEF MirrorInv, MirrorTypeOK, ReadBeforeSeed, SeededBeforeIncrement,
      PastSeeding, ReadFromChain, SubmittedLast, Stages, At, redisVars, keyVars, Counter, RequestStep
<1>1. CASE Begin(r) /\ UNCHANGED tx
  BY <1>1, Zenon DEF Begin
<1>2. CASE CheckExists(r) /\ UNCHANGED tx
  BY <1>2, Zenon DEF CheckExists
<1>3. CASE TryLock(r) /\ UNCHANGED tx
  BY <1>3 DEF TryLock
<1>4. CASE WaitSeeded(r) /\ UNCHANGED tx
  BY <1>4, Zenon DEF WaitSeeded
<1>5. CASE ReadChain(r) /\ UNCHANGED tx
  BY <1>5 DEF ReadChain
<1>6. CASE Seed(r) /\ UNCHANGED tx
  BY <1>6, Zenon DEF Seed
<1>7. CASE Release(r) /\ UNCHANGED tx
  BY <1>7, Zenon DEF Release, AfterAbort
<1>8. CASE Increment(r) /\ UNCHANGED tx
  <2>1. Counter(mirror) \in Int /\ Counter(mirror) + 1 \in Int /\ Counter(mirror) + 1 # Absent
    OBVIOUS
  <2> QED
    BY <1>8, <2>1, ZenonT(30) DEF Increment
<1>9. CASE Error(r) /\ UNCHANGED tx
  <2>1. /\ \A x \in DOMAIN OnError : /\ OnError[x] \in {"done", "abort", "reread"}
                                     /\ OnError[x] = "reread" => x = "incr"
        /\ "poll" \notin DOMAIN OnError /\ "done" \notin DOMAIN OnError
    BY DEF OnError
  <2>2. /\ pc' \in [Requests -> Stages] /\ pc'[r] \in {"done", "abort", "reread"}
        /\ \A q \in Requests \ {r} : pc'[q] = pc[q]
        /\ pc'[r] = "reread" => pc[r] = "incr"
        /\ pc[r] \notin {"poll", "done"}
        /\ UNCHANGED <<mirror, seeded, seen, taken>>
    BY <1>9, <2>1 DEF Error
  <2>3. pc'[r] \in PastSeeding => pc[r] = "incr"
    BY <2>2, Zenon
  <2>4. pc[r] = "incr" /\ r \notin lost => mirror # Absent
    BY Zenon
  <2>5. tx[r] = "none"
    BY <2>2, Zenon
  <2> QED
    BY <1>9, <2>2, <2>3, <2>4, <2>5, Zenon
<1>10. CASE Simulate(r)
  BY <1>10 DEF Simulate
<1>11. CASE Submit(r)
  BY <1>11 DEF Submit
<1>12. CASE Confirm(r)
  BY <1>12, Zenon DEF Confirm
<1>13. CASE Rollback(r)
  BY <1>13 DEF Rollback
<1> QED
  BY <1>1, <1>2, <1>3, <1>4, <1>5, <1>6, <1>7, <1>8, <1>9, <1>10, <1>11, <1>12, <1>13, Zenon DEF Next_

(* A request's step preserves the invariant.                                *)
LEMMA RequestKeeps ==
  ASSUME MirrorInv, NEW r \in Requests, RequestStep(r)
  PROVE  MirrorInv'
<1>1. MirrorTypeOK'
  BY RequestEffect, Zenon DEF MirrorInv, MirrorTypeOK
<1>2. ReadBeforeSeed' /\ SeededBeforeIncrement' /\ ReadFromChain' /\ SubmittedLast'
  BY RequestEffect, Zenon DEF MirrorInv, ReadBeforeSeed, SeededBeforeIncrement, ReadFromChain,
                              SubmittedLast
<1>3. \A q \in Requests : tx'[q] = "applied" => tx[q] = "applied" /\ taken'[q] = taken[q]
  BY RequestEffect, Zenon
<1>4. AppliedBelow'
  <2>1. UNCHANGED chain_nonce
    BY RequestEffect, Zenon
  <2> QED
    BY <1>3, <2>1, Zenon DEF MirrorInv, AppliedBelow
<1>5. NoncesAppliedOnce'
  BY <1>3, Zenon DEF MirrorInv, NoncesAppliedOnce
<1> QED
  BY <1>1, <1>2, <1>4, <1>5, Zenon DEF MirrorInv

(* A transaction is applied only under the contract's current nonce, which  *)
(* lies above every nonce applied so far.                                   *)
LEMMA SettleKeeps ==
  ASSUME MirrorInv, NEW r \in Requests, Settle(r)
  PROVE  MirrorInv'
<1> USE DEF MirrorInv
<1>1. UNCHANGED <<mirror, seeded, lock, known, pc, seen, taken, reconciler, losses, lost>>
  BY DEF Settle, redisVars, keyVars, requestVars
<1>2. /\ chain_nonce' \in Nat
      /\ chain_nonce' >= chain_nonce
      /\ tx' \in [Requests -> {"none", "pending", "applied", "failed", "dropped"}]
      /\ tx[r] = "pending"
      /\ \A q \in Requests \ {r} : tx'[q] = tx[q]
      /\ tx'[r] = "applied" => taken[r] = chain_nonce /\ chain_nonce' = chain_nonce + 1
  BY DEF Settle, NonceValid, MirrorTypeOK
<1>3. MirrorTypeOK' /\ ReadBeforeSeed' /\ SeededBeforeIncrement' /\ ReadFromChain' /\ SubmittedLast'
  BY <1>1, <1>2, ZenonT(30) DEF MirrorTypeOK, ReadBeforeSeed, SeededBeforeIncrement, ReadFromChain,
                                SubmittedLast
<1> HIDE DEF MirrorInv
<1>4. AppliedBelow'
  <2>1. chain_nonce \in Nat /\ UNCHANGED taken /\ AppliedBelow
    BY <1>1, Zenon DEF MirrorInv, MirrorTypeOK
  <2> QED
    BY ONLY <1>2, <2>1 DEF AppliedBelow
<1>5. NoncesAppliedOnce'
  <2>1. chain_nonce \in Nat /\ UNCHANGED taken /\ AppliedBelow /\ NoncesAppliedOnce
    BY <1>1, Zenon DEF MirrorInv, MirrorTypeOK
  <2> QED
    BY ONLY <1>2, <2>1 DEF NoncesAppliedOnce, AppliedBelow
<1> QED
  BY <1>3, <1>4, <1>5, Zenon DEF MirrorInv

(* A loss of data takes the key from every request in flight, and records   *)
(* them.                                                                    *)
LEMMA LossKeeps ==
  ASSUME MirrorInv, LoseData
  PROVE  MirrorInv'
  BY DEF LoseData, requestVars, MirrorInv, MirrorTypeOK, ReadBeforeSeed, SeededBeforeIncrement,
         PastSeeding, ReadFromChain, SubmittedLast, AppliedBelow, NoncesAppliedOnce

(* Every step of the API, of Redis and of the network preserves the         *)
(* invariant.                                                               *)
LEMMA MirrorInvStep == MirrorInv /\ [MirrorNext]_mirrorVars => MirrorInv'
<1> SUFFICES ASSUME MirrorInv, [MirrorNext]_mirrorVars
             PROVE  MirrorInv'
  OBVIOUS
<1> USE NonceMirrorAssumption DEF redisVars, keyVars, requestVars, MirrorInv, MirrorTypeOK,
      ReadBeforeSeed, SeededBeforeIncrement, ReadFromChain, SubmittedLast, AppliedBelow,
      NoncesAppliedOnce
<1>1. ASSUME NEW r \in Requests, ReleaseOnShutdown(r)
      PROVE  MirrorInv'
  BY <1>1, Zenon DEF ReleaseOnShutdown
<1>2. ASSUME NEW r \in Requests, Crash(r)
      PROVE  MirrorInv'
  <2>1. /\ pc' \in [Requests -> Stages]
        /\ pc'[r] = "done"
        /\ \A q \in Requests \ {r} : pc'[q] = pc[q]
    BY <1>2 DEF Crash, Stages
  <2> QED
    BY <1>2, <2>1, Zenon DEF Crash, PastSeeding
<1>3. CASE LockExpires
  BY <1>3, Zenon DEF LockExpires
<1>4. CASE ReconcileRead
  BY <1>4 DEF ReconcileRead
<1>5. CASE ReconcileWrite
  BY <1>5, Zenon DEF ReconcileWrite
<1>6. CASE ReconcileError
  BY <1>6, Zenon DEF ReconcileError
<1>7. CASE UNCHANGED mirrorVars
  BY <1>7 DEF mirrorVars
<1> QED
  BY ONLY <1>1, <1>2, <1>3, <1>4, <1>5, <1>6, <1>7, RequestKeeps, SettleKeeps, LossKeeps,
          MirrorInv, [MirrorNext]_mirrorVars, Zenon DEF MirrorNext

(* The inductive invariant holds in every reachable state.                  *)
THEOREM MirrorInvHolds == MirrorSpec => []MirrorInv
  BY MirrorInvInit, MirrorInvStep, PTL DEF MirrorSpec

(* No two transactions are applied under one nonce, however the mirror is   *)
(* overwritten, rolled back or lost between the requests.                   *)
THEOREM AppliedOnce == MirrorSpec => []NoncesAppliedOnce
  BY MirrorInvHolds, PTL DEF MirrorInv

(* No request increments a missing key unless Redis lost data under it, nor *)
(* one that was not set from the chain unless it did so under some request. *)
THEOREM NoBlindIncrement == MirrorSpec => []NeverIncrementsMissingKey
<1>1. MirrorInv => NeverIncrementsMissingKey
  <2> SUFFICES ASSUME MirrorInv, NEW r \in Requests, pc[r] = "incr"
               PROVE  (r \notin lost => mirror # Absent) /\ (lost = {} => seeded)
    BY Zenon DEF NeverIncrementsMissingKey
  <2>1. r \notin lost => mirror # Absent
    BY Zenon DEF MirrorInv, SeededBeforeIncrement, PastSeeding
  <2> QED
    BY <2>1, Zenon DEF MirrorInv, ReadFromChain
<1> QED
  BY <1>1, MirrorInvHolds, PTL

(* A request's check-and-delete never deletes the lock of another request.  *)
THEOREM OwnerReleases == MirrorSpec => LockReleasedByOwner
<1> DEFINE Kept == lock # NoOne /\ lock' # lock =>
             pc' = pc \/ (pc[lock] \in {"release", "abort"} /\ pc'[lock] # pc[lock])
<1>1. ASSUME MirrorInv, [MirrorNext]_mirrorVars
      PROVE  Kept
  <2>1. ASSUME NEW r \in Requests, RequestStep(r)
        PROVE  Kept
    <3>1. CASE Release(r)
      BY <1>1, <2>1, <3>1, NonceMirrorAssumption, Zenon
         DEF Release, ReleasedLock, At, AfterAbort, MirrorInv, MirrorTypeOK
    <3>2. CASE TryLock(r)
      BY <3>2 DEF TryLock
    <3>3. CASE ~Release(r) /\ ~TryLock(r)
      BY <2>1, <3>3, Zenon DEF RequestStep, Next_, Begin, CheckExists, WaitSeeded, ReadChain, Seed,
                        Increment, Error, Simulate, Submit, Confirm, Rollback, redisVars
    <3> QED
      BY <3>1, <3>2, <3>3, Zenon
  <2>2. ASSUME NEW r \in Requests, Settle(r) \/ ReleaseOnShutdown(r) \/ Crash(r)
        PROVE  Kept
    BY <2>2, Zenon DEF Settle, ReleaseOnShutdown, Crash, redisVars, requestVars
  <2>3. CASE LockExpires \/ LoseData \/ ReconcileRead \/ ReconcileWrite \/ ReconcileError
    BY <2>3 DEF LockExpires, LoseData, ReconcileRead, ReconcileWrite, ReconcileError, redisVars,
                requestVars
  <2>4. CASE UNCHANGED mirrorVars
    BY <2>4 DEF mirrorVars, redisVars
  <2> QED
    BY <1>1, <2>1, <2>2, <2>3, <2>4, Zenon DEF MirrorNext
<1>2. MirrorInv /\ [MirrorNext]_mirrorVars => [Kept]_mirrorVars
  BY <1>1, Zenon
<1> QED
  BY <1>2, MirrorInvHolds, PTL DEF MirrorSpec, LockReleasedByOwner
=============================================================================
