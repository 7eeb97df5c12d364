----------------------------- MODULE DEXRouter -----------------------------
(***************************************************************************)
(* The dex-router contract (contracts/dex-router/src/lib.rs) beside the     *)
(* bond issuer it settles through.  Sellers list bond tokens without        *)
(* escrowing them; buyers pay from quote balances deposited here; a         *)
(* purchase moves the quote and the tokens in one transaction, or, when any *)
(* part of it fails, nothing at all.                                        *)
(***************************************************************************)
EXTENDS BondIssuer

CONSTANTS
  DEXAdmin,      \* DataKey::Admin of this contract
  QuoteAssets,   \* quote asset symbols
  Prices,        \* the prices, and price limits, a caller may pass
  Lifetimes,     \* the expires_after_seconds a seller may pass
  Deposits,      \* the quote amounts a caller may pass
  MaxOrders,     \* bound on the number of orders
  MaxQuote       \* bound on a quote balance

ASSUME DEXAssumption ==
  /\ DEXAdmin \in Addresses
  /\ Prices \subseteq Int
  /\ Lifetimes \subseteq Nat
  /\ Deposits \subseteq Int
  /\ MaxOrders \in Nat
  /\ MaxQuote \in Nat

VARIABLES
  order_count,    \* DataKey::OrderCount
  order,          \* DataKey::Order(id)
  seller_orders,  \* DataKey::SellerOrders(seller)
  bond_orders,    \* DataKey::BondOrders(bond)
  quote_balance,  \* DataKey::Balance(asset, address)
  listed, sold,   \* history: tokens an order offered at first, and sold so far
  deposited       \* history: quote deposited less quote withdrawn, by asset

bookVars == <<order_count, order, seller_orders, bond_orders, listed, sold>>
quoteVars == <<quote_balance, deposited>>
dexVars == <<bookVars, quoteVars>>
dexAllVars == <<vars, dexVars>>

OrderIds == 1 .. MaxOrders
NoOrder == [status |-> "None"]
Live == {"Open", "PartiallyFilled"}

DEXInit ==
  /\ Init
  /\ order_count = 0
  /\ order = [o \in OrderIds |-> NoOrder]
  /\ seller_orders = [a \in Addresses |-> <<>>]
  /\ bond_orders = [b \in BondIds |-> <<>>]
  /\ quote_balance = [q \in QuoteAssets |-> [a \in Addresses |-> 0]]
  /\ listed = [o \in OrderIds |-> 0]
  /\ sold = [o \in OrderIds |-> 0]
  /\ deposited = [q \in QuoteAssets |-> 0]

-----------------------------------------------------------------------------
(* Helpers *)

require_dex_admin(caller) == caller = DEXAdmin

get_quote_balance(a, asset) == quote_balance[asset][a]

is_order_expired(o) == now >= order[o].expires_at

verify_holder_balance(holder, b, required) == get_holder_balance(b, holder) >= required

(* MUTANT of Purchasable: the clock is not consulted, only the status. *)
Purchasable_Unexpired(buyer, o, max_price, amount) ==
  /\ order[o].status \in Live
  /\ buyer # order[o].seller
  /\ amount > 0 /\ amount <= order[o].amount
  /\ max_price >= order[o].price_per_token

Purchasable(buyer, o, max_price, amount) ==
  /\ order[o].status \in Live
  /\ buyer # order[o].seller
  /\ ~is_order_expired(o)
  /\ amount > 0 /\ amount <= order[o].amount
  /\ max_price >= order[o].price_per_token

(* MUTANT of FillOrder: what a partial fill took is not deducted. *)
FillOrder_KeepAmount(o, amount) ==
  order' = [order EXCEPT ![o].status =
              IF amount = order[o].amount THEN "Filled" ELSE "PartiallyFilled"]

(* A full fill leaves the amount of the last remainder in place. *)
FillOrder(o, amount) ==
  order' = [order EXCEPT ![o] =
    IF amount = @.amount
    THEN [@ EXCEPT !.status = "Filled"]
    ELSE [@ EXCEPT !.status = "PartiallyFilled", !.amount = order[o].amount - amount]]

(* MUTANT of PayQuote: the buyer is not debited. *)
PayQuote_CreditOnly(q, buyer, seller, proceeds) ==
  /\ quote_balance[q][buyer] >= proceeds
  /\ quote_balance' = [quote_balance EXCEPT ![q][seller] = @ + proceeds]

PayQuote(q, buyer, seller, proceeds) ==
  /\ get_quote_balance(buyer, q) >= proceeds
  /\ quote_balance' = [quote_balance EXCEPT ![q][buyer] = @ - proceeds,
                                            ![q][seller] = @ + proceeds]

-----------------------------------------------------------------------------
(* Contract calls *)

list_bond_tokens(seller, b, amount, price, asset, expires_after) ==
  LET id == order_count + 1 IN
  /\ id \in OrderIds
  /\ amount > 0 /\ price > 0
  /\ expires_after # 0
  /\ verify_holder_balance(seller, b, amount)
  /\ order_count' = id
  /\ order' = [order EXCEPT ![id] =
       [status |-> "Open", seller |-> seller, bond_id |-> b, amount |-> amount,
        price_per_token |-> price, quote_asset |-> asset,
        expires_at |-> now + expires_after]]
  /\ seller_orders' = [seller_orders EXCEPT ![seller] = Append(@, id)]
  /\ bond_orders' = [bond_orders EXCEPT ![b] = Append(@, id)]
  /\ listed' = [listed EXCEPT ![id] = amount]
  /\ UNCHANGED <<sold, quoteVars, issuerVars>>

MayCancel(caller, o) == order[o].status \in Live /\ caller = order[o].seller

cancel_listing(caller, o) ==
  /\ MayCancel(caller, o)
  /\ order' = [order EXCEPT ![o].status = "Cancelled"]
  /\ UNCHANGED <<order_count, seller_orders, bond_orders, listed, sold, quoteVars, issuerVars>>

(* The inner BondIssuer.transfer is the whole call of that contract, with   *)
(* its own guards; the seller's nonce was read in the same transaction.     *)
execute_purchase(buyer, o, max_price, amount) ==
  /\ Purchasable(buyer, o, max_price, amount)
  /\ verify_holder_balance(order[o].seller, order[o].bond_id, amount)
  /\ PayQuote(order[o].quote_asset, buyer, order[o].seller,
              amount * order[o].price_per_token)
  /\ transfer(order[o].seller, buyer, order[o].bond_id, amount)
  /\ FillOrder(o, amount)
  /\ sold' = [sold EXCEPT ![o] = @ + amount]
  /\ UNCHANGED <<order_count, seller_orders, bond_orders, listed, deposited>>

deposit_quote(caller, asset, amount) ==
  /\ amount > 0
  /\ quote_balance[asset][caller] + amount <= MaxQuote
  /\ quote_balance' = [quote_balance EXCEPT ![asset][caller] = @ + amount]
  /\ deposited' = [deposited EXCEPT ![asset] = @ + amount]
  /\ UNCHANGED <<bookVars, issuerVars>>

CanWithdraw(caller, asset, amount) == amount > 0 /\ get_quote_balance(caller, asset) >= amount

withdraw_quote(caller, asset, amount) ==
  /\ CanWithdraw(caller, asset, amount)
  /\ quote_balance' = [quote_balance EXCEPT ![asset][caller] = @ - amount]
  /\ deposited' = [deposited EXCEPT ![asset] = @ - amount]
  /\ UNCHANGED <<bookVars, issuerVars>>

(* clean_expired_orders is the range of all orders. *)
clean_expired_orders_range(caller, start_id, end_id) ==
  /\ require_dex_admin(caller)
  /\ start_id >= 1 /\ end_id <= order_count /\ start_id <= end_id
  /\ order' = [o \in OrderIds |->
       IF o \in start_id .. end_id /\ order[o].status \in Live /\ is_order_expired(o)
       THEN [order[o] EXCEPT !.status = "Expired"] ELSE order[o]]
  /\ UNCHANGED <<order_count, seller_orders, bond_orders, listed, sold, quoteVars, issuerVars>>

DEXCall ==
  \/ \E seller \in Addresses, b \in BondIds, amount \in Amounts, price \in Prices,
        asset \in QuoteAssets, life \in Lifetimes :
       list_bond_tokens(seller, b, amount, price, asset, life)
  \/ \E caller \in Addresses, o \in OrderIds : cancel_listing(caller, o)
  \/ \E buyer \in Addresses, o \in OrderIds, max_price \in Prices, amount \in Amounts :
       execute_purchase(buyer, o, max_price, amount)
  \/ \E caller \in Addresses, asset \in QuoteAssets, amount \in Deposits :
       deposit_quote(caller, asset, amount) \/ withdraw_quote(caller, asset, amount)
  \/ \E caller \in Addresses, start_id, end_id \in OrderIds :
       clean_expired_orders_range(caller, start_id, end_id)

DEXNext ==
  \/ DEXCall /\ UNCHANGED now
  \/ Next /\ UNCHANGED dexVars

DEXSpec == DEXInit /\ [][DEXNext]_dexAllVars

-----------------------------------------------------------------------------
(* Queries *)

get_order(o) == order[o]
get_bond_orders(b) == bond_orders[b]
get_seller_orders(a) == seller_orders[a]

-----------------------------------------------------------------------------
(* Properties *)

(* The quote the contract owes its users is the quote deposited less the    *)
(* quote withdrawn: purchases only move it, and nobody is ever in debt.     *)
QuoteConserved ==
  \A q \in QuoteAssets :
    /\ Total(Addresses, [a \in Addresses |-> get_quote_balance(a, q)]) = deposited[q]
    /\ \A a \in Addresses : get_quote_balance(a, q) >= 0

(* An order sells exactly what was listed, over any number of partial       *)
(* fills, although the listed tokens stay with the seller, who may list     *)
(* them again, transfer or redeem them meanwhile; and it is always found    *)
(* under its seller and its bond.                                           *)
SoldWithinListing ==
  \A o \in 1 .. order_count :
    LET offer == get_order(o) IN
    /\ offer.status = "Filled" => sold[o] = listed[o]
    /\ offer.status # "Filled" => sold[o] + offer.amount = listed[o]
    /\ offer.status = "Open" => sold[o] = 0
    /\ offer.status = "PartiallyFilled" => sold[o] > 0
    /\ \E i \in 1 .. Len(get_seller_orders(offer.seller)) : get_seller_orders(offer.seller)[i] = o
    /\ \E i \in 1 .. Len(get_bond_orders(offer.bond_id)) : get_bond_orders(offer.bond_id)[i] = o

(* Tokens sold through an order change hands against exactly their price,   *)
(* in the same step, and never once the order has expired.                  *)
DeliveryVersusPayment ==
  [][\A o \in OrderIds : sold'[o] # sold[o] =>
       LET amount == sold'[o] - sold[o]
           seller == order[o].seller
           b == order[o].bond_id
           q == order[o].quote_asset
       IN /\ now < order[o].expires_at
          /\ holder_balance'[b][seller] = holder_balance[b][seller] - amount
          /\ quote_balance'[q][seller] =
               quote_balance[q][seller] + amount * order[o].price_per_token
          /\ \E buyer \in Addresses \ {seller} :
               /\ holder_balance'[b][buyer] = holder_balance[b][buyer] + amount
               /\ quote_balance'[q][buyer] =
                    quote_balance[q][buyer] - amount * order[o].price_per_token]_dexAllVars
=============================================================================
