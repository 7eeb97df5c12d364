---------------------------- MODULE MC_DEXRouter ----------------------------
(* One bond on a small order book.                                           *)
EXTENDS DEXQuotes

CONSTANTS alice, bob

TwoAddresses == {alice, bob}
MCConfigs ==
  {[project_id |-> "hash", credit_type |-> "Carbon", face_value |-> 1,
    coupon_schedule |-> {0}, maturity_date |-> 2, total_supply |-> 3]}

(* The bond is issued and alice holds all of it. *)
Subscribed ==
  /\ now = 0
  /\ bond_count = 1
  /\ \E c \in Configs : bond_config = [b \in BondIds |-> c]
  /\ bond_status = [b \in BondIds |-> "Active"]
  /\ total_subscribed = [b \in BondIds |-> 3]
  /\ holder_balance = [b \in BondIds |-> [h \in Addresses |-> IF h = alice THEN 3 ELSE 0]]
  /\ holder_list = [b \in BondIds |-> <<alice>>]
  /\ order_count = 0
  /\ order = [o \in OrderIds |-> NoOrder]
  /\ seller_orders = [a \in Addresses |-> <<>>]
  /\ bond_orders = [b \in BondIds |-> <<>>]
  /\ quote_balance = [q \in QuoteAssets |-> [a \in Addresses |-> 0]]
  /\ listed = [o \in OrderIds |-> 0]
  /\ sold = [o \in OrderIds |-> 0]
  /\ deposited = [q \in QuoteAssets |-> 0]

SubscribedSpec == Subscribed /\ [][DEXNext]_dexAllVars
=============================================================================
