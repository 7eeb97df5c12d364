----------------------------- MODULE BondIssuer -----------------------------
(***************************************************************************)
(* The bond-issuer contract (contracts/bond-issuer/src/lib.rs): bonds are   *)
(* issued by the admin, subscribed and transferred until maturity, closed   *)
(* by mature_bond and then redeemed.  Every contract call is one atomic     *)
(* transaction: a call that returns an error or panics leaves the storage   *)
(* as it was, so a rejected call is a stuttering step.  The per-address     *)
(* nonce only decides whether a call is rejected and is left out.           *)
(***************************************************************************)
EXTENDS Integers, Sequences, FiniteSets, UnitSums

CONSTANTS
  Addresses,        \* accounts that may call the contract
  Admin,            \* DataKey::Admin, fixed by the constructor
  Configs,          \* the BondConfigs a caller may pass to issue_bond
  Amounts,          \* the token amounts a caller may pass
  MaxBonds,         \* bound on the number of bonds
  MaxTime,          \* bound on the ledger timestamp
  MaxHolderEntries  \* bound on the length of a holder list

(* A BondConfig; credit types, projects and the coupon schedule (a set of   *)
(* dates) are opaque to this contract.                                      *)
ASSUME IssuerAssumption ==
  /\ Admin \in Addresses
  /\ \A c \in Configs :
       /\ c.face_value \in Int
       /\ c.total_supply \in Int
       /\ c.maturity_date \in Nat
       /\ c.coupon_schedule \subseteq Nat
  /\ Amounts \subseteq Int
  /\ MaxBonds \in Nat
  /\ MaxTime \in Nat
  /\ MaxHolderEntries \in Nat

VARIABLES
  now,             \* env.ledger().timestamp()
  bond_count,      \* DataKey::BondCount; BondList is 1 .. bond_count
  bond_config,     \* DataKey::BondConfig(id)
  bond_status,     \* DataKey::BondState(id).status
  total_subscribed,  \* DataKey::BondState(id).total_subscribed
  holder_balance,  \* DataKey::HolderBalance(id, holder)
  holder_list      \* DataKey::HolderList(id); HolderCount(id) is its length

issuerVars ==
  <<bond_count, bond_config, bond_status, total_subscribed, holder_balance, holder_list>>
vars == <<now, issuerVars>>

BondIds == 1 .. MaxBonds

(* No call sets the status Defaulted; "None" stands for a missing entry. *)
BondStatuses == {"None", "Active", "Matured"}

(* What a read of the storage of a bond that was never issued amounts to.   *)
NoConfig == [maturity_date |-> 0, total_supply |-> 0]

Init ==
  /\ now = 0
  /\ bond_count = 0
  /\ bond_config = [b \in BondIds |-> NoConfig]
  /\ bond_status = [b \in BondIds |-> "None"]
  /\ total_subscribed = [b \in BondIds |-> 0]
  /\ holder_balance = [b \in BondIds |-> [h \in Addresses |-> 0]]
  /\ holder_list = [b \in BondIds |-> <<>>]

-----------------------------------------------------------------------------
(* Helpers *)

require_admin(caller) == caller = Admin

ValidConfig(config) ==
  /\ config.face_value > 0
  /\ config.total_supply > 0
  /\ config.maturity_date > now
  /\ config.coupon_schedule # {}
  /\ \A date \in config.coupon_schedule : date < config.maturity_date

total_supply(b) == bond_config[b].total_supply

(* MUTANT of OpenForTrading: trusts the status, which lags the maturity date. *)
OpenForTrading_StatusOnly(b) == bond_status[b] = "Active"

(* Subscriptions and transfers stop at the maturity date, whether or not    *)
(* mature_bond has been called yet.                                         *)
OpenForTrading(b) ==
  /\ bond_status[b] = "Active"
  /\ now < bond_config[b].maturity_date

(* MUTANT of WithinSupply: compares before adding the amount. *)
WithinSupply_BeforeAdding(b, amount) == total_subscribed[b] <= total_supply(b)

WithinSupply(b, amount) == total_subscribed[b] + amount <= total_supply(b)

HasBalance(b, h, amount) == holder_balance[b][h] >= amount

(* MUTANT of append_holder: new holders are skipped. *)
append_holder_Inverted(b, h) ==
  IF holder_balance[b][h] # 0 THEN Append(holder_list[b], h) ELSE holder_list[b]

(* The holder list after h, whose balance is about to grow, is recorded:    *)
(* append_holder runs only when the current balance is zero.                *)
append_holder(b, h) ==
  IF holder_balance[b][h] = 0 THEN Append(holder_list[b], h) ELSE holder_list[b]

get_holder_balance(b, h) == holder_balance[b][h]
get_holder_list(b) == holder_list[b]
get_holder_count(b) == Len(holder_list[b])

(* The page of a list that get_holder_list_range and get_bond_ids_range     *)
(* return: count entries from the zero-based offset start, cut at the end.  *)
ListRange(list, start, count) ==
  SubSeq(list, start + 1, IF start + count > Len(list) THEN Len(list) ELSE start + count)

get_holder_list_range(b, start, count) == ListRange(holder_list[b], start, count)

-----------------------------------------------------------------------------
(* Contract calls *)

issue_bond(caller, config) ==
  /\ bond_count < MaxBonds
  /\ require_admin(caller)
  /\ ValidConfig(config)
  /\ LET bond_id == bond_count + 1 IN
     /\ bond_count' = bond_id
     /\ bond_config' = [bond_config EXCEPT ![bond_id] = config]
     /\ bond_status' = [bond_status EXCEPT ![bond_id] = "Active"]
     /\ total_subscribed' = [total_subscribed EXCEPT ![bond_id] = 0]
     /\ holder_list' = [holder_list EXCEPT ![bond_id] = <<>>]
  /\ UNCHANGED holder_balance

subscribe(investor, b, amount) ==
  /\ amount > 0
  /\ OpenForTrading(b)
  /\ WithinSupply(b, amount)
  /\ holder_list' = [holder_list EXCEPT ![b] = append_holder(b, investor)]
  /\ Len(holder_list'[b]) <= MaxHolderEntries
  /\ holder_balance' = [holder_balance EXCEPT ![b][investor] = @ + amount]
  /\ total_subscribed' = [total_subscribed EXCEPT ![b] = @ + amount]
  /\ UNCHANGED <<bond_count, bond_config, bond_status>>

transfer(from, to, b, amount) ==
  /\ to # from
  /\ amount > 0
  /\ OpenForTrading(b)
  /\ HasBalance(b, from, amount)
  /\ holder_list' = [holder_list EXCEPT ![b] = append_holder(b, to)]
  /\ Len(holder_list'[b]) <= MaxHolderEntries
  /\ holder_balance' = [holder_balance EXCEPT ![b][from] = @ - amount,
                                              ![b][to] = @ + amount]
  /\ UNCHANGED <<bond_count, bond_config, bond_status, total_subscribed>>

redeem(holder, b, amount) ==
  /\ amount > 0
  /\ bond_status[b] = "Matured"
  /\ HasBalance(b, holder, amount)
  /\ holder_balance' = [holder_balance EXCEPT ![b][holder] = @ - amount]
  /\ total_subscribed' = [total_subscribed EXCEPT ![b] = @ - amount]
  /\ UNCHANGED <<bond_count, bond_config, bond_status, holder_list>>

mature_bond(caller, b) ==
  /\ require_admin(caller)
  /\ bond_status[b] = "Active"
  /\ now >= bond_config[b].maturity_date
  /\ bond_status' = [bond_status EXCEPT ![b] = "Matured"]
  /\ UNCHANGED <<bond_count, bond_config, total_subscribed, holder_balance, holder_list>>

(* A call to the contract by any account, with any argument. *)
IssuerCall ==
  \/ \E caller \in Addresses, config \in Configs : issue_bond(caller, config)
  \/ \E investor \in Addresses, b \in BondIds, amount \in Amounts :
       subscribe(investor, b, amount)
  \/ \E from, to \in Addresses, b \in BondIds, amount \in Amounts :
       transfer(from, to, b, amount)
  \/ \E holder \in Addresses, b \in BondIds, amount \in Amounts :
       redeem(holder, b, amount)
  \/ \E caller \in Addresses, b \in BondIds : mature_bond(caller, b)

(* The ledger closes with a later timestamp. *)
Tick == now < MaxTime /\ now' = now + 1

Next ==
  \/ IssuerCall /\ UNCHANGED now
  \/ Tick /\ UNCHANGED issuerVars

Spec == Init /\ [][Next]_vars

-----------------------------------------------------------------------------
(* Properties *)

(* Every storage entry has the type the contract declares for it; balances  *)
(* and totals, i128 in the code, are never negative.                        *)
TypeOK ==
  /\ now \in 0 .. MaxTime
  /\ bond_count \in 0 .. MaxBonds
  /\ bond_config \in [BondIds -> Configs \cup {NoConfig}]
  /\ bond_status \in [BondIds -> BondStatuses]
  /\ total_subscribed \in [BondIds -> Nat]
  /\ holder_balance \in [BondIds -> [Addresses -> Nat]]
  /\ holder_list \in [BondIds -> Seq(Addresses)]

(* The counter total_subscribed, which the coupon engine divides by, is the *)
(* sum of the holders' balances after every sequence of subscribe, transfer *)
(* and redeem, and never exceeds the supply the bond was issued with.       *)
TokensConserved ==
  \A b \in BondIds :
    /\ Total(Addresses, holder_balance[b]) = total_subscribed[b]
    /\ total_subscribed[b] <= total_supply(b)

(* Every account with a positive balance is in the holder list, so the      *)
(* off-chain reader that enumerates HolderList to pay a coupon misses       *)
(* nobody, however the tokens reached the account.                          *)
HoldersListed ==
  \A b \in BondIds, h \in Addresses :
    holder_balance[b][h] > 0 =>
      \E i \in 1 .. get_holder_count(b) : get_holder_list(b)[i] = h

(* From the maturity date on no account's balance grows, and until          *)
(* mature_bond has closed the bond no token leaves circulation.             *)
MaturityFreezes ==
  [][\A b \in BondIds :
       /\ now >= bond_config[b].maturity_date =>
            \A h \in Addresses : holder_balance'[b][h] <= holder_balance[b][h]
       /\ bond_status[b] # "Matured" =>
            total_subscribed[b] <= total_subscribed'[b]]_vars
=============================================================================
