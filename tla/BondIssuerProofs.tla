-------------------------- MODULE BondIssuerProofs --------------------------
(* The token accounting of the bond issuer, for any number of accounts,     *)
(* bonds, amounts and configurations.                                       *)
EXTENDS BondIssuer, OperatorProofs

(* Ids are handed out in order; a bond that was never issued has no tokens. *)
IssuedInOrder ==
  \A b \in BondIds :
    /\ b > bond_count => /\ bond_status[b] = "None"
                         /\ total_subscribed[b] = 0
                         /\ \A h \in Addresses : holder_balance[b][h] = 0
    /\ b <= bond_count => bond_config[b] \in Configs

(* The balances of a bond have finitely many units, and as many as the      *)
(* counter says.                                                            *)
BalancesAddUp ==
  \A b \in BondIds :
    /\ IsFiniteSet(UnitsOf(Addresses, holder_balance[b]))
    /\ Total(Addresses, holder_balance[b]) = total_subscribed[b]

SupplyRespected == \A b \in BondIds : total_subscribed[b] <= total_supply(b)

(* The inductive invariant.  TypeOK alone is not inductive: that redeem     *)
(* leaves total_subscribed a natural needs BalancesAddUp.                   *)
IInv == TypeOK /\ IssuedInOrder /\ BalancesAddUp /\ SupplyRespected

-----------------------------------------------------------------------------
(* No token exists before the first bond is issued.                         *)
LEMMA IInvInit == Init => IInv
<1> SUFFICES ASSUME Init
             PROVE  IInv
  OBVIOUS
<1> USE IssuerAssumption DEF Init
<1>1. TypeOK
  BY DEF TypeOK, BondIds, BondStatuses
<1>2. IssuedInOrder
  BY DEF IssuedInOrder, BondIds
<1>3. BalancesAddUp
  BY TotalZero DEF BalancesAddUp
<1>4. SupplyRespected
  BY DEF SupplyRespected, total_supply, NoConfig
<1> QED
  BY <1>1, <1>2, <1>3, <1>4 DEF IInv

(* issue_bond opens an entry for which no token exists yet.                 *)
LEMMA IssueStep ==
  ASSUME IInv, NEW caller \in Addresses, NEW config \in Configs,
         issue_bond(caller, config), UNCHANGED now
  PROVE  IInv'
<1> USE IssuerAssumption DEF IInv, issue_bond
<1> DEFINE id == bond_count + 1
<1>1. /\ id \in BondIds
      /\ bond_count' = id
      /\ bond_config' = [bond_config EXCEPT ![id] = config]
      /\ bond_status' = [bond_status EXCEPT ![id] = "Active"]
      /\ total_subscribed' = [total_subscribed EXCEPT ![id] = 0]
      /\ total_subscribed[id] = 0
      /\ holder_balance' = holder_balance
  BY DEF TypeOK, BondIds, IssuedInOrder
<1>2. TypeOK'
  BY <1>1 DEF TypeOK, BondIds, BondStatuses
<1>3. IssuedInOrder'
  BY <1>1 DEF TypeOK, BondIds, IssuedInOrder
<1>4. total_subscribed' = total_subscribed
  BY <1>1 DEF TypeOK
<1>5. BalancesAddUp'
  BY <1>1, <1>4 DEF BalancesAddUp
<1>6. SupplyRespected'
  BY <1>1, <1>4 DEF SupplyRespected, total_supply, TypeOK, ValidConfig
<1> QED
  BY <1>2, <1>3, <1>5, <1>6

(* subscribe raises one balance and the counter by the same amount.         *)
LEMMA SubscribeStep ==
  ASSUME IInv, NEW investor \in Addresses, NEW b \in BondIds, NEW amount \in Amounts,
         subscribe(investor, b, amount), UNCHANGED now
  PROVE  IInv'
<1> USE IssuerAssumption DEF IInv, subscribe
<1> DEFINE f == holder_balance[b]
           g == [f EXCEPT ![investor] = @ + amount]
<1>1. amount \in Nat /\ bond_status[b] = "Active" /\ WithinSupply(b, amount)
  BY DEF OpenForTrading
<1>2. f \in [Addresses -> Nat] /\ g \in [Addresses -> Nat]
  BY <1>1 DEF TypeOK
<1>3. holder_balance' = [holder_balance EXCEPT ![b] = g]
  OBVIOUS
<1>4. total_subscribed' = [total_subscribed EXCEPT ![b] = @ + amount]
  OBVIOUS
<1>5. b <= bond_count
  BY <1>1 DEF IssuedInOrder, TypeOK, BondIds
<1>6. TypeOK'
  <2>1. append_holder(b, investor) \in Seq(Addresses)
    BY DEF append_holder, TypeOK
  <2> QED
    BY <1>1, <1>2, <1>3, <1>4, <2>1 DEF TypeOK
<1>7. IssuedInOrder'
  BY <1>3, <1>4, <1>5 DEF IssuedInOrder, TypeOK, BondIds
<1>8. BalancesAddUp'
  <2>1. IsFiniteSet(UnitsOf(Addresses, f)) /\ Total(Addresses, f) = total_subscribed[b]
    BY DEF BalancesAddUp
  <2>2. g[investor] = f[investor] + amount /\ \A y \in Addresses \ {investor} : g[y] = f[y]
    BY <1>2
  <2> HIDE DEF f, g
  <2>3. /\ IsFiniteSet(UnitsOf(Addresses, g))
        /\ Total(Addresses, g) = Total(Addresses, f) + amount
    BY ONLY <1>1, <1>2, <2>1, <2>2, TotalRaised
  <2>4. holder_balance'[b] = g /\ \A c \in BondIds \ {b} : holder_balance'[c] = holder_balance[c]
    BY <1>3 DEF TypeOK
  <2>5. /\ total_subscribed'[b] = total_subscribed[b] + amount
        /\ \A c \in BondIds \ {b} : total_subscribed'[c] = total_subscribed[c]
    BY <1>4 DEF TypeOK
  <2> QED
    BY <2>1, <2>3, <2>4, <2>5 DEF BalancesAddUp
<1>9. SupplyRespected'
  BY <1>1, <1>4 DEF SupplyRespected, total_supply, TypeOK, WithinSupply
<1> QED
  BY <1>6, <1>7, <1>8, <1>9

(* transfer moves tokens from one balance to another.                       *)
LEMMA TransferStep ==
  ASSUME IInv, NEW from \in Addresses, NEW to \in Addresses, NEW b \in BondIds,
         NEW amount \in Amounts, transfer(from, to, b, amount), UNCHANGED now
  PROVE  IInv'
<1> USE IssuerAssumption DEF IInv, transfer, HasBalance
<1> DEFINE f == holder_balance[b]
           g == [f EXCEPT ![from] = @ - amount, ![to] = @ + amount]
<1>1. amount \in Nat /\ bond_status[b] = "Active" /\ from # to /\ f[from] >= amount
  BY DEF OpenForTrading
<1>2. /\ f \in [Addresses -> Nat] /\ IsFiniteSet(UnitsOf(Addresses, f))
      /\ Total(Addresses, f) = total_subscribed[b]
  BY DEF TypeOK, BalancesAddUp
<1>3. holder_balance' = [holder_balance EXCEPT ![b] = g]
  OBVIOUS
<1>4. /\ g \in [Addresses -> Nat] /\ IsFiniteSet(UnitsOf(Addresses, g))
      /\ Total(Addresses, g) = total_subscribed[b]
  <2>0. to \in Addresses \ {from}
    BY <1>1
  <2>1. /\ g \in [Addresses -> Nat] /\ f[from] = g[from] + amount /\ g[to] = f[to] + amount
        /\ \A a \in Addresses \ {from, to} : g[a] = f[a]
    BY ONLY <1>1, <1>2, <2>0, from \in Addresses
  <2> HIDE DEF f, g
  <2>2. IsFiniteSet(UnitsOf(Addresses, g)) /\ Total(Addresses, g) = Total(Addresses, f)
    BY ONLY <1>1, <1>2, <2>1, <2>0, TotalMoved, from \in Addresses
  <2> QED
    BY <1>2, <2>1, <2>2
<1>5. b <= bond_count
  BY <1>1 DEF IssuedInOrder, TypeOK, BondIds
<1>6. TypeOK'
  <2>1. append_holder(b, to) \in Seq(Addresses)
    BY DEF append_holder, TypeOK
  <2> QED
    BY <1>3, <1>4, <2>1 DEF TypeOK
<1>7. IssuedInOrder'
  <2> HIDE DEF g
  <2> QED
    BY <1>3, <1>4, <1>5 DEF IssuedInOrder, TypeOK, BondIds
<1>8. BalancesAddUp'
  <2>1. holder_balance'[b] = g /\ \A c \in BondIds \ {b} : holder_balance'[c] = holder_balance[c]
    BY <1>3 DEF TypeOK
  <2> HIDE DEF f, g
  <2> QED
    BY <1>4, <2>1 DEF BalancesAddUp
<1>9. SupplyRespected'
  BY DEF SupplyRespected, total_supply
<1> QED
  BY <1>6, <1>7, <1>8, <1>9

(* redeem lowers one balance and the counter by the same amount; the        *)
(* counter covers the balance because it is the sum of all of them.         *)
LEMMA RedeemStep ==
  ASSUME IInv, NEW holder \in Addresses, NEW b \in BondIds, NEW amount \in Amounts,
         redeem(holder, b, amount), UNCHANGED now
  PROVE  IInv'
<1> USE IssuerAssumption DEF IInv, redeem, HasBalance
<1> DEFINE f == holder_balance[b]
           g == [f EXCEPT ![holder] = @ - amount]
<1>1. amount \in Nat /\ bond_status[b] = "Matured" /\ f[holder] >= amount
  OBVIOUS
<1>2. f \in [Addresses -> Nat] /\ g \in [Addresses -> Nat]
  BY <1>1 DEF TypeOK
<1>3. holder_balance' = [holder_balance EXCEPT ![b] = g]
  OBVIOUS
<1>4. total_subscribed' = [total_subscribed EXCEPT ![b] = @ - amount]
  OBVIOUS
<1>5. b <= bond_count
  BY <1>1 DEF IssuedInOrder, TypeOK, BondIds
<1>6. /\ IsFiniteSet(UnitsOf(Addresses, g))
      /\ Total(Addresses, g) = total_subscribed[b] - amount
      /\ total_subscribed[b] - amount \in Nat
  <2>1. IsFiniteSet(UnitsOf(Addresses, f)) /\ Total(Addresses, f) = total_subscribed[b]
    BY DEF BalancesAddUp
  <2>2. f[holder] = g[holder] + amount /\ \A y \in Addresses \ {holder} : g[y] = f[y]
    BY <1>1, <1>2
  <2> HIDE DEF f, g
  <2>3. /\ IsFiniteSet(UnitsOf(Addresses, g)) /\ Total(Addresses, g) \in Nat
        /\ Total(Addresses, g) = Total(Addresses, f) - amount
    BY <1>1, <1>2, <2>1, <2>2, TotalLowered
  <2> QED
    BY <2>1, <2>3
<1>7. TypeOK'
  BY <1>2, <1>3, <1>4, <1>6 DEF TypeOK
<1>8. IssuedInOrder'
  BY <1>3, <1>4, <1>5 DEF IssuedInOrder, TypeOK, BondIds
<1>9. BalancesAddUp'
  <2>1. holder_balance'[b] = g /\ \A c \in BondIds \ {b} : holder_balance'[c] = holder_balance[c]
    BY <1>3 DEF TypeOK
  <2>2. /\ total_subscribed'[b] = total_subscribed[b] - amount
        /\ \A c \in BondIds \ {b} : total_subscribed'[c] = total_subscribed[c]
    BY <1>4 DEF TypeOK
  <2> HIDE DEF f, g
  <2> QED
    BY <1>6, <2>1, <2>2 DEF BalancesAddUp
<1>10. SupplyRespected'
  <2>1. total_supply(b)' = total_supply(b)
    BY DEF total_supply
  <2>2. total_supply(b) \in Int
    BY <1>5 DEF IssuedInOrder, total_supply
  <2> QED
    BY <1>1, <1>4, <2>2 DEF SupplyRespected, total_supply, TypeOK
<1> QED
  BY <1>7, <1>8, <1>9, <1>10

(* Every call of the contract, and every tick of the ledger clock,          *)
(* preserves the invariant.                                                 *)
LEMMA IInvStep == IInv /\ [Next]_vars => IInv'
<1> SUFFICES ASSUME IInv, [Next]_vars
             PROVE  IInv'
  OBVIOUS
<1>1. ASSUME NEW caller \in Addresses, NEW b \in BondIds, mature_bond(caller, b), UNCHANGED now
      PROVE  IInv'
  <2>1. b <= bond_count
    BY <1>1 DEF mature_bond, IInv, TypeOK, IssuedInOrder, BondIds
  <2>2. TypeOK'
    BY <1>1 DEF mature_bond, IInv, TypeOK, BondStatuses
  <2>3. IssuedInOrder'
    BY <1>1, <2>1 DEF mature_bond, IInv, TypeOK, IssuedInOrder, BondIds
  <2>4. BalancesAddUp' /\ SupplyRespected'
    BY <1>1 DEF mature_bond, IInv, BalancesAddUp, SupplyRespected, total_supply
  <2> QED
    BY <2>2, <2>3, <2>4 DEF IInv
<1>2. ASSUME Tick, UNCHANGED issuerVars
      PROVE  IInv'
  BY <1>2, IssuerAssumption
     DEF Tick, issuerVars, IInv, TypeOK, IssuedInOrder, BalancesAddUp, SupplyRespected, total_supply
<1>3. ASSUME UNCHANGED vars
      PROVE  IInv'
  BY <1>3 DEF vars, issuerVars, IInv, TypeOK, IssuedInOrder, BalancesAddUp, SupplyRespected, total_supply
<1> QED
  BY <1>1, <1>2, <1>3, IssueStep, SubscribeStep, TransferStep, RedeemStep DEF Next, IssuerCall

(* The inductive invariant holds in every storage the contract can reach.   *)
THEOREM IInvHolds == Spec => []IInv
  BY IInvInit, IInvStep, PTL DEF Spec

(* Every reachable storage is well typed: in particular no sequence of      *)
(* transfers and redemptions drives a balance or the total of a bond below  *)
(* zero.                                                                    *)
THEOREM TypeCorrect == Spec => []TypeOK
  BY IInvHolds, PTL DEF IInv

(* total_subscribed is the sum of the holders' balances and never exceeds   *)
(* the supply, for any accounts, bonds and amounts.                         *)
THEOREM Conservation == Spec => []TokensConserved
<1>1. IInv => TokensConserved
  BY DEF IInv, BalancesAddUp, SupplyRespected, TokensConserved
<1> QED
  BY <1>1, IInvHolds, PTL

-----------------------------------------------------------------------------
(* The holder list and the maturity date *)

(* What append_holder returns has every entry it had, and h.                *)
LEMMA AppendHolderLists ==
  ASSUME TypeOK, HoldersListed, NEW b \in BondIds, NEW h \in Addresses
  PROVE  /\ append_holder(b, h) \in Seq(Addresses)
         /\ \A x \in Addresses : (\E i \in 1 .. Len(holder_list[b]) : holder_list[b][i] = x) =>
              \E i \in 1 .. Len(append_holder(b, h)) : append_holder(b, h)[i] = x
         /\ \E i \in 1 .. Len(append_holder(b, h)) : append_holder(b, h)[i] = h
<1>1. holder_list[b] \in Seq(Addresses)
  BY DEF TypeOK
<1>2. CASE holder_balance[b][h] = 0
  <2>1. append_holder(b, h) = Append(holder_list[b], h)
    BY <1>2 DEF append_holder
  <2>2. /\ Append(holder_list[b], h) \in Seq(Addresses)
        /\ Len(Append(holder_list[b], h)) = Len(holder_list[b]) + 1
        /\ \A i \in 1 .. Len(holder_list[b]) : Append(holder_list[b], h)[i] = holder_list[b][i]
        /\ Append(holder_list[b], h)[Len(holder_list[b]) + 1] = h
    BY <1>1
  <2>3. Len(holder_list[b]) \in Nat
    BY <1>1
  <2> QED
    BY <2>1, <2>2, <2>3
<1>3. CASE holder_balance[b][h] # 0
  <2>1. append_holder(b, h) = holder_list[b] /\ holder_balance[b][h] > 0
    BY <1>3 DEF append_holder, TypeOK
  <2> QED
    BY <1>1, <2>1 DEF HoldersListed, get_holder_count, get_holder_list
<1> QED
  BY <1>2, <1>3

(* A call that appends at most the account whose balance it raises keeps    *)
(* every holder listed.                                                     *)
LEMMA ListedStep == IInv /\ HoldersListed /\ [Next]_vars => HoldersListed'
<1> SUFFICES ASSUME IInv, HoldersListed, [Next]_vars,
                    NEW c \in BondIds, NEW x \in Addresses, holder_balance'[c][x] > 0
             PROVE  \E i \in 1 .. Len(holder_list'[c]) : holder_list'[c][i] = x
  BY DEF HoldersListed, get_holder_count, get_holder_list
<1>0. /\ holder_balance[c][x] \in Nat /\ holder_balance'[c][x] \in Nat
      /\ holder_list \in [BondIds -> Seq(Addresses)]
  BY IInvStep DEF IInv, TypeOK
<1>1. holder_balance[c][x] > 0 => \E i \in 1 .. Len(holder_list[c]) : holder_list[c][i] = x
  BY DEF HoldersListed, get_holder_count, get_holder_list
<1>2. ASSUME NEW caller \in Addresses, NEW config \in Configs, issue_bond(caller, config)
      PROVE  \E i \in 1 .. Len(holder_list'[c]) : holder_list'[c][i] = x
  <2>1. holder_balance' = holder_balance
    BY <1>2 DEF issue_bond
  <2>2. ~(c > bond_count)
    BY <2>1 DEF IInv, IssuedInOrder
  <2>3. holder_list'[c] = holder_list[c]
    BY <1>0, <1>2, <2>2 DEF issue_bond, IInv, TypeOK, BondIds
  <2> QED
    BY <1>1, <2>1, <2>3
<1>3. ASSUME NEW h \in Addresses, NEW b \in BondIds,
             holder_list' = [holder_list EXCEPT ![b] = append_holder(b, h)],
             c # b \/ x # h => holder_balance'[c][x] <= holder_balance[c][x]
      PROVE  \E i \in 1 .. Len(holder_list'[c]) : holder_list'[c][i] = x
  <2>1. c # b \/ x # h => \E i \in 1 .. Len(holder_list[c]) : holder_list[c][i] = x
    <3> SUFFICES ASSUME c # b \/ x # h
                 PROVE  holder_balance[c][x] > 0
      BY <1>1
    <3>1. holder_balance'[c][x] <= holder_balance[c][x] /\ holder_balance'[c][x] > 0
      BY <1>3
    <3> QED
      BY ONLY <1>0, <3>1
  <2>2. CASE c = b
    <3>1. holder_list'[c] = append_holder(b, h)
      BY <1>0, <1>3, <2>2
    <3>2. /\ \A y \in Addresses : (\E i \in 1 .. Len(holder_list[b]) : holder_list[b][i] = y) =>
               \E i \in 1 .. Len(append_holder(b, h)) : append_holder(b, h)[i] = y
          /\ \E i \in 1 .. Len(append_holder(b, h)) : append_holder(b, h)[i] = h
      BY AppendHolderLists DEF IInv
    <3> QED
      BY <2>1, <2>2, <3>1, <3>2
  <2>3. CASE c # b
    <3>1. holder_list'[c] = holder_list[c]
      BY <1>0, <1>3, <2>3
    <3> QED
      BY <2>1, <2>3, <3>1
  <2> QED
    BY <2>2, <2>3
<1>4. ASSUME NEW investor \in Addresses, NEW b \in BondIds, NEW amount \in Amounts,
             subscribe(investor, b, amount)
      PROVE  \E i \in 1 .. Len(holder_list'[c]) : holder_list'[c][i] = x
  <2>1. c # b \/ x # investor => holder_balance'[c][x] <= holder_balance[c][x]
    BY <1>4 DEF subscribe, IInv, TypeOK
  <2> QED
    BY <1>3, <1>4, <2>1 DEF subscribe
<1>5. ASSUME NEW from \in Addresses, NEW to \in Addresses, NEW b \in BondIds,
             NEW amount \in Amounts, transfer(from, to, b, amount)
      PROVE  \E i \in 1 .. Len(holder_list'[c]) : holder_list'[c][i] = x
  <2>1. c # b \/ x # to => holder_balance'[c][x] <= holder_balance[c][x]
    BY <1>5, IssuerAssumption DEF transfer, IInv, TypeOK
  <2> QED
    BY <1>3, <1>5, <2>1 DEF transfer
<1>6. ASSUME NEW holder \in Addresses, NEW b \in BondIds, NEW amount \in Amounts,
             redeem(holder, b, amount)
      PROVE  \E i \in 1 .. Len(holder_list'[c]) : holder_list'[c][i] = x
  <2>1. holder_list' = holder_list /\ holder_balance[c][x] > 0
    BY <1>6, IssuerAssumption DEF redeem, IInv, TypeOK
  <2> QED
    BY <1>1, <2>1
<1>7. ASSUME holder_balance' = holder_balance, holder_list' = holder_list
      PROVE  \E i \in 1 .. Len(holder_list'[c]) : holder_list'[c][i] = x
  BY <1>1, <1>7
<1> QED
  BY <1>2, <1>4, <1>5, <1>6, <1>7 DEF Next, IssuerCall, mature_bond, vars, issuerVars

(* Whoever holds tokens is in the holder list, so a reader of the list      *)
(* misses no holder, for any accounts and however the tokens moved.         *)
THEOREM EveryHolderListed == Spec => []HoldersListed
<1>1. Init => HoldersListed
  BY DEF Init, HoldersListed
<1> QED
  BY <1>1, ListedStep, IInvHolds, PTL DEF Spec

(* A bond open for trading was issued, and has not reached its date.        *)
LEMMA OpenBeforeMaturity ==
  ASSUME IInv, NEW b \in BondIds, OpenForTrading(b)
  PROVE  ~(now >= bond_config[b].maturity_date)
<1>1. b \in Nat /\ bond_count \in Nat /\ now \in Nat
  BY IssuerAssumption DEF IInv, TypeOK, BondIds
<1>2. b <= bond_count
  BY <1>1 DEF IInv, IssuedInOrder, OpenForTrading
<1>3. bond_config[b].maturity_date \in Nat
  BY <1>2, IssuerAssumption DEF IInv, IssuedInOrder
<1> QED
  BY <1>1, <1>3 DEF OpenForTrading

(* From the maturity date on no balance grows, and no token leaves          *)
(* circulation before mature_bond: the date is enforced by subscribe and    *)
(* transfer themselves, the closing by redeem.                              *)
THEOREM FrozenAtMaturity == Spec => MaturityFreezes
<1> DEFINE Frozen == \A b \in BondIds :
             /\ now >= bond_config[b].maturity_date =>
                  \A h \in Addresses : holder_balance'[b][h] <= holder_balance[b][h]
             /\ bond_status[b] # "Matured" => total_subscribed[b] <= total_subscribed'[b]
<1>1. ASSUME IInv, [Next]_vars
      PROVE  Frozen
  <2> USE IssuerAssumption DEF IInv, TypeOK
  <2>1. ASSUME NEW caller \in Addresses, NEW config \in Configs, issue_bond(caller, config)
        PROVE  Frozen
    BY <1>1, <2>1 DEF issue_bond, IssuedInOrder, BondIds
  <2>2. ASSUME NEW investor \in Addresses, NEW b \in BondIds, NEW amount \in Amounts,
               subscribe(investor, b, amount), UNCHANGED now
        PROVE  Frozen
    <3>1. ~(now >= bond_config[b].maturity_date)
      BY <1>1, <2>2, OpenBeforeMaturity DEF subscribe
    <3> QED
      BY <1>1, <2>2, <3>1 DEF subscribe
  <2>3. ASSUME NEW from \in Addresses, NEW to \in Addresses, NEW b \in BondIds,
               NEW amount \in Amounts, transfer(from, to, b, amount), UNCHANGED now
        PROVE  Frozen
    <3>1. ~(now >= bond_config[b].maturity_date)
      BY <1>1, <2>3, OpenBeforeMaturity DEF transfer
    <3> QED
      BY <1>1, <2>3, <3>1 DEF transfer
  <2>4. ASSUME NEW holder \in Addresses, NEW b \in BondIds, NEW amount \in Amounts,
               redeem(holder, b, amount)
        PROVE  Frozen
    <3>1. \A c \in BondIds, h \in Addresses : holder_balance'[c][h] <= holder_balance[c][h]
      <4> SUFFICES ASSUME NEW c \in BondIds, NEW h \in Addresses
                   PROVE  holder_balance'[c][h] <= holder_balance[c][h]
        OBVIOUS
      <4>1. amount \in Int /\ amount > 0 /\ holder_balance[c][h] \in Nat
        BY <1>1, <2>4 DEF redeem
      <4>2. holder_balance'[c][h] = IF c = b /\ h = holder THEN holder_balance[c][h] - amount
                                    ELSE holder_balance[c][h]
        BY <1>1, <2>4 DEF redeem
      <4> QED
        BY ONLY <4>1, <4>2
    <3>2. \A c \in BondIds : bond_status[c] # "Matured" => total_subscribed'[c] = total_subscribed[c]
      BY <1>1, <2>4 DEF redeem
    <3>3. \A c \in BondIds : total_subscribed[c] \in Nat
      BY <1>1
    <3> QED
      BY ONLY <3>1, <3>2, <3>3
  <2>5. ASSUME holder_balance' = holder_balance, total_subscribed' = total_subscribed
        PROVE  Frozen
    BY <1>1, <2>5
  <2> QED
    BY ONLY <1>1, <2>1, <2>2, <2>3, <2>4, <2>5
       DEF Next, IssuerCall, mature_bond, vars, issuerVars
<1>2. IInv /\ [Next]_vars => [Frozen]_vars
  BY <1>1
<1> QED
  BY <1>2, IInvHolds, PTL DEF Spec, MaturityFreezes
=============================================================================
