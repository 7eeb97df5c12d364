---------------------------- MODULE CouponProofs ----------------------------
(* The credits of the coupon engine, beside the bond issuer and the report   *)
(* statuses it reads, for any accounts, bonds, periods, batches, reports,    *)
(* rates and fixed-point scale.                                              *)
EXTENDS CouponEngine, BondIssuerProofs

(* The types of credit a bond of the given type yields.                     *)
KeptTypes(type) == IF type = "Basket" THEN StoredTypes ELSE {storage_type(type)}

BatchRecords ==
  [open : {TRUE}, report_id : Reports, totals : [StoredTypes -> Nat], distributed : Nat,
   by_type : [StoredTypes -> Nat], subscribed : Nat, processed : Nat]

PeriodRecords ==
  [distributed : {TRUE}, report_id : Reports, total_credits_earned : Nat, undistributed : Nat]

CouponTypeOK ==
  /\ registered \subseteq BondIds
  /\ period_info \in [BondIds -> [Periods -> PeriodRecords \cup {NoPeriod}]]
  /\ batch \in [BondIds -> [Periods -> BatchRecords \cup {NoBatch}]]
  /\ holder_distributed \in [BondIds -> [Periods -> SUBSET Addresses]]
  /\ accrued \in [BondIds -> [Addresses -> Nat]]
  /\ accrued_by_type \in [BondIds -> [Addresses -> [StoredTypes -> Nat]]]
  /\ undistributed_total \in [BondIds -> Nat]
  /\ undistributed_by_type \in [BondIds -> [StoredTypes -> Nat]]
  /\ spent \in [BondIds -> Nat]
  /\ payments \in [BondIds -> [Periods -> [Addresses -> [times : Nat, balance : Nat]]]]

(* The marks tell who was paid. *)
PaidAreMarked ==
  \A b \in BondIds, p \in Periods, h \in Addresses :
    payments[b][p][h].times = IF h \in holder_distributed[b][p] THEN 1 ELSE 0

(* An open batch has paid at most the rate on the balances it processed.    *)
BatchInRate(s) ==
  /\ s.processed <= s.subscribed
  /\ s.distributed = s.by_type["Carbon"] + s.by_type["Biodiversity"]
  /\ \A t \in StoredTypes :
       s.by_type[t] * FIXED_POINT <= PerToken(s.totals[t], s.subscribed) * s.processed

RatesKept == \A b \in BondIds, p \in Periods : batch[b][p].open => BatchInRate(batch[b][p])

(* Only registered bonds, and of these only the types the bond yields, ever *)
(* have credits.                                                            *)
OwnType(b, t) == b \in registered /\ t \in KeptTypes(BondCreditType(b))

OnlyOwnTypes ==
  /\ \A b \in registered : bond_status[b] # "None"
  /\ \A b \in BondIds, t \in StoredTypes : ~OwnType(b, t) =>
       /\ \A h \in Addresses : accrued_by_type[b][h][t] = 0
       /\ undistributed_by_type[b][t] = 0
       /\ \A p \in Periods : batch[b][p].open => batch[b][p].totals[t] = 0

TypesAddUp ==
  \A b \in BondIds :
    /\ \A h \in Addresses :
         accrued[b][h] = accrued_by_type[b][h]["Carbon"] + accrued_by_type[b][h]["Biodiversity"]
    /\ undistributed_total[b] =
         undistributed_by_type[b]["Carbon"] + undistributed_by_type[b]["Biodiversity"]

CreditsAddUp ==
  \A b \in BondIds :
    /\ IsFiniteSet(UnitsOf(Addresses, accrued[b]))
    /\ Total(Addresses, accrued[b]) + undistributed_total[b] + spent[b] = Created(b)

StatusesOK == report_status \in [Reports -> {"None", "Pending", "Verified", "Challenged", "Rejected"}]

(* The inductive invariant.  CreditsAddUp needs RatesKept: a period that    *)
(* had paid out more than its report is worth would be closed with a        *)
(* negative remainder, which is not booked.                                 *)
CouponInv ==
  /\ IInv /\ CouponTypeOK /\ StatusesOK /\ PaidAreMarked /\ RatesKept /\ OnlyOwnTypes
  /\ TypesAddUp /\ CreditsAddUp /\ CouponsOnVerified

-----------------------------------------------------------------------------
(* Rounding *)

(* The sums the accounting needs. *)
LEMMA SmallSums == 0 \in Nat /\ 1 \in Nat /\ 0 + 0 = 0 /\ 0 + 1 = 1 /\ 1 + 0 = 1
  OBVIOUS

LEMMA PaymentAdded ==
  ASSUME NEW t \in Nat, NEW x \in Nat, NEW u \in Nat, NEW y \in Nat, NEW q,
         q = [times |-> t + u, balance |-> x + y]
  PROVE  q.times = t + u /\ q \in [times : Nat, balance : Nat]
  OBVIOUS

(* Both divisions round down: the rate per token pays at most the total on  *)
(* all tokens, and a holder gets at most the rate.                          *)
LEMMA RateBound ==
  ASSUME NEW total \in Nat, NEW subscribed \in Nat
  PROVE  /\ PerToken(total, subscribed) \in Nat
         /\ PerToken(total, subscribed) * subscribed <= total * FIXED_POINT
<1> DEFINE x == total * FIXED_POINT
<1>1. x \in Nat
  BY CouponAssumption
<1> HIDE DEF x
<1>2. subscribed > 0 => x \div subscribed \in Nat /\ (x \div subscribed) * subscribed <= x
  BY <1>1
<1>3. PerToken(total, subscribed) = IF subscribed > 0 /\ total > 0 THEN x \div subscribed ELSE 0
  BY DEF PerToken, x
<1>4. x = total * FIXED_POINT
  BY DEF x
<1> QED
  BY <1>1, <1>2, <1>3, <1>4

LEMMA CreditBound ==
  ASSUME NEW rate \in Nat, NEW balance \in Nat
  PROVE  /\ (rate * balance) \div FIXED_POINT \in Nat
         /\ ((rate * balance) \div FIXED_POINT) * FIXED_POINT <= rate * balance
<1> DEFINE x == rate * balance
<1>1. x \in Nat /\ FIXED_POINT \in Nat \ {0}
  BY CouponAssumption
<1> HIDE DEF x
<1>2. x \div FIXED_POINT \in Nat /\ (x \div FIXED_POINT) * FIXED_POINT <= x
  BY <1>1
<1> QED
  BY <1>2 DEF x

(* Credits paid at the rate, on at most all tokens, stay within the total.  *)
LEMMA WithinTotal ==
  ASSUME NEW n \in Nat, NEW rate \in Nat, NEW processed \in Nat, NEW subscribed \in Nat,
         NEW total \in Nat, n * FIXED_POINT <= rate * processed, processed <= subscribed,
         rate * subscribed <= total * FIXED_POINT
  PROVE  n <= total
<1>1. FIXED_POINT \in Nat /\ FIXED_POINT > 0
  BY CouponAssumption
<1>2. rate * processed <= rate * subscribed
  <2>1. PICK d \in Nat : subscribed = processed + d
    <3>1. subscribed - processed \in Nat /\ subscribed = processed + (subscribed - processed)
      OBVIOUS
    <3> QED
      BY <3>1
  <2>2. rate * (processed + d) = rate * processed + rate * d /\ rate * d \in Nat
    OBVIOUS
  <2> QED
    BY <2>1, <2>2
<1>3. n * FIXED_POINT <= total * FIXED_POINT
  BY <1>1, <1>2
<1>4. CASE n > total
  <2>1. PICK d \in Nat : n = total + d /\ d > 0
    <3>1. n - total \in Nat /\ n = total + (n - total) /\ n - total > 0
      BY <1>4
    <3> QED
      BY <3>1
  <2>2. (total + d) * FIXED_POINT = total * FIXED_POINT + d * FIXED_POINT /\ d * FIXED_POINT > 0
    BY <1>1, <2>1
  <2> QED
    BY <1>1, <1>3, <2>1, <2>2
<1> QED
  BY <1>4

-----------------------------------------------------------------------------
(* Initial states and the steps that move no credit *)

(* Nothing was distributed at first.                                        *)
LEMMA CouponInvInit == CouponInit => CouponInv
<1> SUFFICES ASSUME CouponInit
             PROVE  CouponInv
  OBVIOUS
<1> USE DEF CouponInit
<1>1. IInv
  BY IInvInit
<1>2. CouponTypeOK
  BY DEF CouponTypeOK
<1>3. StatusesOK
  BY DEF StatusesOK, LifecycleInit
<1>4. PaidAreMarked
  BY DEF PaidAreMarked
<1>5. ~NoBatch.open /\ ~NoPeriod.distributed
  BY DEF NoBatch, NoPeriod
<1>6. RatesKept /\ OnlyOwnTypes /\ TypesAddUp /\ CouponsOnVerified
  BY <1>5 DEF RatesKept, OnlyOwnTypes, TypesAddUp, CouponsOnVerified, StoredTypes, get_period_info
<1>7. CreditsAddUp
  <2> SUFFICES ASSUME NEW b \in BondIds
               PROVE  /\ IsFiniteSet(UnitsOf(Addresses, accrued[b]))
                      /\ Total(Addresses, accrued[b]) + undistributed_total[b] + spent[b] = Created(b)
    BY Zenon DEF CreditsAddUp
  <2>1. IsFiniteSet(UnitsOf(Addresses, accrued[b])) /\ Total(Addresses, accrued[b]) = 0
    BY TotalZero
  <2>2. Created(b) = 0
    BY <1>5, TotalZero DEF Created
  <2> QED
    BY <2>1, <2>2
<1> QED
  BY <1>1, <1>2, <1>3, <1>4, <1>6, <1>7 DEF CouponInv

(* An entry is a record or is missing.                                      *)
LEMMA EntryTypes ==
  ASSUME CouponTypeOK, NEW b \in BondIds, NEW p \in Periods
  PROVE  /\ batch[b][p].open => batch[b][p] \in BatchRecords /\ batch[b][p].report_id \in Reports
         /\ period_info[b][p].distributed =>
              period_info[b][p] \in PeriodRecords /\ period_info[b][p].report_id \in Reports
         /\ ~batch[b][p].open => batch[b][p] = NoBatch
<1>1. batch[b][p] \in BatchRecords \cup {NoBatch} /\ period_info[b][p] \in PeriodRecords \cup {NoPeriod}
  BY DEF CouponTypeOK
<1>2. ~NoBatch.open /\ ~NoPeriod.distributed
  BY DEF NoBatch, NoPeriod
<1>3. \A s \in BatchRecords : s.open /\ s.report_id \in Reports
  BY Zenon DEF BatchRecords
<1>4. \A i \in PeriodRecords : i.distributed /\ i.report_id \in Reports
  BY Zenon DEF PeriodRecords
<1> QED
  BY <1>1, <1>2, <1>3, <1>4, Zenon

(* The terms of an issued bond never change.                                *)
LEMMA TermsFixed ==
  ASSUME IInv, Next, NEW b \in BondIds, bond_status[b] # "None"
  PROVE  bond_config'[b] = bond_config[b] /\ bond_status'[b] # "None"
<1> USE IssuerAssumption DEF IInv
<1>1. ASSUME NEW caller \in Addresses, NEW config \in Configs, issue_bond(caller, config)
      PROVE  bond_config'[b] = bond_config[b] /\ bond_status'[b] # "None"
  BY <1>1 DEF issue_bond, IssuedInOrder, TypeOK, BondIds
<1>2. ASSUME NEW caller \in Addresses, NEW c \in BondIds, mature_bond(caller, c)
      PROVE  bond_config'[b] = bond_config[b] /\ bond_status'[b] # "None"
  BY <1>2 DEF mature_bond, TypeOK
<1> QED
  BY <1>1, <1>2, Zenon DEF Next, IssuerCall, issuerVars, subscribe, transfer, redeem

(* What the credit invariants say of the engine's own state.                *)
EngineInv == CouponTypeOK /\ PaidAreMarked /\ RatesKept /\ TypesAddUp /\ CreditsAddUp

LEMMA EngineUntouched ==
  ASSUME EngineInv, UNCHANGED couponVars
  PROVE  EngineInv'
<1> USE DEF couponVars, periodVars, creditVars, dustVars, EngineInv
<1>1. CouponTypeOK'
  BY DEF CouponTypeOK
<1>2. PaidAreMarked' /\ RatesKept' /\ TypesAddUp'
  BY DEF PaidAreMarked, RatesKept, TypesAddUp
<1>3. CreditsAddUp'
  BY DEF CreditsAddUp, Created
<1> QED
  BY <1>1, <1>2, <1>3

(* Steps of the issuer, the oracle and the registry.                        *)
LEMMA OutsideStep ==
  ASSUME CouponInv, UNCHANGED couponVars,
         \/ Next /\ UNCHANGED report_status
         \/ LifecycleNext /\ UNCHANGED vars
         \/ UNCHANGED <<vars, report_status>>
  PROVE  CouponInv'
<1>1. IInv'
  BY IInvStep DEF CouponInv
<1>2. EngineInv'
  BY EngineUntouched DEF CouponInv, EngineInv
<1>3. StatusesOK' /\ \A r \in Reports : report_status[r] = "Verified" => report_status'[r] = "Verified"
  <2>1. CASE UNCHANGED report_status
    BY <2>1 DEF CouponInv, StatusesOK
  <2>2. CASE LifecycleNext
    <3>1. PICK r \in Reports : MoveReport(r)
      BY <2>2 DEF LifecycleNext
    <3>2. report_status[r] # "Verified"
      BY <3>1, Zenon DEF MoveReport, Moves
    <3> QED
      BY <3>1, <3>2 DEF CouponInv, StatusesOK, MoveReport
  <2> QED
    BY <2>1, <2>2
<1>4. CouponsOnVerified'
  BY <1>3, EntryTypes DEF CouponInv, CouponsOnVerified, couponVars, periodVars, get_period_info
<1>5. \A b \in registered : bond_config'[b] = bond_config[b] /\ bond_status'[b] # "None"
  <2>1. CASE Next
    BY <2>1, TermsFixed DEF CouponInv, OnlyOwnTypes, CouponTypeOK
  <2>2. CASE UNCHANGED vars
    BY <2>2, Zenon DEF CouponInv, OnlyOwnTypes, vars, issuerVars
  <2> QED
    BY <2>1, <2>2
<1>6. OnlyOwnTypes'
  BY <1>5 DEF CouponInv, OnlyOwnTypes, OwnType, BondCreditType, couponVars, periodVars, creditVars, dustVars
<1> QED
  BY <1>1, <1>2, <1>3, <1>4, <1>6 DEF CouponInv, EngineInv

-----------------------------------------------------------------------------
(* Claims, sweeps and deductions *)

(* A call that leaves the periods alone.                                    *)
LEMMA PeriodsUntouched ==
  ASSUME CouponInv, UNCHANGED <<vars, report_status, periodVars>>
  PROVE  /\ IInv' /\ StatusesOK' /\ PaidAreMarked' /\ RatesKept' /\ CouponsOnVerified'
         /\ \A b \in BondIds : Created(b)' = Created(b)
<1>1. IInv'
  BY IInvStep DEF CouponInv
<1>2. StatusesOK' /\ PaidAreMarked' /\ RatesKept' /\ CouponsOnVerified'
  BY DEF CouponInv, StatusesOK, PaidAreMarked, RatesKept, CouponsOnVerified, periodVars, get_period_info
<1>3. \A b \in BondIds : Created(b)' = Created(b)
  BY DEF Created, periodVars
<1> QED
  BY <1>1, <1>2, <1>3

(* A registered bond is one of the given terms, and a claim on it clears    *)
(* every type it yields.                                                    *)
LEMMA RegisteredTerms ==
  ASSUME CouponInv, NEW b \in registered
  PROVE  /\ b \in BondIds
         /\ BondCreditType(b) \in CreditTypes
         /\ ClaimTypes(b) = KeptTypes(BondCreditType(b))
         /\ KeptTypes(BondCreditType(b)) \subseteq StoredTypes
<1>1. b \in BondIds /\ bond_status[b] # "None"
  BY DEF CouponInv, CouponTypeOK, OnlyOwnTypes
<1>2. bond_config[b] \in Configs
  BY <1>1, IssuerAssumption DEF CouponInv, IInv, IssuedInOrder, TypeOK, BondIds
<1>3. BondCreditType(b) \in CreditTypes
  BY <1>2, CouponAssumption DEF BondCreditType
<1> QED
  BY <1>1, <1>3, Zenon DEF CreditTypes, ClaimTypes, KeptTypes, StoredTypes, storage_type

(* A call that sets the credits of one account on a bond to by, n combined, *)
(* against the dust, now d, or against what was spent, now k.               *)
AccountSet(b, h, n, by, d, dust, k) ==
  /\ n \in Nat /\ by \in [StoredTypes -> Nat] /\ n = by["Carbon"] + by["Biodiversity"]
  /\ d \in Nat /\ dust \in [StoredTypes -> Nat] /\ d = dust["Carbon"] + dust["Biodiversity"]
  /\ k \in Nat /\ n + d + k = accrued[b][h] + undistributed_total[b] + spent[b]
  /\ \A t \in StoredTypes : ~OwnType(b, t) => by[t] = 0 /\ dust[t] = 0
  /\ accrued' = [accrued EXCEPT ![b][h] = n]
  /\ accrued_by_type' = [accrued_by_type EXCEPT ![b][h] = by]
  /\ undistributed_total' = [undistributed_total EXCEPT ![b] = d]
  /\ undistributed_by_type' = [undistributed_by_type EXCEPT ![b] = dust]
  /\ spent' = [spent EXCEPT ![b] = k]

LEMMA AccountChanged ==
  ASSUME CouponInv, UNCHANGED <<vars, report_status, periodVars, registered>>,
         NEW b \in BondIds, NEW h \in Addresses, NEW n, NEW by, NEW d, NEW dust, NEW k,
         AccountSet(b, h, n, by, d, dust, k)
  PROVE  CouponInv'
<1> USE DEF AccountSet
<1>1. /\ IInv' /\ StatusesOK' /\ PaidAreMarked' /\ RatesKept' /\ CouponsOnVerified'
      /\ \A c \in BondIds : Created(c)' = Created(c)
  BY PeriodsUntouched
<1>2. /\ accrued \in [BondIds -> [Addresses -> Nat]]
      /\ accrued_by_type \in [BondIds -> [Addresses -> [StoredTypes -> Nat]]]
      /\ undistributed_total \in [BondIds -> Nat]
      /\ undistributed_by_type \in [BondIds -> [StoredTypes -> Nat]]
      /\ spent \in [BondIds -> Nat]
  BY Zenon DEF CouponInv, CouponTypeOK
<1>3. /\ accrued' \in [BondIds -> [Addresses -> Nat]]
      /\ accrued_by_type' \in [BondIds -> [Addresses -> [StoredTypes -> Nat]]]
      /\ undistributed_total' \in [BondIds -> Nat]
      /\ undistributed_by_type' \in [BondIds -> [StoredTypes -> Nat]]
      /\ spent' \in [BondIds -> Nat]
  BY <1>2
<1>4. /\ \A c \in BondIds \ {b} :
           /\ accrued'[c] = accrued[c] /\ accrued_by_type'[c] = accrued_by_type[c]
           /\ undistributed_total'[c] = undistributed_total[c]
           /\ undistributed_by_type'[c] = undistributed_by_type[c] /\ spent'[c] = spent[c]
      /\ \A a \in Addresses \ {h} :
           accrued'[b][a] = accrued[b][a] /\ accrued_by_type'[b][a] = accrued_by_type[b][a]
      /\ accrued'[b][h] = n /\ accrued_by_type'[b][h] = by
      /\ undistributed_total'[b] = d /\ undistributed_by_type'[b] = dust /\ spent'[b] = k
  BY <1>2, Zenon
<1>5. CouponTypeOK'
  BY <1>3 DEF CouponInv, CouponTypeOK, periodVars
<1>6. TypesAddUp'
  <2> SUFFICES ASSUME NEW c \in BondIds
               PROVE  /\ \A a \in Addresses : accrued'[c][a] =
                           accrued_by_type'[c][a]["Carbon"] + accrued_by_type'[c][a]["Biodiversity"]
                      /\ undistributed_total'[c] =
                           undistributed_by_type'[c]["Carbon"] + undistributed_by_type'[c]["Biodiversity"]
    BY DEF TypesAddUp
  <2>1. CASE c = b
    BY <1>4, <2>1 DEF CouponInv, TypesAddUp
  <2>2. CASE c # b
    BY <1>4, <2>2 DEF CouponInv, TypesAddUp
  <2> QED
    BY <2>1, <2>2
<1>7. OnlyOwnTypes'
  <2>1. \A c \in registered' : bond_status'[c] # "None"
    BY DEF CouponInv, OnlyOwnTypes, vars, issuerVars
  <2>2. \A c \in BondIds, t \in StoredTypes : OwnType(c, t)' <=> OwnType(c, t)
    BY DEF OwnType, BondCreditType, vars, issuerVars
  <2>3. ASSUME NEW c \in BondIds, NEW t \in StoredTypes, ~OwnType(c, t)
        PROVE  /\ \A a \in Addresses : accrued_by_type'[c][a][t] = 0
               /\ undistributed_by_type'[c][t] = 0
               /\ \A p \in Periods : batch'[c][p].open => batch'[c][p].totals[t] = 0
    <3>1. /\ \A a \in Addresses : accrued_by_type[c][a][t] = 0
          /\ undistributed_by_type[c][t] = 0
          /\ \A p \in Periods : batch'[c][p].open => batch'[c][p].totals[t] = 0
      BY <2>3 DEF CouponInv, OnlyOwnTypes, periodVars
    <3>2. CASE c = b
      <4>1. \A a \in Addresses : accrued_by_type'[b][a][t] = 0
        BY <1>4, <2>3, <3>1, <3>2
      <4>2. undistributed_by_type'[b][t] = 0
        BY <1>4, <2>3, <3>2
      <4> QED
        BY <3>1, <3>2, <4>1, <4>2, Zenon
    <3>3. CASE c # b
      BY <1>4, <3>1, <3>3, Zenon
    <3> QED
      BY <3>2, <3>3
  <2> QED
    BY <2>1, <2>2, <2>3 DEF OnlyOwnTypes
<1>8. CreditsAddUp'
  <2> SUFFICES ASSUME NEW c \in BondIds
               PROVE  /\ IsFiniteSet(UnitsOf(Addresses, accrued'[c]))
                      /\ Total(Addresses, accrued'[c]) + undistributed_total'[c] + spent'[c] = Created(c)'
    BY Zenon DEF CreditsAddUp
  <2>1. /\ IsFiniteSet(UnitsOf(Addresses, accrued[c]))
        /\ Total(Addresses, accrued[c]) + undistributed_total[c] + spent[c] = Created(c)
    BY DEF CouponInv, CreditsAddUp
  <2>2. CASE c # b
    BY <1>1, <1>4, <2>1, <2>2, Zenon
  <2>3. CASE c = b
    <3> DEFINE f == accrued[b]
               g == accrued'[b]
    <3>1. f \in [Addresses -> Nat] /\ g \in [Addresses -> Nat] /\ g[h] = n /\ h \in Addresses
          /\ \A a \in Addresses \ {h} : g[a] = f[a]
      BY <1>2, <1>3, <1>4, Zenon
    <3> HIDE DEF f, g
    <3>2. IsFiniteSet(UnitsOf(Addresses, f))
      BY <2>1, <2>3 DEF f
    <3>3. /\ IsFiniteSet(UnitsOf(Addresses, g))
          /\ Total(Addresses, f) \in Nat /\ Total(Addresses, g) \in Nat
          /\ Total(Addresses, g) + f[h] = Total(Addresses, f) + g[h]
      BY ONLY <3>1, <3>2, TotalChanged
    <3>4. f[h] \in Nat /\ undistributed_total[b] \in Nat /\ spent[b] \in Nat
          /\ n + d + k = f[h] + undistributed_total[b] + spent[b]
      BY <1>2, <3>1 DEF f
    <3>5. Total(Addresses, g) + d + k = Total(Addresses, f) + undistributed_total[b] + spent[b]
      <4>1. PICK x \in Nat, y \in Nat, u \in Nat, v \in Nat, w \in Nat :
              /\ x = Total(Addresses, f) /\ y = Total(Addresses, g) /\ u = f[h]
              /\ v = undistributed_total[b] /\ w = spent[b]
        BY <3>3, <3>4
      <4>2. y + u = x + n /\ n + d + k = u + v + w
        BY <3>1, <3>3, <3>4, <4>1
      <4>3. y + d + k = x + v + w
        BY ONLY <4>2, n \in Nat, d \in Nat, k \in Nat, x \in Nat, y \in Nat, u \in Nat, v \in Nat,
           w \in Nat
      <4> QED
        BY <4>1, <4>3
    <3>6. Total(Addresses, f) + undistributed_total[b] + spent[b] = Created(b)
      BY <2>1, <2>3 DEF f
    <3> QED
      BY <1>1, <1>4, <2>3, <3>3, <3>5, <3>6 DEF g
  <2> QED
    BY <2>2, <2>3
<1> QED
  BY <1>1, <1>5, <1>6, <1>7, <1>8, Zenon DEF CouponInv

(* claim_credits pays an account out.                                       *)
LEMMA ClaimStep ==
  ASSUME CouponInv, NEW caller \in Addresses, NEW b \in BondIds, claim_credits(caller, b),
         UNCHANGED <<vars, report_status>>
  PROVE  CouponInv'
<1> DEFINE old == accrued_by_type[b][caller]
           by == [t \in StoredTypes |-> IF t \in ClaimTypes(b) THEN 0 ELSE old[t]]
           k == spent[b] + accrued[b][caller]
           d == undistributed_total[b]
           dust == undistributed_by_type[b]
<1>1. /\ b \in registered
      /\ accrued' = [accrued EXCEPT ![b][caller] = 0]
      /\ accrued_by_type' = [accrued_by_type EXCEPT ![b][caller] = by]
      /\ spent' = [spent EXCEPT ![b] = k]
      /\ UNCHANGED <<registered, periodVars, dustVars>>
  BY Zenon DEF claim_credits
<1>2. /\ old \in [StoredTypes -> Nat] /\ accrued[b][caller] \in Nat /\ spent[b] \in Nat
      /\ d \in Nat /\ dust \in [StoredTypes -> Nat]
      /\ undistributed_total \in [BondIds -> Nat]
      /\ undistributed_by_type \in [BondIds -> [StoredTypes -> Nat]]
  BY DEF CouponInv, CouponTypeOK
<1>3. \A t \in StoredTypes : ~OwnType(b, t) => old[t] = 0 /\ dust[t] = 0
  BY DEF CouponInv, OnlyOwnTypes
<1>4. ClaimTypes(b) = KeptTypes(BondCreditType(b))
  BY <1>1, RegisteredTerms
<1>5. \A t \in StoredTypes : by[t] = 0
  BY <1>1, <1>3, <1>4, Zenon DEF OwnType
<1>6. by \in [StoredTypes -> Nat] /\ 0 = by["Carbon"] + by["Biodiversity"]
  BY <1>5 DEF StoredTypes
<1>7. d = dust["Carbon"] + dust["Biodiversity"]
  BY DEF CouponInv, TypesAddUp
<1>8. /\ undistributed_total' = [undistributed_total EXCEPT ![b] = d]
      /\ undistributed_by_type' = [undistributed_by_type EXCEPT ![b] = dust]
  BY <1>1, <1>2 DEF dustVars
<1>9. k \in Nat /\ 0 + d + k = accrued[b][caller] + undistributed_total[b] + spent[b]
  BY <1>2
<1> HIDE DEF by, k, d, dust, old
<1>10. AccountSet(b, caller, 0, by, d, dust, k)
  BY <1>1, <1>2, <1>3, <1>5, <1>6, <1>7, <1>8, <1>9, Zenon DEF AccountSet
<1> QED
  BY <1>1, <1>10, AccountChanged

(* sweep_undistributed turns the dust into credits of the destination.      *)
LEMMA SweepStep ==
  ASSUME CouponInv, NEW caller \in Addresses, NEW b \in BondIds, NEW to \in SweepDestinations,
         sweep_undistributed(caller, b, to), UNCHANGED <<vars, report_status>>
  PROVE  CouponInv'
<1> DEFINE old == accrued_by_type[b][to]
           was == undistributed_by_type[b]
           by == [t \in StoredTypes |-> old[t] + was[t]]
           n == accrued[b][to] + was["Carbon"] + was["Biodiversity"]
           k == spent[b]
           dust == [t \in StoredTypes |-> 0]
<1>1. /\ accrued' = [accrued EXCEPT ![b][to] = n]
      /\ accrued_by_type' = [accrued_by_type EXCEPT ![b][to] = by]
      /\ undistributed_total' = [undistributed_total EXCEPT ![b] = 0]
      /\ undistributed_by_type' = [undistributed_by_type EXCEPT ![b] = dust]
      /\ UNCHANGED <<registered, periodVars, spent>>
  BY Zenon DEF sweep_undistributed
<1>2. /\ old \in [StoredTypes -> Nat] /\ accrued[b][to] \in Nat /\ k \in Nat
      /\ was \in [StoredTypes -> Nat] /\ spent \in [BondIds -> Nat] /\ to \in Addresses
  BY CouponAssumption DEF CouponInv, CouponTypeOK
<1>3. \A t \in StoredTypes : ~OwnType(b, t) => old[t] = 0 /\ was[t] = 0
  BY <1>2 DEF CouponInv, OnlyOwnTypes
<1>4. /\ accrued[b][to] = old["Carbon"] + old["Biodiversity"]
      /\ undistributed_total[b] = was["Carbon"] + was["Biodiversity"]
  BY <1>2 DEF CouponInv, TypesAddUp
<1>5. {"Carbon", "Biodiversity"} \subseteq StoredTypes
  BY Zenon DEF StoredTypes
<1>6. /\ by \in [StoredTypes -> Nat] /\ n \in Nat /\ n = by["Carbon"] + by["Biodiversity"]
  BY <1>2, <1>4, <1>5
<1>7. dust \in [StoredTypes -> Nat] /\ 0 = dust["Carbon"] + dust["Biodiversity"]
  BY <1>5
<1>8. \A t \in StoredTypes : ~OwnType(b, t) => by[t] = 0 /\ dust[t] = 0
  BY <1>2, <1>3
<1>9. n + 0 + k = accrued[b][to] + undistributed_total[b] + spent[b]
  BY <1>2, <1>4, <1>5
<1>10. spent' = [spent EXCEPT ![b] = k]
  BY <1>1, <1>2
<1> HIDE DEF by, k, n, dust, old, was
<1>11. AccountSet(b, to, n, by, 0, dust, k)
  BY <1>1, <1>2, <1>6, <1>7, <1>8, <1>9, <1>10, Zenon DEF AccountSet
<1> QED
  BY <1>1, <1>2, <1>11, AccountChanged

(* deduct_credits takes the amount from both entries of the account.        *)
LEMMA DeductStep ==
  ASSUME CouponInv, NEW b \in BondIds, NEW h \in Addresses, NEW amount \in Retirements,
         NEW type \in CreditTypes, deduct_credits(b, h, amount, type),
         UNCHANGED <<vars, report_status>>
  PROVE  CouponInv'
<1> DEFINE old == accrued_by_type[b][h]
           s == storage_type(type)
           by == [old EXCEPT ![s] = @ - amount]
           n == accrued[b][h] - amount
           k == spent[b] + amount
           d == undistributed_total[b]
           dust == undistributed_by_type[b]
<1>1. /\ Deductible(b, h, amount, type)
      /\ accrued' = [accrued EXCEPT ![b][h] = n]
      /\ accrued_by_type' = [accrued_by_type EXCEPT ![b][h] = by]
      /\ spent' = [spent EXCEPT ![b] = k]
      /\ UNCHANGED <<registered, periodVars, dustVars>>
  BY Zenon DEF deduct_credits
<1>2. /\ old \in [StoredTypes -> Nat] /\ accrued[b][h] \in Nat /\ spent[b] \in Nat
      /\ d \in Nat /\ dust \in [StoredTypes -> Nat]
      /\ undistributed_total \in [BondIds -> Nat]
      /\ undistributed_by_type \in [BondIds -> [StoredTypes -> Nat]]
  BY DEF CouponInv, CouponTypeOK
<1>3. \A t \in StoredTypes : ~OwnType(b, t) => old[t] = 0 /\ dust[t] = 0
  BY Zenon DEF CouponInv, OnlyOwnTypes
<1>4. /\ accrued[b][h] = old["Carbon"] + old["Biodiversity"]
      /\ d = dust["Carbon"] + dust["Biodiversity"]
  BY DEF CouponInv, TypesAddUp
<1>5. amount \in Nat /\ amount > 0 /\ amount <= accrued[b][h] /\ s \in StoredTypes /\ amount <= old[s]
  BY <1>1, CouponAssumption DEF Deductible
<1>6. s = "Carbon" \/ s = "Biodiversity"
  BY <1>5, Zenon DEF StoredTypes
<1>7. /\ by \in [StoredTypes -> Nat] /\ n \in Nat /\ n = by["Carbon"] + by["Biodiversity"]
  <2>1. old["Carbon"] \in Nat /\ old["Biodiversity"] \in Nat /\ DOMAIN old = {"Carbon", "Biodiversity"}
    BY <1>2, Zenon DEF StoredTypes
  <2> HIDE DEF old, s
  <2>2. by["Carbon"] \in Nat /\ by["Biodiversity"] \in Nat /\ n \in Nat
        /\ n = by["Carbon"] + by["Biodiversity"]
    BY ONLY <1>2, <1>4, <1>5, <1>6, <2>1
  <2>3. by \in [StoredTypes -> Nat]
    BY <2>1, <2>2, Zenon DEF StoredTypes
  <2> QED
    BY <2>2, <2>3, Zenon
<1>8. \A t \in StoredTypes : ~OwnType(b, t) => by[t] = 0 /\ dust[t] = 0
  BY <1>2, <1>3, <1>5
<1>9. /\ undistributed_total' = [undistributed_total EXCEPT ![b] = d]
      /\ undistributed_by_type' = [undistributed_by_type EXCEPT ![b] = dust]
  BY <1>1, <1>2, Zenon DEF dustVars
<1>10. k \in Nat /\ n + d + k = accrued[b][h] + undistributed_total[b] + spent[b]
  BY <1>2, <1>5
<1> HIDE DEF by, k, n, d, dust, old
<1>11. AccountSet(b, h, n, by, d, dust, k)
  BY <1>1, <1>2, <1>4, <1>7, <1>8, <1>9, <1>10, Zenon DEF AccountSet
<1> QED
  BY <1>1, <1>11, AccountChanged

(* register_bond and register_deduct_caller move no credit.                 *)
LEMMA RegisterStep ==
  ASSUME CouponInv, UNCHANGED <<vars, report_status, periodVars, creditVars, dustVars>>,
         NEW new \in SUBSET BondIds, registered' = registered \cup new,
         \A b \in new : bond_status[b] # "None"
  PROVE  CouponInv'
<1>1. /\ IInv' /\ StatusesOK' /\ PaidAreMarked' /\ RatesKept' /\ CouponsOnVerified'
      /\ \A c \in BondIds : Created(c)' = Created(c)
  BY PeriodsUntouched
<1> USE DEF CouponInv, creditVars, dustVars, periodVars
<1>2. CouponTypeOK'
  BY Zenon DEF CouponTypeOK
<1>3. TypesAddUp'
  BY DEF TypesAddUp
<1>4. OnlyOwnTypes'
  BY Zenon DEF OnlyOwnTypes, OwnType, BondCreditType, vars, issuerVars
<1>5. CreditsAddUp'
  BY <1>1 DEF CreditsAddUp
<1> QED
  BY <1>1, <1>2, <1>3, <1>4, <1>5

-----------------------------------------------------------------------------
(* Distributions *)

(* The parts of a call of distribute_coupon.                                *)
LEMMA DistributionParts ==
  ASSUME NEW caller \in Addresses, NEW b \in BondIds, NEW p \in Periods, NEW holders \in Batches,
         NEW r \in Reports, NEW last \in BOOLEAN,
         distribute_coupon(caller, b, p, holders, r, last)
  PROVE  LET s == StateOf(b, p, r)
             paid == Paid(b, p, holders)
             credit == CreditOf(s, paid, holders)
             after == AfterBatch(s, Total(paid, BalanceOf(paid, holders)), EarnedOf(paid, credit))
         IN /\ ~period_info[b][p].distributed /\ b \in registered
            /\ ~batch[b][p].open => ReportUsable(b, r)
            /\ after.processed <= s.subscribed
            /\ PayHolders(b, p, holders, paid, credit)
            /\ \/ FinalisePeriod(b, p, after)
               \/ /\ batch' = [batch EXCEPT ![b][p] = after]
                  /\ UNCHANGED <<period_info, period_count, dustVars>>
            /\ UNCHANGED <<registered, deduct_caller>>
  BY Zenon DEF distribute_coupon

(* A distribution starts from, and leaves, a well-formed record.            *)
LEMMA AfterFields ==
  ASSUME NEW s \in BatchRecords, NEW n \in Nat, NEW earned \in [StoredTypes -> Nat]
  PROVE  LET after == AfterBatch(s, n, earned) IN
         /\ after \in BatchRecords
         /\ after.report_id = s.report_id /\ after.totals = s.totals /\ after.subscribed = s.subscribed
         /\ after.processed = s.processed + n
         /\ after.distributed = s.distributed + earned["Carbon"] + earned["Biodiversity"]
         /\ after.by_type = [t \in StoredTypes |-> s.by_type[t] + earned[t]]
<1> DEFINE x == s.processed + n
           y == s.distributed + earned["Carbon"] + earned["Biodiversity"]
           z == [t \in StoredTypes |-> s.by_type[t] + earned[t]]
           one == [s EXCEPT !.processed = x]
           two == [one EXCEPT !.distributed = y]
           new == [two EXCEPT !.by_type = z]
<1>1. x \in Nat /\ y \in Nat /\ z \in [StoredTypes -> Nat]
  BY DEF BatchRecords, StoredTypes
<1>2. AfterBatch(s, n, earned) = new
  BY Zenon DEF AfterBatch
<1> HIDE DEF x, y, z
<1>3. /\ one \in BatchRecords /\ one.processed = x
      /\ one.report_id = s.report_id /\ one.totals = s.totals /\ one.subscribed = s.subscribed
  BY <1>1, Zenon DEF BatchRecords
<1> HIDE DEF one
<1>4. /\ two \in BatchRecords /\ two.processed = one.processed /\ two.distributed = y
      /\ two.report_id = one.report_id /\ two.totals = one.totals /\ two.subscribed = one.subscribed
  BY <1>1, <1>3, Zenon DEF BatchRecords
<1> HIDE DEF two
<1>5. /\ new \in BatchRecords /\ new.processed = two.processed /\ new.distributed = two.distributed
      /\ new.by_type = z
      /\ new.report_id = two.report_id /\ new.totals = two.totals /\ new.subscribed = two.subscribed
  BY <1>1, <1>4, Zenon DEF BatchRecords
<1> QED
  BY <1>2, <1>3, <1>4, <1>5, Zenon DEF x, y, z

(* A usable report is worth naturally many credits, of the bond's types.    *)
LEMMA ReportWorth ==
  ASSUME NEW type \in CreditTypes, NEW r \in Reports,
         type \in {"Biodiversity", "Basket"} => ReportData[r].biodiversity # {}
  PROVE  LET totals == ReportTotals(type, ReportData[r]) IN
         /\ totals \in [StoredTypes -> Nat]
         /\ \A t \in StoredTypes : t \notin KeptTypes(type) => totals[t] = 0
<1> DEFINE data == ReportData[r]
           m == CHOOSE m \in data.biodiversity : TRUE
           totals == ReportTotals(type, data)
<1>1. data.carbon \in Nat /\ data.biodiversity \subseteq Nat \X Nat \X Nat
  BY CouponAssumption
<1>2. data.carbon \div CREDIT_DIVISOR \in Nat
  <2>1. CREDIT_DIVISOR \in Nat \ {0}
    BY CouponAssumption
  <2> QED
    BY <1>1, <2>1
<1>3. type \in {"Biodiversity", "Basket"} => compute_biodiversity_credits(m) \in Nat
  <2> SUFFICES ASSUME type \in {"Biodiversity", "Basket"}
               PROVE  compute_biodiversity_credits(m) \in Nat
    OBVIOUS
  <2>1. m \in Nat \X Nat \X Nat
    BY <1>1
  <2> HIDE DEF m
  <2>2. m[1] \in Nat /\ m[2] \in Nat /\ m[3] \in Nat
    BY <2>1
  <2>3. HABITAT_CREDIT_RATE \in Nat \ {0} /\ SPECIES_CREDIT_RATE \in Nat /\ UNIT_CREDIT_RATE \in Nat
    BY CouponAssumption
  <2>4. m[1] * HABITAT_CREDIT_RATE + m[2] * SPECIES_CREDIT_RATE + m[3] * UNIT_CREDIT_RATE \in Nat
    BY <2>2, <2>3
  <2> QED
    BY <2>3, <2>4 DEF compute_biodiversity_credits
<1>4. /\ totals = [t \in StoredTypes |-> totals[t]]
      /\ totals["Carbon"] = IF type # "Biodiversity" THEN data.carbon \div CREDIT_DIVISOR ELSE 0
      /\ totals["Biodiversity"] = IF type \in {"Biodiversity", "Basket"}
                                  THEN compute_biodiversity_credits(m) ELSE 0
  <2>1. totals = [t \in StoredTypes |-> totals[t]]
    BY DEF ReportTotals
  <2>2. totals["Carbon"] = IF type # "Biodiversity" THEN data.carbon \div CREDIT_DIVISOR ELSE 0
    <3>1. CASE type # "Biodiversity"
      BY <3>1 DEF ReportTotals, StoredTypes
    <3>2. CASE type = "Biodiversity"
      BY <3>2 DEF ReportTotals, StoredTypes
    <3> QED
      BY <3>1, <3>2
  <2>3. totals["Biodiversity"] = IF type \in {"Biodiversity", "Basket"}
                                 THEN compute_biodiversity_credits(m) ELSE 0
    BY DEF ReportTotals, StoredTypes
  <2> QED
    BY <2>1, <2>2, <2>3
<1>5. totals["Carbon"] \in Nat /\ totals["Biodiversity"] \in Nat
  BY <1>2, <1>3, <1>4
<1>6. /\ "Carbon" \notin KeptTypes(type) => totals["Carbon"] = 0
      /\ "Biodiversity" \notin KeptTypes(type) => totals["Biodiversity"] = 0
  BY <1>4 DEF KeptTypes, CreditTypes, StoredTypes, storage_type
<1> HIDE DEF totals, data
<1>7. /\ totals \in [StoredTypes -> Nat]
      /\ \A t \in StoredTypes : t \notin KeptTypes(type) => totals[t] = 0
  BY <1>4, <1>5, <1>6, Zenon DEF StoredTypes
<1> QED
  BY <1>7 DEF totals, data

(* The state a call goes on from is in rate, of the bond's types and rests  *)
(* on a verified report.                                                    *)
LEMMA StateInRate ==
  ASSUME CouponInv, NEW b \in registered, NEW p \in Periods, NEW r \in Reports,
         ~batch[b][p].open => ReportUsable(b, r)
  PROVE  LET s == StateOf(b, p, r) IN
         /\ s \in BatchRecords /\ BatchInRate(s)
         /\ \A t \in StoredTypes : ~OwnType(b, t) => s.totals[t] = 0
         /\ report_status[s.report_id] = "Verified"
         /\ s.distributed = IF batch[b][p].open THEN batch[b][p].distributed ELSE 0
<1> DEFINE s == StateOf(b, p, r)
<1>1. b \in BondIds /\ BondCreditType(b) \in CreditTypes
  BY RegisteredTerms, Zenon
<1>2. CASE batch[b][p].open
  <2>1. s = batch[b][p]
    BY <1>2, Zenon DEF StateOf
  <2>2. s \in BatchRecords
    BY <1>1, <1>2, <2>1, EntryTypes, Zenon DEF CouponInv
  <2>3. BatchInRate(s) /\ report_status[s.report_id] = "Verified"
    BY <1>1, <1>2, <2>1, Zenon DEF CouponInv, RatesKept, CouponsOnVerified
  <2>4. \A t \in StoredTypes : ~OwnType(b, t) => s.totals[t] = 0
    BY <1>1, <1>2, <2>1 DEF CouponInv, OnlyOwnTypes
  <2> QED
    BY <1>2, <2>1, <2>2, <2>3, <2>4, Zenon
<1>3. CASE ~batch[b][p].open
  <2>1. s = FirstBatch(b, r) /\ ReportUsable(b, r)
    BY <1>3, Zenon DEF StateOf
  <2> DEFINE totals == ReportTotals(BondCreditType(b), ReportData[r])
  <2>2. /\ totals \in [StoredTypes -> Nat]
        /\ \A t \in StoredTypes : t \notin KeptTypes(BondCreditType(b)) => totals[t] = 0
    BY <1>1, <2>1, ReportWorth, Zenon DEF ReportUsable
  <2>3. total_subscribed[b] \in Nat
    BY <1>1 DEF CouponInv, IInv, TypeOK
  <2> HIDE DEF totals
  <2>4. s = [open |-> TRUE, report_id |-> r, totals |-> totals, distributed |-> 0,
             by_type |-> [t \in StoredTypes |-> 0], subscribed |-> total_subscribed[b],
             processed |-> 0]
    BY <2>1, Zenon DEF FirstBatch, totals
  <2> HIDE DEF s
  <2>5. s \in BatchRecords
    BY <2>2, <2>3, <2>4, Zenon DEF BatchRecords
  <2>6. BatchInRate(s)
    <3>1. \A t \in StoredTypes : PerToken(s.totals[t], s.subscribed) \in Nat
      BY <2>2, <2>3, <2>4, RateBound, Zenon
    <3>2. FIXED_POINT \in Nat
      BY CouponAssumption, Zenon
    <3>3. /\ s.processed = 0 /\ s.distributed = 0 /\ s.subscribed \in Nat
          /\ \A t \in StoredTypes : s.by_type[t] = 0
      BY <2>3, <2>4, Zenon
    <3> QED
      BY <3>1, <3>2, <3>3 DEF BatchInRate, StoredTypes
  <2>7. /\ report_status[s.report_id] = "Verified" /\ s.distributed = 0
        /\ \A t \in StoredTypes : ~OwnType(b, t) => s.totals[t] = 0
    <3>1. s.report_id = r /\ s.distributed = 0 /\ s.totals = totals
      BY <2>4, Zenon
    <3>2. report_status[r] = "Verified" /\ b \in registered
      BY <1>1, <2>1, Zenon DEF ReportUsable
    <3> QED
      BY <2>2, <3>1, <3>2, Zenon DEF OwnType
  <2> QED
    BY <1>3, <2>5, <2>6, <2>7, Zenon DEF s
<1> QED
  BY <1>2, <1>3

(* The positions a call pays: one per holder, of holders not paid before.   *)
LEMMA PaidPositions ==
  ASSUME NEW b \in BondIds, NEW p \in Periods, NEW holders \in Batches
  PROVE  LET paid == Paid(b, p, holders) IN
         /\ IsFiniteSet(paid)
         /\ \A i \in paid : /\ holders[i][1] \in Addresses /\ holders[i][2] \in Nat
                            /\ holders[i][1] \notin holder_distributed[b][p]
         /\ \A i, j \in paid : holders[i][1] = holders[j][1] => i = j
<1> DEFINE paid == Paid(b, p, holders)
<1>1. holders \in Seq(Addresses \X Int) /\ Len(holders) \in Nat
  BY CouponAssumption
<1>2. \A i \in 1 .. Len(holders) : holders[i][1] \in Addresses /\ holders[i][2] \in Int
  BY <1>1
<1>3. paid \subseteq 1 .. Len(holders)
  BY DEF Paid
<1>4. IsFiniteSet(paid)
  <2>1. IsFiniteSet(1 .. Len(holders))
    BY <1>1, FS_Interval
  <2> QED
    BY <1>3, <2>1, FS_Subset
<1>5. \A i \in paid : /\ holders[i][2] > 0 /\ holders[i][1] \notin holder_distributed[b][p]
                      /\ \A j \in 1 .. i - 1 : holders[j][1] = holders[i][1] => holders[j][2] <= 0
  BY DEF Paid
<1> HIDE DEF paid
<1>6. \A i \in paid : holders[i][1] \in Addresses /\ holders[i][2] \in Nat
  BY <1>2, <1>3, <1>5
<1>7. ASSUME NEW i \in paid, NEW j \in paid, holders[i][1] = holders[j][1]
      PROVE  i = j
  <2>1. i \in Nat /\ j \in Nat /\ 1 <= i /\ 1 <= j
    BY <1>1, <1>3
  <2>2. ~(i < j) /\ ~(j < i)
    BY <1>5, <1>6, <1>7, <2>1
  <2> QED
    BY <2>1, <2>2
<1>8. \A i, j \in paid : holders[i][1] = holders[j][1] => i = j
  BY <1>7, Zenon
<1> QED
  BY <1>4, <1>5, <1>6, <1>8, Zenon DEF paid

(* What the positions earn: the credits are naturals, and of each type at   *)
(* most the rate on the balances.                                           *)
LEMMA BatchEarns ==
  ASSUME NEW s \in BatchRecords, NEW paid, IsFiniteSet(paid), NEW holders,
         \A i \in paid : holders[i][2] \in Nat
  PROVE  LET balance == BalanceOf(paid, holders)
             credit == CreditOf(s, paid, holders)
             earned == EarnedOf(paid, credit)
         IN /\ balance \in [paid -> Nat] /\ Total(paid, balance) \in Nat
            /\ credit \in [StoredTypes -> [paid -> Nat]]
            /\ earned \in [StoredTypes -> Nat]
            /\ \A t \in StoredTypes :
                 /\ earned[t] = Total(paid, credit[t])
                 /\ earned[t] * FIXED_POINT <=
                      PerToken(s.totals[t], s.subscribed) * Total(paid, balance)
<1> DEFINE balance == BalanceOf(paid, holders)
           credit == CreditOf(s, paid, holders)
           earned == EarnedOf(paid, credit)
<1>1. balance \in [paid -> Nat] /\ \A i \in paid : balance[i] = holders[i][2]
  BY Zenon DEF BalanceOf
<1>2. FIXED_POINT \in Nat
  BY CouponAssumption, Zenon
<1>3. ASSUME NEW t \in StoredTypes
      PROVE  /\ PerToken(s.totals[t], s.subscribed) \in Nat
             /\ credit[t] \in [paid -> Nat]
             /\ \A i \in paid : credit[t][i] * FIXED_POINT <=
                                  PerToken(s.totals[t], s.subscribed) * balance[i]
  <2> DEFINE rate == PerToken(s.totals[t], s.subscribed)
  <2>1. rate \in Nat
    <3>1. s.totals[t] \in Nat /\ s.subscribed \in Nat
      BY Zenon DEF BatchRecords
    <3> QED
      BY <3>1, RateBound, Zenon
  <2>2. credit[t] = [i \in paid |-> (rate * balance[i]) \div FIXED_POINT]
    BY <1>1, Zenon DEF CreditOf, HolderCredits
  <2> HIDE DEF rate
  <2>3. \A i \in paid : /\ (rate * balance[i]) \div FIXED_POINT \in Nat
                        /\ ((rate * balance[i]) \div FIXED_POINT) * FIXED_POINT <= rate * balance[i]
    BY <1>1, <2>1, CreditBound, Zenon
  <2>4. credit[t] \in [paid -> Nat] /\ \A i \in paid : credit[t][i] * FIXED_POINT <= rate * balance[i]
    BY <2>2, <2>3
  <2> QED
    BY <2>1, <2>4 DEF rate
<1>4. credit \in [StoredTypes -> [paid -> Nat]]
  <2>1. credit = [t \in StoredTypes |-> credit[t]]
    BY DEF CreditOf
  <2> HIDE DEF credit
  <2> QED
    BY <1>3, <2>1, Zenon
<1> HIDE DEF balance, credit
<1>5. Total(paid, balance) \in Nat /\ \A t \in StoredTypes : Total(paid, credit[t]) \in Nat
  <2>1. \A i \in paid : balance[i] \in Nat
    BY <1>1
  <2>2. \A t \in StoredTypes : \A i \in paid : credit[t][i] \in Nat
    BY <1>4, Zenon
  <2> QED
    BY <2>1, <2>2, TotalFinite, Zenon
<1>6. earned \in [StoredTypes -> Nat] /\ \A t \in StoredTypes : earned[t] = Total(paid, credit[t])
  BY <1>5, Zenon DEF EarnedOf
<1> HIDE DEF earned
<1>7. ASSUME NEW t \in StoredTypes
      PROVE  earned[t] * FIXED_POINT <= PerToken(s.totals[t], s.subscribed) * Total(paid, balance)
  <2> DEFINE rate == PerToken(s.totals[t], s.subscribed)
             c == credit[t]
  <2>1. rate \in Nat /\ c \in [paid -> Nat] /\ \A i \in paid : c[i] * FIXED_POINT <= rate * balance[i]
    BY <1>3, Zenon
  <2> HIDE DEF rate, c
  <2>2. Total(paid, c) * FIXED_POINT <= rate * Total(paid, balance)
    BY ONLY <1>1, <1>2, <2>1, TotalWeighed, IsFiniteSet(paid), Zenon
  <2> QED
    BY <1>6, <2>2, Zenon DEF rate, c
<1> QED
  BY <1>1, <1>4, <1>5, <1>6, <1>7, Zenon DEF balance, credit, earned

(* So the period stays in rate.                                             *)
LEMMA StaysInRate ==
  ASSUME NEW s \in BatchRecords, BatchInRate(s), NEW n \in Nat, NEW earned \in [StoredTypes -> Nat],
         \A t \in StoredTypes :
           earned[t] * FIXED_POINT <= PerToken(s.totals[t], s.subscribed) * n,
         NEW after, after = AfterBatch(s, n, earned), after.processed <= s.subscribed
  PROVE  /\ after \in BatchRecords /\ BatchInRate(after)
         /\ after.distributed = s.distributed + earned["Carbon"] + earned["Biodiversity"]
         /\ \A t \in StoredTypes : after.by_type[t] \in Nat /\ after.by_type[t] <= after.totals[t]
<1>1. /\ after \in BatchRecords
      /\ after.totals = s.totals /\ after.subscribed = s.subscribed
      /\ after.processed = s.processed + n
      /\ after.distributed = s.distributed + earned["Carbon"] + earned["Biodiversity"]
      /\ after.by_type = [t \in StoredTypes |-> s.by_type[t] + earned[t]]
  BY AfterFields, ZenonT(30)
<1>2. /\ s.processed \in Nat /\ s.subscribed \in Nat /\ s.distributed \in Nat
      /\ s.by_type \in [StoredTypes -> Nat] /\ s.totals \in [StoredTypes -> Nat]
      /\ FIXED_POINT \in Nat
  BY CouponAssumption, Zenon DEF BatchRecords
<1>3. ASSUME NEW t \in StoredTypes
      PROVE  /\ after.by_type[t] \in Nat
             /\ after.by_type[t] * FIXED_POINT <= PerToken(after.totals[t], after.subscribed) * after.processed
             /\ after.by_type[t] <= after.totals[t]
  <2> DEFINE rate == PerToken(s.totals[t], s.subscribed)
             x == s.by_type[t]
             y == earned[t]
             m == s.processed
             total == s.totals[t]
  <2>1. /\ x \in Nat /\ y \in Nat /\ m \in Nat /\ total \in Nat
        /\ after.by_type[t] = x + y /\ after.processed = m + n /\ m + n <= s.subscribed
    BY <1>1, <1>2
  <2>2. rate \in Nat /\ rate * s.subscribed <= total * FIXED_POINT
    BY <1>2, <2>1, RateBound, Zenon
  <2>3. x * FIXED_POINT <= rate * m /\ y * FIXED_POINT <= rate * n
    BY Zenon DEF BatchInRate
  <2>4. PerToken(after.totals[t], after.subscribed) = rate /\ after.totals[t] = total
    BY <1>1, Zenon
  <2> HIDE DEF rate, x, y, m, total
  <2>5. (x + y) * FIXED_POINT <= rate * (m + n)
    BY ONLY <1>2, <2>1, <2>2, <2>3, n \in Nat
  <2>6. x + y <= total
    <3>0. x + y \in Nat /\ m + n \in Nat
      BY <2>1
    <3>1. PICK u \in Nat, v \in Nat, all \in Nat : u = x + y /\ v = m + n /\ all = s.subscribed
      BY <1>2, <3>0, Zenon
    <3>2. u * FIXED_POINT <= rate * v /\ v <= all /\ rate * all <= total * FIXED_POINT
      BY <2>1, <2>2, <2>5, <3>1, Zenon
    <3>3. u <= total
      BY ONLY <2>1, <2>2, <3>2, WithinTotal, u \in Nat, v \in Nat, all \in Nat, Zenon
    <3> QED
      BY <3>1, <3>3, Zenon
  <2> QED
    BY <2>1, <2>4, <2>5, <2>6
<1>4. after.distributed = after.by_type["Carbon"] + after.by_type["Biodiversity"]
  BY <1>1, <1>2 DEF BatchInRate, StoredTypes
<1>5. BatchInRate(after)
  BY <1>1, <1>3, <1>4, Zenon DEF BatchInRate
<1> QED
  BY <1>1, <1>3, <1>5, Zenon

(* The share of a holder is a natural, and zero where nothing is earned.    *)
LEMMA ShareIsNat ==
  ASSUME NEW paid, IsFiniteSet(paid), NEW holders, NEW c, \A i \in paid : c[i] \in Nat, NEW h
  PROVE  /\ ShareOf(h, paid, holders, c) \in Nat
         /\ (\A i \in paid : c[i] = 0) => ShareOf(h, paid, holders, c) = 0
<1> DEFINE mine == {i \in paid : holders[i][1] = h}
<1>1. IsFiniteSet(mine) /\ \A i \in mine : c[i] \in Nat
  BY FS_Subset
<1>2. (\A i \in paid : c[i] = 0) => \A i \in mine : c[i] = 0
  OBVIOUS
<1>3. ShareOf(h, paid, holders, c) = Total(mine, c)
  BY DEF ShareOf
<1> HIDE DEF mine
<1> QED
  BY <1>1, <1>2, <1>3, TotalFinite, TotalZero, Zenon

(* The credits of the accounts grow by what the positions earn.             *)
LEMMA AccountsPaid ==
  ASSUME CouponInv, NEW b \in BondIds, NEW p \in Periods, NEW holders, NEW paid, IsFiniteSet(paid),
         \A i \in paid : holders[i][1] \in Addresses,
         NEW credit \in [StoredTypes -> [paid -> Nat]], PayHolders(b, p, holders, paid, credit)
  PROVE  /\ accrued' \in [BondIds -> [Addresses -> Nat]]
         /\ accrued_by_type' \in [BondIds -> [Addresses -> [StoredTypes -> Nat]]]
         /\ \A c \in BondIds \ {b} :
              accrued'[c] = accrued[c] /\ accrued_by_type'[c] = accrued_by_type[c]
         /\ \A h \in Addresses :
              accrued'[b][h] = accrued_by_type'[b][h]["Carbon"] + accrued_by_type'[b][h]["Biodiversity"]
         /\ \A t \in StoredTypes : (\A i \in paid : credit[t][i] = 0) =>
              \A h \in Addresses : accrued_by_type'[b][h][t] = accrued_by_type[b][h][t]
         /\ IsFiniteSet(UnitsOf(Addresses, accrued'[b]))
         /\ Total(Addresses, accrued'[b]) = Total(Addresses, accrued[b])
              + Total(paid, credit["Carbon"]) + Total(paid, credit["Biodiversity"])
         /\ Total(Addresses, accrued[b]) \in Nat
<1> DEFINE share(h, t) == ShareOf(h, paid, holders, credit[t])
           f == accrued[b]
           g == [h \in Addresses |-> f[h] + share(h, "Carbon") + share(h, "Biodiversity")]
           by == [h \in Addresses |-> [t \in StoredTypes |-> accrued_by_type[b][h][t] + share(h, t)]]
<1>1. /\ accrued_by_type' = [accrued_by_type EXCEPT ![b] = by]
      /\ accrued' = [accrued EXCEPT ![b] = g]
  BY Zenon DEF PayHolders
<1>2. /\ accrued \in [BondIds -> [Addresses -> Nat]]
      /\ accrued_by_type \in [BondIds -> [Addresses -> [StoredTypes -> Nat]]]
      /\ "Carbon" \in StoredTypes /\ "Biodiversity" \in StoredTypes
  BY Zenon DEF CouponInv, CouponTypeOK, StoredTypes
<1>3. \A t \in StoredTypes, h \in Addresses :
        /\ share(h, t) \in Nat
        /\ (\A i \in paid : credit[t][i] = 0) => share(h, t) = 0
  <2>1. \A t \in StoredTypes : \A i \in paid : credit[t][i] \in Nat
    BY Zenon
  <2> QED
    BY <2>1, ShareIsNat, Zenon
<1>4. IsFiniteSet(UnitsOf(Addresses, f)) /\ Total(Addresses, f) \in Nat
  BY FS_CardinalityType, Zenon DEF CouponInv, CreditsAddUp, Total
<1>5. /\ g \in [Addresses -> Nat] /\ IsFiniteSet(UnitsOf(Addresses, g))
      /\ Total(Addresses, g) = Total(Addresses, f)
           + Total(paid, credit["Carbon"]) + Total(paid, credit["Biodiversity"])
  <2> DEFINE key == [i \in paid |-> holders[i][1]]
             x == credit["Carbon"]
             y == credit["Biodiversity"]
             mid == [h \in Addresses |-> f[h] + Total({i \in paid : key[i] = h}, x)]
             end == [h \in Addresses |-> mid[h] + Total({i \in paid : key[i] = h}, y)]
  <2>1. /\ key \in [paid -> Addresses] /\ f \in [Addresses -> Nat]
        /\ x \in [paid -> Nat] /\ y \in [paid -> Nat]
    BY <1>2, Zenon
  <2>2. \A h \in Addresses : {i \in paid : key[i] = h} = {i \in paid : holders[i][1] = h}
    OBVIOUS
  <2>3. end = g
    BY <2>2, ZenonT(30) DEF ShareOf
  <2> HIDE DEF key, x, y, f
  <2>4. mid = [h \in Addresses |-> f[h] + Total({i \in paid : key[i] = h}, x)]
    BY Zenon
  <2> HIDE DEF mid
  <2>5. /\ mid \in [Addresses -> Nat] /\ IsFiniteSet(UnitsOf(Addresses, mid))
        /\ Total(Addresses, mid) = Total(Addresses, f) + Total(paid, x)
    BY ONLY <1>4, <2>1, <2>4, TotalSpread, IsFiniteSet(paid), SMTT(30)
  <2>6. end = [h \in Addresses |-> mid[h] + Total({i \in paid : key[i] = h}, y)]
    BY Zenon
  <2> HIDE DEF end
  <2>7. /\ end \in [Addresses -> Nat] /\ IsFiniteSet(UnitsOf(Addresses, end))
        /\ Total(Addresses, end) = Total(Addresses, mid) + Total(paid, y)
    BY ONLY <2>1, <2>5, <2>6, TotalSpread, IsFiniteSet(paid), SMTT(30)
  <2> HIDE DEF g
  <2> QED
    BY <2>3, <2>5, <2>7, Zenon DEF x, y
<1>6. /\ by \in [Addresses -> [StoredTypes -> Nat]]
      /\ \A h \in Addresses, t \in StoredTypes : by[h][t] = accrued_by_type[b][h][t] + share(h, t)
  <2>1. ASSUME NEW h \in Addresses, NEW t \in StoredTypes
        PROVE  accrued_by_type[b][h][t] + share(h, t) \in Nat
    <3>1. accrued_by_type[b][h][t] \in Nat
      BY ONLY <1>2, b \in BondIds, h \in Addresses, t \in StoredTypes
    <3>2. share(h, t) \in Nat
      BY <1>3, Zenon
    <3> HIDE DEF share
    <3> QED
      BY ONLY <3>1, <3>2
  <2> HIDE DEF share
  <2> QED
    BY <2>1, Zenon
<1>7. \A h \in Addresses : g[h] = by[h]["Carbon"] + by[h]["Biodiversity"]
  <2> SUFFICES ASSUME NEW h \in Addresses
               PROVE  g[h] = by[h]["Carbon"] + by[h]["Biodiversity"]
    BY Zenon
  <2>1. f[h] = accrued_by_type[b][h]["Carbon"] + accrued_by_type[b][h]["Biodiversity"]
    BY Zenon DEF CouponInv, TypesAddUp
  <2>2. g[h] = f[h] + share(h, "Carbon") + share(h, "Biodiversity")
    BY Zenon
  <2>3. /\ accrued_by_type[b][h]["Carbon"] \in Nat /\ accrued_by_type[b][h]["Biodiversity"] \in Nat
        /\ share(h, "Carbon") \in Nat /\ share(h, "Biodiversity") \in Nat
    BY <1>2, <1>3
  <2>4. /\ by[h]["Carbon"] = accrued_by_type[b][h]["Carbon"] + share(h, "Carbon")
        /\ by[h]["Biodiversity"] = accrued_by_type[b][h]["Biodiversity"] + share(h, "Biodiversity")
    BY <1>6, Zenon DEF StoredTypes
  <2> HIDE DEF share, f, g, by
  <2> QED
    BY ONLY <2>1, <2>2, <2>3, <2>4
<1>8. \A t \in StoredTypes : (\A i \in paid : credit[t][i] = 0) =>
        \A h \in Addresses : by[h][t] = accrued_by_type[b][h][t]
  <2> SUFFICES ASSUME NEW t \in StoredTypes, \A i \in paid : credit[t][i] = 0, NEW h \in Addresses
               PROVE  by[h][t] = accrued_by_type[b][h][t]
    BY Zenon
  <2>1. share(h, t) = 0
    BY <1>3, Zenon
  <2>2. by[h][t] = accrued_by_type[b][h][t] + share(h, t) /\ accrued_by_type[b][h][t] \in Nat
    BY <1>2, <1>6
  <2> HIDE DEF share, by
  <2> QED
    BY ONLY <2>1, <2>2
<1> HIDE DEF g, by, share
<1>9. accrued'[b] = g /\ accrued_by_type'[b] = by
  BY <1>1, <1>2, Zenon
<1>10. /\ accrued' \in [BondIds -> [Addresses -> Nat]]
       /\ accrued_by_type' \in [BondIds -> [Addresses -> [StoredTypes -> Nat]]]
       /\ \A c \in BondIds \ {b} :
            accrued'[c] = accrued[c] /\ accrued_by_type'[c] = accrued_by_type[c]
  BY <1>1, <1>2, <1>5, <1>6, Zenon
<1> QED
  BY <1>4, <1>5, <1>7, <1>8, <1>9, <1>10, Zenon

(* The paid holders are marked, each after one payment.                     *)
LEMMA PaymentsMarked ==
  ASSUME CouponInv, NEW b \in BondIds, NEW p \in Periods, NEW holders \in Batches, NEW credit,
         PayHolders(b, p, holders, Paid(b, p, holders), credit)
  PROVE  /\ holder_distributed' \in [BondIds -> [Periods -> SUBSET Addresses]]
         /\ payments' \in [BondIds -> [Periods -> [Addresses -> [times : Nat, balance : Nat]]]]
         /\ PaidAreMarked'
<1> DEFINE paid == Paid(b, p, holders)
           of(h) == {i \in paid : holders[i][1] = h}
           marks == holder_distributed[b][p] \cup {holders[i][1] : i \in paid}
           old(h) == payments[b][p][h]
           new == [h \in Addresses |->
                     [times |-> old(h).times + Cardinality(of(h)),
                      balance |-> old(h).balance + ShareOf(h, paid, holders, BalanceOf(paid, holders))]]
<1>1. /\ holder_distributed' = [holder_distributed EXCEPT ![b][p] = marks]
      /\ payments' = [payments EXCEPT ![b][p] = new]
  BY Zenon DEF PayHolders
<1>2. /\ holder_distributed \in [BondIds -> [Periods -> SUBSET Addresses]]
      /\ payments \in [BondIds -> [Periods -> [Addresses -> [times : Nat, balance : Nat]]]]
      /\ \A c \in BondIds, q \in Periods, h \in Addresses :
           payments[c][q][h].times = IF h \in holder_distributed[c][q] THEN 1 ELSE 0
  BY Zenon DEF CouponInv, CouponTypeOK, PaidAreMarked
<1>3. /\ IsFiniteSet(paid)
      /\ \A i \in paid : /\ holders[i][1] \in Addresses /\ holders[i][2] \in Nat
                         /\ holders[i][1] \notin holder_distributed[b][p]
      /\ \A i, j \in paid : holders[i][1] = holders[j][1] => i = j
  BY PaidPositions, Zenon
<1> HIDE DEF paid
<1>4. \A h \in Addresses : Cardinality(of(h)) = IF \E i \in paid : holders[i][1] = h THEN 1 ELSE 0
  <2> SUFFICES ASSUME NEW h \in Addresses
               PROVE  Cardinality(of(h)) = IF \E i \in paid : holders[i][1] = h THEN 1 ELSE 0
    OBVIOUS
  <2>1. CASE \E i \in paid : holders[i][1] = h
    <3>1. PICK i \in paid : holders[i][1] = h
      BY <2>1, Zenon
    <3>2. of(h) = {i}
      BY <1>3, <3>1, Zenon
    <3> QED
      BY <2>1, <3>2, FS_Singleton, ZenonT(30)
  <2>2. CASE ~\E i \in paid : holders[i][1] = h
    <3>1. of(h) = {}
      BY <2>2, Zenon
    <3> QED
      BY <2>2, <3>1, FS_EmptySet, Zenon
  <2> QED
    BY <2>1, <2>2, Zenon
<1>5. \A h \in Addresses : /\ old(h).times \in Nat /\ old(h).balance \in Nat
                           /\ old(h).times = IF h \in holder_distributed[b][p] THEN 1 ELSE 0
  BY <1>2
<1>6. \A h \in Addresses : ShareOf(h, paid, holders, BalanceOf(paid, holders)) \in Nat
  <2>1. \A i \in paid : BalanceOf(paid, holders)[i] \in Nat
    BY <1>3, Zenon DEF BalanceOf
  <2> QED
    BY <1>3, <2>1, ShareIsNat, ZenonT(30)
<1>7. marks \in SUBSET Addresses
  BY <1>2, <1>3
<1>8. ASSUME NEW h \in Addresses
      PROVE  /\ new[h] \in [times : Nat, balance : Nat]
             /\ new[h].times = IF h \in marks THEN 1 ELSE 0
  <2>1. /\ Cardinality(of(h)) \in Nat
        /\ Cardinality(of(h)) = IF \E i \in paid : holders[i][1] = h THEN 1 ELSE 0
    BY <1>4, SmallSums, Zenon
  <2> HIDE DEF of
  <2>2. /\ new[h] = [times |-> old(h).times + Cardinality(of(h)),
                     balance |-> old(h).balance + ShareOf(h, paid, holders, BalanceOf(paid, holders))]
    BY Zenon
  <2>3. new[h].times = old(h).times + Cardinality(of(h)) /\ new[h] \in [times : Nat, balance : Nat]
    BY <1>5, <1>6, <2>1, <2>2, PaymentAdded, Zenon
  <2>4. CASE h \in holder_distributed[b][p]
    <3>1. ~\E i \in paid : holders[i][1] = h
      BY <1>3, <2>4, ZenonT(30)
    <3> QED
      BY <1>5, <2>1, <2>3, <2>4, <3>1, SmallSums, ZenonT(30)
  <2>5. CASE h \notin holder_distributed[b][p]
    <3>1. h \in marks <=> \E i \in paid : holders[i][1] = h
      BY <2>5, Zenon
    <3> QED
      BY <1>5, <2>1, <2>3, <2>5, <3>1, SmallSums, ZenonT(30)
  <2> QED
    BY <2>4, <2>5, ZenonT(30)
<1>9. new \in [Addresses -> [times : Nat, balance : Nat]]
  <2>1. new = [h \in Addresses |-> new[h]]
    BY Zenon
  <2> HIDE DEF new
  <2> QED
    BY <1>8, <2>1
<1> HIDE DEF new, marks, of, old
<1>10. /\ holder_distributed' \in [BondIds -> [Periods -> SUBSET Addresses]]
       /\ payments' \in [BondIds -> [Periods -> [Addresses -> [times : Nat, balance : Nat]]]]
  BY <1>1, <1>2, <1>7, <1>9, Zenon
<1>11. PaidAreMarked'
  <2> SUFFICES ASSUME NEW c \in BondIds, NEW q \in Periods, NEW h \in Addresses
               PROVE  payments'[c][q][h].times = IF h \in holder_distributed'[c][q] THEN 1 ELSE 0
    BY Zenon DEF PaidAreMarked
  <2>1. CASE c = b /\ q = p
    <3>1. payments'[c][q] = new /\ holder_distributed'[c][q] = marks
      BY <1>1, <1>2, <2>1, Zenon
    <3> QED
      BY <1>8, <3>1, Zenon
  <2>2. CASE ~(c = b /\ q = p)
    <3>1. payments'[c][q] = payments[c][q] /\ holder_distributed'[c][q] = holder_distributed[c][q]
      BY <1>1, <1>2, <2>2, Zenon
    <3>2. payments[c][q][h].times = IF h \in holder_distributed[c][q] THEN 1 ELSE 0
      BY <1>2, Zenon
    <3> QED
      BY <3>1, <3>2, Zenon
  <2> QED
    BY <2>1, <2>2, Zenon
<1> QED
  BY <1>10, <1>11

(* What a period counts for in Created.                                     *)
Yield(info, s) ==
  IF info.distributed THEN info.total_credits_earned + info.undistributed
  ELSE IF s.open THEN s.distributed ELSE 0

(* A call that changes one period's entries changes what was created by the *)
(* difference.                                                              *)
LEMMA CreatedGrows ==
  ASSUME CouponInv, NEW b \in BondIds, NEW p \in Periods,
         NEW info \in PeriodRecords \cup {NoPeriod}, NEW s \in BatchRecords \cup {NoBatch},
         period_info' = [period_info EXCEPT ![b][p] = info], batch' = [batch EXCEPT ![b][p] = s],
         NEW k \in Nat, Yield(info, s) = Yield(period_info[b][p], batch[b][p]) + k
  PROVE  /\ Created(b)' = Created(b) + k /\ Created(b) \in Nat
         /\ \A c \in BondIds \ {b} : Created(c)' = Created(c)
<1> DEFINE f == [q \in Periods |-> Yield(period_info[b][q], batch[b][q])]
           g == [q \in Periods |-> Yield(period_info'[b][q], batch'[b][q])]
<1>1. /\ period_info \in [BondIds -> [Periods -> PeriodRecords \cup {NoPeriod}]]
      /\ batch \in [BondIds -> [Periods -> BatchRecords \cup {NoBatch}]]
  BY Zenon DEF CouponInv, CouponTypeOK
<1>2. /\ period_info' \in [BondIds -> [Periods -> PeriodRecords \cup {NoPeriod}]]
      /\ batch' \in [BondIds -> [Periods -> BatchRecords \cup {NoBatch}]]
      /\ period_info'[b][p] = info /\ batch'[b][p] = s
      /\ \A q \in Periods \ {p} : period_info'[b][q] = period_info[b][q] /\ batch'[b][q] = batch[b][q]
      /\ \A c \in BondIds \ {b} : period_info'[c] = period_info[c] /\ batch'[c] = batch[c]
  BY <1>1, Zenon
<1>3. \A i \in PeriodRecords \cup {NoPeriod}, x \in BatchRecords \cup {NoBatch} : Yield(i, x) \in Nat
  <2>1. ~NoPeriod.distributed /\ ~NoBatch.open
    BY Zenon DEF NoPeriod, NoBatch
  <2>2. \A i \in PeriodRecords : i.total_credits_earned \in Nat /\ i.undistributed \in Nat
    BY DEF PeriodRecords
  <2>3. \A x \in BatchRecords : x.distributed \in Nat
    BY Zenon DEF BatchRecords
  <2> QED
    BY <2>1, <2>2, <2>3 DEF Yield
<1>4. /\ f \in [Periods -> Nat] /\ g \in [Periods -> Nat]
      /\ g[p] = f[p] + k /\ \A q \in Periods \ {p} : g[q] = f[q]
  <2>1. \A q \in Periods : f[q] = Yield(period_info[b][q], batch[b][q])
                           /\ g[q] = Yield(period_info'[b][q], batch'[b][q])
    BY Zenon
  <2>2. \A q \in Periods : f[q] \in Nat /\ g[q] \in Nat
    BY <1>1, <1>2, <1>3, <2>1
  <2>3. f = [q \in Periods |-> f[q]] /\ g = [q \in Periods |-> g[q]]
    OBVIOUS
  <2> HIDE DEF f, g
  <2> QED
    BY <1>2, <2>1, <2>2, <2>3, Zenon
<1>5. Created(b) = Total(Periods, f) /\ Created(b)' = Total(Periods, g)
  BY Zenon DEF Created, Yield
<1>6. \A c \in BondIds \ {b} : Created(c)' = Created(c)
  BY <1>2, Zenon DEF Created
<1> HIDE DEF f, g
<1>7. IsFiniteSet(UnitsOf(Periods, f)) /\ Total(Periods, f) \in Nat
  <2>1. IsFiniteSet(Periods)
    <3>1. 0 \in Int /\ MaxPeriods - 1 \in Int
      BY CouponAssumption
    <3> QED
      BY ONLY <3>1, FS_Interval, Zenon DEF Periods
  <2>2. \A q \in Periods : f[q] \in Nat
    BY <1>4, Zenon
  <2> QED
    BY <2>1, <2>2, TotalFinite, Zenon
<1>8. Total(Periods, g) = Total(Periods, f) + k
  BY ONLY <1>4, <1>7, TotalRaised, p \in Periods, k \in Nat, Zenon
<1> QED
  BY <1>5, <1>6, <1>7, <1>8, Zenon

(* The call books, of each type, what is left of the totals when it closes  *)
(* the period, and nothing otherwise.                                       *)
PeriodAdvanced(b, p, after, left, rem, info, s) ==
  /\ left \in Nat /\ rem \in [StoredTypes -> Nat] /\ left = rem["Carbon"] + rem["Biodiversity"]
  /\ \A t \in StoredTypes : rem[t] # 0 => after.totals[t] # 0
  /\ info \in PeriodRecords \cup {NoPeriod} /\ s \in BatchRecords \cup {NoBatch}
  /\ info.distributed => info.report_id = after.report_id
  /\ s = after \/ s = NoBatch
  /\ Yield(info, s) = after.distributed + left
  /\ period_info' = [period_info EXCEPT ![b][p] = info]
  /\ batch' = [batch EXCEPT ![b][p] = s]
  /\ undistributed_total' = [undistributed_total EXCEPT ![b] = @ + left]
  /\ undistributed_by_type' = [undistributed_by_type EXCEPT ![b] =
       [t \in StoredTypes |-> @[t] + rem[t]]]

LEMMA PeriodAdvances ==
  ASSUME CouponInv, NEW b \in BondIds, NEW p \in Periods, NEW after \in BatchRecords,
         ~period_info[b][p].distributed, BatchInRate(after),
         \A t \in StoredTypes : after.by_type[t] <= after.totals[t],
         \/ FinalisePeriod(b, p, after)
         \/ /\ batch' = [batch EXCEPT ![b][p] = after]
            /\ UNCHANGED <<period_info, period_count, dustVars>>
  PROVE  \E left, rem, info, s : PeriodAdvanced(b, p, after, left, rem, info, s)
<1>1. /\ after.by_type \in [StoredTypes -> Nat] /\ after.totals \in [StoredTypes -> Nat]
      /\ after.distributed \in Nat /\ after.report_id \in Reports /\ after.open
      /\ after.distributed = after.by_type["Carbon"] + after.by_type["Biodiversity"]
  BY Zenon DEF BatchRecords, BatchInRate
<1>2. /\ undistributed_total \in [BondIds -> Nat]
      /\ undistributed_by_type \in [BondIds -> [StoredTypes -> Nat]]
      /\ period_info \in [BondIds -> [Periods -> PeriodRecords \cup {NoPeriod}]]
  BY Zenon DEF CouponInv, CouponTypeOK
<1>3. CASE FinalisePeriod(b, p, after)
  <2> DEFINE left == TotalCredits(after) - after.distributed
             rem == [t \in StoredTypes |-> after.totals[t] - after.by_type[t]]
             info == [distributed |-> TRUE, report_id |-> after.report_id,
                      total_credits_earned |-> after.distributed, undistributed |-> left]
  <2>1. /\ rem \in [StoredTypes -> Nat] /\ left \in Nat /\ left = rem["Carbon"] + rem["Biodiversity"]
        /\ \A t \in StoredTypes : rem[t] # 0 => after.totals[t] # 0
    BY <1>1 DEF TotalCredits, StoredTypes
  <2>2. /\ period_info' = [period_info EXCEPT ![b][p] = info]
        /\ batch' = [batch EXCEPT ![b][p] = NoBatch]
        /\ undistributed_total' = BookDust(b, left)
        /\ undistributed_by_type' = [undistributed_by_type EXCEPT ![b] =
             [t \in StoredTypes |-> AddIfPositive(@[t], after.totals[t] - after.by_type[t])]]
    BY <1>3, Zenon DEF FinalisePeriod
  <2>3. undistributed_total' = [undistributed_total EXCEPT ![b] = @ + left]
    <3> HIDE DEF left
    <3>1. AddIfPositive(undistributed_total[b], left) = undistributed_total[b] + left
      BY <1>2, <2>1 DEF AddIfPositive
    <3> QED
      BY <1>2, <2>2, <3>1, Zenon DEF BookDust
  <2>4. [t \in StoredTypes |-> AddIfPositive(undistributed_by_type[b][t], after.totals[t] - after.by_type[t])]
          = [t \in StoredTypes |-> undistributed_by_type[b][t] + rem[t]]
    <3>1. \A t \in StoredTypes : /\ rem[t] \in Nat /\ rem[t] = after.totals[t] - after.by_type[t]
                                 /\ undistributed_by_type[b][t] \in Nat
      BY <1>2, <2>1
    <3> HIDE DEF rem
    <3> QED
      BY <3>1 DEF AddIfPositive
  <2>5. info \in PeriodRecords /\ info.distributed /\ info.report_id = after.report_id
        /\ info.total_credits_earned = after.distributed /\ info.undistributed = left
    BY <1>1, <2>1, Zenon DEF PeriodRecords
  <2> HIDE DEF left, rem, info
  <2>6. undistributed_by_type' = [undistributed_by_type EXCEPT ![b] =
          [t \in StoredTypes |-> @[t] + rem[t]]]
    BY <2>2, <2>4, Zenon
  <2>7. Yield(info, NoBatch) = after.distributed + left
    BY <2>5 DEF Yield
  <2>8. PeriodAdvanced(b, p, after, left, rem, info, NoBatch)
    BY <2>1, <2>2, <2>3, <2>5, <2>6, <2>7, Zenon DEF PeriodAdvanced
  <2> QED
    BY <2>8, Zenon
<1>4. CASE /\ batch' = [batch EXCEPT ![b][p] = after]
           /\ UNCHANGED <<period_info, period_count, dustVars>>
  <2> DEFINE rem == [t \in StoredTypes |-> 0]
             info == period_info[b][p]
  <2>1. rem \in [StoredTypes -> Nat] /\ 0 = rem["Carbon"] + rem["Biodiversity"]
        /\ \A t \in StoredTypes : rem[t] = 0
    BY DEF StoredTypes
  <2>2. /\ undistributed_total' = [undistributed_total EXCEPT ![b] = @ + 0]
        /\ period_info' = [period_info EXCEPT ![b][p] = info]
    BY <1>2, <1>4 DEF dustVars
  <2>3. undistributed_by_type' = [undistributed_by_type EXCEPT ![b] =
          [t \in StoredTypes |-> @[t] + rem[t]]]
    <3>1. [t \in StoredTypes |-> undistributed_by_type[b][t] + rem[t]] = undistributed_by_type[b]
      BY <1>2, <2>1
    <3> HIDE DEF rem
    <3> QED
      BY <1>2, <1>4, <3>1, Zenon DEF dustVars
  <2>4. Yield(info, after) = after.distributed + 0
    BY <1>1 DEF Yield
  <2>5. info \in PeriodRecords \cup {NoPeriod} /\ ~info.distributed
    BY <1>2
  <2> HIDE DEF rem, info
  <2>6. PeriodAdvanced(b, p, after, 0, rem, info, after)
    BY <1>4, <2>1, <2>2, <2>3, <2>4, <2>5, Zenon DEF PeriodAdvanced
  <2> QED
    BY <2>6, Zenon
<1> QED
  BY <1>3, <1>4

(* A type the report is worth nothing of earns nothing.                     *)
LEMMA NothingEarned ==
  ASSUME NEW s \in BatchRecords, NEW paid, NEW holders, \A i \in paid : holders[i][2] \in Nat,
         NEW t \in StoredTypes, s.totals[t] = 0
  PROVE  \A i \in paid : CreditOf(s, paid, holders)[t][i] = 0
<1>1. PerToken(s.totals[t], s.subscribed) = 0
  BY DEF PerToken
<1>2. \A n \in Nat : (0 * n) \div FIXED_POINT = 0
  <2>1. FIXED_POINT \in Nat \ {0}
    BY CouponAssumption, Zenon
  <2>2. \A n \in Nat : 0 * n = 0
    OBVIOUS
  <2>3. 0 \div FIXED_POINT = 0
    BY <2>1
  <2> QED
    BY <2>2, <2>3, Zenon
<1>3. \A i \in paid : HolderCredits(s, t, holders[i][2]) = 0
  BY <1>1, <1>2, Zenon DEF HolderCredits
<1> QED
  BY <1>3, Zenon DEF CreditOf

(* One batch: the accounts, the dust and the period's own entry move by the *)
(* same credits.                                                            *)
LEMMA DistributeStep ==
  ASSUME CouponInv, NEW caller \in Addresses, NEW b \in BondIds, NEW p \in Periods,
         NEW holders \in Batches, NEW r \in Reports, NEW last \in BOOLEAN,
         distribute_coupon(caller, b, p, holders, r, last), UNCHANGED <<vars, report_status>>
  PROVE  CouponInv'
<1> DEFINE s == StateOf(b, p, r)
           paid == Paid(b, p, holders)
           credit == CreditOf(s, paid, holders)
           balance == BalanceOf(paid, holders)
           earned == EarnedOf(paid, credit)
           after == AfterBatch(s, Total(paid, balance), earned)
<1>1. /\ ~period_info[b][p].distributed /\ b \in registered
      /\ ~batch[b][p].open => ReportUsable(b, r)
      /\ after.processed <= s.subscribed
      /\ PayHolders(b, p, holders, paid, credit)
      /\ \/ FinalisePeriod(b, p, after)
         \/ /\ batch' = [batch EXCEPT ![b][p] = after]
            /\ UNCHANGED <<period_info, period_count, dustVars>>
      /\ UNCHANGED <<registered, deduct_caller>>
  BY DistributionParts, Zenon
<1>2. /\ s \in BatchRecords /\ BatchInRate(s)
      /\ \A t \in StoredTypes : ~OwnType(b, t) => s.totals[t] = 0
      /\ report_status[s.report_id] = "Verified"
      /\ s.distributed = IF batch[b][p].open THEN batch[b][p].distributed ELSE 0
  BY <1>1, StateInRate, Zenon
<1>3. /\ IsFiniteSet(paid)
      /\ \A i \in paid : holders[i][1] \in Addresses /\ holders[i][2] \in Nat
  BY PaidPositions, Zenon
<1>4. /\ Total(paid, balance) \in Nat
      /\ credit \in [StoredTypes -> [paid -> Nat]]
      /\ earned \in [StoredTypes -> Nat]
      /\ \A t \in StoredTypes :
           /\ earned[t] = Total(paid, credit[t])
           /\ earned[t] * FIXED_POINT <= PerToken(s.totals[t], s.subscribed) * Total(paid, balance)
  BY <1>2, <1>3, BatchEarns, Zenon
<1>5. \A t \in StoredTypes : ~OwnType(b, t) => \A i \in paid : credit[t][i] = 0
  <2> SUFFICES ASSUME NEW t \in StoredTypes, ~OwnType(b, t)
               PROVE  \A i \in paid : CreditOf(s, paid, holders)[t][i] = 0
    BY Zenon
  <2>1. s.totals[t] = 0
    BY <1>2, Zenon
  <2>2. s \in BatchRecords /\ \A i \in paid : holders[i][2] \in Nat
    BY <1>2, <1>3, Zenon
  <2> HIDE DEF s, paid
  <2> QED
    BY ONLY <2>1, <2>2, t \in StoredTypes, NothingEarned
<1>6. /\ holder_distributed' \in [BondIds -> [Periods -> SUBSET Addresses]]
      /\ payments' \in [BondIds -> [Periods -> [Addresses -> [times : Nat, balance : Nat]]]]
      /\ PaidAreMarked'
  BY <1>1, PaymentsMarked, Zenon
<1>7. spent' = spent
  BY <1>1, Zenon DEF PayHolders
<1>8. after.report_id = s.report_id /\ after.totals = s.totals
  BY <1>2, <1>4, AfterFields, Zenon
<1>9. after = AfterBatch(s, Total(paid, balance), earned)
  OBVIOUS
<1> HIDE DEF s, paid, credit, balance, earned, after
<1>10. /\ after \in BatchRecords /\ BatchInRate(after)
       /\ after.distributed = s.distributed + earned["Carbon"] + earned["Biodiversity"]
       /\ \A t \in StoredTypes : after.by_type[t] \in Nat /\ after.by_type[t] <= after.totals[t]
  <2>1. after.processed <= s.subscribed
    BY <1>1
  <2> DEFINE n == Total(paid, balance)
  <2>2. /\ n \in Nat /\ after = AfterBatch(s, n, earned)
        /\ \A t \in StoredTypes :
             earned[t] * FIXED_POINT <= PerToken(s.totals[t], s.subscribed) * n
    BY <1>4, <1>9
  <2> HIDE DEF n
  <2> QED
    BY ONLY <1>2, <1>4, <2>1, <2>2, StaysInRate, ZenonT(30)
<1>11. PICK left, rem, info, new : PeriodAdvanced(b, p, after, left, rem, info, new)
  BY <1>1, <1>10, PeriodAdvances, Zenon
<1> DEFINE oldSum == Total(Addresses, accrued[b])
           k == earned["Carbon"] + earned["Biodiversity"] + left
<1>12. /\ accrued' \in [BondIds -> [Addresses -> Nat]]
       /\ accrued_by_type' \in [BondIds -> [Addresses -> [StoredTypes -> Nat]]]
       /\ \A c \in BondIds \ {b} :
            accrued'[c] = accrued[c] /\ accrued_by_type'[c] = accrued_by_type[c]
       /\ \A h \in Addresses :
            accrued'[b][h] = accrued_by_type'[b][h]["Carbon"] + accrued_by_type'[b][h]["Biodiversity"]
       /\ \A t \in StoredTypes : (\A i \in paid : credit[t][i] = 0) =>
            \A h \in Addresses : accrued_by_type'[b][h][t] = accrued_by_type[b][h][t]
       /\ IsFiniteSet(UnitsOf(Addresses, accrued'[b]))
       /\ Total(Addresses, accrued'[b]) =
            oldSum + Total(paid, credit["Carbon"]) + Total(paid, credit["Biodiversity"])
       /\ oldSum \in Nat
  BY <1>1, <1>3, <1>4, AccountsPaid, Zenon
<1>13. /\ left \in Nat /\ rem \in [StoredTypes -> Nat] /\ left = rem["Carbon"] + rem["Biodiversity"]
       /\ \A t \in StoredTypes : rem[t] # 0 => after.totals[t] # 0
       /\ info \in PeriodRecords \cup {NoPeriod} /\ new \in BatchRecords \cup {NoBatch}
       /\ info.distributed => info.report_id = after.report_id
       /\ new = after \/ new = NoBatch
       /\ Yield(info, new) = after.distributed + left
       /\ period_info' = [period_info EXCEPT ![b][p] = info]
       /\ batch' = [batch EXCEPT ![b][p] = new]
       /\ undistributed_total' = [undistributed_total EXCEPT ![b] = @ + left]
       /\ undistributed_by_type' = [undistributed_by_type EXCEPT ![b] =
            [t \in StoredTypes |-> @[t] + rem[t]]]
  BY <1>11, Zenon DEF PeriodAdvanced
<1>14. /\ IInv /\ CouponTypeOK /\ StatusesOK /\ RatesKept /\ OnlyOwnTypes /\ TypesAddUp
       /\ CreditsAddUp /\ CouponsOnVerified
  BY Zenon DEF CouponInv
<1>15. /\ earned["Carbon"] \in Nat /\ earned["Biodiversity"] \in Nat /\ k \in Nat
       /\ "Carbon" \in StoredTypes /\ "Biodiversity" \in StoredTypes
  BY <1>4, <1>13 DEF StoredTypes
<1>16. /\ Created(b)' = Created(b) + k /\ Created(b) \in Nat
       /\ \A c \in BondIds \ {b} : Created(c)' = Created(c)
  <2>1. s.distributed \in Nat
    BY <1>2, Zenon DEF BatchRecords
  <2>2. Yield(period_info[b][p], batch[b][p]) = s.distributed
    BY <1>1, <1>2, Zenon DEF Yield
  <2>3. Yield(info, new) = Yield(period_info[b][p], batch[b][p]) + k
    BY <1>10, <1>13, <1>15, <2>1, <2>2
  <2> HIDE DEF k
  <2> QED
    <3>1. /\ info \in PeriodRecords \cup {NoPeriod} /\ new \in BatchRecords \cup {NoBatch}
          /\ period_info' = [period_info EXCEPT ![b][p] = info]
          /\ batch' = [batch EXCEPT ![b][p] = new] /\ k \in Nat
      BY <1>13, <1>15
    <3> QED
      BY ONLY CouponInv, b \in BondIds, p \in Periods, <2>3, <3>1, CreatedGrows, Zenon
<1>17. /\ period_info' \in [BondIds -> [Periods -> PeriodRecords \cup {NoPeriod}]]
       /\ batch' \in [BondIds -> [Periods -> BatchRecords \cup {NoBatch}]]
       /\ period_info'[b][p] = info /\ batch'[b][p] = new
       /\ \A c \in BondIds, q \in Periods : c # b \/ q # p =>
            period_info'[c][q] = period_info[c][q] /\ batch'[c][q] = batch[c][q]
  BY <1>13, <1>14, Zenon DEF CouponTypeOK
<1>18. /\ undistributed_total' \in [BondIds -> Nat]
       /\ undistributed_by_type' \in [BondIds -> [StoredTypes -> Nat]]
       /\ undistributed_total'[b] = undistributed_total[b] + left
       /\ \A t \in StoredTypes : undistributed_by_type'[b][t] = undistributed_by_type[b][t] + rem[t]
       /\ \A c \in BondIds \ {b} : /\ undistributed_total'[c] = undistributed_total[c]
                                   /\ undistributed_by_type'[c] = undistributed_by_type[c]
  <2> DEFINE dust == [t \in StoredTypes |-> undistributed_by_type[b][t] + rem[t]]
  <2>1. undistributed_by_type \in [BondIds -> [StoredTypes -> Nat]] /\ undistributed_total \in [BondIds -> Nat]
    BY <1>14, Zenon DEF CouponTypeOK
  <2>2. dust \in [StoredTypes -> Nat] /\ \A t \in StoredTypes : dust[t] = undistributed_by_type[b][t] + rem[t]
    BY <1>13, <2>1
  <2>3. undistributed_by_type' = [undistributed_by_type EXCEPT ![b] = dust]
    BY <1>13, Zenon
  <2> HIDE DEF dust
  <2> QED
    BY <1>13, <2>1, <2>2, <2>3
<1>19. NoPeriod.distributed = FALSE /\ NoBatch.open = FALSE
  BY DEF NoPeriod, NoBatch
<1>20. IInv' /\ StatusesOK'
  BY <1>14, IInvStep DEF StatusesOK
<1>21. CouponTypeOK'
  BY <1>1, <1>6, <1>7, <1>12, <1>14, <1>17, <1>18, ZenonT(30) DEF CouponTypeOK
<1>22. RatesKept'
  <2> SUFFICES ASSUME NEW c \in BondIds, NEW q \in Periods, batch'[c][q].open
               PROVE  BatchInRate(batch'[c][q])
    BY ZenonT(30) DEF RatesKept, BatchInRate
  <2> QED
    BY <1>10, <1>13, <1>14, <1>17, <1>19, ZenonT(30) DEF RatesKept
<1>23. CouponsOnVerified'
  <2>1. /\ new.open => report_status[new.report_id] = "Verified"
        /\ info.distributed => report_status[info.report_id] = "Verified"
    BY <1>2, <1>8, <1>13, <1>19, Zenon
  <2>2. report_status' = report_status
    OBVIOUS
  <2> SUFFICES ASSUME NEW c \in BondIds, NEW q \in Periods
               PROVE  /\ batch'[c][q].open => report_status[batch'[c][q].report_id] = "Verified"
                      /\ period_info'[c][q].distributed =>
                           report_status[period_info'[c][q].report_id] = "Verified"
    BY <2>2, Zenon DEF CouponsOnVerified, get_period_info
  <2>3. CASE c = b /\ q = p
    BY <1>17, <2>1, <2>3, Zenon
  <2>4. CASE c # b \/ q # p
    <3>1. batch'[c][q] = batch[c][q] /\ period_info'[c][q] = period_info[c][q]
      BY <1>17, <2>4, Zenon
    <3>2. CouponsOnVerified
      BY <1>14, Zenon
    <3> QED
      BY <3>1, <3>2, Zenon DEF CouponsOnVerified, get_period_info
  <2> QED
    BY <2>3, <2>4, Zenon
<1>24. \A c \in BondIds, t \in StoredTypes : OwnType(c, t)' = OwnType(c, t)
  BY <1>1 DEF OwnType, BondCreditType, vars, issuerVars
<1>25. OnlyOwnTypes'
  <2>1. \A c \in registered' : bond_status'[c] # "None"
    BY <1>1, <1>14 DEF OnlyOwnTypes, vars, issuerVars
  <2>2. ASSUME NEW c \in BondIds, NEW t \in StoredTypes, ~OwnType(c, t)
        PROVE  /\ \A h \in Addresses : accrued_by_type'[c][h][t] = 0
               /\ undistributed_by_type'[c][t] = 0
               /\ \A q \in Periods : batch'[c][q].open => batch'[c][q].totals[t] = 0
    <3>1. /\ \A h \in Addresses : accrued_by_type[c][h][t] = 0
          /\ undistributed_by_type[c][t] = 0
          /\ \A q \in Periods : batch[c][q].open => batch[c][q].totals[t] = 0
      BY <1>14, <2>2, ZenonT(30) DEF OnlyOwnTypes
    <3>2. CASE c # b
      BY <1>12, <1>17, <1>18, <3>1, <3>2, ZenonT(30)
    <3>3. CASE c = b
      <4>1. after.totals[t] = 0
        BY <1>2, <1>8, <2>2, <3>3, Zenon
      <4>2. rem[t] = 0 /\ \A i \in paid : credit[t][i] = 0
        BY <1>5, <1>13, <2>2, <3>3, <4>1, Zenon
      <4>3. \A h \in Addresses : accrued_by_type'[c][h][t] = 0
        BY <1>12, <3>1, <3>3, <4>2, ZenonT(30)
      <4>4. undistributed_by_type'[c][t] = 0
        BY <1>18, <3>1, <3>3, <4>2, SmallSums, Zenon
      <4>5. \A q \in Periods : batch'[c][q].open => batch'[c][q].totals[t] = 0
        BY <1>13, <1>17, <1>19, <3>1, <3>3, <4>1, ZenonT(30)
      <4> QED
        BY <4>3, <4>4, <4>5, ZenonT(30)
    <3> QED
      BY <3>2, <3>3, ZenonT(30)
  <2>3. \A c \in BondIds, t \in StoredTypes : ~OwnType(c, t)' =>
          /\ \A h \in Addresses : accrued_by_type'[c][h][t] = 0
          /\ undistributed_by_type'[c][t] = 0
          /\ \A q \in Periods : batch'[c][q].open => batch'[c][q].totals[t] = 0
    <3> SUFFICES ASSUME NEW c \in BondIds, NEW t \in StoredTypes, ~OwnType(c, t)'
                 PROVE  /\ \A h \in Addresses : accrued_by_type'[c][h][t] = 0
                        /\ undistributed_by_type'[c][t] = 0
                        /\ \A q \in Periods : batch'[c][q].open => batch'[c][q].totals[t] = 0
      BY Zenon
    <3>1. ~OwnType(c, t)
      BY <1>24, Zenon
    <3> QED
      BY <2>2, <3>1, Zenon
  <2> QED
    BY <2>1, <2>3, Zenon DEF OnlyOwnTypes
<1>26. TypesAddUp'
  <2>1. \A c \in BondIds, h \in Addresses :
          accrued'[c][h] = accrued_by_type'[c][h]["Carbon"] + accrued_by_type'[c][h]["Biodiversity"]
    <3>1. \A c \in BondIds, h \in Addresses :
            accrued[c][h] = accrued_by_type[c][h]["Carbon"] + accrued_by_type[c][h]["Biodiversity"]
      BY <1>14, Zenon DEF TypesAddUp
    <3> QED
      BY ONLY <1>12, <3>1, ZenonT(30)
  <2>2. \A c \in BondIds : undistributed_total'[c] =
          undistributed_by_type'[c]["Carbon"] + undistributed_by_type'[c]["Biodiversity"]
    <3>1. undistributed_by_type[b] \in [StoredTypes -> Nat]
      BY <1>14 DEF CouponTypeOK
    <3>2. undistributed_total[b] = undistributed_by_type[b]["Carbon"] + undistributed_by_type[b]["Biodiversity"]
      BY <1>14, Zenon DEF TypesAddUp
    <3>3. undistributed_total'[b] = undistributed_by_type'[b]["Carbon"] + undistributed_by_type'[b]["Biodiversity"]
      BY <1>13, <1>15, <1>18, <3>1, <3>2
    <3> QED
      BY <1>14, <1>18, <3>3, Zenon DEF TypesAddUp
  <2> QED
    BY <2>1, <2>2, ZenonT(30) DEF TypesAddUp
<1>27. CreditsAddUp'
  <2>1. \A c \in BondIds \ {b} :
          /\ IsFiniteSet(UnitsOf(Addresses, accrued'[c]))
          /\ Total(Addresses, accrued'[c]) + undistributed_total'[c] + spent'[c] = Created(c)'
    BY <1>7, <1>12, <1>14, <1>16, <1>18, ZenonT(30) DEF CreditsAddUp
  <2>2. oldSum + undistributed_total[b] + spent[b] = Created(b)
    BY <1>14, Zenon DEF CreditsAddUp
  <2>3. undistributed_total[b] \in Nat /\ spent[b] \in Nat
    BY <1>14 DEF CouponTypeOK
  <2>4. Total(Addresses, accrued'[b]) = oldSum + earned["Carbon"] + earned["Biodiversity"]
    BY <1>4, <1>12, <1>15, Zenon
  <2>5. k = earned["Carbon"] + earned["Biodiversity"] + left
    OBVIOUS
  <2> HIDE DEF k, oldSum
  <2>6. Total(Addresses, accrued'[b]) + undistributed_total'[b] + spent'[b] = Created(b)'
    <3>1. spent'[b] = spent[b]
      BY <1>7, Zenon
    <3>2. /\ undistributed_total'[b] = undistributed_total[b] + left
          /\ Created(b)' = Created(b) + k /\ Created(b) \in Nat
      BY <1>16, <1>18, Zenon
    <3>3. oldSum \in Nat /\ left \in Nat
      BY <1>12, <1>13, Zenon
    <3>4. (oldSum + earned["Carbon"] + earned["Biodiversity"]) + (undistributed_total[b] + left) + spent[b]
            = (oldSum + undistributed_total[b] + spent[b]) + (earned["Carbon"] + earned["Biodiversity"] + left)
      BY ONLY <1>15, <2>3, <3>3
    <3> QED
      BY ONLY <2>2, <2>4, <2>5, <3>1, <3>2, <3>4, Zenon
  <2> QED
    BY <1>12, <2>1, <2>6, ZenonT(30) DEF CreditsAddUp
<1> QED
  BY <1>6, <1>20, <1>21, <1>22, <1>23, <1>25, <1>26, <1>27, Zenon DEF CouponInv

-----------------------------------------------------------------------------
(* The inductive invariant holds *)

LEMMA CouponStepKept == CouponInv /\ CouponStep => CouponInv'
<1> SUFFICES ASSUME CouponInv, CouponStep
             PROVE  CouponInv'
  OBVIOUS
<1>1. ASSUME NEW caller \in Addresses, NEW b \in BondIds, register_bond(caller, b),
             UNCHANGED <<vars, report_status>>
      PROVE  CouponInv'
  <2>1. /\ UNCHANGED <<periodVars, creditVars, dustVars>> /\ registered' = registered \cup {b}
        /\ bond_status[b] # "None" /\ {b} \in SUBSET BondIds
    BY <1>1 DEF register_bond
  <2> QED
    BY <1>1, <2>1, RegisterStep, Zenon
<1>2. ASSUME NEW caller \in Addresses, register_deduct_caller(caller), UNCHANGED <<vars, report_status>>
      PROVE  CouponInv'
  <2>1. /\ UNCHANGED <<periodVars, creditVars, dustVars>> /\ registered' = registered \cup {}
        /\ {} \in SUBSET BondIds /\ \A b \in {} : bond_status[b] # "None"
    BY <1>2, Zenon DEF register_deduct_caller
  <2> QED
    BY <1>2, <2>1, RegisterStep, Zenon
<1>3. CASE AccountCall /\ UNCHANGED <<vars, report_status, approved>>
  BY <1>1, <1>2, <1>3, ClaimStep, SweepStep, Zenon DEF AccountCall
<1>4. CASE DistributeCall /\ UNCHANGED <<vars, report_status, approved>>
  BY <1>4, DistributeStep, Zenon DEF DistributeCall
<1>5. CASE Next /\ UNCHANGED <<report_status, approved, couponVars>>
  BY <1>5, OutsideStep, Zenon
<1>6. CASE LifecycleNext /\ UNCHANGED <<vars, approved, couponVars>>
  BY <1>6, OutsideStep, Zenon
<1>7. CASE RegistryStep /\ UNCHANGED <<vars, report_status, couponVars>>
  BY <1>7, OutsideStep, Zenon
<1> QED
  BY <1>3, <1>4, <1>5, <1>6, <1>7, Zenon DEF CouponStep

LEMMA CouponInvStep == CouponInv /\ [CouponNext]_couponAllVars => CouponInv'
<1> SUFFICES ASSUME CouponInv, [CouponNext]_couponAllVars
             PROVE  CouponInv'
  OBVIOUS
<1>1. CASE CouponStep
  BY <1>1, CouponStepKept, Zenon
<1>2. CASE DeductCall /\ UNCHANGED <<vars, report_status, approved>>
  BY <1>2, DeductStep, Zenon DEF DeductCall
<1>3. CASE UNCHANGED couponAllVars
  BY <1>3, OutsideStep DEF couponAllVars
<1> QED
  BY <1>1, <1>2, <1>3 DEF CouponNext

LEMMA CouponInvHolds == CouponSpec => []CouponInv
  BY CouponInvInit, CouponInvStep, PTL DEF CouponSpec

-----------------------------------------------------------------------------
(* The engine beside the contracts it reads *)

(* The engine takes nothing from the bond issuer: every step of the         *)
(* composition is a step of the issuer or leaves it alone.                  *)
THEOREM CouponImplementsIssuer == CouponSpec => Spec
<1>1. CouponInit => Init
  BY DEF CouponInit
<1>2. [CouponNext]_couponAllVars => [Next]_vars
  BY DEF CouponNext, CouponStep, couponAllVars
<1> QED
  BY <1>1, <1>2, PTL DEF CouponSpec, Spec

(* Nor does it judge reports: their statuses move as the oracle consumer    *)
(* promises.                                                                *)
THEOREM CouponFollowsReports == CouponSpec => LifecycleSpec
<1>1. CouponInit => LifecycleInit
  BY DEF CouponInit
<1>2. [CouponNext]_couponAllVars => [LifecycleNext]_report_status
  BY DEF CouponNext, CouponStep, couponAllVars
<1> QED
  BY <1>1, <1>2, PTL DEF CouponSpec, LifecycleSpec

-----------------------------------------------------------------------------
(* Credits *)

(* No call creates or loses a credit, and the holders of a period never     *)
(* receive more than the report's credits of a type (distribute_coupon,     *)
(* claim_credits, sweep_undistributed, deduct_credits): for any fixed-point *)
(* scale, however the period is cut into batches and whatever balances the  *)
(* admin passes.                                                            *)
THEOREM CreditConservation == CouponSpec => []CreditsConserved
<1>1. ASSUME CouponInv, NEW b \in BondIds, NEW p \in Periods, NEW t \in StoredTypes, batch[b][p].open
      PROVE  batch[b][p].by_type[t] <= batch[b][p].totals[t]
  <2> DEFINE s == batch[b][p]
             rate == PerToken(s.totals[t], s.subscribed)
  <2>1. s \in BatchRecords /\ BatchInRate(s)
    BY <1>1, EntryTypes, Zenon DEF CouponInv, RatesKept
  <2>2. s.by_type[t] \in Nat /\ s.totals[t] \in Nat /\ s.subscribed \in Nat /\ s.processed \in Nat
    BY <2>1, Zenon DEF BatchRecords
  <2>3. s.by_type[t] * FIXED_POINT <= rate * s.processed /\ s.processed <= s.subscribed
    BY <2>1 DEF BatchInRate
  <2>4. rate \in Nat /\ rate * s.subscribed <= s.totals[t] * FIXED_POINT
    BY <2>2, RateBound, Zenon
  <2> HIDE DEF rate, s
  <2>5. s.by_type[t] <= s.totals[t]
    BY <2>2, <2>3, <2>4, WithinTotal, Zenon
  <2> QED
    BY <2>5, Zenon DEF s
<1>2. CouponInv => CreditsConserved
  BY <1>1, ZenonT(30) DEF CouponInv, CreditsAddUp, CreditsConserved
<1> QED
  BY <1>2, CouponInvHolds, PTL

(* No holder is paid twice for a period: the mark HolderDistributed is set  *)
(* exactly for those who were paid.                                         *)
THEOREM PaidOnce == CouponSpec => []PaidOncePerPeriod
<1>1. CouponInv => PaidOncePerPeriod
  BY DEF CouponInv, PaidAreMarked, PaidOncePerPeriod
<1> QED
  BY <1>1, CouponInvHolds, PTL

(* Coupons rest on verified reports, although the status is only compared   *)
(* in a period's first batch: a verdict is final.                           *)
THEOREM OnVerifiedReports == CouponSpec => []CouponsOnVerified
  BY CouponInvHolds, PTL DEF CouponInv

(* The types a bond yields carry the whole of a breakdown that is zero      *)
(* elsewhere.                                                               *)
LEMMA KeptSum ==
  ASSUME NEW type \in CreditTypes, NEW f \in [StoredTypes -> Nat],
         \A t \in StoredTypes : t \notin KeptTypes(type) => f[t] = 0
  PROVE  Total(KeptTypes(type), [t \in KeptTypes(type) |-> OfType(f, t)]) =
           f["Carbon"] + f["Biodiversity"]
<1> DEFINE K == KeptTypes(type)
           g == [t \in K |-> OfType(f, t)]
<1>1. K = {"Carbon"} \/ K = {"Biodiversity"} \/ K = {"Carbon", "Biodiversity"}
  BY DEF KeptTypes, CreditTypes, StoredTypes, storage_type
<1>2. f["Carbon"] \in Nat /\ f["Biodiversity"] \in Nat
  BY DEF StoredTypes
<1>3. \A t \in K : g[t] = f[t] /\ f[t] \in Nat
  BY <1>1 DEF OfType, storage_type, StoredTypes
<1>4. \A t \in {"Carbon", "Biodiversity"} : t \notin K => f[t] = 0
  BY Zenon DEF StoredTypes
<1> HIDE DEF K, g
<1>5. CASE K = {"Carbon"}
  <2>1. Total({"Carbon"}, g) = g["Carbon"]
    BY <1>3, <1>5, TotalOne, Zenon
  <2> QED
    BY <1>2, <1>3, <1>4, <1>5, <2>1 DEF K, g
<1>6. CASE K = {"Biodiversity"}
  <2>1. Total({"Biodiversity"}, g) = g["Biodiversity"]
    BY <1>3, <1>6, TotalOne, Zenon
  <2> QED
    BY <1>2, <1>3, <1>4, <1>6, <2>1 DEF K, g
<1>7. CASE K = {"Carbon", "Biodiversity"}
  <2>1. g["Carbon"] = f["Carbon"] /\ g["Biodiversity"] = f["Biodiversity"]
    BY <1>3, <1>7
  <2>2. Total({"Carbon", "Biodiversity"}, g) = g["Carbon"] + g["Biodiversity"]
    BY <1>2, <2>1, TotalTwo, Zenon
  <2> QED
    BY <1>7, <2>1, <2>2, Zenon DEF K, g
<1> QED
  BY <1>1, <1>5, <1>6, <1>7, Zenon

(* What the queries say of a holder's credits and of the dust agrees by     *)
(* type and combined, so neither claim_credits nor sweep_undistributed ever *)
(* answers AccountingMismatch.                                              *)
THEOREM BreakdownTrue == CouponSpec => []BreakdownAddsUp
<1>1. ASSUME CouponInv, NEW b \in registered
      PROVE  LET kept == KeptTypes(BondCreditType(b)) IN
             /\ \A h \in Addresses, t \in CreditTypes :
                  /\ accrued_credits_by_type(b, h, t) >= 0
                  /\ storage_type(t) \notin kept =>
                       accrued_credits_by_type(b, h, t) = 0 /\ get_undistributed_by_type(b, t) = 0
             /\ \A h \in Addresses :
                  Total(kept, [t \in kept |-> OfType(accrued_by_type[b][h], t)]) = accrued[b][h]
             /\ Total(kept, [t \in kept |-> OfType(undistributed_by_type[b], t)]) = undistributed_total[b]
  <2> DEFINE type == BondCreditType(b)
  <2>1. b \in BondIds /\ type \in CreditTypes
    BY <1>1, RegisteredTerms, Zenon
  <2>2. /\ undistributed_by_type[b] \in [StoredTypes -> Nat]
        /\ \A h \in Addresses : accrued_by_type[b][h] \in [StoredTypes -> Nat]
    BY <1>1, <2>1 DEF CouponInv, CouponTypeOK
  <2>3. \A t \in StoredTypes : t \notin KeptTypes(type) =>
          undistributed_by_type[b][t] = 0 /\ \A h \in Addresses : accrued_by_type[b][h][t] = 0
    BY <1>1, <2>1, Zenon DEF CouponInv, OnlyOwnTypes, OwnType
  <2>4. /\ undistributed_total[b] = undistributed_by_type[b]["Carbon"] + undistributed_by_type[b]["Biodiversity"]
        /\ \A h \in Addresses :
             accrued[b][h] = accrued_by_type[b][h]["Carbon"] + accrued_by_type[b][h]["Biodiversity"]
    BY <1>1, <2>1, ZenonT(30) DEF CouponInv, TypesAddUp
  <2> HIDE DEF type
  <2>5. Total(KeptTypes(type), [t \in KeptTypes(type) |-> OfType(undistributed_by_type[b], t)])
          = undistributed_total[b]
    BY ONLY <2>1, <2>2, <2>3, <2>4, KeptSum, ZenonT(30)
  <2>6. ASSUME NEW h \in Addresses
        PROVE  Total(KeptTypes(type), [t \in KeptTypes(type) |-> OfType(accrued_by_type[b][h], t)])
                 = accrued[b][h]
    BY ONLY <2>1, <2>2, <2>3, <2>4, <2>6, KeptSum, Zenon
  <2>7. ASSUME NEW h \in Addresses, NEW t \in CreditTypes
        PROVE  /\ accrued_credits_by_type(b, h, t) >= 0
               /\ storage_type(t) \notin KeptTypes(type) =>
                    accrued_credits_by_type(b, h, t) = 0 /\ get_undistributed_by_type(b, t) = 0
    BY <2>2, <2>3, <2>7 DEF accrued_credits_by_type, get_undistributed_by_type, OfType
  <2> QED
    BY <2>5, <2>6, <2>7, Zenon DEF type
<1>2. CouponInv => BreakdownAddsUp
  BY <1>1, Zenon DEF BreakdownAddsUp, KeptTypes, get_bond_credit_type, accrued_credits_by_type,
     get_undistributed_by_type, accrued_credits, get_undistributed_total
<1> QED
  BY <1>2, CouponInvHolds, PTL
=============================================================================
