---------------------------- MODULE CouponEngine ----------------------------
(***************************************************************************)
(* The coupon-engine contract (contracts/coupon-engine/src/lib.rs) beside   *)
(* the bond issuer, whose balances and total_subscribed it reads, and the   *)
(* report statuses of the oracle consumer (ReportLifecycle).  The admin     *)
(* distributes a coupon period in one or more batches of (holder, balance)  *)
(* pairs; holders claim, the credit-retirement contract deducts, and the    *)
(* admin sweeps what rounding left over.                                    *)
(***************************************************************************)
EXTENDS BondIssuer, ReportLifecycle

CONSTANTS
  CouponAdmin,         \* DataKey::Admin of this contract
  ReportData,          \* what a report says, by report id: hash, carbon, biodiversity
  MaxPeriods,          \* bound on the period index
  Batches,             \* the holder vectors distribute_coupon is called with
  Retirements,         \* the amounts deduct_credits is called with
  SweepDestinations,   \* the accounts sweep_undistributed is called with
  FIXED_POINT, CREDIT_DIVISOR,
  HABITAT_CREDIT_RATE, SPECIES_CREDIT_RATE, UNIT_CREDIT_RATE

CreditTypes == {"Carbon", "Biodiversity", "Basket", "BlueCarbon"}

(* Metrics of a report: none (Absent) or one triple (Present).  The oracle  *)
(* consumer refuses reports with negative quantities.                       *)
ASSUME CouponAssumption ==
  /\ CouponAdmin \in Addresses
  /\ \A c \in Configs : c.credit_type \in CreditTypes
  /\ Batches \subseteq Seq(Addresses \X Int)
  /\ Retirements \subseteq Int
  /\ \A r \in Reports : /\ ReportData[r].carbon \in Nat
                        /\ ReportData[r].biodiversity \subseteq Nat \X Nat \X Nat
  /\ MaxPeriods \in Nat
  /\ SweepDestinations \subseteq Addresses
  /\ {FIXED_POINT, CREDIT_DIVISOR, HABITAT_CREDIT_RATE, SPECIES_CREDIT_RATE,
      UNIT_CREDIT_RATE} \subseteq Nat \ {0}

VARIABLES
  approved,           \* project hashes the registry reports as Approved
  registered,         \* bonds with a BondProject and a BondCreditType entry
  period_info,        \* DataKey::PeriodInfo(b, p)
  period_count,       \* DataKey::PeriodCount(b)
  batch,              \* DataKey::BatchState(b, p) and DistributionBalance(b, p)
  holder_distributed, \* DataKey::HolderDistributed(b, p, h), as a set of holders
  accrued,            \* DataKey::AccruedCredits(b, h)
  accrued_by_type,    \* DataKey::AccruedCreditsByType(b, h, type)
  undistributed_total,    \* DataKey::UndistributedTotal(b)
  undistributed_by_type,  \* DataKey::UndistributedByType(b, type)
  deduct_caller,      \* whether DataKey::DeductCaller is set
  payments,           \* history: how often, and on what balance, h was paid for (b, p)
  spent               \* history: credits of b claimed or retired

creditVars == <<accrued, accrued_by_type, spent>>
dustVars == <<undistributed_total, undistributed_by_type>>
periodVars == <<period_info, period_count, batch, holder_distributed, payments>>
couponVars == <<registered, periodVars, creditVars, dustVars, deduct_caller>>
couponAllVars == <<vars, report_status, approved, couponVars>>

Periods == 0 .. MaxPeriods - 1
StoredTypes == {"Carbon", "Biodiversity"}
NoPeriod == [distributed |-> FALSE]
NoBatch == [open |-> FALSE]

CouponInit ==
  /\ Init
  /\ LifecycleInit
  /\ approved = {}
  /\ registered = {}
  /\ period_info = [b \in BondIds |-> [p \in Periods |-> NoPeriod]]
  /\ period_count = [b \in BondIds |-> 0]
  /\ batch = [b \in BondIds |-> [p \in Periods |-> NoBatch]]
  /\ holder_distributed = [b \in BondIds |-> [p \in Periods |-> {}]]
  /\ accrued = [b \in BondIds |-> [h \in Addresses |-> 0]]
  /\ accrued_by_type =
       [b \in BondIds |-> [h \in Addresses |-> [t \in StoredTypes |-> 0]]]
  /\ undistributed_total = [b \in BondIds |-> 0]
  /\ undistributed_by_type = [b \in BondIds |-> [t \in StoredTypes |-> 0]]
  /\ deduct_caller = FALSE
  /\ payments = [b \in BondIds |-> [p \in Periods |->
                   [h \in Addresses |-> [times |-> 0, balance |-> 0]]]]
  /\ spent = [b \in BondIds |-> 0]

-----------------------------------------------------------------------------
(* Helpers *)

require_coupon_admin(caller) == caller = CouponAdmin

(* The entries register_bond stores copy the bond's immutable config.       *)
BondProject(b) == bond_config[b].project_id
BondCreditType(b) == bond_config[b].credit_type

(* Blue carbon credits are kept under Carbon; a retirement of type Basket   *)
(* finds an empty entry.                                                    *)
storage_type(type) == IF type = "BlueCarbon" THEN "Carbon" ELSE type

compute_biodiversity_credits(metrics) ==
  (metrics[1] * HABITAT_CREDIT_RATE + metrics[2] * SPECIES_CREDIT_RATE
     + metrics[3] * UNIT_CREDIT_RATE) \div HABITAT_CREDIT_RATE

(* The credits a report is worth to a bond of the given type.               *)
ReportTotals(type, report) ==
  [t \in StoredTypes |->
     CASE t = "Carbon" /\ type # "Biodiversity" -> report.carbon \div CREDIT_DIVISOR
       [] t = "Biodiversity" /\ type \in {"Biodiversity", "Basket"} ->
            compute_biodiversity_credits(CHOOSE m \in report.biodiversity : TRUE)
       [] OTHER -> 0]

PerToken(total, subscribed) ==
  IF subscribed > 0 /\ total > 0 THEN (total * FIXED_POINT) \div subscribed ELSE 0

(* A bond of one type is paid at the combined rate, which is the rate of    *)
(* that type, as the total of the other is 0.                               *)
HolderCredits(s, t, balance) ==
  (PerToken(s.totals[t], s.subscribed) * balance) \div FIXED_POINT

(* The state of a period's distribution before its first batch; the rates   *)
(* stored in BatchState follow from the totals and the snapshot.            *)
FirstBatch(b, r) ==
  [open |-> TRUE, report_id |-> r,
   totals |-> ReportTotals(BondCreditType(b), ReportData[r]),
   distributed |-> 0, by_type |-> [t \in StoredTypes |-> 0],
   subscribed |-> total_subscribed[b], processed |-> 0]

(* MUTANT of ReportUsable: a report that is still pending will do. *)
ReportUsable_Pending(b, r) ==
  /\ report_status[r] \in {"Pending", "Verified"}
  /\ ReportData[r].hash = BondProject(b)
  /\ BondCreditType(b) \in {"Biodiversity", "Basket"} => ReportData[r].biodiversity # {}

ReportUsable(b, r) ==
  /\ report_status[r] = "Verified"
  /\ ReportData[r].hash = BondProject(b)
  /\ BondCreditType(b) \in {"Biodiversity", "Basket"} => ReportData[r].biodiversity # {}

TotalCredits(s) == s.totals["Carbon"] + s.totals["Biodiversity"]

(* MUTANT of Paid: a second entry of a holder in the same call is paid too. *)
Paid_NoMark(b, p, holders) == {i \in 1 .. Len(holders) : holders[i][2] > 0}

(* The positions of the batch that are paid: a positive balance of a holder *)
(* not yet paid for the period, by an earlier call or earlier in this one.  *)
Paid(b, p, holders) ==
  {i \in 1 .. Len(holders) :
     /\ holders[i][2] > 0
     /\ holders[i][1] \notin holder_distributed[b][p]
     /\ \A j \in 1 .. i - 1 : holders[j][1] = holders[i][1] => holders[j][2] <= 0}

(* The sum, over the positions in paid, of the entitlements in credit that  *)
(* go to the holder h.                                                      *)
ShareOf(h, paid, holders, credit) == Total({i \in paid : holders[i][1] = h}, credit)

AddIfPositive(x, d) == IF d > 0 THEN x + d ELSE x

-----------------------------------------------------------------------------
(* Contract calls *)

register_bond(caller, b) ==
  /\ require_coupon_admin(caller)
  /\ bond_status[b] # "None"
  /\ BondProject(b) \in approved
  /\ registered' = registered \cup {b}
  /\ UNCHANGED <<periodVars, creditVars, dustVars, deduct_caller>>

BalanceOf(paid, holders) == [i \in paid |-> holders[i][2]]

(* The holder loop: credits accrue to the paid holders, who are marked.     *)
PayHolders(b, p, holders, paid, credit) ==
  LET share(h, t) == ShareOf(h, paid, holders, credit[t]) IN
  /\ accrued_by_type' = [accrued_by_type EXCEPT ![b] =
       [h \in Addresses |-> [t \in StoredTypes |-> @[h][t] + share(h, t)]]]
  /\ accrued' = [accrued EXCEPT ![b] =
       [h \in Addresses |-> @[h] + share(h, "Carbon") + share(h, "Biodiversity")]]
  /\ holder_distributed' = [holder_distributed EXCEPT ![b][p] =
       @ \cup {holders[i][1] : i \in paid}]
  /\ payments' = [payments EXCEPT ![b][p] = [h \in Addresses |->
       [times |-> @[h].times + Cardinality({i \in paid : holders[i][1] = h}),
        balance |-> @[h].balance + ShareOf(h, paid, holders, BalanceOf(paid, holders))]]]
  /\ UNCHANGED spent

(* MUTANT of BookDust: the dust of earlier periods is overwritten. *)
BookDust_Overwrite(b, left) == [undistributed_total EXCEPT ![b] = IF left > 0 THEN left ELSE @]

BookDust(b, left) == [undistributed_total EXCEPT ![b] = AddIfPositive(@, left)]

(* The state of the period's distribution a call goes on from.              *)
StateOf(b, p, r) == IF batch[b][p].open THEN batch[b][p] ELSE FirstBatch(b, r)

CreditOf(s, paid, holders) ==
  [t \in StoredTypes |-> [i \in paid |-> HolderCredits(s, t, holders[i][2])]]

EarnedOf(paid, credit) == [t \in StoredTypes |-> Total(paid, credit[t])]

AfterBatch(s, processed, earned) ==
  [s EXCEPT !.processed = @ + processed,
            !.distributed = @ + earned["Carbon"] + earned["Biodiversity"],
            !.by_type = [t \in StoredTypes |-> @[t] + earned[t]]]

(* The last batch closes the period and books what rounding left over.      *)
FinalisePeriod(b, p, s) ==
  LET left == TotalCredits(s) - s.distributed IN
  /\ s.processed = s.subscribed
  /\ period_info' = [period_info EXCEPT ![b][p] =
       [distributed |-> TRUE, report_id |-> s.report_id,
        total_credits_earned |-> s.distributed, undistributed |-> left]]
  /\ undistributed_total' = BookDust(b, left)
  /\ undistributed_by_type' = [undistributed_by_type EXCEPT ![b] =
       [t \in StoredTypes |-> AddIfPositive(@[t], s.totals[t] - s.by_type[t])]]
  /\ period_count' = [period_count EXCEPT ![b] = @ + 1]
  /\ batch' = [batch EXCEPT ![b][p] = NoBatch]

distribute_coupon(caller, b, p, holders, r, is_final_batch) ==
  LET s == StateOf(b, p, r)
      paid == Paid(b, p, holders)
      credit == CreditOf(s, paid, holders)
      after == AfterBatch(s, Total(paid, BalanceOf(paid, holders)), EarnedOf(paid, credit))
  IN
  /\ require_coupon_admin(caller)
  /\ ~period_info[b][p].distributed
  /\ b \in registered
  /\ IF batch[b][p].open THEN s.report_id = r ELSE ReportUsable(b, r)
  /\ after.processed <= s.subscribed
  /\ PayHolders(b, p, holders, paid, credit)
  /\ IF is_final_batch
     THEN FinalisePeriod(b, p, after)
     ELSE /\ batch' = [batch EXCEPT ![b][p] = after]
          /\ UNCHANGED <<period_info, period_count, dustVars>>
  /\ UNCHANGED <<registered, deduct_caller>>

(* The types whose balances a claim on the bond reads and clears.           *)
ClaimTypes(b) ==
  CASE BondCreditType(b) \in {"Carbon", "BlueCarbon"} -> {"Carbon"}
    [] BondCreditType(b) = "Biodiversity" -> {"Biodiversity"}
    [] OTHER -> StoredTypes

(* The breakdown must add up to the combined balance before either is       *)
(* cleared.  A claim of nothing succeeds and changes nothing.               *)
claim_credits(caller, b) ==
  /\ accrued[b][caller] > 0
  /\ b \in registered
  /\ Total(ClaimTypes(b), accrued_by_type[b][caller]) = accrued[b][caller]
  /\ accrued' = [accrued EXCEPT ![b][caller] = 0]
  /\ accrued_by_type' = [accrued_by_type EXCEPT ![b][caller] =
       [t \in StoredTypes |-> IF t \in ClaimTypes(b) THEN 0 ELSE @[t]]]
  /\ spent' = [spent EXCEPT ![b] = @ + accrued[b][caller]]
  /\ UNCHANGED <<registered, periodVars, dustVars, deduct_caller>>

(* MUTANT of sweep_undistributed: the swept dust is not cleared by type. *)
sweep_undistributed_KeepTypes(caller, b, destination) ==
  /\ require_coupon_admin(caller)
  /\ undistributed_total[b] # 0
  /\ undistributed_total' = [undistributed_total EXCEPT ![b] = 0]
  /\ accrued' = [accrued EXCEPT ![b][destination] = @ + undistributed_total[b]]
  /\ accrued_by_type' = [accrued_by_type EXCEPT ![b][destination] =
       [t \in StoredTypes |-> @[t] + undistributed_by_type[b][t]]]
  /\ UNCHANGED <<registered, periodVars, undistributed_by_type, spent, deduct_caller>>

(* A sweep of nothing succeeds and changes nothing. *)
sweep_undistributed(caller, b, destination) ==
  LET dust == undistributed_by_type[b] IN
  /\ require_coupon_admin(caller)
  /\ dust["Carbon"] + dust["Biodiversity"] = undistributed_total[b]
  /\ undistributed_total[b] # 0
  /\ undistributed_total' = [undistributed_total EXCEPT ![b] = 0]
  /\ undistributed_by_type' = [undistributed_by_type EXCEPT ![b] = [t \in StoredTypes |-> 0]]
  /\ accrued_by_type' = [accrued_by_type EXCEPT ![b][destination] =
       [t \in StoredTypes |-> @[t] + dust[t]]]
  /\ accrued' = [accrued EXCEPT ![b][destination] =
       @ + dust["Carbon"] + dust["Biodiversity"]]
  /\ UNCHANGED <<registered, periodVars, spent, deduct_caller>>

register_deduct_caller(caller) ==
  /\ require_coupon_admin(caller)
  /\ deduct_caller' = TRUE
  /\ UNCHANGED <<registered, periodVars, creditVars, dustVars>>

Deductible(b, h, amount, type) ==
  /\ amount > 0
  /\ amount <= accrued[b][h]
  /\ storage_type(type) \in StoredTypes
  /\ amount <= accrued_by_type[b][h][storage_type(type)]

(* Called by the credit-retirement contract, the registered deduct caller.  *)
deduct_credits(b, h, amount, type) ==
  /\ deduct_caller
  /\ Deductible(b, h, amount, type)
  /\ accrued' = [accrued EXCEPT ![b][h] = @ - amount]
  /\ accrued_by_type' = [accrued_by_type EXCEPT ![b][h][storage_type(type)] = @ - amount]
  /\ spent' = [spent EXCEPT ![b] = @ + amount]
  /\ UNCHANGED <<registered, periodVars, dustVars, deduct_caller>>

(* The status get_project_status_by_hash reports may change either way: a   *)
(* project is approved or suspended, and its hash may be registered again.  *)
RegistryStep ==
  \E hash \in {ReportData[r].hash : r \in Reports} :
    approved' = (approved \cup {hash}) \ (approved \cap {hash})

(* A call of this contract by an account. *)
AccountCall ==
  \/ \E caller \in Addresses, b \in BondIds :
       register_bond(caller, b) \/ claim_credits(caller, b)
  \/ \E caller \in Addresses, b \in BondIds, to \in SweepDestinations :
       sweep_undistributed(caller, b, to)
  \/ \E caller \in Addresses : register_deduct_caller(caller)

DistributeCall ==
  \E caller \in Addresses, b \in BondIds, p \in Periods, holders \in Batches,
     r \in Reports, last \in BOOLEAN :
    distribute_coupon(caller, b, p, holders, r, last)

DeductCall ==
  \E b \in BondIds, h \in Addresses, amount \in Retirements,
     type \in CreditTypes :
    deduct_credits(b, h, amount, type)

(* Everything but deductions, which come from another contract. *)
CouponStep ==
  \/ AccountCall /\ UNCHANGED <<vars, report_status, approved>>
  \/ DistributeCall /\ UNCHANGED <<vars, report_status, approved>>
  \/ Next /\ UNCHANGED <<report_status, approved, couponVars>>
  \/ LifecycleNext /\ UNCHANGED <<vars, approved, couponVars>>
  \/ RegistryStep /\ UNCHANGED <<vars, report_status, couponVars>>

CouponNext ==
  \/ CouponStep
  \/ DeductCall /\ UNCHANGED <<vars, report_status, approved>>

CouponSpec == CouponInit /\ [][CouponNext]_couponAllVars

-----------------------------------------------------------------------------
(* Queries *)

accrued_credits(b, h) == accrued[b][h]
get_undistributed_total(b) == undistributed_total[b]

(* The entry a query by type reads; that of type Basket is never written.   *)
OfType(amounts, type) ==
  IF storage_type(type) \in StoredTypes THEN amounts[storage_type(type)] ELSE 0

accrued_credits_by_type(b, h, type) == OfType(accrued_by_type[b][h], type)
get_undistributed_by_type(b, type) == OfType(undistributed_by_type[b], type)

get_bond_credit_type(b) == BondCreditType(b)
get_period_info(b, p) == period_info[b][p]

-----------------------------------------------------------------------------
(* Properties *)

(* The credits distribute_coupon created for the bond: those of the closed  *)
(* periods and those of the batches so far of the open ones.                *)
Created(b) ==
  Total(Periods, [p \in Periods |->
    IF period_info[b][p].distributed
    THEN period_info[b][p].total_credits_earned + period_info[b][p].undistributed
    ELSE IF batch[b][p].open THEN batch[b][p].distributed ELSE 0])

(* No call creates or loses a credit: what the reports yielded is held by   *)
(* accounts, waiting as dust, or was claimed or retired, after any sequence *)
(* of batches, claims, sweeps and deductions.  And however a period is cut  *)
(* into batches, and whatever balances the caller passes, the holders never *)
(* receive more than the report's credits of a type.                        *)
CreditsConserved ==
  \A b \in BondIds :
    /\ Total(Addresses, accrued[b]) + undistributed_total[b] + spent[b] = Created(b)
    /\ \A p \in Periods, t \in StoredTypes :
         batch[b][p].open => batch[b][p].by_type[t] <= batch[b][p].totals[t]

(* What the queries say of a holder's credits, and of the dust, agrees by   *)
(* type and combined: only the bond's own types are ever there, none is     *)
(* negative, and they add up.  So neither claim_credits nor                 *)
(* sweep_undistributed ever answers AccountingMismatch, which would lock    *)
(* the credits in.                                                          *)
BreakdownAddsUp ==
  \A b \in registered :
    LET kept == IF get_bond_credit_type(b) = "Basket" THEN StoredTypes
                ELSE {storage_type(get_bond_credit_type(b))}
    IN /\ \A h \in Addresses, t \in CreditTypes :
            /\ accrued_credits_by_type(b, h, t) >= 0
            /\ storage_type(t) \notin kept =>
                 accrued_credits_by_type(b, h, t) = 0 /\ get_undistributed_by_type(b, t) = 0
       /\ \A h \in Addresses :
            Total(kept, [t \in kept |-> accrued_credits_by_type(b, h, t)]) = accrued_credits(b, h)
       /\ Total(kept, [t \in kept |-> get_undistributed_by_type(b, t)]) =
            get_undistributed_total(b)

(* No holder is paid twice for a period: not by a batch sent again, by      *)
(* overlapping batches or by a vector that names the holder twice.          *)
PaidOncePerPeriod ==
  \A b \in BondIds, p \in Periods, h \in Addresses : payments[b][p][h].times <= 1

(* Coupons rest on verified reports only.  The status is compared in the    *)
(* first batch and never again, so this leans on the oracle's verdicts      *)
(* being final.                                                             *)
CouponsOnVerified ==
  \A b \in BondIds, p \in Periods :
    /\ batch[b][p].open => report_status[batch[b][p].report_id] = "Verified"
    /\ get_period_info(b, p).distributed =>
         report_status[get_period_info(b, p).report_id] = "Verified"
=============================================================================
