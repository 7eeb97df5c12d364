-------------------------- MODULE MC_CouponEngine --------------------------
(* One or two bonds with two investors, two coupon periods and two reports.  *)
EXTENDS CouponEngine, TLC

CONSTANTS admin, alice, bob

MCAddresses == {admin, alice, bob}
Config(type) ==
  [project_id |-> "h1", credit_type |-> type, face_value |-> 1,
   coupon_schedule |-> {0}, maturity_date |-> 1, total_supply |-> 3]
BasketConfigs == {Config("Basket")}
(* Carbon is left out: a blue carbon bond is paid alike, and its credits    *)
(* are also stored under a type other than its own.                         *)
FewConfigs == {Config(type) : type \in {"Biodiversity", "Basket", "BlueCarbon"}}
(* Windows that end on the last day of 2024 and the first of 2025. *)
MCReportData ==
  [r \in {1, 2} |-> IF r = 1
     THEN [hash |-> "h1", carbon |-> 9, biodiversity |-> {<<1, 5, 1>>}, end_day |-> 20088]
     ELSE [hash |-> "h1", carbon |-> 4, biodiversity |-> {<<0, 5, 0>>}, end_day |-> 20089]]
FewBatches == {<<<<alice, 2>>>>, <<<<bob, 1>>>>, <<<<bob, 0>>, <<bob, 1>>, <<alice, 1>>>>}
MCBatches ==
  {<<>>, <<<<alice, 2>>>>, <<<<bob, 1>>>>, <<<<bob, 0>>, <<alice, 1>>, <<alice, 2>>>>,
   <<<<alice, 2>>, <<bob, 1>>>>, <<<<bob, 2>>, <<alice, 1>>>>}

(* A bond of one of the given terms, subscribed by the investors listed, in *)
(* the given units, and registered with the engine; the reports verified.   *)
Deployed(configs, list, units) ==
  /\ now = 0
  /\ bond_count = 1
  /\ \E c \in configs : bond_config = [b \in BondIds |-> IF b = 1 THEN c ELSE NoConfig]
  /\ bond_status = [b \in BondIds |-> IF b = 1 THEN "Active" ELSE "None"]
  /\ total_subscribed = [b \in BondIds |-> IF b = 1 THEN Total(DOMAIN units, units) ELSE 0]
  /\ holder_balance = [b \in BondIds |-> [h \in Addresses |->
       IF b = 1 /\ h \in DOMAIN units THEN units[h] ELSE 0]]
  /\ holder_list = [b \in BondIds |-> IF b = 1 THEN list ELSE <<>>]
  /\ report_status = [r \in Reports |-> "Verified"]
  /\ approved = {"h1"}
  /\ registered = {1}
  /\ period_info = [b \in BondIds |-> [p \in Periods |-> NoPeriod]]
  /\ period_count = [b \in BondIds |-> 0]
  /\ batch = [b \in BondIds |-> [p \in Periods |-> NoBatch]]
  /\ holder_distributed = [b \in BondIds |-> [p \in Periods |-> {}]]
  /\ accrued = [b \in BondIds |-> [h \in Addresses |-> 0]]
  /\ accrued_by_type = [b \in BondIds |-> [h \in Addresses |-> [t \in StoredTypes |-> 0]]]
  /\ undistributed_total = [b \in BondIds |-> 0]
  /\ undistributed_by_type = [b \in BondIds |-> [t \in StoredTypes |-> 0]]
  /\ payments = [b \in BondIds |-> [p \in Periods |->
                   [h \in Addresses |-> [times |-> 0, balance |-> 0]]]]
  /\ spent = [b \in BondIds |-> 0]
=============================================================================
