------------------------ MODULE MC_CreditRetirement ------------------------
(* One subscribed bond, after an upgrade with one legacy retirement or none. *)
EXTENDS MC_CouponEngine, CreditRetirement

OneLegacyRecord ==
  <<[id |-> 1, holder |-> alice, bond_id |-> 1, period_index |-> 0, report_id |-> 1,
     amount |-> 1, credit_type |-> "Carbon", vintage_year |-> 2024]>>
UpgradedInit ==
  /\ Deployed(Configs, <<alice, bob>>, (alice :> 2) @@ (bob :> 1))
  /\ deduct_caller = FALSE
  /\ RetirementInit

UpgradedSpec == UpgradedInit /\ [][RetirementNext]_retirementAllVars
=============================================================================
