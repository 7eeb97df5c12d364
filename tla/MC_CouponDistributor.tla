------------------------ MODULE MC_CouponDistributor ------------------------
(* The backend pays one coupon of a subscribed bond while it is traded.      *)
EXTENDS MC_CouponEngine, CouponDistributor

CONSTANTS r1, r2

MCRuns == {r1, r2}
RunSymmetry == Permutations(MCRuns)
BlueCarbonConfigs == {[Config("BlueCarbon") EXCEPT !.total_supply = 2]}
(* A report worth less than one credit: what is claimed does not matter here. *)
SmallReport == [r \in {1} |-> [hash |-> "h1", carbon |-> 1, biodiversity |-> {}]]
KnownHolders == {<<bob>>}
TradedInit ==
  /\ Deployed(Configs, <<alice>>, alice :> 2)
  /\ deduct_caller = TRUE
  /\ DistributorInit

TradedSpec == TradedInit /\ [][DistributorNext]_distributorVars
=============================================================================
