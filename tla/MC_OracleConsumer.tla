------------------------- MODULE MC_OracleConsumer -------------------------
(* Small oracle networks around one registry.                                *)
EXTENDS OracleConsumer, TLC

CONSTANTS root, p1, p2, p3, oracle, h0, h1

MCAddresses == {root, p1, p2, p3, oracle}
MCHashes == {h0, h1}
TwoProviders == {p1, p2}
ThreeProviders == {p1, p2, p3}
OnePeriod == {<<0, 1>>, <<1, 1>>, <<1, 2>>}
FewPeriods == {<<0, 1>>, <<1, 2>>}
NoCandidates == {}
SoleProvider == {p1}
SoleAddresses == {root, p1, oracle}
Bystander == {root}
OracleOnly == {oracle}
FewAddresses == {root, p1, p2, oracle}
Symmetry2 == Permutations({p1, p2})
Symmetry == Permutations({p1, p2, p3})

(* The deployment the seed script leaves behind: the contracts know each    *)
(* other, a project is approved and the providers are registered.           *)
Deployed(ps) ==
  /\ now = 0
  /\ TransferInit
  /\ OracleTransfer!TransferInit
  /\ project_count = 1
  /\ project_status = [id \in ProjectIds |-> IF id = 1 THEN "Approved" ELSE "None"]
  /\ project_hash = [id \in ProjectIds |-> IF id = 1 THEN h1 ELSE h0]
  /\ project_owner = [id \in ProjectIds |-> Admin]
  /\ project_by_hash = [hash \in Hashes |-> IF hash = h1 THEN 1 ELSE 0]
  /\ owner_projects = [a \in Addresses |-> IF a = Admin THEN <<1>> ELSE <<>>]
  /\ oracle_consumer_id = {OracleContract}
  /\ oracle_nonce = 0
  /\ provider_list = ps
  /\ active = [p \in Providers |-> p \in ps]
  /\ stake = [p \in Providers |-> 0]
  /\ locked_stake = [p \in Providers |-> 0]
  /\ slash_history = [p \in Providers |-> <<>>]
  /\ provider_challenges = [p \in Providers |-> <<>>]
  /\ signature_threshold = 1
  /\ report_count = 0
  /\ report = [r \in ReportIds |-> NoReport]
  /\ report_lock = [r \in ReportIds |-> 0]
  /\ verifiers = [r \in ReportIds |-> <<>>]
  /\ periods = [id \in ProjectIds |-> <<>>]
  /\ project_reports = [id \in ProjectIds |-> <<>>]
  /\ provider_report_count = [p \in Providers |-> 0]
  /\ challenge = [r \in ReportIds |-> NoChallenge]
  /\ uphold_votes = [r \in ReportIds |-> <<>>]
  /\ reject_votes = [r \in ReportIds |-> <<>>]
  /\ bond_balance = [a \in Challengers |-> 0]
  /\ bond_lock = [a \in Challengers |-> 0]
  /\ registry_sets = 1
  /\ project_registry_nonce = 0

DisputeSpec == Deployed(Providers) /\ [][OracleNext]_allVars
=============================================================================
