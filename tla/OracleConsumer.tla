--------------------------- MODULE OracleConsumer ---------------------------
(***************************************************************************)
(* The oracle-consumer contract (contracts/oracle-consumer/src/lib.rs),     *)
(* composed with the project registry it reads and revokes projects in.     *)
(* Providers stake, submit reports on approved projects and verify each     *)
(* other's; anyone who deposited a bond may challenge a pending report; the *)
(* admin, a two-thirds majority of providers, or the timeout settles the    *)
(* challenge.  A call that fails, in either contract, changes nothing in    *)
(* both.                                                                    *)
(***************************************************************************)
EXTENDS ProjectRegistry, UnitSums

CONSTANTS
  Providers,        \* addresses the admin may register as providers
  Stakes,           \* amounts a provider may stake or withdraw
  MaxStake,         \* bound on a provider's stake
  Challengers,      \* accounts that deposit bonds and challenge
  BondDeposits,     \* amounts a challenger may deposit or withdraw
  MaxBondBalance,   \* bound on a challenger's deposited balance
  Periods,          \* the <<period_start, period_end>> a report may carry
  MaxReports,       \* bound on the number of reports
  MaxRegistrySets,  \* bound on the calls of set_project_registry
  CHALLENGE_WINDOW_SECONDS,
  CHALLENGE_TIMEOUT_SECONDS,
  CHALLENGE_BOND,
  SLASH_PENALTY_PPM,
  MAX_PERIOD_HISTORY

ASSUME OracleAssumption ==
  /\ Providers \subseteq Addresses
  /\ Challengers \subseteq Addresses
  /\ Stakes \subseteq Int /\ BondDeposits \subseteq Int
  /\ Periods \subseteq Nat \X Nat
  /\ {MaxStake, MaxBondBalance, MaxReports, MaxRegistrySets} \subseteq Nat
  /\ {CHALLENGE_WINDOW_SECONDS, CHALLENGE_TIMEOUT_SECONDS, SLASH_PENALTY_PPM} \subseteq Nat
  /\ CHALLENGE_BOND \in Nat \ {0}
  /\ MAX_PERIOD_HISTORY \in Nat \ {0}

VARIABLES
  provider_list,     \* DataKey::ProviderList, without duplicates, as a set
  active,            \* DataKey::Provider(p).active
  stake,             \* DataKey::Provider(p).stake
  locked_stake,      \* DataKey::LockedStake(p)
  slash_history,     \* DataKey::SlashHistory(p)
  provider_challenges,   \* DataKey::ProviderChallenges(p)
  signature_threshold,   \* DataKey::SignatureThreshold
  report_count,      \* DataKey::ReportCount
  report,            \* DataKey::Report(r)
  report_lock,       \* DataKey::ReportLock(r)
  verifiers,         \* DataKey::ReportVerifiers(r)
  periods,           \* DataKey::ProjectReportPeriods(project)
  project_reports,   \* DataKey::ProjectReports(project)
  provider_report_count, \* DataKey::ProviderReportCount(p)
  challenge,         \* DataKey::Challenge(r)
  uphold_votes,      \* DataKey::ChallengeUpholdVotes(r)
  reject_votes,      \* DataKey::ChallengeRejectVotes(r)
  bond_balance,      \* DataKey::ChallengeBondBalance(a)
  bond_lock,         \* DataKey::ChallengeBondLock(a)
  oracle_admin,          \* DataKey::Admin of this contract
  oracle_pending_admin,  \* DataKey::PendingAdmin of this contract
  registry_sets,     \* calls of set_project_registry so far; 0: not configured
  project_registry_nonce  \* DataKey::ProjectRegistryNonce

providerVars == <<provider_list, active, stake, locked_stake, slash_history,
                  provider_challenges, signature_threshold>>
indexVars == <<periods, project_reports, provider_report_count>>
reportVars == <<report_count, report, report_lock, verifiers, indexVars>>
challengeVars == <<challenge, uphold_votes, reject_votes, bond_balance, bond_lock>>
linkVars == <<registry_sets, project_registry_nonce>>
oracleAdminVars == <<oracle_admin, oracle_pending_admin>>
oracleVars == <<providerVars, reportVars, challengeVars, linkVars, oracleAdminVars>>

ReportIds == 1 .. MaxReports
ReportStatuses == {"None", "Pending", "Verified", "Challenged", "Rejected"}
Terminal == {"Verified", "Rejected"}

OracleTransfer ==
  INSTANCE AdminTransfer WITH admin <- oracle_admin, pending_admin <- oracle_pending_admin

NoReport == [status |-> "None"]
NoChallenge == [state |-> "None"]

OracleInit ==
  /\ RegistryInit
  /\ OracleTransfer!TransferInit
  /\ provider_list = {}
  /\ active = [p \in Providers |-> FALSE]
  /\ stake = [p \in Providers |-> 0]
  /\ locked_stake = [p \in Providers |-> 0]
  /\ slash_history = [p \in Providers |-> <<>>]
  /\ provider_challenges = [p \in Providers |-> <<>>]
  /\ signature_threshold = 1
  /\ report_count = 0
  /\ report = [r \in ReportIds |-> NoReport]
  /\ report_lock = [r \in ReportIds |-> 0]
  /\ verifiers = [r \in ReportIds |-> <<>>]
  /\ periods = [id \in ProjectIds |-> <<>>]
  /\ project_reports = [id \in ProjectIds |-> <<>>]
  /\ provider_report_count = [p \in Providers |-> 0]
  /\ challenge = [r \in ReportIds |-> NoChallenge]
  /\ uphold_votes = [r \in ReportIds |-> <<>>]
  /\ reject_votes = [r \in ReportIds |-> <<>>]
  /\ bond_balance = [a \in Challengers |-> 0]
  /\ bond_lock = [a \in Challengers |-> 0]
  /\ registry_sets = 0
  /\ project_registry_nonce = 0

-----------------------------------------------------------------------------
(* Helpers *)

require_oracle_admin(caller) == caller = oracle_admin

IsProvider(p) == p \in provider_list
IsActiveProvider(p) == IsProvider(p) /\ active[p]

active_provider_count(flags) == Cardinality({p \in provider_list : flags[p]})

(* The threshold after the active flags became flags: never above the       *)
(* number of active providers, never below one.                             *)
reconcile_signature_threshold(flags) ==
  LET n == active_provider_count(flags)
      ceiling == IF n > 1 THEN n ELSE 1
  IN IF signature_threshold < ceiling THEN signature_threshold ELSE ceiling

slashable_amount(s) ==
  LET penalty == (s * SLASH_PENALTY_PPM) \div 1000000 IN
  IF penalty = 0 \/ penalty > s THEN s ELSE penalty

supermajority_threshold(n) ==
  LET votes == (2 * n + 2) \div 3 IN IF votes > 1 THEN votes ELSE 1

(* MUTANT of lock_stake_for_report: the lock replaces earlier ones. *)
lock_stake_for_report_Replace(p, r) ==
  /\ report_lock' = [report_lock EXCEPT ![r] = slashable_amount(stake[p])]
  /\ locked_stake' = [locked_stake EXCEPT ![p] = slashable_amount(stake[p])]

lock_stake_for_report(p, r) ==
  /\ report_lock' = [report_lock EXCEPT ![r] = slashable_amount(stake[p])]
  /\ locked_stake' = [locked_stake EXCEPT ![p] = @ + slashable_amount(stake[p])]

release_report_lock(r) ==
  /\ report_lock' = [report_lock EXCEPT ![r] = 0]
  /\ locked_stake' = [locked_stake EXCEPT ![report[r].provider] =
       IF report_lock[r] > @ THEN 0 ELSE @ - report_lock[r]]

(* MUTANT of slash_provider: returns early when there is nothing to take. *)
slash_provider_SkipEmpty(p, r) ==
  LET penalty == slashable_amount(stake[p])
      remaining == stake[p] - penalty
  IN
  /\ stake' = [stake EXCEPT ![p] = remaining]
  /\ active' = [active EXCEPT ![p] = @ /\ (penalty = 0 \/ remaining # 0)]
  /\ signature_threshold' = reconcile_signature_threshold(active')
  /\ slash_history' = [slash_history EXCEPT ![p] = IF penalty = 0 THEN @ ELSE
       Append(@, [report_id |-> r, penalty |-> penalty, remaining_stake |-> remaining,
                  active_after |-> active'[p]])]

slash_provider(p, r) ==
  LET penalty == slashable_amount(stake[p])
      remaining == stake[p] - penalty
  IN
  /\ stake' = [stake EXCEPT ![p] = remaining]
  /\ active' = [active EXCEPT ![p] = @ /\ remaining # 0]
  /\ signature_threshold' = reconcile_signature_threshold(active')
  /\ slash_history' = [slash_history EXCEPT ![p] =
       Append(@, [report_id |-> r, penalty |-> penalty, remaining_stake |-> remaining,
                  active_after |-> active'[p]])]

charge_challenge_bond(a) ==
  /\ bond_balance[a] >= CHALLENGE_BOND
  /\ bond_balance' = [bond_balance EXCEPT ![a] = @ - CHALLENGE_BOND]
  /\ bond_lock' = [bond_lock EXCEPT ![a] = @ + CHALLENGE_BOND]

(* MUTANT of settle_challenge_bond: a forfeited bond stays locked. *)
settle_challenge_bond_Stuck(a, bond, refund) ==
  /\ bond_lock' = [bond_lock EXCEPT ![a] = IF refund THEN @ - bond ELSE @]
  /\ bond_balance' = [bond_balance EXCEPT ![a] = IF refund THEN @ + bond ELSE @]

settle_challenge_bond(a, bond, refund) ==
  LET released == IF bond < bond_lock[a] THEN bond ELSE bond_lock[a] IN
  /\ bond_lock' = [bond_lock EXCEPT ![a] = @ - released]
  /\ bond_balance' = [bond_balance EXCEPT ![a] = IF refund THEN @ + released ELSE @]

Overlap(p, q) == p[1] < q[2] /\ q[1] < p[2]

(* MUTANT of PeriodFree: relies on the retained windows alone. *)
PeriodFree_NoOrder(id, period) ==
  \A i \in 1 .. Len(periods[id]) : ~Overlap(period, periods[id][i])

(* The period overlaps no retained window and starts after the last one.    *)
PeriodFree(id, period) ==
  /\ \A i \in 1 .. Len(periods[id]) : ~Overlap(period, periods[id][i])
  /\ periods[id] # <<>> => period[1] >= periods[id][Len(periods[id])][2]

RecordPeriod(id, period) ==
  LET kept == IF Len(periods[id]) >= MAX_PERIOD_HISTORY THEN Tail(periods[id]) ELSE periods[id]
  IN [periods EXCEPT ![id] = Append(kept, period)]

(* MUTANT of finalize_challenge: a rejection leaves the project approved. *)
finalize_challenge_NoRevoke(r, resolution) ==
  LET c == challenge[r] IN
  /\ c.state = "Open"
  /\ challenge' = [challenge EXCEPT ![r].state = "Resolved", ![r].resolution = resolution]
  /\ report' = [report EXCEPT ![r].status = resolution]
  /\ release_report_lock(r)
  /\ resolution = "Rejected" /\ slash_provider(report[r].provider, r)
  /\ UNCHANGED <<project_registry_nonce, registryVars>>
  /\ settle_challenge_bond(c.challenger, c.bond, TRUE)

(* Settle an open challenge.  Rejection slashes the provider and revokes    *)
(* the project with the nonce this contract keeps for the registry; if the  *)
(* registry refuses, the whole call fails.  (A report exists only once a    *)
(* registry is configured, and no call unsets it.)                          *)
finalize_challenge(r, resolution) ==
  LET c == challenge[r]
      p == report[r].provider
  IN
  /\ c.state = "Open"
  /\ challenge' = [challenge EXCEPT ![r].state = "Resolved", ![r].resolution = resolution]
  /\ report' = [report EXCEPT ![r].status = resolution]
  /\ release_report_lock(r)
  /\ \/ /\ resolution = "Rejected"
        /\ slash_provider(p, r)
        /\ revoke_project(OracleContract, report[r].project_id, project_registry_nonce)
        /\ project_registry_nonce' = project_registry_nonce + 1
     \/ /\ resolution = "Verified"
        /\ UNCHANGED <<stake, active, signature_threshold, slash_history,
                       project_registry_nonce, registryVars>>
  /\ settle_challenge_bond(c.challenger, c.bond, resolution = "Rejected")

-----------------------------------------------------------------------------
(* Contract calls *)

register_provider(caller, p) ==
  /\ require_oracle_admin(caller)
  /\ ~IsProvider(p)
  /\ provider_list' = provider_list \cup {p}
  /\ active' = [active EXCEPT ![p] = TRUE]
  /\ UNCHANGED <<stake, locked_stake, slash_history, provider_challenges, signature_threshold>>
  /\ UNCHANGED <<reportVars, challengeVars, linkVars, oracleAdminVars, registryVars>>

(* MUTANT of remove_provider: the threshold is not clamped. *)
remove_provider_NoClamp(caller, p) ==
  /\ require_oracle_admin(caller)
  /\ IsProvider(p)
  /\ active' = [active EXCEPT ![p] = FALSE]
  /\ UNCHANGED <<provider_list, stake, locked_stake, slash_history, provider_challenges,
                 signature_threshold>>
  /\ UNCHANGED <<reportVars, challengeVars, linkVars, oracleAdminVars, registryVars>>

remove_provider(caller, p) ==
  /\ require_oracle_admin(caller)
  /\ IsProvider(p)
  /\ active' = [active EXCEPT ![p] = FALSE]
  /\ signature_threshold' = reconcile_signature_threshold(active')
  /\ UNCHANGED <<provider_list, stake, locked_stake, slash_history, provider_challenges>>
  /\ UNCHANGED <<reportVars, challengeVars, linkVars, oracleAdminVars, registryVars>>

submit_report(p, project_id, period) ==
  LET r == report_count + 1 IN
  /\ r \in ReportIds
  /\ IsActiveProvider(p)
  /\ period[1] < period[2]
  /\ registry_sets > 0
  /\ is_project_active(project_id)
  /\ PeriodFree(project_id, period)
  /\ report_count' = r
  /\ report' = [report EXCEPT ![r] =
       [status |-> "Pending", provider |-> p, project_id |-> project_id, period |-> period,
        project_metadata_hash |-> project_hash[project_id], submitted_at |-> now]]
  /\ lock_stake_for_report(p, r)
  /\ project_reports' = [project_reports EXCEPT ![project_id] = Append(@, r)]
  /\ periods' = RecordPeriod(project_id, period)
  /\ provider_report_count' = [provider_report_count EXCEPT ![p] = @ + 1]
  /\ UNCHANGED <<verifiers, provider_list, active, stake, slash_history,
                 provider_challenges, signature_threshold>>
  /\ UNCHANGED <<challengeVars, linkVars, oracleAdminVars, registryVars>>

(* The verifiers of r after p endorsed it: p is listed once. *)
AddVerifier(p, r) ==
  IF \E i \in 1 .. Len(verifiers[r]) : verifiers[r][i] = p
  THEN verifiers[r] ELSE Append(verifiers[r], p)

verify_report(p, r) ==
  /\ IsActiveProvider(p)
  /\ report[r].status = "Pending"
  /\ challenge[r].state # "Open"
  /\ p # report[r].provider
  /\ verifiers' = [verifiers EXCEPT ![r] = AddVerifier(p, r)]
  /\ IF Len(verifiers'[r]) >= signature_threshold
     THEN /\ report' = [report EXCEPT ![r].status = "Verified"]
          /\ release_report_lock(r)
     ELSE UNCHANGED <<report, report_lock, locked_stake>>
  /\ UNCHANGED <<report_count, indexVars, provider_list, active, stake, slash_history,
                 provider_challenges, signature_threshold>>
  /\ UNCHANGED <<challengeVars, linkVars, oracleAdminVars, registryVars>>

(* MUTANT of admin_override_report: revises a verdict. *)
admin_override_report_Revise(caller, r, status) ==
  /\ require_oracle_admin(caller)
  /\ status \in Terminal
  /\ report[r].status \in {"Pending", "Verified"}
  /\ report' = [report EXCEPT ![r].status = status]
  /\ UNCHANGED <<report_count, report_lock, verifiers, indexVars>>
  /\ UNCHANGED <<providerVars, challengeVars, linkVars, oracleAdminVars, registryVars>>

admin_override_report(caller, r, status) ==
  /\ require_oracle_admin(caller)
  /\ status \in Terminal
  /\ report[r].status = "Pending"
  /\ report' = [report EXCEPT ![r].status = status]
  /\ UNCHANGED <<report_count, report_lock, verifiers, indexVars>>
  /\ UNCHANGED <<providerVars, challengeVars, linkVars, oracleAdminVars, registryVars>>

challenge_report(a, r) ==
  /\ challenge[r].state = "None"
  /\ report[r].status = "Pending"
  /\ a # report[r].provider
  /\ now - report[r].submitted_at <= CHALLENGE_WINDOW_SECONDS
  /\ charge_challenge_bond(a)
  /\ challenge' = [challenge EXCEPT ![r] =
       [state |-> "Open", challenger |-> a, submitted_at |-> now,
        resolution |-> "None", bond |-> CHALLENGE_BOND]]
  /\ report' = [report EXCEPT ![r].status = "Challenged"]
  /\ provider_challenges' = [provider_challenges EXCEPT ![report[r].provider] = Append(@, r)]
  /\ UNCHANGED <<uphold_votes, reject_votes, report_count, report_lock, verifiers, indexVars>>
  /\ UNCHANGED <<provider_list, active, stake, locked_stake, slash_history, signature_threshold>>
  /\ UNCHANGED <<linkVars, oracleAdminVars, registryVars>>

(* What finalize_challenge never touches. *)
unsettledVars ==
  <<provider_list, provider_challenges, report_count, verifiers, indexVars,
    registry_sets, oracleAdminVars>>

resolve_challenge(caller, r, resolution) ==
  /\ require_oracle_admin(caller)
  /\ resolution \in Terminal
  /\ finalize_challenge(r, resolution)
  /\ UNCHANGED <<uphold_votes, reject_votes, unsettledVars>>

(* MUTANT of MayJudge: a provider may vote on both sides. *)
MayJudge_Again(p, r) ==
  /\ IsActiveProvider(p)
  /\ challenge[r].state = "Open"
  /\ report[r].status = "Challenged"
  /\ p # report[r].provider

(* An active provider, not the submitter, that has not voted on r yet.      *)
MayJudge(p, r) ==
  /\ IsActiveProvider(p)
  /\ challenge[r].state = "Open"
  /\ report[r].status = "Challenged"
  /\ p # report[r].provider
  /\ \A i \in 1 .. Len(uphold_votes[r]) : uphold_votes[r][i] # p
  /\ \A i \in 1 .. Len(reject_votes[r]) : reject_votes[r][i] # p

resolve_challenge_by_verifier(p, r, uphold) ==
  LET votes == Append(IF uphold THEN uphold_votes[r] ELSE reject_votes[r], p) IN
  /\ MayJudge(p, r)
  /\ uphold_votes' = IF uphold THEN [uphold_votes EXCEPT ![r] = votes] ELSE uphold_votes
  /\ reject_votes' = IF uphold THEN reject_votes ELSE [reject_votes EXCEPT ![r] = votes]
  /\ IF Len(votes) >= supermajority_threshold(active_provider_count(active))
     THEN finalize_challenge(r, IF uphold THEN "Verified" ELSE "Rejected")
     ELSE UNCHANGED <<challenge, bond_balance, bond_lock, report, report_lock, locked_stake,
                      stake, active, slash_history, signature_threshold,
                      project_registry_nonce, registryVars>>
  /\ UNCHANGED unsettledVars

(* MUTANT of Stale: never true on the clock the ledger keeps. *)
Stale_Never(r) == now < challenge[r].submitted_at

Stale(r) == now - challenge[r].submitted_at > CHALLENGE_TIMEOUT_SECONDS

expire_stale_challenge(r) ==
  /\ challenge[r].state = "Open"
  /\ Stale(r)
  /\ report[r].status = "Challenged"
  /\ challenge' = [challenge EXCEPT ![r].state = "Resolved"]
  /\ report' = [report EXCEPT ![r].status = "Pending"]
  /\ settle_challenge_bond(challenge[r].challenger, challenge[r].bond, TRUE)
  /\ UNCHANGED <<uphold_votes, reject_votes, report_count, report_lock, verifiers, indexVars>>
  /\ UNCHANGED <<providerVars, linkVars, oracleAdminVars, registryVars>>

set_signature_threshold(caller, threshold) ==
  /\ require_oracle_admin(caller)
  /\ threshold \in 1 .. active_provider_count(active)
  /\ signature_threshold' = threshold
  /\ UNCHANGED <<provider_list, active, stake, locked_stake, slash_history, provider_challenges>>
  /\ UNCHANGED <<reportVars, challengeVars, linkVars, oracleAdminVars, registryVars>>

SetStake(p, value) ==
  /\ stake' = [stake EXCEPT ![p] = value]
  /\ UNCHANGED <<provider_list, active, locked_stake, slash_history, provider_challenges,
                 signature_threshold>>
  /\ UNCHANGED <<reportVars, challengeVars, linkVars, oracleAdminVars, registryVars>>

add_stake(p, amount) ==
  /\ amount > 0
  /\ IsProvider(p)
  /\ stake[p] + amount <= MaxStake
  /\ SetStake(p, stake[p] + amount)

(* MUTANT of withdraw_stake: locked stake is not kept back. *)
withdraw_stake_IgnoreLock(p, amount) ==
  /\ amount > 0
  /\ IsProvider(p)
  /\ stake[p] >= amount
  /\ SetStake(p, stake[p] - amount)

withdraw_stake(p, amount) ==
  /\ amount > 0
  /\ IsProvider(p)
  /\ stake[p] >= amount
  /\ stake[p] - amount >= locked_stake[p]
  /\ SetStake(p, stake[p] - amount)

SetBondBalance(a, value) ==
  /\ bond_balance' = [bond_balance EXCEPT ![a] = value]
  /\ UNCHANGED <<challenge, uphold_votes, reject_votes, bond_lock>>
  /\ UNCHANGED <<providerVars, reportVars, linkVars, oracleAdminVars, registryVars>>

deposit_challenge_bond(a, amount) ==
  /\ amount > 0
  /\ bond_balance[a] + amount <= MaxBondBalance
  /\ SetBondBalance(a, bond_balance[a] + amount)

withdraw_challenge_bond(a, amount) ==
  /\ amount > 0
  /\ bond_balance[a] >= amount
  /\ SetBondBalance(a, bond_balance[a] - amount)

(* The registry of the deployment, configured once or again; the code also  *)
(* accepts any other registry, of which the model has none.                 *)
set_project_registry(caller) ==
  /\ require_oracle_admin(caller)
  /\ registry_sets < MaxRegistrySets
  /\ registry_sets' = registry_sets + 1
  /\ project_registry_nonce' = 0
  /\ UNCHANGED <<providerVars, reportVars, challengeVars, oracleAdminVars, registryVars>>

rotate_oracle_admin ==
  /\ OracleTransfer!TransferCall
  /\ UNCHANGED <<providerVars, reportVars, challengeVars, linkVars, registryVars>>

ProviderCall(p) ==
  \/ \E id \in ProjectIds, period \in Periods : submit_report(p, id, period)
  \/ \E r \in ReportIds :
       \/ verify_report(p, r)
       \/ \E uphold \in BOOLEAN : resolve_challenge_by_verifier(p, r, uphold)
  \/ \E amount \in Stakes : add_stake(p, amount) \/ withdraw_stake(p, amount)

AdminCall(caller) ==
  \/ \E p \in Providers : register_provider(caller, p) \/ remove_provider(caller, p)
  \/ \E r \in ReportIds, status \in ReportStatuses :
       admin_override_report(caller, r, status) \/ resolve_challenge(caller, r, status)
  \/ \E threshold \in 0 .. Cardinality(Providers) : set_signature_threshold(caller, threshold)
  \/ set_project_registry(caller)

OpenCall(a) ==
  \/ \E r \in ReportIds : challenge_report(a, r) \/ expire_stale_challenge(r)
  \/ \E amount \in BondDeposits :
       deposit_challenge_bond(a, amount) \/ withdraw_challenge_bond(a, amount)

OracleCall ==
  \/ \E p \in Providers : ProviderCall(p)
  \/ \E caller \in Addresses \ {OracleContract} : AdminCall(caller)
  \/ \E a \in Challengers : OpenCall(a)
  \/ rotate_oracle_admin

OracleNext ==
  \/ OracleCall /\ UNCHANGED now
  \/ (RegistryCall \/ RotateRegistryAdmin) /\ UNCHANGED <<now, oracleVars>>
  \/ Tick /\ UNCHANGED <<registryVars, oracleVars>>

allVars == <<now, registryVars, oracleVars>>

OracleSpec == OracleInit /\ [][OracleNext]_allVars

-----------------------------------------------------------------------------
(* Queries: what the backend and the other contracts read *)

list_providers == provider_list
get_report(r) == report[r]
get_project_reports(id) == project_reports[id]
get_challenge(r) == challenge[r]
get_report_verifiers(r) == verifiers[r]
get_locked_stake(p) == locked_stake[p]
get_slash_history(p) == slash_history[p]
get_signature_threshold == signature_threshold
get_challenge_bond_balance(a) == bond_balance[a]
get_locked_challenge_bond(a) == bond_lock[a]
get_challenge_votes(r) == [uphold |-> uphold_votes[r], reject |-> reject_votes[r]]

(* The challenges against p's reports, in the order they were raised. *)
get_challenge_history(p) ==
  [i \in 1 .. Len(provider_challenges[p]) |-> challenge[provider_challenges[p][i]]]

get_provider_stats(p) ==
  LET history == slash_history[p] IN
  [stake |-> stake[p], active |-> active[p],
   reports_submitted |-> provider_report_count[p],
   challenges_faced |-> Len(provider_challenges[p]),
   slashes |-> Len(history),
   total_penalty |-> Total(1 .. Len(history), [i \in 1 .. Len(history) |-> history[i].penalty])]

-----------------------------------------------------------------------------
(* Properties *)

Entries(list) == {list[i] : i \in 1 .. Len(list)}
Distinct(list) == Cardinality(Entries(list)) = Len(list)
ReportsOf(p) == {r \in 1 .. report_count : report[r].provider = p}

(* What a provider's track record tells its users, kept in three entries    *)
(* beside the reports and challenges, is true of them: the reports counted  *)
(* are those it submitted, each listed once under its project; the          *)
(* challenges it faced are those raised against these reports; and it was   *)
(* slashed once for each that ended in rejection, even with no stake left.  *)
ProviderRecordTrue ==
  /\ \A p \in list_providers :
       LET stats == get_provider_stats(p)
           faced == {r \in ReportsOf(p) : get_challenge(r).state # "None"}
           lost == {r \in faced : get_challenge(r).resolution = "Rejected"}
       IN /\ stats.reports_submitted = Cardinality(ReportsOf(p))
          /\ stats.challenges_faced = Cardinality(faced)
          /\ Entries(get_challenge_history(p)) = {get_challenge(r) : r \in faced}
          /\ stats.slashes = Cardinality(lost)
  /\ \A id \in ProjectIds :
       /\ Distinct(get_project_reports(id))
       /\ Entries(get_project_reports(id)) =
            {r \in 1 .. report_count : get_report(r).project_id = id}

(* LockedStake, which withdraw_stake compares with, is the sum of the       *)
(* amounts reserved for the provider's reports, in whatever order reports   *)
(* are submitted, verified, overridden, challenged and settled.             *)
StakeLocksAddUp ==
  \A p \in Providers :
    get_locked_stake(p) =
      Total(ReportIds, [r \in ReportIds |-> IF r \in ReportsOf(p) THEN report_lock[r] ELSE 0])

(* A report is Challenged exactly while its challenge is open, two entries  *)
(* that five calls write; and ChallengeBondLock is the sum of the bonds of  *)
(* the challenger's open challenges, each paid from a deposit: a settled    *)
(* bond is neither left locked nor released twice.                          *)
ChallengeBondsAddUp ==
  /\ \A r \in ReportIds :
       get_report(r).status = "Challenged" <=> get_challenge(r).state = "Open"
  /\ \A a \in Challengers :
       /\ get_challenge_bond_balance(a) >= 0
       /\ get_locked_challenge_bond(a) =
            Total(ReportIds, [r \in ReportIds |->
              IF get_challenge(r).state = "Open" /\ get_challenge(r).challenger = a
              THEN get_challenge(r).bond ELSE 0])

(* Endorsements and votes come from distinct registered providers, never    *)
(* from the report's submitter, and nobody votes on both sides.             *)
JudgesIndependent ==
  \A r \in 1 .. report_count :
    LET votes == get_challenge_votes(r)
        voters == Entries(votes.uphold) \cup Entries(votes.reject)
    IN
    /\ Distinct(get_report_verifiers(r))
    /\ Cardinality(voters) = Len(votes.uphold) + Len(votes.reject)
    /\ Entries(get_report_verifiers(r)) \cup voters \subseteq provider_list \ {report[r].provider}

(* The threshold never exceeds the number of active providers, however they *)
(* are removed or slashed out of the set.                                   *)
ThresholdWithinActive ==
  \/ get_signature_threshold = 1
  \/ get_signature_threshold <= active_provider_count(active)

(* A challenge resolved as Rejected had its whole effect: one slash of the  *)
(* submitter, never a second for the same report, and in the registry the   *)
(* project is no longer approved.                                           *)
RejectionComplete ==
  \A r \in 1 .. report_count :
    LET history == get_slash_history(get_report(r).provider)
        slashes == {i \in 1 .. Len(history) : history[i].report_id = r}
        rejected == challenge[r].state = "Resolved" /\ challenge[r].resolution = "Rejected"
    IN /\ Cardinality(slashes) = IF rejected THEN 1 ELSE 0
       /\ rejected => /\ report[r].status = "Rejected"
                      /\ ~is_project_active(report[r].project_id)

(* No two reports of a project cover overlapping periods, so none of its    *)
(* growth is counted twice, even after old windows left the history.        *)
PeriodsDisjoint ==
  \A r, q \in 1 .. report_count :
    r # q /\ report[r].project_id = report[q].project_id =>
      ~Overlap(report[r].period, report[q].period)

(* Seen from outside, a report's status moves as ReportLifecycle says: this *)
(* is what the coupon engine, which checks the status in the first batch of *)
(* a distribution only, relies on.                                          *)
Lifecycle ==
  INSTANCE ReportLifecycle
    WITH Reports <- ReportIds, report_status <- [r \in ReportIds |-> report[r].status]
ReportsFollowLifecycle == Lifecycle!LifecycleSpec

(* Outside a slash, a provider's stake never drops below what is reserved   *)
(* for its unresolved reports: it cannot be withdrawn ahead of a challenge. *)
WithdrawalsKeepReserve ==
  [][\A p \in Providers :
       stake'[p] < stake[p] /\ slash_history'[p] = slash_history[p] =>
         stake'[p] >= Total(ReportIds, [r \in ReportIds |->
           IF r \in ReportsOf(p) /\ report[r].status \notin Terminal
           THEN report_lock[r] ELSE 0])]_allVars

(* Time passes and, once a challenge is stale, somebody expires it: that    *)
(* call needs no permission.                                                *)
OracleFairness ==
  /\ WF_allVars(Tick /\ UNCHANGED <<registryVars, oracleVars>>)
  /\ \A r \in ReportIds : WF_allVars(expire_stale_challenge(r) /\ UNCHANGED now)

FairOracleSpec == OracleSpec /\ OracleFairness

(* No report stays Challenged for ever, though neither the admin nor the    *)
(* providers ever act; a challenge so late that the model's clock ends      *)
(* before its timeout is excepted.                                          *)
ChallengesEnd ==
  \A r \in ReportIds :
    (challenge[r].state = "Open" /\ challenge[r].submitted_at + CHALLENGE_TIMEOUT_SECONDS < MaxTime)
      ~> report[r].status # "Challenged"

(* release_report_lock is described as releasing "a report's reserved stake *)
(* once it reaches a terminal status (Verified or Rejected)".               *)
ResolvedReportsUnlocked ==
  \A r \in 1 .. report_count : report[r].status \in Terminal => report_lock[r] = 0
=============================================================================
