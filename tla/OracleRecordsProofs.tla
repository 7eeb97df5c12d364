------------------------ MODULE OracleRecordsProofs ------------------------
(* Who may judge a report, and what the oracle consumer records of           *)
(* providers and of rejected projects, for any number of them.               *)
EXTENDS OracleConsumerProofs

-----------------------------------------------------------------------------
(* Lists *)

(* What Append does to a list, seen as the set of its entries.              *)
LEMMA EntryAppended ==
  ASSUME NEW S, NEW list \in Seq(S), NEW e \in S
  PROVE  /\ Append(list, e) \in Seq(S)
         /\ Len(list) \in Nat /\ Len(Append(list, e)) = Len(list) + 1
         /\ Entries(Append(list, e)) = Entries(list) \cup {e}
<1>1. /\ Append(list, e) \in Seq(S) /\ Len(list) \in Nat /\ Len(Append(list, e)) = Len(list) + 1
      /\ \A i \in 1 .. Len(list) : Append(list, e)[i] = list[i]
      /\ Append(list, e)[Len(list) + 1] = e
  OBVIOUS
<1>2. Entries(Append(list, e)) = Entries(list) \cup {e}
  <2> DEFINE n == Len(list)
             more == Append(list, e)
  <2>1. \A i : i \in 1 .. n + 1 <=> i \in 1 .. n \/ i = n + 1
    BY <1>1
  <2>2. {more[i] : i \in 1 .. n + 1} = {list[i] : i \in 1 .. n} \cup {e}
    <3> HIDE DEF n, more
    <3>1. (\A i \in 1 .. n : more[i] = list[i]) /\ more[n + 1] = e
      BY <1>1 DEF n, more
    <3> QED
      BY <2>1, <3>1
  <2> QED
    BY <1>1, <2>2 DEF Entries
<1> QED
  BY <1>1, <1>2

(* The same for a list of ids.                                              *)
LEMMA IdAppended ==
  ASSUME NEW list \in Seq(Nat), NEW e \in Nat
  PROVE  /\ Append(list, e) \in Seq(Nat)
         /\ Len(list) \in Nat /\ Len(Append(list, e)) = Len(list) + 1
         /\ Entries(Append(list, e)) = Entries(list) \cup {e}
<1> DEFINE S == Nat
<1>1. e \in S /\ list \in Seq(S)
  OBVIOUS
<1> HIDE DEF S
<1>2. /\ Append(list, e) \in Seq(S) /\ Len(list) \in Nat /\ Len(Append(list, e)) = Len(list) + 1
      /\ Entries(Append(list, e)) = Entries(list) \cup {e}
  BY ONLY <1>1, EntryAppended
<1> QED
  BY <1>2 DEF S

-----------------------------------------------------------------------------
(* Endorsements and votes *)

(* The voters on either side of r's challenge. *)
Voters(r) == Entries(uphold_votes[r]) \cup Entries(reject_votes[r])

(* Lists of distinct judges, taken from who, and none on both sides. *)
JudgesCounted(verified, upheld, rejected, who) ==
  LET voters == Entries(upheld) \cup Entries(rejected) IN
  /\ verified \in Seq(Providers) /\ upheld \in Seq(Providers) /\ rejected \in Seq(Providers)
  /\ IsFiniteSet(Entries(verified)) /\ Distinct(verified)
  /\ IsFiniteSet(voters) /\ Cardinality(voters) = Len(upheld) + Len(rejected)
  /\ Entries(verified) \cup voters \subseteq who

(* Who may judge r: nobody before it is submitted. *)
Eligible(r) == IF r \in 1 .. report_count THEN provider_list \ {report[r].provider} ELSE {}

VotesInv ==
  /\ DOMAIN verifiers = ReportIds /\ DOMAIN uphold_votes = ReportIds /\ DOMAIN reject_votes = ReportIds
  /\ \A r \in ReportIds :
       JudgesCounted(verifiers[r], uphold_votes[r], reject_votes[r], Eligible(r))

(* A provider judges a report it did not submit. *)
Endorsed(p, r) ==
  /\ p \in provider_list \ {report[r].provider}
  /\ verifiers' = [verifiers EXCEPT ![r] = AddVerifier(p, r)]
  /\ UNCHANGED <<uphold_votes, reject_votes>>

Voted(p, r) ==
  /\ p \in (provider_list \ {report[r].provider}) \ Voters(r)
  /\ \/ /\ uphold_votes' = [uphold_votes EXCEPT ![r] = Append(uphold_votes[r], p)]
        /\ UNCHANGED reject_votes
     \/ /\ reject_votes' = [reject_votes EXCEPT ![r] = Append(reject_votes[r], p)]
        /\ UNCHANGED uphold_votes
  /\ UNCHANGED verifiers

(* What a step does to endorsements and votes.                              *)
LEMMA VoteKinds ==
  ASSUME IInv, [OracleNext]_allVars
  PROVE  \/ UNCHANGED <<verifiers, uphold_votes, reject_votes>>
         \/ /\ report_count' = report_count
            /\ \E p \in Providers, r \in 1 .. report_count : Endorsed(p, r) \/ Voted(p, r)
<1> DEFINE Same == UNCHANGED <<verifiers, uphold_votes, reject_votes>>
<1>1. CASE UNCHANGED oracleVars
  BY <1>1 DEF oracleVars, reportVars, challengeVars
<1>2. ASSUME NEW p \in Providers, ProviderCall(p)
      PROVE  \/ Same
             \/ /\ report_count' = report_count
                /\ \E r \in 1 .. report_count : Endorsed(p, r) \/ Voted(p, r)
  <2>1. ASSUME NEW r \in ReportIds, verify_report(p, r)
        PROVE  r \in 1 .. report_count /\ Endorsed(p, r) /\ report_count' = report_count
    <3>1. r \in 1 .. report_count
      BY <2>1, SubmittedReport DEF verify_report
    <3> QED
      BY <2>1, <3>1, Zenon DEF verify_report, Endorsed, IsActiveProvider, IsProvider, challengeVars
  <2>2. ASSUME NEW r \in ReportIds, NEW uphold \in BOOLEAN,
               resolve_challenge_by_verifier(p, r, uphold)
        PROVE  r \in 1 .. report_count /\ Voted(p, r) /\ report_count' = report_count
    <3>1. MayJudge(p, r) /\ UNCHANGED <<verifiers, report_count>>
      BY <2>2, Zenon DEF resolve_challenge_by_verifier, unsettledVars
    <3>2. r \in 1 .. report_count
      BY <3>1, SubmittedReport DEF MayJudge
    <3>3. p \in (provider_list \ {report[r].provider}) \ Voters(r)
      BY <3>1 DEF MayJudge, IsActiveProvider, IsProvider, Voters, Entries
    <3>4. \/ /\ uphold_votes' = [uphold_votes EXCEPT ![r] = Append(uphold_votes[r], p)]
             /\ UNCHANGED reject_votes
          \/ /\ reject_votes' = [reject_votes EXCEPT ![r] = Append(reject_votes[r], p)]
             /\ UNCHANGED uphold_votes
      <4>1. CASE uphold
        BY <2>2, <4>1, Zenon DEF resolve_challenge_by_verifier
      <4>2. CASE ~uphold
        BY <2>2, <4>2, Zenon DEF resolve_challenge_by_verifier
      <4> QED
        BY <4>1, <4>2
    <3> QED
      BY <3>1, <3>2, <3>3, <3>4 DEF Voted
  <2>3. CASE \E id \in ProjectIds, period \in Periods : submit_report(p, id, period)
    BY <2>3 DEF submit_report, challengeVars
  <2>4. CASE \E amount \in Stakes : add_stake(p, amount) \/ withdraw_stake(p, amount)
    BY <2>4 DEF add_stake, withdraw_stake, SetStake, reportVars, challengeVars
  <2> QED
    BY <1>2, <2>1, <2>2, <2>3, <2>4, Zenon DEF ProviderCall
<1>3. ASSUME NEW caller, AdminCall(caller)
      PROVE  Same
  <2>1. CASE \E p \in Providers : register_provider(caller, p) \/ remove_provider(caller, p)
    BY <2>1 DEF register_provider, remove_provider, reportVars, challengeVars
  <2>2. CASE \E r \in ReportIds, status \in ReportStatuses : admin_override_report(caller, r, status)
    BY <2>2, Zenon DEF admin_override_report, challengeVars
  <2>3. CASE \E r \in ReportIds, status \in ReportStatuses : resolve_challenge(caller, r, status)
    BY <2>3, Zenon DEF resolve_challenge, unsettledVars
  <2>4. CASE \E threshold \in 0 .. Cardinality(Providers) : set_signature_threshold(caller, threshold)
    BY <2>4 DEF set_signature_threshold, reportVars, challengeVars
  <2>5. CASE set_project_registry(caller)
    BY <2>5 DEF set_project_registry, reportVars, challengeVars
  <2> QED
    BY <1>3, <2>1, <2>2, <2>3, <2>4, <2>5, Zenon DEF AdminCall
<1>4. CASE \E a \in Challengers : OpenCall(a)
  BY <1>4, Zenon DEF OpenCall, challenge_report, expire_stale_challenge, deposit_challenge_bond,
     withdraw_challenge_bond, SetBondBalance, reportVars
<1>5. CASE rotate_oracle_admin
  BY <1>5 DEF rotate_oracle_admin, reportVars, challengeVars
<1>6. CASE UNCHANGED allVars
  BY <1>1, <1>6 DEF allVars
<1> QED
  BY <1>1, <1>2, <1>3, <1>4, <1>5, <1>6, Zenon DEF OracleNext, OracleCall

(* A report keeps its submitter; ids are handed out one at a time.          *)
LEMMA SubmittersStay ==
  ASSUME IInv, StakeInv, [OracleNext]_allVars
  PROVE  /\ report_count' \in {report_count, report_count + 1} /\ report_count \in Nat
         /\ \A r \in 1 .. report_count : report'[r].provider = report[r].provider
         /\ provider_list \subseteq provider_list'
<1>1. provider_list \subseteq provider_list'
  BY ProviderKinds DEF Registered, Reconciled, ThresholdSet
<1>2. report_count \in Nat /\ DOMAIN report = ReportIds /\ \A r \in 1 .. report_count : r \in ReportIds
  BY SubmittedReport DEF IInv, ReportsTypeOK
<1>3. ASSUME NEW p \in Providers, NEW id \in ProjectIds, NEW period \in Periods,
             submit_report(p, id, period)
      PROVE  /\ report_count' = report_count + 1
             /\ \A r \in 1 .. report_count : report'[r] = report[r]
  <2> DEFINE new == [status |-> "Pending", provider |-> p, project_id |-> id, period |-> period,
                     project_metadata_hash |-> project_hash[id], submitted_at |-> now]
  <2>1. report_count' = report_count + 1 /\ report' = [report EXCEPT ![report_count + 1] = new]
    BY <1>3 DEF submit_report
  <2> HIDE DEF new
  <2> QED
    BY <1>2, <2>1
<1>4. CASE \A p \in Providers, id \in ProjectIds, period \in Periods : ~submit_report(p, id, period)
  BY <1>1, <1>2, <1>4, StakeKinds, ZenonT(30) DEF SameProviders
<1> QED
  BY <1>1, <1>2, <1>3, <1>4, Zenon

(* A judge more, not yet on the list.                                       *)
LEMMA JudgeAdded ==
  ASSUME NEW v, NEW u, NEW j, NEW who, JudgesCounted(v, u, j, who), NEW p \in Providers, p \in who
  PROVE  /\ p \notin Entries(v) => JudgesCounted(Append(v, p), u, j, who)
         /\ p \notin Entries(u) \cup Entries(j) =>
              JudgesCounted(v, Append(u, p), j, who) /\ JudgesCounted(v, u, Append(j, p), who)
<1> USE DEF JudgesCounted
<1>1. /\ Append(v, p) \in Seq(Providers) /\ Append(u, p) \in Seq(Providers) /\ Append(j, p) \in Seq(Providers)
      /\ Len(v) \in Nat /\ Len(u) \in Nat /\ Len(j) \in Nat
      /\ Len(Append(v, p)) = Len(v) + 1 /\ Len(Append(u, p)) = Len(u) + 1
      /\ Len(Append(j, p)) = Len(j) + 1
      /\ Entries(Append(v, p)) = Entries(v) \cup {p} /\ Entries(Append(u, p)) = Entries(u) \cup {p}
      /\ Entries(Append(j, p)) = Entries(j) \cup {p}
  BY EntryAppended
<1>2. ASSUME p \notin Entries(v)
      PROVE  JudgesCounted(Append(v, p), u, j, who)
  <2>1. IsFiniteSet(Entries(v) \cup {p}) /\ Cardinality(Entries(v) \cup {p}) = Cardinality(Entries(v)) + 1
    BY <1>2, FS_AddElement
  <2> QED
    BY <1>1, <2>1 DEF Distinct
<1>3. ASSUME p \notin Entries(u) \cup Entries(j)
      PROVE  JudgesCounted(v, Append(u, p), j, who) /\ JudgesCounted(v, u, Append(j, p), who)
  <2> DEFINE voters == Entries(u) \cup Entries(j)
  <2>1. IsFiniteSet(voters \cup {p}) /\ Cardinality(voters \cup {p}) = Cardinality(voters) + 1
    BY <1>3, FS_AddElement, Zenon
  <2>2. /\ (Entries(u) \cup {p}) \cup Entries(j) = voters \cup {p}
        /\ Entries(u) \cup (Entries(j) \cup {p}) = voters \cup {p}
    OBVIOUS
  <2>3. /\ voters \cup {p} \subseteq who
        /\ Cardinality(voters) = Len(u) + Len(j)
    OBVIOUS
  <2> HIDE DEF voters
  <2>4. /\ Cardinality(voters \cup {p}) = Len(Append(u, p)) + Len(j)
        /\ Cardinality(voters \cup {p}) = Len(u) + Len(Append(j, p))
    BY <1>1, <2>1, <2>3
  <2>5. JudgesCounted(v, Append(u, p), j, who)
    BY <1>1, <2>1, <2>2, <2>3, <2>4, Zenon
  <2>6. JudgesCounted(v, u, Append(j, p), who)
    BY <1>1, <2>1, <2>2, <2>3, <2>4, Zenon
  <2> QED
    BY <2>5, <2>6
<1> QED
  BY <1>2, <1>3

LEMMA VotesInvStep == IInv /\ StakeInv /\ VotesInv /\ [OracleNext]_allVars => VotesInv'
<1> SUFFICES ASSUME IInv, StakeInv, VotesInv, [OracleNext]_allVars
             PROVE  VotesInv'
  OBVIOUS
<1>1. \A r \in ReportIds : Eligible(r) \subseteq Eligible(r)'
  BY SubmittersStay DEF Eligible
<1>2. ASSUME NEW v, NEW u, NEW j, NEW r \in ReportIds, JudgesCounted(v, u, j, Eligible(r))
      PROVE  JudgesCounted(v, u, j, Eligible(r)')
  BY <1>1, <1>2 DEF JudgesCounted
<1>3. CASE UNCHANGED <<verifiers, uphold_votes, reject_votes>>
  BY <1>2, <1>3 DEF VotesInv
<1>4. ASSUME NEW p \in Providers, NEW r \in 1 .. report_count, report_count' = report_count,
             Endorsed(p, r) \/ Voted(p, r)
      PROVE  VotesInv'
  <2> DEFINE v == verifiers[r]
             u == uphold_votes[r]
             j == reject_votes[r]
             who == Eligible(r)
  <2>1. r \in ReportIds
    BY SubmittedReport
  <2>2. JudgesCounted(v, u, j, who)
    BY <2>1 DEF VotesInv
  <2>3. p \in who
    BY <1>4 DEF Endorsed, Voted, Eligible
  <2> HIDE DEF who
  <2>4. /\ p \notin Entries(v) => JudgesCounted(Append(v, p), u, j, who)
        /\ p \notin Entries(u) \cup Entries(j) =>
             JudgesCounted(v, Append(u, p), j, who) /\ JudgesCounted(v, u, Append(j, p), who)
    BY <2>2, <2>3, JudgeAdded, Zenon
  <2>5. /\ DOMAIN verifiers' = ReportIds /\ DOMAIN uphold_votes' = ReportIds
        /\ DOMAIN reject_votes' = ReportIds
        /\ \A q \in ReportIds \ {r} : /\ verifiers'[q] = verifiers[q]
                                      /\ uphold_votes'[q] = uphold_votes[q]
                                      /\ reject_votes'[q] = reject_votes[q]
    BY <1>4, <2>1 DEF VotesInv, Endorsed, Voted
  <2>6. JudgesCounted(verifiers'[r], uphold_votes'[r], reject_votes'[r], who)
    <3>1. CASE Endorsed(p, r)
      <4>1. verifiers'[r] = AddVerifier(p, r) /\ uphold_votes'[r] = u /\ reject_votes'[r] = j
        BY <2>1, <3>1, Zenon DEF Endorsed, VotesInv
      <4>2. CASE p \in Entries(v)
        BY <2>2, <4>1, <4>2, Zenon DEF AddVerifier, Entries
      <4>3. CASE p \notin Entries(v)
        BY <2>4, <4>1, <4>3 DEF AddVerifier, Entries
      <4> QED
        BY <4>2, <4>3
    <3>2. CASE Voted(p, r)
      <4>1. p \notin Entries(u) \cup Entries(j)
        BY <3>2 DEF Voted, Voters
      <4>2. \/ verifiers'[r] = v /\ uphold_votes'[r] = Append(u, p) /\ reject_votes'[r] = j
            \/ verifiers'[r] = v /\ uphold_votes'[r] = u /\ reject_votes'[r] = Append(j, p)
        BY <2>1, <3>2 DEF Voted, VotesInv
      <4> QED
        BY <2>4, <4>1, <4>2, Zenon
    <3> QED
      BY <1>4, <3>1, <3>2, Zenon
  <2> QED
    BY <1>2, <2>1, <2>5, <2>6, Zenon DEF VotesInv, who
<1> QED
  BY <1>3, <1>4, VoteKinds

LEMMA VotesInvHolds == OracleSpec => []VotesInv
<1>1. OracleInit => VotesInv
  <2> SUFFICES ASSUME OracleInit
               PROVE  VotesInv
    OBVIOUS
  <2> DEFINE none == <<>>
  <2>1. /\ verifiers = [r \in ReportIds |-> none] /\ uphold_votes = [r \in ReportIds |-> none]
        /\ reject_votes = [r \in ReportIds |-> none]
    BY DEF OracleInit
  <2>2. none \in Seq(Providers) /\ Len(none) = 0 /\ Entries(none) = {}
    BY DEF Entries
  <2>3. IsFiniteSet({}) /\ Cardinality({}) = 0
    BY FS_EmptySet
  <2> HIDE DEF none
  <2>4. \A who : JudgesCounted(none, none, none, who)
    BY <2>2, <2>3 DEF JudgesCounted, Distinct
  <2> QED
    BY <2>1, <2>4 DEF VotesInv
<1> QED
  BY <1>1, IInvHolds, StakeInvHolds, VotesInvStep, PTL DEF OracleSpec

(* Endorsements (verify_report) and votes (resolve_challenge_by_verifier)   *)
(* come from distinct registered providers, never from the submitter, and   *)
(* nobody votes on both sides, whoever is registered or removed meanwhile.  *)
THEOREM JudgesAreIndependent == OracleSpec => []JudgesIndependent
<1>1. IInv /\ VotesInv => JudgesIndependent
  <2> SUFFICES ASSUME IInv, VotesInv, NEW r \in 1 .. report_count
               PROVE  /\ Distinct(verifiers[r])
                      /\ Cardinality(Voters(r)) = Len(uphold_votes[r]) + Len(reject_votes[r])
                      /\ Entries(verifiers[r]) \cup Voters(r) \subseteq provider_list \ {report[r].provider}
    BY Zenon DEF JudgesIndependent, get_challenge_votes, get_report_verifiers, Voters
  <2>1. JudgesCounted(verifiers[r], uphold_votes[r], reject_votes[r], Eligible(r))
    BY SubmittedReport DEF VotesInv
  <2> QED
    BY <2>1 DEF JudgesCounted, Eligible, Voters
<1> QED
  BY <1>1, IInvHolds, VotesInvHolds, PTL

-----------------------------------------------------------------------------
(* Rejected projects *)

ProjectsInv ==
  /\ project_count \in Nat
  /\ DOMAIN project_status = ProjectIds
  /\ \A id \in ProjectIds : id > project_count => project_status[id] = "None"

(* A rejected project stays rejected: its id is not registered again, and   *)
(* the calls that change a status start from another one.                   *)
LEMMA RejectedForGood ==
  ASSUME IInv, ProjectsInv, [OracleNext]_allVars
  PROVE  /\ ProjectsInv'
         /\ \A id \in ProjectIds : project_status[id] = "Rejected" => project_status'[id] = "Rejected"
<1> USE DEF ProjectsInv
<1> DEFINE Kept == /\ ProjectsInv'
                   /\ \A id \in ProjectIds :
                        project_status[id] = "Rejected" => project_status'[id] = "Rejected"
<1>1. CASE UNCHANGED <<project_count, project_status>>
  BY <1>1
<1>2. ASSUME NEW id \in ProjectIds, NEW from, NEW to, from \in {"Pending", "Approved"},
             SetStatus(id, from, to)
      PROVE  Kept
  BY <1>2 DEF SetStatus
<1>3. ASSUME NEW caller, NEW hash, register_project(caller, hash)
      PROVE  Kept
  <2>1. /\ project_count + 1 \in ProjectIds /\ project_count' = project_count + 1
        /\ project_status' = [project_status EXCEPT ![project_count + 1] = "Pending"]
    BY <1>3 DEF register_project
  <2>2. project_status[project_count + 1] = "None" /\ \A id \in ProjectIds : id \in Nat
    BY <2>1, RegistryAssumption DEF ProjectIds
  <2> QED
    BY <2>1, <2>2
<1>4. CASE RegistryCall
  <2>1. ASSUME NEW caller, NEW id \in ProjectIds,
               \/ approve_project(caller, id) \/ reject_project(caller, id)
               \/ suspend_project(caller, id) \/ revoke_project(caller, id, 0)
        PROVE  Kept
    BY <1>2, <2>1 DEF approve_project, reject_project, suspend_project, revoke_project
  <2>2. ASSUME NEW caller, NEW oracle, set_oracle_consumer(caller, oracle)
        PROVE  Kept
    BY <1>1, <2>2, Zenon DEF set_oracle_consumer, projectVars
  <2> QED
    BY <1>3, <1>4, <2>1, <2>2, Zenon DEF RegistryCall
<1>5. CASE UNCHANGED registryVars
  BY <1>1, <1>5, Zenon DEF registryVars, projectVars
<1>6. ASSUME NEW r \in ReportIds, NEW to, finalize_challenge(r, to)
      PROVE  Kept
  <2>1. report[r].status = "Challenged"
    BY <1>6, Zenon DEF finalize_challenge, IInv, ChallengedWhileOpen
  <2>2. report[r].project_id \in ProjectIds
    BY <2>1, SubmittedReport, SMTT(30) DEF IInv, ReportsTypeOK
  <2>3. \/ UNCHANGED registryVars
        \/ revoke_project(OracleContract, report[r].project_id, project_registry_nonce)
    BY <1>6, Zenon DEF finalize_challenge
  <2>4. CASE revoke_project(OracleContract, report[r].project_id, project_registry_nonce)
    <3>1. SetStatus(report[r].project_id, "Approved", "Rejected")
      BY <2>4 DEF revoke_project
    <3> QED
      BY <1>2, <2>2, <3>1
  <2> QED
    BY <1>5, <2>3, <2>4, Zenon
<1>7. ASSUME NEW p \in Providers, ProviderCall(p)
      PROVE  Kept
  <2>1. CASE \E id \in ProjectIds, period \in Periods : submit_report(p, id, period)
    BY <1>5, <2>1 DEF submit_report
  <2>2. CASE \E r \in ReportIds : verify_report(p, r)
    BY <1>5, <2>2, Zenon DEF verify_report
  <2>3. CASE \E r \in ReportIds, uphold \in BOOLEAN : resolve_challenge_by_verifier(p, r, uphold)
    BY <1>5, <1>6, <2>3, Zenon DEF resolve_challenge_by_verifier
  <2>4. CASE \E amount \in Stakes : add_stake(p, amount) \/ withdraw_stake(p, amount)
    BY <1>5, <2>4 DEF add_stake, withdraw_stake, SetStake
  <2> QED
    BY <1>7, <2>1, <2>2, <2>3, <2>4, Zenon DEF ProviderCall
<1>8. ASSUME NEW caller, AdminCall(caller)
      PROVE  Kept
  <2>1. CASE \E p \in Providers : register_provider(caller, p) \/ remove_provider(caller, p)
    BY <1>5, <2>1 DEF register_provider, remove_provider
  <2>2. CASE \E r \in ReportIds, status \in ReportStatuses : admin_override_report(caller, r, status)
    BY <1>5, <2>2, Zenon DEF admin_override_report
  <2>3. CASE \E r \in ReportIds, status \in ReportStatuses : resolve_challenge(caller, r, status)
    BY <1>6, <2>3, Zenon DEF resolve_challenge
  <2>4. CASE \E threshold \in 0 .. Cardinality(Providers) : set_signature_threshold(caller, threshold)
    BY <1>5, <2>4 DEF set_signature_threshold
  <2>5. CASE set_project_registry(caller)
    BY <1>5, <2>5 DEF set_project_registry
  <2> QED
    BY <1>8, <2>1, <2>2, <2>3, <2>4, <2>5, Zenon DEF AdminCall
<1>9. CASE \E a \in Challengers : OpenCall(a)
  BY <1>5, <1>9, Zenon DEF OpenCall, challenge_report, expire_stale_challenge,
     deposit_challenge_bond, withdraw_challenge_bond, SetBondBalance
<1>10. CASE rotate_oracle_admin
  BY <1>5, <1>10, Zenon DEF rotate_oracle_admin
<1>11. CASE RotateRegistryAdmin
  BY <1>1, <1>11 DEF RotateRegistryAdmin, projectVars
<1>12. CASE UNCHANGED allVars
  BY <1>5, <1>12 DEF allVars
<1> QED
  BY <1>4, <1>5, <1>7, <1>8, <1>9, <1>10, <1>11, <1>12, Zenon DEF OracleNext, OracleCall

-----------------------------------------------------------------------------
(* Track records *)

Faced(p) == {r \in ReportsOf(p) : challenge[r].state # "None"}
Lost(p) == {r \in Faced(p) : challenge[r].resolution = "Rejected"}
Rejected(r) == challenge[r].state = "Resolved" /\ challenge[r].resolution = "Rejected"
SlashesFor(p, r) == {i \in 1 .. Len(slash_history[p]) : slash_history[p][i].report_id = r}
ReportsOn(id) == {r \in 1 .. report_count : report[r].project_id = id}

RecordsTypeOK ==
  /\ project_reports \in [ProjectIds -> Seq(Nat)]
  /\ provider_report_count \in [Providers -> Nat]
  /\ provider_challenges \in [Providers -> Seq(Nat)]
  /\ \A r \in ReportIds :
       /\ r > report_count => challenge[r].state = "None"
       /\ challenge[r].state # "None" => "resolution" \in DOMAIN challenge[r]
       /\ challenge[r].state \in {"None", "Open", "Resolved"}
       /\ challenge[r].state = "Open" => challenge[r].resolution = "None"

CountsTrue ==
  \A p \in Providers :
    /\ provider_report_count[p] = Cardinality(ReportsOf(p))
    /\ Entries(provider_challenges[p]) = Faced(p)
    /\ Len(provider_challenges[p]) = Cardinality(Faced(p))
    /\ Len(slash_history[p]) = Cardinality(Lost(p))
    /\ \A i \in 1 .. Len(slash_history[p]) : slash_history[p][i].report_id \in 1 .. report_count

ListsTrue ==
  \A id \in ProjectIds :
    /\ Distinct(project_reports[id])
    /\ Entries(project_reports[id]) = ReportsOn(id)

SlashedOnce ==
  \A r \in 1 .. report_count :
    /\ Cardinality(SlashesFor(report[r].provider, r)) = IF Rejected(r) THEN 1 ELSE 0
    /\ Rejected(r) => /\ report[r].status = "Rejected"
                      /\ project_status[report[r].project_id] = "Rejected"

(* The invariant of the records, inductive relative to IInv and StakeInv.   *)
RecordsInv ==
  ProjectsInv /\ RecordsTypeOK /\ CountsTrue /\ ListsTrue /\ SlashedOnce

recordVars ==
  <<slash_history, provider_challenges, project_reports, provider_report_count, challenge,
    report_count>>

(* A step that files nothing; it may pass a verdict on a pending report. *)
NothingFiled ==
  /\ UNCHANGED recordVars
  /\ \/ UNCHANGED report
     \/ \E r \in ReportIds, to \in Terminal : report[r].status = "Pending" /\ OnlyStatus(r, to)

(* What a step does to the records.                                         *)
LEMMA FilingKinds ==
  ASSUME IInv, [OracleNext]_allVars
  PROVE  \/ NothingFiled
         \/ \E p \in Providers, id \in ProjectIds, period \in Periods : submit_report(p, id, period)
         \/ \E a \in Challengers, r \in ReportIds : challenge_report(a, r)
         \/ \E r \in ReportIds : expire_stale_challenge(r)
         \/ \E r \in ReportIds, to \in Terminal : finalize_challenge(r, to) /\ UNCHANGED unsettledVars
<1> USE DEF recordVars, indexVars
<1>1. CASE UNCHANGED oracleVars
  BY <1>1 DEF oracleVars, providerVars, reportVars, challengeVars, NothingFiled
<1>2. ASSUME NEW p \in Providers, ProviderCall(p),
             \A id \in ProjectIds, period \in Periods : ~submit_report(p, id, period)
      PROVE  \/ NothingFiled
             \/ \E r \in ReportIds, to \in Terminal :
                  finalize_challenge(r, to) /\ UNCHANGED unsettledVars
  <2>1. ASSUME NEW r \in ReportIds, verify_report(p, r)
        PROVE  NothingFiled
    <3>1. UNCHANGED recordVars /\ report[r].status = "Pending"
      BY <2>1, Zenon DEF verify_report, challengeVars
    <3>2. UNCHANGED report \/ report' = [report EXCEPT ![r].status = "Verified"]
      BY <2>1, Zenon DEF verify_report
    <3> QED
      BY <3>1, <3>2, StatusUpdate, Zenon DEF NothingFiled, Terminal
  <2>2. ASSUME NEW r \in ReportIds, NEW uphold \in BOOLEAN,
               resolve_challenge_by_verifier(p, r, uphold)
        PROVE  \/ NothingFiled
               \/ \E to \in Terminal : finalize_challenge(r, to) /\ UNCHANGED unsettledVars
    <3>1. UNCHANGED unsettledVars
      BY <2>2, Zenon DEF resolve_challenge_by_verifier
    <3>2. \/ finalize_challenge(r, IF uphold THEN "Verified" ELSE "Rejected")
          \/ UNCHANGED <<challenge, report, slash_history>>
      BY <2>2, Zenon DEF resolve_challenge_by_verifier
    <3>3. (IF uphold THEN "Verified" ELSE "Rejected") \in Terminal
      BY DEF Terminal
    <3> QED
      BY <3>1, <3>2, <3>3, Zenon DEF NothingFiled, unsettledVars
  <2>3. CASE \E amount \in Stakes : add_stake(p, amount) \/ withdraw_stake(p, amount)
    BY <2>3, Zenon DEF add_stake, withdraw_stake, SetStake, reportVars, challengeVars, NothingFiled
  <2> QED
    BY <1>2, <2>1, <2>2, <2>3, Zenon DEF ProviderCall
<1>3. ASSUME NEW caller, AdminCall(caller)
      PROVE  \/ NothingFiled
             \/ \E r \in ReportIds, to \in Terminal :
                  finalize_challenge(r, to) /\ UNCHANGED unsettledVars
  <2>1. CASE \E p \in Providers : register_provider(caller, p) \/ remove_provider(caller, p)
    BY <2>1, Zenon DEF register_provider, remove_provider, reportVars, challengeVars, NothingFiled
  <2>2. ASSUME NEW r \in ReportIds, NEW to, admin_override_report(caller, r, to)
        PROVE  NothingFiled
    <3>1. UNCHANGED recordVars /\ report[r].status = "Pending" /\ to \in Terminal
      BY <2>2, Zenon DEF admin_override_report, providerVars, challengeVars
    <3>2. report' = [report EXCEPT ![r].status = to]
      BY <2>2, Zenon DEF admin_override_report
    <3> QED
      BY <3>1, <3>2, StatusUpdate, Zenon DEF NothingFiled
  <2>3. CASE \E r \in ReportIds, status \in ReportStatuses : resolve_challenge(caller, r, status)
    BY <2>3, Zenon DEF resolve_challenge
  <2>4. CASE \E threshold \in 0 .. Cardinality(Providers) : set_signature_threshold(caller, threshold)
    BY <2>4, ZenonT(30) DEF set_signature_threshold, reportVars, challengeVars, NothingFiled
  <2>5. CASE set_project_registry(caller)
    BY <2>5, Zenon DEF set_project_registry, providerVars, reportVars, challengeVars, NothingFiled
  <2> QED
    BY <1>3, <2>1, <2>2, <2>3, <2>4, <2>5, Zenon DEF AdminCall
<1>4. CASE \E a \in Challengers, amount \in BondDeposits :
             deposit_challenge_bond(a, amount) \/ withdraw_challenge_bond(a, amount)
  BY <1>4, Zenon DEF deposit_challenge_bond, withdraw_challenge_bond, SetBondBalance, providerVars,
     reportVars, NothingFiled
<1>5. CASE rotate_oracle_admin
  BY <1>5, Zenon DEF rotate_oracle_admin, providerVars, reportVars, challengeVars, NothingFiled
<1>6. CASE UNCHANGED allVars
  BY <1>1, <1>6, Zenon DEF allVars
<1> QED
  BY <1>1, <1>2, <1>3, <1>4, <1>5, <1>6, Zenon DEF OracleNext, OracleCall, OpenCall

(* No report changes its submitter or its project. *)
SameReports ==
  /\ report_count' = report_count
  /\ \A p \in Providers : ReportsOf(p)' = ReportsOf(p)
  /\ \A id \in ProjectIds : ReportsOn(id)' = ReportsOn(id)
  /\ \A r \in 1 .. report_count : /\ report'[r].provider = report[r].provider
                                  /\ report'[r].project_id = report[r].project_id

(* A change of status changes neither.                                      *)
LEMMA StatusKeepsReporters ==
  ASSUME IInv, StakeInv, report_count' = report_count,
         \/ report' = report
         \/ \E r \in ReportIds : \E to : OnlyStatus(r, to)
  PROVE  SameReports
<1>1. \A r \in 1 .. report_count : /\ r \in ReportIds
                                   /\ "project_id" \in DOMAIN report[r]
                                   /\ "provider" \in DOMAIN report[r]
  BY SubmittedReport DEF IInv, ReportsTypeOK, StakeInv, StakesTypeOK
<1>2. \A r \in 1 .. report_count : /\ report'[r].provider = report[r].provider
                                   /\ report'[r].project_id = report[r].project_id
  <2>1. CASE report' = report
    BY <2>1, Zenon
  <2>2. ASSUME NEW r \in ReportIds, NEW to, OnlyStatus(r, to)
        PROVE  \A q \in 1 .. report_count : /\ report'[q].provider = report[q].provider
                                            /\ report'[q].project_id = report[q].project_id
    BY <1>1, <2>2 DEF OnlyStatus
  <2> QED
    BY <2>1, <2>2
<1> QED
  BY <1>2, Zenon DEF SameReports, ReportsOf, ReportsOn

(* The reports of a provider and of a project are finitely many.            *)
LEMMA ReportsFinite ==
  ASSUME IInv
  PROVE  /\ \A p : /\ IsFiniteSet(ReportsOf(p)) /\ IsFiniteSet(Faced(p)) /\ IsFiniteSet(Lost(p))
                   /\ Cardinality(ReportsOf(p)) \in Nat /\ Cardinality(Faced(p)) \in Nat
                   /\ Cardinality(Lost(p)) \in Nat
         /\ \A id : IsFiniteSet(ReportsOn(id)) /\ Cardinality(ReportsOn(id)) \in Nat
<1>1. 1 \in Int /\ report_count \in Int
  BY DEF IInv, ReportsTypeOK
<1>2. IsFiniteSet(1 .. report_count)
  BY ONLY <1>1, FS_Interval
<1>3. \A S \in SUBSET (1 .. report_count) : IsFiniteSet(S) /\ Cardinality(S) \in Nat
  BY <1>2, FS_Subset, FS_CardinalityType, Zenon
<1>4. \A p : /\ ReportsOf(p) \in SUBSET (1 .. report_count)
             /\ Faced(p) \in SUBSET (1 .. report_count)
             /\ Lost(p) \in SUBSET (1 .. report_count)
  BY DEF ReportsOf, Faced, Lost
<1>5. \A id : ReportsOn(id) \in SUBSET (1 .. report_count)
  BY DEF ReportsOn
<1> QED
  BY <1>3, <1>4, <1>5, Zenon

(* What settling does to a challenge's resolution.                          *)
LEMMA ResolutionUpdate ==
  ASSUME IInv, NEW r \in ReportIds, NEW to, "resolution" \in DOMAIN challenge[r]
  PROVE  /\ challenge' = [challenge EXCEPT ![r].state = "Resolved"] =>
              /\ "resolution" \in DOMAIN challenge'[r]
              /\ challenge'[r].resolution = challenge[r].resolution
         /\ challenge' = [challenge EXCEPT ![r].state = "Resolved", ![r].resolution = to] =>
              /\ "resolution" \in DOMAIN challenge'[r]
              /\ challenge'[r].resolution = to
<1> DEFINE one == [challenge[r] EXCEPT !.state = "Resolved"]
           two == [one EXCEPT !.resolution = to]
<1>1. DOMAIN challenge = ReportIds
  BY DEF IInv, ChallengesTypeOK
<1>2. "resolution" \in DOMAIN one /\ one.resolution = challenge[r].resolution
  <2>1. "resolution" # "state"
    OBVIOUS
  <2> QED
    BY <2>1, Zenon
<1>3. ASSUME challenge' = [challenge EXCEPT ![r].state = "Resolved"]
      PROVE  challenge'[r] = one
  <2>1. challenge' = [challenge EXCEPT ![r] = one]
    BY <1>3, Zenon
  <2> HIDE DEF one
  <2> QED
    BY <1>1, <2>1, Zenon
<1>4. ASSUME challenge' = [challenge EXCEPT ![r].state = "Resolved", ![r].resolution = to]
      PROVE  challenge'[r] = two
  <2> DEFINE mid == [challenge EXCEPT ![r] = one]
  <2>1. mid[r] = one /\ DOMAIN mid = ReportIds
    <3> HIDE DEF one
    <3> QED BY <1>1
  <2>2. challenge' = [mid EXCEPT ![r] = [mid[r] EXCEPT !.resolution = to]]
    BY <1>4
  <2>3. challenge' = [mid EXCEPT ![r] = two]
    <3> HIDE DEF one, mid
    <3> QED BY <2>1, <2>2, Zenon
  <2> HIDE DEF two, one, mid
  <2> QED
    BY <2>1, <2>3, Zenon
<1>5. "resolution" \in DOMAIN two /\ two.resolution = to
  <2> HIDE DEF one
  <2> QED
    BY <1>2, Zenon
<1> HIDE DEF one, two
<1> QED
  BY <1>2, <1>3, <1>4, <1>5, Zenon

(* The lists of reports stay true of the same reports.                      *)
LEMMA ListsKept ==
  ASSUME RecordsInv, SameReports, UNCHANGED <<project_reports, provider_report_count>>
  PROVE  /\ ListsTrue'
         /\ \A p \in Providers : provider_report_count'[p] = Cardinality(ReportsOf(p))'
<1>1. \A p \in Providers : provider_report_count'[p] = Cardinality(ReportsOf(p))'
  <2> SUFFICES ASSUME NEW p \in Providers
               PROVE  provider_report_count'[p] = Cardinality(ReportsOf(p)')
    OBVIOUS
  <2> QED
    BY Zenon DEF RecordsInv, CountsTrue, SameReports
<1>2. ListsTrue'
  <2> SUFFICES ASSUME NEW id \in ProjectIds
               PROVE  /\ Distinct(project_reports'[id])
                      /\ Entries(project_reports'[id]) = ReportsOn(id)'
    BY Zenon DEF ListsTrue, Distinct, Entries
  <2> QED
    BY Zenon DEF RecordsInv, ListsTrue, SameReports
<1> QED
  BY <1>1, <1>2

(* A rejection stays on record: its report's verdict is final, and its      *)
(* project stays rejected.                                                  *)
LEMMA RejectionKept ==
  ASSUME IInv, RecordsInv, [OracleNext]_allVars, SameReports,
         NEW r \in 1 .. report_count, Rejected(r), report'[r].status = report[r].status
  PROVE  report'[r].status = "Rejected" /\ project_status'[report'[r].project_id] = "Rejected"
<1>1. report[r].project_id \in ProjectIds /\ report'[r].project_id = report[r].project_id
  BY ReportFields, Zenon DEF SameReports
<1>2. report[r].status = "Rejected" /\ project_status[report[r].project_id] = "Rejected"
  BY DEF RecordsInv, SlashedOnce
<1> QED
  BY <1>1, <1>2, RejectedForGood, Zenon DEF RecordsInv

LEMMA NothingFiledKeeps ==
  ASSUME IInv, StakeInv, RecordsInv, [OracleNext]_allVars, NothingFiled
  PROVE  RecordsInv'
<1> USE DEF recordVars
<1>1. SameReports
  BY StatusKeepsReporters, Zenon DEF NothingFiled
<1>2. ProjectsInv'
  BY RejectedForGood DEF RecordsInv
<1>3. RecordsTypeOK'
  BY ZenonT(30) DEF RecordsInv, RecordsTypeOK, NothingFiled
<1>4. \A p \in Providers : Faced(p)' = Faced(p) /\ Lost(p)' = Lost(p)
  BY <1>1, Zenon DEF SameReports, Faced, Lost, NothingFiled
<1>5. ListsTrue' /\ \A p \in Providers : provider_report_count'[p] = Cardinality(ReportsOf(p))'
  BY <1>1, ListsKept DEF NothingFiled
<1>6. CountsTrue'
  BY <1>4, <1>5, ZenonT(30) DEF RecordsInv, CountsTrue, NothingFiled
<1>7. ASSUME NEW r \in 1 .. report_count, Rejected(r)
      PROVE  report'[r].status = report[r].status
  <2>1. report[r].status = "Rejected" /\ r \in ReportIds
    BY <1>7, SubmittedReport, Zenon DEF RecordsInv, SlashedOnce
  <2> QED
    BY <2>1, ZenonT(30) DEF NothingFiled, OnlyStatus
<1>8. SlashedOnce'
  <2> SUFFICES ASSUME NEW r \in 1 .. report_count
               PROVE  /\ Cardinality(SlashesFor(report[r].provider, r))' =
                           IF Rejected(r)' THEN 1 ELSE 0
                      /\ Rejected(r)' => /\ report'[r].status = "Rejected"
                                         /\ project_status'[report'[r].project_id] = "Rejected"
    BY Zenon DEF SlashedOnce, NothingFiled
  <2>1. Rejected(r)' = Rejected(r)
    BY DEF Rejected, NothingFiled
  <2>2. SlashesFor(report[r].provider, r)' = SlashesFor(report[r].provider, r)
    BY <1>1, Zenon DEF SlashesFor, NothingFiled, SameReports
  <2> QED
    BY <1>1, <1>7, <2>1, <2>2, RejectionKept, Zenon DEF RecordsInv, SlashedOnce
<1> QED
  BY <1>2, <1>3, <1>5, <1>6, <1>8 DEF RecordsInv

(* A submission: the new report counts for its submitter and is listed      *)
(* under its project; it faces no challenge yet, and no slash names it.     *)
LEMMA SubmitFiles ==
  ASSUME IInv, StakeInv, RecordsInv, [OracleNext]_allVars,
         NEW p \in Providers, NEW id \in ProjectIds, NEW period \in Periods,
         submit_report(p, id, period)
  PROVE  RecordsInv'
<1> DEFINE n == report_count + 1
           new == [status |-> "Pending", provider |-> p, project_id |-> id, period |-> period,
                   project_metadata_hash |-> project_hash[id], submitted_at |-> now]
<1>1. /\ n \in ReportIds /\ report_count' = n
      /\ report' = [report EXCEPT ![n] = new]
      /\ project_reports' = [project_reports EXCEPT ![id] = Append(@, n)]
      /\ provider_report_count' = [provider_report_count EXCEPT ![p] = @ + 1]
      /\ UNCHANGED <<slash_history, provider_challenges, challenge>>
  BY Zenon DEF submit_report, challengeVars
<1>2. new.provider = p /\ new.project_id = id
  OBVIOUS
<1>3. /\ DOMAIN report = ReportIds /\ report_count \in Nat
      /\ \A r \in 1 .. report_count : r \in ReportIds
  BY SubmittedReport, Zenon DEF IInv, ReportsTypeOK
<1> HIDE DEF new
<1>4. /\ report'[n].provider = p /\ report'[n].project_id = id
      /\ \A r \in 1 .. report_count : report'[r] = report[r] /\ r # n
      /\ 1 .. report_count' = (1 .. report_count) \cup {n}
  <2>1. /\ 1 .. n = (1 .. report_count) \cup {n}
        /\ \A r \in 1 .. report_count : r # n
    BY ONLY <1>3
  <2> QED
    BY <1>1, <1>2, <1>3, <2>1, Zenon
<1>5. challenge[n].state = "None" /\ n \notin 1 .. report_count
  BY <1>1, <1>3 DEF RecordsInv, RecordsTypeOK
<1> HIDE DEF n
<1>6. /\ ReportsOf(p)' = ReportsOf(p) \cup {n}
      /\ \A q \in Providers \ {p} : ReportsOf(q)' = ReportsOf(q)
      /\ ReportsOn(id)' = ReportsOn(id) \cup {n}
      /\ \A d \in ProjectIds \ {id} : ReportsOn(d)' = ReportsOn(d)
      /\ n \notin ReportsOf(p) /\ n \notin ReportsOn(id)
  BY <1>4, <1>5, Zenon DEF ReportsOf, ReportsOn
<1>7. \A q \in Providers : Faced(q)' = Faced(q) /\ Lost(q)' = Lost(q)
  BY <1>1, <1>5, <1>6, Zenon DEF Faced, Lost
<1>8. ProjectsInv'
  BY RejectedForGood, Zenon DEF RecordsInv
<1>9. n \in Nat /\ project_reports[id] \in Seq(Nat)
  BY <1>1, OracleAssumption DEF ReportIds, RecordsInv, RecordsTypeOK
<1>10. /\ Append(project_reports[id], n) \in Seq(Nat) /\ Len(project_reports[id]) \in Nat
       /\ Len(Append(project_reports[id], n)) = Len(project_reports[id]) + 1
       /\ Entries(Append(project_reports[id], n)) = Entries(project_reports[id]) \cup {n}
  BY <1>9, IdAppended, Zenon
<1>11. RecordsTypeOK'
  <2>1. \A r \in ReportIds : r > n => r > report_count
    BY <1>3, OracleAssumption DEF n, ReportIds
  <2>2. project_reports' \in [ProjectIds -> Seq(Nat)]
    BY <1>1, <1>10, Zenon DEF RecordsInv, RecordsTypeOK
  <2>3. provider_report_count' \in [Providers -> Nat]
    BY <1>1 DEF RecordsInv, RecordsTypeOK
  <2> QED
    BY <1>1, <2>1, <2>2, <2>3, Zenon DEF RecordsInv, RecordsTypeOK
<1>12. CountsTrue'
  <2>1. ASSUME NEW q \in Providers
        PROVE  provider_report_count'[q] = Cardinality(ReportsOf(q)')
    <3>1. IsFiniteSet(ReportsOf(p)) /\ Cardinality(ReportsOf(p)) \in Nat
      BY ReportsFinite
    <3>2. Cardinality(ReportsOf(p) \cup {n}) = Cardinality(ReportsOf(p)) + 1
      BY <1>6, <3>1, FS_AddElement, ZenonT(30)
    <3>3. /\ provider_report_count[q] = Cardinality(ReportsOf(q))
          /\ provider_report_count[p] = Cardinality(ReportsOf(p))
          /\ DOMAIN provider_report_count = Providers
      BY DEF RecordsInv, RecordsTypeOK, CountsTrue
    <3> QED
      BY <1>1, <1>6, <3>2, <3>3, Zenon
  <2>2. \A q \in Providers : \A i \in 1 .. Len(slash_history'[q]) :
          slash_history'[q][i].report_id \in 1 .. report_count'
    BY <1>1, <1>4, Zenon DEF RecordsInv, CountsTrue
  <2> QED
    BY <1>1, <1>7, <2>1, <2>2, Zenon DEF RecordsInv, CountsTrue
<1>13. ListsTrue'
  <2> SUFFICES ASSUME NEW d \in ProjectIds
               PROVE  /\ Distinct(project_reports'[d])
                      /\ Entries(project_reports'[d]) = ReportsOn(d)'
    BY ZenonT(30) DEF ListsTrue, Distinct, Entries
  <2>1. CASE d = id
    <3>1. project_reports'[d] = Append(project_reports[id], n)
      BY <1>1, <2>1, Zenon DEF RecordsInv, RecordsTypeOK
    <3>2. IsFiniteSet(ReportsOn(id)) /\ Cardinality(ReportsOn(id)) \in Nat
      BY ReportsFinite
    <3>3. Cardinality(ReportsOn(id) \cup {n}) = Cardinality(ReportsOn(id)) + 1
      BY <1>6, <3>2, FS_AddElement, Zenon
    <3>4. Entries(project_reports[id]) = ReportsOn(id) /\ Len(project_reports[id]) = Cardinality(ReportsOn(id))
      BY DEF RecordsInv, ListsTrue, Distinct
    <3> QED
      BY <1>6, <1>10, <2>1, <3>1, <3>3, <3>4, ZenonT(30) DEF Distinct
  <2>2. CASE d # id
    <3>1. project_reports'[d] = project_reports[d]
      BY <1>1, <2>2, Zenon DEF RecordsInv, RecordsTypeOK
    <3> QED
      BY <1>6, <2>2, <3>1, Zenon DEF RecordsInv, ListsTrue
  <2> QED
    BY <2>1, <2>2, Zenon
<1>14. SlashedOnce'
  <2> SUFFICES ASSUME NEW r \in (1 .. report_count) \cup {n}
               PROVE  /\ Cardinality(SlashesFor(report[r].provider, r)') =
                           IF Rejected(r)' THEN 1 ELSE 0
                      /\ Rejected(r)' => /\ report'[r].status = "Rejected"
                                         /\ project_status'[report'[r].project_id] = "Rejected"
    BY <1>4, Zenon DEF SlashedOnce
  <2>1. Rejected(r)' = Rejected(r)
    BY <1>1, Zenon DEF Rejected
  <2>2. CASE r = n
    <3>1. ~Rejected(r)
      BY <1>5, <2>2, Zenon DEF Rejected
    <3>2. \A i \in 1 .. Len(slash_history[p]) : slash_history[p][i].report_id # n
      BY <1>5, Zenon DEF RecordsInv, CountsTrue
    <3>3. SlashesFor(report[r].provider, r)' =
            {i \in 1 .. Len(slash_history[p]) : slash_history[p][i].report_id = n}
      BY <1>1, <1>4, <2>2, Zenon DEF SlashesFor
    <3>4. SlashesFor(report[r].provider, r)' = {}
      BY <3>2, <3>3, Zenon
    <3> QED
      BY <2>1, <3>1, <3>4, FS_EmptySet, Zenon
  <2>3. CASE r \in 1 .. report_count
    <3>1. SlashesFor(report[r].provider, r)' = SlashesFor(report[r].provider, r)
      BY <1>1, <1>4, <2>3, ZenonT(30) DEF SlashesFor
    <3>2. report[r].project_id \in ProjectIds
      BY <2>3, SubmittedReport DEF IInv, ReportsTypeOK
    <3>3. Rejected(r) => project_status'[report[r].project_id] = "Rejected"
      BY <2>3, <3>2, RejectedForGood, ZenonT(30) DEF RecordsInv, SlashedOnce
    <3> QED
      BY <1>4, <2>1, <2>3, <3>1, <3>3, ZenonT(30) DEF RecordsInv, SlashedOnce
  <2> QED
    BY <2>2, <2>3, Zenon
<1> QED
  BY <1>8, <1>11, <1>12, <1>13, <1>14, Zenon DEF RecordsInv

(* A challenge: one more report of its submitter has faced one.             *)
LEMMA ChallengeFiles ==
  ASSUME IInv, StakeInv, RecordsInv, [OracleNext]_allVars,
         NEW a \in Challengers, NEW r \in ReportIds, challenge_report(a, r)
  PROVE  RecordsInv'
<1> DEFINE new == [state |-> "Open", challenger |-> a, submitted_at |-> now,
                   resolution |-> "None", bond |-> CHALLENGE_BOND]
<1>1. /\ challenge[r].state = "None" /\ report[r].status = "Pending"
      /\ challenge' = [challenge EXCEPT ![r] = new]
      /\ UNCHANGED <<slash_history, report_count, project_reports, provider_report_count>>
  BY DEF challenge_report, indexVars
<1>2. OnlyStatus(r, "Challenged")
  BY StatusUpdate, Zenon DEF challenge_report
<1>3. SameReports
  BY <1>1, <1>2, StatusKeepsReporters, Zenon
<1>4. new.state = "Open" /\ new.resolution = "None" /\ "resolution" \in DOMAIN new
  BY Zenon
<1> HIDE DEF new
<1>5. r \in 1 .. report_count /\ report[r].provider \in Providers
  BY <1>1, SubmittedReport, Zenon DEF StakeInv, StakesTypeOK
<1> PICK p \in Providers : p = report[r].provider
  BY <1>5
<1>6. provider_challenges' = [provider_challenges EXCEPT ![p] = Append(@, r)]
  BY Zenon DEF challenge_report
<1>7. /\ r \in ReportsOf(p) /\ r \in Nat
      /\ \A q \in Providers \ {p} : r \notin ReportsOf(q)
      /\ \A q \in Providers : ReportsOf(q) \subseteq ReportIds
  BY <1>5, SubmittedReport DEF ReportsOf
<1>8. /\ challenge'[r].state = "Open" /\ challenge'[r].resolution = "None"
      /\ "resolution" \in DOMAIN challenge'[r]
      /\ \A q \in ReportIds \ {r} : challenge'[q] = challenge[q]
  BY <1>1, <1>4, Zenon DEF IInv, ChallengesTypeOK
<1>9. /\ Faced(p)' = Faced(p) \cup {r} /\ r \notin Faced(p)
      /\ \A q \in Providers \ {p} : Faced(q)' = Faced(q)
      /\ \A q \in Providers : Lost(q)' = Lost(q)
  <2>1. \A q \in Providers : ReportsOf(q)' = ReportsOf(q)
    BY <1>3, ZenonT(30) DEF SameReports
  <2>2. Faced(p)' = Faced(p) \cup {r} /\ r \notin Faced(p)
    BY <1>1, <1>5, <1>7, <1>8, <2>1, ZenonT(30) DEF Faced
  <2>3. ASSUME NEW q \in Providers \ {p}
        PROVE  Faced(q)' = Faced(q) /\ r \notin Faced(q)
    <3>1. ReportsOf(q) \subseteq ReportIds \ {r} /\ ReportsOf(q)' = ReportsOf(q)
      BY <1>7, <2>1, Zenon
    <3>2. \A i \in ReportsOf(q) : challenge'[i] = challenge[i]
      BY <1>8, <3>1, Zenon
    <3> QED
      BY <1>7, <3>1, <3>2, Zenon DEF Faced
  <2>4. \A q \in Providers : Faced(q) \subseteq ReportIds
    BY <1>7, ZenonT(30) DEF Faced
  <2>5. Lost(p)' = Lost(p)
    BY <1>5, <1>8, <2>2, <2>4, ZenonT(30) DEF Lost
  <2>6. \A q \in Providers \ {p} : Lost(q)' = Lost(q)
    BY <1>8, <2>3, <2>4, Zenon DEF Lost
  <2> QED
    BY <2>2, <2>3, <2>5, <2>6, Zenon
<1>10. provider_challenges[p] \in Seq(Nat)
  BY <1>5 DEF RecordsInv, RecordsTypeOK
<1>11. /\ Append(provider_challenges[p], r) \in Seq(Nat) /\ Len(provider_challenges[p]) \in Nat
       /\ Len(Append(provider_challenges[p], r)) = Len(provider_challenges[p]) + 1
       /\ Entries(Append(provider_challenges[p], r)) = Entries(provider_challenges[p]) \cup {r}
  BY <1>7, <1>10, IdAppended, Zenon
<1>12. ProjectsInv'
  BY RejectedForGood, Zenon DEF RecordsInv
<1>13. RecordsTypeOK'
  <2>1. provider_challenges' \in [Providers -> Seq(Nat)]
    BY <1>6, <1>11, ZenonT(30) DEF RecordsInv, RecordsTypeOK
  <2>2. ~(r > report_count)
    BY <1>5, ReportFields, Zenon
  <2> QED
    BY <1>1, <1>8, <2>1, <2>2, ZenonT(30) DEF RecordsInv, RecordsTypeOK
<1>14. ListsTrue' /\ \A q \in Providers : provider_report_count'[q] = Cardinality(ReportsOf(q))'
  BY <1>1, <1>3, ListsKept, Zenon
<1>15. CountsTrue'
  <2>1. ASSUME NEW q \in Providers
        PROVE  /\ Entries(provider_challenges'[q]) = Faced(q)'
               /\ Len(provider_challenges'[q]) = Cardinality(Faced(q)')
    <3>1. CASE q = p
      <4>1. provider_challenges'[q] = Append(provider_challenges[p], r)
        BY <1>6, <1>5, <3>1, Zenon DEF RecordsInv, RecordsTypeOK
      <4>2. IsFiniteSet(Faced(p)) /\ Cardinality(Faced(p)) \in Nat
        BY ReportsFinite
      <4>3. Cardinality(Faced(p) \cup {r}) = Cardinality(Faced(p)) + 1
        BY <1>9, <4>2, FS_AddElement, ZenonT(30)
      <4>4. /\ Entries(provider_challenges[p]) = Faced(p)
            /\ Len(provider_challenges[p]) = Cardinality(Faced(p))
        BY <1>5, Zenon DEF RecordsInv, CountsTrue
      <4> QED
        BY ONLY <1>9, <1>11, <3>1, <4>1, <4>3, <4>4, Zenon
    <3>2. CASE q # p
      <4>1. provider_challenges'[q] = provider_challenges[q]
        BY <1>6, <3>2, Zenon DEF RecordsInv, RecordsTypeOK
      <4> QED
        BY <1>9, <3>2, <4>1, Zenon DEF RecordsInv, CountsTrue
    <3> QED
      BY <3>1, <3>2, ZenonT(30)
  <2>2. CountsTrue' = \A q \in Providers :
          /\ provider_report_count'[q] = Cardinality(ReportsOf(q)')
          /\ Entries(provider_challenges'[q]) = Faced(q)'
          /\ Len(provider_challenges'[q]) = Cardinality(Faced(q)')
          /\ Len(slash_history'[q]) = Cardinality(Lost(q)')
          /\ \A i \in 1 .. Len(slash_history'[q]) : slash_history'[q][i].report_id \in 1 .. report_count'
    BY Zenon DEF CountsTrue, Entries
  <2> QED
    BY <1>1, <1>9, <1>14, <2>1, <2>2, ZenonT(30) DEF RecordsInv, CountsTrue
<1>16. SlashedOnce'
  <2> SUFFICES ASSUME NEW q \in 1 .. report_count
               PROVE  /\ Cardinality(SlashesFor(report[q].provider, q)') =
                           IF Rejected(q)' THEN 1 ELSE 0
                      /\ Rejected(q)' => /\ report'[q].status = "Rejected"
                                         /\ project_status'[report'[q].project_id] = "Rejected"
    BY <1>1, ZenonT(30) DEF SlashedOnce
  <2>1. Rejected(q)' = Rejected(q) /\ (Rejected(q) => q # r)
    BY <1>1, <1>8, SubmittedReport, ZenonT(30) DEF Rejected
  <2>2. SlashesFor(report[q].provider, q)' = SlashesFor(report[q].provider, q)
    BY <1>1, <1>3, ZenonT(30) DEF SlashesFor, SameReports
  <2>3. Rejected(q) => report'[q].status = report[q].status
    BY <1>2, <2>1, SubmittedReport, ZenonT(30) DEF OnlyStatus
  <2> QED
    BY <1>3, <2>1, <2>2, <2>3, RejectionKept, ZenonT(30) DEF RecordsInv, SlashedOnce
<1> QED
  BY <1>12, <1>13, <1>14, <1>15, <1>16, ZenonT(30) DEF RecordsInv

(* The end of r's open challenge with the resolution given, as far as the   *)
(* expiry and the two verdicts have it in common. *)
Closed(r, resolution) ==
  /\ challenge[r].state = "Open"
  /\ challenge'[r].state = "Resolved" /\ challenge'[r].resolution = resolution
  /\ "resolution" \in DOMAIN challenge'[r]
  /\ \A q \in ReportIds \ {r} : challenge'[q] = challenge[q]
  /\ \E to : OnlyStatus(r, to)
  /\ UNCHANGED <<provider_challenges, report_count, project_reports, provider_report_count>>

LEMMA ClosedKeeps ==
  ASSUME IInv, StakeInv, RecordsInv, [OracleNext]_allVars,
         NEW r \in ReportIds, NEW resolution, Closed(r, resolution)
  PROVE  /\ r \in 1 .. report_count /\ report[r].provider \in Providers
         /\ challenge[r].resolution = "None"
         /\ SameReports /\ ProjectsInv' /\ RecordsTypeOK' /\ ListsTrue'
         /\ \A q \in Providers : /\ provider_report_count'[q] = Cardinality(ReportsOf(q)')
                                 /\ Faced(q)' = Faced(q) /\ Faced(q) \subseteq ReportIds
         /\ \A q \in (1 .. report_count) \ {r} :
              /\ Rejected(q)' = Rejected(q)
              /\ Rejected(q) => /\ report'[q].status = "Rejected"
                                /\ project_status'[report'[q].project_id] = "Rejected"
<1> USE DEF Closed
<1>1. r \in 1 .. report_count /\ report[r].provider \in Providers
  <2>1. report[r].status = "Challenged"
    BY Zenon DEF IInv, ChallengedWhileOpen
  <2> QED
    BY <2>1, SubmittedReport, ZenonT(30) DEF StakeInv, StakesTypeOK
<1>2. SameReports
  BY StatusKeepsReporters, Zenon
<1>3. ProjectsInv'
  BY RejectedForGood, ZenonT(30) DEF RecordsInv
<1>4. challenge[r].resolution = "None"
  BY Zenon DEF RecordsInv, RecordsTypeOK
<1>5. RecordsTypeOK'
  <2>1. ~(r > report_count)
    BY <1>1, ReportFields, Zenon
  <2> QED
    BY <2>1, Zenon DEF RecordsInv, RecordsTypeOK
<1>6. ListsTrue' /\ \A q \in Providers : provider_report_count'[q] = Cardinality(ReportsOf(q)')
  BY <1>2, ListsKept, Zenon
<1>7. \A q \in Providers : Faced(q)' = Faced(q) /\ Faced(q) \subseteq ReportIds
  <2>1. \A q \in Providers : ReportsOf(q)' = ReportsOf(q)
    BY <1>2, Zenon DEF SameReports
  <2>2. \A q \in Providers : ReportsOf(q) \subseteq ReportIds
    BY SubmittedReport, Zenon DEF ReportsOf
  <2> QED
    BY <2>1, <2>2, Zenon DEF Faced
<1>8. ASSUME NEW q \in (1 .. report_count) \ {r}
      PROVE  /\ Rejected(q)' = Rejected(q)
             /\ Rejected(q) => /\ report'[q].status = "Rejected"
                               /\ project_status'[report'[q].project_id] = "Rejected"
  <2>1. Rejected(q)' = Rejected(q)
    BY SubmittedReport, Zenon DEF Rejected
  <2>2. report'[q].status = report[q].status
    BY SubmittedReport, Zenon DEF OnlyStatus
  <2> QED
    BY <1>2, <2>1, <2>2, RejectionKept, Zenon
<1> QED
  BY <1>1, <1>2, <1>3, <1>4, <1>5, <1>6, <1>7, <1>8, Zenon

(* An expiry or a verdict for the report leaves the slashes alone.          *)
LEMMA UpheldFiles ==
  ASSUME IInv, StakeInv, RecordsInv, [OracleNext]_allVars,
         NEW r \in ReportIds, NEW resolution, Closed(r, resolution),
         resolution # "Rejected", UNCHANGED slash_history
  PROVE  RecordsInv'
<1>1. \A q \in Providers : Lost(q)' = Lost(q)
  <2> SUFFICES ASSUME NEW q \in Providers
               PROVE  Lost(q)' = Lost(q)
    BY Zenon
  <2>1. Faced(q)' = Faced(q) /\ Faced(q) \subseteq ReportIds /\ challenge[r].resolution = "None"
    BY ClosedKeeps, Zenon
  <2> QED
    BY <2>1, Zenon DEF Lost, Closed
<1>2. CountsTrue'
  <2>1. \A q \in Providers : /\ provider_report_count'[q] = Cardinality(ReportsOf(q)')
                             /\ Faced(q)' = Faced(q)
    BY ClosedKeeps, Zenon
  <2> QED
    BY <1>1, <2>1, ZenonT(30) DEF Closed, RecordsInv, CountsTrue
<1>3. SlashedOnce'
  <2> SUFFICES ASSUME NEW q \in 1 .. report_count
               PROVE  /\ Cardinality(SlashesFor(report[q].provider, q)') =
                           IF Rejected(q)' THEN 1 ELSE 0
                      /\ Rejected(q)' => /\ report'[q].status = "Rejected"
                                         /\ project_status'[report'[q].project_id] = "Rejected"
    BY Zenon DEF SlashedOnce, Closed
  <2>1. SlashesFor(report[q].provider, q)' = SlashesFor(report[q].provider, q)
    BY ClosedKeeps, ZenonT(30) DEF SlashesFor, SameReports
  <2>2. CASE q = r
    BY <2>1, <2>2, ZenonT(30) DEF Closed, Rejected, RecordsInv, SlashedOnce
  <2>3. CASE q # r
    BY <2>1, <2>3, ClosedKeeps, Zenon DEF RecordsInv, SlashedOnce
  <2> QED
    BY <2>2, <2>3, Zenon
<1> QED
  BY <1>2, <1>3, ClosedKeeps, Zenon DEF RecordsInv

Naming(history, q) == {i \in 1 .. Len(history) : history[i].report_id = q}

(* A history after one more slash, entry by entry.                          *)
LEMMA SlashAppended ==
  ASSUME NEW S, NEW history \in Seq(S), NEW entry
  PROVE  /\ Len(Append(history, entry)) = Len(history) + 1 /\ Len(history) \in Nat
         /\ \A i \in 1 .. Len(history) : Append(history, entry)[i] = history[i]
         /\ Append(history, entry)[Len(history) + 1] = entry
<1> DEFINE T == S \cup {entry}
<1>1. history \in Seq(T) /\ entry \in T
  OBVIOUS
<1> HIDE DEF T
<1> QED
  BY <1>1

(* The slashes that name a report, after one more.                          *)
LEMMA NamingAppended ==
  ASSUME NEW S, NEW history \in Seq(S), NEW entry, NEW q
  PROVE  /\ IsFiniteSet(Naming(history, q))
         /\ Naming(Append(history, entry), q) =
              IF entry.report_id = q THEN Naming(history, q) \cup {Len(history) + 1}
                                     ELSE Naming(history, q)
<1> DEFINE longer == Append(history, entry)
           n == Len(history)
<1>1. /\ Len(longer) = n + 1 /\ n \in Nat
      /\ \A i \in 1 .. n : longer[i] = history[i]
      /\ longer[n + 1] = entry
  BY SlashAppended, Zenon
<1>2. \A i : (i \in 1 .. n + 1 <=> i \in 1 .. n \/ i = n + 1) /\ n + 1 \notin 1 .. n
  BY <1>1
<1> HIDE DEF longer, n
<1>3. {i \in 1 .. n + 1 : longer[i].report_id = q} =
        IF entry.report_id = q THEN {i \in 1 .. n : history[i].report_id = q} \cup {n + 1}
                               ELSE {i \in 1 .. n : history[i].report_id = q}
  BY <1>1, <1>2, Zenon
<1>4. IsFiniteSet(Naming(history, q))
  <2>1. 1 \in Int /\ n \in Int
    BY <1>1
  <2>2. IsFiniteSet(1 .. n)
    BY ONLY <2>1, FS_Interval, Zenon
  <2>3. Naming(history, q) \in SUBSET (1 .. n)
    BY Zenon DEF Naming, n
  <2> QED
    BY <2>2, <2>3, FS_Subset, ZenonT(30)
<1> QED
  BY <1>1, <1>3, <1>4, Zenon DEF longer, n, Naming

(* A rejection: one more challenge lost, one slash more, and it names r.    *)
LEMMA RejectedFiles ==
  ASSUME IInv, StakeInv, RecordsInv, [OracleNext]_allVars,
         NEW r \in ReportIds, Closed(r, "Rejected"), OnlyStatus(r, "Rejected"),
         slash_provider(report[r].provider, r),
         project_status'[report[r].project_id] = "Rejected"
  PROVE  RecordsInv'
<1>1. /\ r \in 1 .. report_count /\ report[r].provider \in Providers
      /\ challenge[r].resolution = "None" /\ SameReports
      /\ \A q \in Providers : Faced(q)' = Faced(q) /\ Faced(q) \subseteq ReportIds
  BY ClosedKeeps, ZenonT(30)
<1> PICK p \in Providers : p = report[r].provider
  BY <1>1, Zenon
<1> DEFINE entry == [report_id |-> r, penalty |-> slashable_amount(stake[p]),
                     remaining_stake |-> stake[p] - slashable_amount(stake[p]),
                     active_after |-> active'[p]]
<1>2. slash_history' = [slash_history EXCEPT ![p] = Append(slash_history[p], entry)]
  BY ZenonT(30) DEF slash_provider
<1>3. entry.report_id = r
  BY ZenonT(30)
<1> HIDE DEF entry
<1>4. DOMAIN slash_history = Providers
  BY Zenon DEF StakeInv, StakesTypeOK
<1>5. PICK S : slash_history[p] \in Seq(S)
  BY Zenon DEF StakeInv, StakesTypeOK
<1>6. /\ slash_history'[p] = Append(slash_history[p], entry)
      /\ \A q \in Providers \ {p} : slash_history'[q] = slash_history[q]
  BY <1>2, <1>4, ZenonT(30)
<1>7. /\ Len(slash_history'[p]) = Len(slash_history[p]) + 1 /\ Len(slash_history[p]) \in Nat
      /\ \A i \in 1 .. Len(slash_history[p]) : slash_history'[p][i] = slash_history[p][i]
      /\ slash_history'[p][Len(slash_history[p]) + 1] = entry
  <2> DEFINE history == slash_history[p]
  <2>1. history \in Seq(S)
    BY <1>5, Zenon
  <2> HIDE DEF history
  <2>2. /\ Len(Append(history, entry)) = Len(history) + 1 /\ Len(history) \in Nat
        /\ \A i \in 1 .. Len(history) : Append(history, entry)[i] = history[i]
        /\ Append(history, entry)[Len(history) + 1] = entry
    BY ONLY <2>1, SlashAppended, Zenon
  <2>3. slash_history'[p] = Append(history, entry) /\ slash_history[p] = history
    BY <1>6 DEF history
  <2> QED
    BY ONLY <2>2, <2>3, Zenon
<1>8. \A q : /\ IsFiniteSet(Naming(slash_history[p], q))
              /\ Naming(slash_history'[p], q) =
                   IF r = q THEN Naming(slash_history[p], q) \cup {Len(slash_history[p]) + 1}
                            ELSE Naming(slash_history[p], q)
  <2> DEFINE history == slash_history[p]
  <2>1. history \in Seq(S)
    BY <1>5
  <2> HIDE DEF history
  <2>2. \A q : /\ IsFiniteSet(Naming(history, q))
               /\ Naming(Append(history, entry), q) =
                    IF entry.report_id = q THEN Naming(history, q) \cup {Len(history) + 1}
                                           ELSE Naming(history, q)
    BY ONLY <2>1, NamingAppended, Zenon
  <2>3. slash_history'[p] = Append(history, entry) /\ slash_history[p] = history
    BY <1>6 DEF history
  <2> QED
    BY ONLY <1>3, <2>2, <2>3, Zenon
<1>9. /\ Lost(p)' = Lost(p) \cup {r} /\ r \notin Lost(p)
      /\ \A q \in Providers \ {p} : Lost(q)' = Lost(q)
  <2>1. /\ challenge'[r].resolution = "Rejected" /\ challenge[r].state # "None"
        /\ \A q \in ReportIds \ {r} : challenge'[q] = challenge[q]
    BY ZenonT(30) DEF Closed
  <2>2. r \in Faced(p) /\ \A q \in Providers \ {p} : r \notin Faced(q)
    BY <1>1, <2>1, ZenonT(30) DEF Faced, ReportsOf
  <2>3. Lost(p)' = Lost(p) \cup {r} /\ r \notin Lost(p)
    <3>1. Lost(p)' = {x \in Faced(p) : challenge'[x].resolution = "Rejected"}
      BY <1>1, Zenon DEF Lost
    <3>2. \A x \in Faced(p) \ {r} : challenge'[x] = challenge[x]
      BY <1>1, <2>1, Zenon
    <3>3. Lost(p) = {x \in Faced(p) : challenge[x].resolution = "Rejected"}
      BY Zenon DEF Lost
    <3> QED
      BY ONLY <1>1, <2>1, <2>2, <3>1, <3>2, <3>3, Zenon
  <2>4. ASSUME NEW q \in Providers \ {p}
        PROVE  Lost(q)' = Lost(q)
    <3>1. Lost(q)' = {x \in Faced(q) : challenge'[x].resolution = "Rejected"}
      BY <1>1, Zenon DEF Lost
    <3>2. \A x \in Faced(q) : challenge'[x] = challenge[x]
      BY <1>1, <2>1, <2>2, Zenon
    <3> QED
      BY ONLY <3>1, <3>2, Zenon DEF Lost
  <2> QED
    BY <2>3, <2>4, Zenon
<1>10. CountsTrue'
  <2>1. \A q \in Providers : /\ provider_report_count'[q] = Cardinality(ReportsOf(q)')
                             /\ Entries(provider_challenges'[q]) = Faced(q)'
                             /\ Len(provider_challenges'[q]) = Cardinality(Faced(q)')
    BY ClosedKeeps, ZenonT(30) DEF Closed, RecordsInv, CountsTrue
  <2>2. /\ Len(slash_history[p]) = Cardinality(Lost(p))
        /\ \A i \in 1 .. Len(slash_history[p]) : slash_history[p][i].report_id \in 1 .. report_count
        /\ report_count' = report_count
    BY ZenonT(30) DEF Closed, RecordsInv, CountsTrue
  <2>3. Cardinality(Lost(p) \cup {r}) = Cardinality(Lost(p)) + 1
    <3>1. IsFiniteSet(Lost(p))
      BY ReportsFinite, ZenonT(30)
    <3> QED
      BY <1>9, <3>1, FS_AddElement, ZenonT(30)
  <2>4. Len(slash_history'[p]) = Cardinality(Lost(p)')
    BY <1>7, <1>9, <2>2, <2>3, ZenonT(30)
  <2>5. \A i \in 1 .. Len(slash_history'[p]) : slash_history'[p][i].report_id \in 1 .. report_count'
    <3> DEFINE n == Len(slash_history[p])
    <3>1. \A i \in 1 .. n + 1 : i \in 1 .. n \/ i = n + 1
      BY <1>7
    <3>2. \A i \in 1 .. n + 1 : slash_history'[p][i].report_id \in 1 .. report_count'
      <4> HIDE DEF n
      <4> QED
        BY <1>1, <1>3, <1>7, <2>2, <3>1, ZenonT(30) DEF n
    <3> QED
      BY <1>7, <3>2, ZenonT(30)
  <2>6. \A q \in Providers \ {p} :
          /\ Len(slash_history'[q]) = Cardinality(Lost(q)')
          /\ \A i \in 1 .. Len(slash_history'[q]) : slash_history'[q][i].report_id \in 1 .. report_count'
    BY <1>6, <1>9, <2>2, ZenonT(30) DEF RecordsInv, CountsTrue
  <2>7. CountsTrue' = \A q \in Providers :
          /\ provider_report_count'[q] = Cardinality(ReportsOf(q)')
          /\ Entries(provider_challenges'[q]) = Faced(q)'
          /\ Len(provider_challenges'[q]) = Cardinality(Faced(q)')
          /\ Len(slash_history'[q]) = Cardinality(Lost(q)')
          /\ \A i \in 1 .. Len(slash_history'[q]) : slash_history'[q][i].report_id \in 1 .. report_count'
    BY ZenonT(30) DEF CountsTrue, Entries
  <2> QED
    BY ONLY <2>1, <2>4, <2>5, <2>6, <2>7, ZenonT(30)
<1>11. SlashedOnce'
  <2> SUFFICES ASSUME NEW q \in 1 .. report_count
               PROVE  /\ Cardinality(SlashesFor(report[q].provider, q)') =
                           IF Rejected(q)' THEN 1 ELSE 0
                      /\ Rejected(q)' => /\ report'[q].status = "Rejected"
                                         /\ project_status'[report'[q].project_id] = "Rejected"
    BY ZenonT(30) DEF SlashedOnce, Closed
  <2>1. PICK who \in Providers : who = report[q].provider
    BY Zenon DEF StakeInv, StakesTypeOK
  <2>2. SlashesFor(report[q].provider, q)' = SlashesFor(who, q)' /\ report'[q].project_id = report[q].project_id
    BY <1>1, <2>1, Zenon DEF SlashesFor, SameReports
  <2>3. CASE q = r
    <3>1. ~Rejected(r) /\ Rejected(r)' /\ who = p
      BY <2>1, <2>3, Zenon DEF Closed, Rejected
    <3>2. Cardinality(SlashesFor(p, r)) = 0
      BY <1>1, <3>1, Zenon DEF RecordsInv, SlashedOnce
    <3>3. SlashesFor(p, r) = {}
      <4>1. IsFiniteSet(SlashesFor(p, r))
        BY <1>8, Zenon DEF SlashesFor, Naming
      <4> QED
        BY ONLY <3>2, <4>1, FS_EmptySet, Zenon
    <3>4. SlashesFor(p, r) = Naming(slash_history[p], r) /\ SlashesFor(p, r)' = Naming(slash_history'[p], r)
      BY DEF SlashesFor, Naming
    <3>5. Cardinality(SlashesFor(p, r)') = 1
      <4>1. SlashesFor(p, r)' = {Len(slash_history[p]) + 1}
        BY ONLY <1>8, <3>3, <3>4, ZenonT(30)
      <4> QED
        BY <4>1, FS_Singleton, Zenon
    <3>6. report'[r].status = "Rejected"
      BY DEF OnlyStatus
    <3> QED
      BY <2>2, <2>3, <3>1, <3>5, <3>6, ZenonT(30)
  <2>4. CASE q # r
    <3>1. SlashesFor(who, q)' = SlashesFor(who, q)
      <4>1. CASE who = p
        <5>1. /\ SlashesFor(who, q) = Naming(slash_history[p], q)
              /\ SlashesFor(who, q)' = Naming(slash_history'[p], q)
          BY <4>1, Zenon DEF SlashesFor, Naming
        <5> QED
          BY ONLY <1>8, <2>4, <5>1, ZenonT(30)
      <4>2. CASE who # p
        BY <1>6, <4>2, Zenon DEF SlashesFor
      <4> QED
        BY <4>1, <4>2, ZenonT(30)
    <3>2. Cardinality(SlashesFor(who, q)) = IF Rejected(q) THEN 1 ELSE 0
      BY <2>1, Zenon DEF RecordsInv, SlashedOnce
    <3> QED
      BY <2>2, <2>4, <3>1, <3>2, ClosedKeeps, ZenonT(30)
  <2> QED
    BY <2>3, <2>4, ZenonT(30)
<1> QED
  BY <1>10, <1>11, ClosedKeeps, Zenon DEF RecordsInv

LEMMA RecordsInvInit == OracleInit => RecordsInv
<1> SUFFICES ASSUME OracleInit
             PROVE  RecordsInv
  OBVIOUS
<1> DEFINE none == <<>>
<1>1. /\ report_count = 0 /\ slash_history = [p \in Providers |-> none]
      /\ provider_challenges = [p \in Providers |-> none]
      /\ project_reports = [id \in ProjectIds |-> none]
      /\ provider_report_count = [p \in Providers |-> 0]
      /\ challenge = [r \in ReportIds |-> NoChallenge]
      /\ project_count = 0 /\ project_status = [id \in ProjectIds |-> "None"]
  BY DEF OracleInit, RegistryInit
<1>2. none \in Seq(Nat) /\ Len(none) = 0 /\ Entries(none) = {} /\ 1 .. 0 = {}
  BY DEF Entries
<1>3. Cardinality({}) = 0
  BY FS_EmptySet, Zenon
<1>4. NoChallenge.state = "None"
  BY Zenon DEF NoChallenge
<1> HIDE DEF none
<1>5. \A x : ReportsOf(x) = {} /\ ReportsOn(x) = {} /\ Faced(x) = {} /\ Lost(x) = {}
  BY <1>1, <1>2, Zenon DEF ReportsOf, ReportsOn, Faced, Lost
<1>6. ProjectsInv
  BY <1>1, Zenon DEF ProjectsInv
<1>7. RecordsTypeOK
  BY <1>1, <1>2, <1>4, Zenon DEF RecordsTypeOK
<1>8. CountsTrue
  BY <1>1, <1>2, <1>3, <1>5, Zenon DEF CountsTrue
<1>9. ListsTrue
  BY <1>1, <1>2, <1>3, <1>5, Zenon DEF ListsTrue, Distinct
<1>10. SlashedOnce
  BY <1>1, <1>2, Zenon DEF SlashedOnce
<1> QED
  BY <1>6, <1>7, <1>8, <1>9, <1>10, Zenon DEF RecordsInv

LEMMA RecordsInvStep == IInv /\ StakeInv /\ RecordsInv /\ [OracleNext]_allVars => RecordsInv'
<1> SUFFICES ASSUME IInv, StakeInv, RecordsInv, [OracleNext]_allVars
             PROVE  RecordsInv'
  OBVIOUS
<1>1. ASSUME NEW r \in ReportIds, expire_stale_challenge(r)
      PROVE  RecordsInv'
  <2>1. challenge[r].state = "Open" /\ challenge' = [challenge EXCEPT ![r].state = "Resolved"]
    BY <1>1, Zenon DEF expire_stale_challenge
  <2>2. "resolution" \in DOMAIN challenge[r] /\ challenge[r].resolution = "None"
    BY <2>1 DEF RecordsInv, RecordsTypeOK
  <2>3. /\ "resolution" \in DOMAIN challenge'[r] /\ challenge'[r].resolution = "None"
    BY <2>1, <2>2, ResolutionUpdate, Zenon
  <2>4. /\ \A q \in ReportIds \ {r} : challenge'[q] = challenge[q]
        /\ challenge'[r].state = "Resolved"
    BY <2>1, StateUpdate, Zenon
  <2>5. OnlyStatus(r, "Pending")
    BY <1>1, StatusUpdate, Zenon DEF expire_stale_challenge
  <2>6. UNCHANGED <<slash_history, provider_challenges, report_count, project_reports,
                    provider_report_count>>
    BY <1>1, Zenon DEF expire_stale_challenge, providerVars, indexVars
  <2>7. Closed(r, "None")
    BY <2>1, <2>3, <2>4, <2>5, <2>6, Zenon DEF Closed
  <2> QED
    BY <2>6, <2>7, UpheldFiles, Zenon
<1>2. ASSUME NEW r \in ReportIds, NEW to \in Terminal, finalize_challenge(r, to), UNCHANGED unsettledVars
      PROVE  RecordsInv'
  <2>1. /\ challenge[r].state = "Open"
        /\ challenge' = [challenge EXCEPT ![r].state = "Resolved", ![r].resolution = to]
    BY <1>2, Zenon DEF finalize_challenge
  <2>2. "resolution" \in DOMAIN challenge[r]
    BY <2>1 DEF RecordsInv, RecordsTypeOK
  <2>3. /\ "resolution" \in DOMAIN challenge'[r] /\ challenge'[r].resolution = to
    BY <2>1, <2>2, ResolutionUpdate, Zenon
  <2>4. /\ \A q \in ReportIds \ {r} : challenge'[q] = challenge[q]
        /\ challenge'[r].state = "Resolved"
    BY <2>1, StateUpdate, Zenon
  <2>5. OnlyStatus(r, to)
    BY <1>2, StatusUpdate, Zenon DEF finalize_challenge
  <2>6. UNCHANGED <<provider_challenges, report_count, project_reports, provider_report_count>>
    BY <1>2, Zenon DEF unsettledVars, indexVars
  <2>7. Closed(r, to)
    BY <2>1, <2>3, <2>4, <2>5, <2>6, Zenon DEF Closed
  <2>8. \/ /\ to = "Rejected" /\ slash_provider(report[r].provider, r)
           /\ revoke_project(OracleContract, report[r].project_id, project_registry_nonce)
        \/ to = "Verified" /\ UNCHANGED slash_history
    BY <1>2, Zenon DEF finalize_challenge
  <2>9. CASE to = "Verified" /\ UNCHANGED slash_history
    BY <2>7, <2>9, UpheldFiles, Zenon
  <2>10. CASE /\ to = "Rejected" /\ slash_provider(report[r].provider, r)
              /\ revoke_project(OracleContract, report[r].project_id, project_registry_nonce)
    <3>1. report[r].project_id \in ProjectIds
      BY <2>7, ClosedKeeps, ReportFields, Zenon
    <3>2. project_status'[report[r].project_id] = "Rejected"
      BY <2>10, <3>1, Zenon DEF revoke_project, SetStatus, RecordsInv, ProjectsInv
    <3> QED
      BY <2>5, <2>7, <2>10, <3>2, RejectedFiles, Zenon
  <2> QED
    BY <2>8, <2>9, <2>10, Zenon
<1> QED
  BY <1>1, <1>2, FilingKinds, NothingFiledKeeps, SubmitFiles, ChallengeFiles, Zenon

LEMMA RecordsInvHolds == OracleSpec => []RecordsInv
<1> QED
  BY RecordsInvInit, IInvHolds, StakeInvHolds, RecordsInvStep, PTL DEF OracleSpec

(* A challenge resolved as Rejected (finalize_challenge, from either way of *)
(* resolving) had its whole effect: exactly one slash of the submitter ever *)
(* names the report, and the registry's project is no longer approved,      *)
(* whatever the registry's admin does later.                                *)
THEOREM RejectionHasItsEffect == OracleSpec => []RejectionComplete
<1>1. RecordsInv => RejectionComplete
  <2> SUFFICES ASSUME RecordsInv, NEW r \in 1 .. report_count
               PROVE  /\ Cardinality(SlashesFor(report[r].provider, r)) = IF Rejected(r) THEN 1 ELSE 0
                      /\ Rejected(r) => /\ report[r].status = "Rejected"
                                        /\ ~is_project_active(report[r].project_id)
    BY Zenon DEF RejectionComplete, get_slash_history, get_report, SlashesFor, Rejected
  <2>1. Rejected(r) => project_status[report[r].project_id] = "Rejected"
    BY Zenon DEF RecordsInv, SlashedOnce
  <2> QED
    BY <2>1, Zenon DEF RecordsInv, SlashedOnce, is_project_active
<1> QED
  BY <1>1, RecordsInvHolds, PTL

(* What get_provider_stats, get_challenge_history and get_project_reports   *)
(* tell is true of the reports and challenges on file, for any number of    *)
(* providers, projects and reports.                                         *)
THEOREM RecordsAreTrue == OracleSpec => []ProviderRecordTrue
<1>1. ThresholdInv /\ RecordsInv => ProviderRecordTrue
  <2> SUFFICES ASSUME ThresholdInv, RecordsInv
               PROVE  ProviderRecordTrue
    OBVIOUS
  <2>1. ASSUME NEW p \in provider_list
        PROVE  /\ get_provider_stats(p).reports_submitted = Cardinality(ReportsOf(p))
               /\ get_provider_stats(p).challenges_faced = Cardinality(Faced(p))
               /\ get_provider_stats(p).slashes = Cardinality(Lost(p))
               /\ Entries(get_challenge_history(p)) = {challenge[r] : r \in Faced(p)}
    <3>1. p \in Providers
      BY DEF ThresholdInv
    <3>2. /\ get_provider_stats(p).reports_submitted = provider_report_count[p]
          /\ get_provider_stats(p).challenges_faced = Len(provider_challenges[p])
          /\ get_provider_stats(p).slashes = Len(slash_history[p])
      BY Zenon DEF get_provider_stats
    <3>3. Entries(get_challenge_history(p)) = {challenge[r] : r \in Faced(p)}
      <4> DEFINE list == provider_challenges[p]
                 n == Len(list)
                 history == [i \in 1 .. n |-> challenge[list[i]]]
      <4>1. Faced(p) = {list[i] : i \in 1 .. n} /\ n \in Nat
        <5>1. Faced(p) = {list[i] : i \in 1 .. n}
          BY <3>1, Zenon DEF RecordsInv, CountsTrue, Entries
        <5>2. list \in Seq(Nat)
          BY <3>1, Zenon DEF RecordsInv, RecordsTypeOK
        <5> HIDE DEF list
        <5>3. n \in Nat
          BY ONLY <5>2 DEF n
        <5> QED
          BY <5>1, <5>3, Zenon
      <4>2. get_challenge_history(p) = history
        BY DEF get_challenge_history
      <4> HIDE DEF list, n
      <4>3. Len(history) = n
        BY <4>1
      <4>4. Entries(history) = {challenge[list[i]] : i \in 1 .. n}
        BY <4>3, Zenon DEF Entries
      <4> QED
        BY ONLY <4>1, <4>2, <4>4
    <3> QED
      BY <3>1, <3>2, <3>3, Zenon DEF RecordsInv, CountsTrue
  <2>2. \A id \in ProjectIds : /\ Distinct(project_reports[id])
                               /\ Entries(project_reports[id]) = ReportsOn(id)
    BY Zenon DEF RecordsInv, ListsTrue
  <2> QED
    BY <2>1, <2>2, Zenon DEF ProviderRecordTrue, list_providers, get_challenge, get_report,
       get_project_reports, Faced, Lost, ReportsOn
<1> QED
  BY <1>1, ThresholdInvHolds, RecordsInvHolds, PTL

=============================================================================
