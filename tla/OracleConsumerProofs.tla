------------------------ MODULE OracleConsumerProofs ------------------------
(* The oracle consumer implements ReportLifecycle, keeps the periods of a   *)
(* project's reports apart, accounts for every challenge bond and every     *)
(* stake reserved for a report, and keeps its signature threshold within    *)
(* reach, for any number of providers, challengers, reports, projects and   *)
(* accounts.                                                                *)
EXTENDS OracleConsumer, OperatorProofs

-----------------------------------------------------------------------------
(* Reports, periods and bonds: the inductive invariant, the kinds of steps  *)
(* the oracle and its registry take, and that a submission preserves it.    *)

(* Ids are handed out in order; an entry has the fields the calls update.   *)
ReportsTypeOK ==
  /\ report_count \in Nat /\ report_count <= MaxReports
  /\ DOMAIN report = ReportIds
  /\ \A r \in ReportIds :
       /\ "status" \in DOMAIN report[r]
       /\ r > report_count => report[r].status = "None"
       /\ r <= report_count => /\ {"project_id", "period"} \subseteq DOMAIN report[r]
                               /\ report[r].project_id \in ProjectIds
                               /\ report[r].period \in Nat \X Nat
                               /\ report[r].period[1] < report[r].period[2]
  /\ periods \in [ProjectIds -> Seq(Nat \X Nat)]

ChallengesTypeOK ==
  /\ DOMAIN challenge = ReportIds
  /\ \A r \in ReportIds :
       /\ "state" \in DOMAIN challenge[r]
       /\ challenge[r].state = "Open" => /\ challenge[r].challenger \in Challengers
                                         /\ challenge[r].bond \in Nat
  /\ bond_lock \in [Challengers -> Nat]
  /\ bond_balance \in [Challengers -> Nat]

(* The report and its challenge, two entries, agree. *)
ChallengedWhileOpen ==
  \A r \in ReportIds : report[r].status = "Challenged" <=> challenge[r].state = "Open"

(* No report of a project ends after the last retained period, whatever     *)
(* periods left the history.                                                *)
LastPeriodCovers ==
  \A r \in 1 .. report_count :
    LET list == periods[report[r].project_id] IN
    /\ list # <<>>
    /\ report[r].period[2] <= list[Len(list)][2]

BondsOf(a) ==
  [r \in ReportIds |->
     IF challenge[r].state = "Open" /\ challenge[r].challenger = a THEN challenge[r].bond ELSE 0]

BondsAddUp ==
  \A a \in Challengers :
    /\ IsFiniteSet(UnitsOf(ReportIds, BondsOf(a)))
    /\ Total(ReportIds, BondsOf(a)) = bond_lock[a]

(* The inductive invariant.  The lifecycle needs ChallengedWhileOpen, since *)
(* finalize_challenge looks at the challenge and not at the report;         *)
(* PeriodsDisjoint needs LastPeriodCovers, since the history forgets.       *)
IInv ==
  /\ ReportsTypeOK
  /\ ChallengesTypeOK
  /\ ChallengedWhileOpen
  /\ LastPeriodCovers
  /\ PeriodsDisjoint
  /\ BondsAddUp

-----------------------------------------------------------------------------
(* The period just appended is the last of the history.                     *)
LEMMA LastAppended ==
  ASSUME NEW T, NEW list \in Seq(T), NEW e \in T
  PROVE  /\ Append(list, e) \in Seq(T)
         /\ Append(list, e) # <<>>
         /\ Append(list, e)[Len(Append(list, e))] = e
<1>1. Len(list) \in Nat /\ Len(Append(list, e)) = Len(list) + 1
  OBVIOUS
<1>2. Append(list, e)[Len(list) + 1] = e
  OBVIOUS
<1>3. Append(list, e) \in Seq(T)
  OBVIOUS
<1>4. Append(list, e) # <<>>
  BY <1>1
<1> QED
  BY <1>1, <1>2, <1>3, <1>4

LEMMA IdsNatural == \A r \in ReportIds : r \in Nat
  BY OracleAssumption DEF ReportIds

(* What is known of a submitted report.                                     *)
LEMMA ReportFields ==
  ASSUME IInv
  PROVE  \A r \in 1 .. report_count :
           /\ r \in ReportIds /\ r <= report_count /\ ~(r > report_count)
           /\ report[r].project_id \in ProjectIds
           /\ report[r].period \in Nat \X Nat
<1>1. report_count \in Nat /\ report_count <= MaxReports
  BY Zenon DEF IInv, ReportsTypeOK
<1>2. \A r \in 1 .. report_count : r \in ReportIds /\ r <= report_count /\ ~(r > report_count)
  BY ONLY <1>1, OracleAssumption DEF ReportIds
<1> QED
  BY <1>2, Zenon DEF IInv, ReportsTypeOK

(* A submitted report takes the next id, and its period starts where the    *)
(* project's last one ended or later.                                       *)
LEMMA SubmitKeeps ==
  ASSUME IInv, NEW p \in Providers, NEW id \in ProjectIds, NEW period \in Periods,
         submit_report(p, id, period)
  PROVE  IInv'
<1> DEFINE r == report_count + 1
           new == [status |-> "Pending", provider |-> p, project_id |-> id, period |-> period,
                   project_metadata_hash |-> project_hash[id], submitted_at |-> now]
<1>1. /\ r \in ReportIds
      /\ period \in Nat \X Nat /\ period[1] < period[2]
      /\ PeriodFree(id, period)
      /\ report_count' = r
      /\ report' = [report EXCEPT ![r] = new]
      /\ periods' = RecordPeriod(id, period)
      /\ UNCHANGED <<challenge, bond_lock, bond_balance>>
  <2>1. period \in Nat \X Nat
    BY OracleAssumption, Zenon
  <2> QED
    BY <2>1, ZenonT(30) DEF submit_report, challengeVars
<1>2. /\ new.status = "Pending" /\ new.project_id = id /\ new.period = period
      /\ {"status", "project_id", "period"} \subseteq DOMAIN new
  BY ZenonT(40)
<1> HIDE DEF new
<1>3. /\ report_count \in Nat /\ report_count <= MaxReports
      /\ DOMAIN report = ReportIds
      /\ periods \in [ProjectIds -> Seq(Nat \X Nat)]
  BY Zenon DEF IInv, ReportsTypeOK
<1>4. /\ DOMAIN report' = ReportIds /\ report'[r] = new
      /\ \A q \in ReportIds \ {r} : report'[q] = report[q]
  BY <1>1, <1>3
<1>5. r <= MaxReports /\ \A q \in 1 .. report_count : q \in ReportIds /\ q # r
  BY <1>1, <1>3, OracleAssumption DEF ReportIds
<1>6. /\ periods' \in [ProjectIds -> Seq(Nat \X Nat)]
      /\ \A other \in ProjectIds \ {id} : periods'[other] = periods[other]
      /\ periods'[id] # <<>> /\ periods'[id][Len(periods'[id])] = period
  <2> DEFINE kept == IF Len(periods[id]) >= MAX_PERIOD_HISTORY THEN Tail(periods[id]) ELSE periods[id]
  <2>1. kept \in Seq(Nat \X Nat)
    BY <1>3, OracleAssumption
  <2>2. periods' = [periods EXCEPT ![id] = Append(kept, period)]
    BY <1>1 DEF RecordPeriod
  <2> HIDE DEF kept
  <2>3. /\ Append(kept, period) \in Seq(Nat \X Nat)
        /\ Append(kept, period) # <<>>
        /\ Append(kept, period)[Len(Append(kept, period))] = period
    BY <1>1, <2>1, LastAppended, ZenonT(40)
  <2> QED
    BY <1>3, <2>2, <2>3, Zenon
<1>7. \A q \in 1 .. report_count :
        report[q].project_id = id => report[q].period[2] <= period[1]
  <2> SUFFICES ASSUME NEW q \in 1 .. report_count, report[q].project_id = id
               PROVE  report[q].period[2] <= period[1]
    BY Zenon
  <2> DEFINE last == periods[id][Len(periods[id])]
  <2>1. periods[id] # <<>> /\ report[q].period[2] <= last[2]
    BY Zenon DEF IInv, LastPeriodCovers
  <2>2. period[1] >= last[2]
    BY <1>1, <2>1, Zenon DEF PeriodFree
  <2>3. last \in Nat \X Nat
    BY <1>3, <2>1
  <2>4. report[q].period \in Nat \X Nat
    BY ReportFields, Zenon
  <2> HIDE DEF last
  <2>5. last[2] \in Nat /\ report[q].period[2] \in Nat /\ period[1] \in Nat
    BY <1>1, <2>3, <2>4, SMTT(30)
  <2> QED
    BY ONLY <2>1, <2>2, <2>5
<1>8. ReportsTypeOK'
  <2> SUFFICES ASSUME NEW q \in ReportIds
               PROVE  /\ "status" \in DOMAIN report'[q]
                      /\ q > r => report'[q].status = "None"
                      /\ q <= r => /\ {"project_id", "period"} \subseteq DOMAIN report'[q]
                                   /\ report'[q].project_id \in ProjectIds
                                   /\ report'[q].period \in Nat \X Nat
                                   /\ report'[q].period[1] < report'[q].period[2]
    BY <1>1, <1>3, <1>4, <1>5, <1>6, SMTT(30) DEF ReportsTypeOK
  <2>1. q \in Nat
    BY IdsNatural, Zenon
  <2>2. CASE q = r
    <3>1. ~(q > r)
      BY <2>1, <2>2
    <3> QED
      BY <1>1, <1>2, <1>4, <2>2, <3>1, Zenon
  <2>3. CASE q # r
    <3>1. report'[q] = report[q] /\ (q > r => q > report_count) /\ (q <= r => q <= report_count)
      <4>1. report'[q] = report[q]
        BY <1>4, <2>3, Zenon
      <4>2. (q > r => q > report_count) /\ (q <= r => q <= report_count)
        BY <1>3, <2>1, <2>3
      <4> QED
        BY <4>1, <4>2, Zenon
    <3> QED
      BY <3>1 DEF IInv, ReportsTypeOK
  <2> QED
    BY <2>2, <2>3, Zenon
<1>9. ChallengesTypeOK' /\ BondsAddUp'
  BY <1>1, Zenon DEF IInv, ChallengesTypeOK, BondsAddUp, BondsOf
<1>10. ChallengedWhileOpen'
  <2>1. report[r].status = "None"
    <3>1. r > report_count
      BY <1>3
    <3> QED
      BY <1>1, <3>1, Zenon DEF IInv, ReportsTypeOK
  <2> QED
    BY <1>1, <1>2, <1>4, <2>1, ZenonT(40) DEF IInv, ChallengedWhileOpen
<1>11. \A q \in 1 .. report_count' : q \in 1 .. report_count \/ q = r
  BY <1>1, <1>3
<1>12. LastPeriodCovers'
  <2> SUFFICES ASSUME NEW q \in 1 .. report_count'
               PROVE  /\ periods'[report'[q].project_id] # <<>>
                      /\ report'[q].period[2]
                           <= periods'[report'[q].project_id][Len(periods'[report'[q].project_id])][2]
    BY Zenon DEF LastPeriodCovers
  <2>1. CASE q = r
    BY <1>1, <1>2, <1>4, <1>6, <2>1, SMTT(30)
  <2>2. CASE q \in 1 .. report_count
    <3>1. report'[q] = report[q] /\ report[q].project_id \in ProjectIds
      BY <1>4, <1>5, <2>2, ReportFields, Zenon
    <3>2. CASE report[q].project_id = id
      <4>1. report[q].period[2] <= period[1] /\ report[q].period \in Nat \X Nat
        BY <1>7, <2>2, <3>2, ReportFields, Zenon
      <4>2. report[q].period[2] <= period[2]
        <5>1. period[1] \in Nat /\ period[2] \in Nat /\ period[1] <= period[2]
          BY <1>1
        <5>2. report[q].period[2] \in Nat
          BY <4>1, Zenon
        <5> QED
          BY ONLY <4>1, <5>1, <5>2
      <4> QED
        BY <1>6, <3>1, <3>2, <4>2, SMTT(30)
    <3>3. CASE report[q].project_id # id
      BY <1>6, <2>2, <3>1, <3>3, ZenonT(40) DEF IInv, LastPeriodCovers
    <3> QED
      BY <3>2, <3>3, ZenonT(40)
  <2> QED
    BY <1>11, <2>1, <2>2, Zenon
<1>13. PeriodsDisjoint'
  <2>1. \A q \in 1 .. report_count : report'[q] = report[q]
    BY <1>4, <1>5, Zenon
  <2>2. \A q \in 1 .. report_count : report[q].period \in Nat \X Nat
    BY ReportFields, Zenon
  <2>3. \A q \in 1 .. report_count : report[q].project_id = id =>
          ~Overlap(report[q].period, period) /\ ~Overlap(period, report[q].period)
    BY <1>1, <1>7, <2>2 DEF Overlap
  <2> QED
    BY <1>2, <1>4, <1>11, <2>1, <2>3, ZenonT(30) DEF IInv, PeriodsDisjoint
<1> QED
  BY <1>8, <1>9, <1>10, <1>12, <1>13, Zenon DEF IInv

-----------------------------------------------------------------------------
(* The kinds of steps, as far as reports, periods and bonds are concerned.  *)

(* A step that touches none of them, except a challenger's free balance. *)
Elsewhere ==
  /\ UNCHANGED <<report_count, report, periods, challenge, bond_lock>>
  /\ bond_balance' \in [Challengers -> Nat]

(* Report r, and no other, gets the status to and keeps its other fields. *)
OnlyStatus(r, to) ==
  /\ DOMAIN report' = ReportIds
  /\ \A q \in ReportIds \ {r} : report'[q] = report[q]
  /\ report'[r].status = to
  /\ DOMAIN report'[r] = DOMAIN report[r]
  /\ \A f \in DOMAIN report[r] \ {"status"} : report'[r][f] = report[r][f]

Judged(r, to) ==
  /\ report[r].status = "Pending"
  /\ OnlyStatus(r, to)
  /\ UNCHANGED <<report_count, periods, challenge, bond_lock, bond_balance>>

Settled(r, to, refund) ==
  /\ challenge[r].state = "Open"
  /\ OnlyStatus(r, to)
  /\ DOMAIN challenge' = ReportIds
  /\ \A q \in ReportIds \ {r} : challenge'[q] = challenge[q]
  /\ "state" \in DOMAIN challenge'[r] /\ challenge'[r].state = "Resolved"
  /\ settle_challenge_bond(challenge[r].challenger, challenge[r].bond, refund)
  /\ UNCHANGED <<report_count, periods>>

(* The two updates of entries the calls make, seen entry by entry.          *)
LEMMA StatusUpdate ==
  ASSUME IInv, NEW r \in ReportIds, NEW to, report' = [report EXCEPT ![r].status = to]
  PROVE  OnlyStatus(r, to)
<1> DEFINE new == [report[r] EXCEPT !.status = to]
<1>1. "status" \in DOMAIN report[r] /\ DOMAIN report = ReportIds
  BY DEF IInv, ReportsTypeOK
<1>2. /\ new.status = to
      /\ DOMAIN new = DOMAIN report[r]
      /\ \A f \in DOMAIN report[r] \ {"status"} : new[f] = report[r][f]
  BY <1>1, Zenon
<1>3. report' = [report EXCEPT ![r] = new]
  OBVIOUS
<1> HIDE DEF new
<1> QED
  BY <1>1, <1>2, <1>3 DEF OnlyStatus

LEMMA StateUpdate ==
  ASSUME IInv, NEW r \in ReportIds, NEW to,
         \/ challenge' = [challenge EXCEPT ![r].state = "Resolved"]
         \/ challenge' = [challenge EXCEPT ![r].state = "Resolved", ![r].resolution = to]
  PROVE  /\ DOMAIN challenge' = ReportIds
         /\ \A q \in ReportIds \ {r} : challenge'[q] = challenge[q]
         /\ "state" \in DOMAIN challenge'[r] /\ challenge'[r].state = "Resolved"
<1> DEFINE one == [challenge[r] EXCEPT !.state = "Resolved"]
           two == [one EXCEPT !.resolution = to]
<1>1. "state" \in DOMAIN challenge[r] /\ DOMAIN challenge = ReportIds
  BY DEF IInv, ChallengesTypeOK
<1>2. one.state = "Resolved" /\ "state" \in DOMAIN one
  BY <1>1, Zenon
<1>3. CASE challenge' = [challenge EXCEPT ![r].state = "Resolved"]
  <2>1. challenge' = [challenge EXCEPT ![r] = one]
    BY <1>3
  <2> HIDE DEF one
  <2> QED
    BY <1>1, <1>2, <2>1
<1>4. CASE challenge' = [challenge EXCEPT ![r].state = "Resolved", ![r].resolution = to]
  <2> DEFINE mid == [challenge EXCEPT ![r] = one]
  <2>1. two.state = "Resolved" /\ "state" \in DOMAIN two
    <3> HIDE DEF one
    <3> QED BY <1>2, Zenon
  <2>2. mid[r] = one
    <3> HIDE DEF one
    <3> QED BY <1>1
  <2>3. challenge' = [mid EXCEPT ![r] = [mid[r] EXCEPT !.resolution = to]]
    BY <1>4
  <2>4. challenge' = [mid EXCEPT ![r] = two]
    <3> HIDE DEF one, mid
    <3> QED BY <2>2, <2>3, Zenon
  <2> HIDE DEF two, one
  <2> QED
    BY <1>1, <2>1, <2>4
<1> QED
  BY <1>3, <1>4

(* Deposits and withdrawals move free balance only, and never below zero.   *)
LEMMA DepositsKeepBonds ==
  ASSUME IInv, NEW a \in Challengers, NEW amount \in BondDeposits,
         deposit_challenge_bond(a, amount) \/ withdraw_challenge_bond(a, amount)
  PROVE  Elsewhere
<1>1. /\ amount \in Int /\ bond_balance[a] \in Nat
      /\ bond_balance \in [Challengers -> Nat]
  BY OracleAssumption, Zenon DEF IInv, ChallengesTypeOK
<1>2. UNCHANGED <<report_count, report, periods, challenge, bond_lock>>
  BY DEF deposit_challenge_bond, withdraw_challenge_bond, SetBondBalance, reportVars, indexVars
<1>3. CASE deposit_challenge_bond(a, amount)
  <2>1. amount > 0 /\ bond_balance' = [bond_balance EXCEPT ![a] = bond_balance[a] + amount]
    BY <1>3 DEF deposit_challenge_bond, SetBondBalance
  <2> QED
    BY <1>1, <1>2, <2>1 DEF Elsewhere
<1>4. CASE withdraw_challenge_bond(a, amount)
  <2>1. /\ amount <= bond_balance[a]
        /\ bond_balance' = [bond_balance EXCEPT ![a] = bond_balance[a] - amount]
    BY <1>1, <1>4 DEF withdraw_challenge_bond, SetBondBalance
  <2> QED
    BY <1>1, <1>2, <2>1 DEF Elsewhere
<1> QED
  BY <1>3, <1>4, Zenon

(* Every step of the specification is of one of these kinds.                *)
LEMMA StepKinds ==
  ASSUME IInv, [OracleNext]_allVars
  PROVE  \/ Elsewhere
         \/ \E p \in Providers, id \in ProjectIds, period \in Periods : submit_report(p, id, period)
         \/ \E r \in ReportIds, to \in Terminal : Judged(r, to)
         \/ \E a \in Challengers, r \in ReportIds : challenge_report(a, r)
         \/ \E r \in ReportIds, to \in {"Pending", "Verified", "Rejected"}, refund \in BOOLEAN :
              Settled(r, to, refund)
<1> USE OracleAssumption DEF IInv, ChallengesTypeOK, ReportsTypeOK, reportVars, challengeVars, indexVars
<1>1. CASE UNCHANGED oracleVars
  BY <1>1, Zenon DEF oracleVars, Elsewhere
<1>2. ASSUME NEW r \in ReportIds, NEW to \in Terminal, finalize_challenge(r, to),
             UNCHANGED unsettledVars
      PROVE  Settled(r, to, to = "Rejected")
  <2>1. OnlyStatus(r, to)
    BY <1>2, StatusUpdate, Zenon DEF finalize_challenge
  <2>2. /\ DOMAIN challenge' = ReportIds
        /\ \A q \in ReportIds \ {r} : challenge'[q] = challenge[q]
        /\ "state" \in DOMAIN challenge'[r] /\ challenge'[r].state = "Resolved"
    BY <1>2, StateUpdate, Zenon DEF finalize_challenge
  <2> QED
    BY <1>2, <2>1, <2>2 DEF finalize_challenge, Settled, unsettledVars
<1>3. ASSUME NEW p \in Providers, ProviderCall(p),
             \A id \in ProjectIds, period \in Periods : ~submit_report(p, id, period)
      PROVE  \/ Elsewhere
             \/ \E r \in ReportIds, to \in Terminal : Judged(r, to)
             \/ \E r \in ReportIds, to \in {"Pending", "Verified", "Rejected"}, refund \in BOOLEAN :
                  Settled(r, to, refund)
  <2>1. CASE \E r \in ReportIds : verify_report(p, r)
    BY <2>1, StatusUpdate, ZenonT(40) DEF verify_report, Elsewhere, Judged, Terminal
  <2>2. ASSUME NEW r \in ReportIds, NEW uphold \in BOOLEAN,
               resolve_challenge_by_verifier(p, r, uphold)
        PROVE  Elsewhere \/ \E to \in Terminal : Settled(r, to, to = "Rejected")
    <3>1. UNCHANGED unsettledVars
      BY <2>2, Zenon DEF resolve_challenge_by_verifier
    <3>2. CASE finalize_challenge(r, "Verified")
      BY <3>1, <3>2, <1>2, Zenon DEF Terminal
    <3>3. CASE finalize_challenge(r, "Rejected")
      BY <3>1, <3>3, <1>2, Zenon DEF Terminal
    <3>4. CASE UNCHANGED <<challenge, bond_balance, bond_lock, report>>
      BY <3>1, <3>4, Zenon DEF unsettledVars, Elsewhere
    <3> QED
      BY <2>2, <3>2, <3>3, <3>4, Zenon DEF resolve_challenge_by_verifier
  <2>3. CASE \E amount \in Stakes : add_stake(p, amount) \/ withdraw_stake(p, amount)
    BY <2>3, Zenon DEF add_stake, withdraw_stake, SetStake, Elsewhere
  <2> QED
    BY <1>3, <2>1, <2>2, <2>3, Zenon DEF ProviderCall, Terminal
<1>4. ASSUME NEW caller, AdminCall(caller)
      PROVE  \/ Elsewhere
             \/ \E r \in ReportIds, to \in Terminal : Judged(r, to)
             \/ \E r \in ReportIds, to \in {"Pending", "Verified", "Rejected"}, refund \in BOOLEAN :
                  Settled(r, to, refund)
  <2>1. CASE \E p \in Providers : register_provider(caller, p) \/ remove_provider(caller, p)
    BY <2>1, Zenon DEF register_provider, remove_provider, Elsewhere
  <2>2. CASE \E r \in ReportIds, status \in ReportStatuses : admin_override_report(caller, r, status)
    BY <2>2, StatusUpdate, Zenon DEF admin_override_report, Judged
  <2>3. CASE \E r \in ReportIds, status \in ReportStatuses : resolve_challenge(caller, r, status)
    BY <2>3, <1>2, ZenonT(40) DEF resolve_challenge, Terminal
  <2>4. CASE \E threshold \in 0 .. Cardinality(Providers) : set_signature_threshold(caller, threshold)
    BY <2>4, Zenon DEF set_signature_threshold, Elsewhere
  <2>5. CASE set_project_registry(caller)
    BY <2>5, Zenon DEF set_project_registry, Elsewhere
  <2> QED
    BY <1>4, <2>1, <2>2, <2>3, <2>4, <2>5, Zenon DEF AdminCall
<1>5. ASSUME NEW a \in Challengers, OpenCall(a), \A r \in ReportIds : ~challenge_report(a, r)
      PROVE  Elsewhere \/ \E r \in ReportIds : Settled(r, "Pending", TRUE)
  <2>1. ASSUME NEW r \in ReportIds, expire_stale_challenge(r)
        PROVE  Settled(r, "Pending", TRUE)
    <3>1. OnlyStatus(r, "Pending")
      BY <2>1, StatusUpdate, Zenon DEF expire_stale_challenge
    <3>2. /\ DOMAIN challenge' = ReportIds
          /\ \A q \in ReportIds \ {r} : challenge'[q] = challenge[q]
          /\ "state" \in DOMAIN challenge'[r] /\ challenge'[r].state = "Resolved"
      BY <2>1, StateUpdate, Zenon DEF expire_stale_challenge
    <3> QED
      BY <2>1, <3>1, <3>2, Zenon DEF expire_stale_challenge, Settled
  <2>2. CASE \E amount \in BondDeposits :
               deposit_challenge_bond(a, amount) \/ withdraw_challenge_bond(a, amount)
    BY <2>2, DepositsKeepBonds, Zenon
  <2> QED
    BY <1>5, <2>1, <2>2, Zenon DEF OpenCall
<1>6. CASE rotate_oracle_admin
  BY <1>6, ZenonT(30) DEF rotate_oracle_admin, Elsewhere
<1>7. CASE UNCHANGED allVars
  BY <1>1, <1>7, ZenonT(30) DEF allVars
<1> QED
  BY <1>1, <1>3, <1>4, <1>5, <1>6, <1>7, Zenon DEF OracleNext, OracleCall

-----------------------------------------------------------------------------
(* The lifecycle of a report *)

(* Before the first report nothing is challenged and no bond is locked.     *)
LEMMA IInvInit == OracleInit => IInv
<1> SUFFICES ASSUME OracleInit
             PROVE  IInv
  OBVIOUS
<1> USE OracleAssumption DEF OracleInit
<1>1. \A r \in ReportIds : /\ report[r] = [status |-> "None"] /\ report[r].status = "None"
                           /\ challenge[r] = [state |-> "None"] /\ challenge[r].state = "None"
  BY Zenon DEF NoReport, NoChallenge
<1>2. ReportsTypeOK
  <2>1. \A r \in ReportIds : "status" \in DOMAIN report[r]
    BY <1>1, Zenon
  <2>2. \A r \in ReportIds : r > report_count
    BY DEF ReportIds
  <2> QED
    BY <1>1, <2>1, <2>2 DEF ReportsTypeOK, ReportIds
<1>3. ChallengesTypeOK
  BY <1>1, Zenon DEF ChallengesTypeOK
<1>4. ChallengedWhileOpen
  BY <1>1, Zenon DEF ChallengedWhileOpen
<1>5. LastPeriodCovers /\ PeriodsDisjoint
  BY DEF LastPeriodCovers, PeriodsDisjoint
<1>6. BondsAddUp
  <2> SUFFICES ASSUME NEW a \in Challengers
               PROVE  /\ IsFiniteSet(UnitsOf(ReportIds, BondsOf(a)))
                      /\ Total(ReportIds, BondsOf(a)) = bond_lock[a]
    BY Zenon DEF BondsAddUp
  <2>1. \A r \in ReportIds : BondsOf(a)[r] = 0
    BY <1>1, Zenon DEF BondsOf
  <2> QED
    BY <2>1, TotalZero, ZenonT(30)
<1> QED
  BY <1>2, <1>3, <1>4, <1>5, <1>6, Zenon DEF IInv

(* The bonds of the open challenges are naturals.                           *)
LEMMA BondsNatural ==
  ASSUME IInv
  PROVE  \A a \in Challengers : BondsOf(a) \in [ReportIds -> Nat]
  BY SMTT(30) DEF IInv, ChallengesTypeOK, BondsOf

(* A step that leaves reports, challenges and locks alone.                  *)
LEMMA ElsewhereKeeps ==
  ASSUME IInv, Elsewhere
  PROVE  IInv'
  BY ZenonT(30) DEF Elsewhere, IInv, ReportsTypeOK, ChallengesTypeOK, ChallengedWhileOpen, LastPeriodCovers,
         PeriodsDisjoint, BondsAddUp, BondsOf

(* A change of status leaves what a report is about alone.                  *)
LEMMA StatusKeepsReports ==
  ASSUME IInv, NEW r \in ReportIds, NEW to, report[r].status # "None", OnlyStatus(r, to),
         UNCHANGED <<report_count, periods>>
  PROVE  ReportsTypeOK' /\ LastPeriodCovers' /\ PeriodsDisjoint'
<1> USE DEF IInv
<1>1. report_count \in Nat /\ report_count <= MaxReports
  BY DEF ReportsTypeOK
<1>2. \A q \in 1 .. report_count : q \in ReportIds
  BY <1>1, OracleAssumption DEF ReportIds
<1>3. \A q \in 1 .. report_count : /\ report'[q].project_id = report[q].project_id
                                   /\ report'[q].period = report[q].period
                                   /\ DOMAIN report'[q] = DOMAIN report[q]
  <2> SUFFICES ASSUME NEW q \in 1 .. report_count
               PROVE  /\ report'[q].project_id = report[q].project_id
                      /\ report'[q].period = report[q].period
                      /\ DOMAIN report'[q] = DOMAIN report[q]
    BY Zenon
  <2>1. q \in ReportIds /\ {"project_id", "period"} \subseteq DOMAIN report[q]
    BY <1>1, <1>2 DEF ReportsTypeOK
  <2>2. {"project_id", "period"} \subseteq DOMAIN report[q] \ {"status"}
    BY <2>1
  <2>3. CASE q = r
    BY <2>2, <2>3, Zenon DEF OnlyStatus
  <2>4. CASE q # r
    BY <2>1, <2>4, Zenon DEF OnlyStatus
  <2> QED
    BY <2>3, <2>4, Zenon
<1>4. r <= report_count
  <2>1. ~(r > report_count)
    BY Zenon DEF ReportsTypeOK
  <2>2. r \in Nat
    BY IdsNatural, Zenon
  <2> QED
    BY ONLY <1>1, <2>1, <2>2
<1>5. ReportsTypeOK'
  BY <1>1, <1>2, <1>3, <1>4, OracleAssumption DEF ReportsTypeOK, OnlyStatus, ReportIds
<1>6. LastPeriodCovers'
  BY <1>3, Zenon DEF LastPeriodCovers
<1>7. PeriodsDisjoint'
  <2> SUFFICES ASSUME NEW a \in 1 .. report_count, NEW c \in 1 .. report_count, a # c,
                      report'[a].project_id = report'[c].project_id
               PROVE  ~Overlap(report'[a].period, report'[c].period)
    BY Zenon DEF PeriodsDisjoint
  <2>1. ~Overlap(report[a].period, report[c].period)
    BY <1>3, Zenon DEF PeriodsDisjoint
  <2> QED
    BY <1>3, <2>1, Zenon
<1> QED
  BY <1>5, <1>6, <1>7

(* A verdict on a pending report, whose challenge is not open.              *)
LEMMA JudgedKeeps ==
  ASSUME IInv, NEW r \in ReportIds, NEW to \in Terminal, Judged(r, to)
  PROVE  IInv'
<1> USE DEF IInv
<1>1. ReportsTypeOK' /\ LastPeriodCovers' /\ PeriodsDisjoint'
  BY StatusKeepsReports DEF Judged
<1>2. ChallengesTypeOK' /\ BondsAddUp'
  BY ZenonT(30) DEF Judged, ChallengesTypeOK, BondsAddUp, BondsOf
<1>3. ChallengedWhileOpen'
  BY Zenon DEF Judged, OnlyStatus, ChallengedWhileOpen, Terminal
<1> QED
  BY <1>1, <1>2, <1>3, Zenon

(* A new challenge locks its bond.                                          *)
LEMMA ChallengeKeeps ==
  ASSUME IInv, NEW a \in Challengers, NEW r \in ReportIds, challenge_report(a, r)
  PROVE  IInv'
<1> USE OracleAssumption
<1> DEFINE opened == [state |-> "Open", challenger |-> a, submitted_at |-> now,
                      resolution |-> "None", bond |-> CHALLENGE_BOND]
<1>1. /\ report[r].status = "Pending" /\ challenge[r].state = "None"
      /\ report' = [report EXCEPT ![r].status = "Challenged"]
      /\ challenge' = [challenge EXCEPT ![r] = opened]
      /\ bond_balance[a] >= CHALLENGE_BOND
      /\ bond_balance' = [bond_balance EXCEPT ![a] = bond_balance[a] - CHALLENGE_BOND]
      /\ bond_lock' = [bond_lock EXCEPT ![a] = bond_lock[a] + CHALLENGE_BOND]
      /\ UNCHANGED <<report_count, periods>>
  BY DEF challenge_report, charge_challenge_bond, indexVars
<1>2. OnlyStatus(r, "Challenged")
  BY <1>1, StatusUpdate, ZenonT(40)
<1>3. ReportsTypeOK' /\ LastPeriodCovers' /\ PeriodsDisjoint'
  BY <1>1, <1>2, StatusKeepsReports, Zenon
<1>4. /\ opened.state = "Open" /\ opened.challenger = a /\ opened.bond = CHALLENGE_BOND
      /\ "state" \in DOMAIN opened
  OBVIOUS
<1> HIDE DEF opened
<1>5. /\ DOMAIN challenge' = ReportIds
      /\ challenge'[r] = opened
      /\ \A q \in ReportIds \ {r} : challenge'[q] = challenge[q]
  BY <1>1, Zenon DEF IInv, ChallengesTypeOK
<1>6. ChallengesTypeOK'
  <2>1. bond_balance' \in [Challengers -> Nat] /\ bond_lock' \in [Challengers -> Nat]
    <3>1. bond_balance \in [Challengers -> Nat] /\ bond_lock \in [Challengers -> Nat]
      BY Zenon DEF IInv, ChallengesTypeOK
    <3> QED
      BY <1>1, <3>1, SMTT(30)
  <2> QED
    BY <1>4, <1>5, <2>1, Zenon DEF IInv, ChallengesTypeOK
<1>7. ChallengedWhileOpen'
  BY <1>2, <1>4, <1>5 DEF IInv, ChallengedWhileOpen, OnlyStatus
<1>8. BondsAddUp'
  <2> SUFFICES ASSUME NEW b \in Challengers
               PROVE  /\ IsFiniteSet(UnitsOf(ReportIds, BondsOf(b)'))
                      /\ Total(ReportIds, BondsOf(b)') = bond_lock'[b]
    BY Zenon DEF BondsAddUp
  <2>1. BondsOf(b) \in [ReportIds -> Nat] /\ bond_lock \in [Challengers -> Nat]
    BY BondsNatural, Zenon DEF IInv, ChallengesTypeOK
  <2>2. BondsOf(b)' \in [ReportIds -> Nat]
    BY <1>6, Zenon DEF ChallengesTypeOK, BondsOf
  <2>3. /\ IsFiniteSet(UnitsOf(ReportIds, BondsOf(b)))
        /\ Total(ReportIds, BondsOf(b)) = bond_lock[b]
    BY Zenon DEF IInv, BondsAddUp
  <2>4. \A q \in ReportIds \ {r} : BondsOf(b)'[q] = BondsOf(b)[q]
    BY <1>5 DEF BondsOf
  <2>5. BondsOf(b)[r] = 0
    BY <1>1 DEF BondsOf
  <2>6. CASE b = a
    <3>1. BondsOf(b)'[r] = BondsOf(b)[r] + CHALLENGE_BOND
      BY <1>4, <1>5, <2>5, <2>6 DEF BondsOf
    <3>2. /\ IsFiniteSet(UnitsOf(ReportIds, BondsOf(b)'))
          /\ Total(ReportIds, BondsOf(b)') = Total(ReportIds, BondsOf(b)) + CHALLENGE_BOND
      <4> DEFINE f == BondsOf(b)
                 g == BondsOf(b)'
      <4>1. /\ f \in [ReportIds -> Nat] /\ g \in [ReportIds -> Nat]
            /\ CHALLENGE_BOND \in Nat /\ g[r] = f[r] + CHALLENGE_BOND
            /\ \A q \in ReportIds \ {r} : g[q] = f[q]
            /\ IsFiniteSet(UnitsOf(ReportIds, f))
        BY <2>1, <2>2, <2>3, <2>4, <3>1, OracleAssumption, Zenon
      <4> HIDE DEF f, g
      <4>2. IsFiniteSet(UnitsOf(ReportIds, g)) /\ Total(ReportIds, g) = Total(ReportIds, f) + CHALLENGE_BOND
        BY ONLY r \in ReportIds, <4>1, TotalRaised, Zenon
      <4> QED
        BY <4>2, Zenon DEF f, g
    <3> QED
      BY <1>1, <2>1, <2>3, <2>6, <3>2, Zenon
  <2>7. CASE b # a
    <3>1. BondsOf(b)'[r] = BondsOf(b)[r]
      BY <1>4, <1>5, <2>5, <2>7, Zenon DEF BondsOf
    <3>2. BondsOf(b)' = BondsOf(b)
      BY <2>1, <2>2, <2>4, <3>1
    <3> QED
      BY <1>1, <2>1, <2>3, <2>7, <3>2, Zenon
  <2> QED
    BY <2>6, <2>7, Zenon
<1> QED
  BY <1>3, <1>6, <1>7, <1>8, Zenon DEF IInv

(* A settled challenge releases exactly its bond: the challenger's lock     *)
(* covers it, since the lock is a sum that contains it.                     *)
LEMMA SettledKeeps ==
  ASSUME IInv, NEW r \in ReportIds, NEW to \in {"Pending", "Verified", "Rejected"},
         NEW refund \in BOOLEAN, Settled(r, to, refund)
  PROVE  IInv'
<1> DEFINE a == challenge[r].challenger
           bond == challenge[r].bond
<1>1. /\ challenge[r].state = "Open" /\ a \in Challengers /\ bond \in Nat
      /\ report[r].status = "Challenged"
      /\ bond_lock \in [Challengers -> Nat] /\ bond_balance \in [Challengers -> Nat]
  BY DEF Settled, IInv, ChallengesTypeOK, ChallengedWhileOpen
<1>2. /\ DOMAIN challenge' = ReportIds
      /\ \A q \in ReportIds \ {r} : challenge'[q] = challenge[q]
      /\ "state" \in DOMAIN challenge'[r] /\ challenge'[r].state = "Resolved"
  BY ZenonT(30) DEF Settled
<1>3. ReportsTypeOK' /\ LastPeriodCovers' /\ PeriodsDisjoint'
  BY <1>1, StatusKeepsReports, Zenon DEF Settled
<1>4. ChallengedWhileOpen'
  <2> SUFFICES ASSUME NEW q \in ReportIds
               PROVE  report'[q].status = "Challenged" <=> challenge'[q].state = "Open"
    BY Zenon DEF ChallengedWhileOpen
  <2>1. CASE q = r
    BY <1>2, <2>1, Zenon DEF Settled, OnlyStatus
  <2>2. CASE q # r
    BY <1>2, <2>2, Zenon DEF IInv, Settled, ChallengedWhileOpen, OnlyStatus
  <2> QED
    BY <2>1, <2>2, Zenon
<1>5. ASSUME NEW b \in Challengers
      PROVE  /\ IsFiniteSet(UnitsOf(ReportIds, BondsOf(b)'))
             /\ Total(ReportIds, BondsOf(b)') \in Nat
             /\ b = a => Total(ReportIds, BondsOf(b)') = bond_lock[b] - bond
             /\ b # a => Total(ReportIds, BondsOf(b)') = bond_lock[b]
  <2>1. BondsOf(b) \in [ReportIds -> Nat]
    BY BondsNatural
  <2>2. BondsOf(b)'[r] = 0 /\ \A q \in ReportIds \ {r} : BondsOf(b)'[q] = BondsOf(b)[q]
    BY <1>2, ZenonT(30) DEF BondsOf
  <2>3. BondsOf(b)' \in [ReportIds -> Nat]
    <3>1. \A q \in ReportIds : BondsOf(b)'[q] \in Nat
      BY <2>1, <2>2
    <3> QED
      BY <3>1, Zenon DEF BondsOf
  <2>4. /\ IsFiniteSet(UnitsOf(ReportIds, BondsOf(b)))
        /\ Total(ReportIds, BondsOf(b)) = bond_lock[b]
    BY Zenon DEF IInv, BondsAddUp
  <2>5. BondsOf(b)[r] = IF b = a THEN bond ELSE 0
    BY <1>1, Zenon DEF BondsOf
  <2>6. /\ IsFiniteSet(UnitsOf(ReportIds, BondsOf(b)'))
        /\ Total(ReportIds, BondsOf(b)') \in Nat
        /\ Total(ReportIds, BondsOf(b)') = Total(ReportIds, BondsOf(b)) - BondsOf(b)[r]
    BY <2>1, <2>2, <2>3, <2>4, TotalLowered
  <2>7. CASE b = a
    BY <2>4, <2>5, <2>6, <2>7, Zenon
  <2>8. CASE b # a
    BY <1>1, <2>4, <2>5, <2>6, <2>8, OrderFacts, Zenon
  <2> QED
    BY <2>7, <2>8, Zenon
<1>6. bond <= bond_lock[a]
  BY <1>1, <1>5
<1>7. /\ bond_lock' = [bond_lock EXCEPT ![a] = bond_lock[a] - bond]
      /\ bond_balance' \in [Challengers -> Nat]
  <2> HIDE DEF a, bond
  <2>1. settle_challenge_bond(a, bond, refund)
    BY Zenon DEF Settled, a, bond
  <2>2. (IF bond < bond_lock[a] THEN bond ELSE bond_lock[a]) = bond
    BY <1>1, <1>6
  <2>3. /\ bond_lock' = [bond_lock EXCEPT ![a] = bond_lock[a] - bond]
        /\ bond_balance' = [bond_balance EXCEPT ![a] = IF refund THEN bond_balance[a] + bond
                                                      ELSE bond_balance[a]]
    BY <2>1, <2>2, Zenon DEF settle_challenge_bond
  <2>4. (IF refund THEN bond_balance[a] + bond ELSE bond_balance[a]) \in Nat
    BY <1>1
  <2> QED
    BY <1>1, <2>3, <2>4
<1> HIDE DEF a, bond
<1>8. ChallengesTypeOK'
  <2>1. bond_lock' \in [Challengers -> Nat]
    BY <1>1, <1>6, <1>7, SMTT(30)
  <2> QED
    BY <1>2, <1>7, <2>1, Zenon DEF IInv, ChallengesTypeOK
<1>9. BondsAddUp'
  BY <1>1, <1>5, <1>7, Zenon DEF BondsAddUp
<1> QED
  BY <1>3, <1>4, <1>8, <1>9, Zenon DEF IInv

(* Every step preserves the invariant.                                      *)
LEMMA IInvStep == IInv /\ [OracleNext]_allVars => IInv'
<1> SUFFICES ASSUME IInv, [OracleNext]_allVars
             PROVE  IInv'
  OBVIOUS
<1> QED
  BY StepKinds, ElsewhereKeeps, SubmitKeeps, JudgedKeeps, ChallengeKeeps, SettledKeeps, Zenon

(* The invariant holds in every behaviour of the oracle and its registry.   *)
THEOREM IInvHolds == OracleSpec => []IInv
<1> QED
  BY IInvInit, IInvStep, PTL DEF OracleSpec

-----------------------------------------------------------------------------
(* A report is Challenged exactly while its challenge is open, and every    *)
(* challenger's lock is the sum of the bonds of its open challenges:        *)
(* challenge_report, finalize_challenge and expire_stale_challenge account  *)
(* for every bond, in any order.                                            *)
THEOREM BondsAccounted == OracleSpec => []ChallengeBondsAddUp
<1>1. IInv => ChallengeBondsAddUp
  <2> SUFFICES ASSUME IInv
               PROVE  ChallengeBondsAddUp
    BY Zenon
  <2>1. \A r \in ReportIds : report[r].status = "Challenged" <=> challenge[r].state = "Open"
    BY Zenon DEF IInv, ChallengedWhileOpen
  <2>2. \A a \in Challengers : bond_balance[a] >= 0
    BY DEF IInv, ChallengesTypeOK
  <2>3. \A a \in Challengers : bond_lock[a] = Total(ReportIds, BondsOf(a))
    BY DEF IInv, BondsAddUp
  <2> QED
    BY <2>1, <2>2, <2>3, Zenon
       DEF ChallengeBondsAddUp, BondsOf, get_report, get_challenge, get_challenge_bond_balance,
           get_locked_challenge_bond
<1> QED
  BY <1>1, IInvHolds, PTL

(* The periods of a project's reports never overlap, though the history     *)
(* submit_report compares with forgets old windows.                         *)
THEOREM PeriodsKeptApart == OracleSpec => []PeriodsDisjoint
<1>1. IInv => PeriodsDisjoint
  BY Zenon DEF IInv
<1> QED
  BY <1>1, IInvHolds, PTL

(* Whatever call is made, at most one report changes status, and by a move  *)
(* of the lifecycle.                                                        *)
LEMMA LifecycleStep ==
  ASSUME IInv, [OracleNext]_allVars
  PROVE  [Lifecycle!LifecycleNext]_([r \in ReportIds |-> report[r].status])
<1> DEFINE Status == [r \in ReportIds |-> report[r].status]
<1>1. ASSUME NEW r \in ReportIds, NEW to \in {"Pending", "Verified", "Challenged", "Rejected"},
             \A q \in ReportIds \ {r} : report'[q] = report[q], report'[r].status = to,
             <<report[r].status, to>> \in Lifecycle!Moves
      PROVE  Lifecycle!LifecycleNext
  <2>1. Status' = [Status EXCEPT ![r] = to]
    BY <1>1, Zenon
  <2>2. <<Status[r], to>> \in Lifecycle!Moves
    BY <1>1
  <2> QED
    BY <2>1, <2>2, Zenon DEF Lifecycle!LifecycleNext, Lifecycle!MoveReport
<1>2. CASE Elsewhere
  BY <1>2 DEF Elsewhere
<1>3. ASSUME NEW p \in Providers, NEW id \in ProjectIds, NEW period \in Periods,
             submit_report(p, id, period)
      PROVE  Lifecycle!LifecycleNext
  <2> DEFINE r == report_count + 1
             new == [status |-> "Pending", provider |-> p, project_id |-> id, period |-> period,
                     project_metadata_hash |-> project_hash[id], submitted_at |-> now]
  <2>1. r \in ReportIds /\ report' = [report EXCEPT ![r] = new]
    BY <1>3, Zenon DEF submit_report
  <2>2. new.status = "Pending"
    BY Zenon
  <2> HIDE DEF new
  <2>3. DOMAIN report = ReportIds /\ report[r].status = "None"
    BY <2>1, SMTT(30) DEF IInv, ReportsTypeOK
  <2>4. \A q \in ReportIds \ {r} : report'[q] = report[q]
    BY <2>1, <2>3, Zenon
  <2>5. report'[r].status = "Pending"
    BY <2>1, <2>2, <2>3, Zenon
  <2>6. <<report[r].status, "Pending">> \in Lifecycle!Moves
    BY <2>3, Zenon DEF Lifecycle!Moves
  <2> QED
    BY <1>1, <2>1, <2>4, <2>5, <2>6, ZenonT(40)
<1>4. ASSUME NEW r \in ReportIds, NEW to \in Terminal, Judged(r, to)
      PROVE  Lifecycle!LifecycleNext
  BY <1>1, <1>4, Zenon DEF Judged, OnlyStatus, Terminal, Lifecycle!Moves
<1>5. ASSUME NEW a \in Challengers, NEW r \in ReportIds, challenge_report(a, r)
      PROVE  Lifecycle!LifecycleNext
  <2>1. OnlyStatus(r, "Challenged") /\ report[r].status = "Pending"
    BY <1>5, StatusUpdate, Zenon DEF challenge_report
  <2> QED
    BY <1>1, <2>1 DEF OnlyStatus, Lifecycle!Moves
<1>6. ASSUME NEW r \in ReportIds, NEW to \in {"Pending", "Verified", "Rejected"},
             NEW refund \in BOOLEAN, Settled(r, to, refund)
      PROVE  Lifecycle!LifecycleNext
  <2>1. OnlyStatus(r, to) /\ report[r].status = "Challenged"
    BY <1>6 DEF Settled, IInv, ChallengedWhileOpen
  <2> QED
    BY <1>1, <2>1, Zenon DEF OnlyStatus, Lifecycle!Moves
<1> QED
  BY <1>2, <1>3, <1>4, <1>5, <1>6, StepKinds, Zenon

(* The oracle consumer implements ReportLifecycle: a report only ever moves *)
(* as the contracts that read it expect, and a verdict is final.            *)
THEOREM LifecycleImplemented == OracleSpec => ReportsFollowLifecycle
<1>1. OracleInit => Lifecycle!LifecycleInit
  BY DEF OracleInit, NoReport, Lifecycle!LifecycleInit
<1>2. IInv /\ [OracleNext]_allVars =>
        [Lifecycle!LifecycleNext]_([r \in ReportIds |-> report[r].status])
  BY LifecycleStep, Zenon
<1> QED
  BY <1>1, <1>2, IInvHolds, PTL DEF OracleSpec, ReportsFollowLifecycle, Lifecycle!LifecycleSpec

-----------------------------------------------------------------------------
(* The stakes of the providers and the parts of them reserved for reports,  *)
(* for any amounts and any penalty.                                         *)

LocksOf(p) == [r \in ReportIds |-> IF r \in ReportsOf(p) THEN report_lock[r] ELSE 0]

StakesTypeOK ==
  /\ stake \in [Providers -> Nat]
  /\ locked_stake \in [Providers -> Nat]
  /\ report_lock \in [ReportIds -> Nat]
  /\ DOMAIN slash_history = Providers
  /\ \A p \in Providers : \E S : slash_history[p] \in Seq(S)
  /\ \A r \in 1 .. report_count :
       "provider" \in DOMAIN report[r] /\ report[r].provider \in Providers

LocksAddUp ==
  \A p \in Providers :
    /\ IsFiniteSet(UnitsOf(ReportIds, LocksOf(p)))
    /\ Total(ReportIds, LocksOf(p)) = locked_stake[p]

(* The invariant of the stakes, inductive relative to IInv: a report's      *)
(* provider stays the one whose stake was reserved for it.                  *)
StakeInv == StakesTypeOK /\ LocksAddUp

(* No report changes hands. *)
SameProviders ==
  /\ report_count' = report_count
  /\ \A r \in 1 .. report_count :
       "provider" \in DOMAIN report'[r] /\ report'[r].provider = report[r].provider

(* What happens to p's stake: it is slashed, or it does not fall, or not    *)
(* below what is reserved.                                                  *)
StakeMoves(p) ==
  \/ slash_history'[p] # slash_history[p]
  \/ stake'[p] >= stake[p]
  \/ stake'[p] >= locked_stake[p]

StakesMoved ==
  /\ stake' \in [Providers -> Nat]
  /\ DOMAIN slash_history' = Providers
  /\ \A p \in Providers : \E S : slash_history'[p] \in Seq(S)
  /\ \A p \in Providers : StakeMoves(p)

LocksMoved ==
  \/ UNCHANGED <<report_lock, locked_stake>>
  \/ \E r \in 1 .. report_count : release_report_lock(r)

(* A penalty is at most the stake.                                          *)
LEMMA SlashableWithinStake ==
  ASSUME NEW s \in Nat
  PROVE  /\ slashable_amount(s) \in Nat /\ slashable_amount(s) <= s
         /\ s - slashable_amount(s) \in Nat
<1>1. s * SLASH_PENALTY_PPM \in Nat
  BY OracleAssumption
<1> DEFINE product == s * SLASH_PENALTY_PPM
<1> HIDE DEF product
<1>2. product \div 1000000 \in Nat
  BY <1>1 DEF product
<1> QED
  BY <1>2 DEF slashable_amount, product

(* A slash is recorded: the history is longer than before.                  *)
LEMMA SlashRecorded ==
  ASSUME NEW S, NEW history \in Seq(S), NEW entry
  PROVE  /\ Append(history, entry) # history
         /\ \E T : Append(history, entry) \in Seq(T)
<1> DEFINE T == S \cup {entry}
<1>1. history \in Seq(T)
  OBVIOUS
<1>2. entry \in T
  OBVIOUS
<1> HIDE DEF T
<1>3. Append(history, entry) \in Seq(T) /\ Len(Append(history, entry)) = Len(history) + 1
  BY <1>1, <1>2
<1>4. Len(history) \in Nat
  OBVIOUS
<1> QED
  BY <1>3, <1>4

(* A step that moves neither stake nor history.                             *)
LEMMA StakesAlone ==
  ASSUME StakeInv, UNCHANGED <<stake, slash_history>>
  PROVE  StakesMoved
<1>1. \A p \in Providers : stake[p] \in Nat /\ stake[p] >= stake[p]
  BY OrderFacts, Zenon DEF StakeInv, StakesTypeOK
<1>2. stake' = stake /\ slash_history' = slash_history
  BY Zenon
<1> QED
  BY <1>1, <1>2, Zenon DEF StakeInv, StakesTypeOK, StakesMoved, StakeMoves

(* A report has been submitted when its id is in use: when it has a status. *)
LEMMA SubmittedReport ==
  ASSUME IInv
  PROVE  /\ \A r \in 1 .. report_count : r \in ReportIds
         /\ \A r \in ReportIds : report[r].status # "None" => r \in 1 .. report_count
  BY OracleAssumption DEF IInv, ReportsTypeOK, ReportIds

(* A settled challenge releases the report's reservation; a rejection also  *)
(* takes a penalty from the submitter's stake.                              *)
LEMMA FinalizeMoves ==
  ASSUME IInv, StakeInv, NEW r \in ReportIds, NEW to, finalize_challenge(r, to)
  PROVE  StakesMoved /\ LocksMoved
<1>1. r \in 1 .. report_count
  <2>1. report[r].status = "Challenged"
    BY DEF finalize_challenge, IInv, ChallengedWhileOpen
  <2> QED
    BY <2>1, SubmittedReport
<1>2. LocksMoved
  BY <1>1, Zenon DEF finalize_challenge, LocksMoved
<1>3. CASE UNCHANGED <<stake, slash_history>>
  BY <1>2, <1>3, StakesAlone, Zenon
<1>4. CASE slash_provider(report[r].provider, r)
  <2> DEFINE p == report[r].provider
             remaining == stake[p] - slashable_amount(stake[p])
             entry == [report_id |-> r, penalty |-> slashable_amount(stake[p]),
                       remaining_stake |-> remaining, active_after |-> active'[p]]
  <2>1. p \in Providers /\ stake \in [Providers -> Nat] /\ DOMAIN slash_history = Providers
    BY <1>1, Zenon DEF StakeInv, StakesTypeOK
  <2>2. /\ stake' = [stake EXCEPT ![p] = remaining]
        /\ slash_history' = [slash_history EXCEPT ![p] = Append(slash_history[p], entry)]
    BY <1>4, Zenon DEF slash_provider
  <2>3. remaining \in Nat
    BY <2>1, SlashableWithinStake, Zenon
  <2> HIDE DEF p, remaining, entry
  <2>4. PICK S : slash_history[p] \in Seq(S)
    BY <2>1 DEF StakeInv, StakesTypeOK
  <2>5. /\ Append(slash_history[p], entry) # slash_history[p]
        /\ \E T : Append(slash_history[p], entry) \in Seq(T)
    BY <2>4, SlashRecorded, Zenon
  <2>6. /\ slash_history'[p] # slash_history[p]
        /\ \E T : slash_history'[p] \in Seq(T)
        /\ DOMAIN slash_history' = Providers
        /\ \A q \in Providers \ {p} : slash_history'[q] = slash_history[q]
    BY <2>1, <2>2, <2>5, Zenon
  <2>7. /\ stake' \in [Providers -> Nat]
        /\ \A q \in Providers \ {p} : stake'[q] = stake[q]
    BY <2>1, <2>2, <2>3, Zenon
  <2>8. \A q \in Providers : \E T : slash_history'[q] \in Seq(T)
    <3> SUFFICES ASSUME NEW q \in Providers
                 PROVE  \E T : slash_history'[q] \in Seq(T)
      OBVIOUS
    <3>1. CASE q = p
      BY <2>6, <3>1, Zenon
    <3>2. CASE q # p
      <4>1. slash_history'[q] = slash_history[q]
        BY <2>6, <3>2, Zenon
      <4>2. \E T : slash_history[q] \in Seq(T)
        BY Zenon DEF StakeInv, StakesTypeOK
      <4> QED
        BY <4>1, <4>2, Zenon
    <3> QED
      BY <3>1, <3>2, Zenon
  <2>9. \A q \in Providers : StakeMoves(q)
    BY <2>1, <2>6, <2>7 DEF StakeMoves
  <2>10. StakesMoved
    BY <2>6, <2>7, <2>8, <2>9, Zenon DEF StakesMoved
  <2> QED
    BY <1>2, <2>10, Zenon
<1> QED
  BY <1>3, <1>4, Zenon DEF finalize_challenge

(* What any step that submits no report does to the stakes.                 *)
LEMMA StakeKinds ==
  ASSUME IInv, StakeInv, [OracleNext]_allVars,
         \A p \in Providers, id \in ProjectIds, period \in Periods : ~submit_report(p, id, period)
  PROVE  SameProviders /\ StakesMoved /\ LocksMoved
<1>1. SameProviders
  <2>1. ASSUME NEW r \in ReportIds, NEW to, OnlyStatus(r, to), report_count' = report_count
        PROVE  SameProviders
    <3>1. \A q \in 1 .. report_count : q \in ReportIds
      BY SubmittedReport, ZenonT(30)
    <3> QED
      BY <2>1, <3>1, Zenon DEF OnlyStatus, SameProviders, StakeInv, StakesTypeOK
  <2>2. CASE Elsewhere
    BY <2>2, Zenon DEF Elsewhere, SameProviders, StakeInv, StakesTypeOK
  <2>3. CASE \E r \in ReportIds, to \in Terminal : Judged(r, to)
    BY <2>1, <2>3, Zenon DEF Judged
  <2>4. CASE \E a \in Challengers, r \in ReportIds : challenge_report(a, r)
    BY <2>1, <2>4, StatusUpdate, Zenon DEF challenge_report
  <2>5. CASE \E r \in ReportIds, to \in {"Pending", "Verified", "Rejected"}, refund \in BOOLEAN :
               Settled(r, to, refund)
    BY <2>1, <2>5, Zenon DEF Settled
  <2> QED
    BY <2>2, <2>3, <2>4, <2>5, StepKinds, Zenon
<1>2. CASE UNCHANGED oracleVars
  BY <1>1, <1>2, StakesAlone, Zenon DEF oracleVars, providerVars, reportVars, LocksMoved
<1>3. ASSUME NEW p \in Providers, ProviderCall(p)
      PROVE  StakesMoved /\ LocksMoved
  <2>1. ASSUME NEW r \in ReportIds, verify_report(p, r)
        PROVE  StakesMoved /\ LocksMoved
    <3>1. r \in 1 .. report_count
      BY <2>1, SubmittedReport, Zenon DEF verify_report
    <3>2. LocksMoved
      BY <2>1, <3>1, Zenon DEF verify_report, LocksMoved
    <3> QED
      BY <2>1, <3>2, StakesAlone, Zenon DEF verify_report
  <2>2. ASSUME NEW r \in ReportIds, NEW uphold \in BOOLEAN,
               resolve_challenge_by_verifier(p, r, uphold)
        PROVE  StakesMoved /\ LocksMoved
    <3>1. CASE \E to : finalize_challenge(r, to)
      BY <3>1, FinalizeMoves, Zenon
    <3>2. CASE UNCHANGED <<report_lock, locked_stake, stake, slash_history>>
      BY <3>2, StakesAlone DEF LocksMoved
    <3> QED
      BY <2>2, <3>1, <3>2, Zenon DEF resolve_challenge_by_verifier
  <2>3. ASSUME NEW amount \in Stakes, add_stake(p, amount) \/ withdraw_stake(p, amount)
        PROVE  StakesMoved /\ LocksMoved
    <3>1. amount \in Int /\ stake \in [Providers -> Nat] /\ locked_stake \in [Providers -> Nat]
      BY OracleAssumption, Zenon DEF StakeInv, StakesTypeOK
    <3>2. /\ LocksMoved
          /\ slash_history' = slash_history
      BY <2>3, Zenon DEF add_stake, withdraw_stake, SetStake, reportVars, LocksMoved
    <3>3. PICK value \in Nat : /\ stake' = [stake EXCEPT ![p] = value]
                               /\ value >= stake[p] \/ value >= locked_stake[p]
      BY <2>3, <3>1 DEF add_stake, withdraw_stake, SetStake
    <3>4. stake' \in [Providers -> Nat] /\ \A q \in Providers : StakeMoves(q)
      <4>1. stake' \in [Providers -> Nat] /\ stake'[p] = value
        BY <3>1, <3>3, Zenon
      <4>2. \A q \in Providers \ {p} : stake'[q] = stake[q] /\ stake[q] >= stake[q]
        BY <3>1, <3>3, OrderFacts, Zenon
      <4> QED
        BY <3>3, <4>1, <4>2, Zenon DEF StakeMoves
    <3> QED
      BY <3>2, <3>4, Zenon DEF StakesMoved, StakeInv, StakesTypeOK
  <2> QED
    BY <1>3, <2>1, <2>2, <2>3, Zenon DEF ProviderCall
<1>4. ASSUME NEW caller, AdminCall(caller)
      PROVE  StakesMoved /\ LocksMoved
  <2>1. CASE \E r \in ReportIds, status \in ReportStatuses : resolve_challenge(caller, r, status)
    BY <2>1, FinalizeMoves, Zenon DEF resolve_challenge
  <2>2. CASE \/ \E p \in Providers : register_provider(caller, p) \/ remove_provider(caller, p)
             \/ \E r \in ReportIds, status \in ReportStatuses : admin_override_report(caller, r, status)
             \/ \E threshold \in 0 .. Cardinality(Providers) :
                  set_signature_threshold(caller, threshold)
             \/ set_project_registry(caller)
    <3>1. UNCHANGED <<stake, slash_history, locked_stake, report_lock>>
      BY <2>2, Zenon DEF register_provider, remove_provider, admin_override_report,
                  set_signature_threshold, set_project_registry, providerVars, reportVars
    <3> QED
      BY <3>1, StakesAlone, Zenon DEF LocksMoved
  <2> QED
    BY <1>4, <2>1, <2>2, Zenon DEF AdminCall
<1>5. ASSUME NEW a \in Challengers, OpenCall(a)
      PROVE  StakesMoved /\ LocksMoved
  <2>1. UNCHANGED <<stake, slash_history, locked_stake, report_lock>>
    BY <1>5, Zenon DEF OpenCall, challenge_report, expire_stale_challenge, deposit_challenge_bond,
                withdraw_challenge_bond, SetBondBalance, providerVars, reportVars
  <2> QED
    BY <2>1, StakesAlone DEF LocksMoved
<1>6. CASE rotate_oracle_admin
  BY <1>1, <1>6, StakesAlone, Zenon DEF rotate_oracle_admin, providerVars, reportVars, LocksMoved
<1>7. CASE UNCHANGED allVars
  BY <1>2, <1>7, Zenon DEF allVars
<1> QED
  BY <1>1, <1>2, <1>3, <1>4, <1>5, <1>6, <1>7, Zenon DEF OracleNext, OracleCall

(* Reserved amounts are naturals.                                           *)
LEMMA LocksNatural ==
  ASSUME StakesTypeOK
  PROVE  \A p \in Providers : LocksOf(p) \in [ReportIds -> Nat]
  BY Zenon DEF StakesTypeOK, LocksOf

(* A release takes from the submitter's counter exactly what was reserved   *)
(* for the report: the counter covers it, being a sum that contains it.     *)
LEMMA ReleaseKeeps ==
  ASSUME IInv, StakeInv, SameProviders, StakesMoved,
         NEW r \in 1 .. report_count, release_report_lock(r)
  PROVE  StakeInv'
<1> DEFINE p == report[r].provider
           k == report_lock[r]
<1>1. /\ p \in Providers /\ r \in ReportIds
      /\ locked_stake \in [Providers -> Nat] /\ report_lock \in [ReportIds -> Nat]
  BY SubmittedReport, Zenon DEF StakeInv, StakesTypeOK
<1>2. /\ report_lock' = [report_lock EXCEPT ![r] = 0]
      /\ locked_stake' = [locked_stake EXCEPT ![p] = IF k > locked_stake[p] THEN 0
                                                     ELSE locked_stake[p] - k]
  BY DEF release_report_lock
<1>3. k \in Nat
  BY <1>1, Zenon
<1>4. report_lock' \in [ReportIds -> Nat]
  BY <1>1, <1>2, Zenon
<1>5. \A q \in Providers : ReportsOf(q)' = ReportsOf(q)
  BY Zenon DEF SameProviders, ReportsOf
<1>6. ASSUME NEW q \in Providers
      PROVE  /\ IsFiniteSet(UnitsOf(ReportIds, LocksOf(q)'))
             /\ Total(ReportIds, LocksOf(q)') \in Nat
             /\ q = p => Total(ReportIds, LocksOf(q)') = locked_stake[q] - k
             /\ q # p => Total(ReportIds, LocksOf(q)') = locked_stake[q]
  <2>1. LocksOf(q) \in [ReportIds -> Nat]
    BY LocksNatural DEF StakeInv
  <2>2. LocksOf(q)' \in [ReportIds -> Nat]
    BY <1>4, Zenon DEF LocksOf
  <2>3. LocksOf(q)'[r] = 0 /\ \A i \in ReportIds \ {r} : LocksOf(q)'[i] = LocksOf(q)[i]
    BY <1>1, <1>2, <1>5, Zenon DEF LocksOf
  <2>4. LocksOf(q)[r] = IF q = p THEN k ELSE 0
    BY <1>1, Zenon DEF LocksOf, ReportsOf
  <2>5. /\ IsFiniteSet(UnitsOf(ReportIds, LocksOf(q)))
        /\ Total(ReportIds, LocksOf(q)) = locked_stake[q]
    BY DEF StakeInv, LocksAddUp
  <2>6. /\ IsFiniteSet(UnitsOf(ReportIds, LocksOf(q)'))
        /\ Total(ReportIds, LocksOf(q)') \in Nat
        /\ Total(ReportIds, LocksOf(q)') = Total(ReportIds, LocksOf(q)) - LocksOf(q)[r]
    <3>1. r \in ReportIds
      BY <1>1, Zenon
    <3>2. LocksOf(q)[r] \in Nat /\ LocksOf(q)[r] = LocksOf(q)'[r] + LocksOf(q)[r]
      BY <2>1, <2>3, <3>1
    <3> QED
      BY <2>1, <2>2, <2>3, <2>5, <3>1, <3>2, TotalLowered, Zenon
  <2> QED
    BY <1>1, <1>3, <2>4, <2>5, <2>6
<1> HIDE DEF p, k
<1>7. k <= locked_stake[p]
  BY <1>1, <1>3, <1>6
<1>8. locked_stake' = [locked_stake EXCEPT ![p] = locked_stake[p] - k]
  <2>1. ~(k > locked_stake[p])
    BY <1>1, <1>3, <1>7
  <2> QED
    BY <1>2, <2>1, Zenon
<1>9. locked_stake' \in [Providers -> Nat]
  BY <1>1, <1>3, <1>7, <1>8
<1>10. LocksAddUp'
  BY <1>1, <1>6, <1>8, Zenon DEF LocksAddUp
<1>11. StakesTypeOK'
  BY <1>4, <1>9, ZenonT(40) DEF StakeInv, StakesTypeOK, StakesMoved, SameProviders
<1> QED
  BY <1>10, <1>11, Zenon DEF StakeInv

(* A submission reserves part of the submitter's stake on top of what is    *)
(* reserved already.                                                        *)
LEMMA SubmitReserves ==
  ASSUME IInv, StakeInv, NEW p \in Providers, NEW id \in ProjectIds, NEW period \in Periods,
         submit_report(p, id, period)
  PROVE  StakeInv'
<1> DEFINE r == report_count + 1
           new == [status |-> "Pending", provider |-> p, project_id |-> id, period |-> period,
                   project_metadata_hash |-> project_hash[id], submitted_at |-> now]
           k == slashable_amount(stake[p])
<1>1. /\ r \in ReportIds
      /\ report_count' = r
      /\ report' = [report EXCEPT ![r] = new]
      /\ report_lock' = [report_lock EXCEPT ![r] = k]
      /\ locked_stake' = [locked_stake EXCEPT ![p] = locked_stake[p] + k]
      /\ UNCHANGED <<stake, slash_history>>
  BY DEF submit_report, lock_stake_for_report
<1>2. new.provider = p /\ "provider" \in DOMAIN new
  BY ZenonT(30)
<1> HIDE DEF new
<1>3. /\ report_count \in Nat /\ DOMAIN report = ReportIds
      /\ locked_stake \in [Providers -> Nat] /\ report_lock \in [ReportIds -> Nat]
      /\ stake \in [Providers -> Nat]
  BY Zenon DEF IInv, ReportsTypeOK, StakeInv, StakesTypeOK
<1>4. k \in Nat
  BY <1>3, SlashableWithinStake, Zenon
<1> HIDE DEF k
<1>5. /\ report'[r] = new
      /\ \A i \in 1 .. report_count : i # r /\ i \in ReportIds /\ report'[i] = report[i]
  BY <1>1, <1>3, SubmittedReport
<1>6. StakesTypeOK'
  <2>1. report_lock' \in [ReportIds -> Nat] /\ locked_stake' \in [Providers -> Nat]
    <3>1. locked_stake[p] + k \in Nat
      BY <1>3, <1>4
    <3> QED
      BY <1>1, <1>3, <1>4, <3>1, Zenon
  <2>2. \A i \in 1 .. report_count' :
          "provider" \in DOMAIN report'[i] /\ report'[i].provider \in Providers
    <3>1. \A i \in 1 .. report_count' : i \in 1 .. report_count \/ i = r
      BY <1>1, <1>3
    <3>2. \A i \in 1 .. report_count :
            "provider" \in DOMAIN report[i] /\ report[i].provider \in Providers
      BY Zenon DEF StakeInv, StakesTypeOK
    <3> QED
      BY <1>2, <1>5, <3>1, <3>2, Zenon
  <2> QED
    BY <1>1, <1>3, <2>1, <2>2, Zenon DEF StakeInv, StakesTypeOK
<1>7. LocksAddUp'
  <2> SUFFICES ASSUME NEW q \in Providers
               PROVE  /\ IsFiniteSet(UnitsOf(ReportIds, LocksOf(q)'))
                      /\ Total(ReportIds, LocksOf(q)') = locked_stake'[q]
    BY DEF LocksAddUp
  <2>1. LocksOf(q) \in [ReportIds -> Nat]
    BY LocksNatural, Zenon DEF StakeInv
  <2>2. LocksOf(q)' \in [ReportIds -> Nat]
    BY <1>6, Zenon DEF StakesTypeOK, LocksOf
  <2>3. /\ IsFiniteSet(UnitsOf(ReportIds, LocksOf(q)))
        /\ Total(ReportIds, LocksOf(q)) = locked_stake[q]
    BY Zenon DEF StakeInv, LocksAddUp
  <2>4. LocksOf(q)[r] = 0
    BY <1>1, <1>3 DEF LocksOf, ReportsOf
  <2>5. \A i \in ReportIds \ {r} : LocksOf(q)'[i] = LocksOf(q)[i]
    <3>1. \A i \in ReportIds \ {r} : i \in ReportsOf(q)' <=> i \in ReportsOf(q)
      BY <1>1, <1>3, <1>5 DEF ReportsOf, ReportIds
    <3> QED
      BY <1>1, <1>3, <3>1, Zenon DEF LocksOf
  <2>6. r \in ReportsOf(q)' <=> q = p
    BY <1>1, <1>2, <1>3, <1>5 DEF ReportsOf
  <2>7. LocksOf(q)'[r] = IF q = p THEN k ELSE 0
    BY <1>1, <1>3, <2>6, Zenon DEF LocksOf
  <2>8. CASE q = p
    <3>1. /\ IsFiniteSet(UnitsOf(ReportIds, LocksOf(q)'))
          /\ Total(ReportIds, LocksOf(q)') = Total(ReportIds, LocksOf(q)) + k
      BY <1>1, <1>4, <2>1, <2>2, <2>3, <2>4, <2>5, <2>7, <2>8, TotalRaised, SMTT(30)
    <3> QED
      BY <1>1, <1>3, <2>3, <2>8, <3>1, Zenon
  <2>9. CASE q # p
    <3>1. LocksOf(q)' = LocksOf(q)
      BY <2>1, <2>2, <2>4, <2>5, <2>7, <2>9, SMTT(30)
    <3> QED
      BY <1>1, <1>3, <2>3, <2>9, <3>1, Zenon
  <2> QED
    BY <2>8, <2>9, Zenon
<1> QED
  BY <1>6, <1>7, Zenon DEF StakeInv

(* No report, no reservation.                                               *)
LEMMA StakeInvInit == OracleInit => StakeInv
<1> SUFFICES ASSUME OracleInit
             PROVE  StakeInv
  OBVIOUS
<1> USE OracleAssumption DEF OracleInit
<1>1. \A p \in Providers : slash_history[p] \in Seq({})
  OBVIOUS
<1>2. StakesTypeOK
  <2>1. 0 \in Nat /\ 1 .. 0 = {}
    OBVIOUS
  <2> QED
    BY <1>1, <2>1, ZenonT(30) DEF StakesTypeOK
<1>3. \A p \in Providers : \A r \in ReportIds : LocksOf(p)[r] = 0
  BY Zenon DEF LocksOf
<1>4. LocksAddUp
  BY <1>3, TotalZero, Zenon DEF LocksAddUp
<1> QED
  BY <1>2, <1>4, Zenon DEF StakeInv

(* Every step preserves the invariant of the stakes.                        *)
LEMMA StakeInvStep == IInv /\ StakeInv /\ [OracleNext]_allVars => StakeInv'
<1> SUFFICES ASSUME IInv, StakeInv, [OracleNext]_allVars
             PROVE  StakeInv'
  OBVIOUS
<1>1. CASE \E p \in Providers, id \in ProjectIds, period \in Periods : submit_report(p, id, period)
  BY <1>1, SubmitReserves, Zenon
<1>2. CASE ~ \E p \in Providers, id \in ProjectIds, period \in Periods : submit_report(p, id, period)
  <2>1. SameProviders /\ StakesMoved /\ LocksMoved
    BY <1>2, StakeKinds, Zenon
  <2>2. CASE UNCHANGED <<report_lock, locked_stake>>
    <3>1. StakesTypeOK'
      BY <2>1, <2>2, Zenon DEF StakeInv, StakesTypeOK, StakesMoved, SameProviders
    <3>2. \A p \in Providers : LocksOf(p)' = LocksOf(p)
      BY <2>1, <2>2, Zenon DEF SameProviders, LocksOf, ReportsOf
    <3> QED
      BY <2>2, <3>1, <3>2, Zenon DEF StakeInv, LocksAddUp
  <2>3. CASE \E r \in 1 .. report_count : release_report_lock(r)
    BY <2>1, <2>3, ReleaseKeeps
  <2> QED
    BY <2>1, <2>2, <2>3, Zenon DEF LocksMoved
<1> QED
  BY <1>1, <1>2

(* The invariant of the stakes holds in every behaviour.                    *)
THEOREM StakeInvHolds == OracleSpec => []StakeInv
<1> QED
  BY IInvHolds, StakeInvInit, StakeInvStep, PTL DEF OracleSpec

(* The counter withdraw_stake compares with is the sum of what is reserved  *)
(* for the provider's reports, in whatever order reports are submitted,     *)
(* verified, overridden, challenged and settled.                            *)
THEOREM ReservationsAccounted == OracleSpec => []StakeLocksAddUp
<1>1. StakeInv => StakeLocksAddUp
  BY DEF StakeInv, LocksAddUp, LocksOf, StakeLocksAddUp, get_locked_stake
<1> QED
  BY <1>1, StakeInvHolds, PTL

(* Outside a slash, a provider's stake never falls below what is reserved   *)
(* for its reports that are still undecided: withdraw_stake cannot empty it *)
(* ahead of a challenge.                                                    *)
THEOREM ReserveKept == OracleSpec => WithdrawalsKeepReserve
<1> DEFINE Undecided(p) ==
             [r \in ReportIds |-> IF r \in ReportsOf(p) /\ report[r].status \notin Terminal
                                  THEN report_lock[r] ELSE 0]
           Kept == \A p \in Providers :
                     stake'[p] < stake[p] /\ slash_history'[p] = slash_history[p] =>
                       stake'[p] >= Total(ReportIds, Undecided(p))
<1>1. ASSUME IInv, StakeInv, [OracleNext]_allVars
      PROVE  Kept
  <2> SUFFICES ASSUME NEW p \in Providers,
                      stake'[p] < stake[p], slash_history'[p] = slash_history[p]
               PROVE  stake'[p] >= Total(ReportIds, Undecided(p))
    BY Zenon
  <2>1. stake \in [Providers -> Nat] /\ locked_stake \in [Providers -> Nat]
    BY <1>1, Zenon DEF StakeInv, StakesTypeOK
  <2>2. StakesMoved
    <3>1. CASE \E q \in Providers, id \in ProjectIds, period \in Periods :
                 submit_report(q, id, period)
      BY <1>1, <3>1, StakesAlone, ZenonT(30) DEF submit_report
    <3> QED
      BY <1>1, <3>1, StakeKinds, Zenon
  <2>3. stake'[p] \in Nat /\ stake'[p] >= locked_stake[p]
    <3>1. StakeMoves(p) /\ stake'[p] \in Nat /\ stake[p] \in Nat /\ locked_stake[p] \in Nat
      BY <2>1, <2>2, Zenon DEF StakesMoved
    <3> QED
      BY <3>1, OrderFacts, Zenon DEF StakeMoves
  <2>4. UnitsOf(ReportIds, Undecided(p)) \subseteq UnitsOf(ReportIds, LocksOf(p))
    <3>1. \A r \in ReportIds : Undecided(p)[r] \in {0, LocksOf(p)[r]}
      BY Zenon DEF LocksOf
    <3>2. \A r \in ReportIds : 1 .. Undecided(p)[r] \subseteq 1 .. LocksOf(p)[r]
      <4>1. LocksOf(p) \in [ReportIds -> Nat]
        BY <1>1, LocksNatural DEF StakeInv
      <4> HIDE DEF Undecided
      <4> QED
        BY <3>1, <4>1
    <3> HIDE DEF Undecided
    <3> QED
      BY <3>2 DEF UnitsOf
  <2>5. /\ IsFiniteSet(UnitsOf(ReportIds, LocksOf(p)))
        /\ Total(ReportIds, LocksOf(p)) = locked_stake[p]
    BY <1>1, Zenon DEF StakeInv, LocksAddUp
  <2> HIDE DEF Undecided
  <2>6. /\ Total(ReportIds, Undecided(p)) \in Nat
        /\ Total(ReportIds, Undecided(p)) <= Total(ReportIds, LocksOf(p))
    BY <2>4, <2>5, TotalSmaller, Zenon
  <2> QED
    BY <2>1, <2>3, <2>5, <2>6, OrderFacts, Zenon
<1>2. IInv /\ StakeInv /\ [OracleNext]_allVars => [Kept]_allVars
  BY <1>1, Zenon
<1> QED
  BY <1>2, IInvHolds, StakeInvHolds, PTL DEF OracleSpec, WithdrawalsKeepReserve

-----------------------------------------------------------------------------
(* The signature threshold *)

ThresholdInv ==
  /\ provider_list \subseteq Providers /\ IsFiniteSet(provider_list)
  /\ DOMAIN active = Providers
  /\ signature_threshold \in Nat
  /\ ThresholdWithinActive

Registered(p) ==
  /\ p \in Providers \ provider_list
  /\ provider_list' = provider_list \cup {p}
  /\ active' = [active EXCEPT ![p] = TRUE]
  /\ UNCHANGED signature_threshold

Reconciled ==
  /\ UNCHANGED provider_list
  /\ DOMAIN active' = DOMAIN active
  /\ signature_threshold' = reconcile_signature_threshold(active')

ThresholdSet ==
  /\ UNCHANGED <<provider_list, active>>
  /\ signature_threshold' \in 1 .. active_provider_count(active)

(* What a step does to the providers and the threshold.                     *)
LEMMA ProviderKinds ==
  ASSUME [OracleNext]_allVars
  PROVE  \/ UNCHANGED <<provider_list, active, signature_threshold>>
         \/ \E p \in Providers : Registered(p)
         \/ Reconciled
         \/ ThresholdSet
<1> DEFINE Same == UNCHANGED <<provider_list, active, signature_threshold>>
<1>1. CASE UNCHANGED oracleVars
  BY <1>1 DEF oracleVars, providerVars
<1>2. ASSUME NEW r \in ReportIds, NEW to, finalize_challenge(r, to), UNCHANGED unsettledVars
      PROVE  Same \/ Reconciled
  <2>1. UNCHANGED provider_list
    BY <1>2 DEF unsettledVars
  <2>2. CASE slash_provider(report[r].provider, r)
    BY <2>1, <2>2, Zenon DEF slash_provider, Reconciled
  <2>3. CASE UNCHANGED <<active, signature_threshold>>
    BY <2>1, <2>3
  <2> QED
    BY <1>2, <2>2, <2>3, Zenon DEF finalize_challenge
<1>3. ASSUME NEW p \in Providers, ProviderCall(p)
      PROVE  Same \/ Reconciled
  <2>1. ASSUME NEW r \in ReportIds, NEW uphold \in BOOLEAN,
               resolve_challenge_by_verifier(p, r, uphold)
        PROVE  Same \/ Reconciled
    BY <1>2, <2>1, ZenonT(40) DEF resolve_challenge_by_verifier, unsettledVars
  <2>2. CASE \E r \in ReportIds : verify_report(p, r)
    BY <2>2, Zenon DEF verify_report
  <2>3. CASE \E id \in ProjectIds, period \in Periods : submit_report(p, id, period)
    BY <2>3, Zenon DEF submit_report
  <2>4. CASE \E amount \in Stakes : add_stake(p, amount) \/ withdraw_stake(p, amount)
    BY <2>4 DEF add_stake, withdraw_stake, SetStake
  <2> QED
    BY <1>3, <2>1, <2>2, <2>3, <2>4, Zenon DEF ProviderCall
<1>4. ASSUME NEW caller, AdminCall(caller)
      PROVE  Same \/ (\E p \in Providers : Registered(p)) \/ Reconciled \/ ThresholdSet
  <2>1. CASE \E p \in Providers : register_provider(caller, p)
    BY <2>1, Zenon DEF register_provider, IsProvider, Registered
  <2>2. CASE \E p \in Providers : remove_provider(caller, p)
    BY <2>2 DEF remove_provider, Reconciled
  <2>3. CASE \E r \in ReportIds, status \in ReportStatuses : admin_override_report(caller, r, status)
    BY <2>3, Zenon DEF admin_override_report, providerVars
  <2>4. CASE \E r \in ReportIds, status \in ReportStatuses : resolve_challenge(caller, r, status)
    BY <1>2, <2>4, Zenon DEF resolve_challenge
  <2>5. CASE \E threshold \in 0 .. Cardinality(Providers) : set_signature_threshold(caller, threshold)
    BY <2>5, Zenon DEF set_signature_threshold, ThresholdSet
  <2>6. CASE set_project_registry(caller)
    BY <2>6 DEF set_project_registry, providerVars
  <2> QED
    BY <1>4, <2>1, <2>2, <2>3, <2>4, <2>5, <2>6, Zenon DEF AdminCall
<1>5. CASE \E a \in Challengers : OpenCall(a)
  BY <1>5, Zenon DEF OpenCall, challenge_report, expire_stale_challenge, deposit_challenge_bond,
     withdraw_challenge_bond, SetBondBalance, providerVars
<1>6. CASE rotate_oracle_admin
  BY <1>6 DEF rotate_oracle_admin, providerVars
<1>7. CASE UNCHANGED allVars
  BY <1>1, <1>7, Zenon DEF allVars
<1> QED
  BY <1>1, <1>3, <1>4, <1>5, <1>6, <1>7, Zenon DEF OracleNext, OracleCall

(* The number of active providers is a natural number.                      *)
LEMMA ActiveCount ==
  ASSUME IsFiniteSet(provider_list), NEW flags
  PROVE  active_provider_count(flags) \in Nat
<1>1. IsFiniteSet({p \in provider_list : flags[p]})
  BY FS_Subset, Zenon
<1> QED
  BY <1>1, FS_CardinalityType, Zenon DEF active_provider_count

LEMMA ThresholdInvStep == ThresholdInv /\ [OracleNext]_allVars => ThresholdInv'
<1> SUFFICES ASSUME ThresholdInv, [OracleNext]_allVars
             PROVE  ThresholdInv'
  OBVIOUS
<1> USE DEF ThresholdInv, get_signature_threshold
<1>1. CASE UNCHANGED <<provider_list, active, signature_threshold>>
  BY <1>1, Zenon DEF ThresholdWithinActive, active_provider_count
<1>2. ASSUME NEW p \in Providers, Registered(p)
      PROVE  ThresholdInv'
  <2> DEFINE old == {q \in provider_list : active[q]}
             new == {q \in provider_list' : active'[q]}
  <2>1. IsFiniteSet(provider_list') /\ provider_list' \subseteq Providers
        /\ DOMAIN active' = Providers /\ signature_threshold' = signature_threshold
    BY <1>2, FS_AddElement, Zenon DEF Registered
  <2>2. old \subseteq new /\ new \subseteq provider_list'
    BY <1>2, Zenon DEF Registered
  <2>3. IsFiniteSet(new)
    BY <2>1, <2>2, FS_Subset, Zenon
  <2>4. Cardinality(old) <= Cardinality(new) /\ Cardinality(old) \in Nat /\ Cardinality(new) \in Nat
    BY <2>2, <2>3, FS_Subset, FS_CardinalityType, ZenonT(30)
  <2>5. active_provider_count(active) = Cardinality(old) /\ active_provider_count(active)' = Cardinality(new)
    BY Zenon DEF active_provider_count
  <2> HIDE DEF old, new
  <2> QED
    BY <2>1, <2>4, <2>5 DEF ThresholdWithinActive
<1>3. CASE Reconciled
  <2>1. active_provider_count(active') \in Nat
    BY ActiveCount, Zenon
  <2>2. active_provider_count(active)' = active_provider_count(active')
    BY <1>3, Zenon DEF Reconciled, active_provider_count
  <2> QED
    BY <1>3, <2>1, <2>2 DEF Reconciled, reconcile_signature_threshold, ThresholdWithinActive
<1>4. CASE ThresholdSet
  <2>1. active_provider_count(active) \in Nat /\ active_provider_count(active)' = active_provider_count(active)
    BY <1>4, ActiveCount DEF ThresholdSet, active_provider_count
  <2>2. signature_threshold' \in 1 .. active_provider_count(active)
    BY <1>4, Zenon DEF ThresholdSet
  <2>3. signature_threshold' \in Nat /\ signature_threshold' <= active_provider_count(active)
    BY ONLY <2>1, <2>2
  <2>4. ThresholdWithinActive'
    BY <2>1, <2>3, Zenon DEF ThresholdWithinActive, get_signature_threshold
  <2> QED
    BY <1>4, <2>3, <2>4, Zenon DEF ThresholdSet
<1> QED
  BY <1>1, <1>2, <1>3, <1>4, ProviderKinds, Zenon

LEMMA ThresholdInvHolds == OracleSpec => []ThresholdInv
<1>1. OracleInit => ThresholdInv
  BY FS_EmptySet DEF OracleInit, ThresholdInv, ThresholdWithinActive, get_signature_threshold
<1> QED
  BY <1>1, ThresholdInvStep, PTL DEF OracleSpec

(* The threshold never exceeds the number of active providers, however they *)
(* are removed (remove_provider) or slashed out (slash_provider).           *)
THEOREM ThresholdReachable == OracleSpec => []ThresholdWithinActive
<1>1. ThresholdInv => ThresholdWithinActive
  BY DEF ThresholdInv
<1> QED
  BY <1>1, ThresholdInvHolds, PTL

=============================================================================
