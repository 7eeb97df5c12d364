-------------------------- MODULE ReportLifecycle --------------------------
(***************************************************************************)
(* What the oracle consumer promises the contracts that read its reports:   *)
(* how the status of a report may move, whatever providers, challengers,    *)
(* the admin and the clock do.  OracleConsumer implements this              *)
(* specification; CouponEngine is composed with it.                         *)
(***************************************************************************)
CONSTANT Reports   \* report ids

VARIABLE report_status   \* DataKey::Report(r).status, "None" before submission

Moves ==
  {<<"None", "Pending">>,         \* submit_report
   <<"Pending", "Verified">>,     \* verify_report, admin_override_report
   <<"Pending", "Rejected">>,     \* admin_override_report
   <<"Pending", "Challenged">>,   \* challenge_report
   <<"Challenged", "Pending">>,   \* expire_stale_challenge
   <<"Challenged", "Verified">>,  \* resolve_challenge, resolve_challenge_by_verifier
   <<"Challenged", "Rejected">>}

LifecycleInit == report_status = [r \in Reports |-> "None"]

MoveReport(r) ==
  \E to \in {"Pending", "Verified", "Challenged", "Rejected"} :
    /\ <<report_status[r], to>> \in Moves
    /\ report_status' = [report_status EXCEPT ![r] = to]

LifecycleNext == \E r \in Reports : MoveReport(r)

LifecycleSpec == LifecycleInit /\ [][LifecycleNext]_report_status
=============================================================================
