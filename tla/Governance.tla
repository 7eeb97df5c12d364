----------------------------- MODULE Governance -----------------------------
(***************************************************************************)
(* The governance contract (contracts/governance/src/lib.rs): an M-of-N     *)
(* multi-sig whose proposals are voted on, wait out a timelock and are then *)
(* executed against an allowlist of (contract, method) pairs.  Proposals,   *)
(* the proposal counter and votes live in persistent storage; a contract    *)
(* deployed before that change still holds some of them in instance         *)
(* storage, which every read falls back to and migrate_storage copies over. *)
(* A call that fails leaves the storage as it was (a stuttering step).      *)
(***************************************************************************)
EXTENDS Integers, Sequences, FiniteSets

CONSTANTS
  Signers,              \* DataKey::Signers, fixed by the constructor
  Callers,              \* every account that may call the contract
  Threshold,            \* DataKey::Threshold
  TimelockSeconds,      \* DataKey::TimelockSeconds
  ProposalTTL,          \* DEFAULT_PROPOSAL_TTL_SECONDS
  MAX_ALLOWED_CALLS,
  Self,                 \* the governance contract's own address
  Calls,                \* the [contract, function] pairs a proposal may name
  Payloads,             \* the arguments of set_allowed_calls a proposer may encode
  InitialAllowedCalls,  \* the constructor's allowed_calls
  MaxProposals,         \* bound on the number of proposals
  MaxTimestamp          \* bound on the ledger timestamp

ASSUME GovernanceAssumption ==
  /\ IsFiniteSet(Signers)
  /\ Signers \subseteq Callers
  /\ Threshold \in 1 .. Cardinality(Signers)
  /\ TimelockSeconds \in Nat
  /\ ProposalTTL \in Nat
  /\ MAX_ALLOWED_CALLS \in Nat
  /\ Payloads \subseteq [caller : {Self} \cup Callers, calls : Seq(Calls), nonce : Nat]
  /\ InitialAllowedCalls \subseteq Calls
  /\ MaxProposals \in Nat
  /\ MaxTimestamp \in Nat

VARIABLES
  timestamp,       \* env.ledger().timestamp()
  proposal,        \* persistent DataKey::Proposal(id)
  proposal_count,  \* persistent DataKey::ProposalCount, -1 while absent
  vote,            \* persistent DataKey::Vote(id, signer)
  legacy,          \* instance storage written before the change: never written any more
  storage_version, \* DataKey::StorageVersion
  allowed_calls,   \* DataKey::AllowedCalls, a deduplicated list
  self_nonce       \* DataKey::Nonce(the contract's own address)

storage == <<proposal, proposal_count, vote, legacy, storage_version>>
vars == <<timestamp, storage, allowed_calls, self_nonce>>

ProposalIds == 1 .. MaxProposals
Terminal == {"Executed", "Rejected", "Cancelled"}

NewProposal(call, args, at) ==
  [call |-> call, args |-> args, status |-> "Pending",
   approval_count |-> 0, veto_count |-> 0,
   created_at |-> at, expires_at |-> at + ProposalTTL,
   queued_at |-> 0, executed_at |-> 0, timelock_seconds |-> TimelockSeconds]

NoProposal == [status |-> "None", approval_count |-> 0, veto_count |-> 0]
NoVotes == [id \in ProposalIds |-> [s \in Signers |-> "None"]]

(* The storage a contract may have been left with: nothing, or a proposal   *)
(* created, and so far approved by fewer than Threshold signers, while      *)
(* proposals were still kept in instance storage.                           *)
LegacyEntry(call, args, approvers) ==
  [count |-> 1,
   proposal |-> [id \in ProposalIds |->
      IF id = 1
      THEN [NewProposal(call, args, 0) EXCEPT !.approval_count = Cardinality(approvers)]
      ELSE NoProposal],
   vote |-> [NoVotes EXCEPT ![1] = [s \in Signers |->
      IF s \in approvers THEN "Approve" ELSE "None"]]]

NoLegacy ==
  [count |-> -1, proposal |-> [id \in ProposalIds |-> NoProposal], vote |-> NoVotes]

Init ==
  /\ timestamp = 0
  /\ proposal = [id \in ProposalIds |-> NoProposal]
  /\ proposal_count = -1
  /\ vote = NoVotes
  /\ legacy \in {NoLegacy} \cup
       {LegacyEntry(call, args, approvers) :
          call \in Calls, args \in Payloads,
          approvers \in {A \in SUBSET Signers : Cardinality(A) < Threshold}}
  /\ storage_version = 0
  /\ allowed_calls = InitialAllowedCalls
  /\ self_nonce = 0

-----------------------------------------------------------------------------
(* Helpers *)

read_proposal(id) ==
  IF proposal[id].status # "None" THEN proposal[id] ELSE legacy.proposal[id]

read_proposal_count ==
  IF proposal_count # -1 THEN proposal_count
  ELSE IF legacy.count # -1 THEN legacy.count ELSE 0

read_vote(id, s) == IF vote[id][s] # "None" THEN vote[id][s] ELSE legacy.vote[id][s]

(* Every write goes to persistent storage, whichever storage was read. *)
write_proposal(id, p) == proposal' = [proposal EXCEPT ![id] = p]
write_proposal_count(count) == proposal_count' = count
write_vote(id, voter, choice) == vote' = [vote EXCEPT ![id][voter] = choice]

read_allowed_calls == allowed_calls
is_call_allowed(call) == call \in read_allowed_calls

require_signer(caller) == caller \in Signers

is_expired(p) == timestamp >= p.expires_at

is_executable_call(call) ==
  IF call.contract = Self THEN call.function = "set_allowed_calls"
                          ELSE is_call_allowed(call)

(* MUTANT of MayVote: a signer may vote again. *)
MayVote_Again(caller, id) ==
  /\ require_signer(caller)
  /\ read_proposal(id).status = "Pending"
  /\ ~is_expired(read_proposal(id))

(* A signer may still vote on id: it is Pending, not expired, and the       *)
(* signer has recorded no choice of either kind.                            *)
MayVote(caller, id) ==
  /\ require_signer(caller)
  /\ read_proposal(id).status = "Pending"
  /\ ~is_expired(read_proposal(id))
  /\ read_vote(id, caller) = "None"

(* MUTANT of TimelockElapsed: counts from the creation, not the queueing. *)
TimelockElapsed_FromCreation(p) == timestamp >= p.created_at + p.timelock_seconds

TimelockElapsed(p) == timestamp >= p.queued_at + p.timelock_seconds

-----------------------------------------------------------------------------
(* Contract calls *)

propose(caller, call, args) ==
  LET id == read_proposal_count + 1 IN
  /\ id \in ProposalIds
  /\ require_signer(caller)
  /\ is_executable_call(call)
  /\ write_proposal_count(id)
  /\ write_proposal(id, NewProposal(call, args, timestamp))
  /\ UNCHANGED <<vote, legacy, storage_version, allowed_calls, self_nonce>>

vote_approve(caller, id) ==
  LET p == read_proposal(id)
      approved == [p EXCEPT !.approval_count = @ + 1]
  IN
  /\ MayVote(caller, id)
  /\ write_vote(id, caller, "Approve")
  /\ write_proposal(id,
       IF approved.approval_count >= Threshold
       THEN [approved EXCEPT !.status = "Queued", !.queued_at = timestamp]
       ELSE approved)
  /\ UNCHANGED <<proposal_count, legacy, storage_version, allowed_calls, self_nonce>>

vote_veto(caller, id) ==
  LET p == read_proposal(id)
      vetoed == [p EXCEPT !.veto_count = @ + 1]
  IN
  /\ MayVote(caller, id)
  /\ write_vote(id, caller, "Veto")
  /\ write_proposal(id,
       IF vetoed.veto_count >= Threshold
       THEN [vetoed EXCEPT !.status = "Rejected"] ELSE vetoed)
  /\ UNCHANGED <<proposal_count, legacy, storage_version, allowed_calls, self_nonce>>

(* Any signer, not only the proposer, and only while Pending. *)
MayCancel(caller, id) == require_signer(caller) /\ read_proposal(id).status = "Pending"

cancel(caller, id) ==
  /\ MayCancel(caller, id)
  /\ write_proposal(id, [read_proposal(id) EXCEPT !.status = "Cancelled"])
  /\ UNCHANGED <<proposal_count, vote, legacy, storage_version, allowed_calls, self_nonce>>

(* MUTANT of SetAllowedCalls: the nonce in the arguments is not compared. *)
SetAllowedCalls_NoNonce(args) ==
  /\ args.caller = Self
  /\ Len(args.calls) <= MAX_ALLOWED_CALLS
  /\ self_nonce' = self_nonce + 1
  /\ allowed_calls' = {args.calls[i] : i \in 1 .. Len(args.calls)}

(* dispatch_self_call, apply_set_allowed_calls and write_allowed_calls: the *)
(* list replaces the old one, without duplicates.                           *)
SetAllowedCalls(args) ==
  /\ args.caller = Self
  /\ args.nonce = self_nonce
  /\ Len(args.calls) <= MAX_ALLOWED_CALLS
  /\ self_nonce' = self_nonce + 1
  /\ allowed_calls' = {args.calls[i] : i \in 1 .. Len(args.calls)}

(* Any account may execute.  A call to another contract that fails reverts  *)
(* everything; one that succeeds changes only that contract's storage.      *)
execute(caller, id) ==
  LET p == read_proposal(id) IN
  /\ p.status = "Queued"
  /\ ~is_expired(p)
  /\ TimelockElapsed(p)
  /\ is_executable_call(p.call)
  /\ IF p.call.contract = Self
     THEN SetAllowedCalls(p.args)
     ELSE UNCHANGED <<allowed_calls, self_nonce>>
  /\ write_proposal(id, [p EXCEPT !.status = "Executed", !.executed_at = timestamp])
  /\ UNCHANGED <<proposal_count, vote, legacy, storage_version>>

(* MUTANT of NeedsCopy: overwrites what persistent storage already holds. *)
NeedsCopy_Overwrite(id) == id <= legacy.count

(* Whether migrate_storage copies the legacy entry of id: only an entry the *)
(* persistent storage does not already hold.                                *)
NeedsCopy(id) == id <= legacy.count /\ proposal[id].status = "None"

migrate_storage(caller) ==
  /\ require_signer(caller)
  /\ storage_version = 0
  /\ proposal_count' = IF proposal_count = -1 THEN legacy.count ELSE proposal_count
  /\ proposal' = [id \in ProposalIds |->
       IF NeedsCopy(id) THEN legacy.proposal[id] ELSE proposal[id]]
  /\ storage_version' = 1
  /\ UNCHANGED <<vote, legacy, allowed_calls, self_nonce>>

AdvanceTime ==
  /\ timestamp < MaxTimestamp
  /\ timestamp' = timestamp + 1
  /\ UNCHANGED <<storage, allowed_calls, self_nonce>>

Next ==
  \/ \E caller \in Callers, call \in Calls, args \in Payloads :
       propose(caller, call, args) /\ UNCHANGED timestamp
  \/ \E caller \in Callers, id \in ProposalIds :
       \/ vote_approve(caller, id) /\ UNCHANGED timestamp
       \/ vote_veto(caller, id) /\ UNCHANGED timestamp
       \/ cancel(caller, id) /\ UNCHANGED timestamp
       \/ execute(caller, id) /\ UNCHANGED timestamp
  \/ \E caller \in Callers : migrate_storage(caller) /\ UNCHANGED timestamp
  \/ AdvanceTime

Spec == Init /\ [][Next]_vars

-----------------------------------------------------------------------------
(* Queries *)

get_proposal(id) == read_proposal(id)
get_proposal_count == read_proposal_count
get_vote(id, s) == read_vote(id, s)
get_allowed_calls == read_allowed_calls

-----------------------------------------------------------------------------
(* Properties *)

Exists(id) == get_proposal(id).status # "None"

Approvers(id) == {s \in Signers : get_vote(id, s) = "Approve"}
Vetoers(id) == {s \in Signers : get_vote(id, s) = "Veto"}

(* The counters a proposal carries are the numbers of distinct signers      *)
(* whose recorded choice is that one, whichever of the two storages the     *)
(* proposal and each vote are read from.                                    *)
CountsMatchVotes ==
  \A id \in ProposalIds :
    /\ get_proposal(id).approval_count = Cardinality(Approvers(id))
    /\ get_proposal(id).veto_count = Cardinality(Vetoers(id))

(* A proposal is queued or executed only with a full quorum of distinct     *)
(* signers behind it, never one that a quorum vetoed; it executes inside    *)
(* its window, after the timelock and before it expires.                    *)
ExecutedByQuorum ==
  \A id \in ProposalIds :
    LET p == read_proposal(id) IN
    /\ p.status \in {"Queued", "Executed"} =>
         /\ Cardinality(Approvers(id)) >= Threshold
         /\ Cardinality(Vetoers(id)) < Threshold
         /\ p.created_at <= p.queued_at /\ p.queued_at < p.expires_at
    /\ p.status = "Executed" =>
         /\ p.queued_at + p.timelock_seconds <= p.executed_at
         /\ p.executed_at < p.expires_at

(* The allowlist changes only in a step that executes a self-targeted       *)
(* proposal a quorum approved, to exactly the list that proposal named, and *)
(* a proposal payload is applied at most once (its nonce is consumed).  A   *)
(* proposal to call another contract is executed only while that call is on *)
(* the list, which other proposals may have replaced since propose and the  *)
(* votes.                                                                   *)
AllowlistByProposal ==
  [][/\ get_allowed_calls' # get_allowed_calls \/ self_nonce' # self_nonce =>
          \E id \in ProposalIds :
            /\ get_proposal(id).status = "Queued" /\ get_proposal(id)'.status = "Executed"
            /\ get_proposal(id).call.contract = Self
            /\ get_proposal(id).args.nonce = self_nonce
            /\ get_allowed_calls' = {get_proposal(id).args.calls[i] :
                                   i \in 1 .. Len(get_proposal(id).args.calls)}
            /\ self_nonce' = self_nonce + 1
     /\ \A id \in ProposalIds :
          get_proposal(id).status # "Executed" /\ get_proposal(id)'.status = "Executed" =>
            \/ get_proposal(id).call.contract = Self
            \/ get_proposal(id).call \in get_allowed_calls]_vars

(* A decision is final: a proposal that was executed, rejected or cancelled *)
(* stays so, no recorded vote is ever changed, and what a proposal asks for *)
(* and the terms it was created under are frozen; migrate_storage, at       *)
(* whatever point between votes it runs, changes nothing any query answers. *)
DecisionsFinal ==
  [][/\ \A id \in ProposalIds :
          /\ get_proposal(id).status \in Terminal => get_proposal(id)' = get_proposal(id)
          /\ \A s \in Signers : get_vote(id, s) # "None" => get_vote(id, s)' = get_vote(id, s)
          /\ Exists(id) =>
               /\ Exists(id)'
               /\ get_proposal(id)'.call = get_proposal(id).call
               /\ get_proposal(id)'.args = get_proposal(id).args
               /\ get_proposal(id)'.expires_at = get_proposal(id).expires_at
     /\ storage_version' # storage_version =>
          /\ get_proposal_count' = get_proposal_count
          /\ \A id \in ProposalIds : get_proposal(id)' = get_proposal(id)]_vars
=============================================================================
