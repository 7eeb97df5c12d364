------------------------- MODULE CouponDistributor -------------------------
(***************************************************************************)
(* The backend's coupon distribution (api/src/bonds/bonds.service.ts,        *)
(* distributeCoupon) beside the contracts it reads and calls.  A run        *)
(* collects the holders from Redis and from the issuer's paged holder list, *)
(* reads every balance twice, and sends the vector in batches; each of      *)
(* these is a remote call, and bonds are traded between any two of them.    *)
(* No lock is taken: the runs of two requests, or of two replicas, overlap. *)
(* A balance that cannot be read counts as zero.  A failed call, a timeout  *)
(* or a crash ends the run; the batches already applied stay, one that was  *)
(* under way may still be applied, and the admin may start again.           *)
(***************************************************************************)
EXTENDS CouponEngine

LOCAL INSTANCE SequencesExt

CONSTANTS
  Runs,           \* the requests that may be served at the same time
  RedisHolders,   \* what sMembers may return for a bond, as sequences
  PageSize,       \* pageSize of readOnChainHolderList
  BatchSizes,     \* the dto.batchSize values a request may carry
  MaxInFlight     \* bound on the unconfirmed batches that may still be applied

ASSUME DistributorAssumption ==
  /\ RedisHolders \subseteq Seq(Addresses)
  /\ PageSize \in Nat \ {0}
  /\ BatchSizes \subseteq Nat \ {0}
  /\ MaxInFlight \in Nat

VARIABLES
  run,        \* the local state of each run of distributeCoupon, or Idle
  in_flight,  \* batches submitted by runs that no longer wait for them
  missed,     \* history: the runs one of whose reads failed
  moved,      \* history: the runs whose bond's balances moved since they began
  stale       \* history: the distributions with a batch read before a balance moved

distributorVars == <<couponAllVars, run, in_flight, missed, moved, stale>>

Idle == [phase |-> "idle"]

DistributorInit ==
  /\ run = [r \in Runs |-> Idle]
  /\ in_flight = {}
  /\ missed = {}
  /\ moved = {}
  /\ stale = {}

-----------------------------------------------------------------------------
(* Helpers *)

(* The entries of list, each where it occurs first: a JavaScript Set. *)
Unique(list) ==
  FoldLeft(LAMBDA seen, x : IF Contains(seen, x) THEN seen ELSE Append(seen, x), <<>>, list)

(* A loop with nothing left to read falls through to the next one; what no  *)
(* later loop reads is cleared.                                             *)
FallThrough(q) ==
  LET filtered == IF q.phase = "filter" /\ q.todo = <<>>
                  THEN [q EXCEPT !.phase = "balances", !.todo = q.found, !.found = <<>>] ELSE q
  IN IF filtered.phase = "balances" /\ filtered.todo = <<>>
     THEN [filtered EXCEPT !.phase = "send"] ELSE filtered

(* The candidates are known: the balance filter is next. *)
Filter(q, onChain) ==
  FallThrough([q EXCEPT !.phase = "filter", !.todo = Unique(q.db \o onChain),
                        !.db = <<>>, !.found = <<>>, !.count = 0, !.start = 0])

(* MUTANT of MorePages: the last page is taken to be a full one. *)
MorePages_Full(q) == q.start + PageSize < q.count

MorePages(q) == q.start < q.count

-----------------------------------------------------------------------------
(* Steps of a run *)

(* A request for the coupon of period p, with the report id. *)
DistributeCoupon(r, b, p, report, size, db) ==
  /\ run[r] = Idle
  /\ run' = [run EXCEPT ![r] =
       [phase |-> "count", bond |-> b, period |-> p, report |-> report, size |-> size,
        db |-> db, count |-> 0, start |-> 0, found |-> <<>>, todo |-> <<>>, holders |-> <<>>]]
  /\ UNCHANGED <<in_flight, missed, moved, stale, couponVars>>

ReadHolderCount(r) ==
  LET q == [run[r] EXCEPT !.count = get_holder_count(run[r].bond), !.phase = "pages"] IN
  /\ run[r].phase = "count"
  /\ run' = [run EXCEPT ![r] = IF MorePages(q) THEN q ELSE Filter(q, <<>>)]
  /\ UNCHANGED <<in_flight, missed, moved, stale, couponVars>>

(* An empty page ends the loop too. *)
ReadPage(r) ==
  LET page == get_holder_list_range(run[r].bond, run[r].start, PageSize)
      q == [run[r] EXCEPT !.found = @ \o page, !.start = @ + PageSize]
  IN
  /\ run[r].phase = "pages"
  /\ run' = [run EXCEPT ![r] = IF page # <<>> /\ MorePages(q) THEN q ELSE Filter(q, q.found)]
  /\ UNCHANGED <<in_flight, missed, moved, stale, couponVars>>

(* The list cannot be read: the Redis set is the only source. *)
ReadListFails(r) ==
  /\ run[r].phase \in {"count", "pages"}
  /\ run' = [run EXCEPT ![r] = Filter(@, <<>>)]
  /\ missed' = missed \cup {r}
  /\ UNCHANGED <<in_flight, moved, stale, couponVars>>

(* getHolderBalance: the balance, or zero when the call fails. *)
ReadBalance(r, failed) ==
  LET h == Head(run[r].todo)
      balance == IF failed THEN 0 ELSE get_holder_balance(run[r].bond, h)
      q == [run[r] EXCEPT !.todo = Tail(@)]
  IN
  /\ run[r].phase \in {"filter", "balances"}
  /\ run' = [run EXCEPT ![r] = FallThrough(
       IF balance = 0 THEN q
       ELSE IF @.phase = "filter" THEN [q EXCEPT !.found = Append(@, h)]
       ELSE [q EXCEPT !.holders = Append(@, <<h, balance>>)])]
  /\ missed' = IF failed THEN missed \cup {r} ELSE missed
  /\ UNCHANGED <<in_flight, moved, stale, couponVars>>

Slice(q) ==
  SubSeq(q.holders, q.start + 1,
         IF q.start + q.size > Len(q.holders) THEN Len(q.holders) ELSE q.start + q.size)

IsFinalBatch(q) == q.start + q.size >= Len(q.holders)

(* The call a run is about to make, and whether its balances may be stale.  *)
BatchOf(r) ==
  [bond |-> run[r].bond, period |-> run[r].period, holders |-> Slice(run[r]),
   report |-> run[r].report, final |-> IsFinalBatch(run[r]), old |-> r \in moved]

(* The conditions of distribute_coupon, which a call is simulated against   *)
(* before it is signed and submitted.                                       *)
SimulationPasses(t) ==
  LET s == StateOf(t.bond, t.period, t.report)
      paid == Paid(t.bond, t.period, t.holders)
      processed == s.processed + Total(paid, BalanceOf(paid, t.holders))
  IN
  /\ ~period_info[t.bond][t.period].distributed
  /\ t.bond \in registered
  /\ IF batch[t.bond][t.period].open THEN s.report_id = t.report ELSE ReportUsable(t.bond, t.report)
  /\ IF t.final THEN processed = s.subscribed ELSE processed <= s.subscribed

(* The chain applies a batch.  It uses up the admin's nonce, with which all *)
(* the batches in flight were simulated and signed: none of them is left.   *)
Apply(t) ==
  /\ distribute_coupon(CouponAdmin, t.bond, t.period, t.holders, t.report, t.final)
  /\ in_flight' = {}
  /\ stale' = IF t.old THEN stale \cup {<<t.bond, t.period>>} ELSE stale

(* The run ends, and with it its histories. *)
Finish(r) ==
  /\ run' = [run EXCEPT ![r] = Idle]
  /\ missed' = missed \ {r}
  /\ moved' = moved \ {r}

(* A batch is applied and confirmed. *)
SendBatch(r) ==
  /\ run[r].phase = "send"
  /\ Apply(BatchOf(r))
  /\ IF IsFinalBatch(run[r])
     THEN Finish(r)
     ELSE /\ run' = [run EXCEPT ![r].start = @ + run[r].size]
          /\ UNCHANGED <<missed, moved>>

(* The confirmation does not come in time, or the process crashes while it  *)
(* polls: the request fails, and the submitted batch is still on its way.   *)
PollTimesOut(r) ==
  /\ run[r].phase = "send"
  /\ SimulationPasses(BatchOf(r))
  /\ Cardinality(in_flight) < MaxInFlight
  /\ in_flight' = in_flight \cup {BatchOf(r)}
  /\ Finish(r)
  /\ UNCHANGED <<stale, couponVars>>

(* An error, a refused call or a crash: the rest is not sent. *)
Abort(r) ==
  /\ run[r] # Idle
  /\ Finish(r)
  /\ UNCHANGED <<in_flight, stale, couponVars>>

(* The fate of a batch nobody waits for: it is applied after all, or its    *)
(* time bounds pass.                                                        *)
AppliedLate(t) ==
  /\ Apply(t)
  /\ UNCHANGED <<run, missed, moved>>

Expire(t) ==
  /\ in_flight' = in_flight \ {t}
  /\ UNCHANGED <<run, missed, moved, stale, couponVars>>

RunStep(r) ==
  \/ \E b \in BondIds, p \in Periods, report \in Reports, size \in BatchSizes,
        db \in RedisHolders :
       DistributeCoupon(r, b, p, report, size, db)
  \/ ReadHolderCount(r) \/ ReadPage(r) \/ ReadListFails(r)
  \/ \E failed \in BOOLEAN : ReadBalance(r, failed)
  \/ SendBatch(r) \/ PollTimesOut(r) \/ Abort(r)

(* The bonds some of whose balances a step moves. *)
BalancesMove == {b \in BondIds : holder_balance'[b] # holder_balance[b]}

(* A step of the contracts, which may move balances under runs, batches in  *)
(* flight and distributions begun.                                          *)
ContractStep ==
  /\ CouponNext
  /\ moved' = moved \cup {r \in Runs : run[r] # Idle /\ run[r].bond \in BalancesMove}
  /\ in_flight' = {[t EXCEPT !.old = @ \/ t.bond \in BalancesMove] : t \in in_flight}
  /\ stale' = stale \cup {<<b, p>> \in BalancesMove \X Periods : batch[b][p].open}
  /\ UNCHANGED <<run, missed>>

DistributorNext ==
  \/ (\E r \in Runs : RunStep(r)) /\ UNCHANGED <<vars, report_status, approved>>
  \/ /\ \E t \in in_flight : AppliedLate(t) \/ Expire(t)
     /\ UNCHANGED <<vars, report_status, approved>>
  \/ ContractStep

DistributorSpec == CouponInit /\ DistributorInit /\ [][DistributorNext]_distributorVars

-----------------------------------------------------------------------------
(* Properties *)

(* What a run still has to send makes the period whole: with the unpaid     *)
(* entries of its vector, the balances paid on add up to the subscribed     *)
(* total, as distribute_coupon demands of the final batch.                  *)
Completes(q) ==
  LET s == IF batch[q.bond][q.period].open THEN batch[q.bond][q.period]
           ELSE [processed |-> 0, subscribed |-> total_subscribed[q.bond]]
      rest == SubSeq(q.holders, q.start + 1, Len(q.holders))
      unpaid == Paid(q.bond, q.period, rest)
  IN s.processed + Total(unpaid, BalanceOf(unpaid, rest)) = s.subscribed

(* A run that could read everything, of a bond whose balances have not      *)
(* moved since it began, carries exactly what the period still lacks, as    *)
(* long as no batch of the period was read before a balance moved: its      *)
(* vector names nobody unpaid too little or twice.  So it closes the        *)
(* period, or finds it closed, whatever the runs beside it send in          *)
(* between, wherever earlier ones were cut off, and whichever batches they  *)
(* gave up on are applied late.                                             *)
CalmRunsFinalise ==
  \A r \in Runs :
    run[r].phase = "send" /\ r \notin missed /\ r \notin moved
        /\ <<run[r].bond, run[r].period>> \notin stale
        /\ ~period_info[run[r].bond][run[r].period].distributed =>
      Completes(run[r])
=============================================================================
