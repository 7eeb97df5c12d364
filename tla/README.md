# NBS bond protocol: TLA+ specification

TLA+ specifications of the Soroban contracts of the nature-based-solutions bond
protocol and of the two backend services that race with them, TLC models that
check them on small instances, and TLAPS proofs of the results that should hold
for instances of any size. Definitions keep the names of the functions and
storage keys they translate; `PROJECT.json` gives the source lines of each one.

## 1. The system

| Part | Source | What it does | Module |
|---|---|---|---|
| project-registry | `contracts/project-registry` | projects, their review, the unique metadata hash, admin rotation behind a time lock | `ProjectRegistry`, `AdminTransfer` |
| oracle-consumer | `contracts/oracle-consumer` | providers with stakes, impact reports, multi-signature verification, challenges with bonds and votes, slashing; revokes projects in the registry | `OracleConsumer`, `ReportLifecycle` |
| bond-issuer | `contracts/bond-issuer` | bonds, subscriptions, transfers, maturity, redemption, the holder list | `BondIssuer` |
| coupon-engine | `contracts/coupon-engine` | turns a verified report into credits for the holders of a bond, in batches; claims, sweeps, deductions | `CouponEngine` |
| credit-retirement | `contracts/credit-retirement` | retires credits, issues certificates, keeps pre-upgrade records readable | `CreditRetirement`, `VintageYear` |
| dex-router | `contracts/dex-router` | order book for bond tokens against deposited quote assets | `DEXRouter`, `DEXQuotes` |
| governance | `contracts/governance` | multi-signature proposals with veto, time lock, expiry and an allowlist of calls; nonces in storage that expires | `Governance`, `GovernanceNonces` |
| nonce mirror, transaction submission | `api/src/common/services`, `api/src/stellar` | Redis mirror of the on-chain nonces; simulate, send, poll, roll back | `NonceMirror` |
| coupon distribution service | `api/src/bonds` | reads holders and balances, sends the batches | `CouponDistributor` |
| oracle scheduler, adapters, health monitor | `api/src/oracle`, `oracle/` | polls data sources, submits reports, records dead letters and alerts | not modelled (section 6) |
| authentication and KYC | `api/src/auth` | challenge and signature login, KYC states | not modelled (section 6) |
| marketplace and project APIs, IPFS, frontend, scripts | `api/src`, `ipfs/`, `frontend/`, `scripts/` | request building, formatting, I/O | not modelled (section 6) |

How the contracts call each other:

    oracle-consumer --get_project_linkage, revoke_project--> project-registry
    coupon-engine   --get_bond, total_subscribed--> bond-issuer
    coupon-engine   --get_project_status_by_hash--> project-registry
    coupon-engine   --get_report--> oracle-consumer
    dex-router      --get_holder_balance, transfer--> bond-issuer
    credit-retirement --get_holder_balance, get_bond--> bond-issuer
    credit-retirement --get_period_info, deduct_credits--> coupon-engine
    governance      --allowlisted calls--> any of them
    API (nonce mirror) --get_nonce, every signed call--> any of them
    API (distribution) --get_holder_count, get_holder_list_range,
                         get_holder_balance, distribute_coupon--> issuer, engine

## 2. How the code is modelled

A contract call is atomic: the host runs it to the end or reverts every write
of it, those made in called contracts included. So a successful call is one
action, its guard is the conjunction of all its checks, and a call that returns
an error or panics is a stuttering step. A call into another contract is the
other contract's action, conjoined. All interleaving is between calls, by
different accounts and at different ledger times; `now` (in `Governance`
`timestamp`) is the ledger clock, advanced by `Tick` (`AdvanceTime`).

The backend is the opposite: every `await` is a step boundary, and between two of
them other requests, other replicas, the contracts and the network move. An
awaited call may answer, fail, or take effect and lose its answer; a process may
die at any of them. `NonceMirror` and `CouponDistributor` have one action per
await.

Nonces. Every contract compares and increments a per-address nonce, so an
off-chain retry with an old nonce is a failing call and the contract models leave
the nonce out. Three places keep more: the oracle's own nonce for calling the
registry (`OracleConsumer`), the nonce in a governance payload (`Governance`), and
the governance nonces with their markers and lifetimes (`GovernanceNonces`). How
the API chooses the nonces it sends is `NonceMirror`; its `NonceValid` is the check
every contract makes.

Storage keys become functions: `DataKey::HolderBalance(bond, holder)` is
`holder_balance[bond][holder]`, and an absent key is the default that the
code's `unwrap_or` gives. Addresses and hashes are model values, amounts small
naturals. Fixed-point constants and divisors are CONSTANTS, so that a model
with small numbers still rounds.

Composition is by `EXTENDS`:

    AdminTransfer <- ProjectRegistry <- OracleConsumer ..implements.. ReportLifecycle
    UnitSums <- BondIssuer <- DEXRouter <- DEXQuotes
                BondIssuer, ReportLifecycle <- CouponEngine <- CreditRetirement
                                               CouponEngine <- CouponDistributor
    VintageYear                                            <- CreditRetirement
    Governance      GovernanceNonces      NonceMirror

`ReportLifecycle` is the abstract specification of what the oracle promises its
readers: how the status of a report may move. `OracleConsumer` is shown to
implement it (`ReportsFollowLifecycle`, with the statuses of its reports as the
refinement mapping). `CouponEngine` is composed with `ReportLifecycle` instead of
the whole oracle: what holds there holds with any oracle that keeps the promise.

Sums. `UnitSums!Total(S, f)` is the number of pairs `<<x, i>>` with `x \in S` and
`i \in 1 .. f[x]`, the sum of `f` over `S`. Written this way it needs no recursion,
so it can be proved about.

History variables (`payments`, `spent`, `listed`, `sold`, `deposited`, `consumed`,
`last_call`, `lost`, `seeded`, `missed`, `moved`, `stale`) exist only for properties: no
guard and no other variable depends on them. The fields `by` and `at` of a pending admin change
are of the same kind.

### The backend and storage-lifetime modules

`NonceMirror` follows one (contract, address) pair; pairs share no key but the set
of known pairs. A request is one call of `next()` and the transaction that
carries its nonce: track the pair, test the key, take the lock or wait for it,
read the chain, seed, release, increment, simulate, submit, poll, and confirm or
roll back. `OnError` says where a failing await leads. Around the requests are
the lock's expiry, the release on shutdown, crashes, a Redis that loses its keys,
the network that applies, fails or drops transactions, and the reconciler, which
reads and writes in two steps without the lock.

`CouponDistributor` adds to `CouponEngine` the runs of `distributeCoupon`, each with
the local state of its request: the pages of the holder list, the two passes over
balances and the batches. The service takes no lock, so runs overlap, for the same
period too. A failing list read leaves only Redis as a source, a failing balance
read counts as zero, and any error or crash ends the run with the batches sent so
far in place. Only a batch whose simulation passes is submitted. One that is not
confirmed in time ends its run and stays in `in_flight`: the network applies it
later, between any two steps of other runs, or it expires. An applied batch uses up
the nonce that the others in flight carry, which voids them. In the code any other
call of the admin voids them as well; the model leaves them in flight there, which
allows more than the code does.

`GovernanceNonces` has for every account the persistent nonce and its marker, the
legacy nonce in instance storage, and the last ledger in which each entry is live.
A call that touches an archived entry fails; anybody may restore one entry at a
time, with the lifetime the network gives (`MIN_TTL`).

### Left out inside modelled contracts

* Time-to-live and archival of entries, except the governance nonces
  (`GovernanceNonces`) and which entries the keep-alive call of credit-retirement
  needs.
* i128 and u64 widths: amounts in the models are far from the limits, where the
  code's checked arithmetic reverts the call.
* Events and read-only getters, except the ones other code pages or prices with
  (`get_holder_list_range`, `list_projects`, `get_owner_projects`, `get_best_price`).
* oracle-consumer: metric values, `verified_at` and `registered_at`.
* oracle-consumer `set_project_registry` stores whatever registry the admin names. The
  models have one registry: configuring it again resets the oracle's nonce for it,
  which is modelled, and pointing the oracle at a different contract is not. After
  such a change older reports name projects of the former registry, and nothing
  here speaks of them.
* coupon-engine: `holder_count` and the period's start and end.
* dex-router: the seller's authorisation of the `transfer` inside a purchase
  (granted when the call is made).
* credit-retirement: the certificate hash beyond the check that it is not zero;
  `get_retired_by_type` reads a key that nothing writes.
* governance: the effect of an allowlisted call in its target contract. The
  `set_allowed_calls` entry point demands the contract's own authorisation, which
  only the execution of a proposal gives, so it is no action of its own.
* coupon-engine: `get_period_info_range` (section 5).

## 3. Runs

All runs use `CHECK_DEADLOCK FALSE`: a contract acts only when it is called, and
at the bounds no call succeeds any more.

| Run | Model and bounds | What it shows |
|---|---|---|
| `governance` | 3 signers, threshold 2, an outsider, 2 proposals, time lock 1, lifetime 2, clock to 3 | votes and counters agree, executions rest on a quorum and are final, the allowlist changes only through a proposal, a call is executed only if it is on the allowlist at that moment, the migration is invisible |
| `governance_nonces` | 1 signer and the contract, legacy nonce absent or 1, threshold 1, extension 3, minimum lifetime 1, 8 ledgers, nonces below 4 | nonces are consumed in order through archival, restoration and the move out of instance storage; a call leaves what it used live beyond the threshold |
| `project_registry` | 2 accounts and the oracle, 3 projects, 2 hashes, time lock 1, clock to 2 | one live project per hash, pages cover the projects, an admin change was proposed by the admin in office a full time lock ago |
| `oracle_disputes` | 3 providers, 1 report, window and timeout 1, clock to 3 | votes, bonds, statuses and slashes agree; the oracle implements `ReportLifecycle` |
| `oracle_stakes` | 2 providers, stakes of 2 up to 3, 2 reports, penalty seven tenths | stake reservations add up and cannot be withdrawn; the provider's record counts its reports |
| `oracle_reports` | from the constructors, 1 provider, 3 reports, history of one window, both admin keys rotating | reporting periods stay disjoint after eviction; challenges end |
| `oracle_override_lock` | 3 providers, 1 report | *violation*: an overridden report keeps the stake locked |
| `coupon_lifecycle` | from the constructors, one bond of each credit type, amounts 1 and 2, 1 report, 1 period, both sides of maturity | tokens are conserved, every account with tokens is listed, from maturity on balances only fall, by redemption; coupons rest on verified reports; breakdowns by type add up |
| `coupon_distributor` | 2 overlapping runs, 2 batches in flight, a bond of 2 tokens held by the admin, one other account, 1 report, 1 period, pages of 2, batches of 1, a partial Redis set | a run whose reads succeeded, on balances that did not move, for a period no batch of which was read before a balance moved, carries exactly what the period still lacks, whatever earlier runs left behind and whatever other runs and late batches do meanwhile |
| `credits` | subscribed basket bond, 2 reports, 2 periods, 6 batches, one legacy certificate, up to 3 retirements | credits are conserved through distribution, claim, sweep and retirement; nobody is paid twice; certificates are immutable with the right vintage |
| `dex` | 2 accounts, 3 tokens, 2 orders, 2 prices, deposits to 2, clock to 2 | delivery versus payment, conservation of quotes, orders sell what they listed, quotes match a reference definition |
| `nonce_mirror` | 2 requests, the contract at nonce 0 or 1, at most one loss of Redis data | a lock is released only by its owner, a missing key is never incremented and what is incremented was set from the chain, unless Redis lost data, no nonce is applied twice; locks are freed and the mirror heals |

Why the bounds are enough for the cases that matter. Three accounts give an
admin, two parties and, in the oracle, a submitter with two other providers, so
that a supermajority differs from a single vote. Two orders or two reports give
competition for one balance or one stake, two requests for one lock and one
mirror. Amounts up to 2 or 3 give partial and whole fills, and `FIXED_POINT` 10
with a divisor of 3 makes shares round. Clocks run at least to the time lock,
window, timeout or maturity date in question, so that calls before and after the
limit occur; in `governance`, `project_registry` and `oracle_disputes` they run
beyond it. Eight ledgers let an entry be extended, run out, be restored and run
out again. A page of 2 with up to 3 holder entries gives a full page, a partial one
and a second one. `oracle_stakes`, `credits` and `coupon_distributor` stop
the clock: nothing they ask depends on time. `oracle_reports` sets the challenge window and timeout to 0, so
that its clock of two instants separates a fresh challenge from a stale one.
`MaxHolderEntries`, `MaxRegistrySets`, `MaxStake`, `MaxQuote`, `MaxBondBalance`,
`MaxLedger`, `MaxNonce`, `MaxInFlight` and `MaxLosses` bound what the code leaves unbounded; each
is in the guard of the step that would exceed it. The dispute, stake,
`coupon_distributor`, `credits` and `dex` models start from a deployed state
(`Deployed`, `Subscribed`) instead of the constructors, to spend their bounds on
what follows it; `coupon_lifecycle`, `project_registry` and `oracle_reports` start
from the constructors and make the calls that lead there. Symmetry is used for
interchangeable accounts in runs without liveness.

Each property of a passing run has a mutated definition beside the original
(`retire_credits` with no deduction, a guard dropped, a counter read from the
wrong store) under which TLC reports the property violated.

### Fairness

`oracle_reports` (`ChallengesEnd`) and `nonce_mirror` (`LocksFreed`, `MirrorHeals`)
check liveness.

`FairOracleSpec` assumes that the clock advances and that a stale challenge is
eventually expired by somebody. `expire_stale_challenge` needs no authorisation and
earns the caller nothing, so this is an assumption about the operators, not about
the contract; no fairness is assumed of the admin, of providers or of voters.
`ChallengesEnd` excepts challenges made so late that the model's clock ends before
their timeout.

`NonceMirror!Fairness` assumes weak fairness of each begun request's steps (an await
settles by an answer, an error or a deadline), of the settling of a submitted
transaction (it carries time bounds), of the lock's expiry (`PX`) and of the
reconciler's read (a cron job every five minutes); and strong fairness of its
write: of infinitely many attempts some succeed. Nothing is assumed of requests
that have not begun, and crashes and losses are never required.

## 4. Proofs

Every invariant and every action property of the runs is proved for all values of
the constants; what stays with TLC is listed at the end of this section.

| Theorem | Statement |
|---|---|
| `BondIssuerProofs!TypeCorrect` | `Spec => []TypeOK` |
| `BondIssuerProofs!Conservation` | `Spec => []TokensConserved` |
| `BondIssuerProofs!EveryHolderListed` | `Spec => []HoldersListed` |
| `BondIssuerProofs!FrozenAtMaturity` | `Spec => MaturityFreezes` |
| `DEXRouterProofs!DEXImplementsIssuer` | `DEXSpec => Spec`: trading adds no way to move tokens |
| `DEXRouterProofs!IssuerSafeUnderDEX` | the issuer's properties hold under `DEXSpec` |
| `DEXRouterProofs!QuoteConservation` | `DEXSpec => []QuoteConserved` |
| `DEXRouterProofs!ListingHonoured` | `DEXSpec => []SoldWithinListing` |
| `DEXRouterProofs!PaidOnDelivery` | `DEXSpec => DeliveryVersusPayment` |
| `CouponProofs!CouponImplementsIssuer` | `CouponSpec => Spec` |
| `CouponProofs!CouponFollowsReports` | `CouponSpec => LifecycleSpec` |
| `CouponProofs!CreditConservation` | `CouponSpec => []CreditsConserved` |
| `CouponProofs!PaidOnce` | `CouponSpec => []PaidOncePerPeriod` |
| `CouponProofs!OnVerifiedReports` | `CouponSpec => []CouponsOnVerified` |
| `CouponProofs!BreakdownTrue` | `CouponSpec => []BreakdownAddsUp` |
| `RetirementProofs!NoCreditTwice` | `UpgradedAnytime => []NoDoubleSpend` |
| `RetirementProofs!AnswersAreTrue` | `UpgradedAnytime => []TotalsMatchRecords` |
| `RetirementProofs!NeverRewritten` | `UpgradedAnytime => CertificatesImmutable` |
| `RetirementProofs!VintageIsTrue` | `UpgradedAnytime => []CertificateVintage` |
| `GovernanceProofs!HashMeansOneProject` | `RegistrySpec => []ActiveHashUnique` |
| `GovernanceProofs!KeyPassesInTime` | `RegistrySpec => AdminChangesDelayed` |
| `GovernanceProofs!PagesAndOwners` | `RegistrySpec => []PagesCoverProjects` |
| `OracleConsumerProofs!LifecycleImplemented` | `OracleSpec => ReportsFollowLifecycle`: the refinement of `ReportLifecycle` |
| `OracleConsumerProofs!BondsAccounted` | `OracleSpec => []ChallengeBondsAddUp` |
| `OracleConsumerProofs!PeriodsKeptApart` | `OracleSpec => []PeriodsDisjoint` |
| `OracleConsumerProofs!ReservationsAccounted` | `OracleSpec => []StakeLocksAddUp` |
| `OracleConsumerProofs!ReserveKept` | `OracleSpec => WithdrawalsKeepReserve` |
| `OracleConsumerProofs!ThresholdReachable` | `OracleSpec => []ThresholdWithinActive` |
| `OracleRecordsProofs!JudgesAreIndependent` | `OracleSpec => []JudgesIndependent` |
| `OracleRecordsProofs!RejectionHasItsEffect` | `OracleSpec => []RejectionComplete` |
| `OracleRecordsProofs!RecordsAreTrue` | `OracleSpec => []ProviderRecordTrue` |
| `GovernanceProofs!CountsTrue` | `Spec => []CountsMatchVotes` |
| `GovernanceProofs!QuorumBehindExecution` | `Spec => []ExecutedByQuorum` |
| `GovernanceProofs!AllowlistGoverned` | `Spec => AllowlistByProposal` |
| `GovernanceProofs!DecisionsStand` | `Spec => DecisionsFinal` |
| `GovernanceProofs!ConsumedInOrder` | `NoncesSpec => []NoncesConsumedInOrder` |
| `GovernanceProofs!AliveAfterCall` | `NoncesSpec => []LiveAfterCall` |
| `DEXRouterProofs!AppliedOnce` | `MirrorSpec => []NoncesAppliedOnce` |
| `DEXRouterProofs!NoBlindIncrement` | `MirrorSpec => []NeverIncrementsMissingKey` |
| `DEXRouterProofs!OwnerReleases` | `MirrorSpec => LockReleasedByOwner` |
| `OperatorProofs!YearIsCalendarYear` | `year_from_timestamp` returns the Gregorian year of every day from 1970 on |

They hold for every value of the constants that satisfies the module's named
assumption (`IssuerAssumption`, `GovernanceAssumption`, `RegistryAssumption` and so
on), which every run evaluates for its own values. The proofs are about the
specifications that start from the constructors. Each component has an inductive
invariant, one lemma per operation or kind of step, and the theorems follow from
it. `OperatorProofs` holds what the others share: sums of units, orders, and
`BuildUp`, an induction over finite sets. Its parameter is the family of sets for
which the claim holds, a set and not an operator, so the provers can use it.
`GovernanceProofs` covers the registry, the governance contract and its nonces;
`DEXRouterProofs` has a part of its own for the nonce mirror; `OracleConsumerProofs`
and `OracleRecordsProofs` divide the oracle between them.

*Bond issuer.* `total_subscribed` is the sum of the balances and never exceeds the
supply. `TypeOK` is not inductive: that `redeem` leaves `total_subscribed` a natural
number follows only from the sum. `IInv` adds that identifiers are issued in
order, that a bond not yet issued has no tokens, that balances add up, and that
the supply is respected. The sums rest on `OperatorProofs`: changing one entry of
`f` by `k` changes the cardinality of its units by `k`. `HoldersListed` is inductive
relative to `IInv`; that balances are frozen at maturity needs that a bond accepts
subscriptions and transfers only before its maturity date.

*DEX router.* `DEXInv` puts beside the issuer's `IInv` that an order's `amount` and
what it sold make up what it listed, whatever its status (`FillsAddUp`), that every
order is on its seller's and its bond's lists, and that the balances of a quote
asset add up to what was deposited. `withdraw_quote` leaves the deposits a natural
number only because of that sum. A purchase is a transfer of the issuer and two
changes of balances, of which one may be of the same account; the two are added up
one after the other.

*Coupon engine.* `CreditsAddUp` says that accrued, undistributed and spent credits
are what the finished and the open periods created. It needs `RatesKept`: an open
batch has paid at most its rate on the balances it has processed. A period that
had paid more than its report is worth would be closed with a negative remainder,
which the code does not book. `PaidAreMarked` joins the payments with the marks of
the period's holders, and `OnlyOwnTypes` says that a bond never has credits of a
type it does not yield, which makes the breakdown by type add up to the total.
The rest are lemmas about the rounding of `PerToken` and about one holder's and one
batch's effect.

*Retirement.* The state is storage, so the first lemmas say what `read` answers
after `write` and that keys of different kinds or holders are different entries
(`WriteRead`, `KeysApart`). `RetirementInv` then speaks of answers only: records are
kept (`RecordsKept`), the credits on new certificates are covered by what was
deducted (`SpentCovers`), totals and indexes agree with the certificates
(`TotalsTrue`, `IndexesTrue`). The theorems start from `UpgradedAnytime`: the move to
persistent storage happens at any moment of the engine's life, in any state that
satisfies `CouponInv`. `UpgradedEarly` shows that `RetirementSpec`, where nothing has been
distributed yet, is a special case.

*Governance.* A proposal and its votes may be in either storage, so the argument is
about what the reads answer: `MigrationQuiet` shows that `migrate_storage` changes no
answer, `ReadAfterWrite` and `VoteAfterWrite` what a read answers after a write.
Every other call is a proposal, a vote or a closing (`StepKinds`). `IInv` joins the
counters with the sets of signers who voted (`OneMoreVote`), keeps an open proposal
below both quorums and has `ExecutedByQuorum` itself. `AllowlistByProposal` follows a
closing step: the one that executes carries the allowlist check, made in the same
call.

*Governance nonces.* `LiveAfterCall` alone is not inductive: that one account's call
keeps the instance live for the others needs every recorded call to be in the
past. Nonce and marker exist together (`MarkedTogether`), so `NonceArchived` is an
answer nobody gets.

*Nonce mirror.* `AppliedBelow` and `SubmittedLast` say that an applied nonce is below
the contract's and that a request's nonce is settled once its transaction is out.
Whatever the mirror hands out, the next applied nonce is then new. That no request
increments blindly needs `SeededBeforeIncrement`, that a request past the seeding
found or made the key unless Redis lost data since, and `ReadFromChain`, that short
of such a loss the key exists only once a value read from the chain was written.

*Project registry.* `ActiveHashUnique` needs the index to be true: an entry names a
registered project with that hash (`IndexTrue`), and an active project is the one
its hash's entry names (`ActiveIndexed`). The admin property needs that the pending
proposal is the only one and was made by the admin still in office. A page of
`list_projects` is an interval of ids, so that the pages cover the projects is
arithmetic with the page size granted; the owners' lists need `OwnersTrue`.

*Oracle consumer.* Report, challenge and bond are three entries the code keeps in
step. The refinement needs `ChallengedWhileOpen`, since `finalize_challenge` looks at
the challenge and not at the report; disjoint periods need `LastPeriodCovers`, since
the history forgets; the bonds are sums of units again. The calls are first sorted
into a few kinds of steps, and the invariant is shown for each kind.

*Stakes and threshold.* `StakeInv` says that each provider's `locked_stake` is the sum
of the `report_lock` entries of its reports, and that a report keeps its provider. It
is inductive relative to `IInv`. `release_report_lock` subtracts what the entry holds
and would clamp the counter at zero; the counter is a sum with that entry in it, so
it never has to, and no other report's reservation is lost. A withdrawal compares
with the counter, which is therefore at least what undecided reports reserve.
`ThresholdInv` needs only that a registration adds an active provider and that every
call that may deactivate one ends with `reconcile_signature_threshold`.

*Judges and records.* `VotesInv` says that the endorsements of a report are distinct,
that nobody is on both sides of its challenge, and that all of them are registered
providers other than the submitter (`Eligible`). `RecordsInv`, inductive relative to
`IInv` and `StakeInv`, says that a provider's counters and lists are those of its reports
and challenges, and that a report whose challenge ended in a rejection has exactly
one entry in the slash history, is rejected, and so is its project. The last needs
that a rejected project stays rejected (`RejectedForGood`).

*Vintage year.* `year_from_timestamp` uses the days-from-civil algorithm with eras
of 400 years starting in March. The reference is a calendar definition of the
first day of each year. `EraYear` shows that the year of the era is right for
every day of an era, `MonthSplit` that the month test separates days before and
after the turn of the year, and the theorem combines them. All of it is linear
arithmetic with constant divisors.

Only model-checked:

* `ChallengesEnd`, `LocksFreed` and `MirrorHeals`: liveness under fairness is out of the
  prover's reach.
* `CalmRunsFinalise`: it follows the passes and batches of overlapping runs of the
  distributor, whose number depends on the list of holders.
* `QuoteIsBest`: what `get_best_price` computes is two folds over a sequence, with
  operators as parameters; the provers cannot do the induction.
* `ResolvedReportsUnlocked` is false (section 5).

## 5. Where documentation and code differ

One is shown by a run (`oracle_override_lock`; see `findings` in `PROJECT.json`): an
admin override leaves the stake of the report locked. Others were met while
modelling and have no run:

* oracle-consumer `lib.rs:884`: votes are compared with the supermajority only
  when one is cast. If a provider is removed afterwards, a challenge whose votes
  now suffice stays open until another vote or its expiry.
* oracle-consumer `lib.rs:1135`: the comment says a threshold above the active
  count could never be reached. One equal to it cannot be reached either for a
  report submitted by an active provider, who may not verify it.
* oracle-consumer `lib.rs:1710`: a rejecting verdict calls `revoke_project`, so
  it reverts if the project is no longer one that can be revoked;
  `docs/oracle-design.md:58` states no such condition on settling a challenge.
* bond-issuer `lib.rs:45`: the comment says the holder list has no duplicate
  entries and `get_holder_count` (`lib.rs:500`) is said to count distinct holders;
  an account that empties its balance and returns is appended again (`lib.rs:286`).
  `distributeCoupon` removes duplicates before it reads balances.
* coupon-engine `lib.rs:845`: periods finalised out of order are missing from
  `get_period_info_range`, which stops at the number of finalised periods.
* coupon-engine `lib.rs:310`: nothing prevents one report from backing two
  periods.
* credit-retirement `lib.rs:463`: `extend_retirement_ttl` extends index entries that
  a legacy certificate need not have in persistent storage, and then fails as a
  whole; `docs/retirement-certificates.md:137` says the first such call re-homes
  the record.
* credit-retirement `lib.rs:493`: `get_retired_by_type` reads a key nothing writes.
* governance `lib.rs:162`: the comment says a nonce stays alive if its owner
  transacts once within each TTL window. A call made while more than the threshold
  is left extends nothing, so what is guaranteed is life beyond the threshold
  (`LiveAfterCall`), not for a whole window.
* governance `lib.rs:823`: `is_call_allowed` is said to answer whether `execute` would
  permit a call; it knows nothing of the self-targeted `set_allowed_calls`, which
  `execute` always permits.
* `nonce.service.ts:333`: the comment says `sync()` runs exactly once per missing
  pair. The lock may expire under a slow `sync()`, and the reconciler and the
  fallback of `next()` sync without it.
* `nonce.service.ts:304`: the comment says a rollback that creates the key at -1 is
  harmless because the next call re-seeds it. `next()` seeds only a missing key, so
  it hands out -1, and values too low after it, until the reconciler writes
  (`MirrorHeals`).
* `docs/architecture.md:119` gives `BondError::Overflow` for an early
  `mature_bond`; the code returns `NotYetMature`.

## 6. Not modelled

* Oracle scheduler and API: poll cycles over external registries, a check by query
  for what was already reported, and a dead-letter list. What protects the chain
  from overlapping cycles is that reported periods are disjoint, in
  `OracleConsumer`.
* Oracle adapters and health monitor: fetching and validating documents is I/O; the
  alert tracker and the staleness thresholds are counters of one process.
* Authentication and KYC: single reads and writes of Redis keys.
* The other methods of the bonds, marketplace and projects APIs: each builds one
  call whose effect is an action of a contract module, and caches answers.
* Evidence storage (IPFS), DTOs, guards, dependency injection, frontend, scripts:
  I/O, formatting and presentation.
* Lifetimes of the bond, coupon, retirement, registry and oracle entries. Their
  writes extend what they touch; `GovernanceNonces` shows the pattern, with the
  storage change that makes it hard.

Next candidate: the scheduler's overlapping cycles with its dead-letter store.
