----------------------------- MODULE NonceMirror -----------------------------
(***************************************************************************)
(* How the API allocates contract nonces (api/src/common/services:          *)
(* nonce.service.ts, nonce-reconciler.service.ts) and follows the           *)
(* transactions that carry them (api/src/stellar/contract.service.ts), for  *)
(* one (contract, address) pair: pairs share no key.  Redis holds a mirror  *)
(* of the on-chain nonce; requests increment it, seed it from the chain     *)
(* under a lock when it is missing, and roll it back when their transaction *)
(* is not confirmed; the reconciler overwrites it from the chain without    *)
(* the lock.  Every await is a step boundary, and requests of any number of *)
(* replicas interleave.                                                     *)
(***************************************************************************)
EXTENDS Integers

CONSTANTS
  Requests,       \* calls of next() followed by a transaction, each made once
  InitialNonces,  \* what the contract may already hold for the address
  NoOne,          \* no lock token
  Absent,         \* no value: a missing Redis key, nothing read yet
  MaxLosses       \* bound on how often Redis loses data

ASSUME NonceMirrorAssumption ==
  /\ InitialNonces \subseteq Nat
  /\ NoOne \notin Requests
  /\ Absent \notin Int
  /\ MaxLosses \in Nat

VARIABLES
  chain_nonce,  \* the contract's persistent DataKey::Nonce(address), 0 if missing
  mirror,       \* Redis nonce:<contract>:<address>
  lock,         \* Redis nonce_lock:<contract>:<address>: the request whose token it is
  known,        \* whether nonce:known-pairs has the pair
  pc,           \* the await each request is at
  seen,         \* what the request's sync() read from the chain
  taken,        \* what next() returned to the request
  tx,           \* the request's transaction on the network
  reconciler,   \* what the reconciler's sync() has read and not yet written
  losses,       \* how often Redis has lost data
  lost,         \* history: the requests in flight when it did
  seeded        \* history: the mirror was set from the chain since Redis last lost it

keyVars == <<mirror, seeded>>
requestVars == <<pc, seen, taken>>
redisVars == <<keyVars, lock, known>>
mirrorVars == <<chain_nonce, redisVars, requestVars, tx, reconciler, losses, lost>>

MirrorInit ==
  /\ chain_nonce \in InitialNonces
  /\ mirror = Absent
  /\ lock = NoOne
  /\ known = FALSE
  /\ pc = [r \in Requests |-> "idle"]
  /\ seen = [r \in Requests |-> Absent]
  /\ taken = [r \in Requests |-> Absent]
  /\ tx = [r \in Requests |-> "none"]
  /\ reconciler = Absent
  /\ losses = 0
  /\ lost = {}
  /\ seeded = FALSE

(* INCR and DECR take a missing key for 0.                                  *)
Counter(m) == IF m = Absent THEN 0 ELSE m

(* The awaits between acquiring the lock and the end of the finally block,  *)
(* while heldLocks has the token.                                           *)
Holding == {"read", "seed", "release", "abort"}

At(r, here, there) == pc[r] = here /\ pc' = [pc EXCEPT ![r] = there]

-----------------------------------------------------------------------------
(* next() *)

(* trackPair(); its failure is swallowed. *)
Begin(r) ==
  /\ At(r, "idle", "check")
  /\ known' \in {known, TRUE}
  /\ UNCHANGED <<keyVars, lock, seen, taken>>

CheckExists(r) ==
  /\ At(r, "check", IF mirror = Absent THEN "lock" ELSE "incr")
  /\ UNCHANGED <<redisVars, seen, taken>>

(* SET NX PX of the lock. *)
TryLock(r) ==
  /\ At(r, "lock", IF lock = NoOne THEN "read" ELSE "wait")
  /\ lock' = IF lock = NoOne THEN r ELSE lock
  /\ UNCHANGED <<keyVars, known, seen, taken>>

(* A poll of a waiter that finds the key. *)
WaitSeeded(r) ==
  /\ At(r, "wait", "incr")
  /\ mirror # Absent
  /\ UNCHANGED <<redisVars, seen, taken>>

(* The first half of sync(): track the pair and read the chain; in          *)
(* syncWithLock() or in the fallback of next().                             *)
ReadChain(r) ==
  /\ At(r, "read", "seed") \/ At(r, "reread", "reseed")
  /\ known' \in {known, TRUE}
  /\ seen' = [seen EXCEPT ![r] = chain_nonce]
  /\ UNCHANGED <<keyVars, lock, taken>>

(* The second half: SET the mirror to what was read.  The fallback hands    *)
(* that value out without incrementing the mirror.                          *)
Seed(r) ==
  /\ \/ At(r, "seed", "release") /\ UNCHANGED taken
     \/ At(r, "reseed", "simulate") /\ taken' = [taken EXCEPT ![r] = seen[r]]
  /\ mirror' = seen[r]
  /\ seeded' = TRUE
  /\ seen' = [seen EXCEPT ![r] = Absent]
  /\ UNCHANGED <<lock, known>>

(* MUTANT of ReleasedLock: the token is not compared. *)
ReleasedLock_Unchecked(r) == NoOne

(* The check-and-delete script. *)
ReleasedLock(r) == IF lock = r THEN NoOne ELSE lock

(* MUTANT of AfterAbort: the failed sync() is swallowed and INCR runs. *)
AfterAbort_Proceed == "incr"

(* The failure of sync() is rethrown once the lock is released. *)
AfterAbort == "done"

(* The finally block; a failing release leaves the lock to expire. *)
Release(r) ==
  /\ At(r, "release", "incr") \/ At(r, "abort", AfterAbort)
  /\ lock' \in {lock, ReleasedLock(r)}
  /\ UNCHANGED <<keyVars, known, seen, taken>>

(* INCR and EXPIRE in one script, whose answer may be lost. *)
Increment(r) ==
  /\ \/ At(r, "incr", "simulate") /\ taken' = [taken EXCEPT ![r] = Counter(mirror)]
     \/ At(r, "incr", "reread") /\ UNCHANGED taken
  /\ mirror' = Counter(mirror) + 1
  /\ UNCHANGED <<lock, known, seen, seeded>>

(* Where an error of the awaited call leads: Redis or RPC errors, a waiter  *)
(* past its deadline, a refused simulation or submission, a prepared        *)
(* transaction its owner never signs.  No nonce is given back.              *)
OnError ==
  [check |-> "done", lock |-> "done", wait |-> "done", read |-> "abort",
   seed |-> "abort", incr |-> "reread", reread |-> "done", reseed |-> "done",
   simulate |-> "done", submit |-> "done"]

Error(r) ==
  /\ pc[r] \in DOMAIN OnError
  /\ pc' = [pc EXCEPT ![r] = OnError[pc[r]]]
  /\ UNCHANGED <<redisVars, seen, taken>>

-----------------------------------------------------------------------------
(* The transaction *)

(* The simulation runs the call against the current ledger; a negative      *)
(* nonce is not even encoded.                                               *)
Simulate(r) ==
  /\ At(r, "simulate", "submit")
  /\ taken[r] = chain_nonce
  /\ UNCHANGED <<redisVars, seen, taken, tx>>

(* By sendTransaction, or by submitSignedTransaction some time later. *)
Submit(r) ==
  /\ At(r, "submit", "poll")
  /\ tx' = [tx EXCEPT ![r] = "pending"]
  /\ UNCHANGED <<redisVars, seen, taken>>

(* MUTANT of NonceValid: the contract does not compare the nonce. *)
NonceValid_Any(r) == taken[r] >= 0

(* The check at the head of every contract call that changes state. *)
NonceValid(r) == taken[r] = chain_nonce

(* The network applies the transaction, fails it (for its nonce or for      *)
(* anything else, which leaves the nonce alone) or drops it.                *)
Settle(r) ==
  /\ tx[r] = "pending"
  /\ \/ /\ NonceValid(r)
        /\ chain_nonce' = chain_nonce + 1
        /\ tx' = [tx EXCEPT ![r] = "applied"]
     \/ /\ tx' \in {[tx EXCEPT ![r] = "failed"], [tx EXCEPT ![r] = "dropped"]}
        /\ UNCHANGED chain_nonce
  /\ UNCHANGED <<redisVars, requestVars, reconciler, losses, lost>>

Confirm(r) ==
  /\ At(r, "poll", "done")
  /\ tx[r] = "applied"
  /\ UNCHANGED <<redisVars, seen, taken, tx>>

(* FAILED, or the deadline passed with the outcome not known: DECR, whose   *)
(* own failure is swallowed.                                                *)
Rollback(r) ==
  /\ At(r, "poll", "done")
  /\ mirror' \in {mirror, Counter(mirror) - 1}
  /\ UNCHANGED <<lock, known, seen, taken, tx, seeded>>

Next_(r) ==
  \/ Begin(r) \/ CheckExists(r) \/ TryLock(r) \/ WaitSeeded(r) \/ ReadChain(r)
  \/ Seed(r) \/ Release(r) \/ Increment(r) \/ Error(r)

RequestStep(r) ==
  /\ \/ Next_(r) /\ UNCHANGED tx
     \/ Simulate(r) \/ Submit(r) \/ Confirm(r) \/ Rollback(r)
  /\ UNCHANGED <<chain_nonce, reconciler, losses, lost>>

-----------------------------------------------------------------------------
(* The surroundings of a request *)

(* MUTANT of LockExpires: the lock is set without PX. *)
LockExpires_Never == FALSE

(* The lock's PX runs out, however far its holder has come. *)
LockExpires ==
  /\ lock # NoOne
  /\ lock' = NoOne
  /\ UNCHANGED <<chain_nonce, keyVars, known, requestVars, tx, reconciler, losses, lost>>

(* onModuleDestroy() releases a held lock while the request is cut short    *)
(* (Crash) or still gets a command through.                                 *)
ReleaseOnShutdown(r) ==
  /\ pc[r] \in Holding
  /\ lock = r
  /\ lock' = ReleasedLock(r)
  /\ UNCHANGED <<chain_nonce, keyVars, known, requestVars, tx, reconciler, losses, lost>>

(* The process of the request dies; its lock and transaction live on. *)
Crash(r) ==
  /\ pc[r] \notin {"idle", "done"}
  /\ pc' = [pc EXCEPT ![r] = "done"]
  /\ UNCHANGED <<chain_nonce, redisVars, seen, taken, tx, reconciler, losses, lost>>

(* The mirror key expires or is evicted, or Redis restarts empty. *)
LoseData ==
  /\ losses < MaxLosses
  /\ losses' = losses + 1
  /\ mirror' = Absent
  /\ seeded' = FALSE
  /\ \/ UNCHANGED <<lock, known>>
     \/ lock' = NoOne /\ known' = FALSE
  /\ lost' = lost \cup {r \in Requests : pc[r] \notin {"idle", "done"}}
  /\ UNCHANGED <<chain_nonce, requestVars, tx, reconciler>>

(* MUTANT of ReconcileRead: a key that exists is taken to be right. *)
ReconcileRead_MissingOnly ==
  /\ known
  /\ mirror = Absent
  /\ reconciler = Absent
  /\ reconciler' = chain_nonce
  /\ UNCHANGED <<chain_nonce, redisVars, requestVars, tx, losses, lost>>

(* reconcileNonces() on a known pair, and the re-sync of a failed purchase: *)
(* sync() without the lock.                                                 *)
ReconcileRead ==
  /\ known
  /\ reconciler = Absent
  /\ reconciler' = chain_nonce
  /\ UNCHANGED <<chain_nonce, redisVars, requestVars, tx, losses, lost>>

ReconcileWrite ==
  /\ reconciler # Absent
  /\ mirror' = reconciler
  /\ seeded' = TRUE
  /\ reconciler' = Absent
  /\ UNCHANGED <<chain_nonce, lock, known, requestVars, tx, losses, lost>>

(* The failed pair is left to the next cycle. *)
ReconcileError ==
  /\ reconciler # Absent
  /\ reconciler' = Absent
  /\ UNCHANGED <<chain_nonce, redisVars, requestVars, tx, losses, lost>>

MirrorNext ==
  \/ \E r \in Requests :
       RequestStep(r) \/ Settle(r) \/ ReleaseOnShutdown(r) \/ Crash(r)
  \/ LockExpires \/ LoseData
  \/ ReconcileRead \/ ReconcileWrite \/ ReconcileError

MirrorSpec == MirrorInit /\ [][MirrorNext]_mirrorVars

(* Every await of a request settles, by an answer, an error or a deadline;  *)
(* the network settles a transaction within its time bounds; Redis expires  *)
(* keys.  The cron fires every five minutes, and of infinitely many tries   *)
(* some succeed.                                                            *)
Fairness ==
  /\ \A r \in Requests : /\ WF_mirrorVars(pc[r] # "idle" /\ RequestStep(r))
                         /\ WF_mirrorVars(Settle(r))
  /\ WF_mirrorVars(LockExpires)
  /\ WF_mirrorVars(ReconcileRead)
  /\ SF_mirrorVars(ReconcileWrite)

MirrorFairSpec == MirrorSpec /\ Fairness

-----------------------------------------------------------------------------
(* Properties *)

(* A lock ends by its expiry, by a loss of data or by the request that took *)
(* it: the release of a request whose lock expired under a slow sync()      *)
(* leaves the lock of the request that took it next in place.               *)
LockReleasedByOwner ==
  [][lock # NoOne /\ lock' # lock =>
       pc' = pc \/ (pc[lock] \in {"release", "abort"} /\ pc'[lock] # pc[lock])]_mirrorVars

(* INCR never runs on a missing key: unless Redis lost data under the       *)
(* request itself, a request that has come to INCR, as lock holder or as    *)
(* waiter, finds the key there.  And what it finds goes back to a SET of a  *)
(* nonce read from the chain, unless Redis lost data under some request: a  *)
(* request cut off from its key that way may roll back, or increment, the   *)
(* missing key and so create it without a read.  An RPC error while         *)
(* seeding never restarts the mirror at 0.                                  *)
NeverIncrementsMissingKey ==
  \A r \in Requests :
    pc[r] = "incr" => /\ r \notin lost => mirror # Absent
                      /\ lost = {} => seeded

(* Whatever the races on the mirror hand out, no two requests have their    *)
(* transactions applied under one nonce.                                    *)
NoncesAppliedOnce ==
  \A r1, r2 \in Requests :
    r1 # r2 /\ tx[r1] = "applied" /\ tx[r2] = "applied" => taken[r1] # taken[r2]

(* A lock is freed in the end, though its holder may have died.             *)
LocksFreed == lock # NoOne ~> lock = NoOne

(* Once the requests are over the mirror of a known pair comes to equal the *)
(* contract's nonce and stays so, after any rollback of a transaction that  *)
(* was applied after all, abandoned nonce, lost key or overwritten          *)
(* increment.                                                               *)
MirrorHeals == <>[](known => mirror = chain_nonce)
=============================================================================
