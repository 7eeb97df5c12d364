---------------------------- MODULE AdminTransfer ----------------------------
(***************************************************************************)
(* Two-step rotation of a contract's admin key.  The project registry and   *)
(* the oracle consumer carry the same code for it                           *)
(* (contracts/project-registry/src/lib.rs 511-623 and                       *)
(* contracts/oracle-consumer/src/lib.rs 1410-1510): the admin proposes a    *)
(* candidate, who may accept once a timelock has passed; until then the     *)
(* admin may cancel, or propose again, which replaces the proposal.         *)
(***************************************************************************)
EXTENDS Integers

CONSTANTS
  Addresses,        \* accounts and contracts that may call
  Candidates,       \* the addresses an admin may propose
  Admin,            \* the constructor's admin
  ADMIN_TRANSFER_TIMELOCK_SECONDS,
  MaxTime           \* bound on the ledger timestamp

ASSUME TransferAssumption ==
  /\ Admin \in Addresses
  /\ Candidates \subseteq Addresses
  /\ ADMIN_TRANSFER_TIMELOCK_SECONDS \in Nat
  /\ MaxTime \in Nat

VARIABLES
  now,            \* env.ledger().timestamp()
  admin,          \* DataKey::Admin
  pending_admin   \* DataKey::PendingAdmin: a set with at most one proposal

(* A PendingAdminChange; "by" and "at" record, for the properties only,     *)
(* which admin made the proposal and when.                                  *)
PendingAdminChange ==
  [candidate : Candidates, by : Addresses, at : 0 .. MaxTime,
   executable_at : 0 .. MaxTime + ADMIN_TRANSFER_TIMELOCK_SECONDS]

transferVars == <<admin, pending_admin>>

TransferInit ==
  /\ admin = Admin
  /\ pending_admin = {}

require_admin(caller) == caller = admin

propose_admin_transfer(caller, candidate) ==
  /\ require_admin(caller)
  /\ pending_admin' = {[candidate |-> candidate, by |-> caller, at |-> now,
                        executable_at |-> now + ADMIN_TRANSFER_TIMELOCK_SECONDS]}
  /\ UNCHANGED admin

cancel_admin_transfer(caller) ==
  /\ require_admin(caller)
  /\ pending_admin # {}
  /\ pending_admin' = {}
  /\ UNCHANGED admin

(* MUTANT of Ripe: the delay runs from the start of the ledger. *)
Ripe_NoDelay(pending) == now >= ADMIN_TRANSFER_TIMELOCK_SECONDS

Ripe(pending) == now >= pending.executable_at

accept_admin_transfer(caller) ==
  \E pending \in pending_admin :
    /\ caller = pending.candidate
    /\ Ripe(pending)
    /\ admin' = caller
    /\ pending_admin' = {}

TransferCall ==
  \E caller \in Addresses :
    \/ \E candidate \in Candidates : propose_admin_transfer(caller, candidate)
    \/ cancel_admin_transfer(caller)
    \/ accept_admin_transfer(caller)

-----------------------------------------------------------------------------
(* Properties *)

(* The admin key changes only to a candidate the admin in office named, a   *)
(* full timelock after the latest proposal: proposing again restarts the    *)
(* wait.                                                                    *)
AdminChangesDelayed ==
  [][admin' # admin =>
       \E p \in PendingAdminChange :
         /\ pending_admin = {p}
         /\ p.candidate = admin' /\ p.by = admin
         /\ p.at + ADMIN_TRANSFER_TIMELOCK_SECONDS <= now]_transferVars
=============================================================================
