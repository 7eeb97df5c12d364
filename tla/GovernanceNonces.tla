--------------------------- MODULE GovernanceNonces ---------------------------
(***************************************************************************)
(* The nonces of the governance contract (contracts/governance/src/lib.rs)  *)
(* and the lifetimes of the entries that hold them.  A nonce and its marker *)
(* are persistent entries; a nonce used before the storage change is still  *)
(* in instance storage and moves over when its owner next calls.  An entry  *)
(* whose lifetime has run out is archived: the host fails a call that       *)
(* touches it, until somebody restores it.                                  *)
(***************************************************************************)
EXTENDS Integers

CONSTANTS
  Accounts,        \* signers, executors and the contract itself
  Contract,        \* the governance contract's own address
  LegacyNonces,    \* what instance storage may hold for an account, -1 for nothing
  PERSISTENT_TTL_THRESHOLD,
  PERSISTENT_TTL_EXTEND_TO,
  MIN_TTL,         \* the lifetime the network gives a new or restored entry
  MaxLedger,       \* bound on the ledger sequence number
  MaxNonce         \* bound on the nonces

ASSUME GovernanceNoncesAssumption ==
  /\ Contract \in Accounts
  /\ LegacyNonces \subseteq {-1} \cup Nat
  /\ PERSISTENT_TTL_THRESHOLD \in Nat
  /\ PERSISTENT_TTL_EXTEND_TO \in Nat
  /\ PERSISTENT_TTL_THRESHOLD < PERSISTENT_TTL_EXTEND_TO
  /\ MIN_TTL \in Nat
  /\ MaxLedger \in Nat
  /\ MaxNonce \in Nat

VARIABLES
  ledger,          \* the ledger sequence number
  nonce,           \* persistent DataKey::Nonce(a), -1 while absent
  nonce_until,     \* the last ledger in which that entry is live
  marker,          \* whether persistent DataKey::NonceInitialized(a) exists
  marker_until,
  instance_nonce,  \* instance DataKey::Nonce(a), -1 while absent: never written now
  instance_until,  \* the last ledger in which the instance is live
  consumed,        \* history: the <<account, nonce>> pairs calls were accepted with
  last_call        \* history: the ledger of the account's last accepted call, or -1

entries == <<nonce, nonce_until, marker, marker_until, instance_nonce, instance_until>>
noncesVars == <<ledger, entries, consumed, last_call>>

(* The contract as upgraded: some accounts have used nonces 0 .. n - 1. *)
NoncesInit ==
  /\ ledger = 0
  /\ nonce = [a \in Accounts |-> -1]
  /\ nonce_until = [a \in Accounts |-> -1]
  /\ marker = [a \in Accounts |-> FALSE]
  /\ marker_until = [a \in Accounts |-> -1]
  /\ instance_nonce \in [Accounts -> LegacyNonces]
  /\ instance_until = MIN_TTL
  /\ consumed = {u \in Accounts \X (0 .. MaxNonce) : u[2] < instance_nonce[u[1]]}
  /\ last_call = [a \in Accounts |-> -1]

-----------------------------------------------------------------------------
(* MUTANT of Extended: extends only an entry that has already run out. *)
Extended_Late(until) ==
  IF until < ledger THEN ledger + PERSISTENT_TTL_EXTEND_TO ELSE until

(* extend_ttl(THRESHOLD, EXTEND_TO) on an entry live until the given ledger. *)
Extended(until) ==
  IF until - ledger <= PERSISTENT_TTL_THRESHOLD
  THEN ledger + PERSISTENT_TTL_EXTEND_TO ELSE until

(* MUTANT of get_nonce: no fallback to instance storage. *)
get_nonce_PersistentOnly(a) == IF nonce[a] # -1 THEN nonce[a] ELSE 0

(* Persistent first, then instance; an account with neither starts at 0.    *)
(* The extension of the entry read here is repeated by write_nonce.         *)
get_nonce(a) ==
  IF nonce[a] # -1 THEN nonce[a]
  ELSE IF instance_nonce[a] # -1 THEN instance_nonce[a] ELSE 0

(* The marker without a nonce in either store is refused as NonceArchived.  *)
NonceArchived(a) == nonce[a] = -1 /\ instance_nonce[a] = -1 /\ marker[a]

(* No entry the call touches is archived. *)
EntriesLive(a) ==
  /\ instance_until >= ledger
  /\ nonce[a] # -1 => nonce_until[a] >= ledger
  /\ marker[a] => marker_until[a] >= ledger

(* Nonce and marker are written together and extended together. *)
write_nonce(S) ==
  /\ nonce' = [a \in Accounts |-> IF a \in S THEN get_nonce(a) + 1 ELSE nonce[a]]
  /\ marker' = [a \in Accounts |-> a \in S \/ marker[a]]
  /\ nonce_until' = [a \in Accounts |->
       IF a \in S
       THEN Extended(IF nonce[a] = -1 THEN ledger + MIN_TTL ELSE nonce_until[a])
       ELSE nonce_until[a]]
  /\ marker_until' = [a \in Accounts |->
       IF a \in S
       THEN Extended(IF marker[a] THEN marker_until[a] ELSE ledger + MIN_TTL)
       ELSE marker_until[a]]

(* check_nonce for each account of S, given the nonces the call carries.    *)
check_nonce(S, given) ==
  /\ \A a \in S : EntriesLive(a) /\ ~NonceArchived(a) /\ given[a] = get_nonce(a)
  /\ write_nonce(S)
  /\ instance_until' = Extended(instance_until)
  /\ UNCHANGED <<ledger, instance_nonce>>
  /\ consumed' = consumed \cup {<<a, given[a]>> : a \in S}
  /\ last_call' = [a \in Accounts |-> IF a \in S THEN ledger ELSE last_call[a]]

(* propose, vote_approve, vote_veto, cancel and execute check the caller's  *)
(* nonce; the execution of a self-targeted proposal checks the contract's   *)
(* own one too (dispatch_self_call).                                        *)
Call(caller, S) ==
  /\ caller # Contract
  /\ S \in {{caller}, {caller, Contract}}
  /\ \E given \in [S -> 0 .. MaxNonce - 1] : check_nonce(S, given)

Restored(until) == IF until < ledger THEN ledger + MIN_TTL ELSE until

(* Somebody restores archived entries: one of the account's, or the         *)
(* instance.                                                                *)
Restore(a) ==
  /\ \/ /\ nonce[a] # -1
        /\ nonce_until' = [nonce_until EXCEPT ![a] = Restored(@)]
        /\ UNCHANGED <<marker_until, instance_until>>
     \/ /\ marker[a]
        /\ marker_until' = [marker_until EXCEPT ![a] = Restored(@)]
        /\ UNCHANGED <<nonce_until, instance_until>>
     \/ /\ instance_until' = Restored(instance_until)
        /\ UNCHANGED <<nonce_until, marker_until>>
  /\ UNCHANGED <<ledger, nonce, marker, instance_nonce, consumed, last_call>>

CloseLedger ==
  /\ ledger < MaxLedger
  /\ ledger' = ledger + 1
  /\ UNCHANGED <<entries, consumed, last_call>>

NoncesNext ==
  \/ \E caller \in Accounts, S \in SUBSET Accounts : Call(caller, S)
  \/ \E a \in Accounts : Restore(a)
  \/ CloseLedger

NoncesSpec == NoncesInit /\ [][NoncesNext]_noncesVars

-----------------------------------------------------------------------------
(* Properties *)

(* No nonce is accepted twice from an account, and none is skipped: the     *)
(* nonces accepted so far, before the storage change included, are those    *)
(* below the one get_nonce answers, through archival, restoration and the   *)
(* move from instance storage.  The answer NonceArchived locks nobody out.  *)
NoncesConsumedInOrder ==
  \A a \in Accounts :
    /\ \A n \in 0 .. MaxNonce : <<a, n>> \in consumed <=> n < get_nonce(a)
    /\ ~NonceArchived(a)

(* An accepted call leaves its caller's nonce and marker, and the instance  *)
(* with everybody's legacy nonces in it, live beyond the threshold from     *)
(* then on, even when it found them with more left and extended nothing,    *)
(* and whatever was archived and restored in between.                       *)
LiveAfterCall ==
  \A a \in Accounts :
    last_call[a] # -1 =>
      /\ nonce[a] # -1 /\ nonce_until[a] > last_call[a] + PERSISTENT_TTL_THRESHOLD
      /\ marker[a] /\ marker_until[a] > last_call[a] + PERSISTENT_TTL_THRESHOLD
      /\ instance_until > last_call[a] + PERSISTENT_TTL_THRESHOLD
=============================================================================
