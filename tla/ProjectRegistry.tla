--------------------------- MODULE ProjectRegistry ---------------------------
(***************************************************************************)
(* The project-registry contract (contracts/project-registry/src/lib.rs):   *)
(* projects are registered under a metadata hash, approved or rejected by   *)
(* the admin, and later suspended by the admin or revoked by the admin or   *)
(* the oracle consumer.  A call that fails changes nothing.  Of the         *)
(* per-address nonces only the oracle consumer's is kept: that contract     *)
(* presents a number it counts itself, so the two can disagree.             *)
(***************************************************************************)
EXTENDS AdminTransfer, Sequences, FiniteSets

CONSTANTS
  OracleContract,  \* the address of the oracle-consumer contract
  OracleSettings,  \* the addresses the admin may name as oracle consumer
  Hashes,          \* metadata hashes, ZeroHash among them
  ZeroHash,        \* the hash of 32 zero bytes, which is refused
  MaxProjects      \* bound on the number of projects

ASSUME RegistryAssumption ==
  /\ OracleContract \in Addresses
  /\ OracleSettings \subseteq Addresses
  /\ ZeroHash \in Hashes
  /\ MaxProjects \in Nat

VARIABLES
  project_count,       \* DataKey::ProjectCount
  project_status,      \* DataKey::Project(id).status
  project_hash,        \* DataKey::Project(id).metadata_ipfs_hash
  project_owner,       \* DataKey::Project(id).owner
  project_by_hash,     \* DataKey::ProjectByHash(hash), 0 while absent
  owner_projects,      \* DataKey::OwnerProjects(owner)
  oracle_consumer_id,  \* DataKey::OracleConsumerId: at most one address
  oracle_nonce         \* DataKey::Nonce(OracleContract)

projectVars ==
  <<project_count, project_status, project_hash, project_owner, project_by_hash, owner_projects>>
registryVars == <<transferVars, projectVars, oracle_consumer_id, oracle_nonce>>

ProjectIds == 1 .. MaxProjects
ProjectStatuses == {"None", "Pending", "Approved", "Rejected", "Inactive"}

RegistryInit ==
  /\ now = 0
  /\ TransferInit
  /\ project_count = 0
  /\ project_status = [id \in ProjectIds |-> "None"]
  /\ project_hash = [id \in ProjectIds |-> ZeroHash]
  /\ project_owner = [id \in ProjectIds |-> Admin]
  /\ project_by_hash = [hash \in Hashes |-> 0]
  /\ owner_projects = [a \in Addresses |-> <<>>]
  /\ oracle_consumer_id = {}
  /\ oracle_nonce = 0

-----------------------------------------------------------------------------
(* Helpers *)

require_admin_or_oracle(caller) == require_admin(caller) \/ caller \in oracle_consumer_id

(* MUTANT of ensure_metadata_hash_available: forgets approved projects. *)
ensure_metadata_hash_available_PendingOnly(hash) ==
  project_by_hash[hash] # 0 => project_status[project_by_hash[hash]] # "Pending"

(* The project last registered under the hash is no longer active. *)
ensure_metadata_hash_available(hash) ==
  project_by_hash[hash] # 0 =>
    project_status[project_by_hash[hash]] \notin {"Pending", "Approved"}

PushProject(owner, id) == [owner_projects EXCEPT ![owner] = Append(@, id)]

(* The nonce check of a call that may come from the oracle consumer. *)
ConsumeNonce(caller, nonce) ==
  IF caller = OracleContract
  THEN nonce = oracle_nonce /\ oracle_nonce' = oracle_nonce + 1
  ELSE UNCHANGED oracle_nonce

is_project_active(id) == id \in ProjectIds /\ project_status[id] = "Approved"

(* MUTANT of list_projects: a full last page is cut by one. *)
list_projects_Exclusive(page, page_size) ==
  LET start == page * page_size
      end == IF start + page_size < project_count THEN start + page_size ELSE project_count - 1
  IN IF start >= project_count THEN <<>> ELSE [i \in 1 .. end - start |-> start + i]

(* The ids on a page; ids run from 1, pages from 0, and at most 50 fit.     *)
list_projects(page, page_size) ==
  LET size == IF page_size < 50 THEN page_size ELSE 50
      start == page * size
      end == IF start + size < project_count THEN start + size ELSE project_count
  IN IF start >= project_count THEN <<>> ELSE [i \in 1 .. end - start |-> start + i]

-----------------------------------------------------------------------------
(* Contract calls *)

register_project(caller, hash) ==
  LET id == project_count + 1 IN
  /\ id \in ProjectIds
  /\ hash # ZeroHash
  /\ ensure_metadata_hash_available(hash)
  /\ project_count' = id
  /\ project_status' = [project_status EXCEPT ![id] = "Pending"]
  /\ project_hash' = [project_hash EXCEPT ![id] = hash]
  /\ project_owner' = [project_owner EXCEPT ![id] = caller]
  /\ project_by_hash' = [project_by_hash EXCEPT ![hash] = id]
  /\ owner_projects' = PushProject(caller, id)
  /\ UNCHANGED <<transferVars, oracle_consumer_id, oracle_nonce>>

(* The body the status-changing calls share: one status may follow another. *)
SetStatus(id, from, to) ==
  /\ project_status[id] = from
  /\ project_status' = [project_status EXCEPT ![id] = to]
  /\ UNCHANGED <<transferVars, project_count, project_hash, project_owner,
                 project_by_hash, owner_projects, oracle_consumer_id>>

approve_project(caller, id) ==
  require_admin(caller) /\ SetStatus(id, "Pending", "Approved") /\ UNCHANGED oracle_nonce

reject_project(caller, id) ==
  require_admin(caller) /\ SetStatus(id, "Pending", "Rejected") /\ UNCHANGED oracle_nonce

suspend_project(caller, id) ==
  require_admin(caller) /\ SetStatus(id, "Approved", "Inactive") /\ UNCHANGED oracle_nonce

revoke_project(caller, id, nonce) ==
  /\ ConsumeNonce(caller, nonce)
  /\ require_admin_or_oracle(caller)
  /\ SetStatus(id, "Approved", "Rejected")

set_oracle_consumer(caller, oracle) ==
  /\ require_admin(caller)
  /\ oracle_consumer_id' = {oracle}
  /\ UNCHANGED <<transferVars, projectVars, oracle_nonce>>

(* A call by an account; the oracle consumer's own calls are actions of     *)
(* OracleConsumer.                                                          *)
RegistryCall ==
  \E caller \in Addresses \ {OracleContract} :
    \/ \E hash \in Hashes : register_project(caller, hash)
    \/ \E id \in ProjectIds :
         \/ approve_project(caller, id)
         \/ reject_project(caller, id)
         \/ suspend_project(caller, id)
         \/ revoke_project(caller, id, 0)
    \/ \E oracle \in OracleSettings : set_oracle_consumer(caller, oracle)

RotateRegistryAdmin ==
  TransferCall /\ UNCHANGED <<projectVars, oracle_consumer_id, oracle_nonce>>

Tick == now < MaxTime /\ now' = now + 1

RegistryNext ==
  \/ RegistryCall /\ UNCHANGED now
  \/ RotateRegistryAdmin /\ UNCHANGED now
  \/ Tick /\ UNCHANGED registryVars

RegistrySpec == RegistryInit /\ [][RegistryNext]_<<now, registryVars>>

-----------------------------------------------------------------------------
(* Queries *)

(* The id is the one the project is stored under. *)
get_project(id) ==
  [id |-> id, status |-> project_status[id], metadata_ipfs_hash |-> project_hash[id],
   owner |-> project_owner[id]]

NoProject == [id |-> 0, status |-> "None"]

get_project_by_hash(hash) ==
  IF project_by_hash[hash] = 0 THEN NoProject ELSE get_project(project_by_hash[hash])

get_project_status_by_hash(hash) == get_project_by_hash(hash).status

get_owner_projects(owner) == owner_projects[owner]

-----------------------------------------------------------------------------
(* Properties *)

Lists(list, id) == \E i \in 1 .. Len(list) : list[i] = id

(* A metadata hash never has two active (pending or approved) projects, and *)
(* the queries by hash answer for the active one, so a bond that names its  *)
(* project by hash means exactly one project, and the coupon engine finds   *)
(* it approved exactly when it is, however often the hash was rejected,     *)
(* suspended or revoked and registered again.                               *)
ActiveHashUnique ==
  /\ \A id \in 1 .. project_count :
       get_project(id).status \in {"Pending", "Approved"} =>
         get_project_by_hash(get_project(id).metadata_ipfs_hash) = get_project(id)
  /\ \A hash \in Hashes :
       get_project_status_by_hash(hash) = "Approved" <=>
         \E id \in 1 .. project_count :
           get_project(id).metadata_ipfs_hash = hash /\ is_project_active(id)

(* Walking list_projects page by page, every project is on exactly one page *)
(* and ids do not decrease from page to page, for every positive page size  *)
(* asked for, of which at most 50 are granted; and the owners' lists divide *)
(* the projects among those who registered them.                            *)
PagesCoverProjects ==
  \A id \in 1 .. project_count :
    /\ \A size \in 1 .. MaxProjects + 1, p \in 0 .. project_count :
         LET granted == IF size < 50 THEN size ELSE 50 IN
         Lists(list_projects(p, size), id) <=> p = (id - 1) \div granted
    /\ \A a \in Addresses : Lists(get_owner_projects(a), id) <=> get_project(id).owner = a
=============================================================================
