-------------------------- MODULE GovernanceProofs --------------------------
(* The governance contract, for any signers, threshold, timelock, allowlist *)
(* and proposals, and for whatever a deployment still holds in instance     *)
(* storage; the order and the lifetimes of its nonces, for any accounts,    *)
(* any legacy nonces and any lifetimes with THRESHOLD < EXTEND_TO; and the  *)
(* project registry with its admin key, for any projects, hashes, accounts  *)
(* and candidates.                                                          *)
EXTENDS ProjectRegistry, GovernanceNonces, Governance, FiniteSetTheorems, TLAPS

(* Arithmetic that the proofs below need of values they only know to be     *)
(* natural numbers.                                                         *)
LEMMA NaturalFacts ==
  /\ \A n \in Nat : n \in Int /\ n # -1 /\ n + 1 \in Nat /\ n + 1 # -1 /\ n <= n
  /\ \A m, n \in Nat : m + n \in Int /\ (n < m + 1 <=> n < m \/ n = m)
  /\ \A m, n \in Nat : ~(m >= n) => m < n
  /\ \A m \in Nat : \A n \in 0 .. m : n \in Nat
  /\ \A m \in Nat : \A n \in 1 .. m : n \in Nat /\ 0 < n
  OBVIOUS

-----------------------------------------------------------------------------
(* The registry: ProjectRegistry. *)

RegistryTypeOK ==
  /\ now \in 0 .. MaxTime
  /\ admin \in Addresses
  /\ project_count \in Nat /\ project_count <= MaxProjects
  /\ project_status \in [ProjectIds -> ProjectStatuses]
  /\ project_hash \in [ProjectIds -> Hashes]
  /\ project_by_hash \in [Hashes -> Nat]

(* An index entry names a registered project with that hash. *)
IndexTrue ==
  \A hash \in Hashes :
    project_by_hash[hash] # 0 =>
      /\ project_by_hash[hash] <= project_count
      /\ project_hash[project_by_hash[hash]] = hash

(* An active project is the one its hash's entry names. *)
ActiveIndexed ==
  \A id \in 1 .. project_count :
    project_status[id] \in {"Pending", "Approved"} => project_by_hash[project_hash[id]] = id

(* The pending proposal is the only one, made by the admin in office. *)
ProposedInOffice ==
  \A p \in pending_admin :
    /\ pending_admin = {p}
    /\ p \in PendingAdminChange
    /\ p.by = admin
    /\ p.executable_at = p.at + ADMIN_TRANSFER_TIMELOCK_SECONDS

(* The inductive invariant.  ActiveHashUnique says that the queries answer  *)
(* for the active project; that a new registration disturbs no older one    *)
(* needs IndexTrue as well.                                                 *)
RegistryInv == RegistryTypeOK /\ IndexTrue /\ ActiveIndexed /\ ProposedInOffice

-----------------------------------------------------------------------------
(* At deployment there is no project and no proposal.                       *)
LEMMA RegistryInvInit == RegistryInit => RegistryInv
  BY TransferAssumption, RegistryAssumption
     DEF RegistryInit, TransferInit, RegistryInv, RegistryTypeOK, IndexTrue, ActiveIndexed,
         ProposedInOffice, ProjectIds, ProjectStatuses

(* register_project takes over the hash's entry, which names no active      *)
(* project by then.                                                         *)
LEMMA RegisterKeeps ==
  ASSUME RegistryInv, NEW caller \in Addresses, NEW hash \in Hashes,
         register_project(caller, hash), UNCHANGED now
  PROVE  RegistryInv'
<1> USE RegistryAssumption
<1> DEFINE new == project_count + 1
<1>1. /\ new \in ProjectIds
      /\ ensure_metadata_hash_available(hash)
      /\ project_count' = new
      /\ project_status' = [project_status EXCEPT ![new] = "Pending"]
      /\ project_hash' = [project_hash EXCEPT ![new] = hash]
      /\ project_by_hash' = [project_by_hash EXCEPT ![hash] = new]
      /\ UNCHANGED <<now, admin, pending_admin>>
  BY DEF register_project, transferVars
<1>2. RegistryTypeOK'
  BY <1>1 DEF RegistryInv, RegistryTypeOK, ProjectIds, ProjectStatuses
<1>3. IndexTrue'
  BY <1>1 DEF RegistryInv, RegistryTypeOK, IndexTrue, ProjectIds
<1>4. \A id \in 1 .. project_count :
        /\ id \in ProjectIds /\ id # new
        /\ project_hash'[id] = project_hash[id] /\ project_status'[id] = project_status[id]
  BY <1>1 DEF RegistryInv, RegistryTypeOK, ProjectIds
<1>5. \A id \in 1 .. project_count :
        project_status[id] \in {"Pending", "Approved"} => project_hash[id] # hash
  <2> SUFFICES ASSUME NEW id \in 1 .. project_count,
                      project_status[id] \in {"Pending", "Approved"}, project_hash[id] = hash
               PROVE  FALSE
    OBVIOUS
  <2>1. project_by_hash[hash] = id
    BY DEF RegistryInv, ActiveIndexed
  <2> QED
    BY <1>1, <2>1 DEF ensure_metadata_hash_available
<1>6. ActiveIndexed'
  <2> SUFFICES ASSUME NEW id \in 1 .. new, project_status'[id] \in {"Pending", "Approved"}
               PROVE  project_by_hash'[project_hash'[id]] = id
    BY <1>1 DEF ActiveIndexed
  <2>1. CASE id = new
    BY <1>1, <2>1 DEF RegistryInv, RegistryTypeOK
  <2>2. CASE id # new
    <3>1. id \in 1 .. project_count
      BY <2>2 DEF RegistryInv, RegistryTypeOK
    <3>2. project_hash[id] \in Hashes \ {hash}
      BY <1>4, <1>5, <3>1 DEF RegistryInv, RegistryTypeOK
    <3>3. project_by_hash[project_hash[id]] = id
      BY <1>4, <3>1 DEF RegistryInv, ActiveIndexed
    <3> QED
      BY <1>1, <1>4, <3>1, <3>2, <3>3 DEF RegistryInv, RegistryTypeOK
  <2> QED
    BY <2>1, <2>2
<1>7. ProposedInOffice'
  BY <1>1 DEF RegistryInv, ProposedInOffice
<1> QED
  BY <1>2, <1>3, <1>6, <1>7 DEF RegistryInv

(* The calls that change a status never make an inactive project active.    *)
LEMMA SetStatusKeeps ==
  ASSUME RegistryInv, NEW id \in ProjectIds, NEW from \in ProjectStatuses, NEW to \in ProjectStatuses,
         from \in {"Pending", "Approved"}, SetStatus(id, from, to), UNCHANGED now
  PROVE  RegistryInv'
<1>1. /\ project_status[id] = from
      /\ project_status' = [project_status EXCEPT ![id] = to]
      /\ UNCHANGED <<now, admin, pending_admin, project_count, project_hash, project_by_hash>>
  BY DEF SetStatus, transferVars
<1>2. RegistryTypeOK' /\ IndexTrue' /\ ProposedInOffice'
  BY <1>1 DEF RegistryInv, RegistryTypeOK, IndexTrue, ProposedInOffice
<1>3. ActiveIndexed'
  BY <1>1, RegistryAssumption DEF RegistryInv, RegistryTypeOK, ActiveIndexed, ProjectIds
<1> QED
  BY <1>2, <1>3 DEF RegistryInv

(* A rotation of the admin key leaves the projects alone.                   *)
LEMMA TransferKeeps ==
  ASSUME RegistryInv, TransferCall, UNCHANGED <<now, projectVars>>
  PROVE  RegistryInv'
<1> USE TransferAssumption
<1>1. IndexTrue' /\ ActiveIndexed'
  BY DEF RegistryInv, IndexTrue, ActiveIndexed, projectVars
<1>2. PICK caller \in Addresses :
        \/ \E candidate \in Candidates : propose_admin_transfer(caller, candidate)
        \/ cancel_admin_transfer(caller)
        \/ accept_admin_transfer(caller)
  BY DEF TransferCall
<1>3. admin' \in Addresses
  BY <1>2 DEF propose_admin_transfer, cancel_admin_transfer, accept_admin_transfer, RegistryInv,
              RegistryTypeOK
<1>4. RegistryTypeOK'
  BY <1>3 DEF RegistryInv, RegistryTypeOK, projectVars
<1>5. ProposedInOffice'
  <2>1. CASE pending_admin' = {}
    BY <2>1 DEF ProposedInOffice
  <2>2. ASSUME NEW candidate \in Candidates, propose_admin_transfer(caller, candidate)
        PROVE  ProposedInOffice'
    <3> DEFINE p == [candidate |-> candidate, by |-> caller, at |-> now,
                     executable_at |-> now + ADMIN_TRANSFER_TIMELOCK_SECONDS]
    <3>1. pending_admin' = {p} /\ admin' = caller
      BY <2>2 DEF propose_admin_transfer, require_admin
    <3>2. now \in 0 .. MaxTime
      BY DEF RegistryInv, RegistryTypeOK
    <3>3. p \in PendingAdminChange
      BY <3>2 DEF PendingAdminChange
    <3>4. p.by = caller /\ p.executable_at = p.at + ADMIN_TRANSFER_TIMELOCK_SECONDS
      OBVIOUS
    <3> HIDE DEF p
    <3> QED
      BY <3>1, <3>3, <3>4 DEF ProposedInOffice
  <2> QED
    BY <1>2, <2>1, <2>2 DEF cancel_admin_transfer, accept_admin_transfer
<1> QED
  BY <1>1, <1>4, <1>5 DEF RegistryInv

(* Every step preserves the invariant.                                      *)
LEMMA RegistryInvStep == RegistryInv /\ [RegistryNext]_<<now, registryVars>> => RegistryInv'
<1> SUFFICES ASSUME RegistryInv, [RegistryNext]_<<now, registryVars>>
             PROVE  RegistryInv'
  OBVIOUS
<1>1. ASSUME RegistryCall, UNCHANGED now
      PROVE  RegistryInv'
  <2>1. PICK caller \in Addresses \ {OracleContract} :
          \/ \E hash \in Hashes : register_project(caller, hash)
          \/ \E id \in ProjectIds :
               \/ approve_project(caller, id)
               \/ reject_project(caller, id)
               \/ suspend_project(caller, id)
               \/ revoke_project(caller, id, 0)
          \/ \E oracle \in OracleSettings : set_oracle_consumer(caller, oracle)
    BY <1>1 DEF RegistryCall
  <2>2. CASE \E hash \in Hashes : register_project(caller, hash)
    BY <1>1, <2>2, RegisterKeeps
  <2>3. ASSUME NEW id \in ProjectIds,
               \/ approve_project(caller, id) \/ reject_project(caller, id)
               \/ suspend_project(caller, id) \/ revoke_project(caller, id, 0)
        PROVE  RegistryInv'
    <3>1. \E from \in {"Pending", "Approved"}, to \in ProjectStatuses : SetStatus(id, from, to)
      BY <2>3 DEF approve_project, reject_project, suspend_project, revoke_project, ProjectStatuses
    <3> QED
      BY <1>1, <3>1, SetStatusKeeps DEF ProjectStatuses
  <2>4. CASE \E oracle \in OracleSettings : set_oracle_consumer(caller, oracle)
    BY <1>1, <2>4 DEF set_oracle_consumer, transferVars, projectVars, RegistryInv, RegistryTypeOK,
                      IndexTrue, ActiveIndexed, ProposedInOffice
  <2> QED
    BY <2>1, <2>2, <2>3, <2>4
<1>2. CASE RotateRegistryAdmin /\ UNCHANGED now
  BY <1>2, TransferKeeps DEF RotateRegistryAdmin
<1>3. CASE Tick /\ UNCHANGED registryVars
  <2>1. now' \in 0 .. MaxTime
    BY <1>3, TransferAssumption DEF Tick, RegistryInv, RegistryTypeOK
  <2> QED
    BY <1>3, <2>1 DEF registryVars, transferVars, projectVars, RegistryInv, RegistryTypeOK,
                      IndexTrue, ActiveIndexed, ProposedInOffice
<1>4. CASE UNCHANGED <<now, registryVars>>
  BY <1>4 DEF registryVars, transferVars, projectVars, RegistryInv, RegistryTypeOK,
              IndexTrue, ActiveIndexed, ProposedInOffice
<1> QED
  BY <1>1, <1>2, <1>3, <1>4 DEF RegistryNext

(* The invariant holds in every behaviour of the registry.                  *)
THEOREM RegistryInvHolds == RegistrySpec => []RegistryInv
<1> QED
  BY RegistryInvInit, RegistryInvStep, PTL DEF RegistrySpec

-----------------------------------------------------------------------------
(* A metadata hash has at most one active project, the one the queries by   *)
(* hash answer for, however often register_project reuses the hash.         *)
THEOREM HashMeansOneProject == RegistrySpec => []ActiveHashUnique
<1>1. ASSUME RegistryInv
      PROVE  ActiveHashUnique
  <2> USE <1>1 DEF RegistryInv
  <2>1. \A id \in 1 .. project_count : id \in ProjectIds /\ project_hash[id] \in Hashes
    BY RegistryAssumption DEF RegistryTypeOK, ProjectIds
  <2>2. ASSUME NEW id \in 1 .. project_count, get_project(id).status \in {"Pending", "Approved"}
        PROVE  get_project_by_hash(get_project(id).metadata_ipfs_hash) = get_project(id)
    <3>1. /\ get_project(id).status = project_status[id]
          /\ get_project(id).metadata_ipfs_hash = project_hash[id]
      BY DEF get_project
    <3>2. project_by_hash[project_hash[id]] = id /\ id # 0
      BY <2>2, <3>1 DEF ActiveIndexed
    <3> QED
      BY <3>1, <3>2 DEF get_project_by_hash
  <2>3. ASSUME NEW hash \in Hashes
        PROVE  get_project_status_by_hash(hash) = "Approved" <=>
                 \E id \in 1 .. project_count :
                   get_project(id).metadata_ipfs_hash = hash /\ is_project_active(id)
    <3>1. ASSUME get_project_status_by_hash(hash) = "Approved"
          PROVE  \E id \in 1 .. project_count :
                   get_project(id).metadata_ipfs_hash = hash /\ is_project_active(id)
      <4> DEFINE id == project_by_hash[hash]
      <4>1. id # 0 /\ get_project(id).status = "Approved"
        BY <3>1 DEF get_project_status_by_hash, get_project_by_hash, NoProject
      <4>2. id \in 1 .. project_count /\ project_hash[id] = hash
        BY <4>1 DEF IndexTrue, RegistryTypeOK
      <4> HIDE DEF id
      <4> QED
        BY <2>1, <4>1, <4>2 DEF get_project, is_project_active
    <3>2. ASSUME NEW id \in 1 .. project_count,
                 get_project(id).metadata_ipfs_hash = hash, is_project_active(id)
          PROVE  get_project_status_by_hash(hash) = "Approved"
      <4>1. project_hash[id] = hash /\ project_status[id] = "Approved"
        BY <3>2 DEF get_project, is_project_active
      <4>2. project_by_hash[hash] = id /\ id # 0
        BY <4>1 DEF ActiveIndexed
      <4> QED
        BY <4>1, <4>2 DEF get_project_status_by_hash, get_project_by_hash, get_project
    <3> QED
      BY <3>1, <3>2
  <2> QED
    BY <2>2, <2>3 DEF ActiveHashUnique
<1> QED
  BY <1>1, RegistryInvHolds, PTL

(* The admin key passes only to the candidate of the latest proposal of the *)
(* admin in office, once accept_admin_transfer's timelock has run out.      *)
THEOREM KeyPassesInTime == RegistrySpec => AdminChangesDelayed
<1> DEFINE Delayed == admin' # admin =>
             \E p \in PendingAdminChange :
               /\ pending_admin = {p}
               /\ p.candidate = admin' /\ p.by = admin
               /\ p.at + ADMIN_TRANSFER_TIMELOCK_SECONDS <= now
<1>1. ASSUME RegistryInv, [RegistryNext]_<<now, registryVars>>
      PROVE  [Delayed]_transferVars
  <2> SUFFICES ASSUME admin' # admin
               PROVE  Delayed
    BY Zenon
  <2>1. TransferCall /\ UNCHANGED now
    BY <1>1 DEF RegistryNext, RegistryCall, RotateRegistryAdmin, register_project, SetStatus,
                approve_project, reject_project, suspend_project, revoke_project,
                set_oracle_consumer, registryVars, transferVars
  <2>2. PICK caller \in Addresses : accept_admin_transfer(caller)
    BY <2>1 DEF TransferCall, propose_admin_transfer, cancel_admin_transfer
  <2>3. PICK p \in pending_admin : p.candidate = admin' /\ now >= p.executable_at
    BY <2>2 DEF accept_admin_transfer, Ripe
  <2>4. /\ pending_admin = {p} /\ p \in PendingAdminChange /\ p.by = admin
        /\ p.executable_at = p.at + ADMIN_TRANSFER_TIMELOCK_SECONDS
    BY <1>1 DEF RegistryInv, ProposedInOffice
  <2>5. p.at + ADMIN_TRANSFER_TIMELOCK_SECONDS <= now
    <3>1. now \in Int /\ p.executable_at \in Int
      BY <1>1, <2>4, TransferAssumption DEF RegistryInv, RegistryTypeOK, PendingAdminChange
    <3> QED
      BY <2>3, <2>4, <3>1
  <2> QED
    BY <2>3, <2>4, <2>5
<1> QED
  BY <1>1, RegistryInvHolds, PTL DEF RegistrySpec, AdminChangesDelayed

-----------------------------------------------------------------------------
(* Pages and owners' lists *)

(* The page a position falls on is the one whose range holds it.            *)
LEMMA PageOf ==
  ASSUME NEW n \in Nat, NEW size \in Nat \ {0}, NEW page \in Nat
  PROVE  page = n \div size <=> page * size <= n /\ n < page * size + size
<1> DEFINE q == n \div size
<1>1. /\ q \in Nat /\ q * size \in Nat /\ page * size \in Nat
      /\ q * size <= n /\ n < q * size + size
  OBVIOUS
<1> HIDE DEF q
<1>2. ASSUME page < q
      PROVE  page * size + size <= q * size
  <2>1. (page + 1) * size <= q * size
    BY <1>1, <1>2
  <2>2. (page + 1) * size = page * size + size
    OBVIOUS
  <2> QED
    BY <2>1, <2>2
<1>3. ASSUME q < page
      PROVE  q * size + size <= page * size
  <2>1. (q + 1) * size <= page * size
    BY <1>1, <1>3
  <2>2. (q + 1) * size = q * size + size
    BY <1>1
  <2> QED
    BY <2>1, <2>2
<1> QED
  BY <1>1, <1>2, <1>3 DEF q

(* A registered project is on the page its position falls on, and on no     *)
(* other.                                                                   *)
LEMMA ListedOnPage ==
  ASSUME RegistryInv, NEW id \in 1 .. project_count, NEW size \in Nat \ {0}, NEW page \in Nat
  PROVE  LET granted == IF size < 50 THEN size ELSE 50 IN
         Lists(list_projects(page, size), id) <=> page = (id - 1) \div granted
<1> DEFINE granted == IF size < 50 THEN size ELSE 50
           start == page * granted
           end == IF start + granted < project_count THEN start + granted ELSE project_count
           list == IF start >= project_count THEN <<>> ELSE [i \in 1 .. end - start |-> start + i]
<1>1. project_count \in Nat /\ id \in Nat \ {0} /\ id <= project_count
  BY DEF RegistryInv, RegistryTypeOK
<1>2. granted \in Nat \ {0}
  OBVIOUS
<1>3. list_projects(page, size) = list
  BY DEF list_projects
<1> HIDE DEF granted
<1>4. start \in Nat
  BY <1>2
<1>5. page = (id - 1) \div granted <=> start <= id - 1 /\ id - 1 < start + granted
  <2>1. id - 1 \in Nat
    BY <1>1
  <2> QED
    BY ONLY <1>2, <2>1, PageOf
<1> HIDE DEF start
<1>6. Lists(list, id) <=> start < id /\ id <= start + granted
  <2>1. CASE start >= project_count
    BY <1>1, <1>4, <2>1 DEF Lists
  <2>2. CASE start < project_count
    <3>1. end - start \in Nat /\ end \in Nat
      BY <1>1, <1>2, <1>4, <2>2
    <3>2. list = [i \in 1 .. end - start |-> start + i]
      BY <1>1, <1>4, <2>2
    <3> HIDE DEF list
    <3>3. Len(list) = end - start
      BY <3>1, <3>2
    <3>4. Lists(list, id) <=> \E i \in 1 .. end - start : start + i = id
      BY <3>2, <3>3, Zenon DEF Lists
    <3>5. (\E i \in 1 .. end - start : start + i = id) <=> start < id /\ id <= end
      <4> HIDE DEF end
      <4>1. ASSUME start < id, id <= end
            PROVE  id - start \in 1 .. end - start /\ start + (id - start) = id
        BY <1>1, <1>4, <3>1, <4>1
      <4> QED
        BY <1>1, <1>4, <3>1, <4>1
    <3> QED
      BY <1>1, <1>2, <1>4, <3>4, <3>5
  <2> QED
    BY <1>1, <1>4, <2>1, <2>2
<1> QED
  BY <1>1, <1>2, <1>3, <1>4, <1>5, <1>6 DEF granted

(* The owners' lists and the owners recorded with the projects agree. *)
OwnersTrue ==
  /\ owner_projects \in [Addresses -> Seq(Nat)]
  /\ DOMAIN project_owner = ProjectIds
  /\ \A a \in Addresses : \A id \in Nat :
       Lists(owner_projects[a], id) <=> id \in 1 .. project_count /\ project_owner[id] = a

(* A list with one more id.                                                 *)
LEMMA ListsAppended ==
  ASSUME NEW list \in Seq(Nat), NEW e \in Nat, NEW id
  PROVE  /\ Append(list, e) \in Seq(Nat)
         /\ Lists(Append(list, e), id) <=> Lists(list, id) \/ id = e
<1>1. /\ Append(list, e) \in Seq(Nat) /\ Len(list) \in Nat /\ Len(Append(list, e)) = Len(list) + 1
      /\ \A i \in 1 .. Len(list) : Append(list, e)[i] = list[i]
      /\ Append(list, e)[Len(list) + 1] = e
  OBVIOUS
<1> QED
  BY <1>1 DEF Lists

LEMMA OwnersStep == RegistryInv /\ OwnersTrue /\ [RegistryNext]_<<now, registryVars>> => OwnersTrue'
<1> SUFFICES ASSUME RegistryInv, OwnersTrue, [RegistryNext]_<<now, registryVars>>
             PROVE  OwnersTrue'
  OBVIOUS
<1>1. CASE UNCHANGED <<project_count, project_owner, owner_projects>>
  BY <1>1 DEF OwnersTrue
<1>2. ASSUME NEW caller \in Addresses, NEW hash, register_project(caller, hash)
      PROVE  OwnersTrue'
  <2> DEFINE new == project_count + 1
  <2>1. /\ new \in ProjectIds /\ project_count' = new
        /\ project_owner' = [project_owner EXCEPT ![new] = caller]
        /\ owner_projects' = [owner_projects EXCEPT ![caller] = Append(@, new)]
    BY <1>2 DEF register_project, PushProject
  <2>2. project_count \in Nat /\ new \in Nat /\ owner_projects[caller] \in Seq(Nat)
    BY DEF RegistryInv, RegistryTypeOK, OwnersTrue
  <2>3. /\ \A id : id \in 1 .. new <=> id \in 1 .. project_count \/ id = new
        /\ new \notin 1 .. project_count
    BY <2>2
  <2> HIDE DEF new
  <2>4. /\ Append(owner_projects[caller], new) \in Seq(Nat)
        /\ \A id : Lists(Append(owner_projects[caller], new), id) <=>
                     Lists(owner_projects[caller], id) \/ id = new
    <3> DEFINE list == owner_projects[caller]
    <3>1. list \in Seq(Nat)
      BY <2>2
    <3> HIDE DEF list
    <3>2. Append(list, new) \in Seq(Nat) /\ \A id : Lists(Append(list, new), id) <=> Lists(list, id) \/ id = new
      BY <2>2, <3>1, ListsAppended
    <3> QED
      BY <3>2 DEF list
  <2>5. owner_projects' \in [Addresses -> Seq(Nat)] /\ DOMAIN project_owner' = ProjectIds
    BY <2>1, <2>4 DEF OwnersTrue
  <2>6. /\ project_owner'[new] = caller
        /\ \A id \in 1 .. project_count : project_owner'[id] = project_owner[id]
    <3>1. \A id \in 1 .. project_count : id \in ProjectIds
      BY RegistryAssumption DEF RegistryInv, RegistryTypeOK, ProjectIds
    <3> QED
      BY <2>1, <2>3, <3>1 DEF OwnersTrue
  <2>7. ASSUME NEW a \in Addresses, NEW id \in Nat
        PROVE  Lists(owner_projects'[a], id) <=> id \in 1 .. new /\ project_owner'[id] = a
    <3>1. CASE a = caller
      <4>1. owner_projects'[a] = Append(owner_projects[caller], new)
        BY <2>1, <3>1 DEF OwnersTrue
      <4> QED
        <5>1. /\ Lists(owner_projects'[a], id) <=> Lists(owner_projects[caller], id) \/ id = new
              /\ Lists(owner_projects[caller], id) <=>
                   id \in 1 .. project_count /\ project_owner[id] = caller
          BY <2>4, <4>1 DEF OwnersTrue
        <5> QED
          BY ONLY <2>3, <2>6, <3>1, <5>1, Zenon
    <3>2. CASE a # caller
      <4>1. owner_projects'[a] = owner_projects[a]
        BY <2>1, <3>2, Zenon DEF OwnersTrue
      <4> QED
        BY <2>3, <2>6, <3>2, <4>1, Zenon DEF OwnersTrue
    <3> QED
      BY <3>1, <3>2
  <2> QED
    BY <2>1, <2>5, <2>7, ZenonT(40) DEF OwnersTrue, Lists
<1>3. CASE RegistryCall
  <2>1. CASE \E caller \in Addresses \ {OracleContract} : \E hash \in Hashes : register_project(caller, hash)
    BY <1>2, <2>1
  <2> QED
    BY <1>1, <1>3, <2>1 DEF RegistryCall, approve_project, reject_project, suspend_project,
       revoke_project, SetStatus, set_oracle_consumer, projectVars
<1> QED
  BY <1>1, <1>3 DEF RegistryNext, RotateRegistryAdmin, registryVars, projectVars

(* Walking list_projects page by page shows every project once, for every   *)
(* page size, and the owners' lists that register_project keeps divide the  *)
(* projects among those who registered them.                                *)
THEOREM PagesAndOwners == RegistrySpec => []PagesCoverProjects
<1>1. RegistryInit => OwnersTrue
  <2> SUFFICES ASSUME RegistryInit
               PROVE  OwnersTrue
    OBVIOUS
  <2> DEFINE none == <<>>
  <2>1. /\ project_count = 0 /\ DOMAIN project_owner = ProjectIds
        /\ owner_projects = [a \in Addresses |-> none]
    BY DEF RegistryInit
  <2>2. none \in Seq(Nat) /\ \A id : ~Lists(none, id)
    BY DEF Lists
  <2> HIDE DEF none
  <2> QED
    BY <2>1, <2>2 DEF OwnersTrue
<1>2. RegistryInv /\ OwnersTrue => PagesCoverProjects
  <2> SUFFICES ASSUME RegistryInv, OwnersTrue, NEW id \in 1 .. project_count
               PROVE  /\ \A size \in 1 .. MaxProjects + 1, p \in 0 .. project_count :
                           LET granted == IF size < 50 THEN size ELSE 50 IN
                           Lists(list_projects(p, size), id) <=> p = (id - 1) \div granted
                      /\ \A a \in Addresses :
                           Lists(get_owner_projects(a), id) <=> get_project(id).owner = a
    BY DEF PagesCoverProjects
  <2>1. ASSUME NEW size \in 1 .. MaxProjects + 1, NEW p \in 0 .. project_count
        PROVE  LET granted == IF size < 50 THEN size ELSE 50 IN
               Lists(list_projects(p, size), id) <=> p = (id - 1) \div granted
    <3>1. size \in Nat \ {0} /\ p \in Nat
      BY RegistryAssumption DEF RegistryInv, RegistryTypeOK
    <3> QED
      BY <3>1, ListedOnPage, Zenon
  <2>2. ASSUME NEW a \in Addresses
        PROVE  Lists(get_owner_projects(a), id) <=> get_project(id).owner = a
    <3>1. get_project(id).owner = project_owner[id] /\ id \in Nat
      BY DEF get_project
    <3> QED
      BY <3>1 DEF get_owner_projects, OwnersTrue
  <2> QED
    BY <2>1, <2>2
<1> QED
  BY <1>1, <1>2, RegistryInvHolds, OwnersStep, PTL DEF RegistrySpec

-----------------------------------------------------------------------------
(* The contract: GovernanceNonces. *)

NoncesTypeOK ==
  /\ ledger \in Nat
  /\ nonce \in [Accounts -> Nat \cup {-1}]
  /\ nonce_until \in [Accounts -> Int]
  /\ marker \in [Accounts -> BOOLEAN]
  /\ marker_until \in [Accounts -> Int]
  /\ instance_nonce \in [Accounts -> Nat \cup {-1}]
  /\ instance_until \in Int
  /\ last_call \in [Accounts -> Int]

(* A nonce and its marker exist together: there is no state in which        *)
(* check_nonce answers NonceArchived.                                       *)
MarkedTogether == \A a \in Accounts : marker[a] <=> nonce[a] # -1

ConsumedBelow ==
  \A a \in Accounts : \A n \in 0 .. MaxNonce : <<a, n>> \in consumed <=> n < get_nonce(a)

CallsInThePast == \A a \in Accounts : last_call[a] <= ledger

(* The inductive invariant.  LiveAfterCall alone is not inductive: that the *)
(* call of one account keeps the instance alive for the others needs        *)
(* CallsInThePast.                                                          *)
NoncesInv == NoncesTypeOK /\ MarkedTogether /\ ConsumedBelow /\ CallsInThePast /\ LiveAfterCall

-----------------------------------------------------------------------------
(* extend_ttl leaves an entry live beyond the threshold, whether or not it  *)
(* extends it.                                                              *)
LEMMA ExtendedBeyondThreshold ==
  ASSUME ledger \in Nat, NEW until \in Int
  PROVE  Extended(until) \in Int /\ Extended(until) > ledger + PERSISTENT_TTL_THRESHOLD
  BY GovernanceNoncesAssumption DEF Extended

(* A restoration shortens no lifetime.                                      *)
LEMMA RestoredNotBefore ==
  ASSUME ledger \in Nat, NEW until \in Int
  PROVE  Restored(until) \in Int /\ Restored(until) >= until
  BY GovernanceNoncesAssumption DEF Restored

(* get_nonce answers a natural number, with nothing stored too.             *)
LEMMA NonceNatural ==
  ASSUME NoncesTypeOK, NEW a \in Accounts
  PROVE  get_nonce(a) \in Nat
  BY DEF NoncesTypeOK, get_nonce

(* The upgraded contract: legacy nonces only.                               *)
LEMMA NoncesInvInit == NoncesInit => NoncesInv
<1> SUFFICES ASSUME NoncesInit
             PROVE  NoncesInv
  OBVIOUS
<1> USE GovernanceNoncesAssumption DEF NoncesInit
<1>1. NoncesTypeOK
  <2>1. instance_nonce \in [Accounts -> Nat \cup {-1}]
    BY Zenon
  <2>2. marker \in [Accounts -> BOOLEAN]
    OBVIOUS
  <2> QED
    BY <2>1, <2>2 DEF NoncesTypeOK
<1>2. MarkedTogether /\ CallsInThePast /\ LiveAfterCall
  BY DEF MarkedTogether, CallsInThePast, LiveAfterCall
<1>3. ConsumedBelow
  <2> SUFFICES ASSUME NEW a \in Accounts, NEW n \in 0 .. MaxNonce
               PROVE  <<a, n>> \in consumed <=> n < get_nonce(a)
    BY Zenon DEF ConsumedBelow
  <2>1. <<a, n>> \in consumed <=> n < instance_nonce[a]
    OBVIOUS
  <2> QED
    BY <1>1, <2>1 DEF get_nonce, NoncesTypeOK
<1> QED
  BY <1>1, <1>2, <1>3 DEF NoncesInv

(* A call by the accounts S, each with the nonce it carries.                *)
LEMMA CallStep ==
  ASSUME NoncesInv, NEW S \in SUBSET Accounts, NEW given \in [S -> 0 .. MaxNonce - 1],
         check_nonce(S, given)
  PROVE  NoncesInv'
<1> USE DEF NoncesInv
<1>1. ledger' = ledger /\ instance_nonce' = instance_nonce
  BY DEF check_nonce
<1>2. /\ \A a \in S : /\ nonce'[a] = get_nonce(a) + 1
                      /\ marker'[a] = TRUE
                      /\ last_call'[a] = ledger
                      /\ given[a] = get_nonce(a)
      /\ \A a \in Accounts \ S : /\ nonce'[a] = nonce[a]
                                 /\ marker'[a] = marker[a]
                                 /\ nonce_until'[a] = nonce_until[a]
                                 /\ marker_until'[a] = marker_until[a]
                                 /\ last_call'[a] = last_call[a]
  BY Zenon DEF check_nonce, write_nonce, NoncesTypeOK
<1>3. \A a \in S : /\ nonce_until'[a] \in Int
                   /\ nonce_until'[a] > ledger + PERSISTENT_TTL_THRESHOLD
                   /\ marker_until'[a] \in Int
                   /\ marker_until'[a] > ledger + PERSISTENT_TTL_THRESHOLD
  <2> SUFFICES ASSUME NEW a \in S
               PROVE  /\ nonce_until'[a] \in Int
                      /\ nonce_until'[a] > ledger + PERSISTENT_TTL_THRESHOLD
                      /\ marker_until'[a] \in Int
                      /\ marker_until'[a] > ledger + PERSISTENT_TTL_THRESHOLD
    BY Zenon
  <2> DEFINE u == IF nonce[a] = -1 THEN ledger + MIN_TTL ELSE nonce_until[a]
             v == IF marker[a] THEN marker_until[a] ELSE ledger + MIN_TTL
  <2>1. nonce_until'[a] = Extended(u) /\ marker_until'[a] = Extended(v)
    BY Zenon DEF check_nonce, write_nonce
  <2>2. ledger \in Nat /\ u \in Int /\ v \in Int
    <3>1. ledger \in Nat /\ ledger + MIN_TTL \in Int
      BY GovernanceNoncesAssumption, NaturalFacts, Zenon DEF NoncesTypeOK
    <3> QED
      BY <3>1, Zenon DEF NoncesTypeOK
  <2> QED
    BY <2>1, <2>2, ExtendedBeyondThreshold, Zenon
<1>4. instance_until' \in Int /\ instance_until' > ledger + PERSISTENT_TTL_THRESHOLD
  BY ExtendedBeyondThreshold DEF check_nonce, NoncesTypeOK
<1>5. NoncesTypeOK'
  <2>1. /\ nonce' = [a \in Accounts |-> nonce'[a]]
        /\ marker' = [a \in Accounts |-> marker'[a]]
        /\ nonce_until' = [a \in Accounts |-> nonce_until'[a]]
        /\ marker_until' = [a \in Accounts |-> marker_until'[a]]
        /\ last_call' = [a \in Accounts |-> last_call'[a]]
    BY Zenon DEF check_nonce, write_nonce
  <2>2. \A a \in Accounts : nonce'[a] \in Nat \cup {-1}
    <3>1. \A a \in Accounts : get_nonce(a) \in Nat
      BY NonceNatural, Zenon
    <3> QED
      BY <1>2, <3>1 DEF NoncesTypeOK
  <2>3. \A a \in Accounts : marker'[a] \in BOOLEAN
    BY <1>2, Zenon DEF NoncesTypeOK
  <2>4. \A a \in Accounts : /\ nonce_until'[a] \in Int
                            /\ marker_until'[a] \in Int
                            /\ last_call'[a] \in Int
    BY <1>2, <1>3 DEF NoncesTypeOK
  <2> QED
    BY <1>1, <1>4, <2>1, <2>2, <2>3, <2>4, Zenon DEF NoncesTypeOK
<1>6. MarkedTogether'
  BY <1>2, NonceNatural DEF MarkedTogether
<1>7. ConsumedBelow'
  <2> SUFFICES ASSUME NEW a \in Accounts, NEW n \in 0 .. MaxNonce
               PROVE  <<a, n>> \in consumed' <=> n < get_nonce(a)'
    BY Zenon DEF ConsumedBelow
  <2>1. <<a, n>> \in consumed <=> n < get_nonce(a)
    BY Zenon DEF ConsumedBelow
  <2>2. consumed' = consumed \cup {<<c, given[c]>> : c \in S}
    BY DEF check_nonce
  <2>3. get_nonce(a) \in Nat
    BY NonceNatural
  <2>4. CASE a \in S
    <3>1. <<a, n>> \in consumed' <=> <<a, n>> \in consumed \/ n = get_nonce(a)
      BY <1>2, <2>2, <2>4, ZenonT(40)
    <3>2. get_nonce(a)' = get_nonce(a) + 1
      <4>1. nonce'[a] = get_nonce(a) + 1 /\ get_nonce(a) + 1 # -1
        BY <1>2, <2>3, <2>4, NaturalFacts, Zenon
      <4> QED
        BY <4>1, Zenon DEF get_nonce
    <3>3. n \in Nat /\ (n < get_nonce(a) + 1 <=> n < get_nonce(a) \/ n = get_nonce(a))
      <4>1. n \in Nat
        BY GovernanceNoncesAssumption, NaturalFacts, Zenon
      <4> QED
        BY <2>3, <4>1, NaturalFacts, Zenon
    <3> QED
      BY <2>1, <3>1, <3>2, <3>3, Zenon
  <2>5. CASE a \notin S
    <3>1. <<a, n>> \in consumed' <=> <<a, n>> \in consumed
      BY <2>2, <2>5, Zenon
    <3>2. get_nonce(a)' = get_nonce(a)
      BY <1>1, <1>2, <2>5, Zenon DEF get_nonce
    <3> QED
      BY <2>1, <3>1, <3>2, Zenon
  <2> QED
    BY <2>4, <2>5
<1>8. CallsInThePast'
  BY <1>1, <1>2, NaturalFacts, Zenon DEF CallsInThePast, NoncesTypeOK
<1>9. LiveAfterCall'
  <2> SUFFICES ASSUME NEW a \in Accounts, last_call'[a] # -1
               PROVE  /\ nonce'[a] # -1
                      /\ nonce_until'[a] > last_call'[a] + PERSISTENT_TTL_THRESHOLD
                      /\ marker'[a]
                      /\ marker_until'[a] > last_call'[a] + PERSISTENT_TTL_THRESHOLD
                      /\ instance_until' > last_call'[a] + PERSISTENT_TTL_THRESHOLD
    BY Zenon DEF LiveAfterCall
  <2>1. CASE a \in S
    <3>1. get_nonce(a) \in Nat
      BY NonceNatural, Zenon
    <3> QED
      BY <1>2, <1>3, <1>4, <2>1, <3>1, NaturalFacts, Zenon
  <2>2. CASE a \notin S
    <3>1. last_call[a] <= ledger /\ last_call[a] \in Int /\ ledger \in Nat
      BY Zenon DEF CallsInThePast, NoncesTypeOK
    <3>2. instance_until' > last_call[a] + PERSISTENT_TTL_THRESHOLD
      BY <1>4, <3>1, GovernanceNoncesAssumption
    <3> QED
      BY <1>2, <2>2, <3>2, Zenon DEF LiveAfterCall
  <2> QED
    BY <2>1, <2>2, Zenon
<1> QED
  BY <1>5, <1>6, <1>7, <1>8, <1>9, Zenon

(* A restoration touches lifetimes only.                                    *)
LEMMA RestoreStep ==
  ASSUME NoncesInv, NEW a \in Accounts, Restore(a)
  PROVE  NoncesInv'
<1> USE DEF NoncesInv
<1>1. UNCHANGED <<ledger, nonce, marker, instance_nonce, consumed, last_call>>
  BY Zenon DEF Restore
<1>2. /\ nonce_until' \in [Accounts -> Int]
      /\ marker_until' \in [Accounts -> Int]
      /\ instance_until' \in Int
      /\ \A c \in Accounts : nonce_until'[c] >= nonce_until[c]
      /\ \A c \in Accounts : marker_until'[c] >= marker_until[c]
      /\ instance_until' >= instance_until
  <2>1. /\ ledger \in Nat
        /\ nonce_until \in [Accounts -> Int]
        /\ marker_until \in [Accounts -> Int]
        /\ instance_until \in Int
    BY DEF NoncesTypeOK
  <2>2. /\ Restored(nonce_until[a]) \in Int /\ Restored(nonce_until[a]) >= nonce_until[a]
        /\ Restored(marker_until[a]) \in Int /\ Restored(marker_until[a]) >= marker_until[a]
        /\ Restored(instance_until) \in Int /\ Restored(instance_until) >= instance_until
    BY <2>1, RestoredNotBefore, Zenon
  <2> QED
    BY <2>1, <2>2 DEF Restore
<1>3. NoncesTypeOK' /\ MarkedTogether' /\ CallsInThePast'
  BY <1>1, <1>2 DEF NoncesTypeOK, MarkedTogether, CallsInThePast
<1>4. ConsumedBelow'
  BY <1>1, Zenon DEF ConsumedBelow, get_nonce
<1>5. LiveAfterCall'
  BY <1>1, <1>2, GovernanceNoncesAssumption DEF LiveAfterCall, NoncesTypeOK
<1> QED
  BY <1>3, <1>4, <1>5, Zenon

(* Every call, restoration and ledger preserves the invariant.              *)
LEMMA NoncesInvStep == NoncesInv /\ [NoncesNext]_noncesVars => NoncesInv'
<1> SUFFICES ASSUME NoncesInv, [NoncesNext]_noncesVars
             PROVE  NoncesInv'
  OBVIOUS
<1>1. ASSUME NEW caller \in Accounts, NEW S \in SUBSET Accounts, Call(caller, S)
      PROVE  NoncesInv'
  BY <1>1, CallStep, Zenon DEF Call
<1>2. ASSUME CloseLedger
      PROVE  NoncesInv'
  BY <1>2 DEF CloseLedger, entries, NoncesInv, NoncesTypeOK, MarkedTogether, ConsumedBelow,
              get_nonce, CallsInThePast, LiveAfterCall
<1>3. ASSUME UNCHANGED noncesVars
      PROVE  NoncesInv'
  BY <1>3 DEF noncesVars, entries, NoncesInv, NoncesTypeOK, MarkedTogether, ConsumedBelow,
              get_nonce, CallsInThePast, LiveAfterCall
<1> QED
  BY <1>1, <1>2, <1>3, RestoreStep DEF NoncesNext

(* The inductive invariant holds after the upgrade and ever after.          *)
THEOREM NoncesInvHolds == NoncesSpec => []NoncesInv
  BY NoncesInvInit, NoncesInvStep, PTL DEF NoncesSpec

(* check_nonce accepts every nonce of an account once and in order, through *)
(* archival, restoration and the move from instance storage, and never      *)
(* answers NonceArchived.                                                   *)
THEOREM ConsumedInOrder == NoncesSpec => []NoncesConsumedInOrder
<1>1. NoncesInv => NoncesConsumedInOrder
  BY Zenon DEF NoncesInv, MarkedTogether, ConsumedBelow, NoncesConsumedInOrder, NonceArchived,
         NoncesTypeOK
<1> QED
  BY <1>1, NoncesInvHolds, PTL

(* An accepted call leaves its caller's nonce and marker and the instance   *)
(* live beyond the threshold, whatever the two TTL constants are as long as *)
(* the first is below the second.                                           *)
THEOREM AliveAfterCall == NoncesSpec => []LiveAfterCall
  BY NoncesInvHolds, PTL DEF NoncesInv

-----------------------------------------------------------------------------
(* The contract's decisions: Governance.  The argument is about what the    *)
(* reads answer, from either storage; that migrate_storage changes no       *)
(* answer is a lemma.                                                       *)

Statuses == {"Pending", "Queued", "Executed", "Rejected", "Cancelled"}
Choices == {"None", "Approve", "Veto"}

Proposals ==
  [call : Calls, args : Payloads, status : Statuses, approval_count : Nat, veto_count : Nat,
   created_at : Nat, expires_at : Nat, queued_at : Nat, executed_at : Nat, timelock_seconds : Nat]

StorageTypeOK ==
  /\ timestamp \in Nat
  /\ DOMAIN proposal = ProposalIds
  /\ vote \in [ProposalIds -> [Signers -> Choices]]
  /\ proposal_count \in Int
  /\ legacy.count \in Int
  /\ \A id \in ProposalIds, s \in Signers : legacy.vote[id][s] \in Choices

(* What is read of a proposal has the fields the calls use; beyond the      *)
(* counter there is neither a proposal nor a vote.                          *)
ReadsTypeOK ==
  /\ read_proposal_count \in Nat
  /\ \A id \in ProposalIds :
       /\ read_proposal(id) \in Proposals \/ read_proposal(id) = NoProposal
       /\ id > read_proposal_count => /\ read_proposal(id) = NoProposal
                                      /\ \A s \in Signers : read_vote(id, s) = "None"

(* While a proposal is open neither side has its quorum. *)
OpenBelowQuorum ==
  \A id \in ProposalIds :
    LET p == read_proposal(id) IN
    /\ p.status # "None" => p.created_at <= timestamp
    /\ p.status = "Pending" => p.approval_count < Threshold /\ p.veto_count < Threshold

(* The inductive invariant.  ExecutedByQuorum needs the counters to be      *)
(* those of distinct signers and an open proposal to lack a vetoing quorum. *)
IInv ==
  /\ StorageTypeOK
  /\ ReadsTypeOK
  /\ CountsMatchVotes
  /\ OpenBelowQuorum
  /\ ExecutedByQuorum

-----------------------------------------------------------------------------
(* The records the calls write.                                             *)

(* What vote_approve writes for a proposal it read as p. *)
AfterApprove(p) ==
  LET approved == [p EXCEPT !.approval_count = @ + 1] IN
  IF approved.approval_count >= Threshold
  THEN [approved EXCEPT !.status = "Queued", !.queued_at = timestamp]
  ELSE approved

AfterVeto(p) ==
  LET vetoed == [p EXCEPT !.veto_count = @ + 1] IN
  IF vetoed.veto_count >= Threshold THEN [vetoed EXCEPT !.status = "Rejected"] ELSE vetoed

(* The terms of a proposal, which no call changes. *)
SameTerms(p, q) ==
  /\ q.call = p.call /\ q.args = p.args
  /\ q.created_at = p.created_at /\ q.expires_at = p.expires_at
  /\ q.timelock_seconds = p.timelock_seconds

(* An approval raises one counter, and queues the proposal at the quorum.   *)
LEMMA ApproveFields ==
  ASSUME NEW p \in Proposals, timestamp \in Nat
  PROVE  LET q == AfterApprove(p) IN
         /\ q \in Proposals /\ SameTerms(p, q)
         /\ q.approval_count = p.approval_count + 1 /\ q.veto_count = p.veto_count
         /\ q.approval_count >= Threshold => q.status = "Queued" /\ q.queued_at = timestamp
         /\ ~(q.approval_count >= Threshold) => q.status = p.status
<1> DEFINE a == [p EXCEPT !.approval_count = @ + 1]
           b == [a EXCEPT !.status = "Queued", !.queued_at = timestamp]
<1>1. /\ a \in Proposals /\ SameTerms(p, a)
      /\ a.approval_count = p.approval_count + 1 /\ a.veto_count = p.veto_count
      /\ a.status = p.status
  BY DEF Proposals, SameTerms
<1>2. AfterApprove(p) = IF a.approval_count >= Threshold THEN b ELSE a
  BY DEF AfterApprove
<1> HIDE DEF a
<1>3. /\ b \in Proposals /\ SameTerms(a, b)
      /\ b.approval_count = a.approval_count /\ b.veto_count = a.veto_count
      /\ b.status = "Queued" /\ b.queued_at = timestamp
  BY <1>1, Zenon DEF Proposals, SameTerms, Statuses
<1> HIDE DEF b
<1> QED
  BY <1>1, <1>2, <1>3 DEF SameTerms

(* A veto raises the other, and rejects the proposal at the quorum.         *)
LEMMA VetoFields ==
  ASSUME NEW p \in Proposals
  PROVE  LET q == AfterVeto(p) IN
         /\ q \in Proposals /\ SameTerms(p, q)
         /\ q.approval_count = p.approval_count /\ q.veto_count = p.veto_count + 1
         /\ q.veto_count >= Threshold => q.status = "Rejected"
         /\ ~(q.veto_count >= Threshold) => q.status = p.status
<1> DEFINE a == [p EXCEPT !.veto_count = @ + 1]
           b == [a EXCEPT !.status = "Rejected"]
<1>1. /\ a \in Proposals /\ SameTerms(p, a)
      /\ a.approval_count = p.approval_count /\ a.veto_count = p.veto_count + 1
      /\ a.status = p.status
  BY DEF Proposals, SameTerms
<1>2. AfterVeto(p) = IF a.veto_count >= Threshold THEN b ELSE a
  BY DEF AfterVeto
<1> HIDE DEF a
<1>3. /\ b \in Proposals /\ SameTerms(a, b)
      /\ b.approval_count = a.approval_count /\ b.veto_count = a.veto_count
      /\ b.status = "Rejected"
  BY <1>1 DEF Proposals, SameTerms, Statuses
<1> HIDE DEF b
<1> QED
  BY <1>1, <1>2, <1>3 DEF SameTerms

(* Cancelling and executing change the status and a time.                   *)
LEMMA CloseFields ==
  ASSUME NEW p \in Proposals, timestamp \in Nat
  PROVE  LET c == [p EXCEPT !.status = "Cancelled"]
             e == [p EXCEPT !.status = "Executed", !.executed_at = timestamp]
         IN
         /\ c \in Proposals /\ SameTerms(p, c) /\ c.status = "Cancelled"
         /\ c.approval_count = p.approval_count /\ c.veto_count = p.veto_count
         /\ e \in Proposals /\ SameTerms(p, e) /\ e.status = "Executed" /\ e.executed_at = timestamp
         /\ e.approval_count = p.approval_count /\ e.veto_count = p.veto_count
         /\ e.queued_at = p.queued_at
  BY Zenon DEF Proposals, SameTerms, Statuses

(* A new proposal has no votes yet.                                         *)
LEMMA NewFields ==
  ASSUME NEW call \in Calls, NEW args \in Payloads, NEW at \in Nat
  PROVE  LET p == NewProposal(call, args, at) IN
         /\ p \in Proposals /\ p.status = "Pending" /\ p.created_at = at
         /\ p.approval_count = 0 /\ p.veto_count = 0
  BY GovernanceAssumption DEF NewProposal, Proposals, Statuses

-----------------------------------------------------------------------------
(* The kinds of steps, as the reads see them.                               *)

SameVotes == \A i \in ProposalIds, s \in Signers : read_vote(i, s)' = read_vote(i, s)

(* Only proposal id reads differently, as q. *)
OnlyProposal(id, q) ==
  /\ read_proposal(id)' = q
  /\ \A i \in ProposalIds \ {id} : read_proposal(i)' = read_proposal(i)

Quiet ==
  /\ \A i \in ProposalIds : read_proposal(i)' = read_proposal(i)
  /\ SameVotes
  /\ read_proposal_count' = read_proposal_count

(* A signer that had no recorded choice on an open proposal records one. *)
Voted(voter, id, choice, q) ==
  /\ read_proposal(id).status = "Pending" /\ timestamp < read_proposal(id).expires_at
  /\ read_vote(id, voter) = "None"
  /\ OnlyProposal(id, q)
  /\ \A i \in ProposalIds, s \in Signers :
       read_vote(i, s)' = IF i = id /\ s = voter THEN choice ELSE read_vote(i, s)
  /\ UNCHANGED <<timestamp, read_proposal_count>>

(* What is written is what is read next, and other entries read as before.  *)
LEMMA ReadAfterWrite ==
  ASSUME IInv, NEW id \in ProposalIds, NEW q \in Proposals, write_proposal(id, q), UNCHANGED legacy
  PROVE  OnlyProposal(id, q)
<1>1. q.status # "None"
  BY Zenon DEF Proposals, Statuses
<1>2. proposal'[id] = q /\ \A i \in ProposalIds \ {id} : proposal'[i] = proposal[i]
  BY DEF write_proposal, IInv, StorageTypeOK
<1> QED
  BY <1>1, <1>2, Zenon DEF OnlyProposal, read_proposal

(* An existing proposal has the fields the calls use.                       *)
LEMMA ExistingTyped ==
  ASSUME IInv, NEW id \in ProposalIds, read_proposal(id).status # "None"
  PROVE  read_proposal(id) \in Proposals
<1>1. NoProposal.status = "None"
  BY Zenon DEF NoProposal
<1> QED
  BY <1>1, Zenon DEF IInv, ReadsTypeOK

(* A recorded vote is what is read next.                                    *)
LEMMA VoteAfterWrite ==
  ASSUME IInv, NEW id \in ProposalIds, NEW voter \in Signers, NEW choice \in {"Approve", "Veto"},
         write_vote(id, voter, choice), UNCHANGED legacy
  PROVE  /\ vote' \in [ProposalIds -> [Signers -> Choices]]
         /\ \A i \in ProposalIds, s \in Signers :
              read_vote(i, s)' = IF i = id /\ s = voter THEN choice ELSE read_vote(i, s)
<1>1. vote \in [ProposalIds -> [Signers -> Choices]]
  BY Zenon DEF IInv, StorageTypeOK
<1>2. vote' \in [ProposalIds -> [Signers -> Choices]]
  BY <1>1, Zenon DEF write_vote, Choices
<1>3. \A i \in ProposalIds, s \in Signers :
        vote'[i][s] = IF i = id /\ s = voter THEN choice ELSE vote[i][s]
  BY <1>1 DEF write_vote
<1> QED
  BY <1>2, <1>3, ZenonT(30) DEF read_vote

(* migrate_storage changes no answer, at whatever point it runs.            *)
LEMMA MigrationQuiet ==
  ASSUME IInv, NEW caller \in Callers, migrate_storage(caller)
  PROVE  Quiet
<1>1. \A i \in ProposalIds : read_proposal(i)' = read_proposal(i)
  <2> SUFFICES ASSUME NEW i \in ProposalIds
               PROVE  read_proposal(i)' = read_proposal(i)
    BY Zenon
  <2>1. proposal'[i] = IF NeedsCopy(i) THEN legacy.proposal[i] ELSE proposal[i]
    BY Zenon DEF migrate_storage
  <2>2. legacy' = legacy
    BY DEF migrate_storage
  <2>3. CASE NeedsCopy(i)
    BY <2>1, <2>2, <2>3, Zenon DEF read_proposal, NeedsCopy
  <2>4. CASE ~NeedsCopy(i)
    BY <2>1, <2>2, <2>4, Zenon DEF read_proposal
  <2> QED
    BY <2>3, <2>4
<1>2. SameVotes
  BY Zenon DEF migrate_storage, SameVotes, read_vote
<1>3. read_proposal_count' = read_proposal_count
  BY DEF migrate_storage, read_proposal_count
<1> QED
  BY <1>1, <1>2, <1>3 DEF Quiet

-----------------------------------------------------------------------------
(* The invariant's part about the reads depends on the reads alone.         *)
ReadsInv == ReadsTypeOK /\ CountsMatchVotes /\ OpenBelowQuorum /\ ExecutedByQuorum

(* A step no read notices; the clock may advance.                           *)
LEMMA QuietKeeps ==
  ASSUME IInv, Quiet, timestamp' \in Nat, timestamp <= timestamp'
  PROVE  ReadsInv'
<1>1. \A i \in ProposalIds : Approvers(i)' = Approvers(i) /\ Vetoers(i)' = Vetoers(i)
  BY Zenon DEF Quiet, SameVotes, Approvers, Vetoers, get_vote
<1>2. ReadsTypeOK'
  BY Zenon DEF IInv, Quiet, SameVotes, ReadsTypeOK
<1>3. CountsMatchVotes'
  BY <1>1, Zenon DEF IInv, Quiet, CountsMatchVotes, get_proposal
<1>4. ExecutedByQuorum'
  BY <1>1, Zenon DEF IInv, Quiet, ExecutedByQuorum
<1>5. OpenBelowQuorum'
  <2> SUFFICES ASSUME NEW i \in ProposalIds, read_proposal(i).status # "None"
               PROVE  /\ read_proposal(i).created_at <= timestamp'
                      /\ read_proposal(i).status = "Pending" =>
                           /\ read_proposal(i).approval_count < Threshold
                           /\ read_proposal(i).veto_count < Threshold
    BY DEF Quiet, OpenBelowQuorum
  <2>1. read_proposal(i).created_at \in Nat
    BY ExistingTyped DEF Proposals
  <2>2. timestamp \in Nat
    BY Zenon DEF IInv, StorageTypeOK
  <2> QED
    BY <2>1, <2>2 DEF IInv, OpenBelowQuorum
<1> QED
  BY <1>2, <1>3, <1>4, <1>5, Zenon DEF ReadsInv

(* cancel and execute: no vote is recorded and the counters stay.           *)
LEMMA ClosedKeeps ==
  ASSUME IInv, NEW id \in ProposalIds, NEW q \in Proposals, OnlyProposal(id, q), SameVotes,
         UNCHANGED <<timestamp, read_proposal_count>>,
         LET p == read_proposal(id) IN
         /\ p.status # "None" /\ SameTerms(p, q)
         /\ q.approval_count = p.approval_count /\ q.veto_count = p.veto_count
         /\ \/ q.status = "Cancelled"
            \/ /\ p.status = "Queued" /\ q.status = "Executed"
               /\ q.queued_at = p.queued_at /\ q.executed_at = timestamp
               /\ p.queued_at + p.timelock_seconds <= timestamp /\ timestamp < p.expires_at
  PROVE  ReadsInv'
<1> DEFINE p == read_proposal(id)
<1>1. \A i \in ProposalIds : Approvers(i)' = Approvers(i) /\ Vetoers(i)' = Vetoers(i)
  BY Zenon DEF SameVotes, Approvers, Vetoers, get_vote
<1>2. p \in Proposals
  BY ExistingTyped
<1>3. ~(id > read_proposal_count)
  <2>1. NoProposal.status = "None"
    BY Zenon DEF NoProposal
  <2> QED
    BY <2>1, Zenon DEF IInv, ReadsTypeOK
<1>4. ReadsTypeOK'
  <2>1. /\ read_proposal(id)' \in Proposals
        /\ \A i \in ProposalIds \ {id} : read_proposal(i)' = read_proposal(i)
    BY Zenon DEF OnlyProposal
  <2> QED
    BY <1>3, <2>1, Zenon DEF IInv, ReadsTypeOK, SameVotes
<1>5. CountsMatchVotes'
  BY <1>1 DEF IInv, OnlyProposal, CountsMatchVotes, get_proposal
<1>6. OpenBelowQuorum'
  BY <1>2 DEF IInv, OnlyProposal, OpenBelowQuorum, SameTerms
<1>7. ExecutedByQuorum'
  <2> SUFFICES ASSUME NEW i \in ProposalIds
               PROVE  LET r == read_proposal(i)' IN
                      /\ r.status \in {"Queued", "Executed"} =>
                           /\ Cardinality(Approvers(i)) >= Threshold
                           /\ Cardinality(Vetoers(i)) < Threshold
                           /\ r.created_at <= r.queued_at /\ r.queued_at < r.expires_at
                      /\ r.status = "Executed" =>
                           /\ r.queued_at + r.timelock_seconds <= r.executed_at
                           /\ r.executed_at < r.expires_at
    BY <1>1, Zenon DEF ExecutedByQuorum
  <2>1. CASE i # id
    BY <2>1 DEF IInv, OnlyProposal, ExecutedByQuorum
  <2>2. CASE i = id /\ q.status = "Cancelled"
    BY <2>2, Zenon DEF OnlyProposal
  <2>3. CASE i = id /\ q.status = "Executed"
    <3>1. /\ Cardinality(Approvers(id)) >= Threshold
          /\ Cardinality(Vetoers(id)) < Threshold
          /\ p.created_at <= p.queued_at /\ p.queued_at < p.expires_at
      BY <2>3, Zenon DEF IInv, ExecutedByQuorum
    <3> HIDE DEF p
    <3>2. /\ q.created_at = p.created_at /\ q.expires_at = p.expires_at
          /\ q.timelock_seconds = p.timelock_seconds /\ q.queued_at = p.queued_at
          /\ q.executed_at = timestamp
          /\ p.queued_at + p.timelock_seconds <= timestamp /\ timestamp < p.expires_at
      BY <2>3, Zenon DEF SameTerms, p
    <3>3. read_proposal(i)' = q
      BY <2>3, Zenon DEF OnlyProposal
    <3> QED
      BY <2>3, <3>1, <3>2, <3>3, Zenon
  <2> QED
    BY <2>1, <2>2, <2>3, ZenonT(30)
<1> QED
  BY <1>4, <1>5, <1>6, <1>7, Zenon DEF ReadsInv

(* The votes on a proposal are those of finitely many signers, and one more *)
(* signer makes one more of its side.                                       *)
LEMMA OneMoreVote ==
  ASSUME IInv, NEW id \in ProposalIds, NEW voter \in Signers, NEW choice \in {"Approve", "Veto"},
         NEW q, Voted(voter, id, choice, q)
  PROVE  /\ \A i \in ProposalIds \ {id} : Approvers(i)' = Approvers(i) /\ Vetoers(i)' = Vetoers(i)
         /\ Cardinality(Approvers(id))' =
              IF choice = "Approve" THEN Cardinality(Approvers(id)) + 1 ELSE Cardinality(Approvers(id))
         /\ Cardinality(Vetoers(id))' =
              IF choice = "Veto" THEN Cardinality(Vetoers(id)) + 1 ELSE Cardinality(Vetoers(id))
<1>1. \A i \in ProposalIds \ {id} : Approvers(i)' = Approvers(i) /\ Vetoers(i)' = Vetoers(i)
  BY DEF Voted, Approvers, Vetoers, get_vote
<1>2. IsFiniteSet(Approvers(id)) /\ IsFiniteSet(Vetoers(id))
  <2>1. Approvers(id) \subseteq Signers /\ Vetoers(id) \subseteq Signers /\ IsFiniteSet(Signers)
    BY GovernanceAssumption DEF Approvers, Vetoers
  <2> QED
    BY <2>1, FS_Subset, Zenon
<1>3. voter \notin Approvers(id) /\ voter \notin Vetoers(id)
  BY DEF Voted, Approvers, Vetoers, get_vote
<1>4. CASE choice = "Approve"
  <2>1. Approvers(id)' = Approvers(id) \cup {voter} /\ Vetoers(id)' = Vetoers(id)
    BY <1>4 DEF Voted, Approvers, Vetoers, get_vote
  <2> QED
    BY <1>1, <1>2, <1>3, <1>4, <2>1, FS_AddElement, Zenon
<1>5. CASE choice = "Veto"
  <2>1. Vetoers(id)' = Vetoers(id) \cup {voter} /\ Approvers(id)' = Approvers(id)
    BY <1>5 DEF Voted, Approvers, Vetoers, get_vote
  <2> QED
    BY <1>1, <1>2, <1>3, <1>5, <2>1, FS_AddElement, Zenon
<1> QED
  BY <1>4, <1>5, Zenon

(* vote_approve and vote_veto keep the counters those of the votes, and the *)
(* first side to reach the threshold closes the vote.                       *)
LEMMA VotedKeeps ==
  ASSUME IInv, NEW id \in ProposalIds, NEW voter \in Signers, NEW choice \in {"Approve", "Veto"},
         NEW q, Voted(voter, id, choice, q),
         q = IF choice = "Approve" THEN AfterApprove(read_proposal(id))
                                   ELSE AfterVeto(read_proposal(id))
  PROVE  ReadsInv'
<1> DEFINE p == read_proposal(id)
<1>1. /\ p \in Proposals /\ p.status = "Pending"
      /\ timestamp \in Nat /\ timestamp' = timestamp /\ timestamp < p.expires_at
  BY ExistingTyped, Zenon DEF Voted, IInv, StorageTypeOK
<1>2. /\ q \in Proposals /\ SameTerms(p, q)
      /\ q.approval_count = IF choice = "Approve" THEN p.approval_count + 1 ELSE p.approval_count
      /\ q.veto_count = IF choice = "Veto" THEN p.veto_count + 1 ELSE p.veto_count
      /\ q.status = "Pending" =>
           (choice = "Approve" => ~(q.approval_count >= Threshold))
             /\ (choice = "Veto" => ~(q.veto_count >= Threshold))
      /\ q.status \in {"Pending", "Queued", "Rejected"}
      /\ q.status = "Queued" => /\ choice = "Approve" /\ q.approval_count >= Threshold
                                /\ q.queued_at = timestamp
  <2>1. CASE choice = "Approve"
    BY <1>1, <2>1, ApproveFields, Zenon
  <2>2. CASE choice = "Veto"
    BY <1>1, <2>2, VetoFields
  <2> QED
    BY <2>1, <2>2, Zenon
<1>3. p.approval_count < Threshold /\ p.veto_count < Threshold /\ p.created_at <= timestamp
  BY <1>1, Zenon DEF IInv, OpenBelowQuorum
<1>4. p.approval_count = Cardinality(Approvers(id)) /\ p.veto_count = Cardinality(Vetoers(id))
  BY DEF IInv, CountsMatchVotes, get_proposal
<1> HIDE DEF p
<1>5. read_proposal(id)' = q /\ \A i \in ProposalIds \ {id} : read_proposal(i)' = read_proposal(i)
  BY Zenon DEF Voted, OnlyProposal
<1>6. q.approval_count = Cardinality(Approvers(id))' /\ q.veto_count = Cardinality(Vetoers(id))'
  BY <1>2, <1>4, OneMoreVote, Zenon
<1>7. ReadsTypeOK'
  <2>1. ~(id > read_proposal_count)
    <3>1. NoProposal.status = "None"
      BY Zenon DEF NoProposal
    <3> QED
      BY <1>1, <3>1 DEF IInv, ReadsTypeOK, p
  <2> QED
    BY <1>2, <1>5, <2>1, Zenon DEF IInv, ReadsTypeOK, Voted
<1>8. CountsMatchVotes'
  BY <1>5, <1>6, OneMoreVote, ZenonT(30) DEF IInv, CountsMatchVotes, get_proposal
<1>9. q.approval_count \in Nat /\ q.veto_count \in Nat /\ Threshold \in Nat
  BY <1>2, GovernanceAssumption, FS_CardinalityType DEF Proposals
<1>10. OpenBelowQuorum'
  <2>1. q.created_at <= timestamp /\ (q.status = "Pending" => q.approval_count < Threshold
                                                      /\ q.veto_count < Threshold)
    <3>1. q.created_at <= timestamp
      BY <1>2, <1>3, Zenon DEF SameTerms
    <3>2. ASSUME q.status = "Pending"
          PROVE  q.approval_count < Threshold /\ q.veto_count < Threshold
      BY <1>2, <1>3, <1>9, <3>2, NaturalFacts, ZenonT(30)
    <3> QED
      BY <3>1, <3>2, Zenon
  <2> QED
    BY <1>1, <1>5, <2>1, Zenon DEF IInv, OpenBelowQuorum
<1>11. ExecutedByQuorum'
  <2>1. q.status \in {"Queued", "Executed"} =>
          /\ Cardinality(Approvers(id))' >= Threshold
          /\ Cardinality(Vetoers(id))' < Threshold
          /\ q.created_at <= q.queued_at /\ q.queued_at < q.expires_at
    BY <1>1, <1>2, <1>3, <1>6, Zenon DEF SameTerms
  <2>2. q.status # "Executed"
    BY <1>2
  <2> QED
    BY <1>5, <2>1, <2>2, OneMoreVote, ZenonT(30) DEF IInv, ExecutedByQuorum
<1> QED
  BY <1>7, <1>8, <1>10, <1>11, Zenon DEF ReadsInv

(* propose opens an entry beyond the counter, with no votes.                *)
LEMMA ProposedKeeps ==
  ASSUME IInv, NEW id \in ProposalIds, NEW call \in Calls, NEW args \in Payloads,
         id = read_proposal_count + 1, OnlyProposal(id, NewProposal(call, args, timestamp)), SameVotes,
         timestamp' = timestamp, read_proposal_count' = id
  PROVE  ReadsInv'
<1> DEFINE q == NewProposal(call, args, timestamp)
<1>1. /\ q \in Proposals /\ q.status = "Pending" /\ q.created_at = timestamp /\ timestamp \in Nat
      /\ q.approval_count = 0 /\ q.veto_count = 0
  BY NewFields, Zenon DEF IInv, StorageTypeOK
<1>2. read_proposal(id)' = q /\ \A i \in ProposalIds \ {id} : read_proposal(i)' = read_proposal(i)
  BY DEF OnlyProposal
<1> HIDE DEF q
<1>3. read_proposal_count \in Nat
  BY Zenon DEF IInv, ReadsTypeOK
<1>4. \A i \in ProposalIds : Approvers(i)' = Approvers(i) /\ Vetoers(i)' = Vetoers(i)
  BY Zenon DEF SameVotes, Approvers, Vetoers, get_vote
<1>5. Approvers(id) = {} /\ Vetoers(id) = {}
  BY <1>3 DEF IInv, ReadsTypeOK, Approvers, Vetoers, get_vote
<1>6. Cardinality(Approvers(id)) = 0 /\ Cardinality(Vetoers(id)) = 0
  BY <1>5, FS_EmptySet, Zenon
<1>7. ReadsTypeOK'
  <2>1. \A i \in ProposalIds : i > id => i # id /\ i > read_proposal_count
    BY <1>3 DEF ProposalIds
  <2> QED
    BY <1>1, <1>2, <1>3, <2>1 DEF IInv, ReadsTypeOK, SameVotes
<1>8. CountsMatchVotes'
  BY <1>1, <1>2, <1>4, <1>6, Zenon DEF IInv, CountsMatchVotes, get_proposal
<1>9. OpenBelowQuorum'
  BY <1>1, <1>2, GovernanceAssumption DEF IInv, OpenBelowQuorum
<1>10. ExecutedByQuorum'
  BY <1>1, <1>2, <1>4, Zenon DEF IInv, ExecutedByQuorum
<1> QED
  BY <1>7, <1>8, <1>9, <1>10, Zenon DEF ReadsInv

-----------------------------------------------------------------------------
(* Each call is a step of its kind.                                         *)

(* propose writes the entry after the last one read, in either storage.     *)
LEMMA ProposeReads ==
  ASSUME IInv, NEW caller \in Callers, NEW call \in Calls, NEW args \in Payloads,
         propose(caller, call, args), UNCHANGED timestamp
  PROVE  LET id == read_proposal_count + 1 IN
         /\ id \in ProposalIds
         /\ OnlyProposal(id, NewProposal(call, args, timestamp)) /\ SameVotes
         /\ read_proposal_count' = id
         /\ StorageTypeOK'
<1> DEFINE id == read_proposal_count + 1
<1>1. /\ id \in ProposalIds /\ proposal_count' = id
      /\ write_proposal(id, NewProposal(call, args, timestamp))
      /\ UNCHANGED <<vote, legacy, timestamp>>
  BY Zenon DEF propose, write_proposal_count
<1>2. NewProposal(call, args, timestamp) \in Proposals
  BY NewFields, Zenon DEF IInv, StorageTypeOK
<1>3. read_proposal_count \in Nat
  BY Zenon DEF IInv, ReadsTypeOK
<1>4. OnlyProposal(id, NewProposal(call, args, timestamp))
  BY <1>1, <1>2, ReadAfterWrite
<1>5. SameVotes
  BY <1>1, Zenon DEF SameVotes, read_vote
<1> HIDE DEF id
<1>6. id \in Int /\ id # -1
  BY <1>1, GovernanceAssumption, NaturalFacts, Zenon DEF ProposalIds
<1>7. read_proposal_count' = id
  BY <1>1, <1>6, Zenon DEF read_proposal_count
<1>8. StorageTypeOK'
  BY <1>1, <1>6, Zenon DEF IInv, StorageTypeOK, write_proposal
<1> QED
  BY <1>1, <1>4, <1>5, <1>7, <1>8, Zenon DEF id

(* A vote moves the proposal it read, wherever it was, to persistent        *)
(* storage.                                                                 *)
LEMMA VoteReads ==
  ASSUME IInv, NEW caller \in Callers, NEW id \in ProposalIds, NEW choice \in {"Approve", "Veto"},
         NEW q, MayVote(caller, id), write_vote(id, caller, choice), write_proposal(id, q),
         q = IF choice = "Approve" THEN AfterApprove(read_proposal(id))
                                   ELSE AfterVeto(read_proposal(id)),
         UNCHANGED <<timestamp, proposal_count, legacy>>
  PROVE  caller \in Signers /\ Voted(caller, id, choice, q) /\ StorageTypeOK'
<1>1. /\ caller \in Signers /\ read_proposal(id).status = "Pending"
      /\ ~(timestamp >= read_proposal(id).expires_at) /\ read_vote(id, caller) = "None"
  BY DEF MayVote, require_signer, is_expired
<1>2. read_proposal(id) \in Proposals /\ timestamp \in Nat
  BY <1>1, ExistingTyped, Zenon DEF IInv, StorageTypeOK
<1>3. timestamp < read_proposal(id).expires_at
  BY <1>1, <1>2 DEF Proposals
<1>4. q \in Proposals
  BY <1>2, ApproveFields, VetoFields
<1>5. OnlyProposal(id, q)
  BY <1>4, ReadAfterWrite, Zenon
<1>6. /\ vote' \in [ProposalIds -> [Signers -> Choices]]
      /\ \A i \in ProposalIds, s \in Signers :
           read_vote(i, s)' = IF i = id /\ s = caller THEN choice ELSE read_vote(i, s)
  BY <1>1, VoteAfterWrite
<1>7. read_proposal_count' = read_proposal_count
  BY DEF read_proposal_count
<1>8. StorageTypeOK'
  BY <1>6, Zenon DEF IInv, StorageTypeOK, write_proposal
<1> QED
  BY <1>1, <1>3, <1>5, <1>6, <1>7, <1>8, Zenon DEF Voted

(* A step that closes a proposal, by cancelling or executing it. *)
Closed(id, q) ==
  LET p == read_proposal(id) IN
  /\ OnlyProposal(id, q) /\ SameVotes /\ UNCHANGED <<timestamp, read_proposal_count>>
  /\ q \in Proposals /\ SameTerms(p, q)
  /\ q.approval_count = p.approval_count /\ q.veto_count = p.veto_count
  /\ \/ p.status = "Pending" /\ q.status = "Cancelled"
     \/ /\ p.status = "Queued" /\ q.status = "Executed"
        /\ q.queued_at = p.queued_at /\ q.executed_at = timestamp
        /\ p.queued_at + p.timelock_seconds <= timestamp /\ timestamp < p.expires_at
        /\ is_executable_call(p.call)

(* cancel and execute do so too, and leave the votes alone.                 *)
LEMMA CloseReads ==
  ASSUME IInv, NEW caller \in Callers, NEW id \in ProposalIds,
         cancel(caller, id) \/ execute(caller, id), UNCHANGED timestamp
  PROVE  (\E q \in Proposals : Closed(id, q)) /\ StorageTypeOK'
<1> DEFINE p == read_proposal(id)
           c == [p EXCEPT !.status = "Cancelled"]
           e == [p EXCEPT !.status = "Executed", !.executed_at = timestamp]
<1>1. p.status \in {"Pending", "Queued"} /\ UNCHANGED <<proposal_count, vote, legacy, timestamp>>
  BY DEF cancel, execute, MayCancel
<1>2. p \in Proposals /\ timestamp \in Nat
  BY <1>1, ExistingTyped, ZenonT(30) DEF IInv, StorageTypeOK
<1>3. SameVotes /\ read_proposal_count' = read_proposal_count
  BY <1>1, Zenon DEF SameVotes, read_vote, read_proposal_count
<1>4. /\ c \in Proposals /\ SameTerms(p, c) /\ c.status = "Cancelled"
      /\ c.approval_count = p.approval_count /\ c.veto_count = p.veto_count
      /\ e \in Proposals /\ SameTerms(p, e) /\ e.status = "Executed" /\ e.executed_at = timestamp
      /\ e.approval_count = p.approval_count /\ e.veto_count = p.veto_count
      /\ e.queued_at = p.queued_at
  BY <1>2, CloseFields, Zenon
<1>5. StorageTypeOK'
  BY <1>1 DEF cancel, execute, IInv, StorageTypeOK, write_proposal
<1>6. CASE cancel(caller, id)
  <2>1. p.status = "Pending" /\ write_proposal(id, c)
    BY <1>6 DEF cancel, MayCancel
  <2> HIDE DEF c, e
  <2>2. OnlyProposal(id, c)
    BY <1>1, <1>4, <2>1, ReadAfterWrite, Zenon
  <2>3. Closed(id, c)
    BY <1>1, <1>3, <1>4, <2>1, <2>2, ZenonT(30) DEF Closed
  <2> QED
    BY <1>4, <1>5, <2>3, Zenon
<1>7. CASE execute(caller, id)
  <2>1. /\ p.status = "Queued" /\ write_proposal(id, e) /\ is_executable_call(p.call)
        /\ ~(timestamp >= p.expires_at) /\ timestamp >= p.queued_at + p.timelock_seconds
    BY <1>7 DEF execute, is_expired, TimelockElapsed
  <2>2. timestamp < p.expires_at /\ p.queued_at + p.timelock_seconds <= timestamp
    BY <1>2, <2>1 DEF Proposals
  <2> HIDE DEF c, e
  <2>3. OnlyProposal(id, e)
    BY <1>1, <1>4, <2>1, ReadAfterWrite, ZenonT(30)
  <2>4. Closed(id, e)
    BY <1>1, <1>3, <1>4, <2>1, <2>2, <2>3, ZenonT(30) DEF Closed
  <2> QED
    BY <1>4, <1>5, <2>4, Zenon
<1> QED
  BY <1>6, <1>7

(* The kinds are all the steps there are.                                   *)
LEMMA StepKinds ==
  ASSUME IInv, [Next]_vars
  PROVE  /\ StorageTypeOK'
         /\ \/ Quiet /\ timestamp' \in Nat /\ timestamp <= timestamp'
            \/ \E call \in Calls, args \in Payloads :
                 LET id == read_proposal_count + 1 IN
                 /\ id \in ProposalIds /\ OnlyProposal(id, NewProposal(call, args, timestamp))
                 /\ SameVotes /\ read_proposal_count' = id /\ timestamp' = timestamp
            \/ \E voter \in Signers, id \in ProposalIds, choice \in {"Approve", "Veto"}, q \in Proposals :
                 /\ Voted(voter, id, choice, q)
                 /\ q = IF choice = "Approve" THEN AfterApprove(read_proposal(id))
                                              ELSE AfterVeto(read_proposal(id))
            \/ \E id \in ProposalIds, q \in Proposals : Closed(id, q)
<1>1. ASSUME NEW caller \in Callers, NEW call \in Calls, NEW args \in Payloads,
             propose(caller, call, args), UNCHANGED timestamp
      PROVE  /\ StorageTypeOK'
             /\ LET id == read_proposal_count + 1 IN
                /\ id \in ProposalIds /\ OnlyProposal(id, NewProposal(call, args, timestamp))
                /\ SameVotes /\ read_proposal_count' = id /\ timestamp' = timestamp
  BY <1>1, ProposeReads, Zenon
<1>2. ASSUME NEW caller \in Callers, NEW id \in ProposalIds,
             vote_approve(caller, id) \/ vote_veto(caller, id), UNCHANGED timestamp
      PROVE  /\ StorageTypeOK'
             /\ \E voter \in Signers, choice \in {"Approve", "Veto"}, q \in Proposals :
                  /\ Voted(voter, id, choice, q)
                  /\ q = IF choice = "Approve" THEN AfterApprove(read_proposal(id))
                                               ELSE AfterVeto(read_proposal(id))
  <2>1. MayVote(caller, id) /\ UNCHANGED <<timestamp, proposal_count, legacy>>
    BY <1>2, Zenon DEF vote_approve, vote_veto
  <2>2. read_proposal(id) \in Proposals /\ timestamp \in Nat
    BY <2>1, ExistingTyped, Zenon DEF MayVote, IInv, StorageTypeOK
  <2>3. AfterApprove(read_proposal(id)) \in Proposals /\ AfterVeto(read_proposal(id)) \in Proposals
    BY <2>2, ApproveFields, VetoFields, Zenon
  <2>4. CASE vote_approve(caller, id)
    <3>1. /\ write_vote(id, caller, "Approve")
          /\ write_proposal(id, AfterApprove(read_proposal(id)))
      BY <2>4, Zenon DEF vote_approve, AfterApprove
    <3> QED
      BY <2>1, <2>3, <3>1, VoteReads
  <2>5. CASE vote_veto(caller, id)
    <3>1. /\ write_vote(id, caller, "Veto")
          /\ write_proposal(id, AfterVeto(read_proposal(id)))
      BY <2>5 DEF vote_veto, AfterVeto
    <3> QED
      BY <2>1, <2>3, <3>1, VoteReads
  <2> QED
    BY <1>2, <2>4, <2>5
<1>3. ASSUME NEW caller \in Callers, NEW id \in ProposalIds,
             cancel(caller, id) \/ execute(caller, id), UNCHANGED timestamp
      PROVE  StorageTypeOK' /\ \E q \in Proposals : Closed(id, q)
  BY <1>3, CloseReads, Zenon
<1>4. ASSUME NEW caller \in Callers, migrate_storage(caller), UNCHANGED timestamp
      PROVE  StorageTypeOK' /\ Quiet /\ timestamp' \in Nat /\ timestamp <= timestamp'
  <2>1. Quiet
    BY <1>4, MigrationQuiet, Zenon
  <2>2. StorageTypeOK'
    BY <1>4, Zenon DEF migrate_storage, IInv, StorageTypeOK
  <2>3. timestamp \in Nat /\ timestamp' = timestamp
    BY <1>4, Zenon DEF IInv, StorageTypeOK
  <2>4. timestamp' \in Nat /\ timestamp <= timestamp'
    BY ONLY <2>3
  <2> QED
    BY <2>1, <2>2, <2>4, Zenon
<1>5. ASSUME UNCHANGED storage, timestamp' \in Nat, timestamp <= timestamp'
      PROVE  StorageTypeOK' /\ Quiet
  BY <1>5 DEF storage, IInv, StorageTypeOK, Quiet, SameVotes, read_proposal, read_vote,
              read_proposal_count
<1>6. CASE AdvanceTime
  <2>1. UNCHANGED storage /\ timestamp' \in Nat /\ timestamp <= timestamp'
    BY <1>6 DEF AdvanceTime, IInv, StorageTypeOK
  <2> QED
    BY <1>5, <2>1, Zenon
<1>7. CASE UNCHANGED vars
  <2>1. UNCHANGED storage /\ timestamp' \in Nat /\ timestamp <= timestamp'
    BY <1>7 DEF vars, IInv, StorageTypeOK
  <2> QED
    BY <1>5, <2>1, Zenon
<1> QED
  BY <1>1, <1>2, <1>3, <1>4, <1>6, <1>7, Zenon DEF Next

(* Every step preserves the invariant.                                      *)
LEMMA IInvStep == IInv /\ [Next]_vars => IInv'
<1> SUFFICES ASSUME IInv, [Next]_vars
             PROVE  IInv'
  OBVIOUS
<1>1. ASSUME NEW id \in ProposalIds, NEW q \in Proposals, Closed(id, q)
      PROVE  ReadsInv'
  BY <1>1, ClosedKeeps, Zenon DEF Closed
<1>2. ReadsInv'
  BY <1>1, StepKinds, QuietKeeps, ProposedKeeps, VotedKeeps, Zenon
<1> QED
  BY <1>2, StepKinds DEF IInv, ReadsInv

(* Instance storage holds at most one proposal, approved by A so far. *)
LegacyOpen(A) ==
  /\ Cardinality(A) \in Nat /\ Cardinality(A) < Threshold
  /\ legacy.count \in {-1, 1}
  /\ \A i \in ProposalIds :
       \/ /\ legacy.proposal[i] = NoProposal
          /\ \A s \in Signers : legacy.vote[i][s] = "None"
       \/ /\ i = 1 /\ legacy.count = 1
          /\ legacy.proposal[i] \in Proposals
          /\ legacy.proposal[i].status = "Pending" /\ legacy.proposal[i].created_at = 0
          /\ legacy.proposal[i].approval_count = Cardinality(A)
          /\ legacy.proposal[i].veto_count = 0
          /\ \A s \in Signers : legacy.vote[i][s] = IF s \in A THEN "Approve" ELSE "None"

(* A contract starts with nothing in persistent storage and, if it is an    *)
(* upgraded one, an open proposal in instance storage.                      *)
LEMMA IInvInit == Init => IInv
<1> SUFFICES ASSUME Init
             PROVE  IInv
  OBVIOUS
<1> USE GovernanceAssumption DEF Init
<1>1. NoProposal.status = "None" /\ NoProposal.approval_count = 0 /\ NoProposal.veto_count = 0
  BY DEF NoProposal
<1>2. \A i \in ProposalIds : read_proposal(i) = legacy.proposal[i]
  BY <1>1, ZenonT(30) DEF read_proposal
<1>3. \A i \in ProposalIds, s \in Signers : read_vote(i, s) = legacy.vote[i][s]
  BY Zenon DEF read_vote, NoVotes
<1>4. read_proposal_count = IF legacy.count # -1 THEN legacy.count ELSE 0
  BY Zenon DEF read_proposal_count
<1>5. \E A \in SUBSET Signers : LegacyOpen(A)
  <2>1. CASE legacy = NoLegacy
    <3>1. {} \in SUBSET Signers /\ Cardinality({}) = 0
      BY FS_EmptySet, Zenon
    <3>2. Cardinality({}) \in Nat /\ Cardinality({}) < Threshold
      <4>1. Threshold \in Nat /\ 0 < Threshold
        BY GovernanceAssumption, FS_CardinalityType, NaturalFacts, Zenon
      <4> QED
        BY <3>1, <4>1
    <3>3. legacy.count = -1 /\ \A i \in ProposalIds :
            legacy.proposal[i] = NoProposal /\ \A s \in Signers : legacy.vote[i][s] = "None"
      BY <2>1 DEF NoLegacy, NoVotes
    <3>4. LegacyOpen({})
      BY <1>1, <3>1, <3>2, <3>3, Zenon DEF LegacyOpen
    <3> QED
      BY <3>1, <3>4, Zenon
  <2>2. ASSUME NEW call \in Calls, NEW args \in Payloads, NEW A \in SUBSET Signers,
               Cardinality(A) < Threshold, legacy = LegacyEntry(call, args, A)
        PROVE  LegacyOpen(A)
    <3>1. Cardinality(A) \in Nat
      BY FS_Subset, FS_CardinalityType, Zenon
    <3> DEFINE new == NewProposal(call, args, 0)
               p == [new EXCEPT !.approval_count = Cardinality(A)]
               V == [s \in Signers |-> IF s \in A THEN "Approve" ELSE "None"]
    <3>2. new \in Proposals /\ new.status = "Pending" /\ new.created_at = 0 /\ new.veto_count = 0
      BY NewFields
    <3>3. /\ legacy.count = 1
          /\ legacy.proposal = [i \in ProposalIds |-> IF i = 1 THEN p ELSE NoProposal]
          /\ legacy.vote = [NoVotes EXCEPT ![1] = V]
      BY <2>2 DEF LegacyEntry
    <3> HIDE DEF new
    <3>4. /\ p \in Proposals /\ p.status = "Pending" /\ p.created_at = 0 /\ p.veto_count = 0
          /\ p.approval_count = Cardinality(A)
      BY <3>1, <3>2, Zenon DEF Proposals
    <3> HIDE DEF p
    <3>5. \A i \in ProposalIds, s \in Signers :
            legacy.vote[i][s] = IF i = 1 /\ s \in A THEN "Approve" ELSE "None"
      <4> SUFFICES ASSUME NEW i \in ProposalIds, NEW s \in Signers
                   PROVE  legacy.vote[i][s] = IF i = 1 /\ s \in A THEN "Approve" ELSE "None"
        BY Zenon
      <4>1. NoVotes[i][s] = "None" /\ DOMAIN NoVotes = ProposalIds
        BY Zenon DEF NoVotes
      <4>2. V[s] = IF s \in A THEN "Approve" ELSE "None"
        BY Zenon
      <4> HIDE DEF V
      <4> QED
        BY <3>3, <4>1, <4>2, ZenonT(30)
    <3>6. \A i \in ProposalIds : legacy.proposal[i] = IF i = 1 THEN p ELSE NoProposal
      BY <3>3, Zenon
    <3> QED
      BY <2>2, <3>1, <3>3, <3>4, <3>5, <3>6 DEF LegacyOpen
  <2> QED
    BY <2>1, <2>2
<1>6. PICK A \in SUBSET Signers : LegacyOpen(A)
  BY <1>5, Zenon
<1>7. StorageTypeOK
  <2>1. /\ timestamp = 0 /\ proposal = [id \in ProposalIds |-> NoProposal]
        /\ proposal_count = -1 /\ vote = NoVotes
    BY Zenon DEF Init
  <2>2. NoVotes \in [ProposalIds -> [Signers -> Choices]]
    BY Zenon DEF NoVotes, Choices
  <2>3. legacy.count \in Int
    <3>1. legacy.count \in {-1, 1}
      BY <1>6, Zenon DEF LegacyOpen
    <3> QED
      BY ONLY <3>1
  <2>4. \A id \in ProposalIds, s \in Signers : legacy.vote[id][s] \in Choices
    BY <1>6, ZenonT(30) DEF LegacyOpen, Choices
  <2>5. 0 \in Nat /\ -1 \in Int
    OBVIOUS
  <2> QED
    BY <2>1, <2>2, <2>3, <2>4, <2>5, Zenon DEF StorageTypeOK
<1>8. ReadsTypeOK
  <2>1. read_proposal_count \in Nat /\ (legacy.count = 1 => read_proposal_count = 1)
    <3>1. legacy.count \in {-1, 1}
      BY <1>6, Zenon DEF LegacyOpen
    <3> QED
      BY ONLY <1>4, <3>1
  <2>2. ASSUME NEW i \in ProposalIds
        PROVE  /\ read_proposal(i) \in Proposals \/ read_proposal(i) = NoProposal
               /\ i > read_proposal_count => /\ read_proposal(i) = NoProposal
                                             /\ \A s \in Signers : read_vote(i, s) = "None"
    <3>1. CASE legacy.proposal[i] = NoProposal /\ \A s \in Signers : legacy.vote[i][s] = "None"
      BY <1>2, <1>3, <3>1, Zenon
    <3>2. CASE i = 1 /\ legacy.count = 1 /\ legacy.proposal[i] \in Proposals
      <4>1. ~(i > read_proposal_count)
        BY <2>1, <3>2
      <4> QED
        BY <1>2, <3>2, <4>1, Zenon
    <3> QED
      BY <1>6, <3>1, <3>2, Zenon DEF LegacyOpen
  <2> QED
    BY <2>1, <2>2, Zenon DEF ReadsTypeOK
<1>9. CountsMatchVotes
  <2> SUFFICES ASSUME NEW i \in ProposalIds
               PROVE  /\ read_proposal(i).approval_count = Cardinality(Approvers(i))
                      /\ read_proposal(i).veto_count = Cardinality(Vetoers(i))
    BY DEF CountsMatchVotes, get_proposal
  <2>1. Vetoers(i) = {}
    BY <1>3, <1>6, ZenonT(30) DEF LegacyOpen, Vetoers, get_vote
  <2>2. CASE legacy.proposal[i] = NoProposal /\ \A s \in Signers : legacy.vote[i][s] = "None"
    <3>1. Approvers(i) = {}
      BY <1>3, <2>2, ZenonT(30) DEF Approvers, get_vote
    <3> QED
      BY <1>1, <1>2, <2>1, <2>2, <3>1, FS_EmptySet, ZenonT(30)
  <2>3. CASE ~(legacy.proposal[i] = NoProposal /\ \A s \in Signers : legacy.vote[i][s] = "None")
    <3>1. /\ legacy.proposal[i].approval_count = Cardinality(A)
          /\ legacy.proposal[i].veto_count = 0
          /\ \A s \in Signers : legacy.vote[i][s] = IF s \in A THEN "Approve" ELSE "None"
      BY <1>6, <2>3, Zenon DEF LegacyOpen
    <3>2. Approvers(i) = A
      BY <1>3, <3>1, Zenon DEF Approvers, get_vote
    <3> QED
      BY <1>2, <2>1, <3>1, <3>2, FS_EmptySet, Zenon
  <2> QED
    BY <2>2, <2>3, Zenon
<1>10. OpenBelowQuorum
  <2>1. 0 < Threshold /\ 0 <= 0 /\ timestamp = 0
    OBVIOUS
  <2>2. ASSUME NEW i \in ProposalIds
        PROVE  /\ legacy.proposal[i].status # "None" => legacy.proposal[i].created_at <= 0
               /\ legacy.proposal[i].status = "Pending" =>
                    /\ legacy.proposal[i].approval_count < Threshold
                    /\ legacy.proposal[i].veto_count < Threshold
    <3>1. CASE legacy.proposal[i] = NoProposal
      BY ONLY <1>1, <3>1, Zenon
    <3>2. CASE /\ legacy.proposal[i].created_at = 0 /\ legacy.proposal[i].veto_count = 0
               /\ legacy.proposal[i].approval_count = Cardinality(A) /\ Cardinality(A) < Threshold
      BY ONLY <2>1, <3>2, Zenon
    <3> QED
      BY <1>6, <3>1, <3>2, Zenon DEF LegacyOpen
  <2> QED
    BY <1>2, <2>1, <2>2, Zenon DEF OpenBelowQuorum
<1>11. ExecutedByQuorum
  BY <1>1, <1>2, <1>6, Zenon DEF LegacyOpen, ExecutedByQuorum
<1> QED
  BY <1>7, <1>8, <1>9, <1>10, <1>11, Zenon DEF IInv

(* The invariant holds in every behaviour of the contract.                  *)
THEOREM IInvHolds == Spec => []IInv
<1> QED
  BY IInvInit, IInvStep, PTL DEF Spec

-----------------------------------------------------------------------------
(* The counters of a proposal are the numbers of distinct signers recorded  *)
(* on each side, in whichever storage vote_approve and vote_veto found it.  *)
THEOREM CountsTrue == Spec => []CountsMatchVotes
<1>1. IInv => CountsMatchVotes
  BY DEF IInv
<1> QED
  BY <1>1, IInvHolds, PTL

(* execute runs a proposal only with a quorum of distinct signers behind    *)
(* it, after the timelock and before the proposal expires.                  *)
THEOREM QuorumBehindExecution == Spec => []ExecutedByQuorum
<1>1. IInv => ExecutedByQuorum
  BY DEF IInv
<1> QED
  BY <1>1, IInvHolds, PTL

(* The allowlist changes only by executing a queued proposal that names the *)
(* new list, and the nonce in its arguments is used up; what is executed    *)
(* against another contract is on the list at that moment.                  *)
THEOREM AllowlistGoverned == Spec => AllowlistByProposal
<1> DEFINE Governed ==
      get_allowed_calls' # get_allowed_calls \/ self_nonce' # self_nonce =>
        \E id \in ProposalIds :
          /\ get_proposal(id).status = "Queued" /\ get_proposal(id)'.status = "Executed"
          /\ get_proposal(id).call.contract = Self
          /\ get_proposal(id).args.nonce = self_nonce
          /\ get_allowed_calls' = {get_proposal(id).args.calls[i] :
                                 i \in 1 .. Len(get_proposal(id).args.calls)}
          /\ self_nonce' = self_nonce + 1
    Allowed(id) ==
      get_proposal(id).status # "Executed" /\ get_proposal(id)'.status = "Executed" =>
        \/ get_proposal(id).call.contract = Self
        \/ get_proposal(id).call \in get_allowed_calls
<1>1. ASSUME IInv, [Next]_vars
      PROVE  Governed
  <2> SUFFICES ASSUME allowed_calls' # allowed_calls \/ self_nonce' # self_nonce
               PROVE  Governed
    BY SMTT(30) DEF get_allowed_calls, read_allowed_calls
  <2>1. PICK caller \in Callers, id \in ProposalIds : execute(caller, id) /\ UNCHANGED timestamp
    BY <1>1, Zenon DEF Next, vars, propose, vote_approve, vote_veto, cancel, migrate_storage, AdvanceTime
  <2>2. read_proposal(id).call.contract = Self /\ SetAllowedCalls(read_proposal(id).args)
    BY <2>1 DEF execute
  <2>3. read_proposal(id).status = "Queued"
    BY <2>1, Zenon DEF execute
  <2>4. read_proposal(id)'.status = "Executed"
    <3>1. PICK q \in Proposals : Closed(id, q)
      BY <1>1, <2>1, CloseReads, Zenon
    <3> QED
      BY <2>3, <3>1, Zenon DEF Closed, OnlyProposal
  <2> QED
    BY <2>2, <2>3, <2>4, Zenon DEF SetAllowedCalls, get_proposal, get_allowed_calls, read_allowed_calls
<1>2. ASSUME IInv, [Next]_vars, NEW id \in ProposalIds
      PROVE  Allowed(id)
  <2> USE DEF get_proposal
  <2>1. CASE Quiet
    BY <2>1, Zenon DEF Quiet
  <2>2. ASSUME NEW n \in ProposalIds, NEW q, OnlyProposal(n, q), q.status # "Executed"
        PROVE  Allowed(id)
    BY <2>2, Zenon DEF OnlyProposal
  <2>3. ASSUME NEW call \in Calls, NEW args \in Payloads
        PROVE  NewProposal(call, args, timestamp).status # "Executed"
    BY Zenon DEF NewProposal
  <2>4. ASSUME NEW voter \in Signers, NEW n \in ProposalIds, NEW choice \in {"Approve", "Veto"},
               NEW q \in Proposals, Voted(voter, n, choice, q),
               q = IF choice = "Approve" THEN AfterApprove(read_proposal(n))
                                         ELSE AfterVeto(read_proposal(n))
        PROVE  Allowed(id)
    <3>1. read_proposal(n) \in Proposals /\ timestamp \in Nat /\ read_proposal(n).status = "Pending"
      BY <1>2, <2>4, ExistingTyped, ZenonT(30) DEF Voted, IInv, StorageTypeOK
    <3>2. q.status \in {"Pending", "Queued", "Rejected"}
      BY <2>4, <3>1, ApproveFields, VetoFields, Zenon
    <3> QED
      BY <2>2, <2>4, <3>2, Zenon DEF Voted
  <2>5. ASSUME NEW n \in ProposalIds, NEW q \in Proposals, Closed(n, q)
        PROVE  Allowed(id)
    <3>1. OnlyProposal(n, q) /\ (q.status # "Executed" \/ is_executable_call(read_proposal(n).call))
      BY <2>5, Zenon DEF Closed
    <3>2. CASE q.status # "Executed"
      BY <2>2, <3>1, <3>2, Zenon
    <3>3. CASE is_executable_call(read_proposal(n).call)
      <4>1. \/ read_proposal(n).call.contract = Self
            \/ read_proposal(n).call \in get_allowed_calls
        BY <3>3, Zenon DEF is_executable_call, is_call_allowed, get_allowed_calls
      <4> QED
        BY <3>1, <4>1, Zenon DEF OnlyProposal
    <3> QED
      BY <3>1, <3>2, <3>3, Zenon
  <2> HIDE DEF Allowed
  <2> QED
    BY <1>2, <2>1, <2>2, <2>3, <2>4, <2>5, StepKinds, Zenon
<1>3. ASSUME IInv, [Next]_vars
      PROVE  [Governed /\ \A id \in ProposalIds : Allowed(id)]_vars
  BY <1>1, <1>2, <1>3, Zenon
<1> QED
  BY <1>3, IInvHolds, PTL DEF Spec, AllowlistByProposal

(* A verdict, a vote and the terms of a proposal never change, and          *)
(* migrate_storage changes no answer.                                       *)
THEOREM DecisionsStand == Spec => DecisionsFinal
<1> DEFINE Kept(id) ==
      /\ get_proposal(id).status \in Terminal => get_proposal(id)' = get_proposal(id)
      /\ \A s \in Signers : get_vote(id, s) # "None" => get_vote(id, s)' = get_vote(id, s)
      /\ Exists(id) =>
           /\ Exists(id)'
           /\ get_proposal(id)'.call = get_proposal(id).call
           /\ get_proposal(id)'.args = get_proposal(id).args
           /\ get_proposal(id)'.expires_at = get_proposal(id).expires_at
    Migrated ==
      storage_version' # storage_version =>
        /\ get_proposal_count' = get_proposal_count
        /\ \A id \in ProposalIds : get_proposal(id)' = get_proposal(id)
<1>1. ASSUME IInv, [Next]_vars, NEW id \in ProposalIds
      PROVE  Kept(id)
  <2> USE DEF get_proposal, get_vote, Exists
  <2>1. CASE Quiet
    BY <2>1, Zenon DEF Quiet, SameVotes
  <2>2. ASSUME NEW n \in ProposalIds, NEW q, n = read_proposal_count + 1, OnlyProposal(n, q), SameVotes
        PROVE  Kept(id)
    <3>1. n > read_proposal_count
      BY <1>1, <2>2 DEF IInv, ReadsTypeOK
    <3>2. read_proposal(n).status = "None"
      BY <1>1, <3>1 DEF IInv, ReadsTypeOK, NoProposal
    <3> QED
      BY <2>2, <3>2, Zenon DEF OnlyProposal, SameVotes, Terminal
  <2>3. ASSUME NEW n \in ProposalIds, NEW q \in Proposals, OnlyProposal(n, q),
               SameTerms(read_proposal(n), q), read_proposal(n).status \in {"Pending", "Queued"},
               \A s \in Signers : read_vote(id, s) # "None" => read_vote(id, s)' = read_vote(id, s)
        PROVE  Kept(id)
    <3>1. q.status # "None"
      BY Zenon DEF Proposals, Statuses
    <3>2. CASE id = n
      BY <2>3, <3>1, <3>2, Zenon DEF OnlyProposal, SameTerms, Terminal
    <3>3. CASE id # n
      BY <2>3, <3>3, Zenon DEF OnlyProposal
    <3> QED
      BY <3>2, <3>3, Zenon
  <2>4. ASSUME NEW voter \in Signers, NEW n \in ProposalIds, NEW choice \in {"Approve", "Veto"},
               NEW q \in Proposals, Voted(voter, n, choice, q),
               q = IF choice = "Approve" THEN AfterApprove(read_proposal(n))
                                         ELSE AfterVeto(read_proposal(n))
        PROVE  Kept(id)
    <3>1. read_proposal(n) \in Proposals /\ timestamp \in Nat
      BY <1>1, <2>4, ExistingTyped, ZenonT(30) DEF Voted, IInv, StorageTypeOK
    <3>2. SameTerms(read_proposal(n), q)
      BY <2>4, <3>1, ApproveFields, VetoFields, Zenon
    <3> QED
      BY <2>3, <2>4, <3>2, Zenon DEF Voted
  <2>5. ASSUME NEW n \in ProposalIds, NEW q \in Proposals, Closed(n, q)
        PROVE  Kept(id)
    BY <2>3, <2>5, Zenon DEF Closed, SameVotes
  <2> HIDE DEF Kept
  <2> QED
    BY <1>1, <2>1, <2>2, <2>4, <2>5, StepKinds, Zenon
<1>2. ASSUME IInv, [Next]_vars
      PROVE  Migrated
  <2> SUFFICES ASSUME storage_version' # storage_version
               PROVE  Migrated
    BY SMTT(30)
  <2>1. PICK caller \in Callers : migrate_storage(caller)
    BY <1>2, Zenon DEF Next, vars, storage, propose, vote_approve, vote_veto, cancel, execute, AdvanceTime
  <2>2. Quiet
    BY <1>2, <2>1, MigrationQuiet, Zenon
  <2> QED
    BY <2>2 DEF Quiet, get_proposal, get_proposal_count
<1>3. ASSUME IInv, [Next]_vars
      PROVE  [(\A id \in ProposalIds : Kept(id)) /\ Migrated]_vars
  BY <1>1, <1>2, <1>3
<1> QED
  BY <1>3, IInvHolds, PTL DEF Spec, DecisionsFinal
=============================================================================
