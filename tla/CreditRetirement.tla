-------------------------- MODULE CreditRetirement --------------------------
(***************************************************************************)
(* The credit-retirement contract (contracts/credit-retirement/src/lib.rs)  *)
(* beside the coupon engine it deducts from.  Its entries moved from        *)
(* instance to persistent storage: a deployment upgraded across the move    *)
(* has its earlier entries in instance storage, which is only read.         *)
(***************************************************************************)
EXTENDS CouponEngine, VintageYear

CONSTANTS
  LegacyRecords,    \* retirements made before the move, by id
  MaxRetirements    \* bound on the number of retirements

RetirementIds == 1 .. MaxRetirements
LegacyIds == 1 .. Len(LegacyRecords)

(* Legacy records are what the contract stored for retirements on bonds of  *)
(* this deployment; end_day is the day a report's monitoring window ended.  *)
ASSUME RetirementAssumption ==
  /\ MaxRetirements \in Nat
  /\ Len(LegacyRecords) \in 0 .. MaxRetirements
  /\ \A r \in Reports : ReportData[r].end_day \in Nat
  /\ \A i \in LegacyIds :
       LET record == LegacyRecords[i] IN
       /\ record.id = i
       /\ record.holder \in Addresses /\ record.bond_id \in BondIds
       /\ record.amount \in Nat \ {0} /\ record.report_id \in Reports
       /\ record.vintage_year = year_from_timestamp(ReportData[record.report_id].end_day)

VARIABLE persistent   \* the persistent entries: a function from keys to values

retirementAllVars == <<couponAllVars, persistent>>

(* The keys of the enumeration DataKey. *)
RetirementCount == <<"RetirementCount">>
Retirement(id) == <<"Retirement", id>>
HolderRetirements(h) == <<"HolderRetirements", h>>
BondHolderRetirements(b, h) == <<"BondHolderRetirements", b, h>>
RetiredCredits(h) == <<"RetiredCredits", h>>
RetiredPerBond(b, h) == <<"RetiredPerBond", b, h>>

LegacyOf(h) == {i \in LegacyIds : LegacyRecords[i].holder = h}
LegacyOn(b, h) == {i \in LegacyOf(h) : LegacyRecords[i].bond_id = b}
LegacyAmount(ids) == Total(ids, [i \in ids |-> LegacyRecords[i].amount])

(* A holder's list of the legacy ids, each once.  Only appends and reads    *)
(* follow, so their order is left open.                                     *)
Elements(list) == {list[i] : i \in DOMAIN list}
LegacyList(h) ==
  CHOOSE list \in [1 .. Cardinality(LegacyOf(h)) -> LegacyOf(h)] : Elements(list) = LegacyOf(h)

(* The entries in instance storage.  The index by bond and holder came with *)
(* the move, so legacy records are not in it.                               *)
InstanceKeys ==
  LET holders == {LegacyRecords[i].holder : i \in LegacyIds} IN
  {RetirementCount : i \in LegacyIds} \cup {Retirement(i) : i \in LegacyIds}
    \cup {HolderRetirements(h) : h \in holders} \cup {RetiredCredits(h) : h \in holders}
    \cup {RetiredPerBond(b, h) : b \in BondIds, h \in holders}

Instance ==
  [k \in InstanceKeys |->
     CASE k[1] = "RetirementCount" -> Len(LegacyRecords)
       [] k[1] = "Retirement" -> LegacyRecords[k[2]]
       [] k[1] = "HolderRetirements" -> LegacyList(k[2])
       [] k[1] = "RetiredCredits" -> LegacyAmount(LegacyOf(k[2]))
       [] k[1] = "RetiredPerBond" -> LegacyAmount(LegacyOn(k[2], k[3]))]

RetirementInit == persistent = <<>>

-----------------------------------------------------------------------------
(* Helpers *)

(* MUTANT of read: instance storage is not looked up. *)
read_PersistentOnly(key, default) ==
  IF key \in DOMAIN persistent THEN persistent[key] ELSE default

read(key, default) ==
  IF key \in DOMAIN persistent THEN persistent[key]
  ELSE IF key \in DOMAIN Instance THEN Instance[key] ELSE default

(* The storage with the entry written. *)
write(storage, key, value) ==
  [k \in DOMAIN storage \cup {key} |-> IF k = key THEN value ELSE storage[k]]

(* MUTANT of get_retirement_count: a counter that was not migrated counts   *)
(* as zero.                                                                 *)
get_retirement_count_NoFallback ==
  IF RetirementCount \in DOMAIN persistent THEN persistent[RetirementCount] ELSE 0

get_retirement_count == read(RetirementCount, 0)

NoRecord == [id |-> 0]
get_retirement_record(id) == read(Retirement(id), NoRecord)
HasRecord(id) == get_retirement_record(id) # NoRecord

(* Carbon and blue carbon are kept together; a basket bond has both kinds.  *)
is_compatible_credit_type(bond_type, supplied) ==
  CASE bond_type \in {"Carbon", "BlueCarbon"} -> supplied \in {"Carbon", "BlueCarbon"}
    [] bond_type = "Biodiversity" -> supplied = "Biodiversity"
    [] OTHER -> supplied \in {"Carbon", "BlueCarbon", "Biodiversity"}

(* MUTANT of Deducted: the credits are compared but not taken. *)
Deducted_None(b, h, amount, type) ==
  deduct_caller /\ Deductible(b, h, amount, type) /\ UNCHANGED couponVars

Deducted(b, h, amount, type) == deduct_credits(b, h, amount, type)

-----------------------------------------------------------------------------
(* Contract calls *)

(* The total per bond, the counter, the record, the holder's total and the  *)
(* two indexes, one write after the other.                                  *)
RecordRetirement(record) ==
  LET h == record.holder
      b == record.bond_id
      per_bond == write(persistent, RetiredPerBond(b, h),
                        read(RetiredPerBond(b, h), 0) + record.amount)
      counted == write(per_bond, RetirementCount, record.id)
      recorded == write(counted, Retirement(record.id), record)
      totalled == write(recorded, RetiredCredits(h), read(RetiredCredits(h), 0) + record.amount)
      listed == write(totalled, HolderRetirements(h),
                      Append(read(HolderRetirements(h), <<>>), record.id))
  IN persistent' = write(listed, BondHolderRetirements(b, h),
                         Append(read(BondHolderRetirements(b, h), <<>>), record.id))

(* The record's project and monitoring window follow from its bond and      *)
(* report; they are left out, with the certificate's hash.                  *)
retire_credits(holder, b, project_id, p, amount, type) ==
  LET id == get_retirement_count + 1
      report_id == period_info[b][p].report_id
  IN
  /\ id \in RetirementIds
  /\ amount > 0
  /\ get_holder_balance(b, holder) > 0
  /\ bond_status[b] # "None"
  /\ BondProject(b) = project_id
  /\ is_compatible_credit_type(BondCreditType(b), type)
  /\ period_info[b][p].distributed
  /\ amount <= accrued_credits(b, holder)
  /\ Deducted(b, holder, amount, type)
  /\ RecordRetirement(
       [id |-> id, holder |-> holder, bond_id |-> b, period_index |-> p,
        report_id |-> report_id, amount |-> amount, credit_type |-> type,
        vintage_year |-> year_from_timestamp(ReportData[report_id].end_day)])
  /\ UNCHANGED <<vars, report_status, approved>>

(* Reading the counter migrates it. *)
total_retirements ==
  /\ persistent' = write(persistent, RetirementCount, get_retirement_count)
  /\ UNCHANGED couponAllVars

(* The host fails a TTL extension of a key without persistent entry, and    *)
(* the call with it.  The record itself is written first if need be.        *)
CanExtend(id) ==
  /\ HasRecord(id)
  /\ LET record == get_retirement_record(id) IN
     /\ HolderRetirements(record.holder) \in DOMAIN persistent
     /\ BondHolderRetirements(record.bond_id, record.holder) \in DOMAIN persistent

extend_retirement_ttl(id) ==
  /\ CanExtend(id)
  /\ persistent' = write(persistent, Retirement(id), get_retirement_record(id))
  /\ UNCHANGED couponAllVars

RetirementCall ==
  \/ \E holder \in Addresses, b \in BondIds, project_id \in {ReportData[r].hash : r \in Reports},
        p \in Periods, amount \in Retirements, type \in CreditTypes :
       retire_credits(holder, b, project_id, p, amount, type)
  \/ total_retirements
  \/ \E id \in RetirementIds : extend_retirement_ttl(id)

RetirementNext ==
  \/ RetirementCall
  \/ CouponStep /\ UNCHANGED persistent

RetirementSpec == CouponInit /\ RetirementInit /\ [][RetirementNext]_retirementAllVars

-----------------------------------------------------------------------------
(* Queries *)

certificate_from_record(record) ==
  [record_id |-> record.id, holder |-> record.holder, bond_id |-> record.bond_id,
   period_index |-> record.period_index, report_id |-> record.report_id,
   vintage_year |-> record.vintage_year, amount |-> record.amount,
   credit_type |-> record.credit_type]

get_retirement_certificate(id) == certificate_from_record(get_retirement_record(id))
get_holder_retirements(h) == read(HolderRetirements(h), <<>>)
get_total_retired(h) == read(RetiredCredits(h), 0)
get_bond_retirements(b, h) == read(BondHolderRetirements(b, h), <<>>)

(* A listed id without record is skipped: the answer is given by the        *)
(* positions of the list that are kept.                                     *)
get_bond_certificates(b, h) ==
  LET ids == get_bond_retirements(b, h) IN
  [i \in {i \in DOMAIN ids : HasRecord(ids[i])} |-> get_retirement_certificate(ids[i])]

-----------------------------------------------------------------------------
(* Properties *)

Certificate(i) == get_retirement_certificate(i)

(* The certificates of a holder, and their sum; on one bond, or on all. *)
CertificatesOf(h, bonds) ==
  {i \in RetirementIds :
     HasRecord(i) /\ Certificate(i).holder = h /\ Certificate(i).bond_id \in bonds}
AmountOf(ids) == Total(ids, [i \in ids |-> Certificate(i).amount])

(* A credit is spent once: what holders have left, what waits as dust and   *)
(* what was retired since the move never exceed what the distributions      *)
(* created, however retirements, claims, sweeps, trades and batches         *)
(* interleave.                                                              *)
NoDoubleSpend ==
  \A b \in BondIds :
    Total(Addresses, accrued[b]) + undistributed_total[b]
      + AmountOf((UNION {CertificatesOf(h, {b}) : h \in Addresses}) \ LegacyIds) <= Created(b)

TotalsTrue(h) ==
  /\ get_total_retired(h) = AmountOf(CertificatesOf(h, BondIds))
  /\ \A b \in BondIds : read(RetiredPerBond(b, h), 0) = AmountOf(CertificatesOf(h, {b}))
  /\ \A i \in CertificatesOf(h, BondIds) : Certificate(i).record_id = i

(* What the queries answer instead of scanning every record is true of the  *)
(* certificates, across the storage move: a holder's total and list, the    *)
(* total per bond, and the list per bond, which came with the move and      *)
(* leaves legacy certificates out.  Each carries the id it is found under.  *)
TotalsMatchRecords ==
  \A h \in Addresses :
    /\ TotalsTrue(h)
    /\ Elements(get_holder_retirements(h)) = CertificatesOf(h, BondIds)
    /\ \A b \in BondIds :
         LET since == CertificatesOf(h, {b}) \ LegacyIds IN
         /\ Elements(get_bond_retirements(b, h)) = since
         /\ Elements(get_bond_certificates(b, h)) = {Certificate(i) : i \in since}
         /\ Cardinality(DOMAIN get_bond_certificates(b, h)) = Cardinality(since)

(* A certificate is never overwritten or changed, whichever storage holds   *)
(* the counter and the record.                                              *)
CertificatesImmutable ==
  [][\A i \in RetirementIds : HasRecord(i) => Certificate(i)' = Certificate(i)]_retirementAllVars

(* The vintage year cached on a certificate is the calendar year in which   *)
(* the monitoring window of a verified report, paid out as a period of the  *)
(* certificate's bond, ended.                                               *)
CertificateVintage ==
  \A i \in RetirementIds : HasRecord(i) =>
    /\ InYear(ReportData[Certificate(i).report_id].end_day, Certificate(i).vintage_year)
    /\ i \notin LegacyIds =>
         /\ get_period_info(Certificate(i).bond_id, Certificate(i).period_index).report_id =
              Certificate(i).report_id
         /\ report_status[Certificate(i).report_id] = "Verified"
=============================================================================
